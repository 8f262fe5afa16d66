------------------------- MODULE ClientParts_proofs -------------------------
(***************************************************************************)
(* Parts of the client that share no state with each other: the volume of    *)
(* other applications, the stages an audio sample passes, the audio rig,     *)
(* the watchdogs of links and key, the guards of the shell's commands, and   *)
(* push-to-talk.                                                           *)
(***************************************************************************)
EXTENDS LinkWatch, Ducking, AudioPipe, VoiceChain, Boundary, PushToTalk, SequenceTheorems, TLAPS

-----------------------------------------------------------------------------
(***************************************************************************)
(* Ducking.  The edge sent last is the voice as it is now, so the worker     *)
(* that has nothing left to do either left the volumes lowered because       *)
(* voice is active, or put them back: what it still remembers then are       *)
(* sessions it could not reach.                                            *)
(***************************************************************************)
DuckTyped ==
  /\ percent \in 0 .. 100
  /\ active \in BOOLEAN
  /\ edges \in Seq(BOOLEAN)
  /\ listed \subseteq App
  /\ DOMAIN saved \subseteq App
  /\ saved \in [DOMAIN saved -> 0 .. Full]
  /\ vol \in [App -> 0 .. Full]
  /\ missed \subseteq App

LastEdgeIsVoice == edges # <<>> => edges[Len(edges)] = active

OnlyMissedRemembered == edges = <<>> /\ ~active => DOMAIN saved \subseteq missed

\* An application in reach is as loud as before, or remembered as it was.
NothingForgotten ==
  \A a \in App \ missed : IF a \in DOMAIN saved THEN saved[a] = Full ELSE vol[a] = Full

DuckInv == DuckTyped /\ LastEdgeIsVoice /\ OnlyMissedRemembered /\ NothingForgotten

LEMMA LoweredType ==
  ASSUME percent \in 0 .. 100, NEW v \in 0 .. 100
  PROVE  Lowered(v) \in 0 .. 100
<1> DEFINE q == 100 - percent
<1>1. q \in 0 .. 100
  OBVIOUS
<1>2. v * q \in 0 .. 10000
  <2> HIDE DEF q
  <2>1. v * q >= 0
    BY <1>1, SMT
  <2>2. v * q <= 100 * 100
    BY <1>1, SMT
  <2> QED
    BY <1>1, <2>1, <2>2
<1> QED
  <2> HIDE DEF q
  <2>1. \A m \in 0 .. 10000 : m \div 100 \in 0 .. 100
    BY SMT
  <2>2. PICK m \in 0 .. 10000 : m = v * q
    BY <1>2
  <2>3. m \div 100 \in 0 .. 100
    BY <2>1
  <2>4. Lowered(v) = m \div 100
    BY <2>2 DEF q, Lowered
  <2> QED
    BY <2>3, <2>4

LEMMA DuckInitInv == DuckInit => DuckInv
<1> SUFFICES ASSUME DuckInit PROVE DuckInv
  OBVIOUS
<1>1. /\ percent = 75 /\ active = FALSE /\ edges = <<>> /\ listed = App
      /\ vol = [a \in App |-> 100] /\ missed = {}
      /\ DOMAIN saved = {} /\ saved \in [{} -> 0 .. 100]
  BY DEF DuckInit, Full
<1>2. percent \in 0 .. 100
  BY <1>1
<1>5. active \in BOOLEAN /\ ~active
  BY <1>1
<1>4. edges \in Seq(BOOLEAN)
  BY <1>1, EmptySeq
<1>3. vol \in [App -> 0 .. 100] /\ \A a \in App : vol[a] = 100
  BY <1>1
<1> QED
  BY <1>1, <1>2, <1>3, <1>4, <1>5
  DEF DuckInv, DuckTyped, LastEdgeIsVoice, OnlyMissedRemembered,
                          NothingForgotten, Full

LEMMA DuckApply ==
  ASSUME DuckInv, NEW S \in SUBSET listed, Apply(S)
  PROVE  DuckInv'
<1> USE DEF Full
<1>0. /\ edges \in Seq(BOOLEAN) /\ edges # <<>> /\ edges' = Tail(edges)
      /\ UNCHANGED <<percent, active, listed>>
      /\ DuckTyped /\ LastEdgeIsVoice /\ NothingForgotten
  BY DEF Apply, DuckInv, DuckTyped
<1>1. edges' \in Seq(BOOLEAN)
  BY <1>0
<1>2. LastEdgeIsVoice'
  BY <1>0 DEF LastEdgeIsVoice
<1>3. edges' = <<>> => Head(edges) = active
  <2> SUFFICES ASSUME edges' = <<>> PROVE Head(edges) = active
    OBVIOUS
  <2>1. Len(edges) \in Nat /\ Len(edges') = Len(edges) - 1
    BY <1>0, HeadTailProperties, LenProperties
  <2>4. Len(edges') = 0
    OBVIOUS
  <2>2. Len(edges) = 1
    BY <1>0, <2>1, <2>4
  <2>3. Head(edges) = edges[1] /\ edges[Len(edges)] = active
    BY <1>0 DEF LastEdgeIsVoice
  <2> QED
    BY <2>2, <2>3
<1>4. S \subseteq App
  BY <1>0 DEF DuckTyped
<1>5. CASE Head(edges)
  <2>1. Lower(S)
    BY <1>5 DEF Apply
  <2>2. \A a \in S : Originals(S)[a] \in 0 .. 100
    BY <1>0, <1>4 DEF Originals, DuckTyped
  <2>3. \A a \in S : Lowered(Originals(S)[a]) \in 0 .. 100
    BY <1>0, <2>2, LoweredType DEF DuckTyped
  <2>4. \A a \in S \ missed : Originals(S)[a] = 100
    BY <1>0, <1>4 DEF Originals, NothingForgotten
  <2>5. /\ vol' \in [App -> 0 .. 100]
        /\ DOMAIN saved' = DOMAIN saved \cup S
        /\ saved' \in [DOMAIN saved \cup S -> 0 .. 100]
        /\ missed' = missed
    BY <1>0, <2>1, <2>2, <2>3 DEF Lower, DuckTyped
  <2>6. NothingForgotten'
    <3> SUFFICES ASSUME NEW a \in App \ missed
                 PROVE  IF a \in DOMAIN saved \cup S THEN saved'[a] = 100 ELSE vol'[a] = 100
      BY <2>5 DEF NothingForgotten
    <3>1. CASE a \in S
      BY <2>1, <2>4, <3>1 DEF Lower
    <3>2. CASE a \notin S
      BY <1>0, <2>1, <3>2 DEF Lower, NothingForgotten
    <3> QED
      BY <3>1, <3>2
  <2> QED
    BY <1>0, <1>1, <1>2, <1>3, <1>4, <1>5, <2>5, <2>6
    DEF DuckInv, DuckTyped, OnlyMissedRemembered
<1>6. CASE ~Head(edges)
  <2> DEFINE back == S \cap DOMAIN saved
             left == IF S # listed THEN DOMAIN saved \ back ELSE {}
  <2>1. /\ vol' = [a \in App |-> IF a \in back THEN saved[a] ELSE vol[a]]
        /\ saved' = [a \in left |-> saved[a]]
        /\ missed' = missed \cup (DOMAIN saved \ back)
    BY <1>6 DEF Apply, Restore
  <2>2. /\ DOMAIN saved' = left /\ left \subseteq DOMAIN saved \ back
        /\ vol' \in [App -> 0 .. 100]
        /\ saved' \in [left -> 0 .. 100]
    BY <1>0, <2>1 DEF DuckTyped
  <2>3. DOMAIN saved' \subseteq missed' /\ missed' \subseteq App
    BY <1>0, <2>1, <2>2 DEF DuckTyped
  <2>4. NothingForgotten'
    <3> SUFFICES ASSUME NEW a \in App \ missed'
                 PROVE  a \notin DOMAIN saved' /\ vol'[a] = 100
      BY DEF NothingForgotten
    <3>1. a \notin missed /\ (a \in DOMAIN saved => a \in back)
      BY <2>1
    <3> QED
      BY <1>0, <2>1, <2>3, <3>1 DEF NothingForgotten
  <2> QED
    BY <1>0, <1>1, <1>2, <2>2, <2>3, <2>4
    DEF DuckInv, DuckTyped, OnlyMissedRemembered
<1> QED
  BY <1>5, <1>6

LEMMA DuckStep == DuckInv /\ [DuckNext]_duckVars => DuckInv'
<1> SUFFICES ASSUME DuckInv, [DuckNext]_duckVars PROVE DuckInv'
  OBVIOUS
<1>1. CASE UNCHANGED duckVars
  BY <1>1 DEF duckVars, DuckInv, DuckTyped, LastEdgeIsVoice, OnlyMissedRemembered,
              NothingForgotten
<1>2. ASSUME NEW on \in BOOLEAN, SetDucking(on) PROVE DuckInv'
  <2>1. /\ edges' = Append(edges, on) /\ active' = on
        /\ UNCHANGED <<percent, listed, vol, saved, missed>>
    BY <1>2 DEF SetDucking
  <2>2. /\ edges' \in Seq(BOOLEAN) /\ edges' # <<>>
        /\ edges'[Len(edges')] = active'
    BY <2>1 DEF DuckInv, DuckTyped
  <2> QED
    BY <2>1, <2>2 DEF DuckInv, DuckTyped, LastEdgeIsVoice, OnlyMissedRemembered,
                      NothingForgotten
<1>3. ASSUME NEW p \in Amount, SetDuckAmount(p) PROVE DuckInv'
  <2>1. /\ edges' = edges \o Reapply /\ percent' = p
        /\ UNCHANGED <<active, listed, vol, saved, missed>>
    BY <1>3 DEF SetDuckAmount
  <2>2. p \in 0 .. 100
    BY DuckConstants
  <2>3. CASE active
    <3>1. active = TRUE /\ active \in BOOLEAN /\ edges \in Seq(BOOLEAN)
      BY <2>3 DEF DuckInv, DuckTyped
    <3>3. Append(edges, TRUE) = edges \o <<TRUE>>
      BY <3>1, AppendIsConcat
    <3>4. edges' = Append(edges, active)
      BY <2>1, <3>1, <3>3 DEF Reapply
    <3>5. active \in BOOLEAN /\ edges \in Seq(BOOLEAN)
      BY <3>1
    <3>2. /\ edges' \in Seq(BOOLEAN) /\ edges' # <<>>
          /\ edges'[Len(edges')] = active
      BY <3>4, <3>5
    <3> QED
      BY <2>1, <2>2, <2>3, <3>2 DEF DuckInv, DuckTyped, LastEdgeIsVoice,
                                    OnlyMissedRemembered, NothingForgotten
  <2>4. CASE ~active
    <3>1. edges' = edges
      BY <2>1, <2>4 DEF Reapply, DuckInv, DuckTyped
    <3> QED
      BY <2>1, <2>2, <3>1 DEF DuckInv, DuckTyped, LastEdgeIsVoice,
                              OnlyMissedRemembered, NothingForgotten
  <2> QED
    BY <2>3, <2>4
<1>4. ASSUME NEW S \in SUBSET listed, Apply(S) PROVE DuckInv'
  BY <1>4, DuckApply
<1>5. ASSUME NEW a \in App, Moves(a) PROVE DuckInv'
  <2>1. listed' \subseteq App
    BY <1>5 DEF Moves, DuckInv, DuckTyped
  <2> QED
    BY <1>5, <2>1 DEF Moves, DuckInv, DuckTyped, LastEdgeIsVoice, OnlyMissedRemembered,
                      NothingForgotten
<1> QED
  BY <1>1, <1>2, <1>3, <1>4, <1>5 DEF DuckNext

\* However often voice starts and ends, the slider moves and applications come
\* and go, ducking leaves no trace on one the worker can reach: volumes come
\* back, and lowering twice remembers what was found first (ducking::run()).
THEOREM VolumeReturns == DuckSpec => []DuckingIsUndone
<1>1. DuckInv => DuckingIsUndone
  <2> SUFFICES ASSUME DuckInv PROVE DuckingIsUndone
    OBVIOUS
  <2>1. DuckTypeOK
    BY DEF DuckInv, DuckTyped, DuckTypeOK
  <2>2. VolumesComeBack
    BY DEF DuckInv, DuckTyped, OnlyMissedRemembered, NothingForgotten, VolumesComeBack
  <2>3. NoCompounding
    BY DEF DuckInv, DuckTyped, NothingForgotten, NoCompounding
  <2> QED
    BY <2>1, <2>2, <2>3 DEF DuckingIsUndone
<1> QED
  BY <1>1, DuckInitInv, DuckStep, PTL DEF DuckSpec

-----------------------------------------------------------------------------
(***************************************************************************)
(* The resampler.  Its phase is the difference between what was made and     *)
(* what the rates ask for, and stays below one sample of the source.        *)
(***************************************************************************)
LEMMA DivFacts ==
  ASSUME NEW a \in Nat, NEW b \in Nat \ {0}
  PROVE  /\ a \div b \in Nat
         /\ (a \div b) * b <= a
         /\ a < (a \div b) * b + b
BY SMT

LEMMA PaceType == \A p \in Pace : p.src \in Nat \ {0} /\ p.dst \in Nat \ {0}
BY VcConstants

LEMMA PhaseStays ==
  ASSUME NEW p \in Pace, NEW t \in Nat, t < p.src
  PROVE  /\ Made(t, p) \in Nat
         /\ PhaseAfter(t, p) \in Nat
         /\ PhaseAfter(t, p) < p.src
<1> DEFINE src == p.src
           dst == p.dst
           n == dst - t + src - 1
<1>1. src \in Nat \ {0} /\ dst \in Nat \ {0} /\ t < src
  BY PaceType
<1>2. CASE t >= dst
  <2>1. Made(t, p) = 0
    BY <1>2 DEF Made
  <2>2. PhaseAfter(t, p) = t - dst
    BY <1>1, <2>1 DEF PhaseAfter
  <2> QED
    BY <1>1, <1>2, <2>1, <2>2
<1>3. CASE ~(t >= dst)
  <2>1. n \in Nat
    BY <1>1, <1>3
  <2>2. PICK k \in Nat : k = n \div src /\ k * src <= n /\ n < k * src + src
    BY <1>1, <2>1, DivFacts
  <2>3. Made(t, p) = k
    BY <1>3, <2>2 DEF Made
  <2>4. PhaseAfter(t, p) = t + k * src - dst
    BY <2>3 DEF PhaseAfter
  <2>5. PICK m \in Nat : m = k * src
    BY <1>1, <2>2
  <2>6. m <= dst - t + src - 1 /\ dst - t + src - 1 < m + src
    BY <2>2, <2>5
  <2>7. PhaseAfter(t, p) = t + m - dst
    BY <2>4, <2>5
  <2> QED
    BY <1>1, <2>3, <2>6, <2>7
<1> QED
  BY <1>2, <1>3

ResType == [pace : Pace, t : Nat, have_prev : BOOLEAN, fed : Nat, made : Nat]

PhaseIsAhead ==
  /\ res.t < res.pace.src
  /\ IF res.have_prev
       THEN res.fed > 0 /\ res.t = res.made * res.pace.src - (res.fed - 1) * res.pace.dst
       ELSE res.t = 0 /\ res.fed = 0 /\ res.made = 0

ResInv == res \in ResType /\ PhaseIsAhead

LEMMA ResFirst ==
  ASSUME NEW r \in ResType, NEW f \in Nat
  PROVE  \A b \in BOOLEAN : [r EXCEPT !.fed = f, !.have_prev = b] \in ResType
BY DEF ResType

LEMMA ResNext ==
  ASSUME NEW r \in ResType, NEW f \in Nat, NEW m \in Nat, NEW t \in Nat
  PROVE  [r EXCEPT !.fed = f, !.made = m, !.t = t] \in ResType
BY DEF ResType

LEMMA ResampleInv == ResInv /\ Resample => ResInv'
<1> SUFFICES ASSUME ResInv, Resample PROVE ResInv'
  OBVIOUS
<1> DEFINE p == res.pace
           k == Made(res.t, p)
<1>0. /\ p \in Pace /\ res.t \in Nat /\ res.fed \in Nat /\ res.made \in Nat
      /\ res \in ResType /\ res.t < p.src
  BY DEF ResInv, ResType, PhaseIsAhead
<1>1. p.src \in Nat \ {0} /\ p.dst \in Nat \ {0}
  BY <1>0, PaceType
<1>2. CASE ~res.have_prev
  <2>1. res' = [res EXCEPT !.fed = @ + 1, !.have_prev = TRUE]
    BY <1>2 DEF Resample
  <2>2. res.t = 0 /\ res.made = 0 /\ res.fed = 0
    BY <1>2 DEF ResInv, PhaseIsAhead
  <2>3. res'.pace = p /\ res'.t = 0 /\ res'.made = 0 /\ res'.fed = 1
    BY <1>0, <2>1, <2>2 DEF ResType
  <2>4. res'.have_prev
    BY <1>0, <2>1 DEF ResType
  <2>5. res' \in ResType
    <3>1. TRUE \in BOOLEAN /\ res.fed + 1 \in Nat /\ res \in ResType
      BY <1>0
    <3>2. [res EXCEPT !.fed = res.fed + 1, !.have_prev = TRUE] \in ResType
      BY <3>1, ResFirst, Zenon
    <3> QED
      BY <2>1, <3>2, Zenon
  <2> QED
    BY <1>1, <2>3, <2>4, <2>5 DEF ResInv, PhaseIsAhead
<1>3. CASE res.have_prev
  <2>1. res' = [res EXCEPT !.fed = @ + 1, !.made = @ + k, !.t = PhaseAfter(@, p)]
    BY <1>3 DEF Resample
  <2>2. k \in Nat /\ PhaseAfter(res.t, p) \in Nat /\ PhaseAfter(res.t, p) < p.src
    BY <1>0, PhaseStays
  <2> HIDE DEF k
  <2>3. /\ res'.pace = p
        /\ res'.fed = res.fed + 1 /\ res'.made = res.made + k
        /\ res'.t = PhaseAfter(res.t, p)
    BY <1>0, <2>1 DEF ResType
  <2>7. res'.have_prev
    BY <1>0, <1>3, <2>1 DEF ResType
  <2>8. res' \in ResType
    <3>1. res.fed + 1 \in Nat /\ res.made + k \in Nat /\ res \in ResType
      BY <1>0, <2>2
    <3>2. [res EXCEPT !.fed = res.fed + 1, !.made = res.made + k, !.t = PhaseAfter(res.t, p)]
            \in ResType
      BY <2>2, <3>1, ResNext
    <3> QED
      BY <2>1, <3>2, Zenon
  <2>4. res.t = res.made * p.src - (res.fed - 1) * p.dst
    BY <1>3 DEF ResInv, PhaseIsAhead
  <2>5. PhaseAfter(res.t, p) = res.t + k * p.src - p.dst
    BY DEF PhaseAfter, k
  <2>6. res'.t = res'.made * p.src - (res'.fed - 1) * p.dst
    <3> DEFINE was == res.made * p.src - (res.fed - 1) * p.dst
               is == res'.made * p.src - (res'.fed - 1) * p.dst
               more == k * p.src
               less == p.dst
    <3>0. /\ p.src \in Nat /\ p.dst \in Nat /\ k \in Nat
          /\ res.made \in Nat /\ res.fed \in Nat
      BY <1>0, <1>1, <2>2
    <3>1. is = was + more - less
      <4> HIDE DEF p
      <4>1. (res.made + k) * p.src = res.made * p.src + k * p.src
        BY <3>0
      <4>2. res'.made * p.src = res.made * p.src + more
        BY <2>3, <4>1
      <4>3. (res.fed - 1) * p.dst = res.fed * p.dst - p.dst
        BY <3>0
      <4>4. (res'.fed - 1) * p.dst = res.fed * p.dst
        BY <2>3, <3>0
      <4>5. PICK a, b, c \in Int : a = res.made * p.src /\ b = more /\ c = res.fed * p.dst
        BY <3>0
      <4> QED
        BY <3>0, <4>2, <4>3, <4>4, <4>5
    <3>2. res'.t = was + more - less
      BY <2>3, <2>4, <2>5
    <3> QED
      BY <3>1, <3>2, Zenon
  <2> QED
    BY <1>0, <2>2, <2>3, <2>6, <2>7, <2>8 DEF ResInv, PhaseIsAhead
<1> QED
  BY <1>2, <1>3

-----------------------------------------------------------------------------
(***************************************************************************)
(* The radio effect.  The phase covers the age of the sample that is         *)
(* played, whatever factor was set while it grew.                          *)
(***************************************************************************)
FxType == [enabled : BOOLEAN, factor : 10 .. 120, phase : Nat, age : Nat, stale : BOOLEAN]

AgeIsCovered == fx.stale \/ (fx.age * 10 <= fx.phase /\ fx.age < 12)

FxInv == fx \in FxType /\ AgeIsCovered

LEMMA RadioInv == FxInv /\ (Radio \/ SetRadio) => FxInv'
<1> SUFFICES ASSUME FxInv, Radio \/ SetRadio PROVE FxInv'
  OBVIOUS
<1>0. /\ fx \in FxType /\ AgeIsCovered
      /\ fx.factor \in 10 .. 120 /\ fx.phase \in Nat /\ fx.age \in Nat
  BY DEF FxInv, FxType
<1>1. CASE fx' = [fx EXCEPT !.stale = TRUE]
  BY <1>0, <1>1 DEF FxInv, FxType, AgeIsCovered
<1>2. CASE /\ fx.phase + 10 >= fx.factor
           /\ fx' = [fx EXCEPT !.phase = PhaseTaken(fx), !.age = 0, !.stale = FALSE]
  <2>1. PhaseTaken(fx) \in Nat
    BY <1>0, <1>2 DEF PhaseTaken
  <2>2. fx'.phase \in Nat /\ fx'.age = 0
    BY <1>0, <1>2, <2>1 DEF FxType
  <2>3. fx' \in FxType
    BY <1>0, <1>2, <2>1 DEF FxType
  <2> QED
    BY <2>2, <2>3 DEF FxInv, AgeIsCovered
<1>3. CASE /\ fx.phase + 10 < fx.factor
           /\ fx' = [fx EXCEPT !.phase = @ + 10, !.age = @ + 1]
  <2>1. fx'.phase = fx.phase + 10 /\ fx'.age = fx.age + 1
    BY <1>0, <1>3 DEF FxType
  <2>2. fx'.stale = fx.stale
    BY <1>0, <1>3 DEF FxType
  <2>3. fx' \in FxType
    <3>1. fx.phase + 10 \in Nat /\ fx.age + 1 \in Nat
      BY <1>0
    <3> QED
      BY <1>0, <1>3, <3>1 DEF FxType
  <2>4. fx.stale \/ (fx'.age * 10 <= fx'.phase /\ fx'.age < 12)
    BY <1>0, <1>3, <2>1 DEF AgeIsCovered
  <2> QED
    BY <2>2, <2>3, <2>4 DEF FxInv, AgeIsCovered
<1>4. CASE fx' = [fx EXCEPT !.enabled = ~@]
  <2>1. fx' \in FxType
    BY <1>0, <1>4 DEF FxType
  <2>2. fx'.stale = fx.stale /\ fx'.age = fx.age /\ fx'.phase = fx.phase
    BY <1>0, <1>4 DEF FxType
  <2> QED
    BY <1>0, <2>1, <2>2 DEF FxInv, AgeIsCovered
<1>5. ASSUME NEW k \in Factor, fx' = [fx EXCEPT !.factor = k] PROVE FxInv'
  <2>1. k \in 10 .. 120
    BY VcConstants
  <2> QED
    BY <1>0, <1>5, <2>1 DEF FxInv, FxType, AgeIsCovered
<1> QED
  BY <1>1, <1>2, <1>3, <1>4, <1>5 DEF Radio, SetRadio

-----------------------------------------------------------------------------
(***************************************************************************)
(* Gate, compressor and limiter.  Every gain stays within full scale, so a   *)
(* stage but the makeup only lowers a sample; what the limiter lets through  *)
(* above its ceiling is bounded by one step of its release.                *)
(***************************************************************************)
Unit == 0 .. 1000

KnobType == [gate_threshold : 0 .. 500, comp_threshold : 10 .. 1000,
             comp_ratio : 1000 .. 20000, comp_makeup : 100 .. 4000,
             limiter_ceiling : 50 .. 1000]

DspType == [gate : BOOLEAN, compressor : BOOLEAN, limiter : BOOLEAN, knobs : KnobType,
            gate_env : Unit, gate_gain : Unit, comp_env : Unit, lim_gain : Unit]

PassedType == [in : Unit, out : Unit, before : Unit]

DspInv == /\ dsp \in DspType /\ passed \in PassedType
          /\ EscapesByOneStep /\ OnlyMakeupAmplifies

LEMMA ProductGrows ==
  ASSUME NEW a \in Nat, NEW b \in Nat, NEW s \in Nat, NEW x \in Nat, a <= b, s <= x
  PROVE  s * a <= x * b
<1>1. s * a <= x * a
  <2>1. PICK d \in Nat : x = s + d
    <3>1. x - s \in Nat /\ x = s + (x - s)
      OBVIOUS
    <3> QED
      BY <3>1
  <2>2. x * a = s * a + d * a /\ d * a \in Nat
    BY <2>1
  <2> QED
    BY <2>1, <2>2
<1>2. x * a <= x * b
  <2>1. PICK d \in Nat : b = a + d
    <3>1. b - a \in Nat /\ b = a + (b - a)
      OBVIOUS
    <3> QED
      BY <3>1
  <2>2. x * b = x * a + x * d /\ x * d \in Nat
    BY <2>1
  <2> QED
    BY <2>1, <2>2
<1> QED
  BY <1>1, <1>2

LEMMA ThousandthsGrow ==
  ASSUME NEW a \in Nat, NEW b \in Nat, a <= b
  PROVE  a \div 1000 \in Nat /\ a \div 1000 <= b \div 1000
BY SMT

LEMMA ScaledDown ==
  ASSUME NEW s \in Nat, NEW g \in Unit
  PROVE  Scaled(s, g) \in 0 .. s
<1>1. s * g >= 0 /\ s * g <= s * 1000
  BY DEF Unit
<1>2. PICK m \in Nat : m = s * g /\ m <= s * 1000
  BY <1>1 DEF Unit
<1>3. m \div 1000 \in 0 .. s
  BY <1>2
<1> QED
  BY <1>2, <1>3 DEF Scaled, Unity

LEMMA ScaledGrows ==
  ASSUME NEW a \in Nat, NEW b \in Nat, NEW s \in Nat, NEW x \in Nat, a <= b, s <= x
  PROVE  Scaled(s, a) \in Nat /\ Scaled(s, a) <= Scaled(x, b)
<1>1. s * a <= x * b /\ s * a \in Nat /\ x * b \in Nat
  BY ProductGrows
<1> QED
  BY <1>1, ThousandthsGrow DEF Scaled, Unity

LEMMA SmoothType ==
  ASSUME NEW old \in Unit, NEW new \in Unit, NEW k \in {2, 4, 7}
  PROVE  Smooth(old, new, k) \in Unit
<1>1. CASE k = 2
  BY <1>1 DEF Smooth, Unit
<1>2. CASE k = 4
  BY <1>2 DEF Smooth, Unit
<1>3. CASE k = 7
  BY <1>3 DEF Smooth, Unit
<1> QED
  BY <1>1, <1>2, <1>3

LEMMA KnobsType == Knobs \subseteq KnobType /\ DefaultKnobs \in KnobType
BY VcConstants DEF KnobType, DefaultKnobs

\* The loudest sample there is: full scale after the highest makeup.
Loudest == 4000

LEMMA UnitIs ==
  ASSUME NEW g
  PROVE  g \in Unit <=> g \in Nat /\ g <= Unity
BY DEF Unit, Unity

LEMMA FullScale == Unity \in Nat /\ Unity > 0 /\ Unity <= Loudest /\ Loudest \in Nat
BY DEF Unity, Loudest

LEMMA RangeIs ==
  ASSUME NEW a \in Nat, NEW b \in Nat, NEW x \in a .. b
  PROVE  x \in Nat /\ a <= x /\ x <= b
OBVIOUS

LEMMA KnobsAre ==
  ASSUME NEW k \in KnobType
  PROVE  /\ k.comp_threshold \in Nat /\ 1 <= k.comp_threshold
         /\ k.comp_ratio \in Nat /\ Unity <= k.comp_ratio
         /\ k.comp_makeup \in Nat /\ k.comp_makeup <= Loudest
         /\ k.limiter_ceiling \in Nat
<1> DEFINE steep == 20000
           faint == 100
<1>1. k.comp_threshold \in 10 .. Unity
  BY DEF KnobType, Unity
<1>2. k.comp_ratio \in Unity .. steep
  BY DEF KnobType, Unity
<1>3. k.comp_makeup \in faint .. Loudest
  BY DEF KnobType, Loudest
<1>4. k.limiter_ceiling \in 50 .. Unity
  BY DEF KnobType, Unity
<1>5. steep \in Nat /\ faint \in Nat
  OBVIOUS
<1> HIDE DEF steep, faint
<1>6. k.comp_threshold \in Nat /\ 1 <= k.comp_threshold
  BY <1>1, FullScale
<1>7. k.comp_ratio \in Nat /\ Unity <= k.comp_ratio
  BY <1>2, <1>5, FullScale
<1>8. k.comp_makeup \in Nat /\ k.comp_makeup <= Loudest
  BY <1>3, <1>5, FullScale
<1>9. k.limiter_ceiling \in Nat
  BY <1>4, FullScale
<1> QED
  BY <1>6, <1>7, <1>8, <1>9

LEMMA Quotient ==
  ASSUME NEW a \in Nat, NEW b \in Nat, NEW m \in Nat, b > 0, a <= m * b
  PROVE  a \div b \in Nat /\ a \div b <= m
<1>1. PICK q \in Nat : q = a \div b /\ q * b <= a
  <2>1. b \in Nat \ {0}
    OBVIOUS
  <2>2. a \div b \in Nat /\ (a \div b) * b <= a
    BY <2>1, DivFacts
  <2> QED
    BY <2>2
<1>2. q <= m
  <2> SUFFICES ASSUME m + 1 <= q PROVE FALSE
    BY <1>1
  <2>1. b * (m + 1) <= b * q
    <3>1. b <= b /\ m + 1 \in Nat
      OBVIOUS
    <3> QED
      BY <1>1, <3>1, ProductGrows
  <2>2. b * (m + 1) = m * b + b /\ b * q = q * b
    BY <1>1
  <2>3. PICK u, v \in Int : u = m * b /\ v = q * b
    BY <1>1
  <2> QED
    BY <1>1, <2>1, <2>2, <2>3
<1> QED
  BY <1>1, <1>2

\* The compressor lowers what is above its threshold and raises nothing.
LEMMA GainLowered ==
  ASSUME NEW ct \in Nat, NEW ratio \in Nat, NEW env \in Nat, env > ct, Unity <= ratio
  PROVE  /\ ((ct + ((env - ct) * Unity) \div ratio) * Unity) \div env \in Nat
         /\ ((ct + ((env - ct) * Unity) \div ratio) * Unity) \div env <= Unity
<1> DEFINE r == ((env - ct) * Unity) \div ratio
           n == ct + r
<1>0. Unity \in Nat /\ ratio > 0
  BY FullScale
<1>1. r \in Nat /\ r <= env - ct
  <2>1. PICK d \in Nat : d = env - ct
    OBVIOUS
  <2>2. d <= d
    BY <2>1
  <2>3. d * Unity <= d * ratio
    BY <1>0, <2>1, <2>2, ProductGrows
  <2>4. d * Unity \in Nat
    BY <1>0, <2>1
  <2>5. (d * Unity) \div ratio \in Nat /\ (d * Unity) \div ratio <= d
    BY <1>0, <2>1, <2>3, <2>4, Quotient
  <2> QED
    BY <2>1, <2>5
<1> HIDE DEF r
<1>2. n \in Nat /\ n <= env /\ env > 0
  BY <1>1
<1> HIDE DEF n
<1>3. n * Unity \in Nat /\ n * Unity <= Unity * env
  <2>1. Unity <= Unity
    BY <1>0
  <2>2. Unity * n <= Unity * env
    BY <1>0, <1>2, <2>1, ProductGrows
  <2> QED
    BY <1>0, <1>2, <2>2
<1>4. (n * Unity) \div env \in Nat /\ (n * Unity) \div env <= Unity
  BY <1>0, <1>2, <1>3, Quotient
<1> QED
  BY <1>4 DEF n, r

LEMMA CompGainType ==
  ASSUME NEW k \in KnobType, NEW env \in Unit
  PROVE  CompGain(k, env) \in Unit
<1> DEFINE ct == k.comp_threshold
           ratio == k.comp_ratio
           n == (ct + ((env - ct) * Unity) \div ratio) * Unity
<1>1. ct \in Nat /\ ratio \in Nat /\ 1 <= ct /\ Unity <= ratio /\ env \in Nat
  BY KnobsAre, UnitIs
<1>2. CompGain(k, env) = IF env > ct THEN n \div Most(env, 1) ELSE Unity
  BY DEF CompGain
<1>3. CASE ~(env > ct)
  <2>1. Unity <= Unity /\ Unity \in Nat
    BY FullScale
  <2> QED
    BY <1>2, <1>3, <2>1, UnitIs
<1>4. CASE env > ct
  <2> HIDE DEF ct, ratio
  <2>1. Most(env, 1) = env
    BY <1>1, <1>4 DEF Most
  <2>2. n \div env \in Nat /\ n \div env <= Unity
    BY <1>1, <1>4, GainLowered, ZenonT(60)
  <2> HIDE DEF n
  <2>3. CompGain(k, env) = n \div env
    BY <1>2, <1>4, <2>1
  <2> QED
    BY <2>2, <2>3, UnitIs
<1> QED
  BY <1>3, <1>4

\* What the limiter does to a sample, whatever its gain was.
LEMMA ReleaseRises ==
  ASSUME NEW g \in Unit
  PROVE  /\ Smooth(g, Unity, 7) \in g .. Unity
         /\ Smooth(g, Unity, 7) - g \in Nat
BY DEF Smooth, Unit, Unity

LEMMA LimTargetIs ==
  ASSUME NEW k \in KnobType, NEW s \in Nat
  PROVE  /\ LimTarget(k, s) \in Unit
         /\ s > k.limiter_ceiling => s * LimTarget(k, s) <= k.limiter_ceiling * Unity
<1> DEFINE C == k.limiter_ceiling
           q == (C * Unity) \div s
<1>1. C \in Nat /\ LimTarget(k, s) = IF s > C THEN q ELSE Unity
  BY KnobsAre DEF LimTarget
<1> HIDE DEF C
<1>2. CASE ~(s > C)
  BY <1>1, <1>2, FullScale, UnitIs DEF C
<1>3. CASE s > C
  <2>0. Unity \in Nat /\ Unity <= Unity /\ C <= s
    BY <1>1, <1>3, FullScale
  <2>1. C * Unity \in Nat /\ s > 0 /\ C * Unity <= Unity * s
    <3>1. Unity * C <= Unity * s
      BY <1>1, <2>0, ProductGrows
    <3> QED
      BY <1>1, <1>3, <2>0, <3>1
  <2>2. q \in Nat /\ q <= Unity
    BY <2>0, <2>1, Quotient
  <2>3. q * s <= C * Unity
    <3>1. s \in Nat \ {0}
      BY <2>1
    <3> QED
      BY <2>1, <3>1, DivFacts
  <2> HIDE DEF q
  <2>4. s * q = q * s
    BY <2>2
  <2>5. LimTarget(k, s) = q
    BY <1>1, <1>3, Zenon
  <2>6. q \in Unit
    BY <2>2, UnitIs
  <2>7. s * LimTarget(k, s) <= C * Unity
    BY <2>3, <2>4, <2>5
  <2> QED
    BY <2>5, <2>6, <2>7 DEF C
<1> QED
  BY <1>2, <1>3

LEMMA OverTheCeiling ==
  ASSUME NEW C \in Nat, NEW s \in Nat, NEW t \in Nat, NEW g \in Nat, NEW d \in Nat,
         s <= Loudest, g <= t, s * t <= C * Unity
  PROVE  Scaled(s, g + d) <= C + 4 * d
<1>1. s * (g + d) = s * g + s * d
  OBVIOUS
<1>2. s * g <= s * t
  <2>1. s <= s
    OBVIOUS
  <2> QED
    BY <2>1, ProductGrows
<1>3. s * d <= Loudest * d
  <2>1. d <= d
    OBVIOUS
  <2>2. d * s <= d * Loudest
    BY <2>1, FullScale, ProductGrows
  <2> QED
    BY <2>2, FullScale
<1>4. PICK m \in Nat : m = s * (g + d) /\ m <= C * Unity + Loudest * d
  <2>1. PICK a \in Nat, b \in Nat, c \in Nat : a = s * g /\ b = s * d /\ c = s * t
    <3>1. s * g \in Nat /\ s * d \in Nat /\ s * t \in Nat
      OBVIOUS
    <3> QED
      BY <3>1
  <2>2. PICK e \in Nat, f \in Nat : e = C * Unity /\ f = Loudest * d
    <3>1. C * Unity \in Nat /\ Loudest * d \in Nat
      BY FullScale
    <3> QED
      BY <3>1
  <2>3. s * (g + d) = a + b /\ a <= c /\ b <= f /\ c <= e
    BY <1>1, <1>2, <1>3, <2>1, <2>2
  <2>4. a + b \in Nat /\ a + b <= e + f
    BY <2>1, <2>2, <2>3
  <2> QED
    BY <2>2, <2>3, <2>4
<1>5. m \div 1000 <= C + 4 * d
  BY <1>4 DEF Unity, Loudest
<1> QED
  BY <1>4, <1>5 DEF Scaled, Unity

LEMMA PeakIsHeld ==
  ASSUME NEW k \in KnobType, NEW s \in Nat, s <= Loudest, NEW g \in Unit
  PROVE  /\ LimGain(g, LimTarget(k, s)) \in Unit
         /\ Scaled(s, LimGain(g, LimTarget(k, s))) \in 0 .. s
         /\ Scaled(s, LimGain(g, LimTarget(k, s)))
              <= k.limiter_ceiling + 4 * (Smooth(g, Unity, 7) - g)
<1> DEFINE t == LimTarget(k, s)
           h == LimGain(g, t)
           up == Smooth(g, Unity, 7)
           C == k.limiter_ceiling
           d == up - g
<1>0. C \in Nat
  BY KnobsAre
<1>1. t \in Nat /\ t <= Unity /\ (s > C => s * t <= C * Unity)
  <2>1. LimTarget(k, s) \in Unit
        /\ (s > k.limiter_ceiling => s * LimTarget(k, s) <= k.limiter_ceiling * Unity)
    BY LimTargetIs
  <2> HIDE DEF t
  <2>2. t \in Unit /\ (s > C => s * t <= C * Unity)
    BY <2>1 DEF t
  <2> QED
    BY <2>2, UnitIs
<1>2. up \in Nat /\ up <= Unity /\ g \in Nat /\ d \in Nat
  <2>1. Smooth(g, Unity, 7) \in g .. Unity /\ Smooth(g, Unity, 7) - g \in Nat
    BY ReleaseRises
  <2>2. g \in Nat
    BY UnitIs
  <2> HIDE DEF up
  <2>3. up \in g .. Unity /\ d \in Nat
    BY <2>1 DEF up
  <2> QED
    BY <2>2, <2>3, FullScale
<1>3. h = IF t < g THEN t ELSE up
  BY DEF LimGain
<1> HIDE DEF t, h, up, C
<1>4. h \in Nat /\ h <= Unity /\ up = g + d
  BY <1>1, <1>2, <1>3
<1> HIDE DEF d
<1>5. h \in Unit
  BY <1>4, UnitIs
<1>6. Scaled(s, h) \in 0 .. s
  BY <1>5, ScaledDown
<1>7. Scaled(s, h) <= C + 4 * d
  <2>1. CASE s <= C
    <3>1. PICK v \in 0 .. s : v = Scaled(s, h)
      BY <1>6
    <3>2. v <= C + 4 * d
      BY <1>0, <1>2, <2>1, <3>1
    <3> QED
      BY <3>1, <3>2
  <2>2. CASE s > C /\ t < g
    <3>1. h = t /\ s * t <= C * Unity
      BY <1>1, <1>3, <2>2
    <3>2. t <= t /\ 0 \in Nat /\ t + 0 = t
      BY <1>1
    <3>3. Scaled(s, t + 0) <= C + 4 * 0
      BY <1>0, <1>1, <3>1, <3>2, OverTheCeiling, ZenonT(60)
    <3>4. Scaled(s, h) = Scaled(s, t + 0)
      BY <3>1, <3>2
    <3>5. PICK v \in 0 .. s : v = Scaled(s, h)
      BY <1>6
    <3>6. v <= C
      BY <1>0, <3>3, <3>4, <3>5
    <3> QED
      BY <1>0, <1>2, <3>5, <3>6
  <2>3. CASE s > C /\ ~(t < g)
    <3>1. h = g + d /\ g <= t /\ s * t <= C * Unity
      BY <1>1, <1>2, <1>3, <1>4, <2>3
    <3>2. Scaled(s, g + d) <= C + 4 * d
      BY <1>0, <1>1, <1>2, <3>1, OverTheCeiling, ZenonT(60)
    <3> QED
      BY <3>1, <3>2
  <2> QED
    BY <1>0, <2>1, <2>2, <2>3
<1> QED
  BY <1>5, <1>6, <1>7 DEF t, h, up, C, d

\* Each stage keeps the switches, the knobs and the state of the others.
LEMMA GatedType ==
  ASSUME NEW d \in DspType, NEW s \in Unit
  PROVE  /\ Gated(d, s) \in DspType /\ Gated(d, s).knobs = d.knobs
         /\ Gated(d, s).limiter = d.limiter /\ Gated(d, s).lim_gain = d.lim_gain
<1>1. CASE ~d.gate
  BY <1>1 DEF Gated
<1>2. CASE d.gate
  <2> DEFINE env == IF s > d.gate_env THEN s ELSE Smooth(d.gate_env, s, 7)
             target == IF env >= d.knobs.gate_threshold THEN Unity ELSE 0
             k == IF target > d.gate_gain THEN 2 ELSE 7
             gain == Smooth(d.gate_gain, target, k)
  <2>1. d.gate_env \in Unit /\ d.gate_gain \in Unit
    BY DEF DspType
  <2>2. env \in Unit
    BY <2>1, SmoothType
  <2>3. target \in Unit /\ k \in {2, 4, 7}
    BY DEF Unit, Unity
  <2> HIDE DEF env, target, k
  <2>4. gain \in Unit
    BY <2>1, <2>3, SmoothType
  <2>5. Gated(d, s) = [d EXCEPT !.gate_env = env, !.gate_gain = gain]
    BY <1>2 DEF Gated, env, target, k, gain
  <2> HIDE DEF gain
  <2> QED
    BY <2>2, <2>4, <2>5 DEF DspType
<1> QED
  BY <1>1, <1>2

LEMMA CompressedType ==
  ASSUME NEW d \in DspType, NEW s \in Unit
  PROVE  /\ Compressed(d, s) \in DspType /\ Compressed(d, s).knobs = d.knobs
         /\ Compressed(d, s).limiter = d.limiter /\ Compressed(d, s).lim_gain = d.lim_gain
<1>1. CASE ~d.compressor
  BY <1>1 DEF Compressed
<1>2. CASE d.compressor
  <2> DEFINE k == IF s > d.comp_env THEN 4 ELSE 7
             env == Smooth(d.comp_env, s, k)
  <2>1. d.comp_env \in Unit /\ k \in {2, 4, 7}
    BY DEF DspType
  <2> HIDE DEF k
  <2>2. env \in Unit
    BY <2>1, SmoothType
  <2>3. Compressed(d, s) = [d EXCEPT !.comp_env = env]
    BY <1>2 DEF Compressed, env, k
  <2> HIDE DEF env
  <2> QED
    BY <2>2, <2>3 DEF DspType
<1> QED
  BY <1>1, <1>2

\* Before the limiter: nothing but the makeup gain lifts a sample.
LEMMA MakeupIs ==
  ASSUME NEW m \in Nat, m <= Loudest, NEW s \in Nat, NEW x \in Nat, s <= x, x <= Unity
  PROVE  /\ Scaled(x, Most(m, Unity)) \in Nat /\ Scaled(x, Most(m, Unity)) <= Loudest
         /\ s <= Scaled(x, Most(m, Unity))
         /\ Scaled(s, m) \in Nat /\ Scaled(s, m) <= Scaled(x, Most(m, Unity))
<1> DEFINE M == Most(m, Unity)
<1>1. M \in Nat /\ m <= M /\ Unity <= M /\ M <= Loudest /\ Unity \in Nat /\ Loudest \in Nat
  BY FullScale DEF Most
<1> HIDE DEF M
<1>2. Scaled(s, m) \in Nat /\ Scaled(s, m) <= Scaled(x, M)
  BY <1>1, ScaledGrows
<1>3. Scaled(s, Unity) <= Scaled(x, M)
  BY <1>1, ScaledGrows
<1>4. Scaled(s, Unity) = s
  BY DEF Scaled, Unity
<1>5. Scaled(x, M) \in Nat /\ Scaled(x, M) <= Scaled(Unity, Loudest)
  BY <1>1, ScaledGrows
<1>6. Scaled(Unity, Loudest) = Loudest
  BY DEF Scaled, Unity, Loudest
<1>7. s <= Scaled(x, M)
  BY <1>3, <1>4, Zenon
<1>8. Scaled(x, M) <= Loudest
  BY <1>5, <1>6, Zenon
<1> QED
  BY <1>2, <1>5, <1>7, <1>8 DEF M

LEMMA MadeUp ==
  ASSUME NEW k \in KnobType, NEW s \in Nat, NEW x \in Nat, s <= x, x <= Unity, NEW env \in Unit
  PROVE  /\ Scaled(Scaled(s, CompGain(k, env)), k.comp_makeup) \in Nat
         /\ Scaled(Scaled(s, CompGain(k, env)), k.comp_makeup)
              <= Scaled(x, Most(k.comp_makeup, Unity))
<1>1. CompGain(k, env) \in Unit
  BY CompGainType
<1>2. PICK u \in 0 .. s : u = Scaled(s, CompGain(k, env))
  BY <1>1, ScaledDown
<1>3. u \in Nat /\ u <= x
  BY <1>2
<1>4. k.comp_makeup \in Nat /\ k.comp_makeup <= Loudest
  BY KnobsAre
<1>5. /\ Scaled(u, k.comp_makeup) \in Nat
      /\ Scaled(u, k.comp_makeup) <= Scaled(x, Most(k.comp_makeup, Unity))
  BY <1>3, <1>4, MakeupIs, ZenonT(60)
<1> QED
  BY <1>2, <1>5, Zenon

\* The limiter keeps all but its gain, and lets a sample escape by one step.
LEMMA LimitedType ==
  ASSUME NEW c \in DspType, NEW s \in Nat, s <= Loudest
  PROVE  /\ Limited(c, s) \in DspType
         /\ Limited(c, s).knobs = c.knobs /\ Limited(c, s).limiter = c.limiter
         /\ c.limiter =>
              /\ Scaled(s, Limited(c, s).lim_gain) \in 0 .. s
              /\ Scaled(s, Limited(c, s).lim_gain)
                   <= c.knobs.limiter_ceiling + 4 * (Smooth(c.lim_gain, Unity, 7) - c.lim_gain)
<1>1. CASE ~c.limiter
  BY <1>1 DEF Limited
<1>2. CASE c.limiter
  <2> DEFINE h == LimGain(c.lim_gain, LimTarget(c.knobs, s))
  <2>1. Limited(c, s) = [c EXCEPT !.lim_gain = h]
    BY <1>2 DEF Limited
  <2>2. c.knobs \in KnobType /\ c.lim_gain \in Unit
    BY DEF DspType
  <2>3. /\ h \in Unit /\ Scaled(s, h) \in 0 .. s
        /\ Scaled(s, h) <= c.knobs.limiter_ceiling + 4 * (Smooth(c.lim_gain, Unity, 7) - c.lim_gain)
    BY <2>2, PeakIsHeld
  <2> HIDE DEF h
  <2>4. /\ Limited(c, s) \in DspType /\ Limited(c, s).lim_gain = h
        /\ Limited(c, s).knobs = c.knobs /\ Limited(c, s).limiter = c.limiter
    BY <2>1, <2>3 DEF DspType
  <2>5. /\ Scaled(s, Limited(c, s).lim_gain) \in 0 .. s
        /\ Scaled(s, Limited(c, s).lim_gain)
             <= c.knobs.limiter_ceiling + 4 * (Smooth(c.lim_gain, Unity, 7) - c.lim_gain)
    BY <2>3, <2>4, Zenon
  <2> QED
    BY <2>4, <2>5
<1> QED
  BY <1>1, <1>2

LEMMA ShapeInv ==
  ASSUME DspInv, NEW x \in Level, Shape(x)
  PROVE  DspInv'
<1> DEFINE g == Gated(dsp, x)
           s1 == IF g.gate THEN Scaled(x, g.gate_gain) ELSE x
           c == Compressed(g, s1)
           s2 == IF c.compressor
                   THEN Scaled(Scaled(s1, CompGain(c.knobs, c.comp_env)), c.knobs.comp_makeup)
                   ELSE s1
           l == Limited(c, s2)
           s3 == IF l.limiter THEN Scaled(s2, l.lim_gain) ELSE s2
           level == IF s3 > Unity THEN Unity ELSE s3
           K == dsp.knobs
           top == Scaled(x, Most(K.comp_makeup, Unity))
           step == Smooth(dsp.lim_gain, Unity, 7) - dsp.lim_gain
<1>0. dsp' = l /\ passed' = [in |-> x, out |-> level, before |-> dsp.lim_gain]
  BY DEF Shape
<1>1. x \in Unit /\ dsp \in DspType /\ dsp.lim_gain \in Unit /\ K \in KnobType
  BY VcConstants DEF DspInv, DspType, Unit
<1>2. g \in DspType /\ g.lim_gain = dsp.lim_gain /\ g.knobs = K
  BY <1>1, GatedType
<1> HIDE DEF g, K
<1>3. s1 \in Unit /\ s1 <= x
  <2>1. g.gate_gain \in Unit
    BY <1>2 DEF DspType
  <2>2. x \in Nat
    BY <1>1 DEF Unit
  <2>3. Scaled(x, g.gate_gain) \in 0 .. x
    BY <2>1, <2>2, ScaledDown
  <2>4. s1 \in 0 .. x
    BY <2>2, <2>3
  <2> HIDE DEF s1
  <2> QED
    BY <1>1, <2>4 DEF Unit
<1> HIDE DEF s1
<1>4. c \in DspType /\ c.lim_gain = dsp.lim_gain /\ c.comp_env \in Unit /\ c.knobs = K
  <2>1. c \in DspType /\ c.lim_gain = g.lim_gain /\ c.knobs = g.knobs
    BY <1>2, <1>3, CompressedType
  <2> QED
    BY <1>2, <2>1 DEF DspType
<1> HIDE DEF c
<1>5. s2 \in Nat /\ s2 <= top /\ top \in Nat /\ top <= Loudest
  <2>1. K.comp_makeup \in Nat /\ K.comp_makeup <= Loudest
    BY <1>1, KnobsAre
  <2>2. x \in Nat /\ x <= Unity /\ s1 \in Nat
    BY <1>1, <1>3, UnitIs
  <2>3. top \in Nat /\ top <= Loudest /\ s1 <= top
    BY <1>3, <2>1, <2>2, MakeupIs, ZenonT(60)
  <2> DEFINE u == Scaled(Scaled(s1, CompGain(K, c.comp_env)), K.comp_makeup)
  <2>4. u \in Nat /\ u <= top
    BY <1>1, <1>3, <1>4, <2>2, MadeUp, ZenonT(60)
  <2> HIDE DEF u, top
  <2>5. s2 = IF c.compressor THEN u ELSE s1
    BY <1>4 DEF u
  <2> HIDE DEF s2
  <2> QED
    BY <2>2, <2>3, <2>4, <2>5
<1> HIDE DEF s2, top
<1>6. step \in Nat
  BY <1>1, ReleaseRises
<1>7. /\ l \in DspType /\ s3 \in Nat /\ s3 <= s2 /\ l.knobs = K
      /\ l.limiter => s3 <= K.limiter_ceiling + 4 * step
  <2>1. s2 \in Nat /\ s2 <= Loudest
    BY <1>5, FullScale
  <2> DEFINE v == Scaled(s2, l.lim_gain)
  <2>2. /\ l \in DspType /\ l.knobs = c.knobs /\ l.limiter = c.limiter
        /\ c.limiter =>
             /\ v \in 0 .. s2
             /\ v <= c.knobs.limiter_ceiling + 4 * (Smooth(c.lim_gain, Unity, 7) - c.lim_gain)
    BY <1>4, <2>1, LimitedType, ZenonT(60)
  <2>3. Smooth(c.lim_gain, Unity, 7) - c.lim_gain = step
    BY <1>4
  <2>4. s3 = IF l.limiter THEN v ELSE s2
    OBVIOUS
  <2> HIDE DEF l, step, v, s3
  <2> QED
    BY <1>4, <2>1, <2>2, <2>3, <2>4
<1> HIDE DEF l, s3, step
<1>8. level \in Nat /\ level <= Unity /\ level <= s3
  BY <1>7, FullScale
<1> HIDE DEF level
<1>9. /\ passed' \in PassedType
      /\ passed'.in = x /\ passed'.out = level /\ passed'.before = dsp.lim_gain
  <2>1. level \in Unit
    BY <1>8, UnitIs
  <2> QED
    BY <1>0, <1>1, <2>1 DEF PassedType
<1>10. EscapesByOneStep'
  <2>1. l.limiter => level <= K.limiter_ceiling + 4 * step
    <3>1. K.limiter_ceiling \in Nat
      BY <1>1, KnobsAre
    <3> QED
      BY <1>5, <1>6, <1>7, <1>8, <3>1
  <2> QED
    BY <1>0, <1>7, <1>9, <2>1 DEF EscapesByOneStep, step
<1>11. OnlyMakeupAmplifies'
  <2>1. level <= top
    BY <1>5, <1>7, <1>8
  <2> QED
    BY <1>0, <1>7, <1>9, <2>1 DEF OnlyMakeupAmplifies, top
<1> QED
  BY <1>0, <1>7, <1>9, <1>10, <1>11 DEF DspInv

LEMMA SetDspInv ==
  ASSUME DspInv, SetDsp
  PROVE  DspInv'
<1>1. dsp \in DspType /\ passed \in PassedType /\ passed.before \in Unit
  BY DEF DspInv, PassedType
<1>2. passed' = [passed EXCEPT !.in = 0, !.out = 0]
  BY DEF SetDsp
<1>3. dsp' \in DspType
  <2>1. ASSUME NEW f \in {"gate", "compressor", "limiter"}, dsp' = [dsp EXCEPT ![f] = ~@]
        PROVE  dsp' \in DspType
    BY <1>1, <2>1 DEF DspType
  <2>2. ASSUME NEW k \in Knobs, dsp' = [dsp EXCEPT !.knobs = k]
        PROVE  dsp' \in DspType
    BY <1>1, <2>2, KnobsType DEF DspType
  <2> QED
    BY <2>1, <2>2 DEF SetDsp
<1>4. /\ passed' \in PassedType
      /\ passed'.in = 0 /\ passed'.out = 0 /\ passed'.before = passed.before
  <2>1. 0 \in Unit
    BY DEF Unit
  <2> QED
    BY <1>1, <1>2, <2>1 DEF PassedType
<1>5. EscapesByOneStep'
  <2>1. Smooth(passed.before, Unity, 7) - passed.before \in Nat
    BY <1>1, ReleaseRises
  <2>2. dsp'.knobs \in KnobType
    BY <1>3 DEF DspType
  <2>3. dsp'.knobs.limiter_ceiling \in Nat
    BY <2>2, KnobsAre
  <2> QED
    BY <1>4, <2>1, <2>3 DEF EscapesByOneStep
<1>6. OnlyMakeupAmplifies'
  <2>0. dsp'.knobs \in KnobType
    BY <1>3 DEF DspType
  <2>1. dsp'.knobs.comp_makeup \in Nat /\ dsp'.knobs.comp_makeup <= Loudest
    BY <2>0, KnobsAre
  <2>2. 0 \in Nat /\ 0 <= 0 /\ 0 <= Unity
    BY FullScale
  <2>3. 0 <= Scaled(0, Most(dsp'.knobs.comp_makeup, Unity))
    BY <2>1, <2>2, MakeupIs
  <2> QED
    BY <1>4, <2>3 DEF OnlyMakeupAmplifies
<1> QED
  BY <1>3, <1>4, <1>5, <1>6 DEF DspInv

\* However long the stages run and whatever is switched or set meanwhile, the
\* resampler keeps pace, no peak gets further above the limiter's ceiling than
\* four steps of its release, no stage but the makeup amplifies, and the radio
\* effect holds a sample no longer than its slider allows (Resampler, Dsp and
\* RadioFx of audio.rs, with normalize_dsp()'s limits of the settings).
THEOREM ChainKeepsItsPromises == VcSpec => []ChainIsSound
<1> DEFINE Inv == ResInv /\ DspInv /\ FxInv
<1>1. VcInit => Inv
  <2> SUFFICES ASSUME VcInit PROVE Inv
    OBVIOUS
  <2>1. ResInv
    <3>1. res \in [pace : Pace, t : {0}, have_prev : {FALSE}, fed : {0}, made : {0}]
      BY DEF VcInit
    <3>2. /\ res.pace \in Pace /\ res.t = 0 /\ res.fed = 0 /\ res.made = 0
          /\ res.have_prev = FALSE
      BY <3>1
    <3>4. 0 \in Nat /\ FALSE \in BOOLEAN
      OBVIOUS
    <3>3. res \in ResType
      BY <3>1, <3>4, Zenon DEF ResType
    <3> QED
      BY <3>2, <3>3, PaceType DEF ResInv, PhaseIsAhead
  <2>2. DspInv
    <3>1. dsp \in DspType
      BY KnobsType DEF VcInit, DspType, Unit, Unity
    <3>2. passed \in PassedType /\ passed.in = 0 /\ passed.out = 0 /\ passed.before = 1000
      BY DEF VcInit, PassedType, Unit, Unity
    <3>3. EscapesByOneStep /\ OnlyMakeupAmplifies
      <4>1. dsp.knobs = DefaultKnobs
        BY DEF VcInit
      <4> QED
        BY <3>2, <4>1 DEF EscapesByOneStep, OnlyMakeupAmplifies, Smooth, Scaled, Most,
                          Unity, DefaultKnobs
    <3> QED
      BY <3>1, <3>2, <3>3 DEF DspInv
  <2>3. FxInv
    BY DEF VcInit, FxInv, FxType, AgeIsCovered
  <2> QED
    BY <2>1, <2>2, <2>3
<1>2. Inv /\ [VcNext]_vcVars => Inv'
  <2> SUFFICES ASSUME Inv, [VcNext]_vcVars PROVE Inv'
    OBVIOUS
  <2>1. UNCHANGED res => ResInv'
    BY DEF ResInv, PhaseIsAhead
  <2>2. UNCHANGED <<dsp, passed>> => DspInv'
    BY DEF DspInv, EscapesByOneStep, OnlyMakeupAmplifies
  <2>3. UNCHANGED fx => FxInv'
    BY DEF FxInv, AgeIsCovered
  <2>4. CASE Resample
    BY <2>2, <2>3, <2>4, ResampleInv DEF Resample
  <2>5. ASSUME NEW x \in Level, Shape(x) PROVE Inv'
    BY <2>1, <2>3, <2>5, ShapeInv DEF Shape
  <2>6. CASE SetDsp
    BY <2>1, <2>3, <2>6, SetDspInv DEF SetDsp
  <2>7. CASE Radio \/ SetRadio
    <3>1. UNCHANGED <<res, dsp, passed>>
      BY <2>7 DEF Radio, SetRadio
    <3> QED
      BY <2>1, <2>2, <2>7, <3>1, RadioInv
  <2>8. CASE UNCHANGED vcVars
    BY <2>1, <2>2, <2>3, <2>8 DEF vcVars
  <2> QED
    BY <2>4, <2>5, <2>6, <2>7, <2>8 DEF VcNext
<1>3. Inv => ChainIsSound
  <2> SUFFICES ASSUME Inv PROVE ChainIsSound
    OBVIOUS
  <2>1. NoDrift
    <3> SUFFICES ASSUME res.have_prev
                 PROVE  /\ res.made * res.pace.src - (res.fed - 1) * res.pace.dst >= 0
                        /\ res.made * res.pace.src - (res.fed - 1) * res.pace.dst
                             < res.pace.src + res.pace.dst
      BY DEF NoDrift
    <3>1. /\ res.t = res.made * res.pace.src - (res.fed - 1) * res.pace.dst
          /\ res.t \in Nat /\ res.t < res.pace.src /\ res.pace \in Pace
      BY DEF ResInv, ResType, PhaseIsAhead
    <3>2. res.t >= 0 /\ res.t < res.pace.src + res.pace.dst
      BY <3>1, PaceType
    <3> QED
      BY <3>1, <3>2
  <2>2. HoldsBriefly
    BY DEF FxInv, AgeIsCovered, HoldsBriefly
  <2> QED
    BY <2>1, <2>2 DEF ChainIsSound, DspInv
<1> QED
  BY <1>1, <1>2, <1>3, PTL DEF VcSpec

-----------------------------------------------------------------------------
(***************************************************************************)
(* The audio rig.  Each thread keeps the part of the state it writes: one    *)
(* stream of each kind runs and the published rates follow it; a frame that  *)
(* was played back to the user is only on its way to the wire while the      *)
(* self-check is still on, or was turned in between; the clock of the last   *)
(* collection bounds how long a peer the decoder knows was silent.          *)
(***************************************************************************)
SomeRate == Rate \cup {1}

DevType == [pc : {"off", "poll", "input", "output", "over"},
            ins : SUBSET Rate, outs : SUBSET Rate,
            todo : Seq([input : BOOLEAN, rate : Rate])]
FlagType == [stop : BOOLEAN, tx : BOOLEAN, monitor : BOOLEAN, dtx : BOOLEAN,
             in : SomeRate, out : SomeRate]
EncType == [pc : {"off", "top", "drain", "frame", "send", "over"}, clean : Nat,
            self : BOOLEAN, turned : BOOLEAN]
MixerType == [pc : {"off", "top", "fill", "over"}, rate : SomeRate]
ArrivedType == [queue : Seq(Speaker), open : BOOLEAN]

MixMax(x) == CASE x = Self -> SELF_MAX [] x = Earcon -> 2 [] OTHER -> MIX_MAX

RigTyped ==
  /\ dev \in DevType /\ flag \in FlagType /\ enc \in EncType
  /\ mixer \in MixerType /\ arrived \in ArrivedType
  /\ gc \in Nat /\ sent \in BOOLEAN

StreamsFollow ==
  /\ dev.pc = "poll" => dev.ins = {flag.in} /\ dev.outs = {flag.out}
  /\ dev.pc = "input" => flag.in \in dev.ins /\ dev.outs = {flag.out}
  /\ dev.pc = "output" => dev.ins = {flag.in} /\ flag.out \in dev.outs

CaptureKept == cap \in 0 .. CAP_MAX

QueuesKept ==
  /\ mix \in [DOMAIN mix -> Nat]
  /\ \A x \in DOMAIN mix : mix[x] <= MixMax(x)

RingKept == play \in Nat /\ \E r \in SomeRate : play <= PLAY_MAX * r

OnlyWhileMonitoring ==
  /\ ~sent
  /\ dev.pc = "off" => enc.pc = "off"
  /\ enc.self => enc.pc = "send"
  /\ enc.self /\ ~enc.turned => flag.monitor

SilenceIsRecent ==
  /\ seen \in [DOMAIN seen -> Nat]
  /\ \A q \in DOMAIN seen : seen[q] <= 1 + gc
  /\ (\E q \in DOMAIN seen : seen[q] = 0) => gc = 0

RigInv ==
  /\ RigTyped /\ StreamsFollow /\ CaptureKept /\ QueuesKept /\ RingKept
  /\ OnlyWhileMonitoring /\ SilenceIsRecent

\* Nobody in the room has the name of a queue the rig keeps for itself.
OwnQueues == Speaker \cap {Self, Earcon} = {}

LEMMA PutKept ==
  ASSUME QueuesKept, NEW x, NEW n \in Nat, n <= MixMax(x)
  PROVE  /\ Put(mix, x, n) \in [DOMAIN Put(mix, x, n) -> Nat]
         /\ \A y \in DOMAIN Put(mix, x, n) : Put(mix, x, n)[y] <= MixMax(y)
<1>1. DOMAIN Put(mix, x, n) = DOMAIN mix \cup {x}
  BY DEF Put
<1>2. \A y \in DOMAIN mix \cup {x} :
        Put(mix, x, n)[y] = IF y = x THEN n ELSE mix[y]
  BY DEF Put
<1>3. Put(mix, x, n) \in [DOMAIN mix \cup {x} -> Nat]
  BY DEF Put, QueuesKept
<1> QED
  BY <1>1, <1>2, <1>3 DEF QueuesKept

LEMMA MixMaxType ==
  /\ \A x : MixMax(x) \in Nat
  /\ MixMax(Self) = SELF_MAX /\ MixMax(Earcon) = 2
  /\ OwnQueues => \A p \in Speaker : MixMax(p) = MIX_MAX
<1>1. Self # Earcon
  BY DEF Self, Earcon
<1>2. SELF_MAX \in Nat /\ MIX_MAX \in Nat
  BY AuConstants
<1> QED
  BY <1>1, <1>2 DEF MixMax, OwnQueues

LEMMA HasType == ASSUME QueuesKept, NEW x PROVE Has(mix, x) \in Nat
BY DEF QueuesKept, Has

LEMMA AtMostType ==
  ASSUME NEW n \in Nat, NEW m \in Nat
  PROVE  AtMost(n, m) \in 0 .. m /\ AtMost(n, m) <= n
BY DEF AtMost

LEMMA RateType == SomeRate \subseteq Nat \ {0} /\ Rate \subseteq SomeRate
BY AuConstants DEF SomeRate

LEMMA RigInitInv == AuInit => RigInv
<1> SUFFICES ASSUME AuInit PROVE RigInv
  OBVIOUS
<1>1. 1 \in SomeRate
  BY DEF SomeRate
<1>2. dev \in DevType
  <2>1. <<>> \in Seq([input : BOOLEAN, rate : Rate])
    BY EmptySeq
  <2> QED
    BY <2>1 DEF AuInit, DevType
<1>3. flag \in FlagType
  BY <1>1 DEF AuInit, FlagType
<1>4. enc \in EncType /\ enc.self = FALSE /\ enc.pc = "off"
  BY DEF AuInit, EncType
<1>5. mixer \in MixerType
  BY <1>1 DEF AuInit, MixerType
<1>6. arrived \in ArrivedType
  <2>1. <<>> \in Seq(Speaker)
    BY EmptySeq
  <2> QED
    BY <2>1 DEF AuInit, ArrivedType
<1>7. gc \in Nat /\ sent = FALSE /\ dev.pc = "off" /\ cap = 0 /\ play = 0
  BY DEF AuInit
<1>8. mix \in [{} -> Nat] /\ DOMAIN mix = {} /\ seen \in [{} -> Nat] /\ DOMAIN seen = {}
  BY DEF AuInit
<1>9. RingKept
  <2>1. play <= PLAY_MAX * 1
    BY <1>7, AuConstants
  <2> QED
    BY <1>1, <1>7, <2>1 DEF RingKept
<1>10. CaptureKept
  BY <1>7, AuConstants DEF CaptureKept
<1>11. StreamsFollow /\ OnlyWhileMonitoring
  BY <1>4, <1>7 DEF StreamsFollow, OnlyWhileMonitoring
<1>12. QueuesKept /\ SilenceIsRecent
  BY <1>8 DEF QueuesKept, SilenceIsRecent
<1>13. RigTyped
  BY <1>2, <1>3, <1>4, <1>5, <1>6, <1>7 DEF RigTyped
<1> QED
  BY <1>9, <1>10, <1>11, <1>12, <1>13 DEF RigInv

\* A part holds on as long as nobody touches what it is about.
LEMMA RigFrames ==
  ASSUME RigInv
  PROVE  /\ UNCHANGED <<dev, flag>> => StreamsFollow'
         /\ UNCHANGED cap => CaptureKept'
         /\ UNCHANGED mix => QueuesKept'
         /\ UNCHANGED play => RingKept'
         /\ UNCHANGED <<dev, enc, flag, sent>> => OnlyWhileMonitoring'
         /\ UNCHANGED <<seen, gc>> => SilenceIsRecent'
BY DEF RigInv, StreamsFollow, CaptureKept, QueuesKept, MixMax, RingKept,
       OnlyWhileMonitoring, SilenceIsRecent

LEMMA StartRigInv == RigInv /\ StartRig => RigInv'
<1> SUFFICES ASSUME RigInv, StartRig PROVE RigInv'
  OBVIOUS
<1>0. /\ RigTyped /\ OnlyWhileMonitoring /\ dev.pc = "off"
      /\ UNCHANGED <<cap, mix, seen, gc, play, sent>>
  BY DEF StartRig, RigInv
<1>1. CaptureKept' /\ QueuesKept' /\ RingKept' /\ SilenceIsRecent'
  BY <1>0, RigFrames
<1>2. CASE dev' = [dev EXCEPT !.pc = "over"] /\ UNCHANGED <<flag, enc, mixer, arrived>>
  <2>1. dev' \in DevType /\ dev'.pc = "over"
    BY <1>0, <1>2 DEF RigTyped, DevType
  <2> QED
    BY <1>0, <1>1, <1>2, <2>1 DEF RigInv, RigTyped, StreamsFollow, OnlyWhileMonitoring
<1>3. ASSUME NEW i \in Rate, NEW o \in Rate,
             dev' = [dev EXCEPT !.pc = "poll", !.ins = {i}, !.outs = {o}],
             flag' = [flag EXCEPT !.in = i, !.out = o],
             enc' = [enc EXCEPT !.pc = "top"],
             mixer' = [mixer EXCEPT !.pc = "top", !.rate = o],
             arrived' = [arrived EXCEPT !.open = TRUE]
      PROVE  RigInv'
  <2>1. i \in SomeRate /\ o \in SomeRate
    BY RateType
  <2>2. /\ dev' \in DevType /\ dev'.ins = {i} /\ dev'.outs = {o} /\ dev'.pc = "poll"
    BY <1>0, <1>3 DEF RigTyped, DevType
  <2>3. flag' \in FlagType /\ flag'.in = i /\ flag'.out = o /\ flag'.monitor = flag.monitor
    BY <1>0, <1>3, <2>1 DEF RigTyped, FlagType
  <2>4. enc' \in EncType /\ enc'.self = enc.self /\ enc'.turned = enc.turned /\ enc'.pc = "top"
    BY <1>0, <1>3 DEF RigTyped, EncType
  <2>5. mixer' \in MixerType
    BY <1>0, <1>3, <2>1 DEF RigTyped, MixerType
  <2>6. arrived' \in ArrivedType
    BY <1>0, <1>3 DEF RigTyped, ArrivedType
  <2>7. ~enc.self
    BY <1>0 DEF OnlyWhileMonitoring
  <2>8. StreamsFollow'
    BY <2>2, <2>3 DEF StreamsFollow
  <2> QED
    BY <1>0, <1>1, <2>2, <2>3, <2>4, <2>5, <2>6, <2>7, <2>8
    DEF RigInv, RigTyped, OnlyWhileMonitoring
<1> QED
  BY <1>2, <1>3 DEF StartRig

LEMMA DeviceSteps ==
  ASSUME RigInv, Switch \/ FinishSwitch \/ DevicesEnd
                 \/ \E r \in Rate, input \in BOOLEAN : Request(input, r)
  PROVE  RigInv'
<1>0. /\ RigTyped /\ StreamsFollow /\ OnlyWhileMonitoring
      /\ dev \in DevType /\ flag \in FlagType
      /\ UNCHANGED <<capVars, mix, decVars, outVars>>
  BY DEF RigInv, RigTyped, Switch, FinishSwitch, DevicesEnd, Request
<1>1. CaptureKept' /\ QueuesKept' /\ RingKept' /\ SilenceIsRecent'
  BY <1>0, RigFrames DEF capVars, decVars, outVars
<1>2. ASSUME dev' \in DevType, dev'.pc # "off", UNCHANGED flag, StreamsFollow'
      PROVE  RigInv'
  BY <1>0, <1>1, <1>2 DEF RigInv, RigTyped, OnlyWhileMonitoring, capVars, decVars, outVars
<1>3. CASE Switch
  <2> DEFINE want == Head(dev.todo)
             rest == [dev EXCEPT !.todo = Tail(@)]
  <2>1. dev.pc = "poll" /\ dev.todo # <<>> /\ UNCHANGED flag
    BY <1>3 DEF Switch
  <2>2. /\ want.rate \in Rate /\ Tail(dev.todo) \in Seq([input : BOOLEAN, rate : Rate])
        /\ dev.ins \subseteq Rate /\ dev.outs \subseteq Rate
    <3> DEFINE Req == [input : BOOLEAN, rate : Rate]
    <3>1. dev.todo \in Seq(Req) /\ dev.ins \subseteq Rate /\ dev.outs \subseteq Rate
      BY <1>0 DEF DevType
    <3>2. \A q \in Req : q.rate \in Rate
      OBVIOUS
    <3> HIDE DEF Req
    <3>3. want \in Req /\ Tail(dev.todo) \in Seq(Req)
      BY <2>1, <3>1, HeadTailProperties
    <3> QED
      BY <3>1, <3>2, <3>3 DEF Req
  <2>3. /\ rest \in DevType /\ rest.pc = "poll"
        /\ rest.ins = dev.ins /\ rest.outs = dev.outs
    BY <1>0, <2>1, <2>2 DEF DevType
  <2>4. dev.ins = {flag.in} /\ dev.outs = {flag.out}
    BY <1>0, <2>1 DEF StreamsFollow
  <2> HIDE DEF want, rest
  <2>5. CASE dev' = rest
    BY <1>2, <2>1, <2>3, <2>4, <2>5 DEF StreamsFollow
  <2>6. CASE dev' = [rest EXCEPT !.pc = "input", !.ins = @ \cup {want.rate}]
    <3>1. /\ dev' \in DevType /\ dev'.pc = "input"
          /\ dev'.ins = dev.ins \cup {want.rate} /\ dev'.outs = dev.outs
      BY <2>2, <2>3, <2>6 DEF DevType
    <3> QED
      BY <1>2, <2>1, <2>4, <3>1 DEF StreamsFollow
  <2>7. CASE dev' = [rest EXCEPT !.pc = "output", !.outs = @ \cup {want.rate}]
    <3>1. /\ dev' \in DevType /\ dev'.pc = "output"
          /\ dev'.outs = dev.outs \cup {want.rate} /\ dev'.ins = dev.ins
      BY <2>2, <2>3, <2>7 DEF DevType
    <3> QED
      BY <1>2, <2>1, <2>4, <3>1 DEF StreamsFollow
  <2> QED
    BY <1>3, <2>5, <2>6, <2>7 DEF Switch, want, rest
<1>4. CASE FinishSwitch
  <2>1. \A rates \in SUBSET Rate : \A old \in rates : Newer(rates, old) \in rates
    <3> SUFFICES ASSUME NEW rates \in SUBSET Rate, NEW old \in rates, rates # {old}
                 PROVE  (CHOOSE r \in rates : r # old) \in rates
      BY DEF Newer
    <3>1. \E r \in rates : r # old
      OBVIOUS
    <3> QED
      BY <3>1
  <2>2. ASSUME NEW r \in Rate, dev.pc = "input", dev' = [dev EXCEPT !.pc = "poll", !.ins = {r}],
               flag' = [flag EXCEPT !.in = r]
        PROVE  RigInv'
    <3>1. r \in SomeRate /\ dev.outs = {flag.out}
      BY <1>0, <2>2, RateType DEF StreamsFollow
    <3>2. /\ dev' \in DevType /\ dev'.pc = "poll" /\ dev'.ins = {r} /\ dev'.outs = dev.outs
      BY <1>0, <2>2 DEF DevType
    <3>3. /\ flag' \in FlagType /\ flag'.in = r /\ flag'.out = flag.out
          /\ flag'.monitor = flag.monitor
      BY <1>0, <2>2, <3>1 DEF FlagType
    <3>4. StreamsFollow'
      BY <3>1, <3>2, <3>3 DEF StreamsFollow
    <3> QED
      BY <1>0, <1>1, <2>2, <3>2, <3>3, <3>4
      DEF RigInv, RigTyped, OnlyWhileMonitoring, capVars, decVars, outVars
  <2>3. ASSUME NEW r \in Rate, dev.pc = "output", dev' = [dev EXCEPT !.pc = "poll", !.outs = {r}],
               flag' = [flag EXCEPT !.out = r]
        PROVE  RigInv'
    <3>1. r \in SomeRate /\ dev.ins = {flag.in}
      BY <1>0, <2>3, RateType DEF StreamsFollow
    <3>2. /\ dev' \in DevType /\ dev'.pc = "poll" /\ dev'.outs = {r} /\ dev'.ins = dev.ins
      BY <1>0, <2>3 DEF DevType
    <3>3. /\ flag' \in FlagType /\ flag'.out = r /\ flag'.in = flag.in
          /\ flag'.monitor = flag.monitor
      BY <1>0, <2>3, <3>1 DEF FlagType
    <3>4. StreamsFollow'
      BY <3>1, <3>2, <3>3 DEF StreamsFollow
    <3> QED
      BY <1>0, <1>1, <2>2, <3>2, <3>3, <3>4
      DEF RigInv, RigTyped, OnlyWhileMonitoring, capVars, decVars, outVars
  <2>4. CASE dev.pc = "input"
    <3>1. dev.ins \in SUBSET Rate /\ flag.in \in dev.ins
      BY <1>0, <2>4 DEF DevType, StreamsFollow
    <3>2. Newer(dev.ins, flag.in) \in Rate
      BY <2>1, <3>1
    <3> QED
      BY <1>4, <2>2, <2>4, <3>2 DEF FinishSwitch, Switched
  <2>5. CASE dev.pc = "output"
    <3>1. dev.outs \in SUBSET Rate /\ flag.out \in dev.outs
      BY <1>0, <2>5 DEF DevType, StreamsFollow
    <3>2. Newer(dev.outs, flag.out) \in Rate
      BY <2>1, <3>1
    <3> QED
      BY <1>4, <2>3, <2>5, <3>2 DEF FinishSwitch, Switched
  <2> QED
    BY <1>4, <2>4, <2>5 DEF FinishSwitch
<1>5. CASE DevicesEnd
  <2>1. dev' \in DevType /\ dev'.pc = "over" /\ UNCHANGED flag
    BY <1>0, <1>5 DEF DevicesEnd, DevType
  <2> QED
    BY <1>2, <2>1 DEF StreamsFollow
<1>6. ASSUME NEW r \in Rate, NEW input \in BOOLEAN, Request(input, r) PROVE RigInv'
  <2> DEFINE q == [input |-> input, rate |-> r]
  <2>1. q \in [input : BOOLEAN, rate : Rate]
    OBVIOUS
  <2>2. dev' = [dev EXCEPT !.todo = Append(@, q)] /\ UNCHANGED flag
    BY <1>6 DEF Request
  <2> HIDE DEF q
  <2>3. Append(dev.todo, q) \in Seq([input : BOOLEAN, rate : Rate])
    BY <1>0, <2>1 DEF DevType
  <2>4. /\ dev' \in DevType /\ dev'.pc = dev.pc /\ dev.pc # "off"
        /\ dev'.ins = dev.ins /\ dev'.outs = dev.outs
    BY <1>0, <1>6, <2>2, <2>3 DEF DevType, Request
  <2> QED
    BY <1>0, <1>2, <2>2, <2>4 DEF StreamsFollow
<1> QED
  BY <1>3, <1>4, <1>5, <1>6

LEMMA EncoderSteps ==
  ASSUME RigInv, Capture \/ EncodeTop \/ Drain \/ NextFrame \/ Send
  PROVE  RigInv'
<1>0. /\ RigTyped /\ CaptureKept /\ QueuesKept /\ OnlyWhileMonitoring
      /\ enc \in EncType /\ cap \in Nat /\ CAP_MAX \in Nat \ {0}
      /\ UNCHANGED <<dev, flag, decVars, outVars>>
  BY AuConstants DEF RigInv, RigTyped, CaptureKept, Capture, EncodeTop, Drain, NextFrame, Send
<1>1. StreamsFollow' /\ RingKept' /\ SilenceIsRecent'
  BY <1>0, RigFrames DEF decVars, outVars
<1>2. ASSUME enc' \in EncType, sent' \in BOOLEAN, CaptureKept', QueuesKept', OnlyWhileMonitoring'
      PROVE  RigInv'
  BY <1>0, <1>1, <1>2 DEF RigInv, RigTyped, decVars, outVars
<1>3. sent = FALSE /\ enc.clean \in Nat
  BY <1>0 DEF OnlyWhileMonitoring, RigTyped, EncType
<1>4. CASE Capture
  <2>1. CaptureKept'
    <3>1. cap + 1 \in Nat /\ CAP_MAX \in Nat
      BY <1>0
    <3>2. AtMost(cap + 1, CAP_MAX) \in 0 .. CAP_MAX
      BY <3>1, AtMostType
    <3> QED
      BY <1>4, <3>2 DEF Capture, Kept, CaptureKept
  <2>2. UNCHANGED <<enc, sent, mix>>
    BY <1>4 DEF Capture
  <2> QED
    BY <1>0, <1>2, <1>3, <2>1, <2>2, RigFrames
<1>5. CASE EncodeTop
  <2>1. UNCHANGED <<cap, sent, mix>>
    BY <1>5 DEF EncodeTop
  <2>2. /\ enc' \in EncType /\ enc'.self = enc.self /\ enc.pc = "top"
        /\ enc'.pc # "off"
    BY <1>0, <1>5 DEF EncodeTop, EncType
  <2>3. OnlyWhileMonitoring'
    BY <1>0, <2>1, <2>2 DEF OnlyWhileMonitoring
  <2> QED
    BY <1>2, <1>3, <2>1, <2>2, <2>3, RigFrames
<1>6. CASE Drain
  <2>1. UNCHANGED <<sent, mix>> /\ cap' = 0
    BY <1>6 DEF Drain
  <2>2. enc.clean + cap \in Nat
    BY <1>0, <1>3
  <2>3. /\ enc' \in EncType /\ enc'.self = enc.self /\ enc.pc = "drain"
        /\ enc'.pc # "off"
    BY <1>0, <1>6, <2>2 DEF Drain, EncType
  <2>4. OnlyWhileMonitoring'
    BY <1>0, <2>1, <2>3 DEF OnlyWhileMonitoring
  <2>5. CaptureKept'
    BY <1>0, <2>1 DEF CaptureKept
  <2> QED
    BY <1>2, <1>3, <2>1, <2>3, <2>4, <2>5, RigFrames
<1>7. CASE NextFrame
  <2>1. UNCHANGED <<sent, cap>> /\ enc.pc = "frame"
    BY <1>7 DEF NextFrame
  <2>2. ~enc.self /\ dev.pc # "off"
    BY <1>0, <2>1 DEF OnlyWhileMonitoring
  <2>3. CASE enc' = [enc EXCEPT !.pc = "top"] /\ UNCHANGED mix
    <3>1. enc' \in EncType /\ enc'.self = enc.self
      BY <1>0, <2>3 DEF EncType
    <3>2. OnlyWhileMonitoring'
      BY <1>0, <2>1, <2>2, <3>1 DEF OnlyWhileMonitoring
    <3> QED
      BY <1>2, <1>3, <2>1, <2>3, <3>1, <3>2, RigFrames
  <2>4. CASE enc.clean >= 2
    <3> DEFINE more == AtMost(Has(mix, Self) + 1, SELF_MAX)
    <3>1. CASE enc' = [enc EXCEPT !.pc = "send", !.clean = @ - 2,
                                  !.self = flag.monitor, !.turned = FALSE]
      <4>1. mix' = IF flag.monitor THEN Put(mix, Self, more) ELSE mix
        BY <1>7, <2>3, <2>4, <3>1, <1>3 DEF NextFrame
      <4>2. flag.monitor \in BOOLEAN /\ enc.clean - 2 \in Nat
        BY <1>0, <1>3, <2>4 DEF RigTyped, FlagType
      <4>3. enc' \in EncType /\ enc'.pc = "send" /\ enc'.self = flag.monitor
        BY <1>0, <3>1, <4>2 DEF EncType
      <4>4. OnlyWhileMonitoring'
        BY <1>0, <2>1, <2>2, <4>3 DEF OnlyWhileMonitoring
      <4>5. QueuesKept'
        <5>1. Has(mix, Self) + 1 \in Nat /\ SELF_MAX \in Nat
          BY <1>0, HasType, AuConstants
        <5>2. more \in Nat /\ more <= MixMax(Self)
          BY <5>1, AtMostType, MixMaxType
        <5> HIDE DEF more
        <5>3. /\ Put(mix, Self, more) \in [DOMAIN Put(mix, Self, more) -> Nat]
              /\ \A y \in DOMAIN Put(mix, Self, more) : Put(mix, Self, more)[y] <= MixMax(y)
          BY <1>0, <5>2, PutKept
        <5>4. (\A y : MixMax(y)' = MixMax(y))
          BY DEF MixMax
        <5> QED
          BY <1>0, <4>1, <5>3, <5>4 DEF QueuesKept
      <4> QED
        BY <1>2, <1>3, <2>1, <4>3, <4>4, <4>5, RigFrames
    <3>2. CASE ~(enc' = [enc EXCEPT !.pc = "send", !.clean = @ - 2,
                                    !.self = flag.monitor, !.turned = FALSE])
      BY <1>3, <1>7, <2>4, <3>2 DEF NextFrame
    <3> QED
      BY <3>1, <3>2
  <2> QED
    BY <1>7, <2>3, <2>4 DEF NextFrame
<1>8. CASE Send
  <2>1. UNCHANGED <<cap, mix>> /\ enc.pc = "send"
    BY <1>8 DEF Send
  <2>2. sent' = FALSE
    <3>1. PICK silent \in BOOLEAN :
            sent' = IF MaySend(silent) THEN sent \/ (enc.self /\ ~enc.turned) ELSE sent
      BY <1>8 DEF Send
    <3>2. MaySend(silent) => ~(enc.self /\ ~enc.turned)
      BY <1>0 DEF MaySend, OnlyWhileMonitoring
    <3> QED
      BY <1>3, <3>1, <3>2
  <2>3. enc' \in EncType /\ enc'.self = FALSE /\ dev.pc # "off"
    BY <1>0, <1>8, <2>1 DEF Send, EncType, OnlyWhileMonitoring
  <2>4. OnlyWhileMonitoring'
    BY <1>0, <2>2, <2>3 DEF OnlyWhileMonitoring
  <2> QED
    BY <1>2, <2>1, <2>2, <2>3, <2>4, RigFrames
<1> QED
  BY <1>4, <1>5, <1>6, <1>7, <1>8

LEMMA UserSteps ==
  ASSUME RigInv, PlayCue \/ StopRig \/ \E f \in {"tx", "monitor", "dtx"} : Toggle(f)
  PROVE  RigInv'
<1>0. /\ RigTyped /\ StreamsFollow /\ OnlyWhileMonitoring /\ QueuesKept
      /\ enc \in EncType /\ flag \in FlagType /\ arrived \in ArrivedType
      /\ UNCHANGED <<dev, cap, sent, seen, gc, outVars>>
  BY DEF RigInv, RigTyped, PlayCue, StopRig, Toggle, capVars, decVars
<1>1. CaptureKept' /\ RingKept' /\ SilenceIsRecent'
  BY <1>0, RigFrames DEF outVars
<1>2. CASE PlayCue
  <2>1. UNCHANGED <<flag, enc, arrived>> /\ mix' = Put(mix, Earcon, 2)
    BY <1>2 DEF PlayCue, Cue, capVars, decVars
  <2>2. 2 <= MixMax(Earcon)
    BY MixMaxType
  <2>3. /\ Put(mix, Earcon, 2) \in [DOMAIN Put(mix, Earcon, 2) -> Nat]
        /\ \A y \in DOMAIN Put(mix, Earcon, 2) : Put(mix, Earcon, 2)[y] <= MixMax(y)
    BY <1>0, <2>2, PutKept
  <2>4. (\A y : MixMax(y)' = MixMax(y))
    BY DEF MixMax
  <2>5. QueuesKept'
    BY <2>1, <2>3, <2>4 DEF QueuesKept
  <2>6. StreamsFollow' /\ OnlyWhileMonitoring'
    BY <1>0, <2>1, RigFrames
  <2> QED
    BY <1>0, <1>1, <2>1, <2>5, <2>6 DEF RigInv, RigTyped, outVars
<1>3. CASE StopRig
  <2>1. UNCHANGED <<enc, mix>>
    BY <1>3 DEF StopRig, capVars
  <2>2. /\ flag' \in FlagType /\ flag'.in = flag.in /\ flag'.out = flag.out
        /\ flag'.monitor = flag.monitor
    BY <1>0, <1>3 DEF StopRig, FlagType
  <2>3. arrived' \in ArrivedType
    BY <1>0, <1>3 DEF StopRig, ArrivedType
  <2>4. StreamsFollow' /\ OnlyWhileMonitoring'
    BY <1>0, <2>1, <2>2 DEF StreamsFollow, OnlyWhileMonitoring
  <2> QED
    BY <1>0, <1>1, <2>1, <2>2, <2>3, <2>4, RigFrames DEF RigInv, RigTyped, outVars
<1>4. ASSUME NEW f \in {"tx", "monitor", "dtx"}, Toggle(f) PROVE RigInv'
  <2>1. /\ UNCHANGED <<mix, arrived>> /\ flag' = [flag EXCEPT ![f] = ~@]
        /\ dev.pc # "off"
        /\ enc' = IF f = "monitor" /\ enc.pc = "send" THEN [enc EXCEPT !.turned = TRUE] ELSE enc
    BY <1>4 DEF Toggle, decVars
  <2>2. flag' \in FlagType
    BY <1>0, <2>1 DEF FlagType
  <2>3. flag'.in = flag.in /\ flag'.out = flag.out
    BY <1>0, <2>1 DEF FlagType
  <2>4. /\ enc' \in EncType /\ enc'.pc = enc.pc /\ enc'.self = enc.self
        /\ enc'.turned = (enc.turned \/ (f = "monitor" /\ enc.pc = "send"))
    BY <1>0, <2>1 DEF EncType
  <2>5. f # "monitor" => flag'.monitor = flag.monitor
    BY <1>0, <2>1 DEF FlagType
  <2>6. StreamsFollow'
    BY <1>0, <2>3 DEF StreamsFollow
  <2>7. OnlyWhileMonitoring'
    BY <1>0, <2>1, <2>4, <2>5 DEF OnlyWhileMonitoring
  <2> QED
    BY <1>0, <1>1, <2>1, <2>2, <2>4, <2>6, <2>7, RigFrames DEF RigInv, RigTyped, outVars
<1> QED
  BY <1>2, <1>3, <1>4

LEMMA DecoderSteps ==
  ASSUME OwnQueues, RigInv, Decode \/ Tick \/ \E p \in Speaker : FrameArrives(p)
  PROVE  RigInv'
<1>0. /\ RigTyped /\ QueuesKept /\ SilenceIsRecent /\ arrived \in ArrivedType /\ gc \in Nat
      /\ UNCHANGED <<dev, flag, capVars, outVars>>
  BY DEF RigInv, RigTyped, Decode, Tick, FrameArrives
<1>1. StreamsFollow' /\ CaptureKept' /\ RingKept' /\ OnlyWhileMonitoring'
  BY <1>0, RigFrames DEF capVars, outVars
<1>2. ASSUME arrived' \in ArrivedType, gc' \in Nat, QueuesKept', SilenceIsRecent'
      PROVE  RigInv'
  BY <1>0, <1>1, <1>2 DEF RigInv, RigTyped, capVars, outVars
<1>3. ASSUME NEW p \in Speaker, FrameArrives(p) PROVE RigInv'
  <2>1. UNCHANGED <<mix, seen, gc>> /\ arrived' = [arrived EXCEPT !.queue = Append(@, p)]
    BY <1>3 DEF FrameArrives
  <2>2. Append(arrived.queue, p) \in Seq(Speaker)
    BY <1>0 DEF ArrivedType
  <2>3. arrived' \in ArrivedType
    BY <1>0, <2>1, <2>2 DEF ArrivedType
  <2> QED
    BY <1>0, <1>2, <2>1, <2>3, RigFrames
<1>4. CASE Tick
  <2>1. /\ UNCHANGED <<mix, arrived>> /\ gc' = gc + 1
        /\ seen' = [q \in DOMAIN seen |-> seen[q] + 1]
    BY <1>4 DEF Tick
  <2>2. \A q \in DOMAIN seen : seen[q] \in Nat /\ seen[q] <= 1 + gc
    BY <1>0 DEF SilenceIsRecent
  <2>3. \A q \in DOMAIN seen : seen[q] + 1 \in Nat \ {0} /\ seen[q] + 1 <= 1 + (gc + 1)
    BY <1>0, <2>2
  <2>4. SilenceIsRecent'
    BY <2>1, <2>3 DEF SilenceIsRecent
  <2>5. gc' \in Nat
    BY <1>0, <2>1
  <2> QED
    BY <1>0, <1>2, <2>1, <2>4, <2>5, RigFrames
<1>5. CASE Decode
  <2> DEFINE p == Head(arrived.queue)
             now == Put(seen, p, 0)
             stale == IF Due THEN {q \in DOMAIN now : now[q] >= Idle} ELSE {}
             more == AtMost(Has(mix, p) + 1, MIX_MAX)
  <2>1. /\ arrived.queue # <<>>
        /\ arrived' = [arrived EXCEPT !.queue = Tail(@)]
        /\ seen' = [q \in DOMAIN now \ stale |-> now[q]]
        /\ gc' = IF Due THEN 0 ELSE gc
        /\ \E m \in {mix, Put(mix, p, more)} : mix' = [x \in DOMAIN m \ stale |-> m[x]]
    BY <1>5 DEF Decode
  <2>2. p \in Speaker /\ Tail(arrived.queue) \in Seq(Speaker)
    BY <1>0, <2>1, HeadTailProperties DEF ArrivedType
  <2> HIDE DEF p
  <2>3. arrived' \in ArrivedType
    BY <1>0, <2>1, <2>2 DEF ArrivedType
  <2>4. QueuesKept'
    <3>1. Has(mix, p) + 1 \in Nat /\ MIX_MAX \in Nat
      BY <1>0, HasType, AuConstants
    <3>2. more \in Nat /\ more <= MixMax(p)
      BY <2>2, <3>1, AtMostType, MixMaxType
    <3> HIDE DEF more, stale
    <3>3. /\ Put(mix, p, more) \in [DOMAIN Put(mix, p, more) -> Nat]
          /\ \A y \in DOMAIN Put(mix, p, more) : Put(mix, p, more)[y] <= MixMax(y)
      BY <1>0, <3>2, PutKept
    <3>4. \A y : MixMax(y)' = MixMax(y)
      BY DEF MixMax
    <3>5. PICK m \in {mix, Put(mix, p, more)} : mix' = [x \in DOMAIN m \ stale |-> m[x]]
      BY <2>1
    <3>6. m \in [DOMAIN m -> Nat] /\ \A y \in DOMAIN m : m[y] <= MixMax(y)
      BY <1>0, <3>3, <3>5 DEF QueuesKept
    <3> QED
      BY <3>4, <3>5, <3>6 DEF QueuesKept
  <2>5. SilenceIsRecent' /\ gc' \in Nat
    <3>1. /\ DOMAIN now = DOMAIN seen \cup {p}
          /\ \A q \in DOMAIN now : now[q] = IF q = p THEN 0 ELSE seen[q]
      BY DEF Put
    <3>2. \A q \in DOMAIN now : now[q] \in Nat /\ now[q] <= 1 + gc
      BY <1>0, <3>1 DEF SilenceIsRecent
    <3> HIDE DEF now
    <3>3. CASE Due
      <4>1. gc' = 0 /\ stale = {q \in DOMAIN now : now[q] >= 2}
        BY <2>1, <3>3 DEF Idle
      <4>2. \A q \in DOMAIN now \ stale : now[q] \in Nat /\ now[q] <= 1 + 0
        BY <3>2, <4>1
      <4> HIDE DEF stale
      <4> QED
        BY <2>1, <4>1, <4>2 DEF SilenceIsRecent
    <3>4. CASE ~Due
      <4>1. gc = 0 /\ gc' = 0
        BY <1>0, <2>1, <3>4 DEF Due
      <4>2. \A q \in DOMAIN now \ stale : now[q] \in Nat /\ now[q] <= 1 + 0
        BY <3>2, <4>1
      <4> HIDE DEF stale
      <4> QED
        BY <2>1, <4>1, <4>2 DEF SilenceIsRecent
    <3> QED
      BY <3>3, <3>4
  <2> QED
    BY <1>2, <2>3, <2>4, <2>5
<1> QED
  BY <1>3, <1>4, <1>5

LEMMA MixerSteps ==
  ASSUME RigInv, MixTop \/ Fill \/ Playback
  PROVE  RigInv'
<1>0. /\ RigTyped /\ QueuesKept /\ RingKept /\ mixer \in MixerType
      /\ dev \in DevType /\ flag \in FlagType /\ PLAY_MAX \in Nat
      /\ UNCHANGED <<dev, flag, capVars, decVars>>
  BY AuConstants DEF RigInv, RigTyped, MixTop, Fill, Playback
<1>1. StreamsFollow' /\ CaptureKept' /\ OnlyWhileMonitoring' /\ SilenceIsRecent'
  BY <1>0, RigFrames DEF capVars, decVars
<1>2. ASSUME mixer' \in MixerType, QueuesKept', RingKept' PROVE RigInv'
  BY <1>0, <1>1, <1>2 DEF RigInv, RigTyped, capVars, decVars
<1>3. CASE MixTop
  <2>1. UNCHANGED <<mix, play>>
    BY <1>3 DEF MixTop
  <2>2. mixer' \in MixerType
    BY <1>0, <1>3 DEF MixTop, MixerType, FlagType
  <2> QED
    BY <1>2, <2>1, <2>2, RigFrames
<1>4. CASE Fill
  <2>1. CASE mixer' = [mixer EXCEPT !.pc = "top"] /\ UNCHANGED <<mix, play>>
    <3>1. mixer' \in MixerType
      BY <1>0, <2>1 DEF MixerType
    <3> QED
      BY <1>2, <2>1, <3>1, RigFrames
  <2>2. CASE /\ mix' = [x \in DOMAIN mix |-> IF mix[x] > 0 THEN mix[x] - 1 ELSE 0]
             /\ play' = AtMost(play + mixer.rate, RingMax(mixer.rate))
             /\ UNCHANGED mixer
    <3>1. mixer.rate \in SomeRate /\ mixer.rate \in Nat
      BY <1>0, RateType DEF MixerType
    <3>2. RingMax(mixer.rate) \in Nat /\ play + mixer.rate \in Nat
      BY <1>0, <3>1 DEF RingMax, RingKept
    <3>3. play' \in 0 .. RingMax(mixer.rate)
      BY <2>2, <3>2, AtMostType
    <3>4. RingKept'
      <4>1. play' \in Nat /\ play' <= RingMax(mixer.rate)
        BY <3>2, <3>3
      <4>2. RingMax(mixer.rate) = PLAY_MAX * mixer.rate
        BY DEF RingMax
      <4> QED
        BY <3>1, <4>1, <4>2 DEF RingKept
    <3>5. QueuesKept'
      <4>1. \A x \in DOMAIN mix : mix[x] \in Nat /\ mix[x] <= MixMax(x)
        BY <1>0 DEF QueuesKept
      <4>2. \A x \in DOMAIN mix : mix'[x] \in Nat /\ mix'[x] <= MixMax(x)
        BY <2>2, <4>1, MixMaxType
      <4>3. DOMAIN mix' = DOMAIN mix /\ mix' \in [DOMAIN mix -> Nat]
        BY <2>2, <4>1, <4>2
      <4>4. \A y : MixMax(y)' = MixMax(y)
        BY DEF MixMax
      <4> QED
        BY <4>2, <4>3, <4>4 DEF QueuesKept
    <3> QED
      BY <1>0, <1>2, <2>2, <3>4, <3>5
  <2> QED
    BY <1>4, <2>1, <2>2 DEF Fill
<1>5. CASE Playback
  <2>1. UNCHANGED <<mix, mixer>>
    BY <1>5 DEF Playback
  <2>2. PICK r \in dev.outs : play' = IF play > r THEN play - r ELSE 0
    BY <1>5 DEF Playback
  <2>3. r \in Nat
    BY <1>0, RateType DEF DevType
  <2>4. play \in Nat /\ play' \in Nat /\ play' <= play
    BY <1>0, <2>2, <2>3 DEF RingKept
  <2>5. RingKept'
    <3>1. PICK k \in SomeRate : play <= PLAY_MAX * k
      BY <1>0 DEF RingKept
    <3>2. PLAY_MAX * k \in Nat
      BY <1>0, RateType
    <3>3. play' <= PLAY_MAX * k
      BY <2>4, <3>1, <3>2
    <3> QED
      BY <2>4, <3>3 DEF RingKept
  <2> QED
    BY <1>0, <1>2, <2>1, <2>5, RigFrames
<1> QED
  BY <1>3, <1>4, <1>5

\* Whatever thread is late, whichever devices come and go and whoever speaks:
\* buffers keep their bounds, the self-check stays at home, the rig has a
\* device of each kind at the published rate, and peers that fell silent are
\* forgotten (spawn_audio(), setup_audio(), the encoder, decoder and mixer
\* loops).  Nobody in the room is called like a queue of the rig itself.
THEOREM RigKeepsRunning ==
  ASSUME OwnQueues
  PROVE  AuSpec => []RigIsSafe
<1>1. RigInv /\ [AuNext]_auVars => RigInv'
  <2> SUFFICES ASSUME RigInv, [AuNext]_auVars PROVE RigInv'
    OBVIOUS
  <2>1. CASE StartRig
    BY <2>1, StartRigInv
  <2>2. CASE Switch \/ FinishSwitch \/ DevicesEnd
             \/ \E r \in Rate, input \in BOOLEAN : Request(input, r)
    BY <2>2, DeviceSteps
  <2>3. CASE Capture \/ EncodeTop \/ Drain \/ NextFrame \/ Send
    BY <2>3, EncoderSteps
  <2>4. CASE PlayCue \/ StopRig \/ \E f \in {"tx", "monitor", "dtx"} : Toggle(f)
    BY <2>4, UserSteps
  <2>5. CASE Decode \/ Tick \/ \E p \in Speaker : FrameArrives(p)
    BY <2>5, DecoderSteps
  <2>6. CASE MixTop \/ Fill \/ Playback
    BY <2>6, MixerSteps
  <2>7. CASE UNCHANGED auVars
    BY <2>7, RigFrames DEF auVars, RigInv, RigTyped
  <2> QED
    BY <2>1, <2>2, <2>3, <2>4, <2>5, <2>6, <2>7 DEF AuNext, AuThread
<1>2. RigInv => RigIsSafe
  <2> SUFFICES ASSUME RigInv PROVE RigIsSafe
    OBVIOUS
  <2>1. BuffersBounded
    BY AuConstants DEF RigInv, BuffersBounded, CaptureKept, QueuesKept, MixMax, RingKept,
                       SomeRate
  <2>2. SelfTestStaysHome
    BY DEF RigInv, OnlyWhileMonitoring, SelfTestStaysHome
  <2>3. NeverDeviceless
    BY DEF RigInv, StreamsFollow, NeverDeviceless
  <2>4. RatesSettle
    BY DEF RigInv, StreamsFollow, RatesSettle
  <2>5. QuietPeersForgotten
    <3> SUFFICES ASSUME NEW p \in DOMAIN seen, seen[p] = 0, NEW q \in DOMAIN seen
                 PROVE  seen[q] <= 2
      BY DEF QuietPeersForgotten, Idle
    <3>1. seen[q] \in Nat /\ seen[q] <= 1 + gc /\ gc = 0
      BY DEF RigInv, SilenceIsRecent
    <3> QED
      BY <3>1
  <2> QED
    BY <2>1, <2>2, <2>3, <2>4, <2>5 DEF RigIsSafe
<1> QED
  BY <1>1, <1>2, RigInitInv, PTL DEF AuSpec

-----------------------------------------------------------------------------
(***************************************************************************)
(* The watchdogs of the links.  For a member whose link is down, the ages     *)
(* the loop keeps are those of the outage: it was told exactly if the outage *)
(* is old enough, and the last rebuild was a whole number of retry intervals *)
(* after its begin.                                                        *)
(***************************************************************************)
Age == Nat \cup {Fresh, Never}

WatchType == [here : BOOLEAN, linked : BOOLEAN, secure : BOOLEAN, down : Age,
              retried : Age, warned : BOOLEAN]
TryType == [st : {"none", "trying", "up", "ended"}, desc : BOOLEAN, cand : BOOLEAN,
            paired : BOOLEAN, age : Nat \cup {Fresh}, retry : BOOLEAN]
HistoryType == [dark : Nat \cup {Fresh}, times : {0, 1}, gap : Nat \cup {Never},
                spaced : BOOLEAN]
RingType == [key : BOOLEAN, since : Nat \cup {Never}, warned : BOOLEAN]
Reason == {"nothing", "no connection", "broke", "signaling", "no candidates", "blocked"}
ToldType == [of : [Peer -> HistoryType], stuck : Nat, keyless : Nat,
             why : Reason, early : BOOLEAN]

DueOf(p) == IF Offers(p) THEN RETRY_OFFERER ELSE RETRY_ANSWERER

Down(w) == w.here /\ ~w.linked

\* The clock of the outage, and whether the user was told.
Clocked(w, h) ==
  /\ w.here /\ w.linked => ~w.warned /\ w.down = Never /\ w.retried = Never
  /\ Down(w) =>
       /\ w.down # Never /\ h.dark = w.down
       /\ w.warned <=> w.down >= WARN_AFTER
       /\ h.times = IF w.warned THEN 1 ELSE 0

\* The last rebuild: none before the retry interval, then one per interval.
Paced(p, w, h) ==
  /\ h.spaced
  /\ Down(w) =>
       IF w.retried = Never
         THEN w.down < DueOf(p) /\ (h.gap = Never \/ h.gap >= w.down + 1)
         ELSE /\ w.retried \in 0 .. DueOf(p) - 1
              /\ h.gap = Never \/ h.gap >= w.retried
              /\ \E k \in Nat \ {0} : w.down = w.retried + k * DueOf(p)

\* An attempt of the watchdog is at least as old as its last rebuild.
Aimed(w, t) ==
  t.retry =>
    /\ t.age # Fresh
    /\ Down(w) /\ ~t.paired =>
         t.age >= IF w.retried = Never THEN w.down + 1 ELSE w.retried

Minded(p, w, t, h) == Clocked(w, h) /\ Paced(p, w, h) /\ Aimed(w, t)

KeylessCounted ==
  /\ ring \in RingType
  /\ told.stuck = IF ring.since = Never THEN 0 ELSE ring.since + 1
  /\ told.keyless = IF ring.warned THEN 1 ELSE 0
  /\ ring.warned <=> told.stuck > KEYLESS_WARN_AFTER

WatchTyped ==
  /\ watch \in [Peer -> WatchType]
  /\ tries \in [Peer -> TryType]
  /\ told \in ToldType

WatchInv ==
  /\ WatchTyped /\ KeylessCounted /\ ReasonHadTime
  /\ \A p \in Peer : Minded(p, watch[p], tries[p], told.of[p])

\* The intervals of the code: the offering side tries again before the user is
\* told, the other side after (LINK_RETRY_OFFERER < LINK_WARN_AFTER <
\* LINK_RETRY_ANSWERER), and no retry falls due when the user is told, nor one
\* tick before (8 s and 20 s, in ticks of 2 s).
Intervals ==
  /\ RETRY_OFFERER < WARN_AFTER /\ WARN_AFTER < RETRY_ANSWERER
  /\ \A k \in Nat : k * RETRY_OFFERER \notin {WARN_AFTER - 1, WARN_AFTER}

LEMMA DueType ==
  /\ WARN_AFTER \in Nat \ {0} /\ KEYLESS_WARN_AFTER \in Nat \ {0}
  /\ RETRY_OFFERER \in Nat \ {0}
  /\ \A p \in Peer : DueOf(p) \in Nat \ {0}
  /\ Intervals => \A p \in Peer : RETRY_OFFERER <= DueOf(p)
BY WatchConstants DEF DueOf, Intervals

\* A member that has just come, whoever had a connection to it.
LEMMA NewMember ==
  ASSUME NEW p \in Peer, NEW b, NEW t \in TryType, NEW h \in HistoryType,
         h.spaced, t.retry => t.age # Fresh, h.dark = Fresh, h.times = 0
  PROVE  Minded(p, Member(b), t, h)
<1>1. /\ Member(b).here /\ ~Member(b).linked /\ ~Member(b).warned
      /\ Member(b).down = -1 /\ Member(b).retried = -2
  BY DEF Member, Fresh, Never
<1>2. DueOf(p) \in Nat \ {0} /\ WARN_AFTER \in Nat \ {0}
  BY DueType
<1>3. Clocked(Member(b), h)
  BY <1>1, <1>2 DEF Clocked, Down, Fresh, Never
<1>4. Paced(p, Member(b), h)
  BY <1>1, <1>2 DEF Paced, Down, Fresh, Never, HistoryType
<1>5. Aimed(Member(b), t)
  BY <1>1 DEF Aimed, Down, Fresh, Never, TryType
<1> QED
  BY <1>3, <1>4, <1>5 DEF Minded

LEMMA AbsentMember ==
  ASSUME NEW p \in Peer, NEW w, NEW t, NEW h, ~w.here, h.spaced, t.retry => t.age # Fresh
  PROVE  Minded(p, w, t, h)
BY DEF Minded, Clocked, Paced, Aimed, Down

\* An attempt that is not the watchdog's, or the one there was with more learnt.
LEMMA OtherTry ==
  ASSUME NEW p \in Peer, NEW w, NEW t, NEW u, NEW h, Minded(p, w, t, h),
         ~u.retry \/ (u.retry = t.retry /\ u.age = t.age /\ (t.paired => u.paired))
  PROVE  Minded(p, w, u, h)
BY DEF Minded, Aimed

LEMMA FreshTries ==
  /\ \A d \in BOOLEAN : Try(d) \in TryType /\ ~Try(d).retry
  /\ NoTry \in TryType /\ ~NoTry.retry
  /\ Retried \in TryType /\ Retried.retry /\ Retried.age = 0
BY DEF Try, NoTry, Retried, TryType, Fresh

LEMMA MemberType == \A b \in BOOLEAN : Member(b) \in WatchType
BY DEF Member, WatchType, Age

LEMMA NoMemberType == NoMember \in WatchType /\ ~NoMember.here
BY DEF NoMember, Member, WatchType, Age

\* History of a peer when a stay or an outage begins.
LEMMA BeganType ==
  ASSUME NEW h \in HistoryType
  PROVE  /\ Began(h) \in HistoryType /\ Began(h).dark = Fresh /\ Began(h).times = 0
         /\ Began(h).spaced = h.spaced /\ Began(h).gap = h.gap
<1>1. Began(h) \in HistoryType
  BY DEF Began, HistoryType
<1>2. Began(h).dark = Fresh /\ Began(h).times = 0
  BY DEF Began, HistoryType
<1>3. Began(h).spaced = h.spaced /\ Began(h).gap = h.gap
  BY DEF Began, HistoryType
<1> QED
  BY <1>1, <1>2, <1>3

LEMMA BeginsType ==
  ASSUME told \in ToldType, NEW p \in Peer
  PROVE  /\ Begins(p) \in ToldType
         /\ Begins(p).of[p] \in HistoryType
         /\ Begins(p).of[p].dark = Fresh /\ Begins(p).of[p].times = 0
         /\ Begins(p).of[p].spaced = told.of[p].spaced
         /\ Begins(p).of[p].gap = told.of[p].gap
         /\ \A q \in Peer \ {p} : Begins(p).of[q] = told.of[q]
         /\ Begins(p).why = told.why /\ Begins(p).early = told.early
         /\ Begins(p).stuck = told.stuck /\ Begins(p).keyless = told.keyless
<1> DEFINE of == [told.of EXCEPT ![p] = Began(told.of[p])]
<1>1. told.of \in [Peer -> HistoryType] /\ told.of[p] \in HistoryType
  BY DEF ToldType
<1>2. Begins(p) = [told EXCEPT !.of = of]
  BY <1>1 DEF Begins, ToldType
<1>3. of \in [Peer -> HistoryType] /\ of[p] = Began(told.of[p])
      /\ \A q \in Peer \ {p} : of[q] = told.of[q]
  BY <1>1, BeganType
<1> HIDE DEF of
<1> QED
  BY <1>1, <1>2, <1>3, BeganType DEF ToldType

\* What a step has to show: types, and the state of each member.
LEMMA WatchStep ==
  ASSUME WatchInv, WatchTyped',
         told'.why = told.why, told'.early = told.early,
         told'.stuck = told.stuck, told'.keyless = told.keyless, UNCHANGED ring,
         \A p \in Peer : Minded(p, watch'[p], tries'[p], told'.of[p])
  PROVE  WatchInv'
<1>1. KeylessCounted'
  BY DEF WatchInv, KeylessCounted
<1>2. ReasonHadTime'
  BY DEF WatchInv, ReasonHadTime
<1>3. \A p \in Peer : Minded(p, watch[p], tries[p], told.of[p])'
  BY DEF Minded, Clocked, Paced, Aimed, Down, DueOf, Offers
<1> QED
  BY <1>1, <1>2, <1>3 DEF WatchInv

LEMMA TypesOfPeer ==
  ASSUME WatchInv, NEW p \in Peer
  PROVE  /\ watch[p] \in WatchType /\ tries[p] \in TryType
         /\ told \in ToldType /\ told.of[p] \in HistoryType
         /\ told.of[p].spaced
         /\ tries[p].retry => tries[p].age # Fresh
         /\ Minded(p, watch[p], tries[p], told.of[p])
BY DEF WatchInv, WatchTyped, ToldType, Minded, Paced, Aimed

LEMMA OnPeerType ==
  ASSUME WatchInv, NEW p \in Peer
  PROVE  /\ OnPeer(p) \in TryType
         /\ OnPeer(p).retry => OnPeer(p).age # Fresh
         /\ \/ ~OnPeer(p).retry \/ OnPeer(p) = tries[p]
BY TypesOfPeer, FreshTries DEF OnPeer

\* Steps with which a stay or an outage of one member begins.
LEMMA OneBegins ==
  ASSUME WatchInv, UNCHANGED ring, NEW p \in Peer, told' = Begins(p),
         NEW w \in WatchType, NEW t \in TryType,
         watch' = [watch EXCEPT ![p] = w], tries' = [tries EXCEPT ![p] = t],
         \A h \in HistoryType :
           h.spaced /\ h.dark = Fresh /\ h.times = 0 => Minded(p, w, t, h)
  PROVE  WatchInv'
<1>1. /\ watch \in [Peer -> WatchType] /\ tries \in [Peer -> TryType] /\ told \in ToldType
      /\ \A q \in Peer : Minded(q, watch[q], tries[q], told.of[q])
      /\ told.of[p].spaced
  BY TypesOfPeer DEF WatchInv, WatchTyped
<1>2. /\ told' \in ToldType
      /\ told'.of[p] \in HistoryType
      /\ told'.of[p].dark = Fresh /\ told'.of[p].times = 0 /\ told'.of[p].spaced
      /\ \A q \in Peer \ {p} : told'.of[q] = told.of[q]
      /\ told'.why = told.why /\ told'.early = told.early
      /\ told'.stuck = told.stuck /\ told'.keyless = told.keyless
  BY <1>1, BeginsType
<1>3. WatchTyped'
  BY <1>1, <1>2 DEF WatchTyped
<1>4. \A q \in Peer : Minded(q, watch'[q], tries'[q], told'.of[q])
  BY <1>1, <1>2
<1> QED
  BY <1>2, <1>3, <1>4, WatchStep

LEMMA OnPeerJoinedInv == ASSUME WatchInv, NEW p \in Peer, OnPeerJoined(p) PROVE WatchInv'
<1> DEFINE b == p \in pairs
<1>1. /\ watch' = [watch EXCEPT ![p] = Member(b)]
      /\ tries' = [tries EXCEPT ![p] = OnPeer(p)]
      /\ told' = Begins(p) /\ UNCHANGED ring
  BY DEF OnPeerJoined
<1>2. Member(b) \in WatchType
  BY DEF Member, WatchType, Age
<1>3. OnPeer(p) \in TryType /\ (OnPeer(p).retry => OnPeer(p).age # Fresh)
  BY OnPeerType
<1> HIDE DEF b
<1>4. \A h \in HistoryType :
        h.spaced /\ h.dark = Fresh /\ h.times = 0 => Minded(p, Member(b), OnPeer(p), h)
  BY <1>3, NewMember
<1> QED
  BY <1>1, <1>2, <1>3, <1>4, OneBegins

\* Steps that leave the history alone and change one member.
LEMMA OneMember ==
  ASSUME WatchInv, UNCHANGED <<ring, told>>, NEW p \in Peer,
         NEW w \in WatchType, NEW t \in TryType,
         watch' = [watch EXCEPT ![p] = w], tries' = [tries EXCEPT ![p] = t],
         Minded(p, w, t, told.of[p])
  PROVE  WatchInv'
<1>1. /\ watch \in [Peer -> WatchType] /\ tries \in [Peer -> TryType] /\ told \in ToldType
      /\ \A q \in Peer : Minded(q, watch[q], tries[q], told.of[q])
  BY DEF WatchInv, WatchTyped
<1>2. WatchTyped'
  BY <1>1 DEF WatchTyped
<1>3. \A q \in Peer : Minded(q, watch'[q], tries'[q], told'.of[q])
  BY <1>1
<1> QED
  BY <1>2, <1>3, WatchStep

LEMMA OnPeerLeftInv == ASSUME WatchInv, NEW p \in Peer, OnPeerLeft(p) PROVE WatchInv'
<1>1. /\ NoMember \in WatchType /\ ~NoMember.here /\ NoTry \in TryType /\ ~NoTry.retry
      /\ told.of[p].spaced
  BY NoMemberType, FreshTries, TypesOfPeer
<1>2. Minded(p, NoMember, NoTry, told.of[p])
  BY <1>1, AbsentMember
<1> QED
  BY <1>1, <1>2, OneMember DEF OnPeerLeft

\* Steps that change no member, only attempts.
LEMMA OnlyTries ==
  ASSUME WatchInv, UNCHANGED <<watch, ring, told>>, tries' \in [Peer -> TryType],
         \A p \in Peer : \/ ~tries'[p].retry
                         \/ /\ tries'[p].retry = tries[p].retry /\ tries'[p].age = tries[p].age
                            /\ tries[p].paired => tries'[p].paired
  PROVE  WatchInv'
<1>1. WatchTyped'
  BY DEF WatchInv, WatchTyped
<1>2. \A p \in Peer : Minded(p, watch[p], tries'[p], told.of[p])
  BY TypesOfPeer, OtherTry
<1> QED
  BY <1>1, <1>2, WatchStep

LEMMA TryEvents ==
  ASSUME WatchInv, OnRekey \/ \E p \in Peer : PeerOffers(p) \/ Learns(p)
  PROVE  WatchInv'
<1>0. tries \in [Peer -> TryType]
  BY DEF WatchInv, WatchTyped
<1>1. CASE OnRekey
  <2>1. /\ UNCHANGED <<watch, ring, told>>
        /\ tries' = [p \in Peer |-> IF Forgets(p) THEN Try(FALSE) ELSE tries[p]]
    BY <1>1 DEF OnRekey
  <2>2. Try(FALSE) \in TryType /\ ~Try(FALSE).retry
    BY FreshTries
  <2> QED
    BY <1>0, <2>1, <2>2, OnlyTries
<1>2. ASSUME NEW p \in Peer, NEW t \in TryType,
             \/ ~t.retry
             \/ t.retry = tries[p].retry /\ t.age = tries[p].age /\ t.paired = tries[p].paired,
             UNCHANGED <<watch, ring, told>>, tries' = [tries EXCEPT ![p] = t]
      PROVE  WatchInv'
  BY <1>0, <1>2, OnlyTries
<1>3. \A p \in Peer :
        LET t == [tries[p] EXCEPT !.desc = TRUE]
        IN  t \in TryType /\ t.retry = tries[p].retry /\ t.age = tries[p].age
            /\ t.paired = tries[p].paired
  BY <1>0 DEF TryType
<1>4. \A p \in Peer :
        LET t == [tries[p] EXCEPT !.cand = TRUE]
        IN  t \in TryType /\ t.retry = tries[p].retry /\ t.age = tries[p].age
            /\ t.paired = tries[p].paired
  BY <1>0 DEF TryType
<1>5. ASSUME NEW p \in Peer, PeerOffers(p) PROVE WatchInv'
  <2>1. UNCHANGED <<watch, ring, told>>
    BY <1>5 DEF PeerOffers
  <2>2. CASE UNCHANGED tries
    BY <1>0, <2>1, <2>2, OnlyTries
  <2>3. CASE tries' = [tries EXCEPT ![p].desc = TRUE]
    <3>1. tries' = [tries EXCEPT ![p] = [tries[p] EXCEPT !.desc = TRUE]]
      BY <1>0, <2>3
    <3> QED
      BY <1>2, <1>3, <2>1, <3>1
  <2>4. CASE tries' = [tries EXCEPT ![p] = Try(TRUE)]
    BY <1>2, <2>1, <2>4, FreshTries
  <2> QED
    BY <1>5, <2>2, <2>3, <2>4 DEF PeerOffers
<1>6. ASSUME NEW p \in Peer, Learns(p) PROVE WatchInv'
  <2>1. UNCHANGED <<watch, ring, told>>
    BY <1>6 DEF Learns
  <2>2. CASE tries' = [tries EXCEPT ![p] = [@ EXCEPT !["desc"] = TRUE]]
    BY <1>0, <1>2, <1>3, <2>1, <2>2
  <2>3. CASE tries' = [tries EXCEPT ![p] = [@ EXCEPT !["cand"] = TRUE]]
    BY <1>0, <1>2, <1>4, <2>1, <2>3
  <2> QED
    BY <1>6, <2>2, <2>3 DEF Learns
<1> QED
  BY <1>1, <1>5, <1>6

LEMMA LinkUpInv == ASSUME WatchInv, NEW p \in Peer, LinkUp(p) PROVE WatchInv'
<1> DEFINE b == p \in pairs
           w == [watch[p] EXCEPT !.linked = TRUE, !.secure = b, !.down = Never,
                                 !.retried = Never, !.warned = FALSE]
           t == [tries[p] EXCEPT !.st = "up", !.paired = TRUE]
<1>1. /\ watch[p] \in WatchType /\ tries[p] \in TryType /\ told.of[p].spaced
      /\ tries[p].retry => tries[p].age # Fresh
  BY TypesOfPeer
<1>0. b \in BOOLEAN
  OBVIOUS
<1> HIDE DEF b
<1>2. /\ w \in WatchType /\ w.linked /\ ~w.warned /\ w.down = Never /\ w.retried = Never
  <2>1. Never \in Age
    BY DEF Age
  <2>2. w \in WatchType
    BY <1>0, <1>1, <2>1 DEF WatchType
  <2> QED
    BY <1>1, <2>2 DEF WatchType
<1>3. /\ t \in TryType /\ t.retry = tries[p].retry /\ t.age = tries[p].age
  BY <1>1 DEF TryType
<1>4. watch' = [watch EXCEPT ![p] = w] /\ tries' = [tries EXCEPT ![p] = t]
      /\ UNCHANGED <<ring, told>>
  BY DEF LinkUp, WatchInv, WatchTyped, b
<1> HIDE DEF w, t
<1>5. Minded(p, w, t, told.of[p])
  BY <1>1, <1>2, <1>3 DEF Minded, Clocked, Paced, Aimed, Down
<1> QED
  BY <1>2, <1>3, <1>4, <1>5, OneMember

LEMMA LinkDownInv == ASSUME WatchInv, NEW p \in Peer, LinkDown(p) PROVE WatchInv'
<1> DEFINE w == [watch[p] EXCEPT !.linked = FALSE, !.secure = FALSE, !.down = Fresh]
<1>1. /\ watch[p] \in WatchType /\ tries[p] \in TryType /\ told.of[p].spaced
      /\ tries[p].retry => tries[p].age # Fresh
      /\ Clocked(watch[p], told.of[p])
      /\ watch \in [Peer -> WatchType] /\ tries \in [Peer -> TryType]
  BY TypesOfPeer DEF Minded, WatchInv, WatchTyped
<1>2. PICK t \in TryType :
        /\ tries' = [tries EXCEPT ![p] = t]
        /\ t.retry = tries[p].retry /\ t.age = tries[p].age /\ t.paired = tries[p].paired
  <2>1. CASE UNCHANGED tries
    BY <1>1, <2>1
  <2>2. CASE tries' = [tries EXCEPT ![p].st = "ended"]
    <3> DEFINE t == [tries[p] EXCEPT !.st = "ended"]
    <3>1. t \in TryType /\ t.retry = tries[p].retry /\ t.age = tries[p].age
          /\ t.paired = tries[p].paired
      BY <1>1 DEF TryType
    <3>2. tries' = [tries EXCEPT ![p] = t]
      BY <1>1, <2>2
    <3> QED
      BY <3>1, <3>2
  <2> QED
    BY <2>1, <2>2 DEF LinkDown
<1>3. watch[p].here /\ UNCHANGED ring
  BY DEF LinkDown
<1>4. CASE watch[p].linked
  <2>1. watch' = [watch EXCEPT ![p] = w] /\ told' = Begins(p)
    BY <1>1, <1>4 DEF LinkDown, FreshDrop
  <2>2. watch[p].retried = Never /\ watch[p].warned = FALSE
    BY <1>1, <1>3, <1>4 DEF Clocked, WatchType
  <2>3. /\ w \in WatchType /\ w.here /\ ~w.linked /\ ~w.warned
        /\ w.down = -1 /\ w.retried = -2
    BY <1>1, <1>3, <2>2 DEF WatchType, Age, Fresh, Never
  <2> HIDE DEF w
  <2>4. \A h \in HistoryType :
          h.spaced /\ h.dark = Fresh /\ h.times = 0 => Minded(p, w, t, h)
    <3> SUFFICES ASSUME NEW h \in HistoryType, h.spaced, h.dark = Fresh, h.times = 0
                 PROVE  Minded(p, w, t, h)
      OBVIOUS
    <3>1. DueOf(p) \in Nat \ {0} /\ WARN_AFTER \in Nat \ {0}
      BY DueType
    <3>2. Clocked(w, h)
      BY <2>3, <3>1 DEF Clocked, Down, Fresh, Never
    <3>3. Paced(p, w, h)
      BY <2>3, <3>1 DEF Paced, Down, Fresh, Never, HistoryType
    <3>4. Aimed(w, t)
      BY <1>1, <1>2, <2>3 DEF Aimed, Down, Fresh, Never, TryType
    <3> QED
      BY <3>2, <3>3, <3>4 DEF Minded
  <2> QED
    BY <1>2, <1>3, <2>1, <2>3, <2>4, OneBegins
<1>5. CASE ~watch[p].linked
  <2>1. watch[p].down # Never
    BY <1>1, <1>3, <1>5 DEF Clocked, Down
  <2>2. UNCHANGED <<watch, told>>
    BY <1>5, <2>1 DEF LinkDown, FreshDrop
  <2>3. /\ tries' \in [Peer -> TryType]
        /\ \A q \in Peer : /\ tries'[q].retry = tries[q].retry /\ tries'[q].age = tries[q].age
                           /\ tries'[q].paired = tries[q].paired
    BY <1>1, <1>2
  <2> QED
    BY <1>3, <2>2, <2>3, OnlyTries
<1> QED
  BY <1>4, <1>5

\* Whether a member is secure says nothing about its outage.
LEMMA SecureKept ==
  ASSUME NEW p \in Peer, NEW w \in WatchType, NEW b \in BOOLEAN, NEW t, NEW h,
         Minded(p, w, t, h)
  PROVE  /\ [w EXCEPT !.secure = b] \in WatchType
         /\ Minded(p, [w EXCEPT !.secure = b], t, h)
<1> DEFINE v == [w EXCEPT !.secure = b]
<1>1. v \in WatchType /\ v.here = w.here /\ v.linked = w.linked /\ v.down = w.down
      /\ v.retried = w.retried /\ v.warned = w.warned
  BY DEF WatchType
<1> HIDE DEF v
<1>2. Minded(p, v, t, h)
  BY <1>1 DEF Minded, Clocked, Paced, Aimed, Down
<1> QED
  BY <1>1, <1>2 DEF v

LEMMA OnSecureInv == ASSUME WatchInv, NEW p \in Peer, OnSecure(p) PROVE WatchInv'
<1> DEFINE b == p \in pairs'
<1>1. /\ watch[p] \in WatchType /\ tries[p] \in TryType
      /\ Minded(p, watch[p], tries[p], told.of[p])
      /\ watch \in [Peer -> WatchType] /\ tries \in [Peer -> TryType]
  BY TypesOfPeer DEF WatchInv, WatchTyped
<1>2. /\ watch' = [watch EXCEPT ![p] = [watch[p] EXCEPT !.secure = b]]
      /\ tries' = [tries EXCEPT ![p] = tries[p]] /\ UNCHANGED <<ring, told>>
  BY <1>1 DEF OnSecure
<1>3. b \in BOOLEAN
  OBVIOUS
<1> HIDE DEF b
<1> QED
  BY <1>1, <1>2, <1>3, SecureKept, OneMember

LEMMA KeyArrivesInv == ASSUME WatchInv, KeyArrives PROVE WatchInv'
<1>1. UNCHANGED <<watch, tries, told>>
  BY DEF KeyArrives
<1>2. /\ ring' \in RingType /\ ring'.since = ring.since /\ ring'.warned = ring.warned
  BY DEF KeyArrives, WatchInv, KeylessCounted, RingType
<1>3. KeylessCounted'
  BY <1>1, <1>2 DEF WatchInv, KeylessCounted
<1>4. WatchTyped' /\ ReasonHadTime'
  BY <1>1 DEF WatchInv, WatchTyped, ReasonHadTime
<1>5. \A p \in Peer : Minded(p, watch[p], tries[p], told.of[p])'
  BY <1>1 DEF WatchInv, Minded, Clocked, Paced, Aimed, Down, DueOf, Offers
<1> QED
  BY <1>3, <1>4, <1>5 DEF WatchInv

LEMMA OnRosterInv == ASSUME WatchInv, NEW here \in SUBSET Peer, OnRoster(here) PROVE WatchInv'
<1>0. /\ watch \in [Peer -> WatchType] /\ tries \in [Peer -> TryType] /\ told \in ToldType
      /\ UNCHANGED ring
  BY DEF WatchInv, WatchTyped, OnRoster
<1> DEFINE w(p) == IF p \notin here THEN NoMember
                   ELSE IF watch[p].here THEN [watch[p] EXCEPT !.secure = p \in pairs]
                   ELSE Member(p \in pairs)
           t(p) == IF p \in here THEN OnPeer(p) ELSE IF watch[p].here THEN NoTry ELSE tries[p]
           h(p) == IF p \in here /\ ~watch[p].here THEN Began(told.of[p]) ELSE told.of[p]
<1>1. /\ watch' = [p \in Peer |-> w(p)] /\ tries' = [p \in Peer |-> t(p)]
      /\ told' = [told EXCEPT !.of = [p \in Peer |-> h(p)]]
  BY DEF OnRoster
<1>2. ASSUME NEW p \in Peer
      PROVE  /\ w(p) \in WatchType /\ t(p) \in TryType /\ h(p) \in HistoryType
             /\ Minded(p, w(p), t(p), h(p))
  <2> DEFINE b == p \in pairs
  <2>0. b \in BOOLEAN
    OBVIOUS
  <2> HIDE DEF b
  <2>1. /\ watch[p] \in WatchType /\ tries[p] \in TryType /\ told.of[p] \in HistoryType
        /\ told.of[p].spaced /\ (tries[p].retry => tries[p].age # Fresh)
        /\ Minded(p, watch[p], tries[p], told.of[p])
    BY TypesOfPeer
  <2>2. /\ OnPeer(p) \in TryType /\ (OnPeer(p).retry => OnPeer(p).age # Fresh)
        /\ ~OnPeer(p).retry \/ OnPeer(p) = tries[p]
    BY OnPeerType
  <2>3. CASE p \notin here
    <3>1. w(p) = NoMember /\ h(p) = told.of[p] /\ t(p) \in {NoTry, tries[p]}
      BY <2>3
    <3>2. NoMember \in WatchType /\ ~NoMember.here /\ NoTry \in TryType /\ ~NoTry.retry
      BY NoMemberType, FreshTries
    <3> HIDE DEF w, t, h
    <3> QED
      BY <2>1, <3>1, <3>2, AbsentMember
  <2>4. CASE p \in here /\ watch[p].here
    <3>1. w(p) = [watch[p] EXCEPT !.secure = b] /\ h(p) = told.of[p] /\ t(p) = OnPeer(p)
      BY <2>4 DEF b
    <3>2. Minded(p, watch[p], OnPeer(p), told.of[p])
      BY <2>1, <2>2, OtherTry
    <3> HIDE DEF w, t, h
    <3>3. /\ [watch[p] EXCEPT !.secure = b] \in WatchType
          /\ Minded(p, [watch[p] EXCEPT !.secure = b], OnPeer(p), told.of[p])
      BY <2>0, <2>1, <3>2, SecureKept
    <3> QED
      BY <2>1, <2>2, <3>1, <3>3
  <2>5. CASE p \in here /\ ~watch[p].here
    <3>1. w(p) = Member(b) /\ h(p) = Began(told.of[p]) /\ t(p) = OnPeer(p)
      BY <2>5 DEF b
    <3>2. Member(b) \in WatchType
      BY <2>0, MemberType
    <3>3. /\ h(p) \in HistoryType /\ h(p).spaced /\ h(p).dark = Fresh /\ h(p).times = 0
      BY <2>1, <3>1, BeganType
    <3> HIDE DEF w, t, h
    <3>4. Minded(p, Member(b), OnPeer(p), h(p))
      BY <2>2, <3>3, NewMember
    <3> QED
      BY <2>2, <3>1, <3>2, <3>3, <3>4
  <2> QED
    BY <2>3, <2>4, <2>5
<1> HIDE DEF w, t, h
<1>3. /\ told' \in ToldType /\ told'.of = [p \in Peer |-> h(p)]
      /\ told'.why = told.why /\ told'.early = told.early
      /\ told'.stuck = told.stuck /\ told'.keyless = told.keyless
  BY <1>0, <1>1, <1>2 DEF ToldType
<1>4. WatchTyped'
  BY <1>1, <1>2, <1>3 DEF WatchTyped
<1>5. \A p \in Peer : Minded(p, watch'[p], tries'[p], told'.of[p])
  BY <1>1, <1>2, <1>3
<1> QED
  BY <1>0, <1>3, <1>4, <1>5, WatchStep

\* One member at a tick: the state of its link, the attempt, the history.
Retrying(p, m) == Retries(p, Aged(m))
Rebuilding(p, m, t) == Retrying(p, m) /\ ~(t.st = "trying" /\ t.desc)
TickedMember(p, m) ==
  [Aged(m) EXCEPT !.retried = IF Retrying(p, m) THEN 0 ELSE @,
                  !.warned = @ \/ Warns(Aged(m))]
TickedTry(p, m, t) ==
  LET later == [t EXCEPT !.age = @ + 1]
  IN  IF Retrying(p, m) THEN Relinked(later) ELSE later
TickedHistory(p, m, t, h) ==
  [dark |-> IF Down(m) THEN h.dark + 1 ELSE h.dark,
   times |-> IF Warns(Aged(m)) THEN h.times + 1 ELSE h.times,
   gap |-> IF Rebuilding(p, m, t) THEN 0 ELSE Older(h.gap),
   spaced |-> h.spaced /\ (Rebuilding(p, m, t) => \/ h.gap = Never
                                                 \/ h.gap + 1 >= RETRY_OFFERER)]

LEMMA OlderType ==
  /\ Older(Never) = Never
  /\ \A a \in Age \ {Never} : Older(a) = a + 1 /\ a + 1 \in Nat
  /\ \A a \in Age : Older(a) \in Age
BY DEF Older, Age, Fresh, Never

LEMMA TickedMemberIs ==
  ASSUME NEW p \in Peer, NEW m \in WatchType
  PROVE  LET n == TickedMember(p, m) IN
         /\ n \in WatchType
         /\ n.here = m.here /\ n.linked = m.linked
         /\ n.down = Older(m.down)
         /\ n.retried = IF Retrying(p, m) THEN 0 ELSE Older(m.retried)
         /\ n.warned <=> m.warned \/ Warns(Aged(m))
         /\ Warns(Aged(m)) <=> Down(m) /\ ~m.warned /\ Older(m.down) >= WARN_AFTER
         /\ Retrying(p, m) <=>
              /\ Down(m) /\ Older(m.down) >= DueOf(p)
              /\ (IF Older(m.retried) = Never THEN Older(m.down) ELSE Older(m.retried))
                   >= DueOf(p)
<1> DEFINE a == Aged(m)
           warns == Warns(a)
           r == IF Retrying(p, m) THEN 0 ELSE a.retried
<1>1. Older(m.down) \in Age /\ Older(m.retried) \in Age
  BY OlderType DEF WatchType
<1>2. /\ a \in WatchType /\ a.here = m.here /\ a.linked = m.linked
      /\ a.down = Older(m.down) /\ a.retried = Older(m.retried) /\ a.warned = m.warned
  BY <1>1 DEF Aged, WatchType
<1>3. Warns(a) <=> Down(m) /\ ~m.warned /\ Older(m.down) >= WARN_AFTER
  BY <1>2 DEF Warns, Down
<1>4. Retrying(p, m) <=>
        /\ Down(m) /\ Older(m.down) >= DueOf(p)
        /\ (IF Older(m.retried) = Never THEN Older(m.down) ELSE Older(m.retried))
             >= DueOf(p)
  BY <1>2 DEF Retrying, Retries, RelinkDue, DueOf, Down
<1>5. r \in Age /\ (m.warned \/ warns) \in BOOLEAN
  BY <1>2 DEF WatchType, Age
<1>6. TickedMember(p, m) = [a EXCEPT !.retried = r, !.warned = m.warned \/ warns]
  BY <1>2 DEF TickedMember
<1>7. r = IF Retrying(p, m) THEN 0 ELSE Older(m.retried)
  BY <1>2
<1> DEFINE b == m.warned \/ warns
<1>8. b \in BOOLEAN /\ (b <=> m.warned \/ Warns(Aged(m)))
  OBVIOUS
<1>9. TickedMember(p, m) = [a EXCEPT !.retried = r, !.warned = b]
  BY <1>6
<1> HIDE DEF a, r, b, warns
<1>10. LET n == TickedMember(p, m) IN
       /\ n \in WatchType
       /\ n.here = m.here /\ n.linked = m.linked
       /\ n.down = Older(m.down) /\ n.retried = r /\ n.warned = b
  BY <1>2, <1>5, <1>8, <1>9 DEF WatchType
<1> QED
  BY <1>3, <1>4, <1>7, <1>8, <1>10 DEF a

LEMMA TickedTryIs ==
  ASSUME NEW p \in Peer, NEW m, NEW t \in TryType
  PROVE  LET u == TickedTry(p, m, t) IN
         /\ u \in TryType /\ u.age \in Nat
         /\ IF Rebuilding(p, m, t)
              THEN u.retry /\ u.age = 0
              ELSE /\ u.retry = t.retry /\ u.age = t.age + 1
                   /\ u.paired = t.paired /\ u.desc = t.desc /\ u.st = t.st
<1> DEFINE later == [t EXCEPT !.age = @ + 1]
<1>1. t.age + 1 \in Nat
  BY DEF TryType, Fresh
<1>2. /\ later \in TryType /\ later.retry = t.retry /\ later.age = t.age + 1
      /\ later.paired = t.paired /\ later.desc = t.desc /\ later.st = t.st
  BY <1>1 DEF TryType
<1>3. Retried \in TryType /\ Retried.retry /\ Retried.age = 0
  BY FreshTries
<1>4. TickedTry(p, m, t) = IF Rebuilding(p, m, t) THEN Retried ELSE later
  BY <1>2 DEF TickedTry, Relinked, Rebuilding
<1> HIDE DEF later
<1> QED
  BY <1>1, <1>2, <1>3, <1>4

\* A tick in an outage: the clock strikes WARN_AFTER once.
LEMMA TickClocked ==
  ASSUME NEW p \in Peer, NEW m \in WatchType, NEW t, NEW h \in HistoryType, Clocked(m, h)
  PROVE  /\ Clocked(TickedMember(p, m), TickedHistory(p, m, t, h))
         /\ TickedHistory(p, m, t, h).times \in {0, 1}
         /\ Warns(Aged(m)) => Down(m) /\ m.down + 1 = WARN_AFTER
<1> DEFINE n == TickedMember(p, m)
           g == TickedHistory(p, m, t, h)
<1>1. /\ n.here = m.here /\ n.linked = m.linked /\ n.down = Older(m.down)
      /\ n.retried = IF Retrying(p, m) THEN 0 ELSE Older(m.retried)
      /\ n.warned <=> m.warned \/ Warns(Aged(m))
      /\ Warns(Aged(m)) <=> Down(m) /\ ~m.warned /\ Older(m.down) >= WARN_AFTER
      /\ Retrying(p, m) => Down(m)
      /\ n \in WatchType
  BY TickedMemberIs
<1>2. /\ g.dark = IF Down(m) THEN h.dark + 1 ELSE h.dark
      /\ g.times = IF Warns(Aged(m)) THEN h.times + 1 ELSE h.times
  BY DEF TickedHistory
<1>3. WARN_AFTER \in Nat \ {0}
  BY DueType
<1> HIDE DEF n, g
<1>4. CASE ~Down(m)
  <2>1. ~Warns(Aged(m)) /\ ~Down(n) /\ ~Retrying(p, m)
    BY <1>1, <1>4 DEF Down
  <2>2. g.times \in {0, 1}
    BY <1>2, <2>1 DEF HistoryType
  <2>3. Clocked(n, g)
    BY <1>1, <1>4, <2>1, OlderType DEF Clocked, Down
  <2> QED
    BY <2>1, <2>2, <2>3 DEF n, g
<1>5. CASE Down(m)
  <2>1. /\ m.down # Never /\ h.dark = m.down
        /\ m.warned <=> m.down >= WARN_AFTER
        /\ h.times = IF m.warned THEN 1 ELSE 0
    BY <1>5 DEF Clocked
  <2>2. m.down \in Age \ {Never} /\ m.down \in Int
    BY <2>1 DEF WatchType, Age, Fresh, Never
  <2>3. Older(m.down) = m.down + 1 /\ m.down + 1 \in Nat
    BY <2>2, OlderType
  <2>4. Warns(Aged(m)) <=> ~m.warned /\ m.down + 1 >= WARN_AFTER
    BY <1>1, <1>5, <2>3
  <2>5. Warns(Aged(m)) => m.down + 1 = WARN_AFTER
    BY <1>3, <2>1, <2>2, <2>4
  <2>6. n.warned <=> n.down >= WARN_AFTER
    BY <1>1, <1>3, <2>1, <2>2, <2>3, <2>4
  <2>7. g.times = IF n.warned THEN 1 ELSE 0
    <3>1. CASE Warns(Aged(m))
      BY <1>1, <1>2, <2>1, <2>4, <3>1
    <3>2. CASE ~Warns(Aged(m))
      BY <1>1, <1>2, <2>1, <3>2
    <3> QED
      BY <3>1, <3>2
  <2>8. n.down # Never /\ g.dark = n.down
    BY <1>1, <1>2, <1>5, <2>1, <2>3 DEF Never
  <2>9. Clocked(n, g)
    BY <1>1, <1>5, <2>6, <2>7, <2>8 DEF Clocked, Down
  <2> QED
    BY <1>5, <2>5, <2>7, <2>9 DEF n, g
<1> QED
  BY <1>4, <1>5

\* A tick in an outage: when the watchdog starts anew, and what it knows then.
LEMMA TickPaced ==
  ASSUME Intervals, NEW p \in Peer, NEW m \in WatchType, NEW t, NEW h \in HistoryType,
         Clocked(m, h), Paced(p, m, h)
  PROVE  /\ Paced(p, TickedMember(p, m), TickedHistory(p, m, t, h))
         /\ TickedHistory(p, m, t, h).spaced \in BOOLEAN
         /\ TickedHistory(p, m, t, h).gap \in Nat \cup {Never}
<1> DEFINE n == TickedMember(p, m)
           g == TickedHistory(p, m, t, h)
           D == DueOf(p)
<1>1. /\ n.here = m.here /\ n.linked = m.linked /\ n.down = Older(m.down)
      /\ n.retried = IF Retrying(p, m) THEN 0 ELSE Older(m.retried)
      /\ Retrying(p, m) <=>
              /\ Down(m) /\ Older(m.down) >= D
              /\ (IF Older(m.retried) = Never THEN Older(m.down) ELSE Older(m.retried)) >= D
  BY TickedMemberIs
<1>2. /\ g.gap = IF Rebuilding(p, m, t) THEN 0 ELSE Older(h.gap)
      /\ g.spaced = (h.spaced /\ (Rebuilding(p, m, t) => \/ h.gap = Never
                                                       \/ h.gap + 1 >= RETRY_OFFERER))
      /\ Rebuilding(p, m, t) => Retrying(p, m)
  BY DEF TickedHistory, Rebuilding
<1>3. /\ D \in Nat \ {0} /\ RETRY_OFFERER \in Nat \ {0} /\ RETRY_OFFERER <= D
  BY DueType
<1>4. /\ h.spaced /\ h.gap \in Nat \cup {Never}
      /\ Older(h.gap) = IF h.gap = Never THEN Never ELSE h.gap + 1
      /\ Older(h.gap) \in Nat \cup {Never}
  BY DEF HistoryType, Paced, Older, Never
<1>5. g.gap \in Nat \cup {Never} /\ g.spaced \in BOOLEAN
  BY <1>2, <1>4
<1> HIDE DEF n, g, D
<1>6. CASE ~Down(m)
  <2>1. ~Retrying(p, m) /\ ~Down(n)
    BY <1>1, <1>6 DEF Down
  <2>2. Paced(p, n, g)
    BY <1>2, <1>4, <2>1 DEF Paced
  <2> QED
    BY <1>5, <2>2 DEF n, g
<1>7. CASE Down(m)
  <2>1. m.down \in Age \ {Never} /\ m.down \in Int
    BY <1>7 DEF Clocked, WatchType, Age, Fresh, Never
  <2>2. Older(m.down) = m.down + 1 /\ m.down + 1 \in Nat
    BY <2>1, OlderType
  <2>3. CASE m.retried = Never
    <3>1. m.down < D /\ (h.gap = Never \/ h.gap >= m.down + 1)
      BY <1>7, <2>3 DEF Paced, D
    <3>2. Older(m.retried) = Never
      BY <2>3, OlderType
    <3>3. CASE Retrying(p, m)
      <4>1. m.down + 1 = D
        BY <1>1, <1>3, <2>1, <2>2, <3>1, <3>2, <3>3
      <4>2. n.retried = 0 /\ n.down = 0 + 1 * D
        BY <1>1, <1>3, <2>2, <3>3, <4>1
      <4>3. g.spaced
        <5>1. h.gap = Never \/ h.gap + 1 >= RETRY_OFFERER
          BY <1>3, <1>4, <2>1, <3>1, <4>1
        <5> QED
          BY <1>2, <1>4, <5>1
      <4>4. g.gap = Never \/ g.gap >= 0
        BY <1>5
      <4>5. n.retried \in 0 .. D - 1 /\ n.retried # Never
        BY <1>3, <4>2 DEF Never
      <4>6. \E k \in Nat \ {0} : n.down = n.retried + k * D
        BY <4>2
      <4>7. Paced(p, n, g)
        BY <4>2, <4>3, <4>4, <4>5, <4>6 DEF Paced, D
      <4> QED
        BY <1>5, <4>7 DEF n, g
    <3>4. CASE ~Retrying(p, m)
      <4>1. m.down + 1 < D
        BY <1>1, <1>3, <1>7, <2>1, <2>2, <3>1, <3>2, <3>4
      <4>2. n.retried = Never /\ n.down = m.down + 1
        BY <1>1, <2>2, <3>2, <3>4
      <4>3. g.spaced /\ g.gap = Older(h.gap)
        BY <1>2, <1>4, <3>4
      <4>4. g.gap = Never \/ g.gap >= n.down + 1
        BY <1>4, <2>1, <3>1, <4>2, <4>3
      <4>5. Paced(p, n, g)
        BY <4>1, <4>2, <4>3, <4>4 DEF Paced, D
      <4> QED
        BY <1>5, <4>5 DEF n, g
    <3> QED
      BY <3>3, <3>4
  <2>4. CASE m.retried # Never
    <3>1. /\ m.retried \in 0 .. D - 1 /\ m.retried \in Nat
          /\ h.gap = Never \/ h.gap >= m.retried
      BY <1>3, <1>7, <2>4 DEF Paced, D
    <3>2. PICK k \in Nat \ {0} : m.down = m.retried + k * D
      BY <1>7, <2>4 DEF Paced, D
    <3>3. k * D \in Nat /\ k * D >= D /\ (k + 1) * D = k * D + D
      BY <1>3
    <3>4. Older(m.retried) = m.retried + 1 /\ Older(m.retried) # Never
      BY <3>1 DEF Older, Never
    <3>5. Retrying(p, m) <=> m.retried + 1 = D
      <4> DEFINE kD == k * D
      <4> HIDE DEF kD
      <4>1. kD \in Nat /\ kD >= D /\ m.down = m.retried + kD
        BY <3>2, <3>3 DEF kD
      <4>2. Older(m.down) >= D
        BY <1>3, <2>2, <3>1, <4>1
      <4>3. (IF Older(m.retried) = Never THEN Older(m.down) ELSE Older(m.retried)) = m.retried + 1
        BY <3>4
      <4>4. m.retried + 1 >= D <=> m.retried + 1 = D
        BY <1>3, <3>1
      <4> QED
        BY <1>1, <1>7, <4>2, <4>3, <4>4
    <3>6. CASE Retrying(p, m)
      <4>1. n.retried = 0 /\ n.down = 0 + (k + 1) * D
        BY <1>1, <1>3, <2>2, <3>1, <3>2, <3>3, <3>5, <3>6
      <4>2. g.spaced
        <5>1. h.gap = Never \/ h.gap + 1 >= RETRY_OFFERER
          BY <1>3, <1>4, <3>1, <3>5, <3>6
        <5> QED
          BY <1>2, <1>4, <5>1
      <4>3. g.gap = Never \/ g.gap >= 0
        BY <1>5
      <4>4. n.retried \in 0 .. D - 1 /\ n.retried # Never
        BY <1>3, <4>1 DEF Never
      <4>5. \E i \in Nat \ {0} : n.down = n.retried + i * D
        BY <4>1
      <4>6. Paced(p, n, g)
        BY <4>1, <4>2, <4>3, <4>4, <4>5 DEF Paced, D
      <4> QED
        BY <1>5, <4>6 DEF n, g
    <3>7. CASE ~Retrying(p, m)
      <4>1. n.retried = m.retried + 1 /\ n.down = n.retried + k * D
        BY <1>1, <2>2, <3>1, <3>2, <3>3, <3>4, <3>7
      <4>2. n.retried \in 0 .. D - 1 /\ n.retried # Never
        BY <1>3, <3>1, <3>5, <3>7, <4>1 DEF Never
      <4>3. g.spaced /\ g.gap = Older(h.gap)
        BY <1>2, <1>4, <3>7
      <4>4. g.gap = Never \/ g.gap >= n.retried
        BY <1>4, <3>1, <4>1, <4>3
      <4>5. Paced(p, n, g)
        BY <4>1, <4>2, <4>3, <4>4 DEF Paced, D
      <4> QED
        BY <1>5, <4>5 DEF n, g
    <3> QED
      BY <3>6, <3>7
  <2> QED
    BY <2>3, <2>4
<1> QED
  BY <1>6, <1>7

\* A tick in an outage: attempts age with the outage, and whoever is blamed at
\* the warning had two ticks.
LEMMA TickAimed ==
  ASSUME Intervals, NEW p \in Peer, NEW m \in WatchType, NEW t \in TryType,
         NEW h \in HistoryType, Minded(p, m, t, h)
  PROVE  LET u == TickedTry(p, m, t) IN
         /\ Aimed(TickedMember(p, m), u)
         /\ Warns(Aged(m)) /\ Why(u) = "signaling" => ~(u.retry /\ u.age < 2)
<1> DEFINE n == TickedMember(p, m)
           u == TickedTry(p, m, t)
           D == DueOf(p)
<1>1. /\ n.here = m.here /\ n.linked = m.linked /\ n.down = Older(m.down)
      /\ n.retried = IF Retrying(p, m) THEN 0 ELSE Older(m.retried)
      /\ Retrying(p, m) <=>
              /\ Down(m) /\ Older(m.down) >= D
              /\ (IF Older(m.retried) = Never THEN Older(m.down) ELSE Older(m.retried)) >= D
  BY TickedMemberIs
<1>2. /\ u \in TryType /\ u.age \in Nat
      /\ IF Rebuilding(p, m, t)
           THEN u.retry /\ u.age = 0
           ELSE /\ u.retry = t.retry /\ u.age = t.age + 1
                /\ u.paired = t.paired /\ u.desc = t.desc /\ u.st = t.st
  BY TickedTryIs
<1>3. /\ D \in Nat \ {0} /\ RETRY_OFFERER \in Nat \ {0} /\ WARN_AFTER \in Nat \ {0}
      /\ D = RETRY_OFFERER \/ D > WARN_AFTER
      /\ RETRY_OFFERER < WARN_AFTER
      /\ \A k \in Nat : k * RETRY_OFFERER # WARN_AFTER - 1 /\ k * RETRY_OFFERER # WARN_AFTER
  BY DueType, WatchConstants DEF DueOf, Intervals
<1>4. /\ Clocked(m, h) /\ Paced(p, m, h) /\ Aimed(m, t) /\ t.age \in Nat \cup {-1}
      /\ Rebuilding(p, m, t) => Retrying(p, m)
      /\ Retrying(p, m) => Rebuilding(p, m, t) \/ (t.st = "trying" /\ t.desc)
  BY DEF Minded, TryType, Fresh, Rebuilding
<1>5. Warns(Aged(m)) => Down(m) /\ m.down + 1 = WARN_AFTER
  BY <1>4, TickClocked
<1>6. Why(u) = "signaling" => ~u.paired /\ ~u.desc
  BY DEF Why
<1>7. u.age # Fresh
  BY <1>2 DEF Fresh
<1> HIDE DEF n, u, D
<1>8. CASE ~Down(m)
  BY <1>1, <1>5, <1>7, <1>8 DEF Aimed, Down, n, u
<1>9. CASE Down(m) /\ Retrying(p, m)
  <2>1. Aimed(n, u)
    <3>1. n.retried = 0 /\ n.retried # Never
      BY <1>1, <1>9 DEF Never
    <3> QED
      BY <1>2, <1>7, <3>1 DEF Aimed
  <2>2. ~Warns(Aged(m))
    <3> SUFFICES ASSUME m.down + 1 = WARN_AFTER PROVE FALSE
      BY <1>5
    <3>1. m.down \in Int /\ Older(m.down) = m.down + 1
      BY <1>4, <1>9, OlderType DEF Clocked, WatchType, Age, Fresh, Never
    <3>2. \E k \in Nat \ {0} : m.down + 1 = k * D
      <4>1. CASE m.retried = Never
        <5>1. m.down < D /\ m.down + 1 >= D
          BY <1>1, <1>4, <1>9, <3>1, <4>1, OlderType DEF Paced, D
        <5>2. m.down + 1 = 1 * D
          BY <1>3, <3>1, <5>1
        <5> QED
          BY <5>2
      <4>2. CASE m.retried # Never
        <5>1. m.retried \in 0 .. D - 1
          BY <1>4, <1>9, <4>2 DEF Paced, D
        <5>2. PICK k \in Nat \ {0} : m.down = m.retried + k * D
          BY <1>4, <1>9, <4>2 DEF Paced, D
        <5>3. Older(m.retried) = m.retried + 1 /\ m.retried + 1 # Never
          BY <1>3, <5>1 DEF Older, Never
        <5>4. m.retried + 1 = D
          BY <1>1, <1>3, <1>9, <5>1, <5>3
        <5>5. k * D \in Nat /\ (k + 1) * D = k * D + D
          BY <1>3
        <5>6. m.down + 1 = (k + 1) * D
          BY <1>3, <5>1, <5>2, <5>4, <5>5
        <5> QED
          BY <5>6
      <4> QED
        BY <4>1, <4>2
    <3>3. PICK k \in Nat \ {0} : WARN_AFTER = k * D
      BY <3>2
    <3>4. k * D \in Nat /\ k * D >= D
      BY <1>3
    <3> QED
      BY <1>3, <3>3, <3>4
  <2> QED
    BY <2>1, <2>2 DEF n, u
<1>10. CASE Down(m) /\ ~Retrying(p, m)
  <2>1. u.retry = t.retry /\ u.age = t.age + 1 /\ u.paired = t.paired
    BY <1>2, <1>4, <1>10
  <2>2. m.down \in Int /\ Older(m.down) = m.down + 1
    BY <1>4, <1>10, OlderType DEF Clocked, WatchType, Age, Fresh, Never
  <2>3. t.retry /\ ~t.paired =>
          t.age >= IF m.retried = Never THEN m.down + 1 ELSE m.retried
    BY <1>4, <1>10 DEF Aimed
  <2>4. CASE m.retried = Never
    <3>1. n.retried = Never /\ n.down = m.down + 1
      BY <1>1, <1>10, <2>2, <2>4, OlderType
    <3>2. u.retry /\ ~u.paired => u.age >= n.down + 1
      BY <1>4, <2>1, <2>2, <2>3, <2>4, <3>1
    <3>3. Aimed(n, u)
      BY <1>7, <3>1, <3>2 DEF Aimed
    <3>4. Warns(Aged(m)) /\ u.retry /\ ~u.paired => u.age >= 2
      BY <1>2, <1>3, <1>5, <2>2, <3>1, <3>2
    <3> QED
      BY <1>2, <1>6, <3>3, <3>4 DEF n, u
  <2>5. CASE m.retried # Never
    <3>1. m.retried \in 0 .. D - 1
      BY <1>4, <1>10, <2>5 DEF Paced, D
    <3>2. PICK k \in Nat \ {0} : m.down = m.retried + k * D
      BY <1>4, <1>10, <2>5 DEF Paced, D
    <3>3. Older(m.retried) = m.retried + 1 /\ m.retried + 1 # Never /\ m.retried \in Nat
      BY <1>3, <3>1 DEF Older, Never
    <3>4. n.retried = m.retried + 1 /\ n.retried # Never
      BY <1>1, <1>10, <3>3
    <3>5. u.retry /\ ~u.paired => u.age >= n.retried
      BY <1>4, <2>1, <2>3, <2>5, <3>3, <3>4
    <3>6. Aimed(n, u)
      BY <1>7, <3>4, <3>5 DEF Aimed
    <3>7. Warns(Aged(m)) => m.retried + 1 >= 2
      <4> SUFFICES ASSUME m.down + 1 = WARN_AFTER, m.retried = 0 PROVE FALSE
        BY <1>5, <3>3
      <4>1. k * D \in Nat /\ k * D >= D /\ k * D = WARN_AFTER - 1
        BY <1>3, <3>2
      <4> QED
        BY <1>3, <4>1
    <3>8. Warns(Aged(m)) /\ u.retry /\ ~u.paired => u.age >= 2
      BY <1>2, <3>4, <3>5, <3>7, <3>3
    <3> QED
      BY <1>2, <1>6, <3>6, <3>8 DEF n, u
  <2> QED
    BY <2>4, <2>5
<1> QED
  BY <1>8, <1>9, <1>10

LEMMA TickKeyless ==
  ASSUME KeylessCounted, NetTick,
         told'.stuck = IF Keyless THEN told.stuck + 1 ELSE 0,
         told'.keyless = IF ~Keyless THEN 0
                         ELSE told.keyless + (IF KeylessWarns THEN 1 ELSE 0)
  PROVE  KeylessCounted' /\ told'.stuck \in Nat /\ told'.keyless \in Nat
<1>1. /\ ring \in RingType /\ KEYLESS_WARN_AFTER \in Nat \ {0}
      /\ told.stuck = KeylessFor
      /\ told.keyless = IF ring.warned THEN 1 ELSE 0
      /\ ring.warned <=> told.stuck > KEYLESS_WARN_AFTER
  BY DueType DEF KeylessCounted, KeylessFor
<1>2. KeylessFor \in Nat
  BY <1>1 DEF KeylessFor, RingType, Never
<1> DEFINE b == ring.warned \/ KeylessWarns
<1>3. b \in BOOLEAN /\ (b <=> ring.warned \/ KeylessWarns)
  OBVIOUS
<1>4. ring' = IF Keyless THEN [ring EXCEPT !.since = KeylessFor, !.warned = b]
              ELSE EpisodeOver(ring)
  BY <1>1 DEF NetTick, RingType
<1> HIDE DEF b
<1>5. CASE Keyless
  <2>1. /\ ring' \in RingType /\ ring'.since = KeylessFor /\ ring'.warned = b
    BY <1>1, <1>2, <1>3, <1>4, <1>5 DEF RingType
  <2>2. told'.stuck = KeylessFor + 1 /\ ring'.since # Never
    BY <1>1, <1>2, <1>5, <2>1 DEF Never
  <2>3. b <=> told'.stuck > KEYLESS_WARN_AFTER
    BY <1>1, <1>2, <1>3, <1>5, <2>2 DEF KeylessWarns
  <2>4. told'.keyless = IF b THEN 1 ELSE 0
    <3>1. CASE ring.warned
      BY <1>1, <1>3, <1>5, <3>1 DEF KeylessWarns
    <3>2. CASE ~ring.warned
      BY <1>1, <1>3, <1>5, <3>2
    <3> QED
      BY <3>1, <3>2
  <2> QED
    BY <1>2, <2>1, <2>2, <2>3, <2>4 DEF KeylessCounted
<1>6. CASE ~Keyless
  <2>1. ring' \in RingType /\ ring'.since = Never /\ ring'.warned = FALSE
    BY <1>1, <1>4, <1>6 DEF EpisodeOver, RingType
  <2> QED
    BY <1>1, <1>6, <2>1 DEF KeylessCounted
<1> QED
  BY <1>5, <1>6

LEMMA NetTickInv == ASSUME Intervals, WatchInv, NetTick PROVE WatchInv'
<1> DEFINE aged(p) == Aged(watch[p])
           retry == {p \in Peer : Retries(p, aged(p))}
           warn == {p \in Peer : Warns(aged(p))}
           later(p) == [tries[p] EXCEPT !.age = @ + 1]
           after(p) == IF p \in retry THEN Relinked(later(p)) ELSE later(p)
           rebuilt == {p \in retry : ~(tries[p].st = "trying" /\ tries[p].desc)}
           of == [p \in Peer |-> LET h == told.of[p] IN
                   [dark |-> IF watch[p].here /\ ~watch[p].linked THEN h.dark + 1 ELSE h.dark,
                    times |-> IF p \in warn THEN h.times + 1 ELSE h.times,
                    gap |-> IF p \in rebuilt THEN 0 ELSE Older(h.gap),
                    spaced |-> h.spaced /\ (p \in rebuilt => \/ h.gap = Never
                                                           \/ h.gap + 1 >= RETRY_OFFERER)]]
<1>1. PICK last \in IF warn = {} THEN {[why |-> told.why, early |-> told.early]}
                    ELSE {[why |-> Why(after(p)),
                           early |-> after(p).retry /\ after(p).age < 2] : p \in warn} :
        told' = [of |-> of,
                 stuck |-> IF Keyless THEN told.stuck + 1 ELSE 0,
                 keyless |-> IF ~Keyless THEN 0
                             ELSE told.keyless + (IF KeylessWarns THEN 1 ELSE 0),
                 why |-> last.why, early |-> last.early]
  BY DEF NetTick
<1>2. /\ watch' = [p \in Peer |->
                     [aged(p) EXCEPT !.retried = IF p \in retry THEN 0 ELSE @,
                                     !.warned = @ \/ p \in warn]]
      /\ tries' = [p \in Peer |-> after(p)]
  BY DEF NetTick
<1>3. \A p \in Peer : /\ p \in retry <=> Retrying(p, watch[p])
                      /\ p \in warn <=> Warns(Aged(watch[p]))
                      /\ p \in rebuilt <=> Rebuilding(p, watch[p], tries[p])
  BY DEF Retrying, Rebuilding
<1> HIDE DEF retry, warn, rebuilt
<1>4. \A p \in Peer : after(p) = TickedTry(p, watch[p], tries[p])
  BY <1>3 DEF TickedTry
<1>5. \A p \in Peer : watch'[p] = TickedMember(p, watch[p])
  BY <1>2, <1>3 DEF TickedMember
<1>6. \A p \in Peer : of[p] = TickedHistory(p, watch[p], tries[p], told.of[p])
  BY <1>3 DEF TickedHistory, Down
<1> HIDE DEF after, of
<1>7. ASSUME NEW p \in Peer
      PROVE  /\ watch'[p] \in WatchType /\ tries'[p] \in TryType /\ of[p] \in HistoryType
             /\ Minded(p, watch'[p], tries'[p], of[p])
             /\ p \in warn /\ Why(after(p)) = "signaling" =>
                  ~(after(p).retry /\ after(p).age < 2)
  <2>1. /\ watch[p] \in WatchType /\ tries[p] \in TryType /\ told.of[p] \in HistoryType
        /\ Minded(p, watch[p], tries[p], told.of[p])
        /\ Clocked(watch[p], told.of[p]) /\ Paced(p, watch[p], told.of[p])
    BY TypesOfPeer DEF Minded
  <2>0. /\ watch'[p] = TickedMember(p, watch[p])
        /\ tries'[p] = TickedTry(p, watch[p], tries[p]) /\ tries'[p] = after(p)
    BY <1>2, <1>4, <1>5
  <2>2. /\ watch'[p] \in WatchType /\ tries'[p] \in TryType
    <3>1. TickedMember(p, watch[p]) \in WatchType
      BY <2>1, TickedMemberIs
    <3>2. TickedTry(p, watch[p], tries[p]) \in TryType
      BY <2>1, TickedTryIs
    <3> QED
      BY <2>0, <3>1, <3>2
  <2>3. /\ Clocked(watch'[p], of[p]) /\ of[p].times \in {0, 1}
    BY <1>5, <1>6, <2>1, TickClocked
  <2>4. /\ Paced(p, watch'[p], of[p]) /\ of[p].spaced \in BOOLEAN
        /\ of[p].gap \in Nat \cup {Never}
    BY <1>5, <1>6, <2>1, TickPaced
  <2>5. /\ Aimed(watch'[p], tries'[p])
        /\ p \in warn /\ Why(after(p)) = "signaling" =>
             ~(after(p).retry /\ after(p).age < 2)
    <3> DEFINE u == TickedTry(p, watch[p], tries[p])
    <3>1. /\ Aimed(TickedMember(p, watch[p]), u)
          /\ Warns(Aged(watch[p])) /\ Why(u) = "signaling" => ~(u.retry /\ u.age < 2)
      BY <2>1, TickAimed
    <3>2. u = after(p) /\ u = tries'[p]
      BY <2>0
    <3> HIDE DEF u
    <3> QED
      BY <1>3, <2>0, <3>1, <3>2
  <2>6. of[p] \in HistoryType
    <3> DEFINE h == told.of[p]
               dark == IF Down(watch[p]) THEN h.dark + 1 ELSE h.dark
               times == IF Warns(Aged(watch[p])) THEN h.times + 1 ELSE h.times
               gap == IF Rebuilding(p, watch[p], tries[p]) THEN 0 ELSE Older(h.gap)
               spaced == h.spaced /\ (Rebuilding(p, watch[p], tries[p]) =>
                                        h.gap = Never \/ h.gap + 1 >= RETRY_OFFERER)
    <3>1. dark \in Nat \cup {Fresh}
      BY <2>1 DEF HistoryType, Fresh
    <3>2. spaced \in BOOLEAN
      OBVIOUS
    <3>3. of[p] = [dark |-> dark, times |-> times, gap |-> gap, spaced |-> spaced]
      BY <1>6 DEF TickedHistory
    <3> HIDE DEF dark, times, gap, spaced
    <3>4. times \in {0, 1} /\ gap \in Nat \cup {Never}
      BY <2>3, <2>4, <3>3
    <3> QED
      BY <3>1, <3>2, <3>3, <3>4 DEF HistoryType
  <2> QED
    BY <2>2, <2>3, <2>4, <2>5, <2>6 DEF Minded
<1>8. /\ told'.of = of /\ told'.why = last.why /\ told'.early = last.early
      /\ told'.stuck = IF Keyless THEN told.stuck + 1 ELSE 0
      /\ told'.keyless = IF ~Keyless THEN 0
                         ELSE told.keyless + (IF KeylessWarns THEN 1 ELSE 0)
  BY <1>1
<1>9. KeylessCounted' /\ told'.stuck \in Nat /\ told'.keyless \in Nat
  BY <1>8, TickKeyless DEF WatchInv
<1>10. last.why \in Reason /\ last.early \in BOOLEAN /\ (last.why = "signaling" => ~last.early)
  <2>1. CASE warn = {}
    <3>1. last = [why |-> told.why, early |-> told.early]
      BY <1>1, <2>1
    <3>2. told.why \in Reason /\ told.early \in BOOLEAN
          /\ (told.why = "signaling" => ~told.early)
      BY DEF WatchInv, WatchTyped, ToldType, ReasonHadTime
    <3> QED
      BY <3>1, <3>2
  <2>2. CASE warn # {}
    <3>1. PICK p \in warn : last = [why |-> Why(after(p)),
                                    early |-> after(p).retry /\ after(p).age < 2]
      BY <1>1, <2>2
    <3>2. p \in Peer
      BY DEF warn
    <3>3. Why(after(p)) = "signaling" => ~(after(p).retry /\ after(p).age < 2)
      BY <1>7, <3>2
    <3>4. Why(after(p)) \in Reason
      BY DEF Why, Reason
    <3> DEFINE e == after(p).retry /\ after(p).age < 2
    <3>5. e \in BOOLEAN
      OBVIOUS
    <3>6. last.why = Why(after(p)) /\ last.early = e
      BY <3>1
    <3> QED
      BY <3>3, <3>4, <3>5, <3>6
  <2> QED
    BY <2>1, <2>2
<1>11. WatchTyped'
  <2>1. told' \in ToldType
    <3>1. of \in [Peer -> HistoryType]
      BY <1>7 DEF of
    <3>2. told' = [of |-> of, stuck |-> told'.stuck, keyless |-> told'.keyless,
                   why |-> last.why, early |-> last.early]
      BY <1>1
    <3> QED
      BY <1>9, <1>10, <3>1, <3>2 DEF ToldType
  <2>2. watch' \in [Peer -> WatchType] /\ tries' \in [Peer -> TryType]
    BY <1>2, <1>7
  <2> QED
    BY <2>1, <2>2 DEF WatchTyped
<1>12. ReasonHadTime'
  BY <1>8, <1>10 DEF ReasonHadTime
<1>13. \A p \in Peer : Minded(p, watch[p], tries[p], told.of[p])'
  BY <1>7, <1>8 DEF Minded, Clocked, Paced, Aimed, Down, DueOf, Offers
<1> QED
  BY <1>9, <1>11, <1>12, <1>13 DEF WatchInv

LEMMA WatchInitInv == LwInit => WatchInv
<1> SUFFICES ASSUME LwInit PROVE WatchInv
  OBVIOUS
<1>1. /\ watch = [p \in Peer |-> NoMember] /\ tries = [p \in Peer |-> NoTry]
      /\ ring = [key |-> FALSE, since |-> Never, warned |-> FALSE]
      /\ told = [of |-> [p \in Peer |-> Told], stuck |-> 0, keyless |-> 0,
                 why |-> "nothing", early |-> FALSE]
  BY DEF LwInit
<1>2. Told \in HistoryType /\ Told.spaced
  BY DEF Told, HistoryType
<1>3. NoMember \in WatchType /\ ~NoMember.here /\ NoTry \in TryType /\ ~NoTry.retry
  BY NoMemberType, FreshTries
<1>4. KeylessCounted
  BY <1>1, DueType DEF KeylessCounted, RingType
<1>5. WatchTyped
  <2>1. "nothing" \in Reason
    BY DEF Reason
  <2>2. [p \in Peer |-> Told] \in [Peer -> HistoryType]
    BY <1>2
  <2>3. told \in ToldType
    BY <1>1, <2>1, <2>2 DEF ToldType
  <2> QED
    BY <1>1, <1>3, <2>3 DEF WatchTyped
<1>6. ReasonHadTime
  BY <1>1 DEF ReasonHadTime
<1>7. \A p \in Peer : Minded(p, watch[p], tries[p], told.of[p])
  BY <1>1, <1>2, <1>3, AbsentMember
<1> QED
  BY <1>4, <1>5, <1>6, <1>7 DEF WatchInv

\* The user is told of every link that stays down and of a missing key, once
\* per outage and with a reason that had time to show, and no link is rebuilt
\* faster than its role has it, whatever frames, drops and rosters come between
\* the ticks (net tick of the engine loop, relink(), link_why(),
\* keyless_warn_due()), for any intervals ordered as those of the code are.
THEOREM OutagesAreTold ==
  ASSUME Intervals
  PROVE  LwSpec => []UserIsTold
<1>1. WatchInv /\ [LwNext]_lwVars => WatchInv'
  <2> SUFFICES ASSUME WatchInv, [LwNext]_lwVars PROVE WatchInv'
    OBVIOUS
  <2>1. CASE NetTick
    BY <2>1, NetTickInv
  <2>2. CASE KeyArrives
    BY <2>2, KeyArrivesInv
  <2>3. CASE OnRekey \/ \E p \in Peer : PeerOffers(p) \/ Learns(p)
    BY <2>3, TryEvents
  <2>4. CASE \E here \in SUBSET Peer : OnRoster(here)
    BY <2>4, OnRosterInv
  <2>5. CASE \E p \in Peer : \/ OnPeerJoined(p) \/ OnPeerLeft(p) \/ LinkUp(p) \/ LinkDown(p)
                             \/ OnSecure(p)
    BY <2>5, OnPeerJoinedInv, OnPeerLeftInv, LinkUpInv, LinkDownInv, OnSecureInv
  <2>6. CASE UNCHANGED lwVars
    <3>1. UNCHANGED <<watch, tries, ring, told>>
      BY <2>6 DEF lwVars
    <3> QED
      BY <3>1, OnlyTries DEF WatchInv, WatchTyped
  <2> QED
    BY <2>1, <2>2, <2>3, <2>4, <2>5, <2>6 DEF LwNext
<1>2. WatchInv => UserIsTold
  <2> SUFFICES ASSUME WatchInv PROVE UserIsTold
    OBVIOUS
  <2>1. DeadLinkIsTold
    <3> SUFFICES ASSUME NEW p \in Peer
                 PROVE  /\ Down(watch[p]) /\ told.of[p].dark >= WARN_AFTER => told.of[p].times > 0
                        /\ told.of[p].times <= 1
      BY DEF DeadLinkIsTold, Down
    <3>1. Clocked(watch[p], told.of[p]) /\ told.of[p].times \in {0, 1}
      BY TypesOfPeer DEF Minded, HistoryType
    <3> QED
      BY <3>1 DEF Clocked
  <2>2. NoRebuildStorm
    BY TypesOfPeer DEF NoRebuildStorm
  <2>3. ReasonHadTime
    BY DEF WatchInv
  <2>4. KeylessIsTold
    <3>1. KeylessCounted /\ KEYLESS_WARN_AFTER \in Nat /\ told.stuck \in Nat
      BY DueType DEF WatchInv, WatchTyped, ToldType
    <3> QED
      BY <3>1 DEF KeylessCounted, KeylessIsTold
  <2> QED
    BY <2>1, <2>2, <2>3, <2>4 DEF UserIsTold
<1> QED
  BY <1>1, <1>2, WatchInitInv, PTL DEF LwSpec

-----------------------------------------------------------------------------
(***************************************************************************)
(* The guards of the commands (Boundary).                                  *)
(***************************************************************************)
\* What the shell has let in, as far as the far end measures it.
Admitted ==
  /\ call.kind = "connect" => call.t \in Text /\ ConnectOk(call.field, call.t)
  /\ call.kind \in {"chat", "serverless_chat"} => call.t \in Text /\ call.t.n > 0
  /\ call.kind = "directory" =>
       call.t \in Text /\ ValidChannel(call.t) /\ call.k \in {1, MAX_CHANNELS_SHARED}

GuardInv ==
  /\ call \in Call
  /\ got \in {"asked", "admitted", "refused", "whole", "bad_input", "dropped", "cut"}
  /\ got = "admitted" => Admitted
  /\ GuardsSuffice

\* Only some calls carry a text.
LEMMA CallTexts ==
  ASSUME NEW c \in Call
  PROVE  /\ c.kind \in {"connect", "chat", "serverless_chat", "directory"} => c.t \in Text
         /\ c.kind = "directory" => c.k \in {1, MAX_CHANNELS_SHARED}
         /\ c.kind = "radio" => c.low \in Num /\ c.high \in Num
         /\ c.kind = "knob" => c.knob \in DOMAIN KnobRange /\ c.x \in Num
  BY DEF Call

LEMMA BytesOf ==
  ASSUME NEW t \in Text
  PROVE  /\ t.n \in Nat /\ t.w \in {1, 2, 3, 4} /\ Bytes(t) \in Nat
         /\ t.w = 1 => Bytes(t) = t.n
         /\ t.n = 0 => Bytes(t) = 0
<1>1. t.n \in Nat /\ t.w \in {1, 2, 3, 4} /\ Bytes(t) = t.n * t.w
  <2>1. t.n \in Length /\ t.w \in 1 .. 4
    BY DEF Text
  <2>2. t.n \in Nat
    BY <2>1, BoundaryConstants
  <2> QED
    BY <2>1, <2>2 DEF Bytes
<1>2. CASE t.w = 1
  BY <1>1, <1>2
<1>3. CASE t.w = 2
  BY <1>1, <1>3
<1>4. CASE t.w = 3
  BY <1>1, <1>4
<1>5. CASE t.w = 4
  BY <1>1, <1>5
<1> QED
  BY <1>1, <1>2, <1>3, <1>4, <1>5

\* What a text takes in JSON, if no character of it takes more than three bytes.
LEMMA JsonBytesOf ==
  ASSUME NEW t, t.n \in Nat, t.j \in {1, 2, 3}
  PROVE  JsonBytes(t) \in Nat /\ JsonBytes(t) <= 3 * t.n
<1>1. CASE t.j = 1
  BY <1>1 DEF JsonBytes
<1>2. CASE t.j = 2
  BY <1>2 DEF JsonBytes
<1>3. CASE t.j = 3
  BY <1>3 DEF JsonBytes
<1> QED
  BY <1>1, <1>2, <1>3

LEMMA JsonOf ==
  ASSUME NEW t \in Text
  PROVE  t.j \in {1, 2, 3, 4, 6}
BY DEF Text

\* The server takes the fields of a join the shell admits.
LEMMA JoinsAreTaken ==
  ASSUME NEW f, NEW t \in Text, ConnectOk(f, t), ~JoinOk(f, t)
  PROVE  f = "name" /\ ~(Bytes(t) <= MAX_NAME)
<1>1. /\ t.n \in Nat /\ t.w \in {1, 2, 3, 4} /\ Bytes(t) \in Nat
      /\ t.w = 1 => Bytes(t) = t.n
      /\ t.n = 0 => Bytes(t) = 0
  BY BytesOf
<1>2. CASE f \in {"room", "user_id"}
  BY <1>1, <1>2 DEF ConnectOk, JoinOk, ValidId, LenOk, MAX_ID
<1>3. CASE f = "name"
  BY <1>1, <1>3 DEF ConnectOk, JoinOk, ValidName, LenOk, MAX_NAME
<1>4. CASE f = "token"
  BY <1>1, <1>4 DEF ConnectOk, JoinOk, CleanToken, ValidHex, MAX_TOKEN
<1>5. CASE f \notin {"room", "user_id", "name", "token"}
  BY <1>5 DEF JoinOk
<1> QED
  BY <1>2, <1>3, <1>4, <1>5

LEMMA Framing ==
  ASSUME NEW m \in Nat, NEW inner \in Nat, inner <= m, NEW s \in BOOLEAN
  PROVE  /\ Framed(inner, s) \in Nat
         /\ Framed(inner, s) <= (IF s THEN 4 * ((m + 26) \div 3) + 21 ELSE m)
<1>1. (inner + 24 + 2) \div 3 <= (m + 26) \div 3 /\ (inner + 24 + 2) \div 3 \in Nat
  OBVIOUS
<1> QED
  BY <1>1 DEF Framed, ENC_ENVELOPE

\* A full line, sealed, of characters of up to three bytes fits into a frame.
LEMMA LinesFit ==
  ASSUME NEW t \in Text, NEW s \in BOOLEAN, ChatAtPeer(BoundedChat(t), s) = "dropped"
  PROVE  ~(t.j <= 3)
<1> SUFFICES ASSUME t.j <= 3 PROVE FALSE
  OBVIOUS
<1> DEFINE b == BoundedChat(t)
           J == JsonBytes(b)
           F == Framed(J + 38, s)
<1>1. t.n \in Nat /\ t.j \in {1, 2, 3}
  BY BytesOf, JsonOf
<1>2. /\ b.n = (IF t.n > 2000 THEN 2000 ELSE t.n)
      /\ b.j = t.j
  BY DEF BoundedChat, MAX_CHAT_LEN, Text
<1> HIDE DEF b
<1>3. b.n \in Nat /\ b.n <= 2000 /\ b.j \in {1, 2, 3}
  BY <1>1, <1>2
<1>4. J \in Nat /\ J <= 3 * b.n
  BY <1>3, JsonBytesOf
<1> HIDE DEF J
<1>5. J + 38 \in Nat /\ J + 38 <= 6038 /\ 6038 \in Nat
  BY <1>3, <1>4
<1>6. F \in Nat /\ F <= (IF s THEN 4 * ((6038 + 26) \div 3) + 21 ELSE 6038)
  BY <1>5, Framing
<1> HIDE DEF F
<1>7. F <= 8192
  BY <1>6
<1> QED
  BY <1>7 DEF ChatAtPeer, FrameTaken, MAX_CTRL_BYTES, CHAT_ENVELOPE, b, J, F

\* So does a full directory of such names.
LEMMA DirectoriesFit ==
  ASSUME NEW t \in Text, ValidChannel(t), NEW k \in {1, MAX_CHANNELS_SHARED},
         DirectoryAtPeer(t, k) = "dropped"
  PROVE  ~(t.j <= 3)
<1> SUFFICES ASSUME t.j <= 3 PROVE FALSE
  OBVIOUS
<1> DEFINE J == JsonBytes(t)
<1>1. t.n \in Nat /\ t.j \in {1, 2, 3}
  BY BytesOf, JsonOf
<1>2. J \in Nat /\ J <= 3 * t.n
  BY <1>1, JsonBytesOf
<1> HIDE DEF J
<1>3. J <= 96
  BY <1>1, <1>2 DEF ValidChannel, MAX_CHANNEL_LEN
<1>4. k * (J + 3) \in Nat /\ k * (J + 3) <= 6336
  <2>1. CASE k = 1
    BY <1>2, <1>3, <2>1
  <2>2. CASE k = 64
    BY <1>2, <1>3, <2>2
  <2> QED
    BY <2>1, <2>2 DEF MAX_CHANNELS_SHARED
<1>5. Framed(k * (J + 3) - 1 + CHANNELS_ENVELOPE, FALSE) <= 8192
  BY <1>4 DEF Framed, CHANNELS_ENVELOPE
<1> QED
  BY <1>5 DEF DirectoryAtPeer, FrameTaken, MAX_CTRL_BYTES, J

\* Numbers are settled by the call alone.
LEMMA NumbersKept ==
  ASSUME call \in Call
  PROVE  SettingsStayUsable
<1>1. ASSUME call.kind = "radio"
      PROVE  Norm(call.low, KnobRange.low_cut) < Norm(call.high, KnobRange.high_cut)
  <2>1. call.low \in Num /\ call.high \in Num
    BY <1>1, CallTexts
  <2>2. call.low.v \in Int /\ call.high.v \in Int
    BY <2>1, BoundaryConstants DEF Num
  <2>3. Norm(call.low, <<50000, 1000000, 300000>>) <= 1000000
        /\ Norm(call.low, <<50000, 1000000, 300000>>) \in Int
    BY <2>2 DEF Norm
  <2>4. Norm(call.high, <<1200000, 12000000, 3400000>>) >= 1200000
        /\ Norm(call.high, <<1200000, 12000000, 3400000>>) \in Int
    BY <2>2 DEF Norm
  <2>5. /\ KnobRange.low_cut = <<50000, 1000000, 300000>>
        /\ KnobRange.high_cut = <<1200000, 12000000, 3400000>>
    BY DEF KnobRange
  <2> QED
    BY <2>3, <2>4, <2>5
<1>2. ASSUME call.kind = "knob"
      PROVE  LET r == KnobRange[call.knob] IN Norm(call.x, r) \in r[1] .. r[2]
  <2> DEFINE r == KnobRange[call.knob]
  <2>1. call.knob \in DOMAIN KnobRange /\ call.x \in Num
    BY <1>2, CallTexts
  <2>2. call.x.v \in Int
    BY <2>1, BoundaryConstants DEF Num
  <2>3. \E a, b, c \in Int : r = <<a, b, c>> /\ a <= c /\ c <= b
    BY <2>1 DEF KnobRange
  <2>4. PICK a \in Int, b \in Int, c \in Int : r = <<a, b, c>> /\ a <= c /\ c <= b
    BY <2>3
  <2>5. r[1] = a /\ r[2] = b /\ r[3] = c
    BY <2>4
  <2> HIDE DEF r
  <2>6. Norm(call.x, r) \in r[1] .. r[2]
    BY <2>2, <2>4, <2>5 DEF Norm
  <2> QED
    BY <2>6 DEF r
<1> QED
  BY <1>1, <1>2 DEF SettingsStayUsable

LEMMA GuardKeeps ==
  ASSUME GuardInv, Guard
  PROVE  GuardInv'
<1>1. call' = call /\ call \in Call /\ got' \in {"admitted", "refused"}
  BY DEF Guard, GuardInv
<1>2. ASSUME got' = "admitted" PROVE Admitted'
  <2>1. CASE call.kind = "connect"
    BY <1>1, <1>2, <2>1, CallTexts DEF Guard, Admitted
  <2>2. CASE call.kind \in {"chat", "serverless_chat"}
    BY <1>1, <1>2, <2>2, CallTexts DEF Guard, Admitted
  <2>3. CASE call.kind = "directory"
    BY <1>1, <1>2, <2>3, CallTexts DEF Guard, Admitted
  <2>4. CASE call.kind \notin {"connect", "chat", "serverless_chat", "directory"}
    BY <1>1, <2>4 DEF Admitted
  <2> QED
    BY <2>1, <2>2, <2>3, <2>4
<1>3. SettingsStayUsable'
  BY <1>1, NumbersKept DEF SettingsStayUsable
<1>4. GuardsSuffice'
  BY <1>1, <1>3 DEF GuardsSuffice, FieldsAreTaken, FullFramesFit, NoSilentLoss
<1> QED
  BY <1>1, <1>2, <1>4 DEF GuardInv

LEMMA ArriveKeeps ==
  ASSUME GuardInv, Arrive
  PROVE  GuardInv'
<1>1. /\ call' = call /\ call \in Call /\ Admitted
  BY DEF Arrive, GuardInv
<1>2. SettingsStayUsable'
  BY <1>1, NumbersKept DEF SettingsStayUsable
<1>3. ASSUME got' \in {"whole", "bad_input", "dropped", "cut", "refused"},
             FieldsAreTaken', FullFramesFit', NoSilentLoss'
      PROVE  GuardInv'
  BY <1>1, <1>2, <1>3 DEF GuardInv, GuardsSuffice
<1>4. CASE call.kind = "connect"
  <2>1. got' = IF JoinOk(call.field, call.t) THEN "whole" ELSE "bad_input"
    BY <1>4 DEF Arrive
  <2>2. got' = "bad_input" => call.field = "name" /\ ~(Bytes(call.t) <= MAX_NAME)
    BY <1>1, <1>4, <2>1, JoinsAreTaken DEF Admitted
  <2> QED
    BY <1>1, <1>3, <1>4, <2>1, <2>2 DEF FieldsAreTaken, FullFramesFit, NoSilentLoss
<1>5. CASE call.kind = "chat"
  <2>1. got' = ChatAtPeer(BoundedChat(call.t), call.sealed)
    BY <1>5 DEF Arrive
  <2>2. call.sealed \in BOOLEAN
    BY <1>1, <1>5 DEF Call
  <2>3. got' \in {"dropped", "cut", "whole"}
    BY <2>1 DEF ChatAtPeer
  <2>4. got' = "dropped" => ~(call.t.j <= 3)
    BY <1>1, <1>5, <2>1, <2>2, LinesFit DEF Admitted
  <2> QED
    BY <1>1, <1>3, <1>5, <2>3, <2>4 DEF FieldsAreTaken, FullFramesFit, NoSilentLoss
<1>6. CASE call.kind = "serverless_chat"
  <2>1. got' = ServerlessChat(BoundedChat(call.t))
    BY <1>6 DEF Arrive
  <2>2. got' \in {"refused", "cut", "whole"}
    BY <2>1 DEF ServerlessChat, WireChat
  <2> QED
    BY <1>1, <1>3, <2>2 DEF FieldsAreTaken, FullFramesFit, NoSilentLoss
<1>7. CASE call.kind = "directory"
  <2>1. got' = DirectoryAtPeer(call.t, call.k)
    BY <1>7 DEF Arrive
  <2>2. got' \in {"dropped", "whole"}
    BY <2>1 DEF DirectoryAtPeer
  <2>3. got' = "dropped" => ~(call.t.j <= 3)
    BY <1>1, <1>7, <2>1, DirectoriesFit DEF Admitted
  <2> QED
    BY <1>1, <1>3, <1>7, <2>2, <2>3 DEF FieldsAreTaken, FullFramesFit, NoSilentLoss
<1>8. CASE call.kind \notin {"connect", "chat", "serverless_chat", "directory"}
  <2>1. got' = "whole"
    BY <1>8 DEF Arrive
  <2> QED
    BY <1>1, <1>3, <1>8, <2>1 DEF FieldsAreTaken, FullFramesFit, NoSilentLoss
<1> QED
  BY <1>4, <1>5, <1>6, <1>7, <1>8

\* Of any length and any number: the server takes every field of a join the
\* shell admits, but for a name of more than 64 bytes; a line and a directory
\* reach a peer, if no character takes more than three bytes in JSON; a line of
\* the 1:1 mode is never lost unsaid; and every setting stays in its range (the
\* guards of the shell's commands, the server's Join, on_message(), wire_chat(),
\* norm_f32()).
THEOREM GuardsAreEnough == BoundarySpec => []GuardsSuffice
<1>1. BoundaryInit => GuardInv
  BY NumbersKept DEF BoundaryInit, GuardInv, GuardsSuffice, FieldsAreTaken, FullFramesFit,
                     NoSilentLoss
<1>2. ASSUME GuardInv, [BoundaryNext]_boundaryVars PROVE GuardInv'
  <2>1. CASE UNCHANGED boundaryVars
    BY <1>2, <2>1 DEF boundaryVars, GuardInv, Admitted, GuardsSuffice, FieldsAreTaken,
                      FullFramesFit, NoSilentLoss, SettingsStayUsable
  <2> QED
    BY <1>2, <2>1, GuardKeeps, ArriveKeeps DEF BoundaryNext
<1>3. GuardInv => GuardsSuffice
  BY DEF GuardInv
<1> QED
  BY <1>1, <1>2, <1>3, PTL DEF BoundarySpec

-----------------------------------------------------------------------------
(***************************************************************************)
(* Push-to-talk.  Both queues are read through their last "ptt" message: the *)
(* one on its way to the webview is the merged sources as they are, the one   *)
(* on its way from the controllers was sent by a controller that still holds. *)
(* The slots of handle_raw() are read through the labels that are down: an    *)
(* edge moves both alike, whatever is bound, captured or pressed with it.     *)
(***************************************************************************)
\* What a sequence of messages makes of a flag that was `before`: the last
\* "ptt" decides.
Settles(s, before, after) ==
  IF \E i \in 1 .. Len(s) : s[i].t = "ptt"
    THEN \A i \in 1 .. Len(s) :
           s[i].t = "ptt" /\ (\A j \in i + 1 .. Len(s) : s[j].t # "ptt") => s[i].v = after
    ELSE after = before

Waiting(s, t) == \E i \in 1 .. Len(s) : s[i].t = t

\* The labels of what is down.
LabelsOf(h) == {Label(p) : p \in h}

\* A binding whose base and modifiers are among the labels L.
ChordIn(b, L) ==
  /\ b # Unbound /\ b.base \in L
  /\ b.mods # {} => "ShiftLeft" \in L

\* What the state of handle_raw() may believe when the labels L are down.
Track(r, L) ==
  /\ \A s \in Slot : r.down[s] => r.bind[s].base \in L
  /\ r.mods # {} => "ShiftLeft" \in L
  /\ r.src.key => \E s \in Slot : ChordIn(r.bind[s], L)
  /\ r.cap # -1 \/ r.ccap # -1 => ~r.src.key /\ \A s \in Slot : ~r.down[s]

SomebodyHolds == \E c \in Client : conn[c].st = "in" /\ conn[c].hold

PadsAreRead == \A p \in Device : pads[p] = {p} \cap held

\* Believed keys are down keys, and nobody binds with a key down.
KeysFollow ==
  /\ Track(raw, LabelsOf(held))
  /\ rebind # <<>> => held = {}
  /\ \E w \in BOOLEAN : Settles(out, raw.src.ctl, w) /\ (w => SomebodyHolds)

SourcesMerged == raw.src.emitted = (raw.src.key \/ raw.src.ctl)

WebviewFollows ==
  \E h \in BOOLEAN : /\ Settles(bus, h, raw.src.emitted)
                     /\ tx => h \/ wv.screen \/ wv.latched

SnapshotUnderWay ==
  \A c \in Client : conn[c].st = "in" =>
    \/ conn[c].seen = wv.shown \/ ~wv.shown.known
    \/ Waiting(out, "refresh") \/ Waiting(bus, "ctl-refresh")

NobodyBeforeStart == ~srv.up => \A c \in Client : conn[c].st = "off"
Msg == [t : {"ptt"}, v : BOOLEAN] \cup [t : {"chan-cycle", "ptt-bound", "chan-bound"}, v : Slot]
       \cup [t : {"ctl"}, v : {"mic-toggle"}] \cup [t : {"refresh", "ctl-refresh"}, v : {TRUE}]

\* How the last "ptt" of a sequence moves through queues: none, one, two
\* sequences one after the other, and the head taken.
LEMMA SettlesNone ==
  \A a : Settles(<<>>, a, a) /\ \A b : Settles(<<>>, a, b) => a = b
BY DEF Settles

LEMMA SettlesOne ==
  ASSUME NEW m \in Msg, NEW a
  PROVE  /\ m.t = "ptt" => Settles(<<m>>, a, m.v)
         /\ m.t # "ptt" => Settles(<<m>>, a, a)
<1>1. Len(<<m>>) = 1 /\ <<m>>[1] = m
  OBVIOUS
<1> QED
  BY <1>1 DEF Settles

LEMMA SettlesConcat ==
  ASSUME NEW s \in Seq(Msg), NEW t \in Seq(Msg), NEW a, NEW b, NEW c,
         Settles(s, a, b), Settles(t, b, c)
  PROVE  Settles(s \o t, a, c)
<1> DEFINE u == s \o t
<1>1. /\ Len(u) = Len(s) + Len(t) /\ Len(s) \in Nat /\ Len(t) \in Nat
      /\ \A i \in 1 .. Len(s) : u[i] = s[i]
      /\ \A i \in 1 .. Len(t) : u[i + Len(s)] = t[i]
  OBVIOUS
<1> HIDE DEF u
<1>2. \A i \in 1 .. Len(u) : i \in 1 .. Len(s) \/ \E k \in 1 .. Len(t) : i = k + Len(s)
  <2> TAKE i \in 1 .. Len(u)
  <2>0. i \in Nat /\ 1 <= i /\ i <= Len(s) + Len(t) /\ Len(s) \in Nat
    BY <1>1
  <2>1. CASE i <= Len(s)
    BY <2>0, <2>1
  <2>2. CASE i > Len(s)
    <3>1. i - Len(s) \in 1 .. Len(t) /\ i = (i - Len(s)) + Len(s)
      BY <1>1, <2>0, <2>2
    <3> QED
      BY <3>1
  <2> QED
    BY <2>0, <2>1, <2>2
<1>3. CASE \E k \in 1 .. Len(t) : t[k].t = "ptt"
  <2>1. PICK k \in 1 .. Len(t) : t[k].t = "ptt"
    BY <1>3
  <2>2. k + Len(s) \in 1 .. Len(u) /\ u[k + Len(s)].t = "ptt"
    BY <1>1, <2>1
  <2>3. ASSUME NEW i \in 1 .. Len(u), u[i].t = "ptt",
               \A j \in i + 1 .. Len(u) : u[j].t # "ptt"
        PROVE  u[i].v = c
    <3>1. PICK n \in 1 .. Len(t) : i = n + Len(s)
      <4>1. ASSUME i \in 1 .. Len(s) PROVE FALSE
        <5>1. k + Len(s) \in i + 1 .. Len(u)
          BY <1>1, <2>1, <4>1
        <5> QED
          BY <2>2, <2>3, <5>1
      <4> QED
        BY <1>2, <4>1
    <3>2. t[n].t = "ptt" /\ u[i].v = t[n].v
      BY <1>1, <2>3, <3>1
    <3>3. ASSUME NEW j \in n + 1 .. Len(t) PROVE t[j].t # "ptt"
      <4>1. j + Len(s) \in i + 1 .. Len(u) /\ j \in 1 .. Len(t)
        BY <1>1, <3>1
      <4> QED
        BY <1>1, <2>3, <4>1
    <3>4. t[n].v = c
      BY <1>3, <3>2, <3>3 DEF Settles
    <3> QED
      BY <3>2, <3>4
  <2>4. \E i \in 1 .. Len(u) : u[i].t = "ptt"
    BY <2>2
  <2> QED
    BY <2>3, <2>4 DEF Settles, u
<1>4. CASE ~\E k \in 1 .. Len(t) : t[k].t = "ptt"
  <2>1. b = c
    BY <1>4 DEF Settles
  <2>2. CASE \E i \in 1 .. Len(s) : s[i].t = "ptt"
    <3>1. ASSUME NEW i \in 1 .. Len(u), u[i].t = "ptt",
                 \A j \in i + 1 .. Len(u) : u[j].t # "ptt"
          PROVE  u[i].v = c
      <4>1. i \in 1 .. Len(s) /\ u[i] = s[i]
        BY <1>1, <1>2, <1>4, <3>1
      <4>2. ASSUME NEW j \in i + 1 .. Len(s) PROVE s[j].t # "ptt"
        <5>1. j \in i + 1 .. Len(u) /\ j \in 1 .. Len(s)
          BY <1>1, <4>1
        <5> QED
          BY <1>1, <3>1, <5>1
      <4> QED
        BY <2>1, <2>2, <3>1, <4>1, <4>2 DEF Settles
    <3>2. \E i \in 1 .. Len(u) : u[i].t = "ptt"
      <4>1. PICK i \in 1 .. Len(s) : s[i].t = "ptt"
        BY <2>2
      <4>2. i \in 1 .. Len(u) /\ u[i] = s[i]
        BY <1>1
      <4> QED
        BY <4>1, <4>2
    <3> QED
      BY <3>1, <3>2 DEF Settles, u
  <2>3. CASE ~\E i \in 1 .. Len(s) : s[i].t = "ptt"
    <3>1. a = b
      BY <2>3 DEF Settles
    <3>2. ~\E i \in 1 .. Len(u) : u[i].t = "ptt"
      BY <1>1, <1>2, <1>4, <2>3
    <3> QED
      BY <2>1, <3>1, <3>2 DEF Settles, u
  <2> QED
    BY <2>2, <2>3
<1> QED
  BY <1>3, <1>4

LEMMA SettlesTail ==
  ASSUME NEW s \in Seq(Msg), s # <<>>, NEW a, NEW c, Settles(s, a, c)
  PROVE  /\ Head(s).t = "ptt" => Settles(Tail(s), Head(s).v, c)
         /\ Head(s).t # "ptt" => Settles(Tail(s), a, c)
<1> DEFINE u == Tail(s)
<1>1. /\ Len(s) \in Nat \ {0} /\ Len(u) = Len(s) - 1 /\ Head(s) = s[1]
      /\ \A i \in 1 .. Len(u) : u[i] = s[i + 1]
  <2>1. Len(s) \in Nat \ {0}
    OBVIOUS
  <2> QED
    BY <2>1
<1> HIDE DEF u
<1>2. CASE \E i \in 1 .. Len(u) : u[i].t = "ptt"
  <2>1. PICK k \in 1 .. Len(u) : u[k].t = "ptt"
    BY <1>2
  <2>2. k + 1 \in 1 .. Len(s) /\ s[k + 1].t = "ptt"
    BY <1>1, <2>1
  <2>3. ASSUME NEW i \in 1 .. Len(u), u[i].t = "ptt",
               \A j \in i + 1 .. Len(u) : u[j].t # "ptt"
        PROVE  u[i].v = c
    <3>1. i + 1 \in 1 .. Len(s) /\ u[i] = s[i + 1]
      BY <1>1
    <3>2. ASSUME NEW j \in (i + 1) + 1 .. Len(s) PROVE s[j].t # "ptt"
      <4>1. j - 1 \in i + 1 .. Len(u) /\ j - 1 \in 1 .. Len(u) /\ (j - 1) + 1 = j
        BY <1>1
      <4>2. u[j - 1] = s[j]
        BY <1>1, <4>1
      <4> QED
        BY <2>3, <4>1, <4>2
    <3> QED
      BY <2>2, <2>3, <3>1, <3>2 DEF Settles
  <2>4. \A x : Settles(u, x, c)
    BY <1>2, <2>3 DEF Settles
  <2> QED
    BY <2>4 DEF u
<1>3. CASE ~\E i \in 1 .. Len(u) : u[i].t = "ptt"
  <2>1. ASSUME NEW j \in 2 .. Len(s) PROVE s[j].t # "ptt"
    <3>1. j - 1 \in 1 .. Len(u) /\ (j - 1) + 1 = j
      BY <1>1
    <3>2. u[j - 1] = s[j]
      BY <1>1, <3>1
    <3> QED
      BY <1>3, <3>1, <3>2
  <2>2. ASSUME Head(s).t = "ptt" PROVE Head(s).v = c
    <3>1. 1 \in 1 .. Len(s) /\ s[1].t = "ptt"
      BY <1>1, <2>2
    <3>2. \A j \in 1 + 1 .. Len(s) : s[j].t # "ptt"
      BY <2>1
    <3> QED
      BY <1>1, <3>1, <3>2 DEF Settles
  <2>3. ASSUME Head(s).t # "ptt" PROVE a = c
    <3>1. ~\E i \in 1 .. Len(s) : s[i].t = "ptt"
      BY <1>1, <2>1, <2>3
    <3> QED
      BY <3>1 DEF Settles
  <2>4. \A x : Settles(u, x, x)
    BY <1>3 DEF Settles
  <2> QED
    BY <2>2, <2>3, <2>4 DEF u
<1> QED
  BY <1>2, <1>3

\* What waits in one of two queues waits in both together, and stays when
\* something else is taken.
LEMMA WaitingConcat ==
  ASSUME NEW s \in Seq(Msg), NEW t \in Seq(Msg), NEW x
  PROVE  /\ Waiting(s, x) => Waiting(s \o t, x)
         /\ Waiting(t, x) => Waiting(s \o t, x)
<1> DEFINE u == s \o t
<1>1. /\ Len(u) = Len(s) + Len(t) /\ Len(s) \in Nat /\ Len(t) \in Nat
      /\ \A i \in 1 .. Len(s) : u[i] = s[i]
      /\ \A i \in 1 .. Len(t) : u[i + Len(s)] = t[i]
  OBVIOUS
<1> HIDE DEF u
<1>2. Waiting(s, x) => Waiting(u, x)
  <2>1. \A i \in 1 .. Len(s) : i \in 1 .. Len(u)
    BY <1>1
  <2> QED
    BY <1>1, <2>1 DEF Waiting
<1>3. Waiting(t, x) => Waiting(u, x)
  <2>1. \A i \in 1 .. Len(t) : i + Len(s) \in 1 .. Len(u)
    BY <1>1
  <2> QED
    BY <1>1, <2>1 DEF Waiting
<1> QED
  BY <1>2, <1>3 DEF u

LEMMA WaitingTail ==
  ASSUME NEW s \in Seq(Msg), s # <<>>, NEW x, Waiting(s, x), Head(s).t # x
  PROVE  Waiting(Tail(s), x)
<1> DEFINE u == Tail(s)
<1>1. /\ Len(s) \in Nat \ {0} /\ Len(u) = Len(s) - 1 /\ Head(s) = s[1]
      /\ \A i \in 1 .. Len(u) : u[i] = s[i + 1]
  <2>1. Len(s) \in Nat \ {0}
    OBVIOUS
  <2> QED
    BY <2>1
<1> HIDE DEF u
<1>2. PICK i \in 1 .. Len(s) : s[i].t = x
  BY DEF Waiting
<1>3. i - 1 \in 1 .. Len(u) /\ (i - 1) + 1 = i
  BY <1>1, <1>2
<1>4. u[i - 1] = s[i]
  BY <1>1, <1>3
<1>5. Waiting(u, x)
  BY <1>2, <1>3, <1>4 DEF Waiting
<1> QED
  BY <1>5 DEF u

LEMMA WaitingOne ==
  \A m : Waiting(<<m>>, m.t)
<1> TAKE m
<1>1. Len(<<m>>) = 1 /\ <<m>>[1] = m
  OBVIOUS
<1> QED
  BY <1>1 DEF Waiting

Sources == [key : BOOLEAN, ctl : BOOLEAN, emitted : BOOLEAN]

\* handle_raw() between two edges: the events are not yet sent.
RawOpen == [bind : [Slot -> Binding \cup {Unbound}], down : [Slot -> BOOLEAN], cap : Slot \cup {-1},
            cbind : [Slot -> Binding \cup {Unbound}], cdown : [Slot -> BOOLEAN], ccap : Slot \cup {-1},
            any : BOOLEAN, mods : SUBSET {"Shift"}, src : Sources, emits : Seq(Msg)]

Code == {"F8", "ShiftLeft", "Pad:1", "Mouse:WheelUp"}

Merged(s) == s.emitted = (s.key \/ s.ctl)

\* PttSources::update(): the sources stay merged, and the event says so.
LEMMA UpdateFacts ==
  ASSUME NEW s \in Sources, NEW key \in BOOLEAN, NEW ctl \in BOOLEAN
  PROVE  LET u == Update(s, key, ctl)
         IN /\ u.src \in Sources /\ u.src.key = key /\ u.src.ctl = ctl
            /\ Merged(u.src)
            /\ u.events \in Seq(Msg)
            /\ Settles(u.events, s.emitted, u.src.emitted)
<1> DEFINE b == key \/ ctl
           src == [key |-> key, ctl |-> ctl, emitted |-> b]
           ev == IF b # s.emitted THEN <<Ev("ptt", b)>> ELSE <<>>
<1>1. b \in BOOLEAN
  OBVIOUS
<1>2. Update(s, key, ctl) = [src |-> src, events |-> ev]
  BY DEF Update
<1>3. b = (key \/ ctl)
  OBVIOUS
<1> HIDE DEF b
<1>4. src \in Sources /\ src.key = key /\ src.ctl = ctl /\ src.emitted = b
  BY <1>1 DEF Sources
<1>5. Merged(src)
  BY <1>3, <1>4 DEF Merged
<1>6. ev \in Seq(Msg) /\ Settles(ev, s.emitted, b)
  <2>1. CASE b # s.emitted
    <3> DEFINE m == Ev("ptt", b)
    <3>1. m \in Msg /\ m.t = "ptt" /\ m.v = b
      BY <1>1 DEF Msg, Ev
    <3>2. ev = <<m>>
      BY <2>1
    <3> HIDE DEF m, ev
    <3> QED
      BY <3>1, <3>2, SettlesOne
  <2>2. CASE b = s.emitted
    <3>1. ev = <<>>
      BY <2>2
    <3>2. ev \in Seq(Msg)
      BY <3>1
    <3> QED
      BY <2>2, <3>1, <3>2, SettlesNone
  <2> QED
    BY <2>1, <2>2
<1> HIDE DEF src, ev
<1>7. Update(s, key, ctl).src = src /\ Update(s, key, ctl).events = ev
  BY <1>2
<1> QED
  BY <1>4, <1>5, <1>6, <1>7

\* What each part of handle_raw() changes, and what it leaves.
LEMMA MatchPttFacts ==
  ASSUME NEW r \in RawOpen, NEW code \in Code, NEW d \in BOOLEAN, NEW a,
         Merged(r.src), Settles(r.emits, a, r.src.emitted)
  PROVE  LET q == MatchPtt(r, code, d)
         IN /\ q \in RawOpen
            /\ q.bind = r.bind /\ q.mods = r.mods /\ q.cap = r.cap /\ q.ccap = r.ccap
            /\ q.cbind = r.cbind
            /\ q.down = [s \in Slot |-> IF r.bind[s].base = code THEN d ELSE r.down[s]]
            /\ q.src.key <=> \E s \in Slot :
                    r.bind[s] # Unbound /\ q.down[s] /\ r.bind[s].mods \subseteq r.mods
            /\ q.src.ctl = r.src.ctl
            /\ Merged(q.src) /\ Settles(q.emits, a, q.src.emitted)
<1> DEFINE D == [s \in Slot |-> IF r.bind[s].base = code THEN d ELSE r.down[s]]
           key == \E s \in Slot : r.bind[s] # Unbound /\ D[s] /\ r.bind[s].mods \subseteq r.mods
           u == Update(r.src, key, r.src.ctl)
           q == [r EXCEPT !.down = D, !.src = u.src, !.emits = @ \o u.events]
<1>1. D \in [Slot -> BOOLEAN] /\ key \in BOOLEAN
  BY DEF RawOpen
<1>2. MatchPtt(r, code, d) = q
  BY DEF MatchPtt, Is, ModsOk
<1>3. key = \E s \in Slot : r.bind[s] # Unbound /\ D[s] /\ r.bind[s].mods \subseteq r.mods
  OBVIOUS
<1>4. D = [s \in Slot |-> IF r.bind[s].base = code THEN d ELSE r.down[s]]
  OBVIOUS
<1> HIDE DEF D, key
<1>5. r.src \in Sources /\ r.src.ctl \in BOOLEAN /\ r.emits \in Seq(Msg)
  BY DEF RawOpen, Sources
<1>6. /\ u.src \in Sources /\ u.src.key = key /\ u.src.ctl = r.src.ctl
      /\ Merged(u.src) /\ u.events \in Seq(Msg)
      /\ Settles(u.events, r.src.emitted, u.src.emitted)
  BY <1>1, <1>5, UpdateFacts
<1> HIDE DEF u
<1>7. r.emits \o u.events \in Seq(Msg)
  BY <1>5, <1>6
<1>8. Settles(r.emits \o u.events, a, u.src.emitted)
  BY <1>5, <1>6, SettlesConcat
<1>9. /\ q \in RawOpen /\ q.bind = r.bind /\ q.mods = r.mods /\ q.cap = r.cap /\ q.ccap = r.ccap
      /\ q.cbind = r.cbind /\ q.down = D /\ q.src = u.src /\ q.emits = r.emits \o u.events
  BY <1>1, <1>6, <1>7 DEF RawOpen
<1> HIDE DEF q
<1> QED
  BY <1>2, <1>3, <1>4, <1>6, <1>8, <1>9

LEMMA MatchChanFacts ==
  ASSUME NEW r \in RawOpen, NEW code \in Code, NEW d \in BOOLEAN, NEW a,
         Settles(r.emits, a, r.src.emitted)
  PROVE  LET q == MatchChan(r, code, d)
         IN /\ q \in RawOpen
            /\ q.bind = r.bind /\ q.mods = r.mods /\ q.cap = r.cap /\ q.ccap = r.ccap
            /\ q.down = r.down /\ q.src = r.src
            /\ Settles(q.emits, a, q.src.emitted)
<1> DEFINE Fires(s) == /\ Is(r.cbind[s], code)
                       /\ d /\ ~r.cdown[s] /\ ModsOk(r.cbind[s].mods, r.mods)
           Cycle(s) == IF Fires(s) THEN <<Ev("chan-cycle", s)>> ELSE <<>>
           D == [s \in Slot |-> IF Is(r.cbind[s], code) THEN d ELSE r.cdown[s]]
           c0 == Cycle(0)
           c1 == Cycle(1)
           E == r.emits \o c0 \o c1
           q == [r EXCEPT !.cdown = D, !.emits = E]
<1>1. MatchChan(r, code, d) = IF ~r.any THEN r ELSE q
  BY DEF MatchChan
<1>2. CASE ~r.any
  BY <1>1, <1>2
<1>3. CASE r.any
  <2>1. D \in [Slot -> BOOLEAN]
    BY DEF RawOpen
  <2>2. ASSUME NEW s \in Slot, NEW b
        PROVE  Cycle(s) \in Seq(Msg) /\ Settles(Cycle(s), b, b)
    <3>1. CASE Fires(s)
      <4> DEFINE m == Ev("chan-cycle", s)
      <4>1. m \in Msg /\ m.t # "ptt"
        BY DEF Msg, Ev
      <4>2. Cycle(s) = <<m>>
        BY <3>1
      <4> HIDE DEF m, Cycle, Fires
      <4> QED
        BY <4>1, <4>2, SettlesOne
    <3>2. CASE ~Fires(s)
      <4>1. Cycle(s) = <<>>
        BY <3>2
      <4> HIDE DEF Cycle, Fires
      <4> QED
        BY <4>1, SettlesNone
    <3> QED
      BY <3>1, <3>2
  <2>3. 0 \in Slot /\ 1 \in Slot /\ r.emits \in Seq(Msg)
    BY DEF Slot, RawOpen
  <2> HIDE DEF D, Cycle, Fires
  <2>c. /\ c0 \in Seq(Msg) /\ Settles(c0, r.src.emitted, r.src.emitted)
        /\ c1 \in Seq(Msg) /\ Settles(c1, r.src.emitted, r.src.emitted)
    BY <2>2, <2>3
  <2> HIDE DEF c0, c1
  <2>4. r.emits \o c0 \in Seq(Msg)
    BY <2>3, <2>c
  <2>5. Settles(r.emits \o c0, a, r.src.emitted)
    BY <2>3, <2>c, SettlesConcat
  <2>d. E \in Seq(Msg)
    BY <2>4, <2>c
  <2>e. Settles(E, a, r.src.emitted)
    BY <2>4, <2>5, <2>c, SettlesConcat
  <2> HIDE DEF E
  <2>6. /\ q \in RawOpen /\ q.bind = r.bind /\ q.mods = r.mods /\ q.cap = r.cap /\ q.ccap = r.ccap
        /\ q.down = r.down /\ q.src = r.src /\ q.emits = E
    BY <2>1, <2>d DEF RawOpen
  <2>7. MatchChan(r, code, d) = q
    BY <1>1, <1>3
  <2> HIDE DEF q
  <2> QED
    BY <2>e, <2>6, <2>7
<1> QED
  BY <1>2, <1>3

LEMMA CapturePttFacts ==
  ASSUME NEW r \in RawOpen, NEW code \in Code, NEW d \in BOOLEAN, NEW a, r.cap # -1,
         Settles(r.emits, a, r.src.emitted)
  PROVE  LET q == CapturePtt(r, code, d)
         IN /\ q \in RawOpen
            /\ q.mods = r.mods /\ q.src = r.src
            /\ \A s \in Slot : q.down[s] => r.down[s]
            /\ Settles(q.emits, a, q.src.emitted)
<1> DEFINE m == Ev("ptt-bound", r.cap)
           B == [r.bind EXCEPT ![r.cap] = BuildCombo(code, r.mods)]
           D == [r.down EXCEPT ![r.cap] = FALSE]
           E == Append(r.emits, m)
           q == [r EXCEPT !.cap = -1, !.down = D, !.bind = B, !.emits = E]
<1>1. CASE d /\ ModOf(code) = {}
  <2>1. CapturePtt(r, code, d) = q
    BY <1>1 DEF CapturePtt, RawOpen
  <2>2. r.cap \in Slot
    BY DEF RawOpen
  <2>3. BuildCombo(code, r.mods) \in Binding
    BY <1>1 DEF BuildCombo, Binding, Code, ModOf, RawOpen
  <2>4. B \in [Slot -> Binding \cup {Unbound}]
    BY <2>2, <2>3 DEF RawOpen
  <2>5. D \in [Slot -> BOOLEAN] /\ \A s \in Slot : D[s] => r.down[s]
    BY <2>2 DEF RawOpen
  <2>6. m \in Msg /\ m.t # "ptt"
    BY <2>2 DEF Msg, Ev
  <2> HIDE DEF B, D, m
  <2>7. E = r.emits \o <<m>> /\ E \in Seq(Msg) /\ <<m>> \in Seq(Msg) /\ r.emits \in Seq(Msg)
    BY <2>6 DEF RawOpen
  <2>8. Settles(E, a, r.src.emitted)
    BY <2>6, <2>7, SettlesOne, SettlesConcat
  <2> HIDE DEF E
  <2>9. /\ q \in RawOpen /\ q.mods = r.mods /\ q.down = D /\ q.src = r.src /\ q.emits = E
    BY <2>4, <2>5, <2>7 DEF RawOpen
  <2> HIDE DEF q
  <2> QED
    BY <2>1, <2>5, <2>8, <2>9
<1>2. CASE ~(d /\ ModOf(code) = {})
  <2>1. CapturePtt(r, code, d) = r
    BY <1>2 DEF CapturePtt
  <2> QED
    BY <2>1
<1> QED
  BY <1>1, <1>2

LEMMA CaptureChanFacts ==
  ASSUME NEW r \in RawOpen, NEW code \in Code, NEW d \in BOOLEAN, NEW a, r.ccap # -1,
         Settles(r.emits, a, r.src.emitted)
  PROVE  LET q == CaptureChan(r, code, d)
         IN /\ q \in RawOpen
            /\ q.mods = r.mods /\ q.src = r.src /\ q.bind = r.bind
            /\ q.down = r.down
            /\ Settles(q.emits, a, q.src.emitted)
<1> DEFINE m == Ev("chan-bound", r.ccap)
           B == [r.cbind EXCEPT ![r.ccap] = BuildCombo(code, r.mods)]
           D == [r.cdown EXCEPT ![r.ccap] = FALSE]
           E == Append(r.emits, m)
           y == AnyBound(B)
           q == [r EXCEPT !.ccap = -1, !.cdown = D, !.cbind = B, !.any = y, !.emits = E]
<1>1. CASE d /\ ModOf(code) = {}
  <2>1. CaptureChan(r, code, d) = q
    BY <1>1 DEF CaptureChan, RawOpen
  <2>2. r.ccap \in Slot
    BY DEF RawOpen
  <2>3. BuildCombo(code, r.mods) \in Binding
    BY <1>1 DEF BuildCombo, Binding, Code, ModOf, RawOpen
  <2>4. B \in [Slot -> Binding \cup {Unbound}]
    BY <2>2, <2>3 DEF RawOpen
  <2>5. D \in [Slot -> BOOLEAN]
    BY <2>2 DEF RawOpen
  <2>6. m \in Msg /\ m.t # "ptt"
    BY <2>2 DEF Msg, Ev
  <2>y. y \in BOOLEAN
    BY DEF AnyBound
  <2> HIDE DEF B, D, m, y
  <2>7. E = r.emits \o <<m>> /\ E \in Seq(Msg) /\ <<m>> \in Seq(Msg) /\ r.emits \in Seq(Msg)
    BY <2>6 DEF RawOpen
  <2>8. Settles(E, a, r.src.emitted)
    BY <2>6, <2>7, SettlesOne, SettlesConcat
  <2> HIDE DEF E
  <2>9. /\ q \in RawOpen /\ q.mods = r.mods /\ q.bind = r.bind /\ q.down = r.down
        /\ q.src = r.src /\ q.emits = E
    BY <2>4, <2>5, <2>7, <2>y DEF RawOpen
  <2> HIDE DEF q
  <2> QED
    BY <2>1, <2>8, <2>9
<1>2. CASE ~(d /\ ModOf(code) = {})
  <2>1. CaptureChan(r, code, d) = r
    BY <1>2 DEF CaptureChan
  <2> QED
    BY <2>1
<1> QED
  BY <1>1, <1>2

After(L, code, d) == IF d THEN L \cup {code} ELSE L \ {code}

\* One edge: what is believed down is down, sources stay merged, and the
\* events say what became of them.
LEMMA HandleRawFacts ==
  ASSUME NEW r0 \in RawOpen, NEW code \in Code, NEW d \in BOOLEAN, NEW L, NEW a,
         Merged(r0.src), Settles(r0.emits, a, r0.src.emitted)
  PROVE  LET q == HandleRaw(r0, Edge(code, d))
         IN /\ q \in RawOpen
            /\ q.src.ctl = r0.src.ctl
            /\ Merged(q.src) /\ Settles(q.emits, a, q.src.emitted)
            /\ Track(r0, L) => Track(q, After(L, code, d))
<1> DEFINE M == IF d THEN r0.mods \cup ModOf(code) ELSE r0.mods \ ModOf(code)
           r == [r0 EXCEPT !.mods = M]
           q == HandleRaw(r0, Edge(code, d))
           L2 == After(L, code, d)
<1>1. q = IF r.cap >= 0 THEN CapturePtt(r, code, d)
          ELSE IF r.ccap >= 0 THEN CaptureChan(r, code, d)
          ELSE MatchChan(MatchPtt(r, code, d), code, d)
  BY DEF HandleRaw, Edge
<1>2. M \in SUBSET {"Shift"}
  BY DEF RawOpen, ModOf
<1>3. ASSUME Track(r0, L) PROVE M # {} => "ShiftLeft" \in L2
  <2>1. r0.mods # {} => "ShiftLeft" \in L
    BY <1>3 DEF Track
  <2>2. ModOf(code) = IF code = "ShiftLeft" THEN {"Shift"} ELSE {}
    BY DEF ModOf
  <2>3. r0.mods \in SUBSET {"Shift"}
    BY DEF RawOpen
  <2>4. CASE d
    BY <2>1, <2>2, <2>3, <2>4 DEF After
  <2>5. CASE ~d
    BY <2>1, <2>2, <2>3, <2>5 DEF After
  <2> QED
    BY <2>4, <2>5
<1> HIDE DEF M
<1>4. /\ r \in RawOpen /\ r.mods = M /\ r.src = r0.src /\ r.emits = r0.emits
      /\ r.bind = r0.bind /\ r.down = r0.down /\ r.cap = r0.cap /\ r.ccap = r0.ccap
  BY <1>2 DEF RawOpen
<1> HIDE DEF r, q, L2
<1>5. /\ r.cap \in {-1, 0, 1} /\ r.ccap \in {-1, 0, 1}
      /\ r.down \in [Slot -> BOOLEAN] /\ r.src.key \in BOOLEAN
  BY <1>4 DEF RawOpen, Slot, Sources
<1>6. Settles(r.emits, a, r.src.emitted) /\ Merged(r.src)
  BY <1>4
<1>7. CASE r.cap # -1
  <2>1. q = CapturePtt(r, code, d)
    BY <1>1, <1>5, <1>7
  <2>2. /\ q \in RawOpen
        /\ q.mods = r.mods /\ q.src = r.src
        /\ \A s \in Slot : q.down[s] => r.down[s]
        /\ Settles(q.emits, a, q.src.emitted)
    BY <1>4, <1>6, <1>7, <2>1, CapturePttFacts
  <2>3. ASSUME Track(r0, L) PROVE Track(q, L2)
    <3>1. ~r.src.key /\ \A s \in Slot : ~r.down[s]
      BY <1>4, <1>7, <2>3 DEF Track
    <3>2. ~q.src.key /\ \A s \in Slot : ~q.down[s]
      BY <2>2, <3>1
    <3>3. q.mods # {} => "ShiftLeft" \in L2
      BY <1>3, <1>4, <2>2, <2>3
    <3> QED
      BY <3>2, <3>3 DEF Track
  <2> QED
    BY <1>4, <1>6, <2>2, <2>3 DEF q, L2
<1>8. CASE r.cap = -1 /\ r.ccap # -1
  <2>1. q = CaptureChan(r, code, d)
    BY <1>1, <1>5, <1>8
  <2>2. /\ q \in RawOpen
        /\ q.mods = r.mods /\ q.src = r.src /\ q.bind = r.bind
        /\ q.down = r.down
        /\ Settles(q.emits, a, q.src.emitted)
    BY <1>4, <1>6, <1>8, <2>1, CaptureChanFacts
  <2>3. ASSUME Track(r0, L) PROVE Track(q, L2)
    <3>1. ~r.src.key /\ \A s \in Slot : ~r.down[s]
      BY <1>4, <1>8, <2>3 DEF Track
    <3>2. ~q.src.key /\ \A s \in Slot : ~q.down[s]
      BY <2>2, <3>1
    <3>3. q.mods # {} => "ShiftLeft" \in L2
      BY <1>3, <1>4, <2>2, <2>3
    <3> QED
      BY <3>2, <3>3 DEF Track
  <2> QED
    BY <1>4, <1>6, <2>2, <2>3 DEF q, L2
<1>9. CASE r.cap = -1 /\ r.ccap = -1
  <2> DEFINE p == MatchPtt(r, code, d)
  <2>1. q = MatchChan(p, code, d)
    BY <1>1, <1>5, <1>9
  <2>2. /\ p \in RawOpen
        /\ p.bind = r.bind /\ p.mods = r.mods /\ p.cap = r.cap /\ p.ccap = r.ccap
        /\ p.down = [s \in Slot |-> IF r.bind[s].base = code THEN d ELSE r.down[s]]
        /\ p.src.key <=> \E s \in Slot :
                r.bind[s] # Unbound /\ p.down[s] /\ r.bind[s].mods \subseteq r.mods
        /\ p.src.ctl = r.src.ctl
        /\ Merged(p.src) /\ Settles(p.emits, a, p.src.emitted)
    BY <1>4, <1>6, MatchPttFacts
  <2> HIDE DEF p
  <2>3. /\ q \in RawOpen
        /\ q.bind = p.bind /\ q.mods = p.mods /\ q.cap = p.cap /\ q.ccap = p.ccap
        /\ q.down = p.down /\ q.src = p.src
        /\ Settles(q.emits, a, q.src.emitted)
    BY <2>1, <2>2, MatchChanFacts
  <2>4. ASSUME Track(r0, L) PROVE Track(q, L2)
    <3>1. \A s \in Slot : r.down[s] => r.bind[s].base \in L
      BY <1>4, <2>4 DEF Track
    <3>2. M # {} => "ShiftLeft" \in L2
      BY <1>3, <2>4
    <3>3. ASSUME NEW s \in Slot, p.down[s] PROVE r.bind[s].base \in L2
      <4>1. CASE r.bind[s].base = code
        <5>1. d
          BY <2>2, <3>3, <4>1
        <5> QED
          BY <4>1, <5>1 DEF L2, After
      <4>2. CASE r.bind[s].base # code
        <5>1. r.bind[s].base \in L
          BY <2>2, <3>1, <3>3, <4>2
        <5> QED
          BY <4>2, <5>1 DEF L2, After
      <4> QED
        BY <4>1, <4>2
    <3>4. ASSUME p.src.key PROVE \E s \in Slot : ChordIn(r.bind[s], L2)
      <4>1. PICK s \in Slot : r.bind[s] # Unbound /\ p.down[s] /\ r.bind[s].mods \subseteq r.mods
        BY <2>2, <3>4
      <4>2. r.bind[s].base \in L2
        BY <3>3, <4>1
      <4>3. r.bind[s].mods # {} => "ShiftLeft" \in L2
        BY <1>4, <3>2, <4>1
      <4> QED
        BY <4>1, <4>2, <4>3 DEF ChordIn
    <3>5. q.mods # {} => "ShiftLeft" \in L2
      BY <1>4, <2>2, <2>3, <3>2
    <3>6. q.cap = -1 /\ q.ccap = -1
      BY <1>9, <2>2, <2>3
    <3>7. \A s \in Slot : q.down[s] => q.bind[s].base \in L2
      BY <2>2, <2>3, <3>3
    <3>8. q.src.key => \E s \in Slot : ChordIn(q.bind[s], L2)
      BY <2>2, <2>3, <3>4
    <3> QED
      BY <3>5, <3>6, <3>7, <3>8 DEF Track
  <2> QED
    BY <1>4, <2>2, <2>3, <2>4 DEF q, L2
<1> QED
  BY <1>5, <1>7, <1>8, <1>9

\* Of more labels everything believed of fewer still holds.
LEMMA TrackMore ==
  ASSUME NEW r, NEW L, NEW M, Track(r, L), L \subseteq M
  PROVE  Track(r, M)
<1>1. ASSUME NEW b, ChordIn(b, L) PROVE ChordIn(b, M)
  BY <1>1 DEF ChordIn
<1> QED
  BY <1>1 DEF Track

Snap == [known : BOOLEAN, muted : BOOLEAN, tx : BOOLEAN]
Webview == [muted : BOOLEAN, latched : BOOLEAN, recent : BOOLEAN, screen : BOOLEAN,
            timer : BOOLEAN, shown : Snap]
Controller == [st : {"off", "auth", "hello", "in"}, tries : 0 .. MAX_AUTH_TRIES,
               seen : Snap, hold : BOOLEAN]

PttTyped ==
  /\ held \subseteq Input
  /\ pads \in [Device -> SUBSET Device]
  /\ raw \in Raw
  /\ rebind = <<>> \/ \E s \in Slot, b \in Binding \cup {Unbound} : rebind = <<[slot |-> s, to |-> b]>>
  /\ rebound \in BOOLEAN /\ tx \in BOOLEAN
  /\ wv \in Webview
  /\ bus \in Seq(Msg) /\ out \in Seq(Msg)
  /\ conn \in [Client -> Controller]
  /\ srv \in [up : BOOLEAN, state : Snap]

TriesEnd == \A c \in Client : conn[c].tries = MAX_AUTH_TRIES => conn[c].st = "off"

\* The inductive invariant; the care of the users is needed for the keys alone.
PttInv ==
  /\ PttTyped /\ PadsAreRead /\ TriesEnd
  /\ Careful => KeysFollow
  /\ SourcesMerged /\ WebviewFollows /\ MutedIsSilent
  /\ SnapshotUnderWay /\ NobodyBeforeStart

LEMMA PttInitOk == PttInit => PttInv
<1> SUFFICES ASSUME PttInit PROVE PttInv
  OBVIOUS
<1> USE DEF PttInit
<1>0. MAX_AUTH_TRIES \in Nat \ {0}
  BY PttConstants
<1>1. NoSnapshot \in Snap
  BY DEF NoSnapshot, Snap
<1>2. NoConn \in Controller /\ NoConn.st = "off" /\ NoConn.tries = 0
  BY <1>0, <1>1 DEF NoConn, Controller
<1>3. raw \in Raw
  <2>1. NoSources \in [key : BOOLEAN, ctl : BOOLEAN, emitted : BOOLEAN]
    BY DEF NoSources
  <2>2. BuildCombo("F8", {}) \in Binding
    BY DEF BuildCombo, Binding
  <2> QED
    BY <2>1, <2>2 DEF Raw, Slot
<1>4. PttTyped
  <2>1. held \subseteq Input /\ pads \in [Device -> SUBSET Device]
    OBVIOUS
  <2>2. rebind = <<>> /\ rebound \in BOOLEAN /\ tx \in BOOLEAN
    OBVIOUS
  <2>3. wv \in Webview
    BY <1>1 DEF Webview
  <2>4. bus \in Seq(Msg) /\ out \in Seq(Msg)
    OBVIOUS
  <2>5. conn \in [Client -> Controller]
    BY <1>2
  <2>6. srv \in [up : BOOLEAN, state : Snap]
    BY <1>1
  <2> QED
    BY <1>3, <2>1, <2>2, <2>3, <2>4, <2>5, <2>6 DEF PttTyped
<1>5. PadsAreRead /\ TriesEnd
  BY <1>0, <1>2 DEF PadsAreRead, TriesEnd
<1>6. raw.src = NoSources /\ raw.mods = {} /\ raw.cap = -1 /\ raw.ccap = -1 /\ \A s \in Slot : ~raw.down[s]
  OBVIOUS
<1>7. KeysFollow
  <2>1. Track(raw, LabelsOf(held))
    BY <1>6 DEF Track, NoSources
  <2>2. Settles(out, raw.src.ctl, FALSE)
    BY <1>6, SettlesNone DEF NoSources
  <2> QED
    BY <2>1, <2>2 DEF KeysFollow
<1>8. SourcesMerged /\ MutedIsSilent
  BY <1>6 DEF SourcesMerged, MutedIsSilent, NoSources
<1>9. WebviewFollows
  <2>1. Settles(bus, FALSE, raw.src.emitted)
    BY <1>6, SettlesNone DEF NoSources
  <2> QED
    BY <2>1 DEF WebviewFollows
<1>10. SnapshotUnderWay /\ NobodyBeforeStart
  BY <1>2 DEF SnapshotUnderWay, NobodyBeforeStart
<1> QED
  BY <1>4, <1>5, <1>7, <1>8, <1>9, <1>10 DEF PttInv

LEMMA RawIsOpen ==
  ASSUME raw \in Raw
  PROVE  raw \in RawOpen /\ raw.emits = <<>> /\ Settles(raw.emits, raw.src.emitted, raw.src.emitted)
<1>1. raw.emits = <<>>
  BY DEF Raw
<1>2. <<>> \in Seq(Msg)
  OBVIOUS
<1>3. raw \in RawOpen
  BY <1>1, <1>2 DEF Raw, RawOpen, Sources
<1> QED
  BY <1>1, <1>3, SettlesNone

LEMMA InputFacts ==
  /\ \A p \in Input : Label(p) \in Code
  /\ "Mouse:WheelUp" \in Code
BY DEF Input, KeyName, Device, Label, Code

\* What a packet does, for whatever its edges made of the state.
LEMMA PacketStep ==
  ASSUME PttInv, NEW r \in RawOpen, Packet(r),
         r.src.ctl = raw.src.ctl, Merged(r.src), Settles(r.emits, raw.src.emitted, r.src.emitted),
         Track(raw, LabelsOf(held)) => Track(r, LabelsOf(held')),
         held' \subseteq Input, pads' \in [Device -> SUBSET Device], PadsAreRead'
  PROVE  PttInv'
<1> USE DEF Packet
<1>0. PttTyped
  BY DEF PttInv
<1>1. r.emits \in Seq(Msg)
  BY DEF RawOpen
<1>2. /\ raw' \in Raw /\ raw'.src = r.src /\ raw'.bind = r.bind /\ raw'.down = r.down
      /\ raw'.mods = r.mods /\ raw'.cap = r.cap /\ raw'.ccap = r.ccap
  BY DEF Raw, RawOpen, Sources
<1>3. bus' \in Seq(Msg)
  BY <1>0, <1>1 DEF PttTyped
<1>4. PttTyped'
  BY <1>0, <1>2, <1>3 DEF PttTyped
<1>5. Careful => KeysFollow'
  <2> HAVE Careful
  <2>1. KeysFollow /\ rebind = <<>> /\ rebind' = <<>>
    BY DEF PttInv
  <2>2. Track(raw', LabelsOf(held'))
    BY <1>2, <2>1 DEF KeysFollow, Track
  <2>3. LabelsOf(held') = LabelsOf(held)'
    BY DEF LabelsOf
  <2>4. PICK w \in BOOLEAN : Settles(out, raw.src.ctl, w) /\ (w => SomebodyHolds)
    BY <2>1 DEF KeysFollow
  <2>5. Settles(out', raw'.src.ctl, w) /\ (w => SomebodyHolds')
    BY <1>2, <2>4 DEF SomebodyHolds
  <2> QED
    BY <2>1, <2>2, <2>3, <2>5 DEF KeysFollow
<1>6. SourcesMerged'
  BY <1>2 DEF SourcesMerged, Merged
<1>7. WebviewFollows'
  <2>1. PICK h \in BOOLEAN : Settles(bus, h, raw.src.emitted) /\ (tx => h \/ wv.screen \/ wv.latched)
    BY DEF PttInv, WebviewFollows
  <2>2. Settles(bus \o r.emits, h, r.src.emitted)
    BY <1>0, <1>1, <2>1, SettlesConcat DEF PttTyped
  <2> QED
    BY <1>2, <2>1, <2>2 DEF WebviewFollows
<1>8. SnapshotUnderWay'
  <2>1. Waiting(bus, "ctl-refresh") => Waiting(bus', "ctl-refresh")
    BY <1>0, <1>1, WaitingConcat DEF PttTyped
  <2> QED
    BY <2>1 DEF PttInv, SnapshotUnderWay
<1>9. TriesEnd' /\ MutedIsSilent' /\ NobodyBeforeStart'
  BY DEF PttInv, TriesEnd, MutedIsSilent, NobodyBeforeStart
<1> QED
  BY <1>4, <1>5, <1>6, <1>7, <1>8, <1>9 DEF PttInv

\* The packets of the three kinds of device.
LEMMA KeyPacketOk ==
  ASSUME PttInv, NEW k \in KeyName, NEW d \in BOOLEAN, KeyPacket(k, d)
  PROVE  PttInv'
<1> DEFINE r == HandleRaw(raw, Edge(Label(k), d))
<1>1. raw \in Raw /\ Label(k) \in Code /\ k \in Input /\ held \subseteq Input /\ Merged(raw.src)
  BY InputFacts DEF PttInv, PttTyped, Input, SourcesMerged, Merged
<1>2. /\ r \in RawOpen /\ r.src.ctl = raw.src.ctl /\ Merged(r.src)
      /\ Settles(r.emits, raw.src.emitted, r.src.emitted)
      /\ Track(raw, LabelsOf(held)) => Track(r, After(LabelsOf(held), Label(k), d))
  BY <1>1, RawIsOpen, HandleRawFacts
<1>3. held' = (IF d THEN held \cup {k} ELSE held \ {k}) /\ pads' = pads /\ Packet(r)
  BY DEF KeyPacket
<1> HIDE DEF r
<1>4. After(LabelsOf(held), Label(k), d) \subseteq LabelsOf(held')
  BY <1>3 DEF After, LabelsOf
<1>5. Track(raw, LabelsOf(held)) => Track(r, LabelsOf(held'))
  BY <1>2, <1>4, TrackMore
<1>6. held' \subseteq Input
  BY <1>1, <1>3
<1>7. pads' \in [Device -> SUBSET Device] /\ PadsAreRead'
  <2>1. k \notin Device
    BY DEF KeyName, Device
  <2> QED
    BY <1>3, <2>1 DEF PttInv, PttTyped, PadsAreRead
<1> QED
  BY <1>2, <1>3, <1>5, <1>6, <1>7, PacketStep

\* The press of a wheel is over with the packet.
LEMMA WheelPacketOk ==
  ASSUME PttInv, WheelPacket
  PROVE  PttInv'
<1> DEFINE w == "Mouse:WheelUp"
           q == HandleRaw(raw, Edge(w, TRUE))
           r == HandleRaw(q, Edge(w, FALSE))
           L == LabelsOf(held)
<1>1. raw \in Raw /\ w \in Code /\ Merged(raw.src)
  BY InputFacts DEF PttInv, PttTyped, SourcesMerged, Merged
<1>2. /\ q \in RawOpen /\ q.src.ctl = raw.src.ctl /\ Merged(q.src)
      /\ Settles(q.emits, raw.src.emitted, q.src.emitted)
      /\ Track(raw, L) => Track(q, After(L, w, TRUE))
  BY <1>1, RawIsOpen, HandleRawFacts
<1>3. Packet(r) /\ held' = held /\ pads' = pads
  BY DEF WheelPacket
<1> HIDE DEF q
<1>4. /\ r \in RawOpen /\ r.src.ctl = q.src.ctl /\ Merged(r.src)
      /\ Settles(r.emits, raw.src.emitted, r.src.emitted)
      /\ Track(q, After(L, w, TRUE)) => Track(r, After(After(L, w, TRUE), w, FALSE))
  BY <1>1, <1>2, HandleRawFacts
<1> HIDE DEF r
<1>5. After(After(L, w, TRUE), w, FALSE) \subseteq L /\ L = LabelsOf(held')
  BY <1>3 DEF After
<1>6. Track(raw, LabelsOf(held)) => Track(r, LabelsOf(held'))
  <2> SUFFICES ASSUME Track(raw, L) PROVE Track(r, LabelsOf(held'))
    OBVIOUS
  <2>1. Track(r, After(After(L, w, TRUE), w, FALSE))
    BY <1>2, <1>4
  <2> HIDE DEF L, w
  <2> QED
    BY <1>5, <2>1, TrackMore
<1>7. held' \subseteq Input /\ pads' \in [Device -> SUBSET Device] /\ PadsAreRead'
  BY <1>3 DEF PttInv, PttTyped, PadsAreRead
<1>8. r.src.ctl = raw.src.ctl
  BY <1>2, <1>4
<1> QED
  BY <1>3, <1>4, <1>6, <1>7, <1>8, PacketStep

\* A report differs from the last one in the button that moved.
LEMMA PadReportOk ==
  ASSUME PttInv, NEW p \in Device, PadReport(p)
  PROVE  PttInv'
<1> DEFINE d == p \in held'
           r == IF pads[p] # pads'[p] THEN HandleRaw(raw, Edge(Label(p), d)) ELSE raw
           L == LabelsOf(held)
<1>1. raw \in Raw /\ Label(p) \in Code /\ p \in Input /\ held \subseteq Input /\ Merged(raw.src)
  BY InputFacts DEF PttInv, PttTyped, Input, SourcesMerged, Merged
<1>2. /\ held' = (IF p \in held THEN held \ {p} ELSE held \cup {p})
      /\ pads' = [pads EXCEPT ![p] = {p} \cap held']
      /\ Packet(r)
  BY DEF PadReport
<1>3. pads' \in [Device -> SUBSET Device]
  BY <1>2 DEF PttInv, PttTyped
<1>4. PadsAreRead'
  BY <1>2 DEF PttInv, PttTyped, PadsAreRead
<1>5. pads[p] # pads'[p]
  BY <1>2, <1>4 DEF PttInv, PadsAreRead
<1>6. d \in BOOLEAN /\ (d <=> p \in held')
  OBVIOUS
<1>7. Packet(HandleRaw(raw, Edge(Label(p), d)))
  BY <1>2, <1>5
<1> HIDE DEF d, r
<1> DEFINE q == HandleRaw(raw, Edge(Label(p), d))
<1>8. /\ q \in RawOpen /\ q.src.ctl = raw.src.ctl /\ Merged(q.src)
      /\ Settles(q.emits, raw.src.emitted, q.src.emitted)
      /\ Track(raw, L) => Track(q, After(L, Label(p), d))
  BY <1>1, <1>6, RawIsOpen, HandleRawFacts
<1> HIDE DEF q
<1>9. After(L, Label(p), d) \subseteq LabelsOf(held')
  BY <1>2, <1>6 DEF After, LabelsOf
<1>10. Track(raw, LabelsOf(held)) => Track(q, LabelsOf(held'))
  BY <1>8, <1>9, TrackMore
<1>11. held' \subseteq Input
  BY <1>1, <1>2
<1>12. Packet(q)
  BY <1>7 DEF q
<1> QED
  BY <1>3, <1>4, <1>8, <1>10, <1>11, <1>12, PacketStep

\* A command of the webview that touches bindings, slots or captures, and
\* neither sources nor events.
LEMMA BindingStep ==
  ASSUME PttInv, raw' \in Raw, raw'.src = raw.src,
         Careful => (Track(raw, LabelsOf(held)) => Track(raw', LabelsOf(held))),
         Careful => (rebind' # <<>> => held = {}),
         rebind' = <<>> \/ \E s \in Slot, b \in Binding \cup {Unbound} : rebind' = <<[slot |-> s, to |-> b]>>,
         rebound' \in BOOLEAN,
         UNCHANGED <<held, pads, wv, tx, bus, out, conn, srv>>
  PROVE  PttInv'
<1>1. PttTyped'
  BY DEF PttInv, PttTyped
<1>2. Careful => KeysFollow'
  <2> HAVE Careful
  <2>1. Track(raw', LabelsOf(held))
    BY DEF PttInv, KeysFollow
  <2>2. LabelsOf(held) = LabelsOf(held)'
    BY DEF LabelsOf
  <2>3. Track(raw, LabelsOf(held))'
    BY <2>1, <2>2 DEF Track
  <2>4. PICK w \in BOOLEAN : Settles(out, raw.src.ctl, w) /\ (w => SomebodyHolds)
    BY DEF PttInv, KeysFollow
  <2>5. Settles(out', raw'.src.ctl, w) /\ (w => SomebodyHolds')
    BY <2>4 DEF SomebodyHolds
  <2> QED
    BY <2>3, <2>5 DEF KeysFollow
<1>3. SourcesMerged' /\ MutedIsSilent' /\ NobodyBeforeStart' /\ TriesEnd' /\ PadsAreRead'
  BY DEF PttInv, SourcesMerged, MutedIsSilent, NobodyBeforeStart, TriesEnd, PadsAreRead
<1>4. WebviewFollows'
  <2>1. PICK h \in BOOLEAN : Settles(bus, h, raw.src.emitted) /\ (tx => h \/ wv.screen \/ wv.latched)
    BY DEF PttInv, WebviewFollows
  <2>2. Settles(bus', h, raw'.src.emitted) /\ (tx' => h \/ wv'.screen \/ wv'.latched)
    BY <2>1
  <2> QED
    BY <2>2 DEF WebviewFollows
<1>5. SnapshotUnderWay'
  BY DEF PttInv, SnapshotUnderWay, Waiting
<1> QED
  BY <1>1, <1>2, <1>3, <1>4, <1>5 DEF PttInv

\* With no key down nothing is believed down.
LEMMA NoneDown ==
  ASSUME NEW r, Track(r, {})
  PROVE  /\ \A s \in Slot : ~r.down[s]
         /\ r.mods = {} /\ ~r.src.key
<1>1. \A b : ~ChordIn(b, {})
  BY DEF ChordIn
<1> QED
  BY <1>1 DEF Track

LEMMA NobodyDown ==
  ASSUME Careful, PttInv, held = {}
  PROVE  /\ LabelsOf(held) = {}
         /\ \A s \in Slot : ~raw.down[s]
         /\ raw.mods = {} /\ ~raw.src.key
<1>1. LabelsOf(held) = {}
  BY DEF LabelsOf
<1>2. Track(raw, {})
  BY <1>1 DEF PttInv, KeysFollow
<1> QED
  BY <1>1, <1>2, NoneDown

LEMMA AllUp ==
  ASSUME NEW r, NEW L, \A s \in Slot : ~r.down[s], r.mods = {}, ~r.src.key
  PROVE  Track(r, L)
BY DEF Track

\* Bindings and captures, with no key down.
LEMMA BindingsOk ==
  ASSUME PttInv,
         \/ RebindStore
         \/ \E s \in Slot, b \in Binding \cup {Unbound} : RebindClear(s, b) \/ SetChanBinding(s, b)
         \/ \E s \in Slot : StartCapture(s)
  PROVE  PttInv'
<1>0. raw \in Raw /\ raw.down \in [Slot -> BOOLEAN] /\ raw.cdown \in [Slot -> BOOLEAN]
  BY DEF PttInv, PttTyped, Raw
<1>k. Careful /\ rebind # <<>> => held = {}
  BY DEF PttInv, KeysFollow
<1>1. ASSUME RebindStore PROVE PttInv'
  <2> USE <1>1 DEF RebindStore
  <2>1. PICK s \in Slot, b \in Binding \cup {Unbound} : rebind = <<[slot |-> s, to |-> b]>>
    BY DEF PttInv, PttTyped
  <2>2. raw' = [raw EXCEPT !.bind[s] = b]
    BY <2>1
  <2>3. /\ raw' \in Raw /\ raw'.src = raw.src /\ raw'.down = raw.down /\ raw'.mods = raw.mods
    <3> DEFINE B == [raw.bind EXCEPT ![s] = b]
    <3>1. B \in [Slot -> Binding \cup {Unbound}]
      BY <1>0 DEF Raw
    <3>2. raw' = [raw EXCEPT !.bind = B]
      BY <2>2
    <3> HIDE DEF B
    <3> QED
      BY <1>0, <3>1, <3>2 DEF Raw
  <2>4. Careful => Track(raw', LabelsOf(held))
    BY <1>k, <2>3, NobodyDown, AllUp
  <2> QED
    BY <2>3, <2>4, BindingStep
<1>2. ASSUME NEW s \in Slot, NEW b \in Binding \cup {Unbound}, RebindClear(s, b) PROVE PttInv'
  <2> USE <1>2 DEF RebindClear, HandsOff
  <2> DEFINE D == [raw.down EXCEPT ![s] = FALSE]
  <2>1. D \in [Slot -> BOOLEAN] /\ \A x \in Slot : D[x] => raw.down[x]
    BY <1>0
  <2>2. raw' = [raw EXCEPT !.down = D]
    OBVIOUS
  <2> HIDE DEF D
  <2>3. /\ raw' \in Raw /\ raw'.src = raw.src /\ raw'.down = D /\ raw'.mods = raw.mods
    BY <1>0, <2>1, <2>2 DEF Raw
  <2>4. Careful => Track(raw', LabelsOf(held))
    BY <2>1, <2>3, NobodyDown, AllUp
  <2> QED
    BY <2>3, <2>4, BindingStep DEF PttInv, PttTyped
<1>3. ASSUME NEW s \in Slot, NEW b \in Binding \cup {Unbound}, SetChanBinding(s, b) PROVE PttInv'
  <2> USE <1>3 DEF SetChanBinding, HandsOff
  <2> DEFINE D == [raw.cdown EXCEPT ![s] = FALSE]
             B == [raw.cbind EXCEPT ![s] = b]
             y == AnyBound(B)
  <2>1. D \in [Slot -> BOOLEAN] /\ B \in [Slot -> Binding \cup {Unbound}] /\ y \in BOOLEAN
    BY <1>0 DEF AnyBound, Raw
  <2>2. raw' = [raw EXCEPT !.cdown = D, !.cbind = B, !.any = y]
    OBVIOUS
  <2> HIDE DEF D, B, y
  <2>3. /\ raw' \in Raw /\ raw'.src = raw.src /\ raw'.down = raw.down /\ raw'.mods = raw.mods
    BY <1>0, <2>1, <2>2 DEF Raw
  <2>4. Careful => Track(raw', LabelsOf(held))
    BY <2>3, NobodyDown, AllUp
  <2>5. /\ rebind' = rebind /\ rebound' = rebound
    OBVIOUS
  <2> QED
    BY <1>k, <2>3, <2>4, <2>5, BindingStep DEF PttInv, PttTyped
<1>4. ASSUME NEW s \in Slot, StartCapture(s) PROVE PttInv'
  <2> USE <1>4 DEF StartCapture, HandsOff
  <2>3. /\ raw' \in Raw /\ raw'.src = raw.src /\ raw'.down = raw.down /\ raw'.mods = raw.mods
    BY <1>0 DEF Raw
  <2>4. Careful => Track(raw', LabelsOf(held))
    BY <2>3, NobodyDown, AllUp
  <2>5. /\ rebind' = rebind /\ rebound' = rebound
    OBVIOUS
  <2> QED
    BY <1>k, <2>3, <2>4, <2>5, BindingStep DEF PttInv, PttTyped
<1> QED
  BY <1>1, <1>2, <1>3, <1>4

\* A step of the webview: it reads an event or hears the user.
LEMMA WebviewStep ==
  ASSUME PttInv, UNCHANGED <<held, pads, raw, rebind, rebound, out, conn, srv>>,
         wv' \in Webview, tx' \in BOOLEAN, wv'.shown = wv.shown, MutedIsSilent',
         bus' \in Seq(Msg), Waiting(bus, "ctl-refresh") => Waiting(bus', "ctl-refresh"),
         WebviewFollows'
  PROVE  PttInv'
<1>1. PttTyped'
  BY DEF PttInv, PttTyped
<1>2. Careful => KeysFollow'
  <2> HAVE Careful
  <2>1. Track(raw, LabelsOf(held))'
    BY DEF PttInv, KeysFollow, Track, LabelsOf, ChordIn
  <2>4. PICK w \in BOOLEAN : Settles(out, raw.src.ctl, w) /\ (w => SomebodyHolds)
    BY DEF PttInv, KeysFollow
  <2>5. Settles(out', raw'.src.ctl, w) /\ (w => SomebodyHolds')
    BY <2>4 DEF SomebodyHolds
  <2> QED
    BY <2>1, <2>5 DEF PttInv, KeysFollow
<1>3. SourcesMerged' /\ NobodyBeforeStart' /\ TriesEnd' /\ PadsAreRead'
  BY DEF PttInv, SourcesMerged, NobodyBeforeStart, TriesEnd, PadsAreRead
<1>4. SnapshotUnderWay'
  <2>1. Waiting(out, "refresh") => Waiting(out', "refresh")
    OBVIOUS
  <2> QED
    BY <2>1 DEF PttInv, SnapshotUnderWay
<1> QED
  BY <1>1, <1>2, <1>3, <1>4 DEF PttInv

\* Taking an event that is no "ptt" leaves what the webview will hear.
LEMMA TakeOther ==
  ASSUME PttInv, NEW t \in {"ctl", "chan-cycle", "ptt-bound", "chan-bound", "ctl-refresh"}, Next1(t)
  PROVE  /\ bus' \in Seq(Msg) /\ bus \in Seq(Msg)
         /\ \A h : Settles(bus, h, raw.src.emitted) => Settles(bus', h, raw.src.emitted)
         /\ t # "ctl-refresh" => (Waiting(bus, "ctl-refresh") => Waiting(bus', "ctl-refresh"))
<1>1. bus \in Seq(Msg) /\ bus # <<>> /\ Head(bus).t = t /\ bus' = Tail(bus) /\ Head(bus).t # "ptt"
  BY DEF PttInv, PttTyped, Next1
<1>2. bus' \in Seq(Msg)
  BY <1>1
<1> QED
  BY <1>1, <1>2, SettlesTail, WaitingTail

\* The "ptt" listener: the source it heard of, or a latch, or silence.
LEMMA WvPttOk ==
  ASSUME PttInv, WvPtt
  PROVE  PttInv'
<1> USE DEF WvPtt
<1>1. bus \in Seq(Msg) /\ bus # <<>> /\ Head(bus).t = "ptt" /\ bus' = Tail(bus)
  BY DEF PttInv, PttTyped, Next1
<1>2. wv \in Webview /\ tx \in BOOLEAN /\ Head(bus).v \in BOOLEAN /\ bus' \in Seq(Msg)
  <2>1. Head(bus) \in Msg
    BY <1>1
  <2>2. Head(bus).v \in BOOLEAN
    BY <1>1, <2>1 DEF Msg
  <2> QED
    BY <1>1, <2>2 DEF PttInv, PttTyped
<1>3. Waiting(bus, "ctl-refresh") => Waiting(bus', "ctl-refresh")
  BY <1>1, WaitingTail
<1> DEFINE v == Head(bus).v
<1>4. Settles(bus', v, raw'.src.emitted)
  <2>1. PICK h \in BOOLEAN : Settles(bus, h, raw.src.emitted)
    BY DEF PttInv, WebviewFollows
  <2> QED
    BY <1>1, <2>1, SettlesTail
<1>5. wv.muted => ~tx
  BY DEF PttInv, MutedIsSilent
<1> HIDE DEF v
<1>v. v \in BOOLEAN
  BY <1>2 DEF v
<1>6. /\ wv' \in Webview /\ tx' \in BOOLEAN /\ wv'.shown = wv.shown /\ wv'.muted = wv.muted
      /\ (wv.muted => ~tx') /\ (tx' => v \/ wv'.screen \/ wv'.latched)
  <2>1. CASE wv.muted
    BY <1>2, <1>5, <2>1
  <2>2. CASE ~wv.muted /\ ~v
    <3>1. wv' = wv /\ tx' = (tx /\ wv.latched)
      BY <2>2 DEF AfterRelease, v
    <3> QED
      BY <1>2, <2>2, <3>1 DEF Webview
  <2>3. CASE ~wv.muted /\ v /\ wv.latched
    <3>1. wv' = [wv EXCEPT !.latched = FALSE, !.recent = FALSE] /\ tx' = FALSE
      BY <2>3 DEF v
    <3> QED
      BY <1>2, <2>3, <3>1 DEF Webview
  <2>4. CASE ~wv.muted /\ v /\ ~wv.latched
    <3> DEFINE l == wv.recent
               c == ~wv.recent
    <3>1. wv' = [wv EXCEPT !.latched = l, !.recent = c] /\ tx' = TRUE
      BY <2>4 DEF v
    <3>2. l \in BOOLEAN /\ c \in BOOLEAN
      BY <1>2 DEF Webview
    <3> HIDE DEF l, c
    <3> QED
      BY <1>2, <2>4, <3>1, <3>2 DEF Webview
  <2> QED
    BY <1>v, <2>1, <2>2, <2>3, <2>4
<1>7. WebviewFollows'
  BY <1>4, <1>6, <1>v DEF WebviewFollows
<1>8. MutedIsSilent'
  BY <1>6 DEF MutedIsSilent
<1> QED
  BY <1>2, <1>3, <1>6, <1>7, <1>8, WebviewStep

\* Either way a toggle ends a transmission: one that mutes, and one that
\* unmutes finds none.
LEMMA ToggleFacts ==
  ASSUME PttInv, ToggleMic
  PROVE  /\ wv' \in Webview /\ tx' \in BOOLEAN /\ wv'.shown = wv.shown
         /\ wv'.screen = wv.screen
         /\ wv'.muted => ~tx'
         /\ tx' => tx /\ ~wv'.muted
         /\ ~tx'
<1> DEFINE m == ~wv.muted
           l == wv.latched /\ wv.muted
<1>1. wv' = [wv EXCEPT !.muted = m, !.latched = l] /\ tx' = (tx /\ ~m)
  BY DEF ToggleMic, Mute
<1>2. wv \in Webview /\ tx \in BOOLEAN /\ (wv.muted => ~tx)
  BY DEF PttInv, PttTyped, MutedIsSilent
<1>3. m \in BOOLEAN /\ l \in BOOLEAN /\ (m <=> ~wv.muted)
  BY <1>2 DEF Webview
<1> HIDE DEF m, l
<1>4. wv' \in Webview /\ wv'.shown = wv.shown /\ wv'.screen = wv.screen /\ wv'.muted = m
  BY <1>1, <1>2, <1>3 DEF Webview
<1>5. tx' \in BOOLEAN /\ ~tx'
  BY <1>1, <1>2, <1>3
<1> QED
  BY <1>4, <1>5

LEMMA WebviewOk ==
  ASSUME PttInv, WvCtl \/ WvOther \/ UiMute \/ UiDown \/ UiLongPress \/ UiUp \/ TapOver
  PROVE  PttInv'
<1>0. wv \in Webview /\ tx \in BOOLEAN /\ bus \in Seq(Msg) /\ (wv.muted => ~tx)
  BY DEF PttInv, PttTyped, MutedIsSilent
<1>f. PICK h \in BOOLEAN : Settles(bus, h, raw.src.emitted) /\ (tx => h \/ wv.screen \/ wv.latched)
  BY DEF PttInv, WebviewFollows
<1>1. ASSUME WvCtl PROVE PttInv'
  <2>1. Next1("ctl") /\ ToggleMic /\ UNCHANGED <<held, pads, raw, rebind, rebound, out, conn, srv>>
    BY <1>1 DEF WvCtl
  <2>2. /\ bus' \in Seq(Msg) /\ Settles(bus', h, raw.src.emitted)
        /\ Waiting(bus, "ctl-refresh") => Waiting(bus', "ctl-refresh")
    BY <1>f, <2>1, TakeOther
  <2>3. /\ wv' \in Webview /\ tx' \in BOOLEAN /\ wv'.shown = wv.shown /\ ~tx'
    BY <2>1, ToggleFacts
  <2>4. WebviewFollows' /\ MutedIsSilent'
    BY <1>f, <2>1, <2>2, <2>3 DEF WebviewFollows, MutedIsSilent
  <2> QED
    BY <2>1, <2>2, <2>3, <2>4, WebviewStep
<1>2. ASSUME WvOther PROVE PttInv'
  <2>1. /\ Next1("ptt-bound") \/ Next1("chan-bound") \/ Next1("chan-cycle")
        /\ UNCHANGED <<held, pads, raw, rebind, rebound, wv, tx, out, conn, srv>>
    BY <1>2 DEF WvOther
  <2>2. /\ bus' \in Seq(Msg) /\ Settles(bus', h, raw.src.emitted)
        /\ Waiting(bus, "ctl-refresh") => Waiting(bus', "ctl-refresh")
    BY <1>f, <2>1, TakeOther
  <2>4. WebviewFollows' /\ MutedIsSilent'
    BY <1>0, <1>f, <2>1, <2>2 DEF WebviewFollows, MutedIsSilent
  <2> QED
    BY <1>0, <2>1, <2>2, <2>4, WebviewStep
<1>3. ASSUME UiMute PROVE PttInv'
  <2>1. ToggleMic /\ UNCHANGED <<held, pads, raw, rebind, rebound, bus, out, conn, srv>>
    BY <1>3 DEF UiMute
  <2>3. /\ wv' \in Webview /\ tx' \in BOOLEAN /\ wv'.shown = wv.shown /\ ~tx'
    BY <2>1, ToggleFacts
  <2>4. WebviewFollows' /\ MutedIsSilent'
    BY <1>f, <2>1, <2>3 DEF WebviewFollows, MutedIsSilent
  <2> QED
    BY <1>0, <2>1, <2>3, <2>4, WebviewStep
<1>4. ASSUME UiDown PROVE PttInv'
  <2> DEFINE s == ~wv.latched
  <2>1. /\ wv' = [wv EXCEPT !.latched = FALSE, !.screen = s, !.timer = s] /\ tx' = s /\ ~wv.muted
        /\ UNCHANGED <<held, pads, raw, rebind, rebound, bus, out, conn, srv>>
    BY <1>4 DEF UiDown
  <2>2. s \in BOOLEAN
    OBVIOUS
  <2> HIDE DEF s
  <2>3. /\ wv' \in Webview /\ tx' \in BOOLEAN /\ wv'.shown = wv.shown /\ wv'.screen = s /\ wv'.muted = wv.muted
    BY <1>0, <2>1, <2>2 DEF Webview
  <2>4. WebviewFollows' /\ MutedIsSilent'
    BY <1>f, <2>1, <2>2, <2>3 DEF WebviewFollows, MutedIsSilent
  <2> QED
    BY <1>0, <2>1, <2>3, <2>4, WebviewStep
<1>5. ASSUME UiLongPress PROVE PttInv'
  <2>1. /\ wv' = [wv EXCEPT !.latched = TRUE, !.timer = FALSE]
        /\ UNCHANGED <<held, pads, raw, rebind, rebound, tx, bus, out, conn, srv>>
    BY <1>5 DEF UiLongPress
  <2>3. /\ wv' \in Webview /\ tx' \in BOOLEAN /\ wv'.shown = wv.shown /\ wv'.latched /\ wv'.muted = wv.muted
    BY <1>0, <2>1 DEF Webview
  <2>4. WebviewFollows' /\ MutedIsSilent'
    BY <1>0, <1>f, <2>1, <2>3 DEF WebviewFollows, MutedIsSilent
  <2> QED
    BY <1>0, <2>1, <2>3, <2>4, WebviewStep
<1>6. ASSUME UiUp PROVE PttInv'
  <2>1. /\ wv' = [wv EXCEPT !.screen = FALSE, !.timer = FALSE] /\ tx' = (tx /\ wv.latched)
        /\ UNCHANGED <<held, pads, raw, rebind, rebound, bus, out, conn, srv>>
    BY <1>6 DEF UiUp
  <2>3. /\ wv' \in Webview /\ tx' \in BOOLEAN /\ wv'.shown = wv.shown /\ wv'.latched = wv.latched
        /\ wv'.muted = wv.muted
    BY <1>0, <2>1 DEF Webview
  <2>4. WebviewFollows' /\ MutedIsSilent'
    BY <1>0, <1>f, <2>1, <2>3 DEF WebviewFollows, MutedIsSilent
  <2> QED
    BY <1>0, <2>1, <2>3, <2>4, WebviewStep
<1>7. ASSUME TapOver PROVE PttInv'
  <2>1. /\ wv' = [wv EXCEPT !.recent = FALSE]
        /\ UNCHANGED <<held, pads, raw, rebind, rebound, tx, bus, out, conn, srv>>
    BY <1>7 DEF TapOver
  <2>3. /\ wv' \in Webview /\ tx' \in BOOLEAN /\ wv'.shown = wv.shown /\ wv'.latched = wv.latched
        /\ wv'.screen = wv.screen /\ wv'.muted = wv.muted
    BY <1>0, <2>1 DEF Webview
  <2>4. WebviewFollows' /\ MutedIsSilent'
    BY <1>0, <1>f, <2>1, <2>3 DEF WebviewFollows, MutedIsSilent
  <2> QED
    BY <1>0, <2>1, <2>3, <2>4, WebviewStep
<1> QED
  BY <1>1, <1>2, <1>3, <1>4, <1>5, <1>6, <1>7

\* A step of the control server: neither keys nor what the webview hears.
LEMMA ControlStep ==
  ASSUME PttInv, UNCHANGED <<held, pads, raw, rebind, rebound, tx, bus>>,
         wv' \in Webview, wv'.muted = wv.muted, wv'.latched = wv.latched, wv'.screen = wv.screen,
         conn' \in [Client -> Controller], TriesEnd', out' \in Seq(Msg),
         srv' \in [up : BOOLEAN, state : Snap],
         Careful => \E w \in BOOLEAN : Settles(out', raw.src.ctl, w) /\ (w => SomebodyHolds'),
         SnapshotUnderWay', NobodyBeforeStart'
  PROVE  PttInv'
<1>1. PttTyped'
  BY DEF PttInv, PttTyped
<1>2. Careful => KeysFollow'
  <2> HAVE Careful
  <2>1. Track(raw, LabelsOf(held))'
    BY DEF PttInv, KeysFollow, Track, LabelsOf, ChordIn
  <2>2. raw'.src.ctl = raw.src.ctl
    OBVIOUS
  <2> QED
    BY <2>1, <2>2 DEF PttInv, KeysFollow
<1>3. SourcesMerged' /\ PadsAreRead' /\ MutedIsSilent'
  BY DEF PttInv, SourcesMerged, PadsAreRead, MutedIsSilent
<1>4. WebviewFollows'
  <2>1. PICK h \in BOOLEAN : Settles(bus, h, raw.src.emitted) /\ (tx => h \/ wv.screen \/ wv.latched)
    BY DEF PttInv, WebviewFollows
  <2>2. Settles(bus', h, raw'.src.emitted) /\ (tx' => h \/ wv'.screen \/ wv'.latched)
    BY <2>1
  <2> QED
    BY <2>2 DEF WebviewFollows
<1> QED
  BY <1>1, <1>2, <1>3, <1>4 DEF PttInv

LEMMA ControlFacts ==
  ASSUME PttInv
  PROVE  /\ wv \in Webview /\ tx \in BOOLEAN /\ bus \in Seq(Msg) /\ out \in Seq(Msg)
         /\ conn \in [Client -> Controller] /\ srv \in [up : BOOLEAN, state : Snap]
         /\ MAX_AUTH_TRIES \in Nat \ {0}
         /\ \A c \in Client : conn[c].tries = MAX_AUTH_TRIES => conn[c].st = "off"
         /\ Careful => \E w \in BOOLEAN : Settles(out, raw.src.ctl, w) /\ (w => SomebodyHolds)
         /\ SnapshotUnderWay /\ NobodyBeforeStart
BY PttConstants DEF PttInv, PttTyped, TriesEnd, KeysFollow

\* Who is registered has what was published; nobody is before the start.
LEMMA PublishFacts ==
  ASSUME PttInv, NEW s \in Snap, Publish(s)
  PROVE  /\ conn' \in [Client -> Controller] /\ srv' \in [up : BOOLEAN, state : Snap]
         /\ srv'.up = srv.up
         /\ \A c \in Client : /\ conn'[c].st = conn[c].st /\ conn'[c].tries = conn[c].tries
                              /\ conn'[c].hold = conn[c].hold
                              /\ conn'[c].st = "in" => conn'[c].seen = s
<1>1. CASE srv.up
  <2>1. /\ srv' = [srv EXCEPT !.state = s]
        /\ conn' = [c \in Client |-> IF conn[c].st = "in"
                                       THEN [conn[c] EXCEPT !.seen = s] ELSE conn[c]]
    BY <1>1 DEF Publish
  <2>2. srv' \in [up : BOOLEAN, state : Snap] /\ srv'.up = srv.up
    BY <2>1, ControlFacts
  <2>3. ASSUME NEW c \in Client
        PROVE  /\ conn'[c] \in Controller /\ conn'[c].st = conn[c].st /\ conn'[c].tries = conn[c].tries
               /\ conn'[c].hold = conn[c].hold /\ (conn'[c].st = "in" => conn'[c].seen = s)
    BY <2>1, ControlFacts DEF Controller
  <2> QED
    BY <2>1, <2>2, <2>3
<1>2. CASE ~srv.up
  BY <1>2, ControlFacts DEF Publish, NobodyBeforeStart
<1> QED
  BY <1>1, <1>2

LEMMA WvReportOk ==
  ASSUME PttInv, WvReport
  PROVE  PttInv'
<1> USE DEF WvReport
<1>1. Snapshot \in Snap /\ Publish(Snapshot)
  BY ControlFacts DEF Snapshot, Snap, Webview
<1>2. /\ wv' \in Webview /\ wv'.muted = wv.muted /\ wv'.latched = wv.latched /\ wv'.screen = wv.screen
      /\ wv'.shown = Snapshot
  BY <1>1, ControlFacts DEF Webview
<1>p. /\ srv'.up = srv.up
      /\ \A c \in Client : /\ conn'[c].st = conn[c].st /\ conn'[c].tries = conn[c].tries
                           /\ conn'[c].hold = conn[c].hold
                           /\ conn'[c].st = "in" => conn'[c].seen = wv'.shown
  BY <1>1, <1>2, PublishFacts
<1>3. TriesEnd' /\ SnapshotUnderWay' /\ NobodyBeforeStart'
  <2>1. TriesEnd'
    BY <1>p, ControlFacts DEF TriesEnd
  <2>2. SnapshotUnderWay'
    BY <1>p DEF SnapshotUnderWay
  <2>3. NobodyBeforeStart'
    BY <1>p, ControlFacts DEF NobodyBeforeStart
  <2> QED
    BY <2>1, <2>2, <2>3
<1>4. SomebodyHolds => SomebodyHolds'
  BY <1>p DEF SomebodyHolds
<1>5. out' = out
  OBVIOUS
<1> QED
  BY <1>1, <1>2, <1>3, <1>4, <1>5, PublishFacts, ControlFacts, ControlStep

LEMMA WvRefreshOk ==
  ASSUME PttInv, WvRefresh
  PROVE  PttInv'
<1> USE DEF WvRefresh
<1>0. /\ wv' = wv /\ out' = out /\ tx' = tx /\ raw' = raw
      /\ IF wv.shown.known THEN Publish(wv.shown) ELSE UNCHANGED <<srv, conn>>
  OBVIOUS
<1>1. wv.shown \in Snap
  BY ControlFacts DEF Webview
<1>2. /\ conn' \in [Client -> Controller] /\ srv' \in [up : BOOLEAN, state : Snap]
      /\ srv'.up = srv.up
      /\ \A c \in Client : /\ conn'[c].st = conn[c].st /\ conn'[c].tries = conn[c].tries
                           /\ conn'[c].hold = conn[c].hold
                           /\ conn'[c].st = "in" => conn'[c].seen = wv.shown \/ ~wv.shown.known
  <2>1. CASE wv.shown.known
    BY <1>0, <1>1, <2>1, PublishFacts
  <2>2. CASE ~wv.shown.known
    BY <1>0, <2>2, ControlFacts
  <2> QED
    BY <2>1, <2>2
<1>3. TriesEnd' /\ SnapshotUnderWay' /\ NobodyBeforeStart'
  BY <1>0, <1>2, ControlFacts DEF TriesEnd, SnapshotUnderWay, NobodyBeforeStart
<1>4. SomebodyHolds => SomebodyHolds'
  BY <1>2 DEF SomebodyHolds
<1>5. /\ bus' \in Seq(Msg)
      /\ \A h : Settles(bus, h, raw.src.emitted) => Settles(bus', h, raw.src.emitted)
  BY TakeOther
<1>6. WebviewFollows'
  <2>1. PICK h \in BOOLEAN : Settles(bus, h, raw.src.emitted) /\ (tx => h \/ wv.screen \/ wv.latched)
    BY DEF PttInv, WebviewFollows
  <2>2. Settles(bus', h, raw'.src.emitted) /\ (tx' => h \/ wv'.screen \/ wv'.latched)
    BY <1>0, <1>5, <2>1
  <2> QED
    BY <2>2 DEF WebviewFollows
<1>7. PttTyped'
  BY <1>0, <1>2, <1>5 DEF PttInv, PttTyped
<1>8. Careful => KeysFollow'
  <2> HAVE Careful
  <2>1. Track(raw, LabelsOf(held))'
    BY DEF PttInv, KeysFollow, Track, LabelsOf, ChordIn
  <2>2. \E w \in BOOLEAN : Settles(out', raw'.src.ctl, w) /\ (w => SomebodyHolds')
    BY <1>0, <1>4, ControlFacts
  <2> QED
    BY <2>1, <2>2 DEF PttInv, KeysFollow
<1>9. SourcesMerged' /\ PadsAreRead' /\ MutedIsSilent'
  BY DEF PttInv, SourcesMerged, PadsAreRead, MutedIsSilent
<1> QED
  BY <1>3, <1>6, <1>7, <1>8, <1>9 DEF PttInv

\* One controller's record changes and nothing is sent.
LEMMA ControllerStep ==
  ASSUME PttInv, NEW c \in Client, NEW n \in Controller,
         conn' = [conn EXCEPT ![c] = n],
         n.tries = MAX_AUTH_TRIES => n.st = "off",
         n.st # "in", srv.up \/ n.st = "off",
         Careful /\ conn[c].st = "in" => ~conn[c].hold,
         UNCHANGED <<held, pads, raw, rebind, rebound, wv, tx, bus, out, srv>>
  PROVE  PttInv'
<1>1. conn' \in [Client -> Controller] /\ TriesEnd' /\ NobodyBeforeStart'
  BY ControlFacts DEF TriesEnd, NobodyBeforeStart
<1>2. SnapshotUnderWay'
  BY ControlFacts DEF SnapshotUnderWay, Waiting
<1>3. Careful => (SomebodyHolds => SomebodyHolds')
  BY ControlFacts DEF SomebodyHolds
<1> QED
  BY <1>1, <1>2, <1>3, ControlFacts, ControlStep

LEMMA ControllersOk ==
  ASSUME PttInv, NEW c \in Client, CtlConnect(c) \/ CtlBadAuth(c) \/ CtlAuth(c) \/ CtlDrop(c)
  PROVE  PttInv'
<1>0. /\ conn[c] \in Controller /\ MAX_AUTH_TRIES \in Nat \ {0}
      /\ conn[c].tries = MAX_AUTH_TRIES => conn[c].st = "off"
      /\ conn[c].st # "off" => srv.up
      /\ srv.state \in Snap /\ NoSnapshot \in Snap
  BY ControlFacts DEF NobodyBeforeStart, NoSnapshot, Snap
<1>n. NoConn \in Controller /\ NoConn.tries = 0 /\ NoConn.st = "off" /\ NoConn.hold = FALSE
  BY <1>0 DEF NoConn, Controller
<1>1. ASSUME CtlConnect(c) PROVE PttInv'
  <2> DEFINE n == [NoConn EXCEPT !.st = "auth", !.hold = conn[c].hold]
  <2>1. n \in Controller /\ n.st = "auth" /\ n.tries = 0
    BY <1>0, <1>n DEF Controller
  <2> HIDE DEF n
  <2>2. /\ conn' = [conn EXCEPT ![c] = n] /\ srv.up /\ conn[c].st = "off"
        /\ UNCHANGED <<held, pads, raw, rebind, rebound, wv, tx, bus, out, srv>>
    BY <1>1 DEF CtlConnect, n
  <2> QED
    BY <1>0, <2>1, <2>2, ControllerStep
<1>2. ASSUME CtlBadAuth(c) PROVE PttInv'
  <2> DEFINE e == IF TriesUsedUp(conn[c].tries + 1) THEN "off" ELSE conn[c].st
             k == conn[c].tries + 1
             n == [conn[c] EXCEPT !.tries = k, !.st = e]
  <2>1. /\ conn[c].st = "auth" /\ conn[c].tries \in 0 .. MAX_AUTH_TRIES /\ conn[c].tries # MAX_AUTH_TRIES
    BY <1>0, <1>2 DEF CtlBadAuth, Controller
  <2>2. k \in 0 .. MAX_AUTH_TRIES /\ e \in {"off", "auth"} /\ (k = MAX_AUTH_TRIES => e = "off")
    BY <1>0, <2>1 DEF TriesUsedUp
  <2>4. conn' = [conn EXCEPT ![c] = n]
    BY <1>0, <1>2, ControlFacts DEF CtlBadAuth
  <2> HIDE DEF e, k
  <2>3. /\ n \in Controller /\ n.st \in {"off", "auth"} /\ (n.tries = MAX_AUTH_TRIES => n.st = "off")
    BY <1>0, <2>2 DEF Controller
  <2> HIDE DEF n
  <2>5. UNCHANGED <<held, pads, raw, rebind, rebound, wv, tx, bus, out, srv>>
    BY <1>2 DEF CtlBadAuth
  <2> QED
    BY <1>0, <2>1, <2>3, <2>4, <2>5, ControllerStep
<1>3. ASSUME CtlAuth(c) PROVE PttInv'
  <2> DEFINE n == [conn[c] EXCEPT !.st = "hello", !.seen = srv.state]
  <2>1. /\ conn[c].st = "auth" /\ n \in Controller /\ n.st = "hello" /\ n.tries = conn[c].tries
    BY <1>0, <1>3 DEF CtlAuth, Controller
  <2>4. conn' = [conn EXCEPT ![c] = n]
    BY <1>0, <1>3, ControlFacts DEF CtlAuth
  <2> HIDE DEF n
  <2>5. UNCHANGED <<held, pads, raw, rebind, rebound, wv, tx, bus, out, srv>>
    BY <1>3 DEF CtlAuth
  <2> QED
    BY <1>0, <2>1, <2>4, <2>5, ControllerStep
<1>4. ASSUME CtlDrop(c) PROVE PttInv'
  <2>1. /\ conn' = [conn EXCEPT ![c] = NoConn] /\ (Careful => ~conn[c].hold)
        /\ UNCHANGED <<held, pads, raw, rebind, rebound, wv, tx, bus, out, srv>>
    BY <1>4 DEF CtlDrop
  <2> QED
    BY <1>n, <1>0, <2>1, ControllerStep
<1> QED
  BY <1>1, <1>2, <1>3, <1>4

LEMMA CtlRegisterOk ==
  ASSUME PttInv, NEW c \in Client, CtlRegister(c)
  PROVE  PttInv'
<1> USE DEF CtlRegister
<1>1. conn' \in [Client -> Controller] /\ TriesEnd'
  BY ControlFacts DEF TriesEnd, Controller
<1>2. NobodyBeforeStart'
  BY ControlFacts DEF NobodyBeforeStart
<1> DEFINE m == Ev("refresh", TRUE)
<1>3. m \in Msg /\ m.t = "refresh" /\ Welcome = <<m>>
  BY DEF Msg, Ev, Welcome
<1> HIDE DEF m
<1>4. <<m>> \in Seq(Msg) /\ out' = out \o <<m>> /\ out \in Seq(Msg) /\ out' \in Seq(Msg)
  BY <1>3, ControlFacts
<1>5. SnapshotUnderWay'
  <2>1. Waiting(out', "refresh")
    BY <1>3, <1>4, WaitingOne, WaitingConcat
  <2> QED
    BY <2>1 DEF SnapshotUnderWay
<1>6. SomebodyHolds => SomebodyHolds'
  BY ControlFacts DEF SomebodyHolds, Controller
<1>7. ASSUME NEW w, Settles(out, raw.src.ctl, w) PROVE Settles(out', raw.src.ctl, w)
  <2>1. m.t # "ptt"
    BY <1>3
  <2>2. Settles(<<m>>, w, w)
    BY <1>3, <2>1, SettlesOne
  <2> QED
    BY <1>4, <1>7, <2>2, SettlesConcat
<1> QED
  BY <1>1, <1>2, <1>4, <1>5, <1>6, <1>7, ControlFacts, ControlStep

\* A command of a controller: the last "ptt" on its way is of one that holds.
LEMMA CtlSendOk ==
  ASSUME PttInv, NEW c \in Client, CtlSend(c)
  PROVE  PttInv'
<1> DEFINE v == ~conn[c].hold
<1>0. /\ conn[c] \in Controller /\ conn[c].hold \in BOOLEAN /\ v \in BOOLEAN /\ (v <=> ~conn[c].hold)
      /\ out \in Seq(Msg)
  BY ControlFacts DEF Controller
<1>1. PICK m \in {Ev("ptt", v), Ev("chan-cycle", 0), Ev("ctl", "mic-toggle")} :
        /\ out' = IF conn[c].st = "in" THEN Append(out, m) ELSE out
        /\ conn' = IF m.t = "ptt" THEN [conn EXCEPT ![c].hold = m.v] ELSE conn
  BY DEF CtlSend
<1>2. /\ UNCHANGED <<held, pads, raw, rebind, rebound, wv, tx, bus, srv>>
      /\ conn[c].st \in {"auth", "in"}
  BY DEF CtlSend
<1> HIDE DEF v
<1>3. m \in Msg /\ (m.t = "ptt" => m.v = v)
  <2>1. CASE m = Ev("ptt", v)
    BY <1>0, <2>1 DEF Msg, Ev
  <2>2. CASE m = Ev("chan-cycle", 0)
    BY <2>2 DEF Msg, Ev, Slot
  <2>3. CASE m = Ev("ctl", "mic-toggle")
    BY <2>3 DEF Msg, Ev
  <2> QED
    BY <1>1, <2>1, <2>2, <2>3
<1>4. \/ m.t # "ptt" /\ conn' = conn
      \/ m.t = "ptt" /\ conn' = [conn EXCEPT ![c].hold = v]
  BY <1>1, <1>3
<1>5. /\ conn' \in [Client -> Controller]
      /\ \A x \in Client : /\ conn'[x].st = conn[x].st /\ conn'[x].tries = conn[x].tries
                           /\ conn'[x].seen = conn[x].seen
                           /\ x # c \/ m.t # "ptt" => conn'[x].hold = conn[x].hold
      /\ m.t = "ptt" => conn'[c].hold = v
  <2>1. CASE m.t # "ptt"
    BY <1>4, <2>1, ControlFacts
  <2>2. CASE m.t = "ptt"
    <3> DEFINE n == [conn[c] EXCEPT !.hold = v]
    <3>1. n \in Controller /\ n.hold = v /\ n.st = conn[c].st /\ n.tries = conn[c].tries /\ n.seen = conn[c].seen
      BY <1>0 DEF Controller
    <3>2. conn' = [conn EXCEPT ![c] = n]
      BY <1>4, <2>2, ControlFacts
    <3> HIDE DEF n
    <3> QED
      BY <2>2, <3>1, <3>2, ControlFacts
  <2> QED
    BY <2>1, <2>2
<1>6. TriesEnd' /\ NobodyBeforeStart'
  BY <1>2, <1>5, ControlFacts DEF TriesEnd, NobodyBeforeStart
<1>7. /\ out' \in Seq(Msg)
      /\ out' = IF conn[c].st = "in" THEN out \o <<m>> ELSE out
      /\ <<m>> \in Seq(Msg)
  <2>1. <<m>> \in Seq(Msg) /\ Append(out, m) = out \o <<m>> /\ Append(out, m) \in Seq(Msg)
    BY <1>0, <1>3
  <2> QED
    BY <1>0, <1>1, <2>1
<1>8. SnapshotUnderWay'
  <2>1. Waiting(out, "refresh") => Waiting(out', "refresh")
    BY <1>0, <1>7, WaitingConcat
  <2> QED
    BY <1>2, <1>5, <2>1, ControlFacts DEF SnapshotUnderWay
<1>9. ASSUME Careful
      PROVE  \E w \in BOOLEAN : Settles(out', raw.src.ctl, w) /\ (w => SomebodyHolds')
  <2>1. PICK w \in BOOLEAN : Settles(out, raw.src.ctl, w) /\ (w => SomebodyHolds)
    BY <1>9, ControlFacts
  <2>2. CASE conn[c].st = "in" /\ m.t = "ptt"
    <3>1. Settles(<<m>>, w, v)
      BY <1>3, <2>2, SettlesOne
    <3>2. Settles(out', raw.src.ctl, v)
      BY <1>0, <1>7, <2>1, <2>2, <3>1, SettlesConcat
    <3>3. v => SomebodyHolds'
      BY <1>5, <2>2 DEF SomebodyHolds
    <3> QED
      BY <1>0, <3>2, <3>3
  <2>3. CASE conn[c].st = "in" /\ m.t # "ptt"
    <3>1. Settles(<<m>>, w, w)
      BY <1>3, <2>3, SettlesOne
    <3>2. Settles(out', raw.src.ctl, w)
      BY <1>0, <1>7, <2>1, <2>3, <3>1, SettlesConcat
    <3>3. w => SomebodyHolds'
      BY <1>5, <2>1, <2>3 DEF SomebodyHolds
    <3> QED
      BY <3>2, <3>3
  <2>4. CASE conn[c].st # "in"
    <3>1. out' = out
      BY <1>7, <2>4
    <3>2. w => SomebodyHolds'
      BY <1>5, <2>1, <2>4 DEF SomebodyHolds
    <3> QED
      BY <2>1, <3>1, <3>2
  <2> QED
    BY <2>2, <2>3, <2>4
<1>10. wv' = wv /\ srv' = srv
  BY <1>2
<1> QED
  BY <1>2, <1>5, <1>6, <1>7, <1>8, <1>9, <1>10, ControlFacts, ControlStep

LEMMA CtlStartOk ==
  ASSUME PttInv, CtlStart
  PROVE  PttInv'
<1> USE DEF CtlStart
<1>1. srv' \in [up : BOOLEAN, state : Snap]
  BY ControlFacts
<1>2. SnapshotUnderWay' /\ NobodyBeforeStart' /\ TriesEnd'
  BY ControlFacts DEF SnapshotUnderWay, NobodyBeforeStart, TriesEnd, Waiting
<1>3. SomebodyHolds' = SomebodyHolds
  BY DEF SomebodyHolds
<1> QED
  BY <1>1, <1>2, <1>3, ControlFacts, ControlStep

LEMMA CtlForwardOk ==
  ASSUME PttInv, CtlForward
  PROVE  PttInv'
<1> DEFINE m == Head(out)
           u == Update(raw.src, raw.src.key, m.v)
<1>1. /\ out \in Seq(Msg) /\ bus \in Seq(Msg) /\ out # <<>> /\ out' = Tail(out) /\ out' \in Seq(Msg)
      /\ m \in Msg
      /\ UNCHANGED <<held, pads, rebind, rebound, wv, tx, conn, srv>>
  BY ControlFacts DEF CtlForward
<1>2. raw \in Raw /\ raw.src \in Sources /\ raw.src.key \in BOOLEAN
  BY DEF PttInv, PttTyped, Raw, Sources
<1>3. CASE m.t = "ptt"
  <2>1. raw' = [raw EXCEPT !.src = u.src] /\ bus' = bus \o u.events
    BY <1>3 DEF CtlForward
  <2>2. m.v \in BOOLEAN
    BY <1>1, <1>3 DEF Msg
  <2>3. /\ u.src \in Sources /\ u.src.key = raw.src.key /\ u.src.ctl = m.v
        /\ Merged(u.src) /\ u.events \in Seq(Msg)
        /\ Settles(u.events, raw.src.emitted, u.src.emitted)
    BY <1>2, <2>2, UpdateFacts
  <2> HIDE DEF u
  <2>4. /\ raw' \in Raw /\ raw'.src = u.src /\ raw'.bind = raw.bind /\ raw'.down = raw.down
        /\ raw'.mods = raw.mods /\ raw'.cap = raw.cap /\ raw'.ccap = raw.ccap
    BY <1>2, <2>1, <2>3 DEF Raw, Sources
  <2>5. bus' \in Seq(Msg)
    BY <1>1, <2>1, <2>3
  <2>6. PttTyped'
    BY <1>1, <2>4, <2>5 DEF PttInv, PttTyped
  <2>7. Careful => KeysFollow'
    <3> HAVE Careful
    <3>1. Track(raw, LabelsOf(held))
      BY DEF PttInv, KeysFollow
    <3>2. Track(raw, LabelsOf(held))'
      <4>1. Track(raw', LabelsOf(held))
        BY <2>3, <2>4, <3>1 DEF Track
      <4>2. LabelsOf(held) = LabelsOf(held)'
        BY <1>1 DEF LabelsOf
      <4> QED
        BY <4>1, <4>2 DEF Track
    <3>3. PICK w \in BOOLEAN : Settles(out, raw.src.ctl, w) /\ (w => SomebodyHolds)
      BY ControlFacts
    <3>4. Settles(out', raw'.src.ctl, w)
      BY <1>1, <1>3, <2>3, <2>4, <3>3, SettlesTail
    <3>5. SomebodyHolds' = SomebodyHolds
      BY <1>1 DEF SomebodyHolds
    <3> QED
      BY <1>1, <3>2, <3>3, <3>4, <3>5 DEF PttInv, KeysFollow
  <2>8. SourcesMerged'
    BY <2>3, <2>4 DEF SourcesMerged, Merged
  <2>9. WebviewFollows'
    <3>1. PICK h \in BOOLEAN : Settles(bus, h, raw.src.emitted) /\ (tx => h \/ wv.screen \/ wv.latched)
      BY DEF PttInv, WebviewFollows
    <3>2. Settles(bus \o u.events, h, u.src.emitted)
      BY <1>1, <2>3, <3>1, SettlesConcat
    <3> QED
      BY <1>1, <2>1, <2>4, <3>1, <3>2 DEF WebviewFollows
  <2>10. SnapshotUnderWay'
    <3>1. Waiting(bus, "ctl-refresh") => Waiting(bus', "ctl-refresh")
      BY <1>1, <2>1, <2>3, WaitingConcat
    <3>2. Waiting(out, "refresh") => Waiting(out', "refresh")
      BY <1>1, <1>3, WaitingTail
    <3> QED
      BY <1>1, <3>1, <3>2, ControlFacts DEF SnapshotUnderWay
  <2>11. TriesEnd' /\ MutedIsSilent' /\ NobodyBeforeStart' /\ PadsAreRead'
    BY <1>1 DEF PttInv, TriesEnd, MutedIsSilent, NobodyBeforeStart, PadsAreRead
  <2> QED
    BY <2>6, <2>7, <2>8, <2>9, <2>10, <2>11 DEF PttInv
<1>4. CASE m.t # "ptt"
  <2> DEFINE e == IF m.t = "refresh" THEN Ev("ctl-refresh", TRUE) ELSE m
  <2>1. bus' = Append(bus, e) /\ raw' = raw
    BY <1>4 DEF CtlForward
  <2>2. e \in Msg /\ e.t # "ptt" /\ (m.t = "refresh" => e.t = "ctl-refresh")
    BY <1>1, <1>4 DEF Msg, Ev
  <2> HIDE DEF e
  <2>3. bus' = bus \o <<e>> /\ <<e>> \in Seq(Msg) /\ bus' \in Seq(Msg)
    BY <1>1, <2>1, <2>2
  <2>6. PttTyped'
    BY <1>1, <2>1, <2>3 DEF PttInv, PttTyped
  <2>7. Careful => KeysFollow'
    <3> HAVE Careful
    <3>2. Track(raw, LabelsOf(held))'
      BY <1>1, <2>1 DEF PttInv, KeysFollow, Track, LabelsOf, ChordIn
    <3>3. PICK w \in BOOLEAN : Settles(out, raw.src.ctl, w) /\ (w => SomebodyHolds)
      BY ControlFacts
    <3>4. Settles(out', raw.src.ctl, w)
      BY <1>1, <1>4, <3>3, SettlesTail
    <3>5. SomebodyHolds' = SomebodyHolds
      BY <1>1 DEF SomebodyHolds
    <3> QED
      BY <1>1, <2>1, <3>2, <3>3, <3>4, <3>5 DEF PttInv, KeysFollow
  <2>9. WebviewFollows'
    <3>1. PICK h \in BOOLEAN : Settles(bus, h, raw.src.emitted) /\ (tx => h \/ wv.screen \/ wv.latched)
      BY DEF PttInv, WebviewFollows
    <3>2. Settles(<<e>>, raw.src.emitted, raw.src.emitted)
      BY <2>2, SettlesOne
    <3>3. Settles(bus', h, raw.src.emitted)
      BY <1>1, <2>3, <3>1, <3>2, SettlesConcat
    <3> QED
      BY <1>1, <2>1, <3>1, <3>3 DEF WebviewFollows
  <2>10. SnapshotUnderWay'
    <3>1. Waiting(bus, "ctl-refresh") => Waiting(bus', "ctl-refresh")
      BY <1>1, <2>3, WaitingConcat
    <3>2. Waiting(out, "refresh") => Waiting(out', "refresh") \/ Waiting(bus', "ctl-refresh")
      <4>1. CASE m.t = "refresh"
        BY <1>1, <2>2, <2>3, <4>1, WaitingOne, WaitingConcat
      <4>2. CASE m.t # "refresh"
        BY <1>1, <4>2, WaitingTail
      <4> QED
        BY <4>1, <4>2
    <3> QED
      BY <1>1, <3>1, <3>2, ControlFacts DEF SnapshotUnderWay
  <2>11. TriesEnd' /\ MutedIsSilent' /\ NobodyBeforeStart' /\ PadsAreRead' /\ SourcesMerged'
    BY <1>1, <2>1 DEF PttInv, TriesEnd, MutedIsSilent, NobodyBeforeStart, PadsAreRead, SourcesMerged
  <2> QED
    BY <2>6, <2>7, <2>9, <2>10, <2>11 DEF PttInv
<1> QED
  BY <1>3, <1>4

\* Every step keeps the invariant.
LEMMA PttNextOk ==
  ASSUME PttInv, [PttNext]_pttVars
  PROVE  PttInv'
<1>1. CASE PttProgress
  <2>1. CASE RebindStore
    BY <2>1, BindingsOk
  <2>2. CASE WvPtt
    BY <2>2, WvPttOk
  <2>3. CASE WvCtl \/ WvOther
    BY <2>3, WebviewOk
  <2>4. CASE WvReport
    BY <2>4, WvReportOk
  <2>5. CASE WvRefresh
    BY <2>5, WvRefreshOk
  <2>6. CASE CtlStart
    BY <2>6, CtlStartOk
  <2>7. CASE CtlForward
    BY <2>7, CtlForwardOk
  <2>8. CASE \E c \in Client : CtlRegister(c)
    BY <2>8, CtlRegisterOk
  <2> QED
    BY <1>1, <2>1, <2>2, <2>3, <2>4, <2>5, <2>6, <2>7, <2>8 DEF PttProgress
<1>2. CASE \E k \in KeyName : KeyPacket(k, TRUE) \/ KeyPacket(k, FALSE)
  BY <1>2, KeyPacketOk
<1>3. CASE WheelPacket
  BY <1>3, WheelPacketOk
<1>4. CASE \E p \in Device : PadReport(p)
  BY <1>4, PadReportOk
<1>5. CASE \/ \E s \in Slot, b \in Binding \cup {Unbound} : RebindClear(s, b) \/ SetChanBinding(s, b)
           \/ \E s \in Slot : StartCapture(s)
  BY <1>5, BindingsOk
<1>6. CASE UiMute \/ UiDown \/ UiLongPress \/ UiUp \/ TapOver
  BY <1>6, WebviewOk
<1>7. CASE \E c \in Client : CtlConnect(c) \/ CtlBadAuth(c) \/ CtlAuth(c) \/ CtlDrop(c)
  BY <1>7, ControllersOk
<1>8. CASE \E c \in Client : CtlSend(c)
  BY <1>8, CtlSendOk
<1>9. CASE UNCHANGED pttVars
  BY <1>9 DEF pttVars, PttInv, PttTyped, PadsAreRead, TriesEnd, KeysFollow, Track, LabelsOf, ChordIn,
              SomebodyHolds, SourcesMerged, WebviewFollows, MutedIsSilent, SnapshotUnderWay,
              NobodyBeforeStart
<1> QED
  BY <1>1, <1>2, <1>3, <1>4, <1>5, <1>6, <1>7, <1>8, <1>9 DEF PttNext

LEMMA PttInvHolds == PttSpec => []PttInv
<1>1. PttInit => PttInv
  BY PttInitOk
<1>2. PttInv /\ [PttNext]_pttVars => PttInv'
  BY PttNextOk
<1> QED
  BY <1>1, <1>2, PTL DEF PttSpec

\* A chord among the labels is a chord that is held.
LEMMA ChordInHeld ==
  ASSUME NEW b \in Binding \cup {Unbound}, ChordIn(b, LabelsOf(held))
  PROVE  ChordHeld(b)
<1>1. b # Unbound /\ b.mods \subseteq {"Shift"}
  BY DEF ChordIn, Binding, Unbound
<1>2. \E p \in held : Label(p) = b.base
  BY DEF ChordIn, LabelsOf
<1>3. ASSUME NEW m \in b.mods PROVE \E p \in held : m \in ModOf(Label(p))
  <2>1. PICK p \in held : Label(p) = "ShiftLeft"
    BY <1>3 DEF ChordIn, LabelsOf
  <2>2. ModOf(Label(p)) = {"Shift"}
    BY <2>1 DEF ModOf
  <2> QED
    BY <1>1, <2>2
<1> QED
  BY <1>1, <1>2, <1>3 DEF ChordHeld

LEMMA MicObeysInv == PttInv => NoHotMic /\ MutedIsSilent
<1> SUFFICES ASSUME PttInv, bus = <<>>, tx PROVE raw.src.emitted \/ wv.screen \/ wv.latched
  BY DEF NoHotMic, PttInv
<1>1. PICK h \in BOOLEAN : Settles(bus, h, raw.src.emitted) /\ (tx => h \/ wv.screen \/ wv.latched)
  BY DEF PttInv, WebviewFollows
<1>2. h = raw.src.emitted
  BY <1>1, SettlesNone
<1> QED
  BY <1>1, <1>2

\* What the invariant says of the three properties.
LEMMA HeldInv == Careful /\ PttInv => HeldToTransmit
<1> SUFFICES ASSUME Careful, PttInv, out = <<>>, raw.src.emitted
             PROVE  \/ \E s \in Slot : ChordHeld(raw.bind[s])
                    \/ \E c \in Client : conn[c].hold
  BY DEF HeldToTransmit
<1>1. raw.src.key \/ raw.src.ctl
  BY DEF PttInv, SourcesMerged
<1>2. CASE raw.src.key
  <2>1. PICK s \in Slot : ChordIn(raw.bind[s], LabelsOf(held))
    BY <1>2 DEF PttInv, KeysFollow, Track
  <2>2. raw.bind[s] \in Binding \cup {Unbound}
    BY DEF PttInv, PttTyped, Raw
  <2> QED
    BY <2>1, <2>2, ChordInHeld
<1>3. CASE raw.src.ctl
  <2>1. PICK w \in BOOLEAN : Settles(out, raw.src.ctl, w) /\ (w => SomebodyHolds)
    BY DEF PttInv, KeysFollow
  <2>2. raw.src.ctl = w
    BY <2>1, SettlesNone
  <2> QED
    BY <1>3, <2>1, <2>2 DEF SomebodyHolds
<1> QED
  BY <1>1, <1>2, <1>3

LEMMA TypeInv == PttInv => PttTypeOK
<1> SUFFICES ASSUME PttInv PROVE PttTypeOK
  OBVIOUS
<1>1. held \subseteq Input /\ raw \in Raw /\ {tx, rebound, srv.up} \subseteq BOOLEAN
  BY DEF PttInv, PttTyped
<1>2. ASSUME NEW c \in Client
      PROVE  /\ conn[c].st \in {"off", "auth", "hello", "in"}
             /\ conn[c].tries <= MAX_AUTH_TRIES
             /\ conn[c].tries = MAX_AUTH_TRIES => conn[c].st = "off"
  BY PttConstants DEF PttInv, PttTyped, TriesEnd, Controller
<1> QED
  BY <1>1, <1>2 DEF PttTypeOK

\* The microphone is the user's, if the user binds keys with no key down and
\* controllers release before they leave: it opens only while a bound chord or
\* a controller's button is held, the on-screen button is, or it is latched, and
\* never while muted (MicIsSafe: handle_raw(), PttSources, the "ptt" listener).
THEOREM MicIsTheUsers ==
  ASSUME Careful
  PROVE  PttSpec => []MicIsSafe
<1>1. PttInv => MicIsSafe
  BY TypeInv, HeldInv, MicObeysInv DEF MicIsSafe
<1> QED
  BY <1>1, PttInvHolds, PTL

\* What of this needs no care: the webview that has seen every event transmits
\* for the merged sources, its own button or the latch, and a muted one never.
THEOREM MicObeys == PttSpec => [](NoHotMic /\ MutedIsSilent)
BY MicObeysInv, PttInvHolds, PTL

\* Every controller shows the webview's state once nothing is on its way,
\* for any number of controllers (SnapshotFresh: hello, registration, and the
\* refresh asked for between them).
THEOREM ControllersAreCurrent == PttSpec => []SnapshotFresh
<1>1. PttInv => SnapshotFresh
  <2> SUFFICES ASSUME PttInv, bus = <<>>, out = <<>>, wv.shown = Snapshot,
                      NEW c \in Client, conn[c].st = "in"
               PROVE  conn[c].seen = Snapshot
    BY DEF SnapshotFresh
  <2>1. ~Waiting(bus, "ctl-refresh") /\ ~Waiting(out, "refresh")
    BY DEF Waiting
  <2>2. wv.shown.known
    BY DEF Snapshot
  <2> QED
    BY <2>1, <2>2 DEF PttInv, SnapshotUnderWay
<1> QED
  BY <1>1, PttInvHolds, PTL
=============================================================================
