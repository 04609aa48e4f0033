---------------------------- MODULE VoiceProofs ----------------------------
(***************************************************************************)
(* Why a command is said in one go, for every value of the constants that  *)
(* keeps the channel no longer than the cooldown.                          *)
(*                                                                         *)
(* A frame that follows a stall is in the channel behind no more frames    *)
(* than the cooldown still swallows (StallsAreCooled), because the channel *)
(* was full, and the cooldown whole, when the frames before it were lost.  *)
(* So once a frame counts again, nothing that is left in the channel       *)
(* follows a stall (AheadIsWhole).                                         *)
(***************************************************************************)
EXTENDS Voice, TLAPS

WindowInv ==
    /\ silence <= Len(window)
    /\ stage # "capturing" => silence = 0
    /\ stage = "capturing" => Len(window) < MaxUtterance
    /\ stage = "listening" => wake = <<>> /\ window = <<>>
    /\ stage \in {"capturing", "transcribing", "dispatching"} =>
           streak = <<>> /\ cooldown = Cooldown

StallsAreCooled ==
    /\ \A i \in 1 .. Len(chan) : chan[i] => i <= cooldown + 1
    /\ missed => Len(chan) <= cooldown

AheadIsWhole ==
    stage = "capturing" \/ streak # <<>> =>
        /\ \A i \in 1 .. Len(chan) : ~chan[i]
        /\ ~missed

IInv == TypeOK /\ WindowInv /\ StallsAreCooled /\ AheadIsWhole /\ CommandInOneGo

-----------------------------------------------------------------------------
(* Sequences of frames.                                                    *)

\* What pulling the head of a channel leaves.
LEMMA Pulled ==
    ASSUME NEW s \in Seq(BOOLEAN), s # <<>>
    PROVE  /\ Head(s) \in BOOLEAN /\ Head(s) = s[1]
           /\ Len(s) \in Nat \ {0}
           /\ Tail(s) \in Seq(BOOLEAN) /\ Len(Tail(s)) = Len(s) - 1
           /\ \A i \in 1 .. Len(s) - 1 : Tail(s)[i] = s[i + 1]
OBVIOUS

\* What appending a frame does.
LEMMA Appended ==
    ASSUME NEW s \in Seq(BOOLEAN), NEW f \in BOOLEAN
    PROVE  /\ Append(s, f) \in Seq(BOOLEAN) /\ Append(s, f) # <<>>
           /\ Len(s) \in Nat /\ Len(Append(s, f)) = Len(s) + 1
           /\ \A i \in 1 .. Len(s) : Append(s, f)[i] = s[i]
           /\ Append(s, f)[Len(s) + 1] = f
OBVIOUS

\* What trimming a tail leaves.
LEMMA Trimmed ==
    ASSUME NEW s \in Seq(BOOLEAN), NEW n \in 0 .. Len(s)
    PROVE  /\ SubSeq(s, 1, n) \in Seq(BOOLEAN) /\ Len(SubSeq(s, 1, n)) = n
           /\ \A i \in 1 .. n : SubSeq(s, 1, n)[i] = s[i]
OBVIOUS

\* Where the frames of a concatenation come from.
LEMMA Joined ==
    ASSUME NEW s \in Seq(BOOLEAN), NEW t \in Seq(BOOLEAN)
    PROVE  /\ Len(s) \in Nat /\ Len(t) \in Nat
           /\ s \o t \in Seq(BOOLEAN) /\ Len(s \o t) = Len(s) + Len(t)
           /\ \A i \in 1 .. Len(s) : (s \o t)[i] = s[i]
           /\ \A i \in 1 .. Len(t) : (s \o t)[Len(s) + i] = t[i]
OBVIOUS

\* A frame that follows no stall extends what was said in one go.
LEMMA OneGoAppend ==
    ASSUME NEW s \in Seq(BOOLEAN), NEW f \in BOOLEAN, InOneGo(s),
           s = <<>> \/ ~f
    PROVE  InOneGo(Append(s, f))
BY Appended DEF InOneGo

\* Trimming the window leaves what was said in one go.
LEMMA OneGoTrim ==
    ASSUME NEW s \in Seq(BOOLEAN), NEW t \in Seq(BOOLEAN), InOneGo(s \o t),
           NEW n \in 0 .. Len(t)
    PROVE  InOneGo(s \o SubSeq(t, 1, n))
<1> DEFINE p == SubSeq(t, 1, n)
<1>1. p \in Seq(BOOLEAN) /\ Len(p) = n /\ \A i \in 1 .. n : p[i] = t[i]
  BY Trimmed
<1> HIDE DEF p
<1>2. SUFFICES ASSUME NEW i \in 2 .. Len(s \o p) PROVE ~(s \o p)[i]
  BY DEF InOneGo, p
<1>3. CASE i \in 1 .. Len(s)
  <2>1. (s \o p)[i] = s[i] /\ (s \o t)[i] = s[i]
    BY <1>1, <1>3, Joined
  <2>2. i \in 2 .. Len(s \o t)
    BY <1>3, Joined
  <2> QED BY <2>1, <2>2 DEF InOneGo
<1>4. CASE i \notin 1 .. Len(s)
  <2>1. i - Len(s) \in 1 .. n /\ n \in 0 .. Len(t) /\ Len(t) \in Nat /\ Len(s) \in Nat
    BY <1>1, <1>2, <1>4, Joined
  <2>2. (s \o p)[Len(s) + (i - Len(s))] = p[i - Len(s)]
    BY <1>1, <2>1, Joined
  <2>3. (s \o t)[Len(s) + (i - Len(s))] = t[i - Len(s)]
    BY <2>1, Joined
  <2>4. i \in 2 .. Len(s \o t) /\ Len(s) + (i - Len(s)) = i
    BY <2>1, Joined
  <2> QED BY <1>1, <2>1, <2>2, <2>3, <2>4 DEF InOneGo
<1> QED BY <1>3, <1>4

\* The next frame extends the command.
LEMMA OneGoNext ==
    ASSUME NEW s \in Seq(BOOLEAN), NEW t \in Seq(BOOLEAN), InOneGo(s \o t),
           NEW f \in BOOLEAN, ~f
    PROVE  InOneGo(s \o Append(t, f))
<1>1. s \o Append(t, f) = Append(s \o t, f)
  OBVIOUS
<1> QED BY <1>1, Joined, OneGoAppend

-----------------------------------------------------------------------------
\* What the assumption says of the bounds.
LEMMA Bounds ==
    /\ Capacity \in Nat /\ Sustained \in Nat /\ MaxUtterance \in Nat
    /\ Cooldown \in Nat /\ Warmup \in Nat /\ SilenceTail \in Nat
    /\ 0 < Sustained /\ 0 < MaxUtterance /\ 0 \in 0 .. SilenceTail - 1
    /\ Capacity <= Cooldown
BY VoiceAssumption

LEMMA Initially == Init => IInv
<1> SUFFICES ASSUME Init PROVE IInv
  OBVIOUS
<1>1. <<>> \in Seq(BOOLEAN) /\ Len(<<>>) = 0 /\ <<>> \o <<>> = <<>>
  OBVIOUS
<1>2. TypeOK
  <2>1. 0 < Sustained /\ 0 <= Capacity /\ 0 <= Sustained /\ 0 <= MaxUtterance
    BY VoiceAssumption
  <2>2. 0 \in 0 .. Warmup /\ 0 \in 0 .. Cooldown /\ 0 \in 0 .. SilenceTail - 1
    BY VoiceAssumption
  <2> QED BY <1>1, <2>1, <2>2 DEF Init, TypeOK, Stages, Stalled, Frame
<1>3. WindowInv /\ StallsAreCooled /\ AheadIsWhole
  BY <1>1, VoiceAssumption DEF Init, WindowInv, StallsAreCooled, AheadIsWhole
<1>4. CommandInOneGo
  BY <1>1 DEF Init, CommandInOneGo, InOneGo, Command
<1> QED BY <1>2, <1>3, <1>4 DEF IInv

LEMMA Feeding == IInv /\ Feed => IInv'
<1> SUFFICES ASSUME IInv, Feed PROVE IInv'
  OBVIOUS
<1> USE VoiceAssumption DEF IInv, TypeOK, WindowInv, Frame
<1>1. CASE Len(chan) < Capacity /\ chan' = Append(chan, missed) /\ missed' = FALSE
  <2>1. /\ chan' \in Seq(BOOLEAN) /\ Len(chan') = Len(chan) + 1 /\ Len(chan) \in Nat
        /\ \A i \in 1 .. Len(chan) : chan'[i] = chan[i]
        /\ chan'[Len(chan) + 1] = missed
    BY <1>1, Appended
  <2>0. UNCHANGED <<mic, seen, cooldown, streak, stage, wake, window, silence>>
    BY DEF Feed, detector, cycle
  <2>2. TypeOK' /\ WindowInv'
    <3>1. TypeOK'
      <4>1. mic' \in {"up", "lost", "ended"} /\ stage' \in Stages /\ missed' \in BOOLEAN
        BY <1>1, <2>0
      <4>2. chan' \in Seq(Frame) /\ Len(chan') <= Capacity
        BY <1>1, <2>1, Bounds
      <4>3. /\ seen' \in 0 .. Warmup /\ cooldown' \in 0 .. Cooldown
            /\ streak' \in Seq(Frame) /\ Len(streak') < Sustained
        BY <2>0
      <4>4. /\ wake' \in Seq(Frame) /\ Len(wake') <= Sustained
            /\ window' \in Seq(Frame) /\ Len(window') <= MaxUtterance
            /\ silence' \in 0 .. SilenceTail - 1
        BY <2>0
      <4>5. Stalled' => window' # <<>>
        BY <2>0 DEF Stalled
      <4> QED BY <4>1, <4>2, <4>3, <4>4, <4>5
    <3>2. WindowInv'
      BY <2>0
    <3> QED BY <3>1, <3>2
  <2>3. StallsAreCooled'
    <3>1. ASSUME NEW i \in 1 .. Len(chan'), chan'[i] PROVE i <= cooldown' + 1
      <4>1. CASE i \in 1 .. Len(chan)
        BY <2>0, <2>1, <3>1, <4>1 DEF StallsAreCooled
      <4>2. CASE i = Len(chan) + 1
        BY <2>0, <2>1, <3>1, <4>2 DEF StallsAreCooled
      <4> QED BY <2>1, <4>1, <4>2
    <3> QED BY <1>1, <3>1 DEF StallsAreCooled
  <2>4. AheadIsWhole'
    BY <1>1, <2>1 DEF Feed, detector, AheadIsWhole
  <2>5. CommandInOneGo'
    BY DEF Feed, detector, cycle, CommandInOneGo, Command
  <2> QED BY <2>2, <2>3, <2>4, <2>5
<1>2. CASE Len(chan) = Capacity /\ missed' = (missed \/ Stalled) /\ UNCHANGED chan
  <2>1. TypeOK' /\ WindowInv'
    BY <1>2 DEF Feed, detector, cycle, Stages, Stalled
  <2>2. StallsAreCooled'
    BY <1>2 DEF Feed, detector, StallsAreCooled, Stalled
  <2>3. AheadIsWhole'
    <3>1. streak # <<>> => ~Stalled
      BY DEF Stalled
    <3> QED BY <1>2, <3>1 DEF Feed, detector, AheadIsWhole, Stalled
  <2>4. CommandInOneGo'
    BY DEF Feed, detector, cycle, CommandInOneGo, Command
  <2> QED BY <2>1, <2>2, <2>3, <2>4
<1> QED BY <1>1, <1>2 DEF Feed

LEMMA Sourcing == IInv /\ (LoseMic \/ EndSource) => IInv'
BY DEF IInv, LoseMic, EndSource, detector, cycle, TypeOK, WindowInv, StallsAreCooled,
       AheadIsWhole, CommandInOneGo, Command, Stalled

\* What every pull leaves in the channel.
LEMMA Pulling ==
    ASSUME IInv, NEW s, Pull(s)
    PROVE  /\ chan' \in Seq(BOOLEAN) /\ Len(chan') <= Capacity
           /\ Len(chan') \in Nat /\ Len(chan) = Len(chan') + 1
           /\ Head(chan) \in BOOLEAN /\ Head(chan) = chan[1]
           /\ \A i \in 1 .. Len(chan') : chan'[i] = chan[i + 1]
BY Pulled, VoiceAssumption DEF IInv, TypeOK, Pull, Frame

LEMMA Observing == IInv /\ Observe => IInv'
<1> SUFFICES ASSUME IInv, Observe PROVE IInv'
  OBVIOUS
<1>0. Pull("listening")
  BY DEF Observe, WarmUp, CoolDown, Below, Over
<1>c. /\ chan' \in Seq(BOOLEAN) /\ Len(chan') <= Capacity
      /\ Len(chan') \in Nat /\ Len(chan) = Len(chan') + 1
      /\ Head(chan) \in BOOLEAN /\ Head(chan) = chan[1]
      /\ \A i \in 1 .. Len(chan') : chan'[i] = chan[i + 1]
  BY <1>0, Pulling
<1> USE VoiceAssumption DEF IInv, TypeOK, WindowInv, Frame
<1>1. CASE WarmUp
  <2>1. TypeOK' /\ WindowInv'
    BY <1>1, <1>c DEF WarmUp, Pull, cycle, Stages, Stalled
  <2>2. StallsAreCooled' /\ AheadIsWhole'
    BY <1>1, <1>c DEF WarmUp, Pull, StallsAreCooled, AheadIsWhole
  <2>3. CommandInOneGo'
    BY <1>1 DEF WarmUp, cycle, CommandInOneGo, Command
  <2> QED BY <2>1, <2>2, <2>3
<1>2. CASE CoolDown
  <2>1. TypeOK' /\ WindowInv'
    BY <1>2, <1>c DEF CoolDown, Pull, cycle, Stages, Stalled
  <2>2. StallsAreCooled' /\ AheadIsWhole'
    BY <1>2, <1>c DEF CoolDown, Pull, StallsAreCooled, AheadIsWhole
  <2>3. CommandInOneGo'
    BY <1>2 DEF CoolDown, cycle, CommandInOneGo, Command
  <2> QED BY <2>1, <2>2, <2>3
<1>3. CASE Below
  <2>1. TypeOK' /\ WindowInv'
    BY <1>3, <1>c DEF Below, Pull, cycle, Stages, Stalled
  <2>2. StallsAreCooled' /\ AheadIsWhole'
    BY <1>3, <1>c DEF Below, Pull, StallsAreCooled, AheadIsWhole
  <2>3. CommandInOneGo'
    BY <1>3 DEF Below, cycle, CommandInOneGo, Command, InOneGo
  <2> QED BY <2>1, <2>2, <2>3
<1>4. CASE Over
  <2> DEFINE run == Append(streak, Head(chan))
  <2>1. /\ run \in Seq(BOOLEAN) /\ run # <<>> /\ Len(run) = Len(streak) + 1
        /\ Len(streak) \in Nat
    BY <1>c, Appended
  <2>2. InOneGo(run)
    <3>1. streak = <<>> \/ ~Head(chan)
      <4>1. 1 \in 1 .. Len(chan)
        BY <1>c
      <4>2. streak # <<>> => ~chan[1]
        BY <4>1 DEF AheadIsWhole
      <4> QED BY <1>c, <4>2
    <3> QED BY <3>1, <1>c, OneGoAppend DEF CommandInOneGo
  <2>3. /\ \A i \in 1 .. Len(chan') : ~chan'[i]
        /\ ~missed'
    BY <1>4, <1>c DEF Over, Pull, StallsAreCooled
  <2>4. CASE Len(run) < Sustained
    <3>1. /\ streak' = run
          /\ UNCHANGED <<cooldown, stage, wake, window, silence, mic, missed, seen>>
      BY <1>4, <2>4 DEF Over, Pull, cycle
    <3> HIDE DEF run
    <3>2. TypeOK' /\ WindowInv'
      BY <1>0, <1>c, <2>1, <2>4, <3>1 DEF Pull, Stages, Stalled
    <3>3. StallsAreCooled' /\ AheadIsWhole'
      BY <2>3, <3>1 DEF StallsAreCooled, AheadIsWhole
    <3>4. CommandInOneGo'
      BY <2>2, <3>1 DEF CommandInOneGo, Command
    <3> QED BY <3>2, <3>3, <3>4
  <2>5. CASE ~(Len(run) < Sustained)
    <3>1. /\ streak' = <<>> /\ cooldown' = Cooldown /\ stage' = "capturing" /\ wake' = run
          /\ UNCHANGED <<window, silence, mic, missed, seen>>
      BY <1>4, <2>5 DEF Over, Pull
    <3> HIDE DEF run
    <3>2. stage = "listening" /\ window = <<>>
      BY <1>0 DEF Pull
    <3>3. TypeOK' /\ WindowInv'
      BY <1>c, <2>1, <2>5, <3>1, <3>2 DEF Stages, Stalled
    <3>4. StallsAreCooled' /\ AheadIsWhole'
      BY <2>3, <3>1 DEF StallsAreCooled, AheadIsWhole
    <3>5. CommandInOneGo'
      <4>1. run \o <<>> = run
        BY <2>1
      <4> QED BY <2>2, <3>1, <3>2, <4>1 DEF CommandInOneGo, Command, InOneGo
    <3> QED BY <3>3, <3>4, <3>5
  <2> QED BY <2>4, <2>5
<1> QED BY <1>1, <1>2, <1>3, <1>4 DEF Observe

\* A window that is handed over keeps the invariant, whoever hands it over.
LEMMA Handing ==
    ASSUME IInv, NEW frames \in Seq(BOOLEAN), Len(frames) <= MaxUtterance,
           stage = "capturing", HandOver(frames), InOneGo(wake \o frames),
           UNCHANGED detector, mic' \in {"up", "lost", "ended"},
           missed' = FALSE, chan' \in Seq(BOOLEAN), Len(chan') <= Capacity,
           \A i \in 1 .. Len(chan') : ~chan'[i]
    PROVE  IInv'
<1> USE VoiceAssumption DEF IInv, TypeOK, WindowInv, Frame
<1>0. /\ UNCHANGED <<seen, cooldown, streak>> /\ silence' = 0 /\ window' = frames
      /\ \/ frames = <<>> /\ stage' = "listening" /\ wake' = <<>>
         \/ frames # <<>> /\ stage' = "transcribing" /\ wake' = wake
  BY DEF HandOver, detector
<1>1. TypeOK' /\ WindowInv'
  <2>1. TypeOK'
    <3>1. stage' \in Stages /\ (Stalled' => window' # <<>>)
      BY <1>0 DEF Stages, Stalled
    <3>2. /\ seen' \in 0 .. Warmup /\ cooldown' \in 0 .. Cooldown
          /\ streak' \in Seq(Frame) /\ Len(streak') < Sustained
      BY <1>0
    <3>3. /\ wake' \in Seq(Frame) /\ Len(wake') <= Sustained
          /\ window' \in Seq(Frame) /\ Len(window') <= MaxUtterance
      BY <1>0, Bounds
    <3>4. silence' \in 0 .. SilenceTail - 1 /\ missed' \in BOOLEAN
      BY <1>0, Bounds
    <3> QED BY <3>1, <3>2, <3>3, <3>4
  <2>2. WindowInv'
    BY <1>0, Bounds
  <2> QED BY <2>1, <2>2
<1>2. StallsAreCooled' /\ AheadIsWhole'
  BY DEF HandOver, detector, StallsAreCooled, AheadIsWhole
<1>3. CommandInOneGo'
  <2>1. CASE frames = <<>>
    BY <2>1 DEF HandOver, detector, CommandInOneGo, Command, InOneGo
  <2>2. CASE frames # <<>>
    BY <2>2 DEF HandOver, detector, CommandInOneGo, Command, InOneGo
  <2> QED BY <2>1, <2>2
<1> QED BY <1>1, <1>2, <1>3

LEMMA Capturing == IInv /\ Capture => IInv'
<1> SUFFICES ASSUME IInv, Capture PROVE IInv'
  OBVIOUS
<1> USE VoiceAssumption DEF IInv, TypeOK, WindowInv, Frame
<1>0. Pull("capturing") /\ UNCHANGED detector
  BY DEF Capture
<1>1. /\ chan' \in Seq(BOOLEAN) /\ Len(chan') <= Capacity
      /\ Len(chan') \in Nat /\ Len(chan) = Len(chan') + 1
      /\ Head(chan) \in BOOLEAN /\ Head(chan) = chan[1]
      /\ \A i \in 1 .. Len(chan') : chan'[i] = chan[i + 1]
  BY <1>0, Pulling
<1>2. /\ ~Head(chan) /\ \A i \in 1 .. Len(chan') : ~chan'[i]
      /\ missed' = FALSE /\ UNCHANGED mic
  <2>1. \A i \in 1 .. Len(chan) : ~chan[i]
    BY <1>0 DEF Pull, AheadIsWhole
  <2>2. missed' = FALSE /\ UNCHANGED mic
    BY <1>0 DEF Pull, AheadIsWhole
  <2>3. 1 \in 1 .. Len(chan) /\ \A i \in 1 .. Len(chan') : i + 1 \in 1 .. Len(chan)
    BY <1>1
  <2> QED BY <1>1, <2>1, <2>2, <2>3
<1> DEFINE frames == Append(window, Head(chan))
<1>3. /\ frames \in Seq(BOOLEAN) /\ frames # <<>>
      /\ Len(window) \in Nat /\ Len(frames) = Len(window) + 1
  BY <1>1, Appended
<1>4. InOneGo(wake \o frames)
  BY <1>1, <1>2, OneGoNext DEF CommandInOneGo, Command
<1>5. PICK quiet \in BOOLEAN :
         LET run == IF quiet THEN silence + 1 ELSE 0
         IN  IF run = SilenceTail
             THEN HandOver(SubSeq(frames, 1, Len(frames) - run))
             ELSE IF Len(frames) = MaxUtterance
             THEN HandOver(frames)
             ELSE /\ window' = frames
                  /\ silence' = run
                  /\ UNCHANGED <<stage, wake>>
  BY DEF Capture
<1> DEFINE run == IF quiet THEN silence + 1 ELSE 0
<1>6. run \in 0 .. SilenceTail /\ run <= Len(frames)
  BY <1>3
<1> HIDE DEF frames, run
<1>7. CASE run = SilenceTail
  <2> DEFINE n == Len(frames) - run
             kept == SubSeq(frames, 1, n)
  <2>1. n \in 0 .. Len(frames) /\ n <= MaxUtterance
    BY <1>3, <1>6, <1>7
  <2>2. kept \in Seq(BOOLEAN) /\ Len(kept) = n
    BY <1>3, <2>1, Trimmed
  <2>3. HandOver(kept)
    BY <1>5, <1>7 DEF run
  <2>4. InOneGo(wake \o kept)
    BY <1>3, <1>4, <2>1, OneGoTrim
  <2> QED
    <3> HIDE DEF kept, n
    <3> QED BY <1>0, <1>1, <1>2, <2>1, <2>2, <2>3, <2>4, Handing DEF Pull
<1>8. CASE run # SilenceTail /\ Len(frames) = MaxUtterance
  <2>1. HandOver(frames)
    BY <1>5, <1>8 DEF run
  <2>2. Len(frames) <= MaxUtterance /\ stage = "capturing"
    BY <1>0, <1>3, <1>8 DEF Pull
  <2> QED BY <1>0, <1>1, <1>2, <1>3, <1>4, <2>1, <2>2, Handing
<1>9. CASE run # SilenceTail /\ Len(frames) # MaxUtterance
  <2>1. window' = frames /\ silence' = run /\ UNCHANGED <<stage, wake>>
    BY <1>5, <1>9 DEF run
  <2>0. UNCHANGED <<mic, seen, cooldown, streak>> /\ stage = "capturing"
    BY <1>0, <1>2 DEF detector, Pull
  <2>a. Len(frames) <= MaxUtterance /\ run <= SilenceTail - 1 /\ run \in Nat
    BY <1>3, <1>6, <1>9, <2>0, Bounds
  <2>2. TypeOK' /\ WindowInv'
    <3>1. TypeOK'
      <4>1. stage' \in Stages /\ (Stalled' => window' # <<>>)
        BY <2>0, <2>1 DEF Stages, Stalled
      <4>2. /\ seen' \in 0 .. Warmup /\ cooldown' \in 0 .. Cooldown
            /\ streak' \in Seq(Frame) /\ Len(streak') < Sustained
        BY <2>0
      <4>3. /\ wake' \in Seq(Frame) /\ Len(wake') <= Sustained
            /\ window' \in Seq(Frame) /\ Len(window') <= MaxUtterance
        BY <1>3, <2>1, <2>a
      <4>4. silence' \in 0 .. SilenceTail - 1 /\ missed' \in BOOLEAN
        <5>1. run \in 0 .. SilenceTail - 1
          BY <2>a, Bounds
        <5> QED BY <1>2, <2>1, <5>1
      <4>5. /\ mic' \in {"up", "lost", "ended"}
            /\ chan' \in Seq(Frame) /\ Len(chan') <= Capacity
        BY <1>1, <1>2
      <4> QED BY <4>1, <4>2, <4>3, <4>4, <4>5
    <3>2. WindowInv'
      BY <1>3, <1>6, <1>9, <2>0, <2>1, <2>a, Bounds
    <3> QED BY <3>1, <3>2
  <2>3. StallsAreCooled' /\ AheadIsWhole'
    BY <1>2, <2>1 DEF StallsAreCooled, AheadIsWhole
  <2>4. CommandInOneGo'
    BY <1>0, <1>4, <2>1 DEF CommandInOneGo, Command, detector
  <2> QED BY <2>2, <2>3, <2>4
<1> QED BY <1>7, <1>8, <1>9

LEMMA Finishing == IInv /\ (EndOfStream \/ Transcribe \/ Dispatch) => IInv'
<1> SUFFICES ASSUME IInv, EndOfStream \/ Transcribe \/ Dispatch PROVE IInv'
  OBVIOUS
<1> USE VoiceAssumption DEF IInv, TypeOK, WindowInv, Frame
<1>1. CASE EndOfStream /\ stage = "listening"
  BY <1>1 DEF EndOfStream, detector, cycle, StallsAreCooled, AheadIsWhole, CommandInOneGo,
              Command, Stages, Stalled
<1>2. CASE EndOfStream /\ stage = "capturing"
  BY <1>2, Handing DEF EndOfStream, AheadIsWhole, CommandInOneGo, Command
<1>3. CASE Transcribe \/ Dispatch
  <2>1. /\ UNCHANGED <<mic, chan, missed, seen, cooldown, streak>>
        /\ Stalled /\ Cooldown = cooldown /\ streak = <<>>
        /\ Resume \/ Bail \/ (stage' = "dispatching" /\ UNCHANGED cycle)
    BY <1>3 DEF Transcribe, Dispatch, detector, Stalled
  <2>2. TypeOK' /\ WindowInv'
    <3>1. CASE Resume
      <4>1. TypeOK'
        BY <2>1, <3>1, Bounds DEF Resume, Stages, Stalled
      <4>2. WindowInv'
        BY <2>1, <3>1, Bounds DEF Resume, Stalled
      <4> QED BY <4>1, <4>2
    <3>2. CASE Bail
      BY <2>1, <3>2 DEF Bail, cycle, Stages, Stalled
    <3>3. CASE stage' = "dispatching" /\ UNCHANGED cycle
      BY <2>1, <3>3 DEF cycle, Stages, Stalled
    <3> QED BY <2>1, <3>1, <3>2, <3>3
  <2>3. StallsAreCooled'
    BY <2>1 DEF StallsAreCooled
  <2>4. AheadIsWhole'
    BY <2>1 DEF Resume, Bail, AheadIsWhole
  <2>5. CommandInOneGo'
    BY <2>1 DEF Resume, Bail, cycle, CommandInOneGo, Command, InOneGo
  <2> QED BY <2>2, <2>3, <2>4, <2>5
<1> QED BY <1>1, <1>2, <1>3 DEF EndOfStream

LEMMA Stuttering == IInv /\ UNCHANGED vars => IInv'
BY DEF vars, detector, cycle, IInv, TypeOK, WindowInv, StallsAreCooled,
       AheadIsWhole, CommandInOneGo, Command, Stalled

(***************************************************************************)
(* Every reachable state satisfies the inductive invariant.                *)
(***************************************************************************)
LEMMA SpecInv == Spec => []IInv
<1>1. IInv /\ [Next]_vars => IInv'
  BY Feeding, Sourcing, Observing, Capturing, Finishing, Stuttering DEF Next
<1> QED BY Initially, <1>1, PTL DEF Spec

(***************************************************************************)
(* The channel, the detector and the window stay within their bounds, and  *)
(* the recogniser is never given an empty window.                          *)
(***************************************************************************)
THEOREM VoiceTypeCorrect == Spec => []TypeOK
<1>1. IInv => TypeOK
  BY DEF IInv
<1> QED BY SpecInv, <1>1, PTL

(***************************************************************************)
(* No command is put together from what was said before and after the      *)
(* pipeline was busy with another.                                         *)
(***************************************************************************)
THEOREM SaidInOneGo == Spec => []CommandInOneGo
<1>1. IInv => CommandInOneGo
  BY DEF IInv
<1> QED BY SpecInv, <1>1, PTL

-----------------------------------------------------------------------------
(***************************************************************************)
(* How many steps of the pipeline are left until it listens again.         *)
(***************************************************************************)
StepsLeft ==
    CASE stage = "capturing" -> MaxUtterance - Len(window) + 2
      [] stage = "transcribing" -> 2
      [] stage = "dispatching" -> 1
      [] OTHER -> 0

Working == Capture \/ EndOfStream \/ Transcribe \/ Dispatch

UtteranceEnds ==
    [][StepsLeft > 0 => StepsLeft' <= StepsLeft /\ (Working => StepsLeft' < StepsLeft)]_vars

LEMMA WindowBounded ==
    ASSUME IInv
    PROVE  /\ Len(window) \in Nat /\ window \in Seq(Frame) /\ MaxUtterance \in Nat
           /\ stage = "capturing" => Len(window) < MaxUtterance
  <1>1. /\ window \in Seq(Frame) /\ MaxUtterance \in Nat
        /\ stage = "capturing" => Len(window) < MaxUtterance
    BY Bounds DEF IInv, TypeOK, WindowInv
  <1> QED BY <1>1

LEMMA StepsCounted ==
    ASSUME IInv
    PROVE  StepsLeft \in Nat
  <1> DEFINE heard == Len(window)
  <1>1. /\ heard \in Nat /\ MaxUtterance \in Nat
        /\ stage = "capturing" => heard < MaxUtterance
    BY WindowBounded
  <1>2. StepsLeft = CASE stage = "capturing" -> MaxUtterance - heard + 2
                      [] stage = "transcribing" -> 2
                      [] stage = "dispatching" -> 1
                      [] OTHER -> 0
    BY DEF StepsLeft
  <1> HIDE DEF heard
  <1> QED BY <1>1, <1>2

(***************************************************************************)
(* However long somebody speaks, after a wake the pipeline listens again,  *)
(* or stops, within MaxUtterance steps and two: each frame of a capture,   *)
(* the transcription and the dispatch brings it nearer, and nothing else   *)
(* takes it back (capture_utterance, detect_one_cycle).  This is CycleEnds *)
(* without the fairness.                                                   *)
(***************************************************************************)
THEOREM UtteranceIsShort == Spec => UtteranceEnds
<1>1. ASSUME IInv, [Next]_vars, StepsLeft > 0
      PROVE  StepsLeft' <= StepsLeft /\ (Working => StepsLeft' < StepsLeft)
  <2>1. /\ Len(window) \in Nat /\ window \in Seq(Frame) /\ MaxUtterance \in Nat
        /\ stage = "capturing" => Len(window) < MaxUtterance
        /\ StepsLeft \in Nat
    BY <1>1, WindowBounded, StepsCounted
  <2>2. stage # "listening" /\ stage # "stopped"
    BY <1>1 DEF StepsLeft
  <2>3. CASE Capture
    <3>1. stage = "capturing" /\ StepsLeft = MaxUtterance - Len(window) + 2 /\ StepsLeft > 2
      BY <2>1, <2>3 DEF Capture, Pull, StepsLeft
    <3>2. CASE stage' = "listening" \/ stage' = "transcribing"
      BY <2>1, <3>1, <3>2 DEF StepsLeft
    <3>3. CASE stage' = stage /\ Len(window') = Len(window) + 1
      BY <2>1, <3>1, <3>3 DEF StepsLeft
    <3> QED BY <2>1, <2>3, <3>2, <3>3 DEF Capture, HandOver, Frame
  <2>4. CASE EndOfStream
    BY <2>1, <2>2, <2>4 DEF EndOfStream, HandOver, StepsLeft
  <2>5. CASE Transcribe
    BY <2>5 DEF Transcribe, Resume, Bail, StepsLeft
  <2>6. CASE Dispatch
    BY <2>6 DEF Dispatch, Resume, Bail, StepsLeft
  <2>7. CASE UNCHANGED <<stage, window>> /\ ~Working
    BY <2>1, <2>7 DEF StepsLeft
  <2>8. ~Observe
    BY <2>2 DEF Observe, WarmUp, CoolDown, Below, Over, Pull
  <2>9. Feed \/ LoseMic \/ EndSource \/ UNCHANGED vars => UNCHANGED <<stage, window>>
    BY DEF Feed, LoseMic, EndSource, vars, cycle
  <2> QED BY <1>1, <2>3, <2>4, <2>5, <2>6, <2>7, <2>8, <2>9 DEF Next, Working
<1> QED BY <1>1, SpecInv, PTL DEF Spec, UtteranceEnds

=============================================================================
