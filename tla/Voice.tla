------------------------------- MODULE Voice -------------------------------
(***************************************************************************)
(* The listening half of the voice daemon: the audio callback that feeds a *)
(* bounded channel (cpal_audio.rs), and the pipeline task that pulls frames *)
(* from it, waits for a wake (wake_vad.rs), captures what is said, has it  *)
(* transcribed and sends the command (pipeline.rs).                        *)
(*                                                                         *)
(* While the pipeline transcribes or dispatches it pulls nothing, so the   *)
(* channel keeps the 16 oldest frames and the callback drops the rest.  A  *)
(* frame is modelled by whether frames dropped in such a stall lie between *)
(* it and the frame before it.  Whether a frame is over the adaptive       *)
(* threshold, or quiet, is open: the thresholds are floating-point moving  *)
(* averages of the room.                                                   *)
(***************************************************************************)
EXTENDS Naturals, Sequences

CONSTANTS
    Capacity,       \* CHANNEL_CAPACITY, 16 in the code
    Warmup,         \* WARMUP_FRAMES, 100
    Sustained,      \* SUSTAINED_FRAMES, 4
    Cooldown,       \* COOLDOWN_FRAMES, 50
    MaxUtterance,   \* MAX_UTTERANCE_FRAMES, 250
    SilenceTail     \* SILENCE_TAIL_FRAMES, 12

ASSUME VoiceAssumption ==
    /\ Capacity \in Nat \ {0} /\ Sustained \in Nat \ {0}
    /\ MaxUtterance \in Nat \ {0} /\ SilenceTail \in Nat \ {0}
    /\ Warmup \in Nat /\ Cooldown \in Nat
    /\ Capacity <= Cooldown

VARIABLES
    mic,        \* "up", "lost" (the device is gone), "ended" (the source is)
    chan,       \* the frames in the channel, oldest first
    missed,     \* frames were dropped in a stall since the last one sent
    seen,       \* frames_seen of the detector, as far as Warmup
    cooldown,   \* cooldown_remaining
    streak,     \* the frames over_threshold_run counts
    stage,      \* where the pipeline task is
    wake,       \* the frames that fired the wake of this cycle
    window,     \* the frames captured since
    silence     \* silence_run

detector == <<seen, cooldown, streak>>
cycle == <<wake, window, silence>>
vars == <<mic, chan, missed, detector, stage, cycle>>

Stages == {"listening", "capturing", "transcribing", "dispatching", "stopped"}

Frame == BOOLEAN

Stalled == stage \in {"transcribing", "dispatching"}

TypeOK ==
    /\ mic \in {"up", "lost", "ended"}
    /\ chan \in Seq(Frame) /\ Len(chan) <= Capacity
    /\ missed \in BOOLEAN
    /\ seen \in 0 .. Warmup
    /\ cooldown \in 0 .. Cooldown
    /\ streak \in Seq(Frame) /\ Len(streak) < Sustained
    /\ stage \in Stages
    /\ wake \in Seq(Frame) /\ Len(wake) <= Sustained
    /\ window \in Seq(Frame) /\ Len(window) <= MaxUtterance
    /\ silence \in 0 .. SilenceTail - 1
    /\ Stalled => window # <<>>

Init ==
    /\ mic = "up"
    /\ chan = <<>>
    /\ missed = FALSE
    /\ seen = 0
    /\ cooldown = 0
    /\ streak = <<>>
    /\ stage = "listening"
    /\ wake = <<>>
    /\ window = <<>>
    /\ silence = 0

-----------------------------------------------------------------------------
(* The audio side. *)

\* feed: try_send, which drops the frame when the channel is full.  The
\* channel is closed once the pipeline is gone.
Feed ==
    /\ mic = "up"
    /\ stage # "stopped"
    /\ \/ /\ Len(chan) < Capacity
          /\ chan' = Append(chan, missed)
          /\ missed' = FALSE
       \/ /\ Len(chan) = Capacity
          /\ missed' = (missed \/ Stalled)
          /\ UNCHANGED chan
    /\ UNCHANGED <<mic, detector, stage, cycle>>

\* The device goes away: err_fn logs it and the capture thread stays parked,
\* so the channel stays open and no frame comes any more.
LoseMic ==
    /\ mic = "up"
    /\ mic' = "lost"
    /\ UNCHANGED <<chan, missed, detector, stage, cycle>>

\* The source ends (a recording, or the stub without frames): the frames that
\* are left can be pulled, then next_frame returns None.
EndSource ==
    /\ mic = "up"
    /\ mic' = "ended"
    /\ UNCHANGED <<chan, missed, detector, stage, cycle>>

-----------------------------------------------------------------------------
(* wait_for_wake: every frame pulled is shown to the detector. *)

Pull(s) ==
    /\ stage = s
    /\ chan # <<>>
    /\ chan' = Tail(chan)
    /\ UNCHANGED <<mic, missed>>

WarmUp ==
    /\ Pull("listening")
    /\ seen < Warmup
    /\ seen' = seen + 1
    /\ UNCHANGED <<cooldown, streak, stage, cycle>>

CoolDown ==
    /\ Pull("listening")
    /\ seen = Warmup
    /\ cooldown > 0
    /\ cooldown' = cooldown - 1
    /\ UNCHANGED <<seen, streak, stage, cycle>>

Below ==
    /\ Pull("listening")
    /\ seen = Warmup
    /\ cooldown = 0
    /\ streak' = <<>>
    /\ UNCHANGED <<seen, cooldown, stage, cycle>>

\* Mutant: the count of the last wake is not reset.
OverKeepsRun ==
    /\ Pull("listening")
    /\ seen = Warmup
    /\ cooldown = 0
    /\ LET run == Append(streak, Head(chan))
       IN  /\ streak' = run
           /\ IF Len(run) < Sustained
              THEN UNCHANGED <<cooldown, stage, cycle>>
              ELSE /\ cooldown' = Cooldown
                   /\ stage' = "capturing"
                   /\ wake' = run
                   /\ UNCHANGED <<window, silence>>
    /\ UNCHANGED seen

Over ==
    /\ Pull("listening")
    /\ seen = Warmup
    /\ cooldown = 0
    /\ LET run == Append(streak, Head(chan))
       IN  IF Len(run) < Sustained
           THEN /\ streak' = run
                /\ UNCHANGED <<cooldown, stage, cycle>>
           ELSE /\ streak' = <<>>
                /\ cooldown' = Cooldown
                /\ stage' = "capturing"
                /\ wake' = run
                /\ UNCHANGED <<window, silence>>
    /\ UNCHANGED seen

-----------------------------------------------------------------------------
(* capture_utterance and the rest of detect_one_cycle. *)

\* The window is complete: without a frame the cycle is skipped.
HandOver(frames) ==
    /\ silence' = 0
    /\ window' = frames
    /\ IF frames = <<>>
       THEN stage' = "listening" /\ wake' = <<>>
       ELSE stage' = "transcribing" /\ UNCHANGED wake

\* Mutant: the frames of the utterance are shown to the detector as well, so
\* they run the cooldown down.
CaptureObserved ==
    /\ Pull("capturing")
    /\ \E quiet \in BOOLEAN :
           LET frames == Append(window, Head(chan))
               run == IF quiet THEN silence + 1 ELSE 0
           IN  IF run = SilenceTail
               THEN HandOver(SubSeq(frames, 1, Len(frames) - run))
               ELSE IF Len(frames) = MaxUtterance
               THEN HandOver(frames)
               ELSE /\ window' = frames
                    /\ silence' = run
                    /\ UNCHANGED <<stage, wake>>
    /\ cooldown' = IF cooldown > 0 THEN cooldown - 1 ELSE 0
    /\ UNCHANGED <<seen, streak>>

\* Mutant: a full window drops its oldest frame and goes on.
CaptureRolling ==
    /\ Pull("capturing")
    /\ \E quiet \in BOOLEAN :
           LET frames == Append(window, Head(chan))
               run == IF quiet THEN silence + 1 ELSE 0
           IN  IF run = SilenceTail
               THEN HandOver(SubSeq(frames, 1, Len(frames) - run))
               ELSE /\ window' = IF Len(frames) = MaxUtterance
                                 THEN Tail(frames) ELSE frames
                    /\ silence' = run
                    /\ UNCHANGED <<stage, wake>>
    /\ UNCHANGED detector

Capture ==
    /\ Pull("capturing")
    /\ \E quiet \in BOOLEAN :
           LET frames == Append(window, Head(chan))
               run == IF quiet THEN silence + 1 ELSE 0
           IN  IF run = SilenceTail
               THEN HandOver(SubSeq(frames, 1, Len(frames) - run))
               ELSE IF Len(frames) = MaxUtterance
               THEN HandOver(frames)
               ELSE /\ window' = frames
                    /\ silence' = run
                    /\ UNCHANGED <<stage, wake>>
    /\ UNCHANGED detector

\* next_frame returns None, in either loop.
EndOfStream ==
    /\ mic = "ended"
    /\ chan = <<>>
    /\ \/ /\ stage = "listening"
          /\ stage' = "stopped"
          /\ UNCHANGED cycle
       \/ /\ stage = "capturing"
          /\ HandOver(window)
    /\ UNCHANGED <<mic, chan, missed, detector>>

Resume ==
    /\ stage' = "listening"
    /\ wake' = <<>>
    /\ window' = <<>>
    /\ UNCHANGED silence

\* Any error but NoMatch leaves run, and with it the daemon's main.
Bail ==
    /\ stage' = "stopped"
    /\ UNCHANGED cycle

Transcribe ==
    /\ stage = "transcribing"
    /\ \/ stage' = "dispatching" /\ UNCHANGED cycle
       \/ Resume
       \/ Bail
    /\ UNCHANGED <<mic, chan, missed, detector>>

Dispatch ==
    /\ stage = "dispatching"
    /\ Resume \/ Bail
    /\ UNCHANGED <<mic, chan, missed, detector>>

-----------------------------------------------------------------------------
Observe == WarmUp \/ CoolDown \/ Below \/ Over

Next ==
    \/ Feed
    \/ LoseMic
    \/ EndSource
    \/ Observe
    \/ Capture
    \/ EndOfStream
    \/ Transcribe
    \/ Dispatch

Spec == Init /\ [][Next]_vars

\* A device that is up goes on calling back; the task is polled, and what it
\* awaits besides frames (the recogniser, the publish) returns.
Fairness ==
    /\ WF_vars(Feed)
    /\ WF_vars(Observe)
    /\ WF_vars(Capture)
    /\ WF_vars(EndOfStream)
    /\ WF_vars(Transcribe)
    /\ WF_vars(Dispatch)

FairSpec == Spec /\ Fairness

-----------------------------------------------------------------------------
(***************************************************************************)
(* What is taken for one command was said in one go: neither among the     *)
(* frames that fired the wake nor in what was captured after them lies a   *)
(* stretch that was dropped while the pipeline was busy with the command   *)
(* before.  The detector counts consecutive frames and the capture loop    *)
(* takes what comes next, both blind to what the callback dropped; it is   *)
(* the cooldown, which only frames seen while listening run down, that     *)
(* swallows the stale frames of the channel.                               *)
(***************************************************************************)
Command == wake \o window

InOneGo(frames) == \A i \in 2 .. Len(frames) : ~frames[i]

CommandInOneGo == InOneGo(streak) /\ InOneGo(Command)

(***************************************************************************)
(* A wake never locks the pipeline up: however long somebody speaks, it    *)
(* gets back to listening, or stops.  Only a device that is lost while it  *)
(* captures leaves it waiting.                                             *)
(***************************************************************************)
CycleEnds ==
    stage # "listening" ~>
        \/ stage \in {"listening", "stopped"}
        \/ stage = "capturing" /\ mic = "lost"

=============================================================================
