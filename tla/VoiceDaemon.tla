---------------------------- MODULE VoiceDaemon -----------------------------
(***************************************************************************)
(* What surrounds the pipeline of Voice.tla: the grammar that makes an     *)
(* intent of a transcription (crates/iot-voice/src/intent.rs), the subject *)
(* it is published on (iot-voice-daemon/src/sink.rs), and what the modes   *)
(* of the daemon put together (main.rs).                                   *)
(*                                                                         *)
(* A text is a sequence of words, without capitals and extra blanks; a     *)
(* segment of a subject is a sequence of characters.                       *)
(***************************************************************************)
EXTENDS Integers, Sequences, SequencesExt

NoMatch == [domain |-> "none"]

-----------------------------------------------------------------------------
(***************************************************************************)
(* RuleIntentParser.                                                       *)
(***************************************************************************)

\* A prefix ends with a blank and a suffix begins with one: something has to
\* be left between them.
Between(words, prefix, suffix) ==
    /\ IsPrefix(prefix, words) /\ IsSuffix(suffix, words)
    /\ Len(words) > Len(prefix) + Len(suffix)

Rest(words, prefix, suffix) == SubSeq(words, Len(prefix) + 1, Len(words) - Len(suffix))

\* trim_start_matches takes a prefix off as often as it is there.
RECURSIVE TrimStart(_, _)
TrimStart(words, prefix) ==
    IF Between(words, prefix, <<>>) THEN TrimStart(Rest(words, prefix, <<>>), prefix) ELSE words

Politeness == << <<"please">>, <<"could", "you">>, <<"can", "you">>, <<"would", "you">> >>

Normalise(words) == FoldLeft(TrimStart, words, Politeness)

\* The prefixes and suffixes of one intent, tried in this order.
Lights(state, verb) ==
    [domain |-> "lights", verb |-> verb,
     forms |-> << << <<"turn", state, "the">>, <<"light">> >>, << <<"turn", state, "the">>, <<"lights">> >>,
                  << <<"turn", state>>, <<"light">> >>, << <<"turn", state>>, <<"lights">> >> >>]

Grammar ==
    << Lights("on", "on"), Lights("off", "off"),
       [domain |-> "scenes", verb |-> "activate",
        forms |-> << << <<"activate", "the">>, <<"scene">> >>, << <<"activate">>, <<"scene">> >>,
                     << <<"set", "the", "scene", "to">>, <<>> >> >>],
       [domain |-> "sensors", verb |-> "report",
        forms |-> << << <<"what", "is", "the">>, <<>> >>, << <<"what's", "the">>, <<>> >>,
                     << <<"tell", "me", "the">>, <<>> >> >>] >>

Cancels == { <<"stop">>, <<"cancel">>, <<"never", "mind">> }

First(S) == CHOOSE i \in S : \A j \in S : i <= j

MatchPhrase(words) ==
    LET fits(g) == { f \in DOMAIN Grammar[g].forms :
                        Between(words, Grammar[g].forms[f][1], Grammar[g].forms[f][2]) }
        entries == { g \in DOMAIN Grammar : fits(g) # {} }
    IN  IF entries # {}
        THEN LET entry == Grammar[First(entries)]
                 form == entry.forms[First(fits(First(entries)))]
             IN  [domain |-> entry.domain, verb |-> entry.verb,
                  target |-> Rest(words, form[1], form[2])]
        ELSE IF words \in Cancels THEN [domain |-> "system", verb |-> "cancel"]
        ELSE NoMatch

Parse(words) == MatchPhrase(Normalise(words))

-----------------------------------------------------------------------------
(***************************************************************************)
(* NatsIntentSink::subject_for.                                            *)
(***************************************************************************)

Valid == {"letter", "digit", "-", "_"}

SanitiseSegment(segment) ==
    IF segment = <<>> THEN <<"_">>
    ELSE [i \in DOMAIN segment |-> IF segment[i] \in Valid THEN segment[i] ELSE "_"]

SubjectFor(domain, verb) ==
    <<"command", "intent", SanitiseSegment(domain), SanitiseSegment(verb)>>

-----------------------------------------------------------------------------
(***************************************************************************)
(* Speech: what piper writes is taken apart (iot-voice/src/piper_synth.rs) *)
(* and put together again for a player (encode_wav).  A WAV file is its    *)
(* magic and its chunks, padded to an even length; size is what a chunk    *)
(* says of itself, body what there is of it.  A sample is a signed 16-bit  *)
(* number: as a float it is divided by the largest and stays exact.        *)
(***************************************************************************)

LargestSample == 32767

Failed(what) == [ok |-> FALSE, error |-> what]

Clamp(sample) == IF sample < -LargestSample THEN -LargestSample ELSE sample

EncodeWav(samples, rate) ==
    [magic |-> TRUE,
     chunks |-> << [id |-> "fmt", size |-> 16, body |-> 16,
                    tag |-> 1, channels |-> 1, rate |-> rate, bits |-> 16],
                   [id |-> "data", size |-> 2 * Len(samples), body |-> 2 * Len(samples),
                    samples |-> [i \in DOMAIN samples |-> Clamp(samples[i])]] >>]

\* The length of the file, the padding left out.
WavLength(wav) == FoldLeft(LAMBDA sum, chunk : sum + 8 + chunk.body, 12, wav.chunks)

\* One turn of the walk.  A chunk that says more than there is is taken for
\* what there is; for a fmt chunk the fields are then out of bounds, and the
\* panic is an error of the blocking task.  A later chunk takes the place
\* of an earlier one of its kind; chunks of other kinds are skipped.
TakeChunk(seen, chunk) ==
    CASE seen.error # "" \/ chunk.id \notin {"fmt", "data"} -> seen
      [] chunk.id = "data" -> [seen EXCEPT !.data = <<chunk>>]
      [] chunk.id = "fmt" /\ chunk.size < 16 -> [seen EXCEPT !.error = "fmt chunk too small"]
      [] chunk.id = "fmt" /\ chunk.size >= 16 /\ chunk.body < 16 -> [seen EXCEPT !.error = "panic"]
      [] chunk.id = "fmt" /\ chunk.size >= 16 /\ chunk.body >= 16 ->
            IF chunk.tag # 1 THEN [seen EXCEPT !.error = "unsupported format"]
            ELSE [seen EXCEPT !.fmt = <<chunk>>]

ParseWav(wav) ==
    LET seen == FoldLeft(TakeChunk, [error |-> "", fmt |-> << >>, data |-> << >>], wav.chunks)
    IN  IF WavLength(wav) < 44 THEN Failed("too short")
        ELSE IF ~wav.magic THEN Failed("magic")
        ELSE IF seen.error # "" THEN Failed(seen.error)
        ELSE IF seen.fmt = << >> \/ seen.data = << >> THEN Failed("chunk missing")
        ELSE IF seen.fmt[1].channels # 1 THEN Failed("not mono")
        ELSE IF seen.fmt[1].bits # 16 THEN Failed("not 16-bit")
        ELSE LET count == seen.data[1].body \div 2
                 rate == seen.fmt[1].rate
             IN  [ok |-> TRUE, rate |-> rate, samples |-> SubSeq(seen.data[1].samples, 1, count),
                  duration_ms |-> (count * 1000) \div (IF rate = 0 THEN 1 ELSE rate)]

\* run_piper: a process of its own, given the text and waited for.
RunPiper(piper) ==
    IF ~piper.found \/ ~piper.reads \/ piper.status # 0 THEN Failed("piper")
    ELSE ParseWav(piper.stdout)

\* cmd_say, and the file it writes.
Say(piper, writable) ==
    LET audio == RunPiper(piper)
    IN  IF ~audio.ok \/ ~writable THEN [mode |-> "failed"]
        ELSE [mode |-> "said", file |-> EncodeWav(audio.samples, audio.rate)]

-----------------------------------------------------------------------------
(***************************************************************************)
(* The modes, with the features the binary was built with.  A mode fails,  *)
(* or comes to an end after what it says.                                  *)
(***************************************************************************)

Features == {"mic", "stt-whisper", "wake-phrase"}

BuildWake(o) == IF o.wake_model THEN "rustpotter" ELSE IF o.use_mic THEN "energy" ELSE "amplitude"
BuildStt(o) == IF o.stt_model THEN "whisper" ELSE "placeholder"

\* run_listen_inner, build_stt, build_wake and run_with_mic, in this order.
Refused(o, features) ==
    \/ (o.stt_model \/ o.wake_model) /\ ~o.use_mic
    \/ o.stt_model /\ "stt-whisper" \notin features
    \/ o.wake_model /\ "wake-phrase" \notin features
    \/ o.use_mic /\ "mic" \notin features

Listen(o, features) ==
    IF Refused(o, features) THEN [mode |-> "failed"]
    ELSE [mode |-> "listening", audio |-> IF o.use_mic THEN "cpal" ELSE "no frames",
          wake |-> BuildWake(o), stt |-> BuildStt(o), sink |-> IF o.dry_run THEN "log" ELSE "nats"]

\* send: what is no intent is a failure here, and nothing is published.
Send(words, publishes) ==
    IF Parse(words) = NoMatch \/ ~publishes THEN [mode |-> "failed"] ELSE [mode |-> "sent"]

\* say and a dry run do without the bus.
Run(command, bus, features) ==
    CASE command.name = "say" -> Say(command.piper, command.writable)
      [] command.name = "listen" /\ (command.dry_run \/ bus) -> Listen(command, features)
      [] command.name = "send" /\ bus -> Send(command.text, command.publishes)
      [] OTHER -> [mode |-> "failed"]

=============================================================================
