------------------------------ MODULE MCVoice ------------------------------
(***************************************************************************)
(* Voice with the constants of the source, all of them: the frames are     *)
(* abstract enough that nothing has to be scaled down.                     *)
(*                                                                         *)
(* The operators of VoiceDaemon compute a value from a value: they are     *)
(* compared with what they should be over every short text.                *)
(***************************************************************************)
EXTENDS Voice, VoiceDaemon

Names == {"the", "kitchen", "light", "lights", "on"}
Targets == UNION { [1..n -> Names] : n \in 0..3 }

Lamp(target) == [domain |-> "lights", verb |-> "on", target |-> target]

\* A command for a lamp, with or without the article, means the lamp: the
\* article stays only where nothing else names a lamp, and what is not named
\* at all is no command.  An article said twice is part of the name.
ASSUME LampsNamed ==
    \A target \in Targets, last \in {"light", "lights"} :
        Parse(<<"turn", "on">> \o target \o <<last>>) =
            IF target = <<>> THEN NoMatch
            ELSE IF Len(target) > 1 /\ Head(target) = "the" THEN Lamp(Tail(target))
            ELSE Lamp(target)

Commands == { <<"turn", "off", "the", "kitchen", "lights">>, <<"activate", "kitchen", "scene">>,
              <<"set", "the", "scene", "to", "kitchen">>, <<"what", "is", "the", "kitchen">>,
              <<"tell", "me", "the", "light">>, <<"never", "mind">>, <<"stop">> }

\* Each command is understood, with every politeness in front of it, and with
\* two in the order of the list: in the other order the second one stays, and
\* the command is not understood.
ASSUME PolitenessIgnored ==
    \A command \in Commands :
        /\ Parse(command) # NoMatch
        /\ \A i \in DOMAIN Politeness :
            /\ Parse(Politeness[i] \o command) = Parse(command)
            /\ \A j \in DOMAIN Politeness :
                Parse(Politeness[i] \o Politeness[j] \o command) =
                    IF i <= j THEN Parse(command) ELSE NoMatch

\* A subject never has an empty segment, and only characters a segment may
\* have, whatever the parser made the domain and the verb.
ASSUME SubjectsAreSubjects ==
    LET segments == UNION { [1..n -> Valid \cup {".", "*", ">", "blank"}] : n \in 0..2 }
    IN  \A domain, verb \in segments :
            \A i \in {3, 4} :
                LET segment == SubjectFor(domain, verb)[i]
                IN  segment # <<>> /\ ToSet(segment) \subseteq Valid

Samples == {-32768, -32767, 0, 1}
Recordings == UNION { [1..n -> Samples] : n \in 0..2 }

Piper(wav) == [found |-> TRUE, reads |-> TRUE, status |-> 0, stdout |-> wav]

\* What piper says reaches the file for the player sample by sample, also
\* with a chunk in between and the two in the other order; only the lowest
\* number becomes the one above it.
ASSUME SpokenAsSynthesised ==
    \A samples \in Recordings, rate \in {0, 16000, 22050} :
        LET wav == EncodeWav(samples, rate)
            raw == [wav EXCEPT !.chunks[2].samples = samples]
            list == [id |-> "LIST", size |-> 4, body |-> 4]
            shuffled == [raw EXCEPT !.chunks = <<list, @[2], list, @[1]>>]
        IN  \A given \in {raw, shuffled} :
                /\ ParseWav(given).samples = samples
                /\ Say(Piper(given), TRUE).file = wav
                /\ ParseWav(wav).samples = [i \in DOMAIN samples |->
                        IF samples[i] = -32768 THEN -32767 ELSE samples[i]]

Formats == [id : {"fmt"}, size : {14, 16, 18}, body : {10, 14, 16, 18}, tag : {1, 3},
            channels : {1, 2}, rate : {16000}, bits : {8, 16}]

\* A format the player would not know is an error; a data chunk that was cut
\* is not: what there is of it is played.  Only the last chunk can be cut.
ASSUME OtherFormatsRefused ==
    \A fmt \in Formats, magic \in BOOLEAN, cut \in 0..4 :
        LET data == [id |-> "data", size |-> 4, body |-> cut, samples |-> <<1, 2>>]
            chunks == IF fmt.body < fmt.size THEN <<data, fmt>> ELSE <<fmt, data>>
            audio == ParseWav([magic |-> magic, chunks |-> chunks])
        IN  fmt.body <= fmt.size /\ (fmt.body < fmt.size => cut = 4) /\ audio.ok =>
                /\ magic /\ fmt.size >= 16 /\ fmt.body >= 16
                /\ fmt.tag = 1 /\ fmt.channels = 1 /\ fmt.bits = 16
                /\ audio.samples = SubSeq(<<1, 2>>, 1, cut \div 2)

Options == [use_mic : BOOLEAN, stt_model : BOOLEAN, wake_model : BOOLEAN, dry_run : BOOLEAN]

\* The table of the comment on build_wake, for every build; and no microphone
\* is opened, and no recogniser waits, in a mode that has no audio.
ASSUME SelectionMatrix ==
    \A o \in Options, features \in SUBSET Features :
        LET l == Listen(o, features)
        IN  l.mode = "listening" =>
            /\ l.wake = (CASE ~o.use_mic -> "amplitude"
                           [] o.use_mic /\ ~o.wake_model -> "energy"
                           [] o.use_mic /\ o.wake_model -> "rustpotter")
            /\ l.wake = "rustpotter" => "wake-phrase" \in features
            /\ l.stt = "whisper" => "stt-whisper" \in features /\ l.audio = "cpal"
            /\ l.audio = "no frames" => l.wake = "amplitude" /\ l.stt = "placeholder"

\* With the bus away, what does not need it works, and only that.
ASSUME ModesWithoutBus ==
    /\ \A o \in Options :
        LET command == [name |-> "listen"] @@ o
        IN  Run(command, FALSE, Features).mode = "listening" <=>
                o.dry_run /\ Run(command, TRUE, Features).mode = "listening"
    /\ Run([name |-> "say", piper |-> Piper(EncodeWav(<<1>>, 16000)), writable |-> TRUE],
           FALSE, {}).mode = "said"
    /\ \A text \in Commands \cup {<<"hello">>} :
        /\ Run([name |-> "send", text |-> text, publishes |-> TRUE], FALSE, {}).mode = "failed"
        /\ Run([name |-> "send", text |-> text, publishes |-> TRUE], TRUE, {}).mode = "sent"
            <=> text # <<"hello">>

=============================================================================
