--------------------------- MODULE GatewayStream ---------------------------
(***************************************************************************)
(* One WebSocket of the panel: crates/iot-gateway/src/stream.rs, with the  *)
(* replay of crates/iot-bus/src/jetstream.rs.                              *)
(*                                                                         *)
(* handle_socket subscribes, sends the retained state of each subject, and *)
(* only then forwards what has arrived on the subscription meanwhile.  The *)
(* retained state comes from a JetStream stream that holds one message per *)
(* subject; a wildcard replay reads it batch by batch while devices go on  *)
(* publishing.                                                             *)
(*                                                                         *)
(* A message is its number in the order of publication.                    *)
(***************************************************************************)
EXTENDS Naturals, Sequences, FiniteSets, FiniteSetsExt

CONSTANTS
    Subjects,
    HardCap,        \* REPLAY_HARD_CAP
    BatchSize,      \* REPLAY_BATCH_SIZE
    Buffer,         \* what the subscription holds for the handler
    MaxPublishes,   \* bound: messages
    MaxPurges       \* bound: purges of the stream

\* The constants are checked at compile time in jetstream.rs.
ASSUME StreamAssumption ==
    /\ IsFiniteSet(Subjects)
    /\ BatchSize \in Nat \ {0} /\ HardCap \in Nat /\ HardCap > BatchSize
    /\ Buffer \in Nat /\ MaxPublishes \in Nat /\ MaxPurges \in Nat

VARIABLES
    log,        \* the subjects of all messages, in the order of publication
    stream,     \* the messages DEVICE_STATE holds
    stage,      \* where handle_socket stands
    topics,     \* the subjects the client's filter matches
    inbox,      \* the subscription: what arrived and was not taken
    cursor,     \* the last message the ephemeral consumer delivered
    target,     \* target_total
    left,       \* how many messages of the current batch may still come
    got_any,
    out,        \* the replay to be sent
    view,       \* per subject, the message the client shows
    excused,    \* history: a failed or truncated replay, or an overflow
    purges      \* history, for the bound

replay == <<cursor, target, left, got_any>>
streamVars == <<log, stream, stage, topics, inbox, replay, out, view, excused, purges>>

Stages == {"connecting", "replay", "count", "fetch", "batch", "send", "live", "closed"}

Messages == 1 .. Len(log)
Matching == { n \in stream : log[n] \in topics }
InSeq(n, seq) == \E i \in 1 .. Len(seq) : seq[i] = n

StreamTypeOK ==
    /\ log \in Seq(Subjects)
    /\ stream \subseteq Messages
    /\ \A m, n \in stream : log[m] = log[n] => m = n
    /\ stage \in Stages
    /\ topics \subseteq Subjects
    /\ inbox \in Seq(Messages) /\ Len(inbox) <= Buffer
    /\ cursor \in 0 .. Len(log)
    /\ target \in 0 .. HardCap
    /\ left \in 0 .. BatchSize
    /\ got_any \in BOOLEAN
    /\ out \in Seq(Messages)
    /\ stage \in {"fetch", "batch"} => Len(out) + left <= target
    /\ view \in [Subjects -> 0 .. Len(log)]
    /\ excused \in BOOLEAN
    /\ purges \in 0 .. MaxPurges

StreamInit ==
    /\ log = <<>>
    /\ stream = {}
    /\ stage = "connecting"
    /\ topics = {}
    /\ inbox = <<>>
    /\ cursor = 0 /\ target = 0 /\ left = 0 /\ got_any = FALSE
    /\ out = <<>>
    /\ view = [s \in Subjects |-> 0]
    /\ excused = FALSE
    /\ purges = 0

-----------------------------------------------------------------------------
(***************************************************************************)
(* The bus.                                                                *)
(***************************************************************************)

Subscribed == stage \notin {"connecting", "closed"}

\* A message goes to the subscription, unless that is full, and takes the
\* place of its predecessor in the stream.
Publish(s) ==
    LET n == Len(log) + 1
        heard == Subscribed /\ s \in topics
    IN  /\ n <= MaxPublishes
        /\ log' = Append(log, s)
        /\ stream' = { m \in stream : log[m] # s } \cup {n}
        /\ inbox' = IF heard /\ Len(inbox) < Buffer THEN Append(inbox, n) ELSE inbox
        /\ excused' = (excused \/ (heard /\ Len(inbox) = Buffer))
        /\ UNCHANGED <<stage, topics, replay, out, view, purges>>

\* "the stream was purged"
Purge ==
    /\ purges < MaxPurges
    /\ purges' = purges + 1
    /\ stream' = {}
    /\ UNCHANGED <<log, stage, topics, inbox, replay, out, view, excused>>

-----------------------------------------------------------------------------
(***************************************************************************)
(* handle_socket up to the replay.                                         *)
(***************************************************************************)

\* The filter names one subject, all of them with a wildcard, or, under
\* another of the prefixes, none that is retained.
Filters == {Subjects, {}} \cup { {s} : s \in Subjects }

\* Mutation of Subscribe: the subscription is opened after the replay, so
\* that what was published in between is not in it.
SubscribeLate ==
    /\ \/ /\ stage = "connecting"
          /\ topics' \in Filters
          /\ stage' = "replay"
          /\ UNCHANGED inbox
       \/ /\ stage = "send" /\ out = <<>>
          /\ stage' = "live"
          /\ inbox' = <<>>
          /\ UNCHANGED topics
    /\ UNCHANGED <<log, stream, replay, out, view, excused, purges>>

\* The bus handles the subscription before the requests that follow it on
\* the same connection.
Subscribe ==
    /\ stage = "connecting"
    /\ topics' \in Filters
    /\ stage' = "replay"
    /\ UNCHANGED <<log, stream, inbox, replay, out, view, excused, purges>>

\* A filter outside the prefixes, no bus, no valid token, no subscription.
Refuse ==
    /\ stage = "connecting"
    /\ stage' = "closed"
    /\ UNCHANGED <<log, stream, topics, inbox, replay, out, view, excused, purges>>

\* The replay fails with a log line, for want of the stream or by an error:
\* nothing of it is sent.
ReplayFails ==
    /\ stage \in {"replay", "count", "fetch", "batch"}
    /\ stage' = "live"
    /\ out' = <<>>
    /\ excused' = TRUE
    /\ UNCHANGED <<log, stream, topics, inbox, replay, view, purges>>

\* last_state: the one message of a concrete subject, if there is one.
LastState ==
    /\ stage = "replay"
    /\ Cardinality(topics) <= 1
    /\ out' \in IF Matching = {} THEN {<<>>} ELSE { <<n>> : n \in Matching }
    /\ stage' = "send"
    /\ UNCHANGED <<log, stream, topics, inbox, replay, view, excused, purges>>

-----------------------------------------------------------------------------
(***************************************************************************)
(* last_state_wildcard.                                                    *)
(***************************************************************************)

\* get_stream and create_consumer: each of the retained messages is the
\* last one of its subject.
CreateConsumer ==
    /\ stage = "replay"
    /\ Cardinality(topics) > 1
    /\ cursor' = 0
    /\ stage' = "count"
    /\ UNCHANGED <<log, stream, topics, inbox, target, left, got_any, out, view,
                   excused, purges>>

Smaller(m, n) == IF m < n THEN m ELSE n

\* Mutation of CountPending: not capped.
CountPendingUncapped ==
    LET pending == Cardinality(Matching)
    IN  /\ stage = "count"
        /\ target' = pending
        /\ excused' = (excused \/ pending > HardCap)
        /\ stage' = IF pending = 0 THEN "send" ELSE "fetch"
        /\ UNCHANGED <<log, stream, topics, inbox, cursor, left, got_any, out, view, purges>>

\* info: num_pending, capped.
CountPending ==
    LET pending == Cardinality(Matching)
    IN  /\ stage = "count"
        /\ target' = Smaller(pending, HardCap)
        /\ excused' = (excused \/ pending > HardCap)
        /\ stage' = IF pending = 0 THEN "send" ELSE "fetch"
        /\ UNCHANGED <<log, stream, topics, inbox, cursor, left, got_any, out, view, purges>>

FetchBatch ==
    /\ stage = "fetch"
    /\ Len(out) < target
    /\ left' = Smaller(target - Len(out), BatchSize)
    /\ got_any' = FALSE
    /\ stage' = "batch"
    /\ UNCHANGED <<log, stream, topics, inbox, cursor, target, out, view, excused, purges>>

Ahead == { n \in Matching : n > cursor }

\* The server delivers the next message; at the hard cap the loop breaks.
Receive ==
    /\ stage = "batch"
    /\ left > 0
    /\ Ahead # {}
    /\ cursor' = Min(Ahead)
    /\ out' = Append(out, cursor')
    /\ left' = left - 1
    /\ got_any' = TRUE
    /\ stage' = IF Len(out') >= HardCap THEN "send" ELSE stage
    /\ UNCHANGED <<log, stream, topics, inbox, target, view, excused, purges>>

\* Mutation of EndBatch: an empty batch is followed by another one.
EndBatchInsists ==
    /\ stage = "batch"
    /\ left = 0 \/ Ahead = {}
    /\ left' = 0
    /\ stage' = "fetch"
    /\ UNCHANGED <<log, stream, topics, inbox, cursor, target, got_any, out, view,
                   excused, purges>>

\* The batch is full, or the server has no more: an empty one is the last.
EndBatch ==
    /\ stage = "batch"
    /\ left = 0 \/ Ahead = {}
    /\ left' = 0
    /\ stage' = IF got_any THEN "fetch" ELSE "send"
    /\ UNCHANGED <<log, stream, topics, inbox, cursor, target, got_any, out, view,
                   excused, purges>>

FetchDone ==
    /\ stage = "fetch"
    /\ Len(out) >= target
    /\ stage' = "send"
    /\ UNCHANGED <<log, stream, topics, inbox, replay, out, view, excused, purges>>

-----------------------------------------------------------------------------
(***************************************************************************)
(* handle_socket from the replay on.                                       *)
(***************************************************************************)

Shows(n) == view' = [view EXCEPT ![log[n]] = n]

\* Mutation of SendReplay: what was replayed is taken off the subscription.
SendReplayOnce ==
    /\ stage = "send"
    /\ out # <<>>
    /\ Shows(Head(out))
    /\ out' = Tail(out)
    /\ inbox' = SelectSeq(inbox, LAMBDA n : n # Head(out))
    /\ UNCHANGED <<log, stream, stage, topics, replay, excused, purges>>

SendReplay ==
    /\ stage = "send"
    /\ out # <<>>
    /\ Shows(Head(out))
    /\ out' = Tail(out)
    /\ UNCHANGED <<log, stream, stage, topics, inbox, replay, excused, purges>>

GoLive ==
    /\ stage = "send"
    /\ out = <<>>
    /\ stage' = "live"
    /\ UNCHANGED <<log, stream, topics, inbox, replay, out, view, excused, purges>>

SendLive ==
    /\ stage = "live"
    /\ inbox # <<>>
    /\ Shows(Head(inbox))
    /\ inbox' = Tail(inbox)
    /\ UNCHANGED <<log, stream, stage, topics, replay, out, excused, purges>>

\* A send fails, the client closes, or the subscription ends.
Close ==
    /\ stage \in {"send", "live"}
    /\ stage' = "closed"
    /\ UNCHANGED <<log, stream, topics, inbox, replay, out, view, excused, purges>>

-----------------------------------------------------------------------------
Handler ==
    \/ Subscribe \/ Refuse
    \/ LastState \/ CreateConsumer \/ CountPending
    \/ FetchBatch \/ Receive \/ EndBatch \/ FetchDone
    \/ ReplayFails
    \/ SendReplay \/ GoLive \/ SendLive

StreamNext ==
    \/ \E s \in Subjects : Publish(s)
    \/ Purge
    \/ Handler
    \/ Close

StreamSpec == StreamInit /\ [][StreamNext]_streamVars

\* The handler is polled, the bus answers, the client reads or goes away.
StreamFairSpec == StreamSpec /\ WF_streamVars(Handler)

-----------------------------------------------------------------------------
(***************************************************************************)
(* Properties.                                                             *)
(***************************************************************************)

(***************************************************************************)
(* Nothing falls between replay and subscription: once the replay is read, *)
(* the state that is retained of each subject is on the screen, in what is *)
(* to be sent of the replay, or on the subscription; unless the replay     *)
(* failed or was truncated, or the subscription overflowed.  It depends on *)
(* the order of handle_socket, which subscribes first, and on the count of *)
(* last_state_wildcard, taken while devices publish.                       *)
(***************************************************************************)
NothingMissed ==
    stage \in {"send", "live"} /\ ~excused =>
        \A n \in Matching : view[log[n]] = n \/ InSeq(n, out) \/ InSeq(n, inbox)

(***************************************************************************)
(* The screen may go back to an older state, when a message that arrived   *)
(* during the replay is older than what the replay showed: but then the    *)
(* newer one is still to come.                                             *)
(***************************************************************************)
RewindIsRepaired ==
    [][\A s \in Subjects :
           view'[s] < view[s] /\ ~excused' => InSeq(view[s], inbox')]_streamVars

(***************************************************************************)
(* The replay ends, also when the stream holds less than was counted ("Stop *)
(* instead of looping forever"): the client gets live messages.            *)
(***************************************************************************)
GoesLive == stage = "replay" ~> stage \in {"live", "closed"}

=============================================================================
