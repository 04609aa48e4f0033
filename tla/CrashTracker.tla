---------------------------- MODULE CrashTracker ----------------------------
(***************************************************************************)
(* The decision side of plugin crash recovery: `CrashTracker` and          *)
(* `backoff` of crates/iot-plugin-host/src/supervisor.rs.                  *)
(*                                                                         *)
(* Time is discrete.  A crash record carries the AGE of the crash instead  *)
(* of its Instant: `r.at >= now - window' is `age <= Window'.  Records are *)
(* pushed in time order, so they are kept oldest first and their ages do   *)
(* not increase along the sequence.  Ages saturate at Window + 1: no       *)
(* decision distinguishes two crashes that are both outside the window.    *)
(***************************************************************************)
EXTENDS Naturals, Sequences, FiniteSets

CONSTANTS
    Window,        \* DEFAULT_WINDOW, in ticks
    MaxInWindow,   \* DEFAULT_MAX_IN_WINDOW
    BackoffBase,   \* DEFAULT_BACKOFF_BASE, in ticks
    BackoffCap     \* DEFAULT_BACKOFF_CAP, in ticks

\* `CrashTracker::new' accepts any policy; a base delay of zero or a cap
\* below the base would make the back-off pointless, and the shipped policy
\* (600 s, 5, 1 s, 30 s) has neither.
ASSUME PolicyAssumption ==
    /\ Window \in Nat
    /\ MaxInWindow \in Nat \ {0}
    /\ BackoffBase \in Nat \ {0}
    /\ BackoffCap \in Nat
    /\ BackoffBase <= BackoffCap

Age == 0 .. Window + 1

Older(age) == IF age > Window THEN age ELSE age + 1

\* One tick on a whole crash history.
Aged(records) == [i \in 1 .. Len(records) |-> Older(records[i])]

\* Mutation of Stale: a crash exactly one window ago is dropped.
StaleTooSoon(records) == { i \in 1 .. Len(records) : records[i] >= Window }

Stale(records) == { i \in 1 .. Len(records) : records[i] > Window }

\* `prune': drop what fell out of the window ending now.  The records are
\* oldest first, so what `retain' drops is a prefix.
Prune(records) ==
    SubSeq(records, Cardinality(Stale(records)) + 1, Len(records))

\* Mutation of Record: only the last crash is remembered.
RecordForgetful(records) == <<0>>

\* The tracker after `record(now)': prune, then push the new crash.
Record(records) == Append(Prune(records), 0)

\* Mutation of Capped: no cap.
Uncapped(delay) == delay

Capped(delay) == IF delay < BackoffCap THEN delay ELSE BackoffCap

\* `1u32 << k'.
PowerOfTwo[k \in Nat] == IF k = 0 THEN 1 ELSE 2 * PowerOfTwo[k - 1]

\* `backoff(count)': base * 2^(count - 1), the exponent clamped to 30.
\* Duration::saturating_mul and checked_shl never saturate below that clamp.
Backoff(count) ==
    LET shift == IF count = 0 THEN 0 ELSE IF count - 1 < 30 THEN count - 1 ELSE 30
    IN  Capped(BackoffBase * PowerOfTwo[shift])

\* The `Decision' of `record', taken on the tracker it leaves behind.
DeadLetters(records) == Len(records) >= MaxInWindow

=============================================================================
