------------------------------ MODULE History ------------------------------
(***************************************************************************)
(* The table of the history store, crates/iot-history/src/lib.rs, and its  *)
(* statements.  A row says which device token a message came in under, and *)
(* when; `of` is the device the message was about, which the table does    *)
(* not know.                                                               *)
(***************************************************************************)
EXTENDS Naturals, Sequences, FiniteSets, FiniteSetsExt, SequencesExt

Record(rows, token, now, of) ==
    rows \cup {[n |-> 1 + Max({0} \cup { r.n : r \in rows }), device_id |-> token, ts |-> now, of |-> of]}

InRange(rows, token, from, to) ==
    { r \in rows : r.device_id = token /\ r.ts >= from /\ r.ts <= to }

\* ORDER BY ts DESC LIMIT: rows of one time come in any order.
Newest(found, limit) ==
    { page \in kSubset(IF limit < Cardinality(found) THEN limit ELSE Cardinality(found), found) :
          \A r \in page, q \in found \ page : r.ts >= q.ts }

FetchRange(rows, token, from, to, limit) == Newest(InRange(rows, token, from, to), limit)

\* get_device_history: the bounds default to the epoch and to now, the limit
\* to 500, and it is kept within 1 .. 5000.  None stands for a parameter
\* that is absent.
CONSTANTS None, DefaultLimit, MaxLimit

Clamp(limit) ==
    IF limit = None THEN DefaultLimit
    ELSE IF limit < 1 THEN 1 ELSE IF limit > MaxLimit THEN MaxLimit ELSE limit

GetDeviceHistory(rows, token, from, to, limit, now) ==
    FetchRange(rows, token, IF from = None THEN 0 ELSE from,
               IF to = None THEN now ELSE to, Clamp(limit))

PruneOlderThan(rows, cutoff) == { r \in rows : r.ts >= cutoff }

PruneForDevice(rows, token, cutoff) ==
    { r \in rows : r.device_id # token \/ (cutoff # None /\ r.ts >= cutoff) }

\* iotctl history prune: at least one filter.
Prune(rows, token, cutoff) ==
    IF token = None /\ cutoff = None THEN rows
    ELSE IF token = None THEN PruneOlderThan(rows, cutoff)
    ELSE PruneForDevice(rows, token, cutoff)

=============================================================================
