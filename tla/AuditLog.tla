------------------------------ MODULE AuditLog ------------------------------
(***************************************************************************)
(* The append-only, hash-chained audit log: crates/iot-audit/src/lib.rs.   *)
(*                                                                         *)
(* One process holds the log open (the registry).  `append' runs under an  *)
(* async mutex, so at most one append is in progress; it computes the      *)
(* entry from the handle's tail state, writes the line, writes the newline *)
(* and flushes, and only then moves the tail state on.  It can be left at  *)
(* any of these awaits: an I/O error, a cancelled request that drops the   *)
(* future, or the death of the process.                                    *)
(*                                                                         *)
(* SHA-256 is collision free here: the hash of an entry is the sequence of *)
(* payloads it covers.  A payload stands for kind and payload together.    *)
(***************************************************************************)
EXTENDS Integers, Sequences

CONSTANTS
    Payloads,    \* what callers log
    Faults,      \* which of "io", "cancel" and "crash" can happen
    Garbled,     \* a line that does not parse as one Entry
    MaxLines     \* bound: lines in the file before an append starts

ASSUME LogAssumption ==
    /\ Faults \subseteq {"io", "cancel", "crash"}
    /\ MaxLines \in Nat

Hash == Seq(Payloads)
Genesis == <<>>

\* hash_entry: covers prev, kind and payload, neither seq nor the time.
HashEntry(prev, payload) == Append(prev, payload)

Entry == [seq : Nat, prev : Hash, payload : Payloads, hash : Hash]

ASSUME GarbledAssumption == Garbled \notin Entry

VARIABLES
    file,        \* the lines of the file, the last one possibly unterminated
    terminated,  \* whether the file is empty or ends with a newline
    up,          \* whether the process has the log open
    last_seq,    \* Inner.last_seq
    last_hash,   \* Inner.last_hash
    stage,       \* where the append that holds the mutex stands
    entry,       \* the entry it is writing
    acked,       \* history: entries whose append returned Ok
    leftover     \* history: a fault left text the handle does not know about

handle == <<up, last_seq, last_hash>>
logVars == <<file, terminated, handle, stage, entry, acked, leftover>>

Stages == {"free", "line", "newline", "flush"}

LogTypeOK ==
    /\ file \in Seq(Entry \cup {Garbled})
    /\ terminated \in BOOLEAN
    /\ up \in BOOLEAN
    /\ last_seq \in Nat
    /\ last_hash \in Hash
    /\ stage \in Stages
    /\ stage # "free" => entry \in Entry /\ up
    /\ acked \in Seq(Entry)
    /\ leftover \in BOOLEAN

LogInit ==
    /\ file = <<>>
    /\ terminated = TRUE
    /\ up = FALSE
    /\ last_seq = 0
    /\ last_hash = Genesis
    /\ stage = "free"
    /\ entry = Garbled
    /\ acked = <<>>
    /\ leftover = FALSE

-----------------------------------------------------------------------------
Readable == \A i \in 1 .. Len(file) : file[i] # Garbled

\* open, replay_tail: every line has to parse, the last one gives the tail
\* state; an absent or empty file gives (0, "").  An open that meets a line
\* it cannot parse returns the error, and the process does not start.
Open ==
    /\ ~up
    /\ Readable
    /\ up' = TRUE
    /\ \/ /\ file = <<>>
          /\ last_seq' = 0
          /\ last_hash' = Genesis
       \/ /\ file # <<>>
          /\ last_seq' = file[Len(file)].seq
          /\ last_hash' = file[Len(file)].hash
    /\ UNCHANGED <<file, terminated, stage, entry, acked, leftover>>

\* Mutation of Begin: the first entry of a log is numbered like any other.
BeginFromOne(payload) ==
    /\ up
    /\ stage = "free"
    /\ Len(file) < MaxLines
    /\ stage' = "line"
    /\ entry' = [seq     |-> last_seq + 1,
                 prev    |-> last_hash,
                 payload |-> payload,
                 hash    |-> HashEntry(last_hash, payload)]
    /\ UNCHANGED <<file, terminated, handle, acked, leftover>>

\* append takes the mutex and builds the entry from the tail state.
Begin(payload) ==
    /\ up
    /\ stage = "free"
    /\ Len(file) < MaxLines
    /\ stage' = "line"
    /\ entry' = [seq     |-> IF last_hash = Genesis THEN 0 ELSE last_seq + 1,
                 prev    |-> last_hash,
                 payload |-> payload,
                 hash    |-> HashEntry(last_hash, payload)]
    /\ UNCHANGED <<file, terminated, handle, acked, leftover>>

\* Text appended to an unterminated line runs into it.
Written(text) ==
    IF terminated
    THEN Append(file, text)
    ELSE [file EXCEPT ![Len(file)] = Garbled]

\* Mutation of WriteLine: the line stays in a buffer nobody flushes.
WriteLineBuffered ==
    /\ stage = "line"
    /\ stage' = "newline"
    /\ UNCHANGED <<file, terminated, handle, entry, acked, leftover>>

\* The first write_all: the line, not yet its newline.
WriteLine ==
    /\ stage = "line"
    /\ file' = Written(entry)
    /\ terminated' = FALSE
    /\ stage' = "newline"
    /\ UNCHANGED <<handle, entry, acked, leftover>>

WriteNewline ==
    /\ stage = "newline"
    /\ terminated' = TRUE
    /\ stage' = "flush"
    /\ UNCHANGED <<file, handle, entry, acked, leftover>>

\* flush returned: the tail state moves on, append returns Ok(entry).
Commit ==
    /\ stage = "flush"
    /\ last_seq' = entry.seq
    /\ last_hash' = entry.hash
    /\ acked' = Append(acked, entry)
    /\ stage' = "free"
    /\ entry' = Garbled
    /\ UNCHANGED <<file, terminated, up, leftover>>

-----------------------------------------------------------------------------
(***************************************************************************)
(* Faults.  An append that does not reach its end releases the mutex and   *)
(* leaves the tail state alone.  tokio's File hands every write_all to a   *)
(* thread pool and awaits it at the next call: a stage says which text has *)
(* reached the file, and text that was handed over is taken to reach it    *)
(* before the next append writes.                                          *)
(***************************************************************************)

\* Mutation of Abandon: the mutex is never released.
AbandonLocked ==
    /\ Faults \cap {"io", "cancel"} # {}
    /\ stage # "free"
    /\ leftover' = (leftover \/ stage \in {"newline", "flush"})
    /\ entry' = Garbled
    /\ UNCHANGED <<file, terminated, handle, stage, acked>>

\* `?' on an I/O error, or the future dropped at an await by its caller.
Abandon ==
    /\ Faults \cap {"io", "cancel"} # {}
    /\ stage # "free"
    /\ leftover' = (leftover \/ stage \in {"newline", "flush"})
    /\ stage' = "free"
    /\ entry' = Garbled
    /\ UNCHANGED <<file, terminated, handle, acked>>

\* The disk fills up in the middle of the line.
TornWrite ==
    /\ "io" \in Faults
    /\ stage = "line"
    /\ file' = Written(Garbled)
    /\ terminated' = FALSE
    /\ leftover' = TRUE
    /\ stage' = "free"
    /\ entry' = Garbled
    /\ UNCHANGED <<handle, acked>>

\* The process dies: what it has written stays, a line perhaps in part.
Crash ==
    /\ "crash" \in Faults
    /\ up
    /\ up' = FALSE
    /\ stage' = "free"
    /\ entry' = Garbled
    /\ \/ /\ leftover' = (leftover \/ stage = "newline")
          /\ UNCHANGED <<file, terminated>>
       \/ /\ stage = "line"
          /\ file' = Written(Garbled)
          /\ terminated' = FALSE
          /\ leftover' = TRUE
    /\ UNCHANGED <<last_seq, last_hash, acked>>

\* An orderly stop, between two appends.
Stop ==
    /\ up
    /\ stage = "free"
    /\ up' = FALSE
    /\ UNCHANGED <<file, terminated, last_seq, last_hash, stage, entry, acked,
                   leftover>>

LogNext ==
    \/ Open
    \/ \E payload \in Payloads : Begin(payload)
    \/ WriteLine
    \/ WriteNewline
    \/ Commit
    \/ Abandon
    \/ TornWrite
    \/ Crash
    \/ Stop

LogSpec == LogInit /\ [][LogNext]_logVars

-----------------------------------------------------------------------------
\* `verify': every line parses, seq counts from 0, prev is the hash before
\* it and the stored hash is the recomputed one.
Link(i) ==
    /\ file[i] # Garbled
    /\ file[i].seq = i - 1
    /\ file[i].prev = (IF i = 1 THEN Genesis ELSE file[i - 1].hash)
    /\ file[i].hash = HashEntry(file[i].prev, file[i].payload)

Verifies == \A i \in 1 .. Len(file) : Link(i)

(***************************************************************************)
(* Unless a fault left text behind that the handle does not know about,    *)
(* the file verifies at every moment: across restarts, orderly stops, and  *)
(* faults that struck before the first byte or after the newline of an     *)
(* append whose process died with it.                                      *)
(***************************************************************************)
ChainIntact == ~leftover => Verifies

(***************************************************************************)
(* A verified file is complete: it holds every entry whose append returned *)
(* Ok, in that order, whatever faults occurred.  A fault may make the file *)
(* fail verification, never make it pass with an acknowledged entry gone.  *)
(***************************************************************************)
VerifiedMeansComplete ==
    Verifies =>
        \A i \in 1 .. Len(acked) :
            \E n \in 1 .. Len(file) :
                /\ file[n] = acked[i]
                /\ \A j \in 1 .. i - 1 : \E m \in 1 .. n - 1 : file[m] = acked[j]

=============================================================================
