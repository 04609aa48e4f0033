------------------------------ MODULE Registry ------------------------------
(***************************************************************************)
(* The device registry: the gRPC service (crates/iot-registry/src/         *)
(* service.rs), the bus watcher (bus_watcher.rs) and the SQLite repository *)
(* both share (repo.rs).                                                   *)
(*                                                                         *)
(* A handler awaits between its steps: the commit of `upsert', the two     *)
(* reads of `get' outside that transaction, the audit entry, the bus       *)
(* notification.  The watcher handles one message at a time with steps of  *)
(* the same kind.  SQLite is external: a transaction takes effect at once  *)
(* or fails.  A device's content is the number of the write that made it,  *)
(* once for the row and once for rooms, capabilities and entities.         *)
(***************************************************************************)
EXTENDS Naturals, Sequences, FiniteSets

CONSTANTS
    Callers,     \* gRPC requests that can be in progress at once
    Watcher,     \* the bus watcher task
    Natives,     \* device ids as the integrations know them
    None,
    MaxWrites,   \* bound: committed upserts, and those that may follow
    MaxBus       \* bound: messages on the way to the watcher

\* What Ulid::new yields, in the order it does: ULIDs grow with time.
Ulids == 1 .. MaxWrites

ASSUME RegistryAssumption ==
    /\ Watcher \notin Callers
    /\ IsFiniteSet(Callers)
    /\ Natives \cap (Nat \X {"upper", "lower"}) = {}
    /\ None \notin Natives \cup (Nat \X {"upper", "lower"})
    /\ None \notin [external : Natives \cup (Nat \X {"lower"}), row : Nat, parts : Nat]
    /\ None \notin [op : {"upsert", "delete", "find", "register"},
                    id : (Nat \X {"upper", "lower"}) \cup {None},
                    external : Natives \cup (Nat \X {"lower"}) \cup {None},
                    created : BOOLEAN, row : Nat, parts : Nat]
    /\ MaxWrites \in Nat /\ MaxBus \in Nat

Tasks == Callers \cup {Watcher}

\* Ids are case-sensitive strings.  Ulid::to_string is upper case; subjects
\* and clients that take an id from a subject have it in lower case.
Ids == Ulids \X {"upper", "lower"}
SameUlid(id, token) == token \in Ids /\ id[1] = token[1]

\* The device token of a subject: a native id or a ULID.
Tokens == Natives \cup (Ulids \X {"lower"})

VARIABLES
    rows,      \* the devices table with its child tables
    minted,    \* how many ULIDs have been given to a device
    writes,    \* committed upserts
    pc,        \* the next step of each task
    call,      \* its request or message and what it has read so far
    bus,       \* device messages the watcher has not taken
    audit,     \* the audit log: how often it holds each entry
    db,        \* whether some other connection keeps the database locked
    deletes,   \* history: deletes per id
    known      \* history: the watcher's device existed since it took the message

vars == <<rows, minted, writes, pc, call, bus, audit, db, deletes, known>>

Row == [external : Tokens, row : 1 .. MaxWrites, parts : 1 .. MaxWrites]

\* `created' is created_before of upsert_device.
Call == [op : {"upsert", "delete", "find", "register"}, id : Ids \cup {None},
         external : Tokens \cup {None}, created : BOOLEAN,
         row : 0 .. MaxWrites, parts : 0 .. MaxWrites]

\* The three queries of `get' for what belongs to a device.
Queries == {"rooms", "capabilities", "entities"}
AfterRead == {"capabilities", "entities", "audit", "publish"}
Points == {"idle", "upsert", "delete", "row", "audit", "publish", "touch", "find", "bump"}
            \cup Queries

AuditEntry == [kind : {"device.created", "device.updated", "device.deleted"},
               id : Ids]

TypeOK ==
    /\ rows \in [Ids -> Row \cup {None}]
    /\ minted \in 0 .. MaxWrites
    /\ writes \in 0 .. MaxWrites
    /\ pc \in [Tasks -> Points]
    /\ call \in [Tasks -> Call \cup {None}]
    /\ \A t \in Tasks : pc[t] = "idle" <=> call[t] = None
    /\ bus \in Seq(Tokens) /\ Len(bus) <= MaxBus
    /\ audit \in [AuditEntry -> Nat]
    /\ db \in {"open", "locked"}
    /\ deletes \in [Ids -> Nat]
    /\ known \in BOOLEAN

Init ==
    /\ rows = [id \in Ids |-> None]
    /\ minted = 0
    /\ writes = 0
    /\ pc = [t \in Tasks |-> "idle"]
    /\ call = [t \in Tasks |-> None]
    /\ bus = <<>>
    /\ audit = [told \in AuditEntry |-> 0]
    /\ db = "open"
    /\ deletes = [id \in Ids |-> 0]
    /\ known = FALSE

Go(t, point) == pc' = [pc EXCEPT ![t] = point]

Request(op, id, external) ==
    [op |-> op, id |-> id, external |-> external, created |-> id = None,
     row |-> 0, parts |-> 0]

\* The task is done with its request or message, whatever came of it.
Finish(t) ==
    /\ pc' = [pc EXCEPT ![t] = "idle"]
    /\ call' = [call EXCEPT ![t] = None]

Present == { id \in Ids : rows[id] # None }

\* The bound on writes is kept by not starting what may lead to one more.
HasBudget ==
    LET pending == { t \in Tasks : pc[t] \in {"touch", "find", "upsert"} }
    IN  writes + Len(bus) + Cardinality(pending) < MaxWrites

-----------------------------------------------------------------------------
(***************************************************************************)
(* The repository.                                                         *)
(***************************************************************************)

\* Mutation of Conflict: a schema without the constraint.
ConflictNever(id, external) == FALSE

\* UNIQUE (integration, external_id): no other row has the native id.
Conflict(id, external) ==
    \E other \in Present \ {id} : rows[other].external = external

\* Mutation of Upsert: an update leaves the child rows as they are.
UpsertRowOnly(t) ==
    /\ pc[t] = "upsert"
    /\ \E id \in IF call[t].id = None
                 THEN {<<minted + 1, "upper">>}
                 ELSE {call[t].id} :
          \/ /\ ~Conflict(id, call[t].external)
             /\ writes' = writes + 1
             /\ rows' = [rows EXCEPT ![id] =
                           [external |-> call[t].external,
                            row      |-> writes + 1,
                            parts    |-> IF @ = None THEN writes + 1 ELSE @.parts]]
             /\ minted' = IF call[t].id = None THEN minted + 1 ELSE minted
             /\ call' = [call EXCEPT ![t].id = id]
             /\ Go(t, "row")
          \/ /\ Conflict(id, call[t].external)
             /\ Finish(t)
             /\ UNCHANGED <<rows, minted, writes>>
    /\ UNCHANGED <<bus, audit, db, deletes>>

\* upsert: one transaction on the row and its children.  A request without
\* an id gets a new ULID.
Upsert(t) ==
    /\ pc[t] = "upsert"
    /\ \E id \in IF call[t].id = None
                 THEN {<<minted + 1, "upper">>}
                 ELSE {call[t].id} :
          \/ /\ ~Conflict(id, call[t].external)
             /\ writes' = writes + 1
             /\ rows' = [rows EXCEPT ![id] = [external |-> call[t].external,
                                              row      |-> writes + 1,
                                              parts    |-> writes + 1]]
             /\ minted' = IF call[t].id = None THEN minted + 1 ELSE minted
             /\ call' = [call EXCEPT ![t].id = id]
             /\ Go(t, "row")
          \/ /\ Conflict(id, call[t].external)
             /\ Finish(t)
             /\ UNCHANGED <<rows, minted, writes>>
    /\ UNCHANGED <<bus, audit, db, deletes>>

\* get, first query: the device row, or NotFound.
ReadRow(t) ==
    /\ pc[t] = "row"
    /\ \/ /\ call[t].id \in Present
          /\ call' = [call EXCEPT ![t].row = rows[call[t].id].row]
          /\ Go(t, "rooms")
       \/ /\ call[t].id \notin Present
          /\ Finish(t)
    /\ UNCHANGED <<rows, minted, writes, bus, audit, db, deletes>>

\* get, the other queries: rooms, capabilities, entities; none if the device
\* has gone.  Then upsert_device audits, find_by_external_id has its device
\* and the watcher's registration is over.  `parts' is the age of the last
\* one read.
AfterQuery(t) ==
    CASE pc[t] = "rooms"        -> "capabilities"
      [] pc[t] = "capabilities" -> "entities"
      [] pc[t] = "entities"     -> IF call[t].op = "find" THEN "bump" ELSE "audit"

ReadPart(t) ==
    /\ pc[t] \in Queries
    /\ \/ /\ pc[t] = "entities" /\ call[t].op = "register"
          /\ Finish(t)
       \/ /\ pc[t] = "entities" => call[t].op # "register"
          /\ call' = [call EXCEPT ![t].parts =
                         IF call[t].id \in Present
                         THEN rows[call[t].id].parts
                         ELSE 0]
          /\ Go(t, AfterQuery(t))
    /\ UNCHANGED <<rows, minted, writes, bus, audit, db, deletes>>

\* Any of these statements fails when the busy timeout of a locked database
\* runs out; the error ends the request, or the handling of the message.
DbError(t) ==
    /\ db = "locked"
    /\ pc[t] \in {"upsert", "delete", "row", "touch", "find", "bump"} \cup Queries
    /\ Finish(t)
    /\ UNCHANGED <<rows, minted, writes, bus, audit, db, deletes>>

DbChanges ==
    /\ db' \in {"open", "locked"} \ {db}
    /\ UNCHANGED <<rows, minted, writes, pc, call, bus, audit, deletes>>

-----------------------------------------------------------------------------
(***************************************************************************)
(* The gRPC service.                                                       *)
(***************************************************************************)

\* Clients name a device by an id they were given, in either case.
Nameable == (1 .. minted) \X {"upper", "lower"}

CallUpsert(c, id, native) ==
    /\ pc[c] = "idle"
    /\ HasBudget
    /\ call' = [call EXCEPT ![c] = Request("upsert", id, native)]
    /\ Go(c, "upsert")
    /\ UNCHANGED <<rows, minted, writes, bus, audit, db, deletes>>

CallDelete(c, id) ==
    /\ pc[c] = "idle"
    /\ call' = [call EXCEPT ![c] = Request("delete", id, None)]
    /\ Go(c, "delete")
    /\ UNCHANGED <<rows, minted, writes, bus, audit, db, deletes>>

\* Mutation of Delete: what was not there is audited, too.
DeleteUnchecked(c) ==
    /\ pc[c] = "delete"
    /\ LET id == call[c].id
       IN  /\ rows' = [rows EXCEPT ![id] = None]
           /\ deletes' = [deletes EXCEPT ![id] = IF id \in Present THEN @ + 1 ELSE @]
    /\ Go(c, "audit")
    /\ UNCHANGED <<call, minted, writes, bus, audit, db>>

\* delete: only a row that was there is audited; children cascade.
Delete(c) ==
    /\ pc[c] = "delete"
    /\ LET id == call[c].id
       IN  \/ /\ id \in Present
              /\ rows' = [rows EXCEPT ![id] = None]
              /\ deletes' = [deletes EXCEPT ![id] = @ + 1]
              /\ Go(c, "audit")
              /\ UNCHANGED call
           \/ /\ Finish(c)
              /\ UNCHANGED <<rows, deletes>>
    /\ UNCHANGED <<minted, writes, bus, audit, db>>

Kind(request) ==
    CASE request.op = "delete" -> "device.deleted"
      [] request.created       -> "device.created"
      [] OTHER                 -> "device.updated"

\* audit_write: best effort.  A deletion is answered after it.
AuditWrite(c) ==
    /\ pc[c] = "audit"
    /\ \/ audit' = [audit EXCEPT ![[kind |-> Kind(call[c]), id |-> call[c].id]] = @ + 1]
       \/ UNCHANGED audit
    /\ \/ /\ call[c].op = "delete"
          /\ Finish(c)
       \/ /\ call[c].op = "upsert"
          /\ Go(c, "publish")
          /\ UNCHANGED call
    /\ UNCHANGED <<rows, minted, writes, bus, db, deletes>>

\* subjects::device_state refuses upper-case tokens.
ValidToken(id) == id[2] = "lower"

\* Mutation of Publish: the subject is put together without validation.
PublishUnvalidated(c) ==
    /\ pc[c] = "publish"
    /\ \/ /\ Len(bus) < MaxBus
          /\ HasBudget
          /\ bus' = Append(bus, call[c].id)
       \/ UNCHANGED bus
    /\ Finish(c)
    /\ UNCHANGED <<rows, minted, writes, audit, db, deletes>>

\* bus_publish_state: best effort; the watcher hears it like any other
\* device message.  Then the call is answered.
Publish(c) ==
    /\ pc[c] = "publish"
    /\ \/ /\ ValidToken(call[c].id)
          /\ Len(bus) < MaxBus
          /\ HasBudget
          /\ bus' = Append(bus, call[c].id)
       \/ UNCHANGED bus
    /\ Finish(c)
    /\ UNCHANGED <<rows, minted, writes, audit, db, deletes>>

\* The client goes away: tonic drops the handler at an await.
Cancel(c) ==
    /\ pc[c] # "idle"
    /\ Finish(c)
    /\ UNCHANGED <<rows, minted, writes, bus, audit, db, deletes>>

-----------------------------------------------------------------------------
(***************************************************************************)
(* The bus watcher.                                                        *)
(***************************************************************************)

\* A plugin publishes a state, event or avail message for its device.
DevicePublishes(token) ==
    /\ Len(bus) < MaxBus
    /\ HasBudget
    /\ bus' = Append(bus, token)
    /\ UNCHANGED <<rows, minted, writes, pc, call, audit, db, deletes>>

TakeMessage ==
    /\ pc[Watcher] = "idle"
    /\ bus # <<>>
    /\ bus' = Tail(bus)
    /\ call' = [call EXCEPT ![Watcher] = Request("find", None, Head(bus))]
    /\ Go(Watcher, "touch")
    /\ UNCHANGED <<rows, minted, writes, audit, db, deletes>>

\* Mutation of Touch: the token is compared with the id as it stands.
TouchExact ==
    /\ pc[Watcher] = "touch"
    /\ \/ /\ call[Watcher].external \in Present
          /\ Finish(Watcher)
       \/ /\ call[Watcher].external \notin Present
          /\ Go(Watcher, "find")
          /\ UNCHANGED call
    /\ UNCHANGED <<rows, minted, writes, bus, audit, db, deletes>>

\* Path 1: touch_last_seen with the token as an id, in any case.
Touch ==
    /\ pc[Watcher] = "touch"
    /\ \/ /\ \E id \in Present : SameUlid(id, call[Watcher].external)
          /\ Finish(Watcher)
       \/ /\ \A id \in Present : ~SameUlid(id, call[Watcher].external)
          /\ Go(Watcher, "find")
          /\ UNCHANGED call
    /\ UNCHANGED <<rows, minted, writes, bus, audit, db, deletes>>

\* Mutation of Find: no path 3, an unknown device is ignored.
FindOnly ==
    /\ pc[Watcher] = "find"
    /\ LET found == { id \in Present : rows[id].external = call[Watcher].external }
       IN  \/ \E id \in found :
                 /\ call' = [call EXCEPT ![Watcher].id = id]
                 /\ Go(Watcher, "row")
           \/ /\ found = {}
              /\ Finish(Watcher)
    /\ UNCHANGED <<rows, minted, writes, bus, audit, db, deletes>>

\* Path 2: the token as an external_id; path 3 follows if nothing is found.
Find ==
    /\ pc[Watcher] = "find"
    /\ LET token == call[Watcher].external
           found == { id \in Present : rows[id].external = token }
       IN  \/ \E id \in found :
                 /\ call' = [call EXCEPT ![Watcher].id = id]
                 /\ Go(Watcher, "row")
           \/ /\ found = {}
              /\ call' = [call EXCEPT ![Watcher] = Request("register", None, token)]
              /\ Go(Watcher, "upsert")
    /\ UNCHANGED <<rows, minted, writes, bus, audit, db, deletes>>

\* touch_last_seen by the id that was found; whether it hit is ignored.
Bump ==
    /\ pc[Watcher] = "bump"
    /\ Finish(Watcher)
    /\ UNCHANGED <<rows, minted, writes, bus, audit, db, deletes>>

-----------------------------------------------------------------------------
Repo(t) == Upsert(t) \/ ReadRow(t) \/ ReadPart(t) \/ DbError(t)

Watch == TakeMessage \/ Touch \/ Find \/ Bump \/ Repo(Watcher)

Answer(c) == Repo(c) \/ Delete(c) \/ AuditWrite(c) \/ Publish(c)

\* Whether a device the token stands for is in the table.
Registered(table, token) ==
    \E id \in Ids :
        /\ table[id] # None
        /\ SameUlid(id, token) \/ table[id].external = token

\* `known' is written by every step: it says what happened around the
\* watcher since it took the message it is busy with.
Observe ==
    known' = /\ call'[Watcher] # None
             /\ \/ Registered(rows', call'[Watcher].external)
                \/ known /\ call[Watcher] # None

Next ==
    /\ \/ Watch
       \/ \E c \in Callers :
             \/ Answer(c)
             \/ Cancel(c)
             \/ \E native \in Natives, id \in Nameable \cup {None} :
                   CallUpsert(c, id, native)
             \/ \E id \in Nameable : CallDelete(c, id)
       \/ \E token \in Natives \cup ((1 .. minted) \X {"lower"}) : DevicePublishes(token)
       \/ DbChanges
    /\ Observe

Spec == Init /\ [][Next]_vars

-----------------------------------------------------------------------------
(***************************************************************************)
(* Properties.                                                             *)
(***************************************************************************)

(***************************************************************************)
(* The service and the watcher never register one native device twice,     *)
(* however their look-ups and registrations interleave (bus_watcher.rs     *)
(* looks up and registers in separate statements).                         *)
(***************************************************************************)
OneDevicePerNative ==
    \A id, other \in Present :
        rows[id].external = rows[other].external => id = other

(***************************************************************************)
(* No message is turned away: when the watcher is done with one and the    *)
(* database did not fail it, its device was in the table at some moment    *)
(* since it was taken, also when a registration lost against another one   *)
(* or the device was deleted meanwhile.                                    *)
(***************************************************************************)
MessageAccounted ==
    [][pc[Watcher] # "idle" /\ pc'[Watcher] = "idle"
           => known \/ db = "locked"]_vars

(***************************************************************************)
(* A device registered under a ULID is a ghost of a deleted device: as     *)
(* long as a device exists, messages that name it by its lower-case ULID   *)
(* find it (touch_last_seen is case-insensitive).                          *)
(***************************************************************************)
GhostOnlyAfterDelete ==
    \A id \in Present :
        rows[id].external \in Ids
            => \E gone \in Ids : deletes[gone] > 0 /\ SameUlid(gone, rows[id].external)

(***************************************************************************)
(* `get' reads outside the transaction and may mix two writes; what is     *)
(* answered, audited and published never has rooms, capabilities or        *)
(* entities older than its row (none at all after a delete): none of the   *)
(* three, as it is read.                                                   *)
(***************************************************************************)
PartsNotOlder ==
    \A c \in Callers :
        pc[c] \in AfterRead /\ call[c].parts # 0
            => call[c].parts >= call[c].row

(***************************************************************************)
(* The audit log tells of no deletion that did not happen, and of none     *)
(* twice, whatever calls race for the same device.                         *)
(***************************************************************************)
NoPhantomDeletion ==
    \A id \in Ids :
        audit[[kind |-> "device.deleted", id |-> id]]
            + Cardinality({ c \in Callers : pc[c] = "audit" /\ call[c].op = "delete"
                                            /\ call[c].id = id })
            <= deletes[id]

=============================================================================
