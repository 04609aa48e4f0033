--------------------------- MODULE RegistryReads ----------------------------
(***************************************************************************)
(* What the registry writes into a row and makes of it again               *)
(* (crates/iot-registry/src/repo.rs), and the calls that only read: get    *)
(* and list (repo.rs, service.rs).  An enum that is unknown, and a         *)
(* timestamp that does not parse, have a value they become.                *)
(***************************************************************************)
EXTENDS Naturals, Sequences, SequencesExt

TrustLevelStr(t) ==
    IF t = "Discovered" THEN "discovered" ELSE IF t = "Verified" THEN "verified" ELSE "user_added"

TrustLevelFromStr(s) ==
    IF s = "discovered" THEN "Discovered" ELSE IF s = "verified" THEN "Verified" ELSE "UserAdded"

RwStr(rw) == IF rw = "Write" THEN "write" ELSE IF rw = "ReadWrite" THEN "read_write" ELSE "read"

RwFromStr(s) == IF s = "write" THEN "Write" ELSE IF s = "read_write" THEN "ReadWrite" ELSE "Read"

\* The columns of an upsert, in part: what is copied is left out.  When a
\* device was last seen is not what the caller says.
DeviceToRow(d, now) ==
    [id |-> d.id, integration |-> d.integration, trust_level |-> TrustLevelStr(d.trust_level),
     last_seen |-> now]

\* 0 is a timestamp that does not parse.
RowToDevice(row, now) ==
    [id |-> row.id, integration |-> row.integration,
     trust_level |-> TrustLevelFromStr(row.trust_level),
     last_seen |-> IF row.last_seen = 0 THEN now ELSE row.last_seen]

EntityToRow(e, fresh) == [id |-> IF e.id = "" THEN fresh ELSE e.id, rw |-> RwStr(e.rw)]

RowToEntity(row) == [id |-> row.id, rw |-> RwFromStr(row.rw)]

-----------------------------------------------------------------------------

\* The ids a list is made of: newest first, of those that match.  An empty
\* string asks for nothing.
Selected(table, integration, room) ==
    LET fits(i) == /\ integration \in {"", table[i].integration}
                   /\ room = "" \/ room \in table[i].rooms
        newest == SortSeq(SetToSeq({ i \in DOMAIN table : fits(i) }),
                          LAMBDA i, j : table[i].created_at > table[j].created_at)
    IN  [k \in DOMAIN newest |-> table[newest[k]].id]

\* Then each device is read on its own, from the table as it is by then: one
\* that has been deleted in between fails the list.
ListDevices(before, after, integration, room) ==
    LET ids == Selected(before, integration, room)
        left == { after[i].id : i \in DOMAIN after }
    IN  IF ToSet(ids) \subseteq left THEN [status |-> "ok", ids |-> ids]
        ELSE [status |-> "not_found", ids |-> << >>]

\* The stream to the caller ends when it goes away.
Streamed(ids, taken) == SubSeq(ids, 1, IF taken < Len(ids) THEN taken ELSE Len(ids))

=============================================================================
