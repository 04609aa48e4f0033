--------------------------- MODULE RegistryProofs ---------------------------
(***************************************************************************)
(* Proofs about Registry, for any number of callers, devices and writes;   *)
(* about the audit log that it writes, in the second part; and about the   *)
(* names it gets from the adapters, in the third.                          *)
(*                                                                         *)
(* The invariant IInv has four parts.  Shape types the state, with numbers *)
(* unbounded: the bounds serve TLC.  Unique is the first property.         *)
(* Monotone says that what a `get' has yet to read cannot be older than    *)
(* what it has read.  Remembered says that a ULID once given is that of a  *)
(* row or of a delete, so that a token that touches no row is of a ghost.  *)
(*                                                                         *)
(* TypeOK has the bounds, and what keeps them is that no task starts what  *)
(* there is no write left for: Budget counts those that may still write.   *)
(* On top of both stand Told, which counts the requests that are about to  *)
(* audit a deletion, and Seen, which says when the watcher has seen the    *)
(* device of its message.                                                  *)
(***************************************************************************)
EXTENDS Registry, AuditLog, Adapters, FiniteSetTheorems, SequenceTheorems, TLAPS

Name == Natives \cup (Nat \X {"lower"})
AnyId == Nat \X {"upper", "lower"}
Stored == [external : Name, row : Nat, parts : Nat]
Asked == [op : {"upsert", "delete", "find", "register"}, id : AnyId \cup {None},
          external : Name \cup {None}, created : BOOLEAN, row : Nat, parts : Nat]

\* Points at which the task names a device, and at which it names a token.
HasId == {"row", "audit", "publish", "delete", "bump"} \cup Queries
HasToken == {"touch", "find", "upsert"}

\* Typed without the bounds.
Shape ==
    /\ rows \in [Ids -> Stored \cup {None}]
    /\ minted \in Nat
    /\ writes \in Nat
    /\ pc \in [Tasks -> Points]
    /\ call \in [Tasks -> Asked \cup {None}]
    /\ \A t \in Tasks : pc[t] # "idle" => call[t] \in Asked
    /\ \A t \in Tasks : pc[t] \in HasId => call[t].id \in AnyId
    /\ \A t \in Tasks : pc[t] \in HasToken => call[t].external \in Name
    /\ bus \in Seq(Name)
    /\ deletes \in [Ids -> Nat]

Unique == OneDevicePerNative

Monotone ==
    /\ \A id \in Present : rows[id].row = rows[id].parts /\ rows[id].row <= writes
    /\ \A t \in Tasks : pc[t] \in Queries =>
          /\ call[t].row <= writes
          /\ call[t].id \in Present => call[t].row <= rows[call[t].id].parts
    /\ \A t \in Tasks : pc[t] \in AfterRead /\ call[t].parts # 0
                            => call[t].parts >= call[t].row
    /\ \A t \in Tasks : pc[t] = "delete" => call[t].parts = 0

\* An id whose ULID has been given, and a token of a device that was deleted.
Given(id, upto) == id \in Ids => id[1] <= upto
Gone(token, done) == token \in Ids => \E id \in Ids : done[id] > 0 /\ SameUlid(id, token)

Remembered ==
    /\ \A u \in Ulids : u <= minted =>
          \E id \in Ids : id[1] = u /\ (rows[id] # None \/ deletes[id] > 0)
    /\ \A id \in Present : Given(id, minted) /\ Gone(rows[id].external, deletes)
    /\ \A i \in 1 .. Len(bus) : Given(bus[i], minted)
    /\ \A t \in Tasks : pc[t] = "touch" => Given(call[t].external, minted)
    /\ \A t \in Tasks : pc[t] \in {"find", "upsert"} => Gone(call[t].external, deletes)
    /\ \A t \in Tasks : pc[t] # "idle" /\ call[t].id # None => Given(call[t].id, minted)

\* What a step may be: one task's, or the environment's.
TaskStep(t) ==
    \/ Upsert(t) \/ ReadRow(t) \/ ReadPart(t) \/ DbError(t)
    \/ Delete(t) \/ AuditWrite(t) \/ Publish(t) \/ Cancel(t)
    \/ \E native \in Natives, id \in Nameable \cup {None} : CallUpsert(t, id, native)
    \/ \E id \in Nameable : CallDelete(t, id)

WatchStep == TakeMessage \/ Touch \/ Find \/ Bump

EnvStep ==
    \/ \E token \in Natives \cup ((1 .. minted) \X {"lower"}) : DevicePublishes(token)
    \/ DbChanges

\* Next splits into these three.
LEMMA Cases ==
    ASSUME Next
    PROVE  (\E t \in Tasks : TaskStep(t)) \/ WatchStep \/ EnvStep
  BY DEF Next, Watch, Answer, Repo, TaskStep, WatchStep, EnvStep, Tasks

\* The initial state satisfies every part.
LEMMA Initially == Init => Shape /\ Unique /\ Monotone /\ Remembered
  <1> SUFFICES ASSUME Init PROVE Shape /\ Unique /\ Monotone /\ Remembered
    OBVIOUS
  <1>1. Shape
    BY DEF Init, Shape, HasId, HasToken, Points, Ids, Ulids, Queries
  <1>2. Unique
    BY DEF Init, Unique, OneDevicePerNative, Present
  <1>3. Monotone
    BY DEF Init, Monotone, Present, Queries, AfterRead
  <1>4. Remembered
    BY DEF Init, Remembered, Present, Ulids
  <1> QED BY <1>1, <1>2, <1>3, <1>4

\* What a task learns on the way fits its request.
LEMMA LearnId ==
    ASSUME NEW r \in Asked, NEW id \in AnyId
    PROVE  [r EXCEPT !.id = id] \in Asked /\ [r EXCEPT !.id = id].id = id
  BY DEF Asked

LEMMA LearnNumber ==
    ASSUME NEW r \in Asked, NEW n \in Nat
    PROVE  /\ [r EXCEPT !.row = n] \in Asked /\ [r EXCEPT !.row = n].id = r.id
           /\ [r EXCEPT !.parts = n] \in Asked /\ [r EXCEPT !.parts = n].id = r.id
  BY DEF Asked

\* Every step keeps the types.
LEMMA ShapeStep ==
    ASSUME Shape, Next
    PROVE  Shape'
  <1> USE RegistryAssumption
  <1>1. ASSUME NEW t \in Tasks, Upsert(t) PROVE Shape'
    <2>1. PICK id \in IF call[t].id = None THEN {<<minted + 1, "upper">>}
                                          ELSE {call[t].id} :
              \/ /\ writes' = writes + 1
                 /\ rows' = [rows EXCEPT ![id] = [external |-> call[t].external,
                                                  row      |-> writes + 1,
                                                  parts    |-> writes + 1]]
                 /\ minted' = IF call[t].id = None THEN minted + 1 ELSE minted
                 /\ call' = [call EXCEPT ![t].id = id]
                 /\ pc' = [pc EXCEPT ![t] = "row"]
              \/ /\ Finish(t)
                 /\ UNCHANGED <<rows, minted, writes>>
      BY <1>1 DEF Upsert, Go
    <2>2. call[t] \in Asked /\ call[t].external \in Name /\ id \in AnyId
      BY <1>1, <2>1 DEF Shape, Upsert, HasToken, Asked, AnyId
    <2>3. CASE Finish(t) /\ UNCHANGED <<rows, minted, writes>>
      BY <1>1, <2>3 DEF Upsert, Finish, Shape, HasId, HasToken, Points, Queries
    <2>4. CASE ~(Finish(t) /\ UNCHANGED <<rows, minted, writes>>)
      <3>1. [external |-> call[t].external, row |-> writes + 1, parts |-> writes + 1]
                \in Stored
        BY <2>2 DEF Shape, Stored
      <3>2. rows' \in [Ids -> Stored \cup {None}] /\ minted' \in Nat /\ writes' \in Nat
        <4>1. /\ rows \in [Ids -> Stored \cup {None}]
              /\ rows' = [rows EXCEPT ![id] = [external |-> call[t].external,
                                               row |-> writes + 1, parts |-> writes + 1]]
          BY <2>1, <2>4 DEF Shape
        <4>2. rows' \in [Ids -> Stored \cup {None}]
          BY <3>1, <4>1, Zenon
        <4>3. minted' \in {minted, minted + 1} /\ writes' = writes + 1
              /\ minted \in Nat /\ writes \in Nat
          BY <2>1, <2>4 DEF Shape
        <4> QED BY <4>2, <4>3
      <3>3. call'[t] \in Asked /\ call'[t].id \in AnyId
        <4>1. call' = [call EXCEPT ![t] = [call[t] EXCEPT !.id = id]]
          BY <2>1, <2>4
        <4> QED BY <2>2, <4>1, LearnId DEF Shape
      <3>4. pc' = [pc EXCEPT ![t] = "row"] /\ call' = [call EXCEPT ![t] = call'[t]]
        BY <2>1, <2>4 DEF Shape
      <3> QED BY <1>1, <3>2, <3>3, <3>4 DEF Upsert, Shape, HasId, HasToken, Points, Queries
    <2> QED BY <2>3, <2>4
  <1>2. ASSUME NEW t \in Tasks,
               ReadRow(t) \/ DbError(t) \/ AuditWrite(t) \/ Cancel(t)
        PROVE  Shape'
    <2>1. CASE ReadRow(t)
      <3>1. CASE call[t].id \in Present /\ Go(t, "rooms")
        <4>1. call[t] \in Asked /\ call[t].id \in AnyId /\ rows[call[t].id].row \in Nat
          BY <2>1, <3>1 DEF ReadRow, Shape, HasId, Present, Stored
        <4>2. PICK r \in Asked : /\ r.id \in AnyId
                                 /\ call' = [call EXCEPT ![t] = r]
          <5>1. call' \in {[call EXCEPT ![t] = [call[t] EXCEPT !.row = rows[call[t].id].row]]}
            BY <2>1, <3>1 DEF ReadRow, Finish, Go, Shape, Points
          <5> QED BY <4>1, <5>1, LearnNumber
        <4> QED BY <2>1, <3>1, <4>2 DEF ReadRow, Go, Shape, HasId, HasToken, Points, Queries
      <3>2. CASE Finish(t)
        BY <2>1, <3>2 DEF ReadRow, Finish, Shape, HasId, HasToken, Points, Queries
      <3> QED BY <2>1, <3>1, <3>2 DEF ReadRow
    <2>2. CASE DbError(t)
      BY <2>2 DEF DbError, Finish, Shape, HasId, HasToken, Points, Queries
    <2>3. CASE AuditWrite(t)
      BY <2>3 DEF AuditWrite, Finish, Go, Shape, HasId, HasToken, Points, Queries
    <2>4. CASE Cancel(t)
      BY <2>4 DEF Cancel, Finish, Shape, HasId, HasToken, Points, Queries
    <2> QED BY <1>2, <2>1, <2>2, <2>3, <2>4
  <1>3. ASSUME NEW t \in Tasks, ReadPart(t) PROVE Shape'
    <2>1. CASE pc[t] = "entities" /\ call[t].op = "register"
      BY <1>3, <2>1, SMTT(30) DEF ReadPart, Finish, Shape, HasId, HasToken, Points, Queries
    <2>2. CASE pc[t] = "entities" => call[t].op # "register"
      <3>1. call[t] \in Asked /\ call[t].id \in AnyId
        BY <1>3 DEF ReadPart, Shape, HasId, Queries
      <3>2. (IF call[t].id \in Present THEN rows[call[t].id].parts ELSE 0) \in Nat
        BY DEF Shape, Present, Stored
      <3>3. PICK n \in Nat : call' = [call EXCEPT ![t].parts = n]
        BY <1>3, <2>2, <3>2 DEF ReadPart, Finish
      <3>4. call'[t] \in Asked /\ call'[t].id \in AnyId
        BY <3>1, <3>3 DEF Shape, Asked
      <3>5. \E point \in {"capabilities", "entities", "bump", "audit"} : pc' = [pc EXCEPT ![t] = point]
        BY <1>3, <2>2 DEF ReadPart, AfterQuery, Queries, Go
      <3>6. call' = [call EXCEPT ![t] = call'[t]]
        BY <3>3 DEF Shape
      <3> QED BY <1>3, <3>4, <3>5, <3>6 DEF ReadPart, Shape, HasId, HasToken, Points, Queries
    <2> QED BY <2>1, <2>2
  <1>4. ASSUME NEW t \in Tasks, Delete(t) PROVE Shape'
    <2>1. CASE Finish(t) /\ UNCHANGED <<rows, deletes>>
      BY <1>4, <2>1 DEF Delete, Finish, Shape, HasId, HasToken, Points, Queries
    <2>2. CASE /\ call[t].id \in Present
               /\ rows' = [rows EXCEPT ![call[t].id] = None]
               /\ deletes' = [deletes EXCEPT ![call[t].id] = @ + 1]
               /\ Go(t, "audit")
               /\ UNCHANGED call
      <3>1. rows' \in [Ids -> Stored \cup {None}]
        BY <2>2 DEF Shape
      <3>2. deletes' \in [Ids -> Nat]
        <4>1. deletes[call[t].id] + 1 \in Nat
          BY <2>2 DEF Shape, Present
        <4> QED BY <2>2, <4>1 DEF Shape
      <3> QED BY <1>4, <2>2, <3>1, <3>2
              DEF Delete, Go, Shape, HasId, HasToken, Points, Queries
    <2> QED BY <1>4, <2>1, <2>2 DEF Delete
  <1>5. ASSUME NEW t \in Tasks, Publish(t) PROVE Shape'
    <2>1. call[t].id \in AnyId
      BY <1>5 DEF Publish, Shape, HasId
    <2>2. bus' \in Seq(Name)
      <3>1. ValidToken(call[t].id) => call[t].id \in Name
        BY <2>1 DEF ValidToken, Name, AnyId
      <3>2. call[t].id \in Name => Append(bus, call[t].id) \in Seq(Name)
        BY DEF Shape
      <3>3. bus' = bus \/ (bus' = Append(bus, call[t].id) /\ ValidToken(call[t].id))
        BY <1>5 DEF Publish
      <3>4. bus \in Seq(Name)
        BY DEF Shape
      <3> QED BY <3>1, <3>2, <3>3, <3>4
    <2> QED BY <1>5, <2>2 DEF Publish, Finish, Shape, HasId, HasToken, Points, Queries
  <1>6. ASSUME NEW t \in Tasks, NEW native \in Natives, NEW id \in Nameable \cup {None},
               CallUpsert(t, id, native) \/ CallDelete(t, id),
               CallUpsert(t, id, native) \/ id # None
        PROVE  Shape'
    <2>1. Request("upsert", id, native) \in Asked /\ Request("delete", id, None) \in Asked
      BY DEF Request, Asked, Nameable, AnyId, Name, Shape
    <2>2. id \in Nameable => id \in AnyId
      BY DEF Nameable, AnyId, Shape
    <2>3. Request("upsert", id, native).external = native
          /\ Request("delete", id, None).id = id
      BY DEF Request
    <2>4. CASE CallUpsert(t, id, native)
      BY <2>1, <2>3, <2>4 DEF CallUpsert, Go, Shape, HasId, HasToken, Points, Name, Queries
    <2>5. CASE CallDelete(t, id) /\ id # None
      BY <2>1, <2>2, <2>3, <2>5 DEF CallDelete, Go, Shape, HasId, HasToken, Points, Queries
    <2> QED BY <1>6, <2>4, <2>5
  <1>7. ASSUME NEW t \in Tasks, NEW id \in Nameable, CallDelete(t, id) PROVE Shape'
    <2>1. Request("delete", id, None) \in Asked /\ Request("delete", id, None).id \in AnyId
      BY DEF Request, Asked, Nameable, AnyId, Name, Shape
    <2> QED BY <1>7, <2>1 DEF CallDelete, Go, Shape, HasId, HasToken, Points, Queries
  <1>8. ASSUME WatchStep PROVE Shape'
    <2>0. Watcher \in Tasks
      BY DEF Tasks
    <2>1. CASE TakeMessage
      <3>1. Head(bus) \in Name /\ Tail(bus) \in Seq(Name)
        BY <2>1 DEF TakeMessage, Shape
      <3>2. Request("find", None, Head(bus)) \in Asked
            /\ Request("find", None, Head(bus)).external \in Name
        BY <3>1 DEF Request, Asked
      <3> QED BY <2>0, <2>1, <3>1, <3>2
              DEF TakeMessage, Go, Shape, HasId, HasToken, Points, Queries
    <2>2. CASE Touch
      BY <2>0, <2>2, SMTT(30) DEF Touch, Finish, Go, Shape, HasId, HasToken, Points, Queries
    <2>3. CASE Find
      <3>1. call[Watcher].external \in Name /\ call[Watcher] \in Asked
        BY <2>0, <2>3 DEF Find, Shape, HasToken
      <3>2. Request("register", None, call[Watcher].external) \in Asked
            /\ Request("register", None, call[Watcher].external).external \in Name
        BY <3>1 DEF Request, Asked
      <3>3. CASE \E id \in Present : /\ call' = [call EXCEPT ![Watcher].id = id]
                                     /\ Go(Watcher, "row")
        <4>1. PICK id \in Present : /\ call' = [call EXCEPT ![Watcher].id = id]
                                    /\ pc' = [pc EXCEPT ![Watcher] = "row"]
          BY <3>3 DEF Go
        <4>2. id \in AnyId
          BY DEF Present, Ids, Ulids, AnyId
        <4>3. call'[Watcher] \in Asked /\ call'[Watcher].id \in AnyId
          BY <2>0, <3>1, <4>1, <4>2 DEF Shape, Asked
        <4>4. call' = [call EXCEPT ![Watcher] = call'[Watcher]]
          BY <2>0, <4>1 DEF Shape
        <4> QED BY <2>0, <2>3, <4>1, <4>3, <4>4 DEF Find, Shape, HasId, HasToken, Points, Queries
      <3>4. CASE /\ call' = [call EXCEPT ![Watcher] =
                                Request("register", None, call[Watcher].external)]
                 /\ Go(Watcher, "upsert")
        BY <2>0, <2>3, <3>2, <3>4 DEF Find, Go, Shape, HasId, HasToken, Points, Queries
      <3> QED BY <2>3, <3>3, <3>4 DEF Find
    <2>4. CASE Bump
      BY <2>0, <2>4 DEF Bump, Finish, Shape, HasId, HasToken, Points, Queries
    <2> QED BY <1>8, <2>1, <2>2, <2>3, <2>4 DEF WatchStep
  <1>9. ASSUME EnvStep PROVE Shape'
    <2>1. CASE DbChanges
      BY <2>1 DEF DbChanges, Shape
    <2>2. ASSUME NEW token \in Natives \cup ((1 .. minted) \X {"lower"}),
                 DevicePublishes(token)
          PROVE  Shape'
      <3>1. token \in Name
        BY DEF Name, Shape
      <3> QED BY <2>2, <3>1 DEF DevicePublishes, Shape
    <2> QED BY <1>9, <2>1, <2>2 DEF EnvStep
  <1> QED BY Cases, <1>1, <1>2, <1>3, <1>4, <1>5, <1>6, <1>7, <1>8, <1>9 DEF TaskStep

\* Only these two write the table.
LEMMA TableWriters ==
    ASSUME Next
    PROVE  \/ \E t \in Tasks : Upsert(t) /\ ~UNCHANGED rows
           \/ \E t \in Tasks : Delete(t) /\ ~UNCHANGED rows
           \/ UNCHANGED rows
  <1>1. ASSUME NEW t \in Tasks, TaskStep(t), ~Upsert(t), ~Delete(t) PROVE UNCHANGED rows
    BY <1>1 DEF TaskStep, ReadRow, ReadPart, DbError, AuditWrite, Publish, Cancel,
                CallUpsert, CallDelete
  <1>2. ASSUME WatchStep \/ EnvStep PROVE UNCHANGED rows
    BY <1>2 DEF WatchStep, TakeMessage, Touch, Find, Bump, EnvStep, DevicePublishes, DbChanges
  <1> QED BY Cases, <1>1, <1>2

\* What Upsert and Delete do to the table when they write it.
LEMMA UpsertWrites ==
    ASSUME Shape, NEW t \in Tasks, Upsert(t), ~UNCHANGED rows
    PROVE  \E id \in Ids :
              /\ id = IF call[t].id = None THEN <<minted + 1, "upper">> ELSE call[t].id
              /\ ~Conflict(id, call[t].external)
              /\ writes' = writes + 1
              /\ rows' = [rows EXCEPT ![id] = [external |-> call[t].external,
                                               row      |-> writes + 1,
                                               parts    |-> writes + 1]]
              /\ minted' = IF call[t].id = None THEN minted + 1 ELSE minted
              /\ rows'[id] # None
              /\ call[t].external \in Name
  <1>1. PICK id : /\ id = IF call[t].id = None THEN <<minted + 1, "upper">> ELSE call[t].id
                  /\ ~Conflict(id, call[t].external)
                  /\ writes' = writes + 1
                  /\ rows' = [rows EXCEPT ![id] = [external |-> call[t].external,
                                                   row      |-> writes + 1,
                                                   parts    |-> writes + 1]]
                  /\ minted' = IF call[t].id = None THEN minted + 1 ELSE minted
    BY DEF Upsert
  <1>2. id \in Ids
    BY <1>1 DEF Shape
  <1>3. call[t].external \in Name
    BY DEF Shape, Upsert, HasToken
  <1>4. rows'[id] = [external |-> call[t].external, row |-> writes + 1, parts |-> writes + 1]
    BY <1>1, <1>2 DEF Shape
  <1>5. rows'[id] \in Stored
    BY <1>3, <1>4 DEF Shape, Stored
  <1>6. None \notin Stored
    BY RegistryAssumption DEF Stored, Name
  <1> QED BY <1>1, <1>2, <1>3, <1>5, <1>6

LEMMA DeleteWrites ==
    ASSUME Shape, NEW t \in Tasks, Delete(t), ~UNCHANGED rows
    PROVE  /\ call[t].id \in Ids
           /\ rows' = [rows EXCEPT ![call[t].id] = None]
           /\ deletes' = [deletes EXCEPT ![call[t].id] = deletes[call[t].id] + 1]
           /\ UNCHANGED minted
  BY DEF Delete, Present

\* No step brings a second device with the same native id.
LEMMA UniqueStep ==
    ASSUME Shape, Unique, Next
    PROVE  Unique'
  <1>1. CASE \E t \in Tasks : Upsert(t) /\ ~UNCHANGED rows
    <2>1. PICK t \in Tasks : Upsert(t) /\ ~UNCHANGED rows
      BY <1>1
    <2>2. PICK id \in Ids : /\ ~Conflict(id, call[t].external)
                            /\ rows' = [rows EXCEPT ![id] = [external |-> call[t].external,
                                                             row      |-> writes + 1,
                                                             parts    |-> writes + 1]]
      BY <2>1, UpsertWrites
    <2>3. rows'[id].external = call[t].external
      BY <2>2 DEF Shape
    <2>4. \A other \in Ids \ {id} : rows'[other] = rows[other]
      BY <2>2 DEF Shape
    <2>5. Present' \subseteq Present \cup {id}
      BY <2>4 DEF Present
    <2>6. \A other \in Present \ {id} : rows[other].external # call[t].external
      BY <2>2 DEF Conflict
    <2>7. \A other \in Present' \ {id} : other \in Present /\ rows'[other] = rows[other]
      BY <2>4, <2>5 DEF Present
    <2> QED BY <2>3, <2>6, <2>7 DEF Unique, OneDevicePerNative
  <1>2. CASE \E t \in Tasks : Delete(t) /\ ~UNCHANGED rows
    <2>1. PICK gone \in Ids : rows' = [rows EXCEPT ![gone] = None]
      BY <1>2, DeleteWrites
    <2>2. \A id \in Present' : id \in Present /\ rows'[id] = rows[id]
      BY <2>1 DEF Present, Shape
    <2> QED BY <2>2 DEF Unique, OneDevicePerNative
  <1>3. CASE UNCHANGED rows
    BY <1>3 DEF Unique, OneDevicePerNative, Present
  <1> QED BY <1>1, <1>2, <1>3, TableWriters

\* A step leaves every other task's place and request alone.
LEMMA OthersStay ==
    ASSUME Shape, NEW s \in Tasks, TaskStep(s), NEW t \in Tasks, t # s
    PROVE  pc'[t] = pc[t] /\ call'[t] = call[t]
  <1>1. CASE Upsert(s)
    BY <1>1 DEF Upsert, Go, Finish, Shape
  <1>2. CASE ReadRow(s)
    BY <1>2 DEF ReadRow, Go, Finish, Shape
  <1>3. CASE ReadPart(s)
    BY <1>3 DEF ReadPart, Go, Finish, Shape
  <1>4. CASE DbError(s) \/ Cancel(s)
    BY <1>4 DEF DbError, Cancel, Finish, Shape
  <1>5. CASE Delete(s)
    BY <1>5 DEF Delete, Go, Finish, Shape
  <1>6. CASE AuditWrite(s)
    BY <1>6 DEF AuditWrite, Go, Finish, Shape
  <1>7. CASE Publish(s)
    BY <1>7 DEF Publish, Finish, Shape
  <1>8. CASE \E native \in Natives, id \in Nameable \cup {None} : CallUpsert(s, id, native)
    BY <1>8 DEF CallUpsert, Go, Shape
  <1>9. CASE \E id \in Nameable : CallDelete(s, id)
    BY <1>9 DEF CallDelete, Go, Shape
  <1> QED BY <1>1, <1>2, <1>3, <1>4, <1>5, <1>6, <1>7, <1>8, <1>9 DEF TaskStep

\* How a task comes to the points that Monotone speaks of.
Reads(t) ==
    /\ pc[t] \in Queries
    /\ call'[t] = [call[t] EXCEPT !.parts = IF call[t].id \in Present
                                            THEN rows[call[t].id].parts
                                            ELSE 0]
    /\ UNCHANGED <<rows, writes>>

ArrivesAtParts(t) ==
    \/ pc[t] \in Queries /\ call'[t] = call[t]
    \/ Reads(t)
    \/ /\ pc[t] = "row" /\ call[t].id \in Present
       /\ call'[t] = [call[t] EXCEPT !.row = rows[call[t].id].row]
       /\ UNCHANGED <<rows, writes>>

ArrivesAtAnswer(t) ==
    \/ pc[t] \in AfterRead \cup {"delete"} /\ call'[t] = call[t]
    \/ Reads(t)

ArrivesAtDelete(t) ==
    \/ pc[t] = "delete" /\ call'[t] = call[t]
    \/ call'[t].parts = 0

Arrives(t) ==
    /\ pc'[t] \in Queries => ArrivesAtParts(t)
    /\ pc'[t] \in AfterRead => ArrivesAtAnswer(t)
    /\ pc'[t] = "delete" => ArrivesAtDelete(t)

LEMMA Arrivals ==
    ASSUME Shape, Next, NEW t \in Tasks
    PROVE  Arrives(t)
  <1> USE DEF Arrives, Reads, ArrivesAtParts, ArrivesAtAnswer, ArrivesAtDelete, Queries, AfterRead
  <1>1. ASSUME pc'[t] = pc[t], call'[t] = call[t] PROVE Arrives(t)
    BY <1>1
  <1>2. CASE TaskStep(t)
    <2>1. CASE Upsert(t)
      BY <2>1 DEF Upsert, Go, Finish, Shape
    <2>2. CASE ReadRow(t)
      BY <2>2 DEF ReadRow, Go, Finish, Shape
    <2>3. CASE ReadPart(t)
      BY <2>3 DEF ReadPart, AfterQuery, Go, Finish, Shape
    <2>4. CASE DbError(t) \/ Cancel(t) \/ Publish(t)
      BY <2>4 DEF DbError, Cancel, Publish, Finish, Shape
    <2>5. CASE Delete(t)
      BY <2>5 DEF Delete, Go, Finish, Shape
    <2>6. CASE AuditWrite(t)
      BY <2>6 DEF AuditWrite, Go, Finish, Shape
    <2>7. CASE \E native \in Natives, id \in Nameable \cup {None} : CallUpsert(t, id, native)
      BY <2>7 DEF CallUpsert, Go, Shape
    <2>8. CASE \E id \in Nameable : CallDelete(t, id)
      BY <2>8 DEF CallDelete, Request, Go, Shape
    <2> QED BY <1>2, <2>1, <2>2, <2>3, <2>4, <2>5, <2>6, <2>7, <2>8 DEF TaskStep
  <1>3. CASE \E s \in Tasks \ {t} : TaskStep(s)
    BY <1>1, <1>3, OthersStay
  <1>4. CASE WatchStep
    <2>1. CASE t = Watcher
      <3>1. pc'[t] \notin Queries \cup {"audit", "publish", "delete"}
        BY <1>4, <2>1 DEF WatchStep, TakeMessage, Touch, Find, Bump, Go, Finish, Shape
      <3> QED BY <3>1
    <2>2. CASE t # Watcher
      <3>1. pc'[t] = pc[t] /\ call'[t] = call[t]
        BY <1>4, <2>2 DEF WatchStep, TakeMessage, Touch, Find, Bump, Go, Finish, Shape
      <3> QED BY <1>1, <3>1
    <2> QED BY <2>1, <2>2
  <1>5. CASE EnvStep
    BY <1>1, <1>5 DEF EnvStep, DevicePublishes, DbChanges
  <1> QED BY Cases, <1>2, <1>3, <1>4, <1>5

\* Rows change to newer writes only, whole.
LEMMA RowsAdvance ==
    ASSUME Shape, Monotone, Next
    PROVE  /\ writes <= writes'
           /\ \A id \in Present' :
                 \/ id \in Present /\ rows'[id] = rows[id]
                 \/ rows'[id].row = writes' /\ rows'[id].parts = writes'
  <1>1. CASE \E t \in Tasks : Upsert(t) /\ ~UNCHANGED rows
    <2>1. PICK t \in Tasks : Upsert(t) /\ ~UNCHANGED rows
      BY <1>1
    <2>2. PICK id \in Ids : /\ writes' = writes + 1
                            /\ rows' = [rows EXCEPT ![id] = [external |-> call[t].external,
                                                             row      |-> writes + 1,
                                                             parts    |-> writes + 1]]
      BY <2>1, UpsertWrites
    <2>3. rows'[id].row = writes' /\ rows'[id].parts = writes'
      BY <2>2 DEF Shape
    <2>4. \A other \in Ids \ {id} : rows'[other] = rows[other]
      BY <2>2 DEF Shape
    <2> QED BY <2>2, <2>3, <2>4 DEF Present, Shape
  <1>2. CASE \E t \in Tasks : Delete(t) /\ ~UNCHANGED rows
    <2>1. PICK gone \in Ids : rows' = [rows EXCEPT ![gone] = None]
      BY <1>2, DeleteWrites
    <2>2. UNCHANGED writes
      BY <1>2 DEF Delete
    <2> QED BY <2>1, <2>2 DEF Present, Shape
  <1>3. CASE UNCHANGED rows
    <2>1. writes <= writes'
      <3>1. ASSUME NEW t \in Tasks, TaskStep(t) PROVE writes' \in {writes, writes + 1}
        BY <3>1 DEF TaskStep, Upsert, ReadRow, ReadPart, DbError, Delete, AuditWrite,
                    Publish, Cancel, CallUpsert, CallDelete
      <3>2. ASSUME WatchStep \/ EnvStep PROVE UNCHANGED writes
        BY <3>2 DEF WatchStep, TakeMessage, Touch, Find, Bump, EnvStep, DevicePublishes,
                    DbChanges
      <3> QED BY Cases, <3>1, <3>2 DEF Shape
    <2> QED BY <1>3, <2>1 DEF Present
  <1> QED BY <1>1, <1>2, <1>3, TableWriters

\* What a `get' has yet to read stays at least as new as what it has read.
LEMMA MonotoneStep ==
    ASSUME Shape, Monotone, Next
    PROVE  Monotone'
  <1>0. Shape'
    BY ShapeStep
  <1>1. \A id \in Present' : rows'[id].row = rows'[id].parts /\ rows'[id].row <= writes'
    <2> SUFFICES ASSUME NEW id \in Present'
                 PROVE  rows'[id].row = rows'[id].parts /\ rows'[id].row <= writes'
      OBVIOUS
    <2>1. CASE id \in Present /\ rows'[id] = rows[id]
      <3>1. rows[id] \in Stored
        BY <2>1 DEF Shape, Present
      <3>2. rows[id].row \in Nat
        BY <3>1 DEF Stored
      <3> QED BY <1>0, <2>1, <3>2, RowsAdvance DEF Monotone, Shape
    <2>2. CASE rows'[id].row = writes' /\ rows'[id].parts = writes'
      BY <1>0, <2>2 DEF Shape
    <2> QED BY <2>1, <2>2, RowsAdvance
  <1>2. ASSUME NEW t \in Tasks, pc'[t] \in Queries
        PROVE  /\ call'[t].row <= writes'
               /\ call'[t].id \in Present' => call'[t].row <= rows'[call'[t].id].parts
    <2>1. CASE pc[t] \in Queries /\ call'[t] = call[t]
      <3>1. call[t].row \in Nat /\ call[t].row <= writes
        BY <2>1 DEF Shape, Asked, Monotone, Queries
      <3>2. call[t].row <= writes'
        BY <1>0, <3>1, RowsAdvance DEF Shape
      <3>3. ASSUME call[t].id \in Present' PROVE call[t].row <= rows'[call[t].id].parts
        BY <2>1, <3>2, <3>3, RowsAdvance DEF Monotone
      <3> QED BY <2>1, <3>2, <3>3
    <2>2. CASE /\ pc[t] = "row" /\ call[t].id \in Present
               /\ call'[t] = [call[t] EXCEPT !.row = rows[call[t].id].row]
               /\ UNCHANGED <<rows, writes>>
      <3>1. call[t] \in Asked
        BY <2>2 DEF Shape
      <3>2. call'[t].row = rows[call[t].id].row /\ call'[t].id = call[t].id
        BY <2>2, <3>1 DEF Asked
      <3>3. rows[call[t].id] \in Stored
        BY <2>2 DEF Shape, Present
      <3> QED BY <2>2, <3>2, <3>3 DEF Monotone, Stored, Present
    <2>3. CASE Reads(t)
      <3>1. call[t] \in Asked /\ call[t].row <= writes
        BY <2>3 DEF Reads, Queries, Shape, Monotone
      <3>2. call'[t].row = call[t].row /\ call'[t].id = call[t].id
        BY <2>3, <3>1 DEF Reads, Asked
      <3> QED BY <2>3, <3>1, <3>2 DEF Reads, Monotone, Present
    <2> QED BY <1>2, <2>1, <2>2, <2>3, Arrivals DEF Arrives, ArrivesAtParts
  <1>3. ASSUME NEW t \in Tasks, pc'[t] \in AfterRead, call'[t].parts # 0
        PROVE  call'[t].parts >= call'[t].row
    <2>1. CASE pc[t] \in AfterRead \cup {"delete"} /\ call'[t] = call[t]
      BY <1>3, <2>1 DEF Monotone
    <2>2. CASE Reads(t)
      <3>1. call[t] \in Asked
        BY <2>2 DEF Reads, Queries, Shape
      <3>2. /\ call'[t].row = call[t].row
            /\ call'[t].parts = IF call[t].id \in Present THEN rows[call[t].id].parts ELSE 0
        BY <2>2, <3>1 DEF Reads, Asked
      <3>3. call[t].id \in Present
        BY <1>3, <3>2
      <3>4. rows[call[t].id] \in Stored
        BY <3>3 DEF Shape, Present
      <3> QED BY <2>2, <3>1, <3>2, <3>3, <3>4 DEF Reads, Monotone, Stored, Asked
    <2> QED BY <1>3, <2>1, <2>2, Arrivals DEF Arrives, ArrivesAtAnswer
  <1>4. ASSUME NEW t \in Tasks, pc'[t] = "delete" PROVE call'[t].parts = 0
    BY <1>4, Arrivals DEF Arrives, ArrivesAtDelete, Monotone
  <1> QED BY <1>1, <1>2, <1>3, <1>4 DEF Monotone

\* Deletes are remembered, so a token once that of a ghost stays one.
LEMMA GoneStays ==
    ASSUME Shape, Next
    PROVE  \A token : Gone(token, deletes) => Gone(token, deletes')
  <1>1. ASSUME NEW id \in Ids PROVE deletes'[id] >= deletes[id]
    <2>1. ASSUME NEW t \in Tasks, TaskStep(t) PROVE deletes'[id] >= deletes[id]
      <3>1. CASE Delete(t)
        BY <3>1 DEF Delete, Shape
      <3>2. CASE ~Delete(t)
        <4>1. UNCHANGED deletes
          BY <2>1, <3>2 DEF TaskStep, Upsert, ReadRow, ReadPart, DbError, AuditWrite,
                            Publish, Cancel, CallUpsert, CallDelete
        <4> QED BY <4>1 DEF Shape
      <3> QED BY <3>1, <3>2
    <2>2. ASSUME WatchStep \/ EnvStep PROVE deletes'[id] >= deletes[id]
      <3>1. UNCHANGED deletes
        BY <2>2 DEF WatchStep, TakeMessage, Touch, Find, Bump, EnvStep, DevicePublishes,
                    DbChanges
      <3> QED BY <3>1 DEF Shape
    <2> QED BY Cases, <2>1, <2>2
  <1>2. \A id \in Ids : deletes[id] \in Nat /\ deletes'[id] \in Nat
    BY ShapeStep DEF Shape
  <1> QED BY <1>1, <1>2 DEF Gone

\* No ULID is taken back.
LEMMA GivenStays ==
    ASSUME Shape, Next
    PROVE  minted <= minted' /\ \A id : Given(id, minted) => Given(id, minted')
  <1>1. ASSUME NEW t \in Tasks, TaskStep(t) PROVE minted' \in {minted, minted + 1}
    BY <1>1 DEF TaskStep, Upsert, ReadRow, ReadPart, DbError, Delete, AuditWrite, Publish,
                Cancel, CallUpsert, CallDelete
  <1>2. ASSUME WatchStep \/ EnvStep PROVE minted' = minted
    BY <1>2 DEF WatchStep, TakeMessage, Touch, Find, Bump, EnvStep, DevicePublishes, DbChanges
  <1>3. minted \in Nat /\ minted' \in Nat /\ minted <= minted'
    BY Cases, <1>1, <1>2 DEF Shape
  <1>4. \A id \in Ids : id[1] \in Nat
    BY DEF Ids, Ulids
  <1> QED BY <1>3, <1>4 DEF Given

\* What the requests name after a step is accounted for.
Named(t) ==
    /\ pc[t] = "touch" => Given(call[t].external, minted)
    /\ pc[t] \in {"find", "upsert"} => Gone(call[t].external, deletes)
    /\ pc[t] # "idle" /\ call[t].id # None => Given(call[t].id, minted)

\* It stays so where nothing new is named.
LEMMA NamedStays ==
    ASSUME Shape, Next, NEW t \in Tasks, Named(t), pc[t] # "idle",
           call'[t].id = call[t].id,
           \/ pc'[t] \notin HasToken
           \/ pc'[t] = pc[t] /\ call'[t].external = call[t].external
    PROVE  Named(t)'
  BY GoneStays, GivenStays DEF Named, HasToken

\* Nor where the task finishes.
LEMMA NamedIdle ==
    ASSUME Shape, NEW t \in Tasks, Finish(t)
    PROVE  Named(t)'
  BY DEF Finish, Named, Shape

LEMMA NamedTask ==
    ASSUME Shape, Remembered, Next, NEW t \in Tasks, TaskStep(t)
    PROVE  Named(t)'
  <1>0. Named(t) /\ Shape'
    BY ShapeStep DEF Named, Remembered
  <1>1. CASE Upsert(t) /\ ~Finish(t)
    <2>1. PICK id : /\ id = IF call[t].id = None THEN <<minted + 1, "upper">>
                                                 ELSE call[t].id
                    /\ minted' = IF call[t].id = None THEN minted + 1 ELSE minted
                    /\ call' = [call EXCEPT ![t].id = id]
                    /\ Go(t, "row")
      BY <1>1 DEF Upsert
    <2>2. call[t] \in Asked /\ pc'[t] = "row"
      BY <1>1, <2>1 DEF Upsert, Go, Shape
    <2>3. call'[t].id = id
      BY <2>1, <2>2 DEF Shape, Asked
    <2>4. CASE call[t].id = None
      BY <1>0, <2>1, <2>2, <2>3, <2>4 DEF Named, Given, Shape
    <2>5. CASE call[t].id # None
      BY <1>0, <1>1, <2>1, <2>2, <2>3, <2>5, NamedStays DEF Upsert, HasToken
    <2> QED BY <2>4, <2>5
  <1>2. CASE ReadRow(t) /\ ~Finish(t)
    <2>1. call[t] \in Asked
      BY <1>2 DEF ReadRow, Shape
    <2>2. call'[t].id = call[t].id
      BY <1>2, <2>1 DEF ReadRow, Shape, Asked
    <2> QED BY <1>0, <1>2, <2>2, NamedStays DEF ReadRow, Go, Shape, HasToken
  <1>3. CASE ReadPart(t) /\ ~Finish(t)
    <2>1. call[t] \in Asked
      BY <1>3 DEF ReadPart, Shape, Queries
    <2>2. call'[t].id = call[t].id
      BY <1>3, <2>1 DEF ReadPart, Shape, Asked
    <2> QED BY <1>0, <1>3, <2>2, NamedStays DEF ReadPart, AfterQuery, Go, Shape, HasToken, Queries
  <1>4. CASE (Delete(t) \/ AuditWrite(t)) /\ ~Finish(t)
    BY <1>0, <1>4, NamedStays DEF Delete, AuditWrite, Go, Shape, HasToken
  <1>5. CASE Finish(t)
    BY <1>5, NamedIdle
  <1>6. CASE \E native \in Natives, id \in Nameable \cup {None} : CallUpsert(t, id, native)
    <2>1. PICK native \in Natives, id \in Nameable \cup {None} : CallUpsert(t, id, native)
      BY <1>6
    <2>2. /\ pc'[t] = "upsert" /\ UNCHANGED <<minted, deletes>>
          /\ call'[t].id = id /\ call'[t].external = native
      BY <2>1 DEF CallUpsert, Request, Go, Shape
    <2>3. native \notin Ids
      BY RegistryAssumption DEF Ids, Ulids
    <2>4. id # None => Given(id, minted)
      BY DEF Nameable, Given, Shape
    <2> QED BY <2>2, <2>3, <2>4 DEF Named, Gone
  <1>7. CASE \E id \in Nameable : CallDelete(t, id)
    <2>1. PICK id \in Nameable : CallDelete(t, id)
      BY <1>7
    <2>2. pc'[t] = "delete" /\ UNCHANGED minted /\ call'[t].id = id
      BY <2>1 DEF CallDelete, Request, Go, Shape
    <2> QED BY <2>2 DEF Named, Given, Nameable, Shape
  <1> QED BY <1>1, <1>2, <1>3, <1>4, <1>5, <1>6, <1>7
          DEF TaskStep, DbError, Cancel, Publish

LEMMA NamedWatch ==
    ASSUME Shape, Remembered, Next, WatchStep
    PROVE  Named(Watcher)'
  <1>0. Watcher \in Tasks /\ Named(Watcher) /\ Shape'
    BY ShapeStep DEF Tasks, Named, Remembered
  <1>1. CASE TakeMessage
    <2>1. /\ pc'[Watcher] = "touch" /\ UNCHANGED minted
          /\ call'[Watcher].id = None /\ call'[Watcher].external = Head(bus)
      BY <1>0, <1>1 DEF TakeMessage, Request, Go, Shape
    <2>2. Head(bus) = bus[1] /\ 1 \in 1 .. Len(bus)
      BY <1>1 DEF TakeMessage, Shape
    <2> QED BY <2>1, <2>2 DEF Named, Remembered
  <1>2. CASE Touch /\ ~Finish(Watcher)
    <2>1. /\ \A id \in Present : ~SameUlid(id, call[Watcher].external)
          /\ pc[Watcher] = "touch" /\ pc'[Watcher] = "find"
          /\ call' = call /\ UNCHANGED <<rows, minted, deletes>>
      BY <1>0, <1>2 DEF Touch, Go, Shape
    <2>2. ASSUME call[Watcher].external \in Ids
          PROVE  \E id \in Ids : deletes[id] > 0 /\ SameUlid(id, call[Watcher].external)
      <3>1. call[Watcher].external[1] \in Ulids
            /\ call[Watcher].external[1] <= minted
        BY <1>0, <2>1, <2>2 DEF Named, Given, Ids
      <3>2. PICK id \in Ids : /\ id[1] = call[Watcher].external[1]
                              /\ rows[id] # None \/ deletes[id] > 0
        BY <3>1 DEF Remembered
      <3>3. SameUlid(id, call[Watcher].external)
        BY <2>2, <3>2 DEF SameUlid
      <3> QED BY <2>1, <3>2, <3>3 DEF Present
    <2> QED BY <1>0, <2>1, <2>2 DEF Named, Gone
  <1>3. CASE Find
    <2>1. pc[Watcher] = "find" /\ UNCHANGED <<minted, deletes, rows>>
      BY <1>3 DEF Find
    <2>2. CASE \E id \in Present : /\ call' = [call EXCEPT ![Watcher].id = id]
                                   /\ Go(Watcher, "row")
      <3>1. PICK id \in Present : /\ call' = [call EXCEPT ![Watcher].id = id]
                                  /\ Go(Watcher, "row")
        BY <2>2
      <3>2. call[Watcher] \in Asked
        BY <1>0, <2>1 DEF Shape
      <3>3. call'[Watcher].id = id /\ pc'[Watcher] = "row"
        BY <1>0, <3>1, <3>2 DEF Go, Shape, Asked
      <3> QED BY <2>1, <3>1, <3>3 DEF Named, Remembered
    <2>3. CASE /\ call' = [call EXCEPT ![Watcher] =
                              Request("register", None, call[Watcher].external)]
               /\ Go(Watcher, "upsert")
      <3>1. /\ call'[Watcher].external = call[Watcher].external
            /\ call'[Watcher].id = None
            /\ pc'[Watcher] = "upsert"
        BY <1>0, <2>3 DEF Request, Go, Shape
      <3> QED BY <1>0, <2>1, <3>1 DEF Named
    <2> QED BY <1>3, <2>2, <2>3 DEF Find
  <1>4. CASE Finish(Watcher)
    BY <1>0, <1>4, NamedIdle
  <1> QED BY <1>1, <1>2, <1>3, <1>4 DEF WatchStep, Bump

LEMMA NamedStep ==
    ASSUME Shape, Remembered, Next, NEW t \in Tasks
    PROVE  Named(t)'
  <1>1. ASSUME pc'[t] = pc[t], call'[t] = call[t] PROVE Named(t)'
    BY <1>1, GoneStays, GivenStays DEF Named, Remembered
  <1>2. CASE TaskStep(t)
    BY <1>2, NamedTask
  <1>3. CASE \E s \in Tasks \ {t} : TaskStep(s)
    BY <1>1, <1>3, OthersStay
  <1>4. CASE WatchStep
    <2>1. CASE t = Watcher
      BY <1>4, <2>1, NamedWatch
    <2>2. CASE t # Watcher
      <3>1. pc'[t] = pc[t] /\ call'[t] = call[t]
        BY <1>4, <2>2 DEF WatchStep, TakeMessage, Touch, Find, Bump, Go, Finish, Shape
      <3> QED BY <1>1, <3>1
    <2> QED BY <2>1, <2>2
  <1>5. CASE EnvStep
    BY <1>1, <1>5 DEF EnvStep, DevicePublishes, DbChanges
  <1> QED BY Cases, <1>2, <1>3, <1>4, <1>5

\* Every ULID given is still that of a row, or of a delete.
LEMMA GivenStep ==
    ASSUME Shape, Remembered, Next, NEW u \in Ulids, u <= minted'
    PROVE  \E id \in Ids : id[1] = u /\ (rows'[id] # None \/ deletes'[id] > 0)
  <1>0. Shape' /\ \A id \in Ids : deletes[id] \in Nat
    BY ShapeStep DEF Shape
  <1>1. CASE \E t \in Tasks : Upsert(t) /\ ~UNCHANGED rows
    <2>1. PICK t \in Tasks : Upsert(t) /\ ~UNCHANGED rows
      BY <1>1
    <2>2. PICK id \in Ids :
              /\ id = IF call[t].id = None THEN <<minted + 1, "upper">> ELSE call[t].id
              /\ rows' = [rows EXCEPT ![id] = [external |-> call[t].external,
                                               row      |-> writes + 1,
                                               parts    |-> writes + 1]]
              /\ minted' = IF call[t].id = None THEN minted + 1 ELSE minted
              /\ rows'[id] # None
      BY <2>1, UpsertWrites
    <2>3. \A other \in Ids : rows[other] # None => rows'[other] # None
      BY <2>2 DEF Shape
    <2>4. UNCHANGED deletes
      BY <2>1 DEF Upsert
    <2>5. CASE u <= minted
      BY <2>3, <2>4, <2>5 DEF Remembered
    <2>6. CASE ~(u <= minted)
      <3>1. u = minted + 1 /\ id = <<minted + 1, "upper">>
        BY <2>2, <2>6 DEF Shape, Ulids
      <3> QED BY <2>2, <3>1
    <2> QED BY <2>5, <2>6
  <1>2. CASE \E t \in Tasks : Delete(t) /\ ~UNCHANGED rows
    <2>1. PICK gone \in Ids : /\ rows' = [rows EXCEPT ![gone] = None]
                              /\ deletes' = [deletes EXCEPT ![gone] = deletes[gone] + 1]
                              /\ UNCHANGED minted
      BY <1>2, DeleteWrites
    <2>2. PICK id \in Ids : id[1] = u /\ (rows[id] # None \/ deletes[id] > 0)
      BY <2>1 DEF Remembered
    <2>3. rows'[id] # None \/ deletes'[id] > 0
      BY <1>0, <2>1, <2>2 DEF Shape
    <2> QED BY <2>2, <2>3
  <1>3. CASE UNCHANGED rows
    <2>1. CASE u <= minted
      <3>1. PICK id \in Ids : id[1] = u /\ (rows[id] # None \/ deletes[id] > 0)
        BY <2>1 DEF Remembered
      <3>2. SameUlid(id, id) /\ Gone(id, deletes) => Gone(id, deletes')
        BY GoneStays
      <3>3. deletes[id] > 0 => \E other \in Ids : deletes'[other] > 0 /\ other[1] = u
        BY <3>1, <3>2 DEF Gone, SameUlid
      <3> QED BY <1>3, <3>1, <3>3
    <2>2. CASE ~(u <= minted)
      <3>1. PICK t \in Tasks : Upsert(t) /\ minted' = minted + 1 /\ call[t].id = None
        <4>1. ASSUME NEW t \in Tasks, TaskStep(t), ~Upsert(t) PROVE UNCHANGED minted
          BY <4>1 DEF TaskStep, ReadRow, ReadPart, DbError, Delete, AuditWrite, Publish,
                      Cancel, CallUpsert, CallDelete
        <4>2. ASSUME WatchStep \/ EnvStep PROVE UNCHANGED minted
          BY <4>2 DEF WatchStep, TakeMessage, Touch, Find, Bump, EnvStep, DevicePublishes,
                      DbChanges
        <4>3. \E t \in Tasks : Upsert(t)
          BY <2>2, <4>1, <4>2, Cases
        <4> QED BY <2>2, <4>3 DEF Upsert
      <3>2. /\ u = minted + 1 /\ <<minted + 1, "upper">> \in Ids
        BY <2>2, <3>1 DEF Shape, Ulids, Ids
      <3>3. rows'[<<minted + 1, "upper">>] =
                [external |-> call[t].external, row |-> writes + 1, parts |-> writes + 1]
        BY <2>2, <3>1, <3>2 DEF Upsert, Shape
      <3>4. rows'[<<minted + 1, "upper">>] \in Stored /\ None \notin Stored
        <4>1. call[t].external \in Name
          BY <3>1 DEF Upsert, Shape, HasToken
        <4> QED BY <3>3, <4>1, RegistryAssumption DEF Stored, Name, Shape
      <3> QED BY <3>2, <3>4
    <2> QED BY <2>1, <2>2
  <1> QED BY <1>1, <1>2, <1>3, TableWriters

\* Rows name given ULIDs, and ghosts of deleted devices only.
LEMMA PresentStep ==
    ASSUME Shape, Remembered, Next, NEW id \in Present'
    PROVE  Given(id, minted') /\ Gone(rows'[id].external, deletes')
  <1>1. CASE id \in Present /\ rows'[id] = rows[id]
    BY <1>1, GivenStays, GoneStays DEF Remembered
  <1>2. CASE ~(id \in Present /\ rows'[id] = rows[id])
    <2>1. CASE \E t \in Tasks : Upsert(t) /\ ~UNCHANGED rows
      <3>1. PICK t \in Tasks : Upsert(t) /\ ~UNCHANGED rows
        BY <2>1
      <3>2. PICK new \in Ids :
                /\ new = IF call[t].id = None THEN <<minted + 1, "upper">> ELSE call[t].id
                /\ rows' = [rows EXCEPT ![new] = [external |-> call[t].external,
                                                  row      |-> writes + 1,
                                                  parts    |-> writes + 1]]
                /\ minted' = IF call[t].id = None THEN minted + 1 ELSE minted
        BY <3>1, UpsertWrites
      <3>3. id = new
        BY <1>2, <3>2 DEF Present, Shape
      <3>4. Given(new, minted')
        <4>1. CASE call[t].id = None
          BY <3>2, <4>1 DEF Given, Shape
        <4>2. CASE call[t].id # None
          BY <3>1, <3>2, <4>2 DEF Remembered, Upsert
        <4> QED BY <4>1, <4>2
      <3>5. Gone(call[t].external, deletes')
        BY <3>1, GoneStays DEF Remembered, Upsert
      <3>6. rows'[new].external = call[t].external
        BY <3>2 DEF Shape
      <3> QED BY <3>3, <3>4, <3>5, <3>6
    <2>2. CASE \E t \in Tasks : Delete(t) /\ ~UNCHANGED rows
      <3>1. PICK gone \in Ids : rows' = [rows EXCEPT ![gone] = None]
        BY <2>2, DeleteWrites
      <3> QED BY <1>2, <3>1 DEF Present, Shape
    <2>3. CASE UNCHANGED rows
      BY <1>2, <2>3 DEF Present
    <2> QED BY <2>1, <2>2, <2>3, TableWriters
  <1> QED BY <1>1, <1>2

\* Messages name given ULIDs.
LEMMA BusStep ==
    ASSUME Shape, Remembered, Next, NEW i \in 1 .. Len(bus')
    PROVE  Given(bus'[i], minted')
  <1>1. CASE bus' = bus
    BY <1>1, GivenStays DEF Remembered
  <1>2. CASE TakeMessage
    <2>1. bus' = Tail(bus) /\ bus # << >>
      BY <1>2 DEF TakeMessage
    <2>2. i + 1 \in 1 .. Len(bus) /\ bus'[i] = bus[i + 1]
      BY <2>1 DEF Shape
    <2> QED BY <2>2, GivenStays DEF Remembered
  <1>3. ASSUME NEW x, bus' = Append(bus, x), Given(x, minted), x \in Name
        PROVE  Given(bus'[i], minted')
    <2>1. CASE i \in 1 .. Len(bus)
      BY <1>3, <2>1, GivenStays DEF Remembered, Shape
    <2>2. CASE i = Len(bus) + 1
      <3>1. bus'[i] = x
        BY <1>3, <2>2 DEF Shape
      <3> QED BY <1>3, <3>1, GivenStays
    <2> QED BY <1>3, <2>1, <2>2 DEF Shape
  <1>4. ASSUME NEW t \in Tasks, Publish(t) PROVE Given(bus'[i], minted')
    <2>1. call[t].id \in AnyId /\ call[t].id # None /\ Given(call[t].id, minted)
      BY <1>4, RegistryAssumption DEF Publish, Shape, HasId, AnyId, Remembered
    <2>2. ValidToken(call[t].id) => call[t].id \in Name
      BY <2>1 DEF ValidToken, Name, AnyId
    <2> QED BY <1>1, <1>3, <1>4, <2>1, <2>2 DEF Publish
  <1>5. ASSUME NEW token \in Natives \cup ((1 .. minted) \X {"lower"}),
               DevicePublishes(token)
        PROVE  Given(bus'[i], minted')
    <2>1. token \in Name /\ Given(token, minted)
      BY RegistryAssumption DEF Name, Given, Shape, Ids, Ulids
    <2> QED BY <1>3, <1>5, <2>1 DEF DevicePublishes
  <1>6. ASSUME NEW t \in Tasks, TaskStep(t), ~Publish(t) PROVE bus' = bus
    BY <1>6 DEF TaskStep, Upsert, ReadRow, ReadPart, DbError, Delete, AuditWrite, Cancel,
                CallUpsert, CallDelete
  <1>7. ASSUME WatchStep, ~TakeMessage PROVE bus' = bus
    BY <1>7 DEF WatchStep, Touch, Find, Bump
  <1>8. DbChanges => bus' = bus
    BY DEF DbChanges
  <1> QED BY Cases, <1>1, <1>2, <1>4, <1>5, <1>6, <1>7, <1>8 DEF EnvStep

LEMMA RememberedStep ==
    ASSUME Shape, Remembered, Next
    PROVE  Remembered'
  BY GivenStep, PresentStep, BusStep, NamedStep DEF Remembered, Named

-----------------------------------------------------------------------------
(***************************************************************************)
(* Types with their bounds.                                                *)
(***************************************************************************)

\* The tasks that may still commit an upsert without another message.
Pending == { t \in Tasks : pc[t] \in {"touch", "find", "upsert"} }

Budget ==
    /\ writes + Len(bus) + Cardinality(Pending) <= MaxWrites
    /\ minted <= writes

\* How the number of tasks in a set changes when one of them moves.
LEMMA Counting ==
    ASSUME NEW before \in SUBSET Tasks, NEW after \in SUBSET Tasks
    PROVE  /\ Cardinality(before) \in Nat /\ Cardinality(after) \in Nat
           /\ after \subseteq before => Cardinality(after) <= Cardinality(before)
           /\ \A t \in Tasks : after \subseteq before \cup {t}
                    => Cardinality(after) <= Cardinality(before) + 1
           /\ \A t \in before : after \subseteq before \ {t}
                    => Cardinality(after) + 1 <= Cardinality(before)
  <1>1. IsFiniteSet(Tasks)
    BY RegistryAssumption, FS_AddElement DEF Tasks
  <1>2. /\ IsFiniteSet(before) /\ IsFiniteSet(after)
        /\ Cardinality(before) \in Nat /\ Cardinality(after) \in Nat
    BY <1>1, FS_Subset, FS_CardinalityType
  <1>3. ASSUME after \subseteq before PROVE Cardinality(after) <= Cardinality(before)
    BY <1>2, <1>3, FS_Subset
  <1>4. ASSUME NEW t \in Tasks, after \subseteq before \cup {t}
        PROVE  Cardinality(after) <= Cardinality(before) + 1
    <2>1. /\ IsFiniteSet(before \cup {t})
          /\ Cardinality(before \cup {t}) \in {Cardinality(before), Cardinality(before) + 1}
      BY <1>2, FS_AddElement
    <2>2. Cardinality(after) <= Cardinality(before \cup {t})
      BY <1>4, <2>1, FS_Subset
    <2> QED BY <1>2, <2>1, <2>2
  <1>5. ASSUME NEW t \in before, after \subseteq before \ {t}
        PROVE  Cardinality(after) + 1 <= Cardinality(before)
    <2>1. /\ IsFiniteSet(before \ {t})
          /\ Cardinality(before \ {t}) = Cardinality(before) - 1
      BY <1>2, FS_RemoveElement
    <2>2. Cardinality(after) <= Cardinality(before \ {t})
      BY <1>5, <2>1, FS_Subset
    <2> QED BY <1>2, <2>1, <2>2
  <1> QED BY <1>2, <1>3, <1>4, <1>5

\* A task that moves changes nobody else's place among the pending.
LEMMA OthersPending ==
    ASSUME Shape, NEW t \in Tasks, TaskStep(t)
    PROVE  Pending' \ {t} = Pending \ {t}
  <1>1. \A s \in Tasks \ {t} : pc'[s] = pc[s]
    BY OthersStay
  <1> QED BY <1>1 DEF Pending

\* The budget is never exceeded: an upsert spends what its task had reserved.
LEMMA BudgetStep ==
    ASSUME Shape, Budget, Next
    PROVE  Budget'
  <1>0. /\ writes \in Nat /\ minted \in Nat /\ Len(bus) \in Nat /\ MaxWrites \in Nat
        /\ writes + Len(bus) + Cardinality(Pending) <= MaxWrites /\ minted <= writes
        /\ Pending \in SUBSET Tasks /\ Pending' \in SUBSET Tasks
        /\ Cardinality(Pending) \in Nat /\ Cardinality(Pending') \in Nat
    BY RegistryAssumption, Counting DEF Shape, Budget, Pending
  <1>1. ASSUME Pending' \subseteq Pending, UNCHANGED <<writes, minted, bus>> PROVE Budget'
    <2>1. Cardinality(Pending') <= Cardinality(Pending)
      BY <1>0, <1>1, Counting
    <2> QED BY <1>0, <1>1, <2>1 DEF Budget
  <1>2. ASSUME NEW t \in Tasks, Upsert(t), TaskStep(t) PROVE Budget'
    <2>1. Pending' \subseteq Pending \ {t} /\ t \in Pending
      <3>1. t \in Pending
        BY <1>2 DEF Upsert, Pending
      <3>2. pc'[t] \in {"row", "idle"}
        BY <1>2 DEF Upsert, Go, Finish, Shape
      <3>3. t \notin Pending'
        BY <3>2 DEF Pending
      <3> QED BY <1>2, <3>1, <3>3, OthersPending
    <2>2. Cardinality(Pending') + 1 <= Cardinality(Pending)
      BY <1>0, <2>1, Counting
    <2>3. /\ writes' \in {writes, writes + 1} /\ bus' = bus
          /\ \/ minted' = minted /\ writes' >= writes
             \/ minted' = minted + 1 /\ writes' = writes + 1
      BY <1>0, <1>2 DEF Upsert
    <2> QED BY <1>0, <2>2, <2>3 DEF Budget
  <1>3. ASSUME NEW t \in Tasks, NEW native \in Natives, NEW id \in Nameable \cup {None},
               CallUpsert(t, id, native), TaskStep(t)
        PROVE  Budget'
    <2>1. Cardinality(Pending') <= Cardinality(Pending) + 1
      <3>1. Pending' \subseteq Pending \cup {t}
        BY <1>3, OthersPending
      <3> QED BY <1>0, <3>1, Counting
    <2>2. /\ writes + Len(bus) + Cardinality(Pending) < MaxWrites
          /\ UNCHANGED <<writes, minted, bus>>
      BY <1>3 DEF CallUpsert, HasBudget, Pending
    <2> QED BY <1>0, <2>1, <2>2 DEF Budget
  <1>4. ASSUME Pending' \subseteq Pending, NEW x, bus' = Append(bus, x), HasBudget,
               UNCHANGED <<writes, minted>>
        PROVE  Budget'
    <2>1. Cardinality(Pending') <= Cardinality(Pending)
      BY <1>0, <1>4, Counting
    <2>2. Len(bus') = Len(bus) + 1
      BY <1>4 DEF Shape
    <2>3. writes + Len(bus) + Cardinality(Pending) < MaxWrites
      BY <1>4 DEF HasBudget, Pending
    <2> QED BY <1>0, <1>4, <2>1, <2>2, <2>3 DEF Budget
  <1>5. ASSUME NEW t \in Tasks, Publish(t), TaskStep(t) PROVE Budget'
    <2>1. Pending' \subseteq Pending
      <3>1. t \notin Pending'
        BY <1>5 DEF Publish, Finish, Shape, Pending
      <3> QED BY <1>5, <3>1, OthersPending
    <2> QED BY <1>1, <1>4, <1>5, <2>1 DEF Publish
  <1>6. ASSUME NEW t \in Tasks, TaskStep(t), ~Upsert(t), ~Publish(t),
               ~ \E native \in Natives, id \in Nameable \cup {None} : CallUpsert(t, id, native)
        PROVE  Budget'
    <2>1. UNCHANGED <<writes, minted, bus>> /\ pc'[t] \notin {"touch", "find", "upsert"}
      BY <1>6 DEF TaskStep, ReadRow, ReadPart, DbError, Delete, AuditWrite, Cancel,
                  CallDelete, AfterQuery, Go, Finish, Shape, Queries
    <2>2. Pending' \subseteq Pending
      BY <1>6, <2>1, OthersPending DEF Pending
    <2> QED BY <1>1, <2>1, <2>2
  <1>7. CASE TakeMessage
    <2>1. Watcher \in Tasks /\ UNCHANGED <<writes, minted>>
      BY <1>7 DEF TakeMessage, Tasks
    <2>2. Pending' \subseteq Pending \cup {Watcher}
      BY <1>7, <2>1 DEF TakeMessage, Go, Shape, Pending
    <2>3. Cardinality(Pending') <= Cardinality(Pending) + 1
      BY <1>0, <2>1, <2>2, Counting
    <2>4. Len(bus') = Len(bus) - 1
      BY <1>7, HeadTailProperties DEF TakeMessage, Shape
    <2> QED BY <1>0, <2>1, <2>3, <2>4 DEF Budget
  <1>8. CASE Touch \/ Find \/ Bump
    <2>1. Watcher \in Tasks
      BY DEF Tasks
    <2>2. UNCHANGED <<writes, minted, bus>> /\ Pending' \subseteq Pending
      BY <1>8, <2>1 DEF Touch, Find, Bump, Go, Finish, Shape, Pending
    <2> QED BY <1>1, <2>2
  <1>9. CASE EnvStep
    <2>1. CASE DbChanges
      BY <1>1, <2>1 DEF DbChanges, Pending
    <2>2. ASSUME NEW token, DevicePublishes(token) PROVE Budget'
      <3>1. Pending' = Pending
        BY <2>2 DEF DevicePublishes, Pending
      <3> QED BY <1>4, <2>2, <3>1 DEF DevicePublishes
    <2> QED BY <1>9, <2>1, <2>2 DEF EnvStep
  <1> QED BY Cases, <1>2, <1>3, <1>5, <1>6, <1>7, <1>8, <1>9 DEF WatchStep

\* What a task learns, within the bounds.
LEMMA LearnBounded ==
    ASSUME NEW r \in Call
    PROVE  /\ \A id \in Ids : [r EXCEPT !.id = id] \in Call
           /\ \A n \in 0 .. MaxWrites :
                 [r EXCEPT !.row = n] \in Call /\ [r EXCEPT !.parts = n] \in Call
  BY DEF Call

\* What is left of the budget bounds the numbers.
LEMMA Bounded ==
    ASSUME Shape', Budget'
    PROVE  minted' \in 0 .. MaxWrites /\ writes' \in 0 .. MaxWrites
  <1>1. Cardinality(Pending') \in Nat
    BY Counting DEF Pending
  <1>2. writes' \in Nat /\ minted' \in Nat /\ Len(bus') \in Nat /\ MaxWrites \in Nat
    BY RegistryAssumption DEF Shape
  <1> QED BY <1>1, <1>2 DEF Budget

\* A request stays within the bounds, and an idle task has none.
Kept(t) == call[t] \in Call \cup {None} /\ (pc[t] = "idle" => call[t] = None)

LEMMA KeptTask ==
    ASSUME Shape, TypeOK, Budget, Next, NEW t \in Tasks, TaskStep(t)
    PROVE  Kept(t)'
  <1>0. /\ MaxWrites \in Nat /\ minted \in Nat /\ minted' \in 0 .. MaxWrites
        /\ pc[t] # "idle" => call[t] \in Call
        /\ pc \in [Tasks -> Points] /\ call \in [Tasks -> Call \cup {None}]
    <2>1. minted' \in 0 .. MaxWrites
      BY ShapeStep, BudgetStep, Bounded
    <2> QED BY <2>1, RegistryAssumption DEF TypeOK
  <1>1. ASSUME Finish(t) PROVE Kept(t)'
    BY <1>0, <1>1 DEF Finish, Kept
  <1>2. CASE Upsert(t)
    <2>1. CASE Finish(t)
      BY <1>1, <2>1
    <2>2. CASE ~Finish(t)
      <3>1. PICK id : /\ id = IF call[t].id = None THEN <<minted + 1, "upper">> ELSE call[t].id
                      /\ minted' = IF call[t].id = None THEN minted + 1 ELSE minted
                      /\ call' = [call EXCEPT ![t] = [call[t] EXCEPT !.id = id]]
                      /\ pc' = [pc EXCEPT ![t] = "row"]
        BY <1>2, <2>2 DEF Upsert, Go
      <3>2. call[t] \in Call
        BY <1>0, <1>2 DEF Upsert
      <3>3. id \in Ids
        <4>1. CASE call[t].id = None
          BY <1>0, <3>1, <4>1 DEF Ids, Ulids
        <4>2. CASE call[t].id # None
          BY <3>1, <3>2, <4>2 DEF Call
        <4> QED BY <4>1, <4>2
      <3>4. call'[t] \in Call /\ pc'[t] = "row"
        BY <1>0, <3>1, <3>2, <3>3, LearnBounded
      <3> QED BY <3>4 DEF Kept
    <2> QED BY <2>1, <2>2
  <1>3. CASE ReadRow(t)
    <2>1. CASE Finish(t)
      BY <1>1, <2>1
    <2>2. CASE ~Finish(t)
      <3>1. /\ call[t].id \in Present /\ pc' = [pc EXCEPT ![t] = "rooms"]
            /\ call' = [call EXCEPT ![t] = [call[t] EXCEPT !.row = rows[call[t].id].row]]
        BY <1>3, <2>2 DEF ReadRow, Go
      <3>2. rows[call[t].id].row \in 0 .. MaxWrites
        BY <3>1 DEF Present, TypeOK, Row
      <3>3. call[t] \in Call
        BY <1>0, <1>3 DEF ReadRow
      <3>4. call'[t] \in Call /\ pc'[t] = "rooms"
        BY <1>0, <3>1, <3>2, <3>3, LearnBounded
      <3> QED BY <3>4 DEF Kept
    <2> QED BY <2>1, <2>2
  <1>4. CASE ReadPart(t)
    <2>1. CASE Finish(t)
      BY <1>1, <2>1
    <2>2. CASE ~Finish(t)
      <3>1. PICK n : /\ n = IF call[t].id \in Present THEN rows[call[t].id].parts ELSE 0
                     /\ call' = [call EXCEPT ![t] = [call[t] EXCEPT !.parts = n]]
        BY <1>4, <2>2 DEF ReadPart
      <3>2. n \in 0 .. MaxWrites
        <4>1. CASE call[t].id \in Present
          BY <3>1, <4>1 DEF Present, TypeOK, Row
        <4>2. CASE call[t].id \notin Present
          BY <1>0, <3>1, <4>2
        <4> QED BY <4>1, <4>2
      <3>3. call[t] \in Call
        BY <1>0, <1>4 DEF ReadPart, Queries
      <3>4. call'[t] \in Call
        BY <1>0, <3>1, <3>2, <3>3, LearnBounded
      <3>5. pc'[t] \in {"capabilities", "entities", "bump", "audit"}
        BY <1>0, <1>4, <2>2 DEF ReadPart, AfterQuery, Queries, Go
      <3> QED BY <3>4, <3>5 DEF Kept
    <2> QED BY <2>1, <2>2
  <1>5. CASE DbError(t) \/ Publish(t) \/ Cancel(t)
    BY <1>1, <1>5 DEF DbError, Publish, Cancel
  <1>6. CASE Delete(t) \/ AuditWrite(t)
    <2>1. CASE Finish(t)
      BY <1>1, <2>1
    <2>2. CASE ~Finish(t)
      <3>1. UNCHANGED call /\ pc[t] # "idle" /\ pc'[t] \in {"audit", "publish"}
        BY <1>0, <1>6, <2>2 DEF Delete, AuditWrite, Go
      <3> QED BY <1>0, <3>1 DEF Kept
    <2> QED BY <2>1, <2>2
  <1>7. ASSUME NEW native \in Natives, NEW id \in Nameable \cup {None},
               CallUpsert(t, id, native)
        PROVE  Kept(t)'
    <2>1. Request("upsert", id, native) \in Call
      <3>1. id \in Ids \cup {None} /\ native \in Tokens
        BY <1>0 DEF Nameable, Ids, Ulids, Tokens, TypeOK
      <3> QED BY <1>0, <3>1 DEF Request, Call
    <2> QED BY <1>0, <1>7, <2>1 DEF CallUpsert, Go, Kept
  <1>8. ASSUME NEW id \in Nameable, CallDelete(t, id) PROVE Kept(t)'
    <2>1. Request("delete", id, None) \in Call
      <3>1. id \in Ids
        BY <1>0 DEF Nameable, Ids, Ulids, TypeOK
      <3> QED BY <1>0, <3>1 DEF Request, Call
    <2> QED BY <1>0, <1>8, <2>1 DEF CallDelete, Go, Kept
  <1> QED BY <1>2, <1>3, <1>4, <1>5, <1>6, <1>7, <1>8 DEF TaskStep

LEMMA KeptWatch ==
    ASSUME TypeOK, WatchStep
    PROVE  Kept(Watcher)'
  <1>0. /\ MaxWrites \in Nat /\ Watcher \in Tasks
        /\ pc[Watcher] # "idle" => call[Watcher] \in Call
        /\ pc \in [Tasks -> Points] /\ call \in [Tasks -> Call \cup {None}]
    BY RegistryAssumption DEF Tasks, TypeOK
  <1>1. ASSUME NEW op \in {"find", "register"}, NEW token \in Tokens
        PROVE  Request(op, None, token) \in Call
    BY <1>0 DEF Request, Call
  <1>2. CASE Finish(Watcher)
    BY <1>0, <1>2 DEF Finish, Kept
  <1>3. CASE TakeMessage
    <2>1. Head(bus) \in Tokens
      BY <1>3 DEF TakeMessage, TypeOK
    <2> QED BY <1>0, <1>1, <1>3, <2>1 DEF TakeMessage, Go, Kept
  <1>4. CASE Touch
    BY <1>0, <1>2, <1>4 DEF Touch, Go, Kept
  <1>5. CASE Find
    <2>1. CASE \E id \in Present : /\ call' = [call EXCEPT ![Watcher].id = id]
                                   /\ Go(Watcher, "row")
      <3>1. PICK id \in Present :
                /\ call' = [call EXCEPT ![Watcher] = [call[Watcher] EXCEPT !.id = id]]
                /\ pc' = [pc EXCEPT ![Watcher] = "row"]
        BY <2>1 DEF Go
      <3>2. id \in Ids /\ call[Watcher] \in Call
        BY <1>0, <1>5 DEF Present, Find
      <3>3. call'[Watcher] \in Call /\ pc'[Watcher] = "row"
        BY <1>0, <3>1, <3>2, LearnBounded
      <3> QED BY <3>3 DEF Kept
    <2>2. CASE /\ call' = [call EXCEPT ![Watcher] =
                              Request("register", None, call[Watcher].external)]
               /\ Go(Watcher, "upsert")
      <3>1. call[Watcher].external \in Tokens \cup {None} /\ call[Watcher] \in Call
        BY <1>0, <1>5 DEF Find, Call
      <3>2. Request("register", None, call[Watcher].external) \in Call
        BY <1>0, <3>1 DEF Request, Call
      <3> QED BY <1>0, <2>2, <3>2 DEF Go, Kept
    <2> QED BY <1>5, <2>1, <2>2 DEF Find
  <1> QED BY <1>2, <1>3, <1>4, <1>5 DEF WatchStep, Bump

LEMMA KeptStep ==
    ASSUME Shape, TypeOK, Budget, Next, NEW t \in Tasks
    PROVE  Kept(t)'
  <1>1. ASSUME pc'[t] = pc[t], call'[t] = call[t] PROVE Kept(t)'
    BY <1>1 DEF Kept, TypeOK
  <1>2. CASE TaskStep(t)
    BY <1>2, KeptTask
  <1>3. CASE \E s \in Tasks \ {t} : TaskStep(s)
    BY <1>1, <1>3, OthersStay
  <1>4. CASE WatchStep
    <2>1. CASE t = Watcher
      BY <1>4, <2>1, KeptWatch
    <2>2. CASE t # Watcher
      BY <1>1, <1>4, <2>2
         DEF WatchStep, TakeMessage, Touch, Find, Bump, Go, Finish, Shape
    <2> QED BY <2>1, <2>2
  <1>5. CASE EnvStep
    BY <1>1, <1>5 DEF EnvStep, DevicePublishes, DbChanges
  <1> QED BY Cases, <1>2, <1>3, <1>4, <1>5

\* What is on the bus: tokens within the bounds, no more than it takes.
LEMMA KeptBus ==
    ASSUME Shape, TypeOK, Budget, Next
    PROVE  bus' \in Seq(Tokens) /\ Len(bus') <= MaxBus
  <1>0. bus \in Seq(Tokens) /\ Len(bus) <= MaxBus /\ MaxBus \in Nat
    BY RegistryAssumption DEF TypeOK
  <1>1. ASSUME NEW x \in Tokens, bus' = Append(bus, x), Len(bus) < MaxBus
        PROVE  bus' \in Seq(Tokens) /\ Len(bus') <= MaxBus
    BY <1>0, <1>1
  <1>2. ASSUME NEW t \in Tasks, Publish(t)
        PROVE  bus' \in Seq(Tokens) /\ Len(bus') <= MaxBus
    <2>1. CASE UNCHANGED bus
      BY <1>0, <2>1
    <2>2. CASE ~UNCHANGED bus
      <3>1. /\ bus' = Append(bus, call[t].id) /\ Len(bus) < MaxBus
            /\ ValidToken(call[t].id) /\ pc[t] = "publish"
        BY <1>2, <2>2 DEF Publish
      <3>2. call[t] \in Call /\ call[t].id \in AnyId
        BY <3>1 DEF TypeOK, Shape, HasId
      <3>3. call[t].id \in Ids
        BY <3>2, RegistryAssumption DEF Call, AnyId
      <3>4. call[t].id \in Tokens
        BY <3>1, <3>3 DEF ValidToken, Tokens, Ids
      <3> QED BY <1>1, <3>1, <3>4
    <2> QED BY <2>1, <2>2
  <1>3. CASE TakeMessage
    <2>1. bus # << >> /\ bus' = Tail(bus)
      BY <1>3 DEF TakeMessage
    <2>2. Tail(bus) \in Seq(Tokens) /\ Len(Tail(bus)) = Len(bus) - 1
      BY <1>0, <2>1, HeadTailProperties
    <2> QED BY <1>0, <2>1, <2>2
  <1>4. ASSUME NEW token \in Natives \cup ((1 .. minted) \X {"lower"}),
               DevicePublishes(token)
        PROVE  bus' \in Seq(Tokens) /\ Len(bus') <= MaxBus
    <2>1. minted \in 0 .. MaxWrites /\ MaxWrites \in Nat
      BY RegistryAssumption DEF TypeOK
    <2>2. token \in Tokens
      BY <2>1 DEF Tokens, Ulids
    <2> QED BY <1>1, <1>4, <2>2 DEF DevicePublishes
  <1>5. ASSUME NEW t \in Tasks, TaskStep(t), ~Publish(t) PROVE UNCHANGED bus
    BY <1>5 DEF TaskStep, Upsert, ReadRow, ReadPart, DbError, Delete, AuditWrite, Cancel,
                CallUpsert, CallDelete
  <1>6. ASSUME WatchStep, ~TakeMessage PROVE UNCHANGED bus
    BY <1>6 DEF WatchStep, Touch, Find, Bump
  <1>7. DbChanges => UNCHANGED bus
    BY DEF DbChanges
  <1> QED BY Cases, <1>0, <1>2, <1>3, <1>4, <1>5, <1>6, <1>7 DEF EnvStep

\* What is in the table: rows within the bounds.
LEMMA KeptRows ==
    ASSUME Shape, TypeOK, Budget, Next
    PROVE  rows' \in [Ids -> Row \cup {None}]
  <1>1. CASE \E t \in Tasks : Upsert(t) /\ ~UNCHANGED rows
    <2>1. PICK t \in Tasks : Upsert(t) /\ ~UNCHANGED rows
      BY <1>1
    <2>2. PICK id \in Ids : /\ writes' = writes + 1
                            /\ rows' = [rows EXCEPT ![id] = [external |-> call[t].external,
                                                             row      |-> writes + 1,
                                                             parts    |-> writes + 1]]
                            /\ call[t].external \in Name
      BY <2>1, UpsertWrites
    <2>3. call[t].external \in Tokens
      <3>1. call[t] \in Call
        BY <2>1 DEF TypeOK, Upsert
      <3>2. None \notin Name
        BY RegistryAssumption DEF Name
      <3> QED BY <2>2, <3>1, <3>2 DEF Call
    <2>4. writes + 1 \in 1 .. MaxWrites
      BY <2>2, ShapeStep, BudgetStep, Bounded, RegistryAssumption DEF Shape
    <2>5. [external |-> call[t].external, row |-> writes + 1, parts |-> writes + 1] \in Row
      BY <2>3, <2>4 DEF Row
    <2>6. rows \in [Ids -> Row \cup {None}]
      BY DEF TypeOK
    <2> QED BY <2>2, <2>5, <2>6
  <1>2. CASE \E t \in Tasks : Delete(t) /\ ~UNCHANGED rows
    BY <1>2, DeleteWrites DEF TypeOK
  <1>3. CASE UNCHANGED rows
    BY <1>3 DEF TypeOK
  <1> QED BY <1>1, <1>2, <1>3, TableWriters

\* The audit log counts, and the database is open or locked.
LEMMA KeptOutside ==
    ASSUME TypeOK, Next
    PROVE  audit' \in [AuditEntry -> Nat] /\ db' \in {"open", "locked"} /\ known' \in BOOLEAN
  <1>0. audit \in [AuditEntry -> Nat] /\ db \in {"open", "locked"}
    BY DEF TypeOK
  <1>1. known' \in BOOLEAN
    BY DEF Next, Observe
  <1>2. ASSUME NEW t \in Tasks, AuditWrite(t)
        PROVE  audit' \in [AuditEntry -> Nat] /\ UNCHANGED db
    <2>1. UNCHANGED db
      BY <1>2 DEF AuditWrite
    <2>2. \/ UNCHANGED audit
          \/ \E told : audit' = [audit EXCEPT ![told] = audit[told] + 1]
      BY <1>2 DEF AuditWrite
    <2>3. ASSUME NEW told, audit' = [audit EXCEPT ![told] = audit[told] + 1]
          PROVE  audit' \in [AuditEntry -> Nat]
      <3>1. CASE told \in AuditEntry
        BY <1>0, <2>3, <3>1
      <3>2. CASE told \notin AuditEntry
        BY <1>0, <2>3, <3>2
      <3> QED BY <3>1, <3>2
    <2> QED BY <1>0, <2>1, <2>2, <2>3
  <1>3. ASSUME NEW t \in Tasks, TaskStep(t), ~AuditWrite(t) PROVE UNCHANGED <<audit, db>>
    BY <1>3 DEF TaskStep, Upsert, ReadRow, ReadPart, DbError, Delete, Publish, Cancel,
                CallUpsert, CallDelete
  <1>4. WatchStep => UNCHANGED <<audit, db>>
    BY DEF WatchStep, TakeMessage, Touch, Find, Bump
  <1>5. EnvStep => UNCHANGED audit /\ db' \in {"open", "locked"}
    BY <1>0 DEF EnvStep, DevicePublishes, DbChanges
  <1> QED BY Cases, <1>0, <1>1, <1>2, <1>3, <1>4, <1>5

LEMMA TypeStep ==
    ASSUME Shape, TypeOK, Budget, Next
    PROVE  TypeOK'
  <1>1. Shape' /\ minted' \in 0 .. MaxWrites /\ writes' \in 0 .. MaxWrites
    BY ShapeStep, BudgetStep, Bounded
  <1>2. \A t \in Tasks : Kept(t)'
    BY KeptStep
  <1>3. call' \in [Tasks -> Call \cup {None}]
    <2>1. call' \in [Tasks -> Asked \cup {None}]
      BY <1>1 DEF Shape
    <2> QED BY <1>2, <2>1 DEF Kept
  <1>4. \A t \in Tasks : pc'[t] = "idle" <=> call'[t] = None
    <2>1. None \notin Asked
      BY RegistryAssumption DEF Asked, AnyId, Name
    <2> QED BY <1>1, <1>2, <2>1 DEF Kept, Shape
  <1>5. pc' \in [Tasks -> Points] /\ deletes' \in [Ids -> Nat]
    BY <1>1 DEF Shape
  <1> QED BY <1>1, <1>3, <1>4, <1>5, KeptRows, KeptBus, KeptOutside DEF TypeOK

-----------------------------------------------------------------------------
(***************************************************************************)
(* Deletions and what the audit log tells of them.                         *)
(***************************************************************************)
DeletedEntry(id) == [kind |-> "device.deleted", id |-> id]

\* The requests that have deleted this device and have yet to say so.
Deleting(id) ==
    { t \in Tasks : pc[t] = "audit" /\ call[t].op = "delete" /\ call[t].id = id }

\* A request to delete does nothing but delete and audit.
Straight(t) ==
    pc[t] # "idle" /\ call[t].op = "delete" => pc[t] \in {"delete", "audit"}

Told ==
    /\ \A id \in Ids : audit[DeletedEntry(id)] + Cardinality(Deleting(id)) <= deletes[id]
    /\ \A t \in Tasks : Straight(t)

\* Where a step leaves a request to delete.
LEMMA StraightStep ==
    ASSUME Shape, Told, Next, NEW t \in Tasks
    PROVE  Straight(t)'
  <1>1. ASSUME pc'[t] = pc[t], call'[t] = call[t] PROVE Straight(t)'
    BY <1>1 DEF Told, Straight
  <1>2. CASE TaskStep(t)
    <2>0. /\ pc \in [Tasks -> Points] /\ call \in [Tasks -> Asked \cup {None}]
          /\ pc[t] # "idle" => call[t] \in Asked
          /\ pc[t] # "idle" /\ call[t].op = "delete" => pc[t] \in {"delete", "audit"}
      BY DEF Shape, Told, Straight
    <2>1. ASSUME Finish(t) PROVE Straight(t)'
      BY <2>0, <2>1 DEF Finish, Straight
    <2>2. CASE Upsert(t) \/ ReadRow(t) \/ ReadPart(t)
      <3>1. CASE Finish(t)
        BY <2>1, <3>1
      <3>2. CASE ~Finish(t)
        <4>1. \/ \E id : call' = [call EXCEPT ![t] = [call[t] EXCEPT !.id = id]]
              \/ \E n : call' = [call EXCEPT ![t] = [call[t] EXCEPT !.row = n]]
              \/ \E n : call' = [call EXCEPT ![t] = [call[t] EXCEPT !.parts = n]]
          BY <2>2, <3>2 DEF Upsert, ReadRow, ReadPart
        <4>2. pc[t] \in {"upsert", "row"} \cup Queries
          BY <2>2 DEF Upsert, ReadRow, ReadPart
        <4>3. call'[t].op = call[t].op
          BY <2>0, <4>1, <4>2 DEF Asked, Queries
        <4> QED BY <2>0, <4>2, <4>3 DEF Straight, Queries
      <3> QED BY <3>1, <3>2
    <2>3. CASE DbError(t) \/ Publish(t) \/ Cancel(t)
      BY <2>1, <2>3 DEF DbError, Publish, Cancel
    <2>4. CASE Delete(t) \/ AuditWrite(t)
      <3>1. CASE Finish(t)
        BY <2>1, <3>1
      <3>2. CASE ~Finish(t)
        BY <2>0, <2>4, <3>2 DEF Delete, AuditWrite, Go, Straight
      <3> QED BY <3>1, <3>2
    <2>5. CASE \E native \in Natives, id \in Nameable \cup {None} : CallUpsert(t, id, native)
      BY <2>0, <2>5 DEF CallUpsert, Request, Go, Straight
    <2>6. CASE \E id \in Nameable : CallDelete(t, id)
      BY <2>0, <2>6 DEF CallDelete, Go, Straight
    <2> QED BY <1>2, <2>2, <2>3, <2>4, <2>5, <2>6 DEF TaskStep
  <1>3. CASE \E s \in Tasks \ {t} : TaskStep(s)
    BY <1>1, <1>3, OthersStay
  <1>4. CASE WatchStep
    <2>0. /\ pc \in [Tasks -> Points] /\ call \in [Tasks -> Asked \cup {None}]
          /\ pc[t] # "idle" => call[t] \in Asked
          /\ pc[t] # "idle" /\ call[t].op = "delete" => pc[t] \in {"delete", "audit"}
      BY DEF Shape, Told, Straight
    <2>1. CASE t # Watcher
      BY <1>1, <1>4, <2>1
         DEF WatchStep, TakeMessage, Touch, Find, Bump, Go, Finish, Shape
    <2>2. CASE t = Watcher
      <3>1. CASE TakeMessage
        BY <2>0, <2>2, <3>1 DEF TakeMessage, Request, Go, Straight
      <3>2. CASE Touch \/ Bump
        BY <2>0, <2>2, <3>2 DEF Touch, Bump, Finish, Go, Straight
      <3>3. CASE Find
        <4>1. CASE \E id \in Present : call' = [call EXCEPT ![Watcher].id = id]
          <5>1. call'[t].op = call[t].op
            BY <2>0, <2>2, <3>3, <4>1 DEF Find, Asked
          <5> QED BY <2>0, <2>2, <3>3, <5>1 DEF Find, Straight
        <4>2. CASE call' = [call EXCEPT ![Watcher] =
                               Request("register", None, call[Watcher].external)]
          BY <2>0, <2>2, <4>2 DEF Request, Straight
        <4> QED BY <3>3, <4>1, <4>2 DEF Find
      <3> QED BY <1>4, <3>1, <3>2, <3>3 DEF WatchStep
    <2> QED BY <2>1, <2>2
  <1>5. CASE EnvStep
    BY <1>1, <1>5 DEF EnvStep, DevicePublishes, DbChanges
  <1> QED BY Cases, <1>2, <1>3, <1>4, <1>5

\* A task that is no longer about to audit a deletion, or never was.
LEMMA DeletingTask ==
    ASSUME Shape, NEW t \in Tasks, TaskStep(t), NEW id \in Ids
    PROVE  /\ Deleting(id)' \ {t} = Deleting(id) \ {t}
           /\ Deleting(id) \in SUBSET Tasks /\ Deleting(id)' \in SUBSET Tasks
  <1>1. \A s \in Tasks \ {t} : pc'[s] = pc[s] /\ call'[s] = call[s]
    BY OthersStay
  <1> QED BY <1>1 DEF Deleting

\* An audit entry is written by the request that deleted, which is then done.
LEMMA ToldByAudit ==
    ASSUME Shape, TypeOK, Told, NEW t \in Tasks, TaskStep(t), AuditWrite(t), NEW id \in Ids
    PROVE  audit'[DeletedEntry(id)] + Cardinality(Deleting(id)') <= deletes'[id]
  <1>0. /\ audit[DeletedEntry(id)] \in Nat /\ deletes[id] \in Nat
        /\ audit[DeletedEntry(id)] + Cardinality(Deleting(id)) <= deletes[id]
        /\ UNCHANGED deletes
        /\ audit \in [AuditEntry -> Nat] /\ DeletedEntry(id) \in AuditEntry
        /\ pc \in [Tasks -> Points] /\ call \in [Tasks -> Asked \cup {None}]
    BY DEF Shape, TypeOK, Told, AuditWrite, AuditEntry, DeletedEntry
  <1>1. /\ Cardinality(Deleting(id)) \in Nat /\ Cardinality(Deleting(id)') \in Nat
        /\ Deleting(id) \in SUBSET Tasks /\ Deleting(id)' \in SUBSET Tasks
    BY DeletingTask, Counting
  <1>2. t \notin Deleting(id)'
    BY <1>0 DEF AuditWrite, Finish, Go, Deleting
  <1>3. CASE t \in Deleting(id)
    <2>1. Deleting(id)' \subseteq Deleting(id) \ {t}
      BY <1>2, DeletingTask
    <2>2. Cardinality(Deleting(id)') + 1 <= Cardinality(Deleting(id))
      BY <1>1, <1>3, <2>1, Counting
    <2>3. audit'[DeletedEntry(id)] \in {audit[DeletedEntry(id)], audit[DeletedEntry(id)] + 1}
      BY <1>0 DEF AuditWrite
    <2> QED BY <1>0, <1>1, <2>2, <2>3
  <1>4. CASE t \notin Deleting(id)
    <2>1. Cardinality(Deleting(id)') <= Cardinality(Deleting(id))
      BY <1>1, <1>2, <1>4, DeletingTask, Counting
    <2>2. [kind |-> Kind(call[t]), id |-> call[t].id] # DeletedEntry(id)
      <3>1. call[t].op # "delete" \/ call[t].id # id
        BY <1>4 DEF Deleting, AuditWrite
      <3>2. call[t].op # "delete" => Kind(call[t]) # "device.deleted"
        BY DEF Kind
      <3> QED BY <3>1, <3>2 DEF DeletedEntry
    <2>3. audit'[DeletedEntry(id)] = audit[DeletedEntry(id)]
      BY <1>0, <2>2 DEF AuditWrite
    <2> QED BY <1>0, <1>1, <2>1, <2>3
  <1> QED BY <1>3, <1>4

\* A delete that finds its row is one more delete, to be told once.
LEMMA ToldByDelete ==
    ASSUME Shape, TypeOK, Told, NEW t \in Tasks, TaskStep(t), Delete(t), NEW id \in Ids
    PROVE  audit'[DeletedEntry(id)] + Cardinality(Deleting(id)') <= deletes'[id]
  <1>0. /\ audit[DeletedEntry(id)] \in Nat /\ deletes[id] \in Nat
        /\ audit[DeletedEntry(id)] + Cardinality(Deleting(id)) <= deletes[id]
        /\ UNCHANGED audit
        /\ pc \in [Tasks -> Points] /\ call \in [Tasks -> Asked \cup {None}]
        /\ deletes \in [Ids -> Nat]
    BY DEF Shape, TypeOK, Told, Delete, AuditEntry, DeletedEntry
  <1>1. /\ Cardinality(Deleting(id)) \in Nat /\ Cardinality(Deleting(id)') \in Nat
        /\ Deleting(id) \in SUBSET Tasks /\ Deleting(id)' \in SUBSET Tasks
    BY DeletingTask, Counting
  <1>2. CASE Finish(t)
    <2>1. t \notin Deleting(id)'
      BY <1>0, <1>2 DEF Finish, Deleting
    <2>2. Cardinality(Deleting(id)') <= Cardinality(Deleting(id))
      BY <1>1, <2>1, DeletingTask, Counting
    <2>3. deletes' = deletes
      BY <1>0, <1>2 DEF Delete, Finish, Go
    <2> QED BY <1>0, <1>1, <2>2, <2>3
  <1>3. CASE ~Finish(t)
    <2>1. /\ deletes' = [deletes EXCEPT ![call[t].id] = deletes[call[t].id] + 1]
          /\ UNCHANGED call
      BY <1>3 DEF Delete
    <2>2. CASE call[t].id = id
      <3>1. deletes'[id] = deletes[id] + 1
        BY <1>0, <2>1, <2>2
      <3>2. Cardinality(Deleting(id)') <= Cardinality(Deleting(id)) + 1
        BY <1>1, DeletingTask, Counting
      <3> QED BY <1>0, <1>1, <3>1, <3>2
    <2>3. CASE call[t].id # id
      <3>1. deletes'[id] = deletes[id]
        BY <1>0, <2>1, <2>3
      <3>2. t \notin Deleting(id)'
        BY <2>1, <2>3 DEF Deleting
      <3>3. Cardinality(Deleting(id)') <= Cardinality(Deleting(id))
        BY <1>1, <3>2, DeletingTask, Counting
      <3> QED BY <1>0, <1>1, <3>1, <3>3
    <2> QED BY <2>2, <2>3
  <1> QED BY <1>2, <1>3

\* Nothing else comes to the audit of a deletion.
LEMMA ToldElse ==
    ASSUME Shape, TypeOK, Told, NEW id \in Ids, UNCHANGED <<audit, deletes>>,
           Deleting(id)' \subseteq Deleting(id)
    PROVE  audit'[DeletedEntry(id)] + Cardinality(Deleting(id)') <= deletes'[id]
  <1>1. /\ audit[DeletedEntry(id)] \in Nat /\ deletes[id] \in Nat
        /\ audit[DeletedEntry(id)] + Cardinality(Deleting(id)) <= deletes[id]
    BY DEF Shape, TypeOK, Told, AuditEntry, DeletedEntry
  <1>2. Deleting(id) \in SUBSET Tasks /\ Deleting(id)' \in SUBSET Tasks
    BY DEF Deleting
  <1>3. /\ Cardinality(Deleting(id)) \in Nat /\ Cardinality(Deleting(id)') \in Nat
        /\ Cardinality(Deleting(id)') <= Cardinality(Deleting(id))
    BY <1>2, Counting
  <1> QED BY <1>1, <1>3

LEMMA ToldStep ==
    ASSUME Shape, TypeOK, Told, Next
    PROVE  Told'
  <1>1. ASSUME NEW id \in Ids
        PROVE  audit'[DeletedEntry(id)] + Cardinality(Deleting(id)') <= deletes'[id]
    <2>1. ASSUME NEW t \in Tasks, TaskStep(t), ~AuditWrite(t), ~Delete(t)
          PROVE  audit'[DeletedEntry(id)] + Cardinality(Deleting(id)') <= deletes'[id]
      <3>1. UNCHANGED <<audit, deletes>>
        BY <2>1 DEF TaskStep, Upsert, ReadRow, ReadPart, DbError, Publish, Cancel,
                    CallUpsert, CallDelete
      <3>2. pc'[t] = "audit" => pc[t] \in Queries /\ call'[t].op = call[t].op
        <4>1. CASE ReadPart(t)
          <5>1. CASE Finish(t)
            BY <5>1 DEF Finish, Shape
          <5>2. CASE ~Finish(t)
            <6>1. PICK n : call' = [call EXCEPT ![t] = [call[t] EXCEPT !.parts = n]]
              BY <4>1, <5>2 DEF ReadPart
            <6>2. pc[t] \in Queries /\ call[t] \in Asked
              BY <4>1 DEF ReadPart, Queries, Shape
            <6> QED BY <6>1, <6>2 DEF Shape, Asked
          <5> QED BY <5>1, <5>2
        <4>2. CASE ~ReadPart(t)
          <5>1. pc'[t] # "audit"
            BY <2>1, <4>2 DEF TaskStep, Upsert, ReadRow, DbError, Publish, Cancel, CallUpsert,
                              CallDelete, Go, Finish, Shape
          <5> QED BY <5>1
        <4> QED BY <4>1, <4>2
      <3>3. t \notin Deleting(id)'
        BY <3>2 DEF Deleting, Told, Straight, Queries
      <3>4. Deleting(id)' \subseteq Deleting(id)
        BY <2>1, <3>3, DeletingTask
      <3> QED BY <3>1, <3>4, ToldElse
    <2>2. CASE WatchStep
      <3>1. UNCHANGED <<audit, deletes>>
        BY <2>2 DEF WatchStep, TakeMessage, Touch, Find, Bump
      <3>2. \A t \in Tasks \ {Watcher} : pc'[t] = pc[t] /\ call'[t] = call[t]
        BY <2>2 DEF WatchStep, TakeMessage, Touch, Find, Bump, Go, Finish, Shape
      <3>3. Watcher \in Tasks
        BY DEF Tasks
      <3>4. pc'[Watcher] # "audit"
        BY <2>2, <3>3 DEF WatchStep, TakeMessage, Touch, Find, Bump, Go, Finish, Shape
      <3>5. Deleting(id)' \subseteq Deleting(id)
        BY <3>2, <3>4 DEF Deleting
      <3> QED BY <3>1, <3>5, ToldElse
    <2>3. CASE EnvStep
      <3>1. UNCHANGED <<audit, deletes, pc, call>>
        BY <2>3 DEF EnvStep, DevicePublishes, DbChanges
      <3>2. Deleting(id)' = Deleting(id)
        BY <3>1 DEF Deleting
      <3> QED BY <3>1, <3>2, ToldElse
    <2> QED BY Cases, <2>1, <2>2, <2>3, ToldByAudit, ToldByDelete
  <1>2. \A t \in Tasks : Straight(t)'
    BY StraightStep
  <1> QED BY <1>1, <1>2 DEF Told, DeletedEntry

-----------------------------------------------------------------------------
(***************************************************************************)
(* What the watcher has seen of the device of its message.                 *)
(***************************************************************************)
Seen ==
    /\ call[Watcher] # None /\ Registered(rows, call[Watcher].external) => known
    /\ pc[Watcher] \in {"row", "bump"} \cup Queries => known

\* Next, with the watcher told from the callers.
LEMMA Sides ==
    ASSUME Next
    PROVE  (\E c \in Callers : TaskStep(c)) \/ Repo(Watcher) \/ WatchStep \/ EnvStep
  BY DEF Next, Watch, Answer, Repo, TaskStep, WatchStep, EnvStep

\* A caller's step and the environment's leave the watcher where it is.
LEMMA WatcherStays ==
    ASSUME Shape, (\E c \in Callers : TaskStep(c)) \/ EnvStep
    PROVE  pc'[Watcher] = pc[Watcher] /\ call'[Watcher] = call[Watcher]
  <1>1. CASE \E c \in Callers : TaskStep(c)
    BY <1>1, RegistryAssumption, OthersStay DEF Tasks
  <1>2. CASE EnvStep
    BY <1>2 DEF EnvStep, DevicePublishes, DbChanges
  <1> QED BY <1>1, <1>2

\* The row that a registration has written is its token's.
LEMMA RegistrationSeen ==
    ASSUME Shape, TypeOK, Budget, Next, Upsert(Watcher), ~Finish(Watcher)
    PROVE  Registered(rows', call'[Watcher].external)
  <1>0. /\ Watcher \in Tasks /\ call[Watcher] \in Call /\ call[Watcher].external \in Name
        /\ call \in [Tasks -> Call \cup {None}] /\ minted \in Nat /\ writes \in Nat
        /\ rows \in [Ids -> Stored \cup {None}] /\ minted' \in 0 .. MaxWrites
        /\ MaxWrites \in Nat /\ None \notin Stored
    <2>1. minted' \in 0 .. MaxWrites
      BY ShapeStep, BudgetStep, Bounded
    <2>2. None \notin Stored
      BY RegistryAssumption DEF Stored, Name
    <2>3. Watcher \in Tasks /\ MaxWrites \in Nat
      BY RegistryAssumption DEF Tasks
    <2>4. call[Watcher].external \in Name
      BY <2>3 DEF Upsert, Shape, HasToken
    <2> QED BY <2>1, <2>2, <2>3, <2>4 DEF Upsert, Shape, TypeOK
  <1>1. PICK id : /\ id = IF call[Watcher].id = None THEN <<minted + 1, "upper">>
                                                     ELSE call[Watcher].id
                  /\ minted' = IF call[Watcher].id = None THEN minted + 1 ELSE minted
                  /\ rows' = [rows EXCEPT ![id] = [external |-> call[Watcher].external,
                                                   row      |-> writes + 1,
                                                   parts    |-> writes + 1]]
                  /\ call' = [call EXCEPT ![Watcher] = [call[Watcher] EXCEPT !.id = id]]
    BY DEF Upsert
  <1>2. id \in Ids
    <2>1. CASE call[Watcher].id = None
      BY <1>0, <1>1, <2>1 DEF Ids, Ulids
    <2>2. CASE call[Watcher].id # None
      BY <1>0, <1>1, <2>2 DEF Call
    <2> QED BY <2>1, <2>2
  <1>3. rows'[id] \in Stored /\ rows'[id].external = call[Watcher].external
    BY <1>0, <1>1, <1>2 DEF Stored
  <1>4. call'[Watcher].external = call[Watcher].external
    BY <1>0, <1>1 DEF Call
  <1> QED BY <1>0, <1>2, <1>3, <1>4 DEF Registered

\* Observe keeps what was seen for as long as the watcher is busy.
LEMMA SeenStep ==
    ASSUME Shape, TypeOK, Budget, Seen, Next
    PROVE  Seen'
  <1>0. /\ Watcher \in Tasks /\ None \notin Asked
        /\ pc[Watcher] # "idle" => call[Watcher] \in Asked
        /\ pc'[Watcher] # "idle" => call'[Watcher] \in Asked
    <2>1. Watcher \in Tasks /\ None \notin Asked
      BY RegistryAssumption DEF Tasks, Asked, AnyId, Name
    <2> QED BY <2>1, ShapeStep DEF Shape
  <1>1. Observe
    BY DEF Next
  <1>2. ASSUME pc'[Watcher] \in {"row", "bump"} \cup Queries PROVE known'
    <2>1. call'[Watcher] # None
      BY <1>0, <1>2 DEF Queries
    <2>2. CASE pc[Watcher] \in {"row", "bump"} \cup Queries
      BY <1>0, <1>1, <2>1, <2>2 DEF Observe, Seen, Queries
    <2>3. CASE pc[Watcher] \notin {"row", "bump"} \cup Queries
      <3>1. CASE Repo(Watcher)
        <4>1. Upsert(Watcher)
          BY <1>0, <1>2, <2>3, <3>1 DEF Repo, ReadRow, ReadPart, DbError, Finish, Shape, Queries
        <4>2. ~Finish(Watcher)
          BY <1>0, <1>2 DEF Finish, Shape, Queries
        <4> QED BY <1>1, <2>1, <4>1, <4>2, RegistrationSeen DEF Observe
      <3>2. CASE WatchStep
        <4>1. Find /\ pc'[Watcher] = "row"
          BY <1>0, <1>2, <2>3, <3>2
             DEF WatchStep, TakeMessage, Touch, Find, Bump, Go, Finish, Shape, Queries
        <4>2. \E id \in Present : rows[id].external = call[Watcher].external
          BY <1>0, <4>1 DEF Find, Go, Shape
        <4>3. pc[Watcher] = "find"
          BY <4>1 DEF Find
        <4>4. call[Watcher] # None /\ known
          BY <1>0, <4>2, <4>3 DEF Seen, Registered, Present
        <4> QED BY <1>1, <2>1, <4>4 DEF Observe
      <3>3. CASE (\E c \in Callers : TaskStep(c)) \/ EnvStep
        BY <1>2, <2>3, <3>3, WatcherStays
      <3> QED BY <3>1, <3>2, <3>3, Sides
    <2> QED BY <2>2, <2>3
  <1> QED BY <1>1, <1>2 DEF Seen, Observe

\* Wherever the watcher may be done with a message, it has seen the device.
LEMMA DoneSeen ==
    ASSUME Shape, Seen, Next, pc[Watcher] # "idle", pc'[Watcher] = "idle"
    PROVE  known \/ db = "locked"
  <1>0. /\ Watcher \in Tasks /\ pc \in [Tasks -> Points] /\ call[Watcher] # None
    BY RegistryAssumption DEF Tasks, Shape, Asked, AnyId, Name
  <1>1. CASE Repo(Watcher)
    <2>1. CASE Upsert(Watcher)
      <3>1. \E id : Conflict(id, call[Watcher].external)
        BY <1>0, <2>1 DEF Upsert, Go
      <3> QED BY <1>0, <3>1 DEF Conflict, Present, Registered, Seen
    <2>2. CASE ReadRow(Watcher) \/ ReadPart(Watcher)
      BY <2>2 DEF ReadRow, ReadPart, Seen
    <2>3. CASE DbError(Watcher)
      BY <2>3 DEF DbError
    <2> QED BY <1>1, <2>1, <2>2, <2>3 DEF Repo
  <1>2. CASE WatchStep
    <2>1. CASE Touch
      <3>1. \E id \in Present : SameUlid(id, call[Watcher].external)
        BY <1>0, <2>1 DEF Touch, Go
      <3> QED BY <1>0, <3>1 DEF Present, Registered, Seen
    <2>2. CASE Bump
      BY <2>2 DEF Bump, Seen
    <2>3. CASE TakeMessage \/ Find
      BY <1>0, <2>3 DEF TakeMessage, Find, Go
    <2> QED BY <1>2, <2>1, <2>2, <2>3 DEF WatchStep
  <1>3. CASE (\E c \in Callers : TaskStep(c)) \/ EnvStep
    BY <1>3, WatcherStays
  <1> QED BY <1>1, <1>2, <1>3, Sides

-----------------------------------------------------------------------------
IInv ==
    /\ Shape /\ Unique /\ Monotone /\ Remembered
    /\ TypeOK /\ Budget /\ Told /\ Seen

\* The numbers are zero and nothing is under way.
LEMMA InitiallyCounted == Init => TypeOK /\ Budget /\ Told /\ Seen
  <1> SUFFICES ASSUME Init PROVE TypeOK /\ Budget /\ Told /\ Seen
    OBVIOUS
  <1>1. MaxWrites \in Nat /\ MaxBus \in Nat /\ Watcher \in Tasks
    BY RegistryAssumption DEF Tasks
  <1>2. TypeOK
    <2>1. << >> \in Seq(Tokens) /\ Len(<< >>) = 0
      BY EmptySeq
    <2>2. audit \in [AuditEntry -> Nat] /\ deletes \in [Ids -> Nat]
      BY DEF Init
    <2>3. rows \in [Ids -> Row \cup {None}] /\ call \in [Tasks -> Call \cup {None}]
      BY DEF Init
    <2>4. pc \in [Tasks -> Points] /\ \A t \in Tasks : pc[t] = "idle" <=> call[t] = None
      BY DEF Init, Points
    <2>5. minted \in 0 .. MaxWrites /\ writes \in 0 .. MaxWrites
      <3>1. minted = 0 /\ writes = 0
        BY DEF Init
      <3> QED BY <1>1, <3>1
    <2>6. db \in {"open", "locked"} /\ known \in BOOLEAN
      BY Zenon DEF Init
    <2>7. bus \in Seq(Tokens) /\ Len(bus) <= MaxBus
      <3>1. bus = << >>
        BY DEF Init
      <3> QED BY <1>1, <2>1, <3>1
    <2> QED BY <2>2, <2>3, <2>4, <2>5, <2>6, <2>7 DEF TypeOK
  <1>3. Budget
    <2>1. Pending = {}
      BY DEF Init, Pending
    <2> QED BY <1>1, <2>1, FS_EmptySet DEF Init, Budget
  <1>4. Told
    <2>1. \A id \in Ids : Deleting(id) = {}
      BY DEF Init, Deleting
    <2>2. \A id \in Ids : audit[DeletedEntry(id)] = 0 /\ deletes[id] = 0
      BY DEF Init, DeletedEntry, AuditEntry
    <2>3. \A t \in Tasks : Straight(t)
      BY DEF Init, Straight
    <2> QED BY <2>1, <2>2, <2>3, FS_EmptySet DEF Told
  <1>5. Seen
    BY <1>1 DEF Init, Seen, Queries
  <1> QED BY <1>2, <1>3, <1>4, <1>5

\* IInv holds at first and every step keeps it.
LEMMA Inductive == Spec => []IInv
  <1>1. Init => IInv
    BY Initially, InitiallyCounted DEF IInv
  <1>2. IInv /\ [Next]_vars => IInv'
    <2> SUFFICES ASSUME IInv, [Next]_vars PROVE IInv'
      OBVIOUS
    <2>1. CASE Next
      BY <2>1, ShapeStep, UniqueStep, MonotoneStep, RememberedStep, TypeStep, BudgetStep,
         ToldStep, SeenStep DEF IInv
    <2>2. CASE UNCHANGED vars
      <3>1. Shape' /\ Unique' /\ Monotone' /\ Remembered'
        BY <2>2 DEF vars, IInv, Shape, Unique, OneDevicePerNative, Monotone, Remembered,
                    Present
      <3>2. TypeOK'
        BY <2>2 DEF vars, IInv, TypeOK
      <3>3. Budget'
        BY <2>2 DEF vars, IInv, Budget, Pending
      <3>4. Told'
        BY <2>2 DEF vars, IInv, Told, Deleting, Straight
      <3>5. Seen'
        BY <2>2 DEF vars, IInv, Seen, Registered
      <3> QED BY <3>1, <3>2, <3>3, <3>4, <3>5 DEF IInv
    <2> QED BY <2>1, <2>2
  <1> QED BY <1>1, <1>2, PTL DEF Spec

(***************************************************************************)
(* However many callers there are, no native device is ever registered     *)
(* twice: `upsert' of repo.rs under the UNIQUE constraint of the schema.   *)
(***************************************************************************)
THEOREM NeverTwice == Spec => []OneDevicePerNative
  <1>1. IInv => OneDevicePerNative
    BY DEF IInv, Unique
  <1> QED BY <1>1, Inductive, PTL

(***************************************************************************)
(* What upsert_device answers, audits and publishes never has child rows   *)
(* older than its device row, though `get' of repo.rs reads them outside   *)
(* the transaction.                                                        *)
(***************************************************************************)
THEOREM AnswersAreForward == Spec => []PartsNotOlder
  <1>1. IInv => PartsNotOlder
    BY DEF IInv, Monotone, PartsNotOlder, Tasks
  <1> QED BY <1>1, Inductive, PTL

(***************************************************************************)
(* The watcher registers a device under a ULID only when a device of that  *)
(* ULID was deleted: `handle' of bus_watcher.rs, from its look-up to its   *)
(* registration, whatever happens in between.                              *)
(***************************************************************************)
THEOREM GhostsAreOfTheDeleted == Spec => []GhostOnlyAfterDelete
  <1>1. IInv => GhostOnlyAfterDelete
    BY DEF IInv, Remembered, Gone, GhostOnlyAfterDelete
  <1> QED BY <1>1, Inductive, PTL


(***************************************************************************)
(* Types, with the bounds of the model: no task starts what there is no    *)
(* write left for.                                                         *)
(***************************************************************************)
THEOREM RegistryTypes == Spec => []TypeOK
  <1>1. IInv => TypeOK
    BY DEF IInv
  <1> QED BY <1>1, Inductive, PTL

(***************************************************************************)
(* However many requests race to delete one device, the audit log tells of *)
(* no more deletions than there were: `delete_device' of service.rs audits *)
(* only what `delete' of repo.rs says it deleted.                          *)
(***************************************************************************)
THEOREM DeletionsAreReal == Spec => []NoPhantomDeletion
  <1>1. IInv => NoPhantomDeletion
    <2> SUFFICES ASSUME IInv, NEW id \in Ids
                 PROVE  audit[DeletedEntry(id)]
                          + Cardinality({ c \in Callers : pc[c] = "audit" /\ call[c].op = "delete"
                                                          /\ call[c].id = id })
                          <= deletes[id]
      BY DEF NoPhantomDeletion, DeletedEntry
    <2> DEFINE mine == { c \in Callers : pc[c] = "audit" /\ call[c].op = "delete"
                                         /\ call[c].id = id }
    <2>1. mine \subseteq Deleting(id) /\ mine \in SUBSET Tasks /\ Deleting(id) \in SUBSET Tasks
      BY DEF Deleting, Tasks
    <2>2. /\ Cardinality(mine) <= Cardinality(Deleting(id))
          /\ Cardinality(mine) \in Nat /\ Cardinality(Deleting(id)) \in Nat
      BY <2>1, Counting
    <2>3. /\ audit[DeletedEntry(id)] \in Nat /\ deletes[id] \in Nat
          /\ audit[DeletedEntry(id)] + Cardinality(Deleting(id)) <= deletes[id]
      BY DEF IInv, TypeOK, Told, AuditEntry, DeletedEntry
    <2> HIDE DEF mine
    <2>4. audit[DeletedEntry(id)] + Cardinality(mine) <= deletes[id]
      BY <2>2, <2>3
    <2> QED BY <2>4 DEF mine
  <1> QED BY <1>1, Inductive, PTL

(***************************************************************************)
(* Whatever the service does meanwhile, the watcher is done with a message *)
(* only when its device has been in the table since it took it, or the     *)
(* database failed it: the three paths of `handle' in bus_watcher.rs.      *)
(***************************************************************************)
THEOREM NoneTurnedAway == Spec => MessageAccounted
  <1>1. IInv /\ [Next]_vars =>
          [pc[Watcher] # "idle" /\ pc'[Watcher] = "idle" => known \/ db = "locked"]_vars
    BY DoneSeen DEF IInv, vars
  <1> QED BY <1>1, Inductive, PTL DEF Spec, MessageAccounted

-----------------------------------------------------------------------------
(***************************************************************************)
(* The audit log that the registry writes: for every set of payloads and   *)
(* of faults.                                                              *)
(*                                                                         *)
(* ChainIntact is not inductive: it says nothing of the tail state the     *)
(* next entry is built from, nor of an append in progress.  HandleInv adds *)
(* both: while no fault left text behind, an idle handle stands at the end *)
(* of the file, and a busy one stands one line before the entry it writes. *)
(*                                                                         *)
(* VerifiedMeansComplete holds whatever faults strike, so it needs an      *)
(* invariant without HandleInv: a line, once garbled, stays garbled, and   *)
(* as long as none is, the file only grows.  Recorded says what such a     *)
(* file holds, the entry in progress included.                             *)
(***************************************************************************)

\* The tail state is the one replay_tail reads off the first n lines.
StandsAt(n) ==
    IF n = 0
    THEN last_hash = Genesis
    ELSE last_hash = file[n].hash /\ last_seq = n - 1

\* The entry in progress is the one that belongs after n lines.
Follows(n) ==
    /\ StandsAt(n)
    /\ entry.seq = n
    /\ entry.prev = (IF n = 0 THEN Genesis ELSE file[n].hash)
    /\ entry.hash = HashEntry(entry.prev, entry.payload)

InProgress ==
    /\ Len(file) # 0
    /\ file[Len(file)] = entry
    /\ StandsAt(Len(file) - 1)

HandleInv ==
    /\ Verifies
    /\ stage \in {"free", "line", "flush"} => terminated
    /\ up /\ stage = "free" => StandsAt(Len(file))
    /\ stage = "line" => Follows(Len(file))
    /\ stage \in {"newline", "flush"} => InProgress

LogInv == LogTypeOK /\ (~leftover => HandleInv)

-----------------------------------------------------------------------------
(***************************************************************************)
(* Written keeps the file a sequence of lines.                             *)
(***************************************************************************)
LEMMA WrittenType ==
    ASSUME LogTypeOK, NEW text \in Entry \cup {Garbled}
    PROVE  Written(text) \in Seq(Entry \cup {Garbled})
BY DEF Written, LogTypeOK

(***************************************************************************)
(* An open log only ever holds lines, tail states and entries of the right *)
(* shape, whatever faults strike.                                          *)
(***************************************************************************)
THEOREM LogTypes == LogSpec => []LogTypeOK
<1>1. ASSUME LogInit PROVE LogTypeOK
  <2>1. /\ <<>> \in Seq(Entry \cup {Garbled})
        /\ <<>> \in Seq(Entry)
        /\ Genesis \in Hash
    BY EmptySeq DEF Genesis, Hash
  <2> QED BY <1>1, <2>1 DEF LogInit, LogTypeOK, Stages
<1>2. LogTypeOK /\ [LogNext]_logVars => LogTypeOK'
  <2> SUFFICES ASSUME LogTypeOK, [LogNext]_logVars PROVE LogTypeOK'
    OBVIOUS
  <2>1. CASE Open
    <3>1. file # <<>> => file[Len(file)] \in Entry
      BY <2>1 DEF Open, Readable, LogTypeOK
    <3> QED BY <2>1, <3>1 DEF Open, LogTypeOK, Stages, Hash, Genesis, Entry
  <2>2. ASSUME NEW payload \in Payloads, Begin(payload) PROVE LogTypeOK'
    <3>1. HashEntry(last_hash, payload) \in Hash
      BY DEF HashEntry, Hash, LogTypeOK
    <3>2. entry' \in Entry
      BY <2>2, <3>1 DEF Begin, Entry, LogTypeOK
    <3> QED BY <2>2, <3>2 DEF Begin, LogTypeOK, Stages, handle
  <2>3. CASE WriteLine
    BY <2>3, WrittenType DEF WriteLine, LogTypeOK, Stages, handle
  <2>4. CASE WriteNewline
    BY <2>4 DEF WriteNewline, LogTypeOK, Stages, handle
  <2>5. CASE Commit
    BY <2>5 DEF Commit, LogTypeOK, Stages, Entry
  <2>6. CASE Abandon
    BY <2>6 DEF Abandon, LogTypeOK, Stages, handle
  <2>7. CASE TornWrite
    BY <2>7, WrittenType DEF TornWrite, LogTypeOK, Stages, handle
  <2>8. CASE Crash
    BY <2>8, WrittenType DEF Crash, LogTypeOK, Stages
  <2>9. CASE Stop
    BY <2>9 DEF Stop, LogTypeOK
  <2>10. CASE UNCHANGED logVars
    BY <2>10 DEF logVars, handle, LogTypeOK
  <2> QED
    BY <2>1, <2>2, <2>3, <2>4, <2>5, <2>6, <2>7, <2>8, <2>9, <2>10 DEF LogNext
<1> QED BY <1>1, <1>2, PTL DEF LogSpec

-----------------------------------------------------------------------------
(***************************************************************************)
(* What the inductive step needs of sequences: the links of the lines that *)
(* were there do not depend on a line appended after them.                 *)
(***************************************************************************)
LEMMA AppendKeepsLinks ==
    ASSUME LogTypeOK, Verifies, stage = "line", Follows(Len(file)),
           file' = Append(file, entry)
    PROVE  Verifies'
<1>0. Len(file) \in Nat /\ entry \in Entry
  BY DEF LogTypeOK
<1> SUFFICES ASSUME NEW n \in Nat, n = Len(file) PROVE Verifies'
  BY <1>0
<1>1. n \in Nat /\ entry \in Entry
  BY <1>0
<1>2. /\ Len(file') = n + 1
      /\ \A i \in 1 .. n : file'[i] = file[i]
      /\ file'[n + 1] = entry
  BY <1>1 DEF LogTypeOK
<1>3. ASSUME NEW i \in 1 .. n PROVE Link(i)'
  <2>1. Link(i)
    BY DEF Verifies
  <2>2. file'[i] = file[i] /\ (i # 1 => file'[i - 1] = file[i - 1])
    BY <1>1, <1>2
  <2> QED BY <2>1, <2>2 DEF Link, HashEntry, Genesis
<1>4. Link(n + 1)'
  <2>1. entry # Garbled
    BY <1>1, GarbledAssumption
  <2>2. n # 0 => file'[n] = file[n]
    BY <1>1, <1>2
  <2>3. /\ entry.seq = n
        /\ entry.prev = (IF n = 0 THEN Genesis ELSE file[n].hash)
        /\ entry.hash = HashEntry(entry.prev, entry.payload)
    BY DEF Follows
  <2>4. CASE n = 0
    BY <1>2, <2>1, <2>3, <2>4 DEF Link, HashEntry, Genesis
  <2>5. CASE n # 0
    <3>1. n + 1 # 1 /\ (n + 1) - 1 = n
      BY <1>1, <2>5
    <3> QED BY <1>2, <2>1, <2>2, <2>3, <2>5, <3>1 DEF Link, HashEntry, Genesis
  <2> QED BY <2>4, <2>5
<1> SUFFICES ASSUME NEW i \in 1 .. Len(file') PROVE Link(i)'
  BY DEF Verifies
<1>5. CASE i = n + 1
  BY <1>4, <1>5
<1>6. CASE i # n + 1
  <2>1. i \in 1 .. n
    BY <1>1, <1>2, <1>6
  <2> QED BY <1>3, <2>1
<1> QED BY <1>5, <1>6

(***************************************************************************)
(* An entry that links to a verified file has a hash other than the empty  *)
(* one, so the next append continues its numbering.                        *)
(***************************************************************************)
LEMMA HashIsNotGenesis ==
    ASSUME NEW prev \in Hash, NEW payload \in Payloads
    PROVE  HashEntry(prev, payload) # Genesis
BY AppendProperties DEF HashEntry, Genesis, Hash

LEMMA LinkedHashes ==
    ASSUME LogTypeOK, Verifies, NEW i \in 1 .. Len(file)
    PROVE  /\ file[i] \in Entry
           /\ file[i].seq = i - 1
           /\ file[i].hash # Genesis
<1>1. file[i] \in Entry /\ Link(i)
  BY DEF LogTypeOK, Verifies, Link
<1> QED BY <1>1, HashIsNotGenesis DEF Link, Entry

(***************************************************************************)
(* Unless a fault left text behind the handle's back, the file verifies:   *)
(* the run's ChainIntact, for any number of payloads, lines and faults.    *)
(***************************************************************************)
THEOREM ChainIsIntact == LogSpec => []ChainIntact
<1>1. LogInit => LogInv
  <2> SUFFICES ASSUME LogInit PROVE LogInv
    OBVIOUS
  <2>1. LogTypeOK
    BY EmptySeq DEF LogInit, LogTypeOK, Stages, Genesis, Hash
  <2>2. Len(file) = 0
    BY DEF LogInit
  <2> QED BY <2>1, <2>2 DEF LogInit, LogInv, HandleInv, Verifies, StandsAt
<1>2. LogInv /\ LogTypeOK' /\ [LogNext]_logVars => LogInv'
  <2> SUFFICES ASSUME LogInv, LogTypeOK', [LogNext]_logVars, ~leftover' PROVE HandleInv'
    BY DEF LogInv
  <2> USE DEF LogInv
  <2>0. ~leftover => HandleInv
    OBVIOUS
  <2>1. CASE Open
    <3>1. ~leftover /\ HandleInv /\ UNCHANGED <<file, terminated, stage>>
      BY <2>1 DEF Open
    <3>2. Verifies' /\ stage' = "free" /\ terminated'
      BY <2>1, <3>1 DEF HandleInv, Verifies, Link, Open, LogTypeOK, Stages
    <3>3. StandsAt(Len(file))'
      <4>1. CASE file = <<>>
        BY <2>1, <4>1, <3>1 DEF Open, StandsAt
      <4>2. CASE file # <<>>
        <5>1. Len(file) \in 1 .. Len(file)
          BY <4>2 DEF LogTypeOK
        <5>2. file[Len(file)].seq = Len(file) - 1
          BY <5>1, <3>1, LinkedHashes DEF HandleInv
        <5> QED BY <2>1, <4>2, <3>1, <5>2 DEF Open, StandsAt
      <4> QED BY <4>1, <4>2
    <3> QED BY <3>2, <3>3 DEF HandleInv
  <2>2. ASSUME NEW payload \in Payloads, Begin(payload) PROVE HandleInv'
    <3>1. /\ HandleInv
          /\ UNCHANGED <<file, terminated, last_seq, last_hash>>
          /\ stage' = "line" /\ stage = "free" /\ up
      BY <2>2 DEF Begin, handle
    <3>2. Verifies' /\ terminated' /\ StandsAt(Len(file))
      BY <3>1 DEF HandleInv, Verifies, Link
    <3>3. entry'.seq = Len(file)
      <4>1. CASE Len(file) = 0
        BY <2>2, <3>2, <4>1 DEF Begin, StandsAt
      <4>2. CASE Len(file) # 0
        <5>1. Len(file) \in 1 .. Len(file)
          BY <4>2 DEF LogTypeOK
        <5>2. file[Len(file)].hash # Genesis
          BY <5>1, <3>1, LinkedHashes DEF HandleInv
        <5> QED BY <2>2, <3>2, <4>2, <5>1, <5>2 DEF Begin, StandsAt
      <4> QED BY <4>1, <4>2
    <3>4. Follows(Len(file))'
      BY <2>2, <3>1, <3>2, <3>3 DEF Begin, Follows, StandsAt, HashEntry, Genesis
    <3> QED BY <3>1, <3>2, <3>4 DEF HandleInv
  <2>3. CASE WriteLine
    <3>1. /\ HandleInv /\ terminated /\ Follows(Len(file))
          /\ stage' = "newline"
          /\ UNCHANGED <<last_seq, last_hash, entry>>
          /\ file' = Append(file, entry)
      BY <2>3 DEF WriteLine, HandleInv, Written, handle
    <3>2. Verifies'
      BY <3>1, <2>3, AppendKeepsLinks DEF HandleInv, WriteLine
    <3>3. InProgress'
      <4>1. entry \in Entry /\ Len(file) \in Nat
        BY <2>3 DEF WriteLine, LogTypeOK
      <4>2. /\ Len(file') = Len(file) + 1
            /\ file'[Len(file')] = entry
            /\ Len(file) # 0 => file'[Len(file)] = file[Len(file)]
        BY <3>1, <4>1 DEF LogTypeOK
      <4>3. Len(file') - 1 = Len(file)
        BY <4>1, <4>2
      <4>4. StandsAt(Len(file) - 1)'
        <5>1. CASE Len(file) = 0
          BY <3>1, <4>3, <5>1 DEF StandsAt, Follows, Genesis
        <5>2. CASE Len(file) # 0
          <6>1. last_hash = file[Len(file)].hash /\ last_seq = Len(file) - 1
            BY <3>1, <5>2 DEF Follows, StandsAt
          <6> QED BY <3>1, <4>2, <4>3, <5>2, <6>1 DEF StandsAt
        <5> QED BY <5>1, <5>2
      <4> QED BY <3>1, <4>1, <4>2, <4>4 DEF InProgress
    <3> QED BY <3>1, <3>2, <3>3 DEF HandleInv
  <2>4. CASE WriteNewline
    BY <2>4 DEF WriteNewline, HandleInv, Verifies, Link, InProgress, StandsAt,
                HashEntry, Genesis, handle
  <2>5. CASE Commit
    <3>1. /\ HandleInv /\ InProgress /\ terminated' /\ stage' = "free"
          /\ file' = file
          /\ last_seq' = entry.seq /\ last_hash' = entry.hash
      BY <2>5 DEF Commit, HandleInv
    <3>2. Len(file) \in 1 .. Len(file)
      BY <3>1 DEF InProgress, LogTypeOK
    <3>3. entry.seq = Len(file) - 1
      BY <3>1, <3>2, LinkedHashes DEF HandleInv, InProgress
    <3>4. StandsAt(Len(file))'
      BY <3>1, <3>2, <3>3 DEF StandsAt, InProgress
    <3>5. Verifies'
      BY <3>1 DEF HandleInv, Verifies, Link, HashEntry, Genesis
    <3> QED BY <3>1, <3>4, <3>5 DEF HandleInv
  <2>6. CASE Abandon
    <3>1. /\ HandleInv /\ stage = "line" /\ stage' = "free" /\ up
          /\ UNCHANGED <<file, terminated, last_seq, last_hash>>
      BY <2>6 DEF Abandon, LogTypeOK, Stages, handle
    <3> QED
      BY <3>1 DEF HandleInv, Verifies, Link, Follows, StandsAt, HashEntry, Genesis
  <2>7. CASE TornWrite
    BY <2>7 DEF TornWrite
  <2>8. CASE Crash
    <3>1. /\ HandleInv /\ stage # "newline" /\ stage' = "free" /\ ~up'
          /\ UNCHANGED <<file, terminated>>
      BY <2>8 DEF Crash
    <3> QED
      BY <3>1 DEF HandleInv, Verifies, Link, HashEntry, Genesis, LogTypeOK, Stages
  <2>9. CASE Stop
    BY <2>9 DEF Stop, HandleInv, Verifies, Link, HashEntry, Genesis
  <2>10. CASE UNCHANGED logVars
    BY <2>10 DEF logVars, handle, HandleInv, Verifies, Link, HashEntry, Genesis,
                 StandsAt, Follows, InProgress
  <2> QED
    BY <2>1, <2>2, <2>3, <2>4, <2>5, <2>6, <2>7, <2>8, <2>9, <2>10 DEF LogNext
<1>3. LogInv => ChainIntact
  BY DEF LogInv, HandleInv, ChainIntact
<1> QED BY <1>1, <1>2, <1>3, LogTypes, PTL DEF LogSpec

-----------------------------------------------------------------------------
\* Acknowledged entry i stands on line n, those before it on earlier lines.
StandsOn(i, n) ==
    /\ file[n] = acked[i]
    /\ \A j \in 1 .. i - 1 : \E m \in 1 .. n - 1 : file[m] = acked[j]

AckedInOrder == \A i \in 1 .. Len(acked) : \E n \in 1 .. Len(file) : StandsOn(i, n)

\* The entry that waits for its newline or its flush is the last line, and
\* everything acknowledged so far comes before it.
LastInProgress ==
    stage \in {"newline", "flush"} =>
        /\ Len(file) # 0
        /\ file[Len(file)] = entry
        /\ \A j \in 1 .. Len(acked) : \E m \in 1 .. Len(file) - 1 : file[m] = acked[j]

Recorded ==
    /\ ~terminated => Len(file) # 0
    /\ Readable => AckedInOrder /\ LastInProgress

\* A line that is there stays as it is when another is appended.
LEMMA GrowthKeepsOrder ==
    ASSUME LogTypeOK, AckedInOrder, NEW text \in Entry \cup {Garbled},
           file' = Append(file, text), acked' = acked
    PROVE  AckedInOrder'
<1>1. /\ Len(file) \in Nat /\ Len(acked) \in Nat
      /\ Len(file') = Len(file) + 1
      /\ \A n \in 1 .. Len(file) : file'[n] = file[n]
  BY DEF LogTypeOK
<1> SUFFICES ASSUME NEW i \in 1 .. Len(acked)
             PROVE  \E n \in 1 .. Len(file') : StandsOn(i, n)'
  BY DEF AckedInOrder
<1>2. PICK n \in 1 .. Len(file) : StandsOn(i, n)
  BY DEF AckedInOrder
<1>3. n \in 1 .. Len(file') /\ file'[n] = acked'[i]
  BY <1>1, <1>2 DEF StandsOn
<1>4. ASSUME NEW j \in 1 .. i - 1 PROVE \E m \in 1 .. n - 1 : file'[m] = acked'[j]
  <2>1. PICK m \in 1 .. n - 1 : file[m] = acked[j]
    BY <1>2 DEF StandsOn
  <2>2. m \in 1 .. Len(file)
    BY <1>1
  <2> QED BY <1>1, <2>1, <2>2
<1> QED BY <1>3, <1>4 DEF StandsOn

\* Text that runs into an unterminated line garbles it for good.
LEMMA WriteKeepsRecord ==
    ASSUME LogTypeOK, Recorded, NEW text \in Entry \cup {Garbled},
           file' = Written(text), terminated' = FALSE, acked' = acked,
           Readable' => text = entry' /\ stage' \in {"newline", "flush"}
    PROVE  Recorded'
<1>0. Len(file) \in Nat /\ Len(acked) \in Nat
  BY DEF LogTypeOK
<1>1. CASE ~terminated
  <2>1. file' = [file EXCEPT ![Len(file)] = Garbled] /\ Len(file) \in 1 .. Len(file)
    BY <1>0, <1>1 DEF Written, Recorded
  <2>2. Len(file') = Len(file) /\ file'[Len(file)] = Garbled
    BY <2>1 DEF LogTypeOK
  <2>3. ~ Readable'
    BY <2>1, <2>2 DEF Readable
  <2> QED BY <2>1, <2>2, <2>3 DEF Recorded
<1>2. CASE terminated
  <2>1. file' = Append(file, text)
    BY <1>2 DEF Written
  <2>2. /\ Len(file') = Len(file) + 1
        /\ \A n \in 1 .. Len(file) : file'[n] = file[n]
        /\ file'[Len(file) + 1] = text
    BY <2>1, <1>0 DEF LogTypeOK
  <2>3. ASSUME Readable' PROVE AckedInOrder' /\ LastInProgress'
    <3>1. Readable
      BY <2>2, <2>3, <1>0 DEF Readable
    <3>2. AckedInOrder
      BY <3>1 DEF Recorded
    <3>3. AckedInOrder'
      BY <2>1, <3>2, GrowthKeepsOrder
    <3>4. text = entry' /\ file'[Len(file')] = entry' /\ Len(file') # 0
      BY <2>2, <2>3, <1>0
    <3>5. ASSUME NEW j \in 1 .. Len(acked)
          PROVE  \E m \in 1 .. Len(file') - 1 : file'[m] = acked[j]
      <4>1. PICK m \in 1 .. Len(file) : file[m] = acked[j]
        BY <3>2 DEF AckedInOrder, StandsOn
      <4> QED BY <4>1, <2>2, <1>0
    <3> QED BY <3>3, <3>4, <3>5 DEF LastInProgress
  <2> QED BY <2>2, <2>3, <1>0 DEF Recorded
<1> QED BY <1>1, <1>2

\* A step that leaves file and acknowledgements alone, and no new append in
\* its last stages.
LEMMA QuietKeepsRecord ==
    ASSUME LogTypeOK, Recorded, UNCHANGED <<file, acked>>,
           terminated' \/ terminated' = terminated,
           stage' \in {"newline", "flush"} =>
                stage \in {"newline", "flush"} /\ entry' = entry
    PROVE  Recorded'
<1>1. ~terminated' => Len(file') # 0
  BY DEF Recorded
<1>2. Readable' => Readable
  BY DEF Readable
<1>3. AckedInOrder => AckedInOrder'
  <2>1. \A i, n : StandsOn(i, n) => StandsOn(i, n)'
    BY Zenon DEF StandsOn
  <2>2. Len(acked') = Len(acked) /\ Len(file') = Len(file)
    OBVIOUS
  <2> QED BY Zenon, <2>1, <2>2 DEF AckedInOrder
<1>4. LastInProgress => LastInProgress'
  BY DEF LastInProgress
<1> QED BY <1>1, <1>2, <1>3, <1>4 DEF Recorded

\* `append' returns Ok: its entry comes after all those acknowledged before.
LEMMA CommitKeepsRecord ==
    ASSUME LogTypeOK, Recorded, Commit
    PROVE  Recorded'
<1>0. /\ Len(file) \in Nat /\ Len(acked) \in Nat
      /\ entry \in Entry
      /\ file' = file /\ terminated' = terminated /\ stage' = "free"
      /\ acked' = Append(acked, entry)
  BY DEF LogTypeOK, Commit
<1>1. /\ Len(acked') = Len(acked) + 1
      /\ \A i \in 1 .. Len(acked) : acked'[i] = acked[i]
      /\ acked'[Len(acked) + 1] = entry
  BY <1>0 DEF LogTypeOK
<1>2. ASSUME Readable PROVE AckedInOrder'
  <2>0. AckedInOrder /\ LastInProgress /\ stage = "flush"
    BY <1>2 DEF Recorded, Commit
  <2>1. /\ Len(file) \in 1 .. Len(file)
        /\ file[Len(file)] = entry
        /\ \A j \in 1 .. Len(acked) : \E m \in 1 .. Len(file) - 1 : file[m] = acked[j]
    BY <2>0, <1>0 DEF LastInProgress
  <2> SUFFICES ASSUME NEW i \in 1 .. Len(acked')
               PROVE  \E n \in 1 .. Len(file) : StandsOn(i, n)'
    BY <1>0 DEF AckedInOrder
  <2>2. CASE i = Len(acked) + 1
    <3>1. file'[Len(file)] = acked'[i]
      BY <2>1, <2>2, <1>0, <1>1
    <3>2. ASSUME NEW j \in 1 .. i - 1
          PROVE  \E m \in 1 .. Len(file) - 1 : file'[m] = acked'[j]
      <4>1. j \in 1 .. Len(acked)
        BY <2>2, <1>0
      <4> QED BY <4>1, <2>1, <1>0, <1>1
    <3>3. \E n \in 1 .. Len(file) : n = Len(file)
      BY <2>1
    <3> QED BY <3>1, <3>2, <3>3 DEF StandsOn
  <2>3. CASE i # Len(acked) + 1
    <3>1. i \in 1 .. Len(acked)
      BY <2>3, <1>0, <1>1
    <3>2. PICK n \in 1 .. Len(file) : StandsOn(i, n)
      BY <2>0, <3>1 DEF AckedInOrder
    <3>3. file'[n] = acked'[i]
      BY <3>1, <3>2, <1>0, <1>1 DEF StandsOn
    <3>4. ASSUME NEW j \in 1 .. i - 1
          PROVE  \E m \in 1 .. n - 1 : file'[m] = acked'[j]
      <4>1. j \in 1 .. Len(acked)
        BY <3>1, <1>0
      <4> QED BY <4>1, <3>2, <1>0, <1>1 DEF StandsOn
    <3> QED BY <3>3, <3>4 DEF StandsOn
  <2> QED BY <2>2, <2>3
<1>3. LastInProgress'
  BY <1>0 DEF LastInProgress
<1> QED BY <1>0, <1>2, <1>3 DEF Recorded, Readable

(***************************************************************************)
(* A verified file is complete, whatever faults strike and however often   *)
(* the log is opened again: `append' never acknowledges an entry that a    *)
(* file accepted by `verify' does not hold, in its place.                  *)
(***************************************************************************)
THEOREM VerifiedIsComplete == LogSpec => []VerifiedMeansComplete
<1>1. LogInit => Recorded
  <2> SUFFICES ASSUME LogInit PROVE Recorded
    OBVIOUS
  <2>1. Len(acked) = 0 /\ stage = "free" /\ terminated
    BY DEF LogInit
  <2> QED BY <2>1 DEF Recorded, AckedInOrder, LastInProgress
<1>2. LogTypeOK /\ Recorded /\ [LogNext]_logVars => Recorded'
  <2> SUFFICES ASSUME LogTypeOK, Recorded, [LogNext]_logVars PROVE Recorded'
    OBVIOUS
  <2>1. CASE Open
    BY <2>1, QuietKeepsRecord DEF Open
  <2>2. ASSUME NEW payload \in Payloads, Begin(payload) PROVE Recorded'
    BY <2>2, QuietKeepsRecord DEF Begin
  <2>3. CASE WriteLine
    BY <2>3, WriteKeepsRecord DEF WriteLine, LogTypeOK
  <2>4. CASE WriteNewline
    BY <2>4, QuietKeepsRecord DEF WriteNewline
  <2>5. CASE Commit
    BY <2>5, CommitKeepsRecord
  <2>6. CASE Abandon
    BY <2>6, QuietKeepsRecord DEF Abandon
  <2>7. ASSUME file' = Written(Garbled), terminated' = FALSE, acked' = acked
        PROVE  Recorded'
    <3>1. Len(file) \in Nat
      BY DEF LogTypeOK
    <3>2. \E n \in 1 .. Len(file') : file'[n] = Garbled
      <4>1. CASE terminated
        <5>1. file' = Append(file, Garbled)
          BY <2>7, <4>1 DEF Written
        <5>2. Len(file') = Len(file) + 1 /\ file'[Len(file) + 1] = Garbled
          BY <5>1 DEF LogTypeOK
        <5> QED BY <5>2, <3>1
      <4>2. CASE ~terminated
        <5>1. file' = [file EXCEPT ![Len(file)] = Garbled]
          BY <2>7, <4>2 DEF Written
        <5>2. Len(file) \in 1 .. Len(file)
          BY <4>2, <3>1 DEF Recorded
        <5>3. Len(file') = Len(file) /\ file'[Len(file)] = Garbled
          BY <5>1, <5>2 DEF LogTypeOK
        <5> QED BY <5>2, <5>3
      <4> QED BY <4>1, <4>2
    <3>3. ~ Readable'
      BY <3>2 DEF Readable
    <3> QED BY <2>7, <3>3, WriteKeepsRecord
  <2>8. CASE TornWrite
    BY <2>7, <2>8 DEF TornWrite
  <2>9. CASE Crash
    <3>1. CASE UNCHANGED <<file, terminated>>
      BY <2>9, <3>1, QuietKeepsRecord DEF Crash
    <3>2. CASE file' = Written(Garbled) /\ terminated' = FALSE
      BY <2>7, <2>9, <3>2 DEF Crash
    <3> QED BY <2>9, <3>1, <3>2 DEF Crash
  <2>10. CASE Stop
    BY <2>10, QuietKeepsRecord DEF Stop
  <2>11. CASE UNCHANGED logVars
    BY <2>11, QuietKeepsRecord DEF logVars
  <2> QED
    BY <2>1, <2>2, <2>3, <2>4, <2>5, <2>6, <2>8, <2>9, <2>10, <2>11 DEF LogNext
<1>3. Recorded => VerifiedMeansComplete
  <2>1. Verifies => Readable
    BY DEF Verifies, Readable, Link
  <2> QED BY <2>1 DEF Recorded, AckedInOrder, StandsOn, VerifiedMeansComplete
<1> QED BY <1>1, <1>2, <1>3, LogTypes, PTL DEF LogSpec

-----------------------------------------------------------------------------
(***************************************************************************)
(* The names of devices, on the way from an adapter to the watcher.        *)
(***************************************************************************)

\* The tokens of a subject with a device name of one token, and of two.
LEMMA FiveTokens ==
    ASSUME NEW a, NEW b, NEW c, NEW d, NEW e
    PROVE  <<a, b>> \o <<c>> \o <<d, e>> = <<a, b, c, d, e>>
<1> DEFINE T == {a, b, c, d, e}
<1>1. /\ <<a, b>> \in Seq(T) /\ <<c>> \in Seq(T) /\ <<d, e>> \in Seq(T)
      /\ <<a, b, c>> \in Seq(T) /\ <<a, b, c, d, e>> \in Seq(T)
  OBVIOUS
<1> HIDE DEF T
<1>2. <<a, b>> \o <<c>> = <<a, b, c>>
  <2>1. /\ <<a, b>> \o <<c>> \in Seq(T) /\ Len(<<a, b>> \o <<c>>) = 3
        /\ \A i \in 1 .. 3 : (<<a, b>> \o <<c>>)[i] = <<a, b, c>>[i]
    BY <1>1
  <2> QED BY <1>1, <2>1, SeqEqual
<1>3. <<a, b, c>> \o <<d, e>> = <<a, b, c, d, e>>
  <2>1. /\ <<a, b, c>> \o <<d, e>> \in Seq(T)
        /\ Len(<<a, b, c>> \o <<d, e>>) = 5
        /\ \A i \in 1 .. 5 : (<<a, b, c>> \o <<d, e>>)[i] = <<a, b, c, d, e>>[i]
    BY <1>1
  <2> QED BY <1>1, <2>1, SeqEqual
<1> QED BY <1>2, <1>3

LEMMA SixTokens ==
    ASSUME NEW a, NEW b, NEW c1, NEW c2, NEW d, NEW e
    PROVE  <<a, b>> \o <<c1, c2>> \o <<d, e>> = <<a, b, c1, c2, d, e>>
<1> DEFINE T == {a, b, c1, c2, d, e}
<1>1. /\ <<a, b>> \in Seq(T) /\ <<c1, c2>> \in Seq(T) /\ <<d, e>> \in Seq(T)
      /\ <<a, b, c1, c2>> \in Seq(T) /\ <<a, b, c1, c2, d, e>> \in Seq(T)
  OBVIOUS
<1> HIDE DEF T
<1>2. <<a, b>> \o <<c1, c2>> = <<a, b, c1, c2>>
  <2>1. /\ <<a, b>> \o <<c1, c2>> \in Seq(T) /\ Len(<<a, b>> \o <<c1, c2>>) = 4
        /\ \A i \in 1 .. 4 : (<<a, b>> \o <<c1, c2>>)[i] = <<a, b, c1, c2>>[i]
    BY <1>1
  <2> QED BY <1>1, <2>1, SeqEqual
<1>3. <<a, b, c1, c2>> \o <<d, e>> = <<a, b, c1, c2, d, e>>
  <2>1. /\ <<a, b, c1, c2>> \o <<d, e>> \in Seq(T)
        /\ Len(<<a, b, c1, c2>> \o <<d, e>>) = 6
        /\ \A i \in 1 .. 6 : (<<a, b, c1, c2>> \o <<d, e>>)[i] = <<a, b, c1, c2, d, e>>[i]
    BY <1>1
  <2> QED BY <1>1, <2>1, SeqEqual
<1> QED BY <1>2, <1>3

\* What the watcher reads of a subject of an adapter: the device's name,
\* if no dot divides it in two.
LEMMA AdapterSubject ==
    ASSUME NEW plugin, NEW key, NEW name \in Seq(Word)
    PROVE  ParseDeviceSubject(Subject(plugin, name, key)) =
             IF \E i \in DOMAIN name : name[i].odd = "dot" THEN <<>> ELSE <<plugin, name>>
<1> DEFINE s == Subject(plugin, name, key)
           dots == { i \in DOMAIN name : name[i].odd = "dot" }
           at == CHOOSE i \in dots : \A j \in dots : i <= j
           x == SubSeq(name, 1, at - 1) \o <<[name[at] EXCEPT !.odd = "before"]>>
           y == <<[name[at] EXCEPT !.odd = "after"]>> \o SubSeq(name, at + 1, Len(name))
<1>0. Split(name) = IF dots = {} THEN <<name>> ELSE <<x, y>>
  BY Zenon DEF Split
<1> HIDE DEF x, y
<1>1. CASE \E i \in DOMAIN name : name[i].odd = "dot"
  <2>1. Split(name) = <<x, y>>
    BY <1>0, <1>1
  <2>2. s = <<"device", plugin, x, y, key, "state">>
    BY <2>1, SixTokens DEF Subject
  <2> QED BY <1>1, <2>2 DEF ParseDeviceSubject
<1>2. CASE ~ \E i \in DOMAIN name : name[i].odd = "dot"
  <2>1. Split(name) = <<name>>
    BY <1>0, <1>2
  <2>2. s = <<"device", plugin, name, key, "state">>
    BY <2>1, FiveTokens DEF Subject
  <2> QED BY <1>2, <2>2 DEF ParseDeviceSubject
<1> QED BY <1>1, <1>2

LEMMA EmptyStays ==
    /\ [EmptyWord EXCEPT !.upper = FALSE] = EmptyWord
    /\ [EmptyWord EXCEPT !.upper = FALSE, !.odd = "none"] = EmptyWord
    /\ EmptyWord.text = "empty" /\ ~EmptyWord.upper /\ EmptyWord.odd = "none"
<1>1. ASSUME NEW w \in [text : {"empty"}, upper : {FALSE}, odd : {"none"}]
      PROVE  /\ [w EXCEPT !.upper = FALSE] = w
             /\ [w EXCEPT !.upper = FALSE, !.odd = "none"] = w
  OBVIOUS
<1>2. EmptyWord \in [text : {"empty"}, upper : {FALSE}, odd : {"none"}]
  BY DEF EmptyWord
<1>3. EmptyWord.text = "empty" /\ ~EmptyWord.upper /\ EmptyWord.odd = "none"
  BY DEF EmptyWord
<1>4. /\ [EmptyWord EXCEPT !.upper = FALSE] = EmptyWord
      /\ [EmptyWord EXCEPT !.upper = FALSE, !.odd = "none"] = EmptyWord
  BY Zenon, <1>1, <1>2
<1> QED BY <1>3, <1>4

(***************************************************************************)
(* A zigbee2mqtt device whose name is a valid token, however long, is      *)
(* registered under this name, so two such devices never under one; one    *)
(* with a dot in its name is not registered at all; one with no name at    *)
(* all, from the topic "zigbee2mqtt/", under the empty token, that no      *)
(* constructor of a subject accepts; and something is published exactly if *)
(* the message has a key of the catalog (translator and on_mqtt_message of *)
(* the adapter, parse_device_subject).                                     *)
(***************************************************************************)
THEOREM NamesArrive ==
    ASSUME NEW name \in DeviceName, NEW keys
    PROVE  /\ \A s \in ZigbeePublishes(Topic(name), keys) :
                 /\ Safe(name) \/ name = Empty => ParseDeviceSubject(s) = <<"zigbee2mqtt", name>>
                 /\ (\E i \in DOMAIN name : name[i].odd = "dot") =>
                       ParseDeviceSubject(s) = <<>>
           /\ ZigbeePublishes(Topic(name), keys) = {} <=> keys \cap DOMAIN ZigbeeEntities = {}
<1> DEFINE low == ToLower(name)
<1>0. name \in Seq(Word)
  BY DEF DeviceName
<1>1. /\ low \in Seq(Word) /\ DOMAIN low = DOMAIN name
      /\ \A i \in DOMAIN name : low[i] = [name[i] EXCEPT !.upper = FALSE]
  <2>1. low = [i \in DOMAIN name |-> [name[i] EXCEPT !.upper = FALSE]]
    BY Zenon DEF ToLower, Each
  <2>2. \A i \in DOMAIN name : [name[i] EXCEPT !.upper = FALSE] \in Word
    <3>1. ASSUME NEW w \in [text : Words, upper : BOOLEAN, odd : Odd]
          PROVE  [w EXCEPT !.upper = FALSE] \in Word
      BY Zenon DEF Word
    <3>2. [EmptyWord EXCEPT !.upper = FALSE] \in Word
      BY EmptyStays DEF Word
    <3> QED BY <1>0, <3>1, <3>2 DEF Word
  <2> QED BY <1>0, <2>1, <2>2
<1>2. FriendlyName(Topic(name)) = {name}
  BY DEF FriendlyName, Topic
<1>3. ZigbeePublishes(Topic(name), keys) =
          { Subject("zigbee2mqtt", low, k) : k \in keys \cap DOMAIN ZigbeeEntities }
  BY <1>2 DEF ZigbeePublishes, Published, KnownEntityKeys, Entities
<1>4. ASSUME NEW s \in ZigbeePublishes(Topic(name), keys), Safe(name) \/ name = Empty
      PROVE  ParseDeviceSubject(s) = <<"zigbee2mqtt", name>>
  <2>1. \A i \in DOMAIN name : name[i] \in Word /\ ~name[i].upper /\ name[i].odd # "dot"
    BY <1>0, <1>4 DEF Safe, Plain, Empty, EmptyWord
  <2>2. \A i \in DOMAIN name : low[i] = name[i]
    <3>1. ASSUME NEW w \in Word, ~w.upper PROVE [w EXCEPT !.upper = FALSE] = w
      BY <3>1 DEF Word, EmptyWord
    <3> QED BY Zenon, <1>1, <2>1, <3>1
  <2>3. low = name
    BY <1>0, <1>1, <2>2
  <2> QED BY <1>0, <1>3, <2>1, <2>3, AdapterSubject
<1>5. ASSUME NEW s \in ZigbeePublishes(Topic(name), keys),
             NEW i \in DOMAIN name, name[i].odd = "dot"
      PROVE  ParseDeviceSubject(s) = <<>>
  <2>1. low[i].odd = "dot"
    <3>1. ASSUME NEW w \in Word PROVE [w EXCEPT !.upper = FALSE].odd = w.odd
      BY DEF Word, EmptyWord
    <3>2. name[i] \in Word
      BY <1>0, <1>5
    <3>3. low[i].odd = name[i].odd
      BY Zenon, <1>1, <1>5, <3>1, <3>2
    <3> QED BY <1>5, <3>3
  <2> QED BY <1>1, <1>3, <2>1, AdapterSubject
<1> QED BY <1>3, <1>4, <1>5

\* Sanitising leaves as many words, with the texts they had, and each of
\* them plain.
LEMMA Sanitised ==
    ASSUME NEW part \in Seq(Word)
    PROVE  /\ Sanitize(part) \in Seq(Word) /\ Len(Sanitize(part)) = Len(part)
           /\ \A i \in 1 .. Len(part) :
                 Plain(Sanitize(part)[i]) /\ Sanitize(part)[i].text = part[i].text
           /\ Sanitize(Empty) = Empty
<1> DEFINE clean(w) == [w EXCEPT !.upper = FALSE,
                                 !.odd = IF w.odd = "none" THEN "none" ELSE "underscore"]
<1>1. Sanitize(part) = [i \in DOMAIN part |-> clean(part[i])]
  BY Zenon DEF Sanitize, Each
<1>2. clean(EmptyWord) = EmptyWord
  BY EmptyStays
<1>3. ASSUME NEW w \in Word
      PROVE  clean(w) \in Word /\ Plain(clean(w)) /\ clean(w).text = w.text
  <2>1. CASE w = EmptyWord
    BY <1>2, <2>1 DEF Word, Plain, EmptyWord
  <2>2. CASE w \in [text : Words, upper : BOOLEAN, odd : Odd]
    <3>1. clean(w) \in Word
      BY Zenon, <2>2 DEF Word, Odd
    <3>2. /\ clean(w).upper = FALSE /\ clean(w).odd \in {"none", "underscore"}
          /\ clean(w).text = w.text
      BY <2>2
    <3> QED BY <3>1, <3>2 DEF Plain
  <2> QED BY <2>1, <2>2 DEF Word
<1>4. Sanitize(Empty) = Empty
  <2>1. Sanitize(Empty) = [i \in DOMAIN Empty |-> clean(Empty[i])]
    BY Zenon DEF Sanitize, Each
  <2> HIDE DEF clean
  <2>2. Empty \in [1 .. 1 -> {EmptyWord}] /\ DOMAIN Empty = 1 .. 1
    BY DEF Empty
  <2>3. \A i \in 1 .. 1 : clean(Empty[i]) = Empty[i]
    BY <1>2, <2>2
  <2>4. Sanitize(Empty) = [i \in 1 .. 1 |-> Empty[i]]
    BY <2>1, <2>2, <2>3
  <2> QED BY <2>2, <2>4
<1> HIDE DEF clean
<1>5. DOMAIN Sanitize(part) = 1 .. Len(part)
  BY <1>1
<1>6. \A i \in 1 .. Len(part) : Sanitize(part)[i] = clean(part[i]) /\ part[i] \in Word
  BY <1>1
<1>7. Sanitize(part) \in Seq(Word)
  <2>1. Sanitize(part) \in [1 .. Len(part) -> Word]
    BY <1>1, <1>3, <1>6
  <2> QED BY Len(part) \in Nat, <2>1, SeqDef
<1> QED BY <1>3, <1>4, <1>5, <1>6, <1>7

(***************************************************************************)
(* Whatever the envelope of a radio message says, and however long its     *)
(* parts are, sdr433 publishes under a device name that is a valid token   *)
(* and that the watcher reads, unless model, id and channel are all empty: *)
(* under the empty token then; it publishes something exactly if there is  *)
(* a model and a key of the catalog (sanitize, device_id_from_envelope).   *)
(***************************************************************************)
THEOREM SanitizedArrive ==
    ASSUME NEW e \in [model : SUBSET DeviceName, id : DeviceName, channel : DeviceName], NEW keys
    PROVE  /\ \A s \in SdrPublishes(e, keys) : \E model \in e.model, d \in DeviceName :
                 /\ ParseDeviceSubject(s) = <<"sdr433", d>>
                 /\ IF model = Empty /\ e.id = Empty /\ e.channel = Empty
                    THEN d = Empty ELSE Safe(d)
           /\ SdrPublishes(e, keys) = {} <=>
                 e.model = {} \/ keys \cap DOMAIN SdrEntities = {}
<1> DEFINE id(model) == Sanitize(model) \o Part(e.id) \o Part(e.channel)
           ids == DeviceIdFromEnvelope(e)
<1>0. ids = { id(model) : model \in e.model }
  BY DEF DeviceIdFromEnvelope
<1>1. SdrPublishes(e, keys) =
          { Subject("sdr433", d, k) : d \in ids, k \in keys \cap DOMAIN SdrEntities }
  <2> HIDE DEF ids
  <2>1. Entities("sdr433") = SdrEntities
    BY DEF Entities
  <2> QED BY <2>1 DEF SdrPublishes, Published, KnownEntityKeys, ids
<1>2. ASSUME NEW name \in DeviceName
      PROVE  /\ Part(name) \in Seq(Word) /\ \A i \in 1 .. Len(Part(name)) : Plain(Part(name)[i])
             /\ Part(name) = <<>> <=> name = Empty
  <2>1. name \in Seq(Word) /\ Len(name) > 0
    BY DEF DeviceName
  <2> QED BY <2>1, Sanitised DEF Part
<1>3. ASSUME NEW model \in e.model
      PROVE  /\ id(model) \in DeviceName /\ \A i \in DOMAIN id(model) : Plain(id(model)[i])
             /\ id(model) = Empty <=> model = Empty /\ e.id = Empty /\ e.channel = Empty
  <2> DEFINE a == Sanitize(model)
             b == Part(e.id)
             c == Part(e.channel)
  <2>1. model \in Seq(Word) /\ Len(model) > 0
    BY DEF DeviceName
  <2>2. /\ a \in Seq(Word) /\ Len(a) = Len(model)
        /\ \A i \in 1 .. Len(a) : Plain(a[i]) /\ a[i].text = model[i].text
    BY <2>1, Sanitised
  <2>3. /\ b \in Seq(Word) /\ (\A i \in 1 .. Len(b) : Plain(b[i])) /\ (b = <<>> <=> e.id = Empty)
        /\ c \in Seq(Word) /\ (\A i \in 1 .. Len(c) : Plain(c[i])) /\ (c = <<>> <=> e.channel = Empty)
    BY <1>2
  <2>4. a = Empty <=> model = Empty
    <3>1. ASSUME model = Empty PROVE a = Empty
      BY <2>1, <3>1, Sanitised
    <3>2. ASSUME a = Empty PROVE model = Empty
      <4>1. Len(model) = 1 /\ model[1] \in Word /\ model[1].text = "empty"
        BY <2>1, <2>2, <3>2 DEF Empty, EmptyWord
      <4>2. model[1] = EmptyWord
        BY <4>1, WordsAreNotEmpty DEF Word
      <4>3. Empty \in Seq(Word) /\ Len(Empty) = 1 /\ Empty[1] = EmptyWord
        BY DEF Empty, Word
      <4> QED BY <2>1, <4>1, <4>2, <4>3, SeqEqual
    <3> QED BY <3>1, <3>2
  <2> HIDE DEF a, b, c
  <2>5. a \o b \in Seq(Word) /\ \A i \in 1 .. Len(a \o b) : Plain((a \o b)[i])
    BY <2>2, <2>3
  <2>6. (a \o b) \o c \in Seq(Word) /\ \A i \in 1 .. Len((a \o b) \o c) : Plain(((a \o b) \o c)[i])
    BY <2>3, <2>5
  <2>7. Len((a \o b) \o c) = Len(a) + Len(b) + Len(c) /\ Len(a) > 0
    <3>0. a \in Seq(Word) /\ b \in Seq(Word) /\ c \in Seq(Word)
      BY <2>2, <2>3
    <3>1. Len(a \o b) = Len(a) + Len(b)
      BY <3>0
    <3>2. Len((a \o b) \o c) = Len(a \o b) + Len(c)
      BY <2>5, <3>0
    <3> QED BY <2>1, <2>2, <3>1, <3>2
  <2>8. CASE b = <<>> /\ c = <<>>
    <3>1. (a \o b) \o c = a
      BY <2>2, <2>8
    <3> QED BY <2>3, <2>4, <2>6, <2>7, <2>8, <3>1 DEF DeviceName, a, b, c
  <2>9. CASE b # <<>> \/ c # <<>>
    <3>1. Len(b) > 0 \/ Len(c) > 0
      BY <2>3, <2>9
    <3>2. Len((a \o b) \o c) > 1
      BY <2>2, <2>3, <2>7, <3>1
    <3>3. (a \o b) \o c # Empty
      BY <3>2 DEF Empty
    <3> QED BY <2>3, <2>6, <2>7, <2>9, <3>2, <3>3 DEF DeviceName, a, b, c
  <2> QED BY <2>8, <2>9
<1> HIDE DEF id, ids
<1>4. ASSUME NEW s \in SdrPublishes(e, keys)
      PROVE  \E model \in e.model, d \in DeviceName :
                 /\ ParseDeviceSubject(s) = <<"sdr433", d>>
                 /\ IF model = Empty /\ e.id = Empty /\ e.channel = Empty
                    THEN d = Empty ELSE Safe(d)
  <2>1. PICK model \in e.model, k \in keys : s = Subject("sdr433", id(model), k)
    BY <1>0, <1>1
  <2>2. /\ id(model) \in DeviceName /\ \A i \in DOMAIN id(model) : Plain(id(model)[i])
        /\ id(model) = Empty <=> model = Empty /\ e.id = Empty /\ e.channel = Empty
    BY <1>3
  <2>3. id(model) \in Seq(Word) /\ \A i \in DOMAIN id(model) : id(model)[i].odd # "dot"
    BY <2>2 DEF DeviceName, Plain
  <2>4. ParseDeviceSubject(s) = <<"sdr433", id(model)>>
    BY <2>1, <2>3, AdapterSubject
  <2> QED BY <2>2, <2>4 DEF Safe
<1>5. SdrPublishes(e, keys) = {} <=> e.model = {} \/ keys \cap DOMAIN SdrEntities = {}
  <2>1. ids = {} <=> e.model = {}
    BY <1>0
  <2> HIDE DEF ids
  <2>2. ASSUME NEW d \in ids, NEW k \in keys \cap DOMAIN SdrEntities
        PROVE  SdrPublishes(e, keys) # {}
    BY <1>1
  <2>3. ASSUME ids = {} \/ keys \cap DOMAIN SdrEntities = {}
        PROVE  SdrPublishes(e, keys) = {}
    BY <1>1, <2>3
  <2> QED BY <2>1, <2>2, <2>3
<1> QED BY <1>4, <1>5

(***************************************************************************)
(* What the constructors of iot-proto build of valid tokens, the watcher   *)
(* reads back for the three kinds of subjects that are about devices and   *)
(* for no other; of an invalid token nothing is built.                     *)
(***************************************************************************)
THEOREM SubjectsReadBack ==
    ASSUME NEW p \in DeviceName, NEW d \in DeviceName, NEW e \in DeviceName
    PROVE  /\ Safe(p) /\ Safe(d) /\ Safe(e) =>
                 /\ ParseDeviceSubject(DeviceState(p, d, e)) = <<p, d>>
                 /\ ParseDeviceSubject(DeviceEvent(p, d, e)) = <<p, d>>
                 /\ ParseDeviceSubject(DeviceAvail(p, d)) = <<p, d>>
           /\ ParseDeviceSubject(Command(p, d, e)) = <<>>
           /\ ~ (Safe(p) /\ Safe(d) /\ Safe(e)) =>
                 DeviceState(p, d, e) = <<>> /\ DeviceEvent(p, d, e) = <<>> /\ Command(p, d, e) = <<>>
           /\ ~ (Safe(p) /\ Safe(d)) => DeviceAvail(p, d) = <<>>
<1>1. ASSUME NEW x, NEW y, NEW subject
      PROVE  Built(<<x, y>>, subject) = IF Safe(x) /\ Safe(y) THEN subject ELSE <<>>
  BY DEF Built
<1>2. ASSUME NEW x, NEW y, NEW z, NEW subject
      PROVE  Built(<<x, y, z>>, subject) =
               IF Safe(x) /\ Safe(y) /\ Safe(z) THEN subject ELSE <<>>
  BY DEF Built
<1>3. ParseDeviceSubject(<<>>) = <<>>
  BY DEF ParseDeviceSubject
<1>4. ParseDeviceSubject(<<"cmd", p, d, e>>) = <<>>
  BY DEF ParseDeviceSubject
<1>5. /\ ParseDeviceSubject(<<"device", p, d, e, "state">>) = <<p, d>>
      /\ ParseDeviceSubject(<<"device", p, d, e, "event">>) = <<p, d>>
      /\ ParseDeviceSubject(<<"device", p, d, "avail">>) = <<p, d>>
  BY DEF ParseDeviceSubject
<1> QED BY <1>1, <1>2, <1>3, <1>4, <1>5 DEF DeviceState, DeviceEvent, DeviceAvail, Command

=============================================================================
