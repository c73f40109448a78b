---------------------------- MODULE Connections ----------------------------
(***************************************************************************)
(* Synchronisation with a partner's external calendar:                     *)
(* apps/api/src/modules/availability/services/inventoryConnectionService.js *)
(* with connectors/icalConnector.js and the two system operations of       *)
(* services/availabilityService.js it drives.                              *)
(*                                                                         *)
(* A run loads the connection, lists what was imported before, reads the   *)
(* feed, and applies its events in one transaction, each behind a          *)
(* savepoint.  Nothing keeps two runs of one connection apart: "Sync now"  *)
(* and the scheduled sweep may overlap.  The transaction locks the         *)
(* calendar rows it changes, but reads the reservations from its snapshot  *)
(* or, to cancel one, from the pool; so it is two steps here, what it read *)
(* and what it commits.  Days are slots, and an event occupies one.  A     *)
(* PATCH that gives the connection another address is left out.            *)
(***************************************************************************)
EXTENDS Naturals, FiniteSets, SequencesExt

CONSTANTS
    Uids,            \* events of the feed, as a sequence
    CalendarSlot,    \* the dates they may be on
    SlotCapacity,
    SyncRun,         \* requests and jobs that may run at a time
    FeedLimit,       \* bound: changes of the feed, the mapping and other stays
    SyncFaultLimit   \* bound: failed runs and crashes

Uid == ToSet(Uids)
ASSUME ConnectionAssumption ==
    /\ SlotCapacity \in Nat \ {0}
    /\ FeedLimit \in Nat /\ SyncFaultLimit \in Nat
\* A calendar has an event once, and a date is no mark of another kind.
ASSUME FeedAssumption ==
    /\ Uids \in Seq(Uid)
    /\ \A i, j \in 1 .. Len(Uids) : Uids[i] = Uids[j] => i = j
    /\ CalendarSlot \cap {"none", "absent", "CANCELLED"} = {}

VARIABLES
    feed,          \* the calendar published at the connection's address
    room,          \* availability_calendar.quantity_available
    ownStays,      \* what Desavii's own bookings take of each slot
    imported,      \* external_reservations of the connection
    mapped,        \* the connection has a bookable unit
    connection,    \* inventory_connections: status, last_error, deleted_at
    sync,          \* the runs
    told,          \* the last word the partner had about the connection
    patch,         \* the status a PATCH of the connection is about to write
    unsaid,        \* a partner wrote over an ERROR, and no word has followed
    overlapped,    \* two runs have overlapped
    reused,        \* uids that came back after their row had been cancelled
    feedChanges, syncFaults

connectionVars == <<feed, room, ownStays, imported, mapped, connection, sync,
                    told, patch, unsaid, overlapped, reused, feedChanges,
                    syncFaults>>

NoSlot == "none"
FeedEvent == CalendarSlot \cup {"absent", "CANCELLED"}
ImportedRow == [slot: CalendarSlot \cup {NoSlot}, cancelled: BOOLEAN]
NoRow == [slot |-> NoSlot, cancelled |-> FALSE]
ConnectionStatus == {"NONE", "ACTIVE", "PAUSED", "ERROR", "DISCONNECTED"}
SyncError == {"timeout", "malformed"}
NoError == "no error"
PatchStatus == {"ACTIVE", "PAUSED"}     \* updateConnectionSchema
NoPatch == "none"

Connection == [status: ConnectionStatus, error: SyncError \cup {NoError},
               deleted: BOOLEAN]

\* loaded: the connection as it was before the run; before: the uids imported
\* by then; view: the reservations, and seen: the feed, that the run read.
Run == [pc: {"idle", "loaded", "started", "read", "imported"},
        loaded: Connection,
        unit: BOOLEAN, before: SUBSET Uid,
        view: [Uid -> ImportedRow], seen: [Uid -> FeedEvent],
        conflicts: SUBSET Uid]

IsActive(rows, u) == rows[u].slot # NoSlot /\ ~rows[u].cancelled

IdleRun ==
    [pc |-> "idle",
     loaded |-> [status |-> "ACTIVE", error |-> NoError, deleted |-> FALSE],
     unit |-> FALSE, before |-> {}, view |-> [u \in Uid |-> NoRow],
     seen |-> [u \in Uid |-> "absent"], conflicts |-> {}]

InitConnections ==
    /\ feed = [u \in Uid |-> "absent"]
    /\ room = [s \in CalendarSlot |-> SlotCapacity]
    /\ ownStays = [s \in CalendarSlot |-> 0]
    /\ imported = [u \in Uid |-> NoRow]
    /\ mapped = FALSE
    /\ connection = [status |-> "NONE", error |-> NoError, deleted |-> FALSE]
    /\ sync = [r \in SyncRun |-> IdleRun]
    /\ told = "nothing" /\ patch = NoPatch /\ unsaid = FALSE
    /\ overlapped = FALSE /\ reused = {}
    /\ feedChanges = 0 /\ syncFaults = 0

-----------------------------------------------------------------------------
(* The world around the connection *)

\* The external site changes its calendar.
FeedChanges ==
    /\ \E u \in Uid, to \in FeedEvent :
          /\ feed[u] # to
          /\ feed' = [feed EXCEPT ![u] = to]
    /\ UNCHANGED <<room, ownStays, mapped>>

\* A stay is booked or cancelled on Desavii's side.
OwnStay ==
    /\ \E s \in CalendarSlot :
          \/ /\ room[s] > 0
             /\ room' = [room EXCEPT ![s] = @ - 1]
             /\ ownStays' = [ownStays EXCEPT ![s] = @ + 1]
          \/ /\ ownStays[s] > 0
             /\ room' = [room EXCEPT ![s] = @ + 1]
             /\ ownStays' = [ownStays EXCEPT ![s] = @ - 1]
    /\ UNCHANGED <<feed, mapped>>

SetMapping ==
    /\ connection.status # "NONE" /\ ~mapped
    /\ mapped' = TRUE
    /\ UNCHANGED <<feed, room, ownStays>>

World ==
    /\ feedChanges < FeedLimit
    /\ feedChanges' = feedChanges + 1
    /\ FeedChanges \/ OwnStay \/ SetMapping
    /\ UNCHANGED <<imported, connection, sync, told, overlapped, reused>>
    /\ UNCHANGED <<patch, unsaid>>

\* createConnection
CreateConnection ==
    /\ connection.status = "NONE"
    /\ connection' = [connection EXCEPT !.status = "ACTIVE"]
    /\ UNCHANGED <<feed, room, ownStays, imported, mapped, sync, told,
                   overlapped, reused, feedChanges>>
    /\ UNCHANGED <<patch, unsaid>>

\* softDelete
Disconnect ==
    /\ connection.status # "NONE" /\ ~connection.deleted
    /\ connection' = [connection EXCEPT !.status = "DISCONNECTED",
                                        !.deleted = TRUE]
    /\ UNCHANGED <<feed, room, ownStays, imported, mapped, sync, told,
                   overlapped, reused, feedChanges>>
    /\ UNCHANGED <<patch, unsaid>>

\* updateConnection, in two steps: the connection is found, and then its status
\* is written over whatever it is by then, ERROR and DISCONNECTED included.
PatchReads ==
    /\ patch = NoPatch
    /\ connection.status # "NONE" /\ ~connection.deleted
    /\ feedChanges < FeedLimit
    /\ feedChanges' = feedChanges + 1
    /\ patch' \in PatchStatus
    /\ UNCHANGED <<feed, room, ownStays, imported, mapped, connection, sync,
                   told, unsaid, overlapped, reused>>

PatchWrites ==
    /\ patch # NoPatch
    /\ connection' = [connection EXCEPT !.status = patch]
    /\ patch' = NoPatch
    /\ unsaid' = (unsaid \/ connection.status = "ERROR")
    /\ UNCHANGED <<feed, room, ownStays, imported, mapped, sync, told,
                   overlapped, reused, feedChanges>>

-----------------------------------------------------------------------------
(* #executeSync *)

\* syncNow and listAllActive: the record the run keeps to the end.
SyncLoad(r) ==
    /\ sync[r].pc = "idle"
    /\ connection.status \notin {"NONE", "DISCONNECTED"} /\ ~connection.deleted
    /\ sync' = [sync EXCEPT ![r] = [IdleRun EXCEPT !.pc = "loaded",
                                                   !.loaded = connection]]
    /\ overlapped' = (overlapped \/ \E q \in SyncRun : sync[q].pc # "idle")
    /\ UNCHANGED <<feed, room, ownStays, imported, mapped, connection, told,
                   reused, feedChanges>>
    /\ UNCHANGED <<patch, unsaid>>

\* createSyncRun, listMappings, listActiveForConnection
SyncStart(r) ==
    /\ sync[r].pc = "loaded"
    /\ sync' = [sync EXCEPT
          ![r].pc = "started", ![r].unit = mapped,
          ![r].before = {u \in Uid : IsActive(imported, u)}]
    /\ UNCHANGED <<feed, room, ownStays, imported, mapped, connection, told,
                   overlapped, reused, feedChanges>>
    /\ UNCHANGED <<patch, unsaid>>

\* The feed is read, and the transaction's snapshot is opened by its first read.
SyncRead(r) ==
    /\ sync[r].pc = "started"
    /\ sync' = [sync EXCEPT ![r].pc = "read", ![r].seen = feed,
                            ![r].view = imported]
    /\ reused' = reused \cup {u \in Uid : imported[u].cancelled
                                          /\ feed[u] \in CalendarSlot}
    /\ UNCHANGED <<feed, room, ownStays, imported, mapped, connection, told,
                   overlapped, feedChanges>>
    /\ UNCHANGED <<patch, unsaid>>

\* MUTANT: a moved event keeps its old dates as well.
KeepOldDates(rooms, slot) == rooms

\* #restoreCapacityForRange and #consumeCapacityForRange, for a stay of one.
Restored(rooms, slot) == [rooms EXCEPT ![slot] = @ + 1]
Consumed(rooms, slot) == [rooms EXCEPT ![slot] = @ - 1]

\* The transaction so far: the calendar, the reservations, the conflicts.
Refused(tx, u) == [tx EXCEPT !.conflicts = @ \cup {u}]

\* applySystemExternalReservation behind a savepoint: a new row, a row that is
\* left as it is, even a cancelled one, or a row that moves.  `known` is the row
\* in the snapshot; an insert meets the unique key on the real table.
ApplyEvent(tx, u, known, slot) ==
    LET rooms == IF known = NoRow THEN tx.room
                                  ELSE Restored(tx.room, known.slot)
    IN IF known.slot = slot THEN tx
       ELSE IF rooms[slot] = 0 \/ (known = NoRow /\ tx.rows[u] # NoRow)
       THEN Refused(tx, u)
       ELSE [tx EXCEPT !.room = Consumed(rooms, slot), !.rows[u].slot = slot]

\* cancelSystemExternalReservation
CancelEvent(tx, u, row) ==
    IF row = NoRow \/ row.cancelled THEN tx
    ELSE [tx EXCEPT !.room = Restored(@, row.slot), !.rows[u].cancelled = TRUE]

\* MUTANT: events that have left the feed are not reconciled.
NothingRemoved(r) == {}

\* "a UID we previously imported that's no longer in the feed"
RemovedUids(r) == {u \in sync[r].before : sync[r].seen[u] = "absent"}

\* The row of an event that is to be cancelled is asked of the pool, where
\* another run may have changed it (fresh) since the snapshot was opened.
Pooled(r, fresh, u) ==
    IF sync[r].view[u] # NoRow /\ u \in fresh THEN imported[u]
    ELSE sync[r].view[u]

\* One VEVENT of the feed.
EventApplied(r, fresh, tx, u) ==
    CASE sync[r].seen[u] = "absent" -> tx
      [] sync[r].seen[u] = "CANCELLED" ->
            CancelEvent(tx, u, Pooled(r, fresh, u))
      [] OTHER -> ApplyEvent(tx, u, sync[r].view[u], sync[r].seen[u])

RemovalApplied(r, fresh, tx, u) ==
    IF u \in RemovedUids(r) THEN CancelEvent(tx, u, Pooled(r, fresh, u))
    ELSE tx

EventsApplied(r, fresh, tx) ==
    FoldLeft(LAMBDA t, u : EventApplied(r, fresh, t, u), tx, Uids)
RemovalsApplied(r, fresh, tx) ==
    FoldLeft(LAMBDA t, u : RemovalApplied(r, fresh, t, u), tx, Uids)

\* importAvailability: the events in the order of the feed, then the removals.
Import(r, fresh) ==
    LET start == [room |-> room, rows |-> imported, conflicts |-> {}]
    IN  RemovalsApplied(r, fresh, EventsApplied(r, fresh, start))

SyncImport(r) ==
    /\ sync[r].pc = "read"
    /\ \/ /\ sync[r].unit
          /\ \E fresh \in SUBSET Uid :
                LET done == Import(r, fresh) IN
                /\ room' = done.room
                /\ imported' = done.rows
                /\ sync' = [sync EXCEPT ![r].pc = "imported",
                                        ![r].conflicts = done.conflicts]
       \/ /\ ~sync[r].unit
          /\ sync' = [sync EXCEPT ![r].pc = "imported"]
          /\ UNCHANGED <<room, imported>>
    /\ UNCHANGED <<feed, ownStays, mapped, connection, told, overlapped, reused,
                   feedChanges>>
    /\ UNCHANGED <<patch, unsaid>>

\* The run is SUCCESS or PARTIAL; the status is written over a
\* disconnection or a pause.
SyncFinish(r) ==
    /\ sync[r].pc = "imported"
    /\ sync' = [sync EXCEPT ![r] = IdleRun]
    /\ connection' = [connection EXCEPT !.status = "ACTIVE", !.error = NoError]
    /\ told' = IF sync[r].loaded.status = "ERROR" THEN "recovered" ELSE told
    /\ unsaid' = (unsaid /\ sync[r].loaded.status # "ERROR")
    /\ UNCHANGED <<feed, room, ownStays, imported, mapped, patch, overlapped,
                   reused, feedChanges>>

\* MUTANT: a failing connection is reported once, whatever goes wrong next.
FirstFailureOnly(loaded, error) == loaded.status # "ERROR"

IsNewFailure(loaded, error) ==
    loaded.status # "ERROR" \/ loaded.error # error

\* The feed cannot be read or a statement fails: the run is FAILED.
SyncFails(r) ==
    /\ sync[r].pc \in {"started", "read", "imported"}
    /\ sync' = [sync EXCEPT ![r] = IdleRun]
    /\ \E error \in SyncError :
          /\ connection' = [connection EXCEPT
                             !.status = "ERROR", !.error = error]
          /\ told' = IF IsNewFailure(sync[r].loaded, error) THEN error ELSE told
    /\ unsaid' = FALSE
    /\ UNCHANGED <<feed, room, ownStays, imported, mapped, patch, overlapped,
                   reused, feedChanges>>

\* The process dies; inventory_sync_runs keeps a run that never ended.
SyncDies(r) ==
    /\ sync[r].pc # "idle"
    /\ sync' = [sync EXCEPT ![r] = IdleRun]
    /\ UNCHANGED <<feed, room, ownStays, imported, mapped, connection, told,
                   overlapped, reused, feedChanges>>
    /\ UNCHANGED <<patch, unsaid>>

-----------------------------------------------------------------------------
(* Specification *)

SyncStep(r) == SyncLoad(r) \/ SyncStart(r) \/ SyncRead(r) \/ SyncImport(r)
               \/ SyncFinish(r)

SyncFault ==
    /\ syncFaults < SyncFaultLimit
    /\ syncFaults' = syncFaults + 1
    /\ \E r \in SyncRun : SyncFails(r) \/ SyncDies(r)

ConnectionsNext ==
    \/ /\ \/ World \/ CreateConnection \/ Disconnect
          \/ PatchReads \/ PatchWrites
          \/ \E r \in SyncRun : SyncStep(r)
       /\ UNCHANGED syncFaults
    \/ SyncFault

ConnectionsSpec == InitConnections /\ [][ConnectionsNext]_connectionVars

\* The sweep is repeated, and some run goes on.
ConnectionsFairness ==
    WF_connectionVars(/\ \E r \in SyncRun : SyncStep(r)
                      /\ UNCHANGED syncFaults)

ConnectionsFairSpec == ConnectionsSpec /\ ConnectionsFairness

-----------------------------------------------------------------------------
(* Properties *)

ConnectionsTypeOK ==
    /\ feed \in [Uid -> FeedEvent]
    /\ room \in [CalendarSlot -> Nat]
    /\ ownStays \in [CalendarSlot -> Nat]
    /\ imported \in [Uid -> ImportedRow]
    /\ mapped \in BOOLEAN /\ overlapped \in BOOLEAN
    /\ connection \in Connection
    /\ sync \in [SyncRun -> Run]
    /\ told \in {"nothing", "recovered"} \cup SyncError
    /\ patch \in PatchStatus \cup {NoPatch} /\ unsaid \in BOOLEAN
    /\ reused \subseteq Uid
    /\ feedChanges \in 0..FeedLimit /\ syncFaults \in 0..SyncFaultLimit

\* As long as runs do not overlap and no cancelled uid has come back, every
\* place of a slot is free, sold, or taken by an imported event: moved,
\* refused, cancelled and removed events give back what they took and no more
\* (applySystemExternalReservation, cancelSystemExternalReservation).
ImportedRoomAccounted ==
    ~overlapped /\ reused = {} =>
        \A s \in CalendarSlot :
            room[s] + ownStays[s]
            + Cardinality({u \in Uid : IsActive(imported, u)
                                       /\ imported[u].slot = s}) = SlotCapacity

\* Under the same conditions a run leaves every event it did not report as a
\* conflict as it is in the feed, and a conflict discards no other event.
FeedMirrored ==
    \A r \in SyncRun :
        /\ sync[r].pc = "imported" /\ sync[r].unit
        /\ ~overlapped /\ reused = {}
        => \A u \in Uid \ sync[r].conflicts :
              IF sync[r].seen[u] \in CalendarSlot
              THEN IsActive(imported, u) /\ imported[u].slot = sync[r].seen[u]
              ELSE ~IsActive(imported, u)

\* "Never leaves the connection silently claiming Connected", while runs do not
\* overlap: the partner has been told the error the connection is in, and a
\* connection that has left its error without a word has been disconnected, or
\* taken out of it by a PATCH (unsaid).  updateConnection publishes nothing, so
\* a PATCH to ACTIVE does show a failing connection as connected, and the run
\* that repairs it, having loaded no ERROR, never says so.
PartnerWasTold ==
    ~overlapped =>
        /\ connection.status = "ERROR" => told = connection.error
        /\ (told \in SyncError /\ connection.status # "ERROR") =>
              (unsaid \/ connection.deleted)

\* A stay removed from the external calendar stops taking room here, however
\* the runs overlap (the reconciliation in importAvailability).
RemovedEventsFreeRoom ==
    \A u \in Uid :
        feed[u] = "absent" /\ IsActive(imported, u) ~>
            ~IsActive(imported, u) \/ feed[u] # "absent" \/ connection.deleted
=============================================================================
