---------------------------- MODULE Persistence ----------------------------
(***************************************************************************)
(* The matching thread with its log and snapshots, and what is left of     *)
(* them when it stops: process_command and the snapshot step of            *)
(* matching_loop (src/src/gateway.rs), Wal (src/src/wal.rs), Snapshot      *)
(* (src/src/snapshot.rs) and recover (src/src/recovery.rs).                *)
(*                                                                         *)
(* Failures covered: the process dies at any point, in the middle of an    *)
(* append included, and what it wrote stays in the page cache; the power   *)
(* fails, and the log is left with the pages that had reached the disk and *)
(* each snapshot whole, damaged or missing; an append fails; a recovery    *)
(* fails with an I/O error and the session runs without log and snapshots. *)
(* A kernel that writes pages back when it likes is action WriteBack.      *)
(***************************************************************************)
EXTENDS Wal, Engine, BookSnapshot

CONSTANTS
    Requests,         \* commands clients send, as decoded
    Now,              \* what now_nanos returns; not 0
    SnapshotInterval, \* snapshot_interval
    NameBase,         \* 10: the digits of a snapshot's file name
    NameWidth,        \* 10: their least number, in "snapshot_{:010}.bin"
    MaxCommands,      \* bound: commands taken in a behaviour
    MaxFaults         \* bound: crashes, power losses and failed appends in a behaviour

VARIABLES
    pc,         \* "down", "idle", "logged" (appended, not executed), "snapshot"
    cmd,        \* the command being processed
    book,       \* the engine's book
    wal,        \* [pos, count, size] (write_pos, record_count, mapped_size) or NoWal
    file,       \* the log as the page cache holds it
    fileLen,    \* its length
    disk,       \* the log as the disk holds it
    snaps,      \* the snapshot files
    since,      \* cmds_since_snapshot
    taken,      \* number of commands taken
    faults,     \* how many crashes, power losses and failed appends there were
    before      \* history: log and book when the last session ended, see EndSession

diskVars == <<file, fileLen, disk, snaps>>

persVars == <<pc, cmd, book, wal, file, fileLen, disk, snaps, since, taken, faults, before>>

NoWal == [pos |-> 0, count |-> 0, size |-> 0]

HasWal == wal # NoWal

(* The commands a scan of the file finds.                                  *)
Log == ScanToEnd(file, fileLen).records

-----------------------------------------------------------------------------
(* Snapshot                                                                *)

(* The decimal digits of a record count, padded: its place in the sort.    *)
RECURSIVE Digits(_)
Digits(n) == IF n < NameBase THEN <<n>> ELSE Append(Digits(n \div NameBase), n % NameBase)

FileName(n) ==
    LET d == Digits(n)
    IN  [k \in 1 .. Max({0, NameWidth - Len(d)}) |-> 0] \o d

(* The order of snapshot_files.sort(): "." sorts before every digit.       *)
NameBefore(m, n) ==
    \/ Len(m) < Len(n) /\ IsPrefix(m, n)
    \/ \E k \in 1 .. Min({Len(m), Len(n)}) :
          m[k] < n[k] /\ \A j \in 1 .. (k - 1) : m[j] = n[j]

(* Faulty variant: the number is taken after one more command was logged.  *)
CaptureCountsAhead(b, count) == [count |-> count + 1, orders |-> AllRestingOrders(b)]

(* Snapshot::capture.  The best prices it also holds are not read back.    *)
Capture(b, count) == [count |-> count, orders |-> AllRestingOrders(b)]

(* A file of the snapshot directory: intact when it decodes and its        *)
(* checksum holds, durable when it has reached the disk.                   *)
SnapshotFile(snap) == [snap |-> snap, intact |-> TRUE, durable |-> FALSE]

(* Snapshot::save: the rename replaces a file of the same number, which is *)
(* taken to be gone when the power fails before the new one is durable.    *)
Saved(files, snap) == {s \in files : s.snap.count # snap.count} \cup {SnapshotFile(snap)}

(* Faulty variant: a damaged file is taken for no snapshot's orders.       *)
LoadLatestDamaged(files) ==
    IF files = {} THEN [count |-> 0, orders |-> <<>>]
    ELSE LET last == CHOOSE s \in files : \A t \in files \ {s} :
                        NameBefore(FileName(t.snap.count), FileName(s.snap.count))
         IN  IF last.intact THEN last.snap ELSE [last.snap EXCEPT !.orders = <<>>]

(* Snapshot::load_latest: the last name in order whose file is intact; no  *)
(* file is a snapshot of nothing, from which everything is replayed.       *)
LoadLatest(files) ==
    LET good == {s \in files : s.intact}
    IN  IF good = {} THEN [count |-> 0, orders |-> <<>>]
        ELSE (CHOOSE s \in good : \A t \in good \ {s} :
                 NameBefore(FileName(t.snap.count), FileName(s.snap.count))).snap

-----------------------------------------------------------------------------
(* recover                                                                 *)

(* replay_command, for every command the iterator yields                   *)
Replayed(b, cmds) == FoldLeft(LAMBDA acc, c : Executed(acc, c).book, b, cmds)

(* The state after recover: snapshot, scan, replay behind the snapshot's   *)
(* record count, truncation when the iterator meets a bad record.          *)
Recovered(f, size, files) ==
    LET snap     == LoadLatest(files)
        restored == RestoreFromOrders(snap.orders)
        scan     == ScanToEnd(f, size)
        iter     == IterateFrom(f, scan.pos, snap.count)
    IN  [code |-> restored.code,
         stop |-> iter.stop,
         book |-> Replayed(restored.book, iter.cmds),
         file |-> IF iter.stop = "End" THEN f ELSE TruncatedTo(f, iter.pos, scan.pos),
         wal  |-> IF iter.stop = "End"
                  THEN [pos |-> scan.pos, count |-> Len(scan.records), size |-> size]
                  ELSE [pos |-> iter.pos, count |-> snap.count + Len(iter.cmds), size |-> size]]

(* recover succeeds: the file is created, or opened and extended to the    *)
(* initial size.                                                           *)
Recover ==
    LET size == Max({fileLen, InitialSize})
        r    == Recovered(file, size, snaps)
    IN  /\ pc = "down"
        /\ r.code = "Ok"
        /\ book' = r.book
        /\ file' = r.file
        /\ wal' = r.wal
        /\ fileLen' = size
        /\ pc' = "idle" /\ since' = 0
        /\ UNCHANGED <<cmd, disk, snaps, taken, faults, before>>

(* recover returns an error: "starting fresh", with neither log nor        *)
(* snapshots, and what is on the disk left alone but for the extension of  *)
(* the file when it was already open.                                      *)
RecoverFails ==
    /\ pc = "down"
    /\ book' = EmptyBook
    /\ wal' = NoWal
    /\ fileLen' \in {fileLen, Max({fileLen, InitialSize})}
    /\ pc' = "idle" /\ since' = 0
    /\ UNCHANGED <<cmd, file, disk, snaps, taken, faults, before>>

-----------------------------------------------------------------------------
(* process_command                                                         *)

NoSession == [log |-> <<>>, book |-> EmptyBook, by |-> "none"]

(* A command is popped from the ring: its order was stamped before.        *)
Take(c) ==
    /\ pc = "idle"
    /\ taken < MaxCommands
    /\ cmd' = Stamped(c, Now)
    /\ taken' = taken + 1

(* Wal::ensure_capacity maps the file anew when the mapping is too short:  *)
(* the length set_len gives it.  A file that an append left longer, which  *)
(* could not map it, is cut to that length; nothing was written there.     *)
Resized(size) == IF size > wal.size THEN size ELSE fileLen

(* Faulty variant: write_pos is not moved behind the record.               *)
AppendKeepsPos(c) ==
    LET size == SizeFor(wal.size, wal.pos, RecordSize(PayloadLen(c)))
    IN  /\ Take(c)
        /\ HasWal
        /\ before' = NoSession
        /\ file' = StoredAt(file, wal.pos, Unstamped(c), Stores(c))
        /\ fileLen' = Resized(size)
        /\ wal' = [wal EXCEPT !.count = @ + 1, !.size = size]
        /\ pc' = "logged"
        /\ UNCHANGED <<book, disk, snaps, since, faults>>

(* Wal::append returns Ok.                                                 *)
AppendRecord(c) ==
    LET len  == PayloadLen(c)
        size == SizeFor(wal.size, wal.pos, RecordSize(len))
    IN  /\ Take(c)
        /\ HasWal
        /\ before' = NoSession
        /\ file' = StoredAt(file, wal.pos, Unstamped(c), Stores(c))
        /\ fileLen' = Resized(size)
        /\ wal' = [pos |-> wal.pos + RecordSize(len), count |-> wal.count + 1, size |-> size]
        /\ pc' = "logged"
        /\ UNCHANGED <<book, disk, snaps, since, faults>>

MoreFaults == faults.crash + faults.power + faults.append < MaxFaults

(* Wal::append returns an error, which process_command drops: the file     *)
(* cannot be extended, or has been and cannot be mapped.  The command is   *)
(* executed all the same.                                                  *)
AppendFails(c) ==
    LET size == SizeFor(wal.size, wal.pos, RecordSize(PayloadLen(c)))
    IN  /\ Take(c)
        /\ HasWal
        /\ before' = NoSession
        /\ size > wal.size
        /\ MoreFaults
        /\ faults' = [faults EXCEPT !.append = @ + 1]
        /\ fileLen' \in {fileLen, Resized(size)}
        /\ pc' = "logged"
        /\ UNCHANGED <<book, wal, file, disk, snaps, since>>

(* There is no log to append to.                                           *)
SkipAppend(c) ==
    /\ Take(c)
    /\ ~HasWal
    /\ pc' = "logged"
    /\ UNCHANGED <<book, wal, diskVars, since, faults, before>>

(* The engine executes the command; the snapshot is due every so many.     *)
Execute ==
    /\ pc = "logged"
    /\ book' = Executed(book, cmd).book
    /\ cmd' = NoCommand
    /\ since' = since + 1
    /\ pc' = IF HasWal /\ since + 1 >= SnapshotInterval THEN "snapshot" ELSE "idle"
    /\ UNCHANGED <<wal, diskVars, taken, faults, before>>

(* Snapshot::capture and save, then flush_async, which starts writing the  *)
(* log back and waits for nothing.  save writes a temporary file first,    *)
(* which load_latest does not look at: a crash in it leaves no snapshot.   *)
TakeSnapshot ==
    /\ pc = "snapshot"
    /\ snaps' = Saved(snaps, Capture(book, wal.count))
    /\ since' = 0
    /\ pc' = "idle"
    /\ UNCHANGED <<cmd, book, wal, file, fileLen, disk, taken, faults, before>>

(* save returns an error, which matching_loop drops; or this is the drain  *)
(* before the end of a session, which takes no snapshots.                  *)
SnapshotFails ==
    /\ pc = "snapshot"
    /\ since' = 0
    /\ pc' = "idle"
    /\ UNCHANGED <<cmd, book, wal, diskVars, taken, faults, before>>

-----------------------------------------------------------------------------
(* The machine                                                             *)

WriteBack(page) ==
    LET cells == {c \in DOMAIN file : c \div PageCells = page}
    IN  /\ disk' = [c \in DOMAIN disk |-> IF c \in cells THEN file[c] ELSE disk[c]]
        /\ disk' # disk
        /\ UNCHANGED <<pc, cmd, book, wal, file, fileLen, snaps, since, taken, faults, before>>

SnapshotReachesDisk(s) ==
    /\ ~s.durable
    /\ snaps' = (snaps \ {s}) \cup {[s EXCEPT !.durable = TRUE]}
    /\ UNCHANGED <<pc, cmd, book, wal, file, fileLen, disk, since, taken, faults, before>>

(* Memory is lost.                                                         *)
EndSession(by) ==
    /\ MoreFaults
    /\ faults' = [faults EXCEPT ![by] = @ + 1]
    /\ pc' = "down"
    /\ cmd' = NoCommand /\ book' = EmptyBook /\ wal' = NoWal /\ since' = 0

(* What before keeps: the log as it was and the book that its commands had *)
(* made or, for the one in hand, were about to make.  A session that has   *)
(* logged nothing since a power loss does not hide what that loss took,    *)
(* and a session without a log leaves what the one before it left: of its  *)
(* own book nothing is kept.                                               *)
LeftBehind(by) ==
    IF HasWal /\ before.by # "power"
    THEN [log |-> Log, by |-> by,
          book |-> IF pc = "logged" THEN Executed(book, cmd).book ELSE book]
    ELSE IF by = "power" /\ before.by = "crash" THEN [before EXCEPT !.by = "power"]
    ELSE before

(* The process ends, killed or after its last command.                     *)
Crash ==
    /\ pc # "down"
    /\ EndSession("crash")
    /\ before' = LeftBehind("crash")
    /\ UNCHANGED <<diskVars, taken>>

(* It ends in the middle of an append: the stores so far are in the file.  *)
CrashInAppend(c) ==
    LET order == SelectSeq(<<"len", "crc", "first", "second">>, LAMBDA x : x \in Stores(c))
        size  == SizeFor(wal.size, wal.pos, RecordSize(PayloadLen(c)))
        whole == Executed(book, Stamped(c, Now)).book
    IN  /\ pc = "idle" /\ HasWal
        /\ taken < MaxCommands
        /\ taken' = taken + 1
        /\ EndSession("crash")
        /\ fileLen' = Resized(size)
        /\ \E n \in 1 .. Len(order) :
              /\ file' = StoredAt(file, wal.pos, Unstamped(c), ToSet(SubSeq(order, 1, n)))
              /\ before' = [log |-> Log', by |-> "crash",
                            book |-> IF n = Len(order) THEN whole ELSE book]
        /\ UNCHANGED <<disk, snaps>>

PowerLoss ==
    /\ EndSession("power")
    /\ before' = LeftBehind("power")
    /\ file' = disk
    /\ \E damaged \in SUBSET {s \in snaps : ~s.durable} :
          snaps' = {s \in snaps : s.durable}
                      \cup {[s EXCEPT !.intact = FALSE, !.durable = TRUE] : s \in damaged}
    /\ UNCHANGED <<fileLen, disk, taken>>

PersInit ==
    /\ pc = "down" /\ cmd = NoCommand /\ book = EmptyBook /\ wal = NoWal
    /\ file = EmptyFile /\ disk = EmptyFile /\ fileLen = 0 /\ snaps = {}
    /\ since = 0 /\ taken = 0 /\ faults = [crash |-> 0, power |-> 0, append |-> 0] /\ before = NoSession

(* What the program does on its own                                        *)
SessionNext ==
    \/ Recover
    \/ \E c \in Requests : AppendRecord(c)
    \/ Execute
    \/ TakeSnapshot
    \/ SnapshotFails

CrashNext ==
    \/ SessionNext
    \/ RecoverFails
    \/ \E c \in Requests : SkipAppend(c) \/ AppendFails(c) \/ CrashInAppend(c)
    \/ Crash

PowerNext ==
    \/ SessionNext
    \/ \E c \in Requests : CrashInAppend(c)
    \/ Crash
    \/ PowerLoss
    \/ \E page \in 0 .. (MaxCells - 1) \div PageCells : WriteBack(page)
    \/ \E s \in snaps : SnapshotReachesDisk(s)

(* The process may die and I/O may fail; the machine does not stop.        *)
CrashSpec == PersInit /\ [][CrashNext]_persVars

(* The process may die and the power may fail.                             *)
PowerSpec == PersInit /\ [][PowerNext]_persVars
-----------------------------------------------------------------------------
(* A book without its orders' timestamps, which nothing in the engine      *)
(* reads.                                                                  *)
Untimed(b) ==
    [b EXCEPT !.queue = [s \in Side |-> [p \in Prices |->
        [i \in DOMAIN b.queue[s][p] |-> [b.queue[s][p][i] EXCEPT !.timestamp = 0]]]]]

SameBook(a, b) == Untimed(a) = Untimed(b)

(* The recovered engine that nothing has been asked yet, after a session   *)
(* that ended this way.                                                    *)
BackFrom(by) == pc = "idle" /\ HasWal /\ before.by = by

(* The write position, the mapping and the file keep their order and the   *)
(* 8-byte alignment of the records, whatever sizes ensure_capacity chose.  *)
PersTypeOK ==
    /\ pc \in {"down", "idle", "logged", "snapshot"}
    /\ wal.pos <= wal.size /\ wal.size <= fileLen
    /\ wal.pos % Alignment = 0
    /\ since \in 0 .. SnapshotInterval \cup 0 .. MaxCommands
    /\ before.by \in {"none", "crash", "power"}

(* "Book state is now identical to pre-crash state" (SYSTEM_DESIGN.md,     *)
(* 8.2): when the process dies, at any instruction of an append, between   *)
(* append and execution, or before, after or instead of a snapshot,        *)
(* recover rebuilds the book that the last process with a log had, or had  *)
(* logged a command for, but for timestamps (an order from the log has     *)
(* timestamp zero).  Which snapshot the file names' order makes the latest *)
(* must not matter, and neither must a process that ran without the log in *)
(* between: its own book is lost, the older one comes back as it was.      *)
(* Once an append has failed nothing is said: the book is ahead of the log *)
(* then and no later recovery need find it.                                *)
RecoveryRestoresBook ==
    BackFrom("crash") /\ faults.append = 0 => SameBook(book, before.book)

(* The log a scan finds only ever gains one record at its end: neither a   *)
(* torn append, nor the space it leaves to the next session, nor a failed  *)
(* append or a session without log, nor the file's growth loses, repeats   *)
(* or alters a record.                                                     *)
LogOnlyGrows ==
    [][Log' = Log \/ (Len(Log') = Len(Log) + 1 /\ IsPrefix(Log, Log'))]_persVars

(* Whatever pages and snapshots a power loss left, recover neither fails   *)
(* nor meets a bad record: open's scan has stopped before it and the       *)
(* snapshot it takes fits the arena.                                       *)
RecoveryMeetsNoError ==
    pc = "down" => LET r == Recovered(file, Max({fileLen, InitialSize}), snaps)
                   IN  r.code = "Ok" /\ r.stop = "End"

(* After the first power loss the book is one the engine had: that of a    *)
(* prefix of the commands of the log, from whatever mixture of old and new *)
(* pages and of whole, damaged and missing snapshots it is rebuilt.        *)
PowerLossLeavesAPrefix ==
    BackFrom("power") /\ faults.power = 1 =>
        \E n \in 0 .. Len(before.log) :
            SameBook(book, Replayed(EmptyBook, SubSeq(before.log, 1, n)))

-----------------------------------------------------------------------------
(* What a document says and the code does not do                           *)

(* "On replay, corrupted records are detected and the WAL is truncated to  *)
(* the last valid record." (SYSTEM_DESIGN.md, 9.4): an append to such a    *)
(* log leaves it with one record more.                                     *)
AppendAddsOneRecord ==
    [][pc = "idle" /\ pc' = "logged" => Log' = Append(Log, Unstamped(cmd'))]_persVars
=============================================================================
