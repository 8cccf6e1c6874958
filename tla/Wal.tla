-------------------------------- MODULE Wal --------------------------------
(***************************************************************************)
(* The write-ahead log of src/src/wal.rs as operators on the contents of   *)
(* its mapped file.  A record is 48 bytes for a new order and 24 for a     *)
(* cancel, so the file is kept as cells of 24 bytes: a length, a checksum  *)
(* and 16 bytes of payload, or, in the second half of a new order, 24      *)
(* bytes of payload.  Positions and sizes are in bytes.                    *)
(*                                                                         *)
(* Abstraction: a checksum names the payload it was computed from (CRC32   *)
(* is taken to tell different payloads apart).                             *)
(***************************************************************************)
EXTENDS Commands, SequencesExt

CONSTANTS
    InitialSize,  \* initial_size of open_with_size, in bytes
    MaxCells,     \* bound: cells the file may grow to
    PageCells     \* cells written back to the disk together

ASSUME WalAssumption ==
    /\ InitialSize \in Nat \ {0}
    /\ MaxCells \in Nat
    /\ PageCells \in Nat \ {0}

CellSize == 24
HeaderSize == 8
Alignment == 8

(* align_up                                                                *)
AlignUp(n) == ((n + Alignment - 1) \div Alignment) * Alignment

(* NEW_ORDER_SIZE and CANCEL_ORDER_SIZE: what the encoders return          *)
PayloadLen(cmd) == IF cmd.type = "NewOrder" THEN 40 ELSE 16

RecordSize(len) == AlignUp(HeaderSize + len)

-----------------------------------------------------------------------------
(* Cells                                                                   *)
Unwritten == [len |-> 0, crc |-> NoCommand, data |-> <<NoCommand, 0>>]

EmptyFile == [c \in 0 .. MaxCells - 1 |-> Unwritten]

(* The second half of a new order.  A scan that lands here takes the       *)
(* trader id for a header, whose checksum does not match.                  *)
SecondHalf(cmd) == [len |-> 1, crc |-> NoCommand, data |-> <<cmd, 2>>]

CellAt(pos) == pos \div CellSize

(* The stores of one append into the file f at pos, by name: the length,   *)
(* the checksum, and the payload in the one or two cells it covers.        *)
Stores(cmd) ==
    {"len", "crc", "first"} \cup (IF cmd.type = "NewOrder" THEN {"second"} ELSE {})

(* The file when only the stores in done have been made.                   *)
StoredAt(f, pos, cmd, done) ==
    [c \in DOMAIN f |->
        IF c = CellAt(pos)
        THEN [len  |-> IF "len" \in done THEN PayloadLen(cmd) ELSE f[c].len,
              crc  |-> IF "crc" \in done THEN cmd ELSE f[c].crc,
              data |-> IF "first" \in done THEN <<cmd, 1>> ELSE f[c].data]
        ELSE IF c = CellAt(pos) + 1 /\ "second" \in done THEN SecondHalf(cmd)
        ELSE f[c]]

(* stored_crc = computed_crc for the record at pos: the payload of the     *)
(* stated length is the one the checksum was computed from.                *)
ChecksumMatches(f, pos) ==
    LET head == f[CellAt(pos)]
        cmd  == head.crc
    IN  /\ cmd # NoCommand
        /\ head.len = PayloadLen(cmd)
        /\ head.data = <<cmd, 1>>
        /\ cmd.type = "NewOrder" => f[CellAt(pos) + 1].data = <<cmd, 2>>

-----------------------------------------------------------------------------
Fits(pos, len, end) == pos + RecordSize(len) <= end

RECURSIVE ScanFrom(_, _, _, _)

(* Faulty variant: scan_to_end without the checksum test, which leaves the *)
(* bad record to the iterator.                                             *)
ScanFromUnchecked(f, size, pos, records) ==
    LET len == f[CellAt(pos)].len
    IN  IF pos + HeaderSize > size \/ len = 0 \/ ~Fits(pos, len, size) \/ f[CellAt(pos)].crc = NoCommand
        THEN [pos |-> pos, records |-> records]
        ELSE ScanFrom(f, size, pos + RecordSize(len), Append(records, f[CellAt(pos)].crc))

(* scan_to_end from pos on: where the scan stops, and the records before   *)
(* that.  The record count is the length of the sequence.                  *)
ScanFrom(f, size, pos, records) ==
    LET len == f[CellAt(pos)].len
    IN  IF \/ pos + HeaderSize > size
           \/ len = 0
           \/ ~Fits(pos, len, size)
           \/ ~ChecksumMatches(f, pos)
        THEN [pos |-> pos, records |-> records]
        ELSE ScanFrom(f, size, pos + RecordSize(len), Append(records, f[CellAt(pos)].crc))

ScanToEnd(f, size) == ScanFrom(f, size, 0, <<>>)

RECURSIVE IterFrom(_, _, _, _, _, _)

(* WalIterator::next until it returns None or an error: the commands it    *)
(* yields behind record number start, why it stopped and where.  A record  *)
(* whose checksum holds is one that append has encoded, and decodes.       *)
IterFrom(f, end, start, pos, current, cmds) ==
    LET len == f[CellAt(pos)].len
        Stop(why) == [cmds |-> cmds, stop |-> why, pos |-> pos]
    IN  IF pos + HeaderSize > end THEN Stop("End")
        ELSE IF len = 0 THEN Stop("End")
        ELSE IF ~Fits(pos, len, end) THEN Stop("TruncatedRecord")
        ELSE IF ~ChecksumMatches(f, pos) THEN Stop("Corruption")
        ELSE IterFrom(f, end, start, pos + RecordSize(len), current + 1,
                      IF current + 1 <= start THEN cmds ELSE Append(cmds, f[CellAt(pos)].crc))

IterateFrom(f, end, start) == IterFrom(f, end, start, 0, 0, <<>>)

(* truncate_to: the bytes from offset to the write position are zeroed.    *)
TruncatedTo(f, offset, end) ==
    [c \in DOMAIN f |-> IF CellAt(offset) <= c /\ c * CellSize < end THEN Unwritten ELSE f[c]]

(* Faulty variant: doubling is taken to be enough.                         *)
SizeForDoubled(size, pos, needed) == IF pos + needed <= size THEN size ELSE size * 2

(* ensure_capacity: the mapped size that holds needed bytes behind pos.    *)
SizeFor(size, pos, needed) ==
    IF pos + needed <= size THEN size ELSE Max({size * 2, pos + needed})
=============================================================================
