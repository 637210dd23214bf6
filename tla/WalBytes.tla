------------------------------ MODULE WalBytes ------------------------------
(***************************************************************************)
(* The bytes of a log record: the little-endian integers of                *)
(* src/src/common.h, the CRC-32C and the encoders of src/src/wal.cc.       *)
(*                                                                         *)
(* A byte is a number below 256.  A uint32_t that is only combined with    *)
(* others bit by bit (a checksum) is the sequence of its four bytes, least *)
(* significant first, which is also how it is stored.  Keys and values are *)
(* sequences of bytes.                                                     *)
(***************************************************************************)
EXTENDS WalFormat, SequencesExt, Bitwise

CONSTANT IovMax   \* IOV_MAX

kBatchRecord == 1
kPut == 1
kDelete == 2
kRecordHeaderSize == 4 + 4 + 1
kBatchHeaderSize == 8 + 4
kEntryHeaderSize == 1 + 4 + 4

\* Numbers stay below Huge, here larger than any file: a field that was
\* written has two bytes that matter, one that was not reads as Huge.
Huge == 256 * 256

FixedLE(width, value) == [i \in 1..width |-> (value \div 256 ^ (i - 1)) % 256]

\* appendFixed32LE and writeFixed32LE, appendFixed64LE and writeFixed64LE.
Fixed32LE(value) == FixedLE(2, value) \o <<0, 0>>
Fixed64LE(value) == FixedLE(2, value) \o <<0, 0, 0, 0, 0, 0>>

ReadFixed(field) ==
  IF \E i \in 3..Len(field) : field[i] /= 0 THEN Huge ELSE field[1] + 256 * field[2]

\* readFixed32LE and readFixed64LE at offset; CanRead is what they return.
CanRead(width, bytes, offset) == offset + width <= Len(bytes)
Fixed32At(bytes, offset) == ReadFixed(SubSeq(bytes, offset + 1, offset + 4))
Fixed64At(bytes, offset) == ReadFixed(SubSeq(bytes, offset + 1, offset + 8))
-----------------------------------------------------------------------------
XorByte == [a \in 0..255 |-> [b \in 0..255 |-> a ^^ b]]
Xor32(x, y) == [i \in 1..4 |-> XorByte[x[i]][y[i]]]

Ones == <<255, 255, 255, 255>>
Polynomial == <<120, 59, 246, 130>>   \* 0x82f63b78

\* crc >> 1 and crc >> 8.
ShiftBit(crc) == [i \in 1..4 |-> (crc[i] \div 2) + (IF i < 4 THEN 128 * (crc[i + 1] % 2) ELSE 0)]
ShiftByte(crc) == <<crc[2], crc[3], crc[4], 0>>

kCrc32cTable ==
  [i \in 0..255 |->
    LET crc[bit \in 0..8] ==
          IF bit = 0 THEN <<i, 0, 0, 0>>
          ELSE LET c == crc[bit - 1] IN
               IF c[1] % 2 = 1 THEN Xor32(ShiftBit(c), Polynomial) ELSE ShiftBit(c)
    IN  crc[8]]

extendCrc32cSoftware(crc, bytes) ==
  LET extended[i \in 0..Len(bytes)] ==
        IF i = 0 THEN crc
        ELSE LET c == extended[i - 1]
             IN  Xor32(ShiftByte(c), kCrc32cTable[XorByte[c[1]][bytes[i]]])
  IN  extended[Len(bytes)]

\* _mm_crc32_u64, _mm_crc32_u32 and _mm_crc32_u8: the instruction takes the
\* bytes of its operand in the order of memory.
CrcInstruction(crc, chunk) == extendCrc32cSoftware(crc, chunk)

RECURSIVE extendCrc32cHardware(_, _)
extendCrc32cHardware(crc, data) ==
  IF data = <<>> THEN crc
  ELSE LET size == Len(data)
           n == IF size >= 8 THEN 8 ELSE IF size >= 4 THEN 4 ELSE 1
       IN  extendCrc32cHardware(CrcInstruction(crc, SubSeq(data, 1, n)),
                                SubSeq(data, n + 1, size))

\* sse42 is hasHardwareCrc32c().
Crc32C(bytes, sse42) ==
  Xor32(Ones, IF sse42 THEN extendCrc32cHardware(Ones, bytes)
              ELSE extendCrc32cSoftware(Ones, bytes))

\* The check value of CRC-32C: its value for the digits 1 to 9 is e3069283.
ASSUME CheckValue ==
  \A sse42 \in BOOLEAN : Crc32C([i \in 1..9 |-> 48 + i], sse42) = <<131, 146, 6, 227>>
-----------------------------------------------------------------------------
\* WriteBatch::Put and WriteBatch::Delete.
Put(batch, key, value) == Append(batch, [key |-> key, val |-> value])
Delete(batch, key) == Append(batch, [key |-> key, val |-> Deleted])

\* Entry::value, which is empty for a tombstone.
ValueOf(e) == IF e.val = Deleted THEN <<>> ELSE e.val

EntryHeader(e) ==
  <<IF e.val = Deleted THEN kDelete ELSE kPut>>
    \o Fixed32LE(Len(e.key)) \o Fixed32LE(Len(ValueOf(e)))

countEntries(r) == Len(r.entries)

BatchHeader(r) == Fixed64LE(r.base) \o Fixed32LE(countEntries(r))

EntrySize(e) == kEntryHeaderSize + Len(e.key) + Len(ValueOf(e))

EncodedBatchSize(r) ==
  LET size[i \in 0..Len(r.entries)] ==
        IF i = 0 THEN kRecordHeaderSize + kBatchHeaderSize
        ELSE size[i - 1] + EntrySize(r.entries[i])
  IN  size[Len(r.entries)]

\* The three buffers of every entry.
Fragments(r) ==
  FlattenSeq([i \in DOMAIN r.entries |->
    LET e == r.entries[i] IN <<EntryHeader(e), e.key, ValueOf(e)>>])

\* Empty buffers are skipped.
appendIovec(iovecs, buffer) == IF buffer = <<>> THEN iovecs ELSE Append(iovecs, buffer)

\* The iovecs.  The checksum is extended buffer by buffer, by the software loop
\* on every machine.
EncodeBatchFragmentsInto(r) ==
  LET hashed == <<BatchHeader(r)>> \o Fragments(r)
      crc[i \in 0..Len(hashed)] ==
        IF i = 0 THEN Ones ELSE extendCrc32cSoftware(crc[i - 1], hashed[i])
      fixed == Xor32(Ones, crc[Len(hashed)])
                 \o Fixed32LE(EncodedBatchSize(r) - kRecordHeaderSize)
                 \o <<kBatchRecord>> \o BatchHeader(r)
  IN  FoldLeft(appendIovec, <<fixed>>, Fragments(r))

EncodeBatchInto(r, sse42) ==
  LET payload == BatchHeader(r) \o FlattenSeq(Fragments(r))
  IN  Crc32C(payload, sse42) \o Fixed32LE(Len(payload)) \o <<kBatchRecord>> \o payload

\* The bytes that writeGroup hands to Writev for a record.
GroupBytes(r, sse42) ==
  LET iovecs == EncodeBatchFragmentsInto(r)
  IN  IF Len(iovecs) > IovMax THEN EncodeBatchInto(r, sse42) ELSE FlattenSeq(iovecs)
=============================================================================
