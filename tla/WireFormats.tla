------------------------------ MODULE WireFormats ------------------------------
(***************************************************************************)
(* The messages between client and server: how each is encoded, what the   *)
(* way may do to its bytes, and what the decoder makes of what arrives.    *)
(* Scaled down: a fixed-width field is one byte, a byte has three bits, two*)
(* of a varint's value and its continuation, and a varint has WIDTH bits.  *)
(***************************************************************************)
EXTENDS Integers, Sequences, FiniteSets, SequencesExt

CONSTANTS Messages, \* what may be sent: records of a kind and its fields
          MaxFlaws  \* bound on what happens to a message on its way

ASSUME WireAssumption == MaxFlaws \in Nat

VARIABLES
    sent,  \* a message
    arrived, \* what there is of it
    flaws  \* how often it was spoilt

wireVars == <<sent, arrived, flaws>>

-----------------------------------------------------------------------------
(* What both ends know: the geometry of the deployment.                    *)

Byte == 0 .. 7
WIDTH == 3          \* of a u64
RowMax == 3         \* u32
OffsetMax == 1      \* u16
DeltaBound == 2     \* 2^plaintext_bits
Arity == 2          \* segments
QueryLen == 2       \* reshape_rows, the length of a segment's query
ResponseLen == 1    \* reshape_row_width

MAGIC == [delta |-> 0, query |-> 1, response |-> 2, setup |-> 3, recent |-> 4]

-----------------------------------------------------------------------------
(* Encoders.                                                               *)

Uvarint[v \in 0 .. 2 ^ WIDTH - 1] == IF v < 4 THEN <<v>> ELSE <<4 + (v % 4)>> \o Uvarint[v \div 4]
uvarint_len[v \in 0 .. 2 ^ WIDTH - 1] == IF v < 4 THEN 1 ELSE 1 + uvarint_len[v \div 4]

Zigzag(v) == IF v < 0 THEN -2 * v - 1 ELSE 2 * v
Unzigzag(u) == IF u % 2 = 0 THEN u \div 2 ELSE -((u + 1) \div 2)

(* sort_by_key: stable, by the index of a row or of a cell.                *)
ByIndex(entries) ==
    LET at(sorted, e) == Cardinality({i \in DOMAIN sorted : sorted[i].index <= e.index})
    IN  FoldLeft(LAMBDA sorted, e : InsertAt(sorted, at(sorted, e) + 1, e), <<>>, entries)

Gap(entries, i) == entries[i].index - IF i = 1 THEN 0 ELSE entries[i - 1].index

(* A count, and every entry by the gap from the one before.                *)
EncodeEntries(entries, Encode(_)) ==
    LET sorted == ByIndex(entries)
    IN  Uvarint[Len(sorted)] \o
        FlattenSeq([i \in DOMAIN sorted |-> Uvarint[Gap(sorted, i)] \o Encode(sorted[i])])

EncodeCell(cell) == Uvarint[Zigzag(cell.delta)]
EncodeRow(row) == EncodeEntries(row.cells, EncodeCell)
EncodeSegment(rows) == EncodeEntries(rows, EncodeRow)

encode_u32s(values) == Uvarint[Len(values)] \o values

EncodeParams(p) == <<p.lwe_dim, p.bits, p.width>>

EncodeFields(m) ==
    CASE m.kind = "delta"    -> <<m.block, Len(m.segments)>> \o FlattenSeq([i \in DOMAIN m.segments |-> EncodeSegment(m.segments[i])])
      [] m.kind = "query"    -> <<Len(m.arrays)>> \o FlattenSeq([i \in DOMAIN m.arrays |-> encode_u32s(m.arrays[i])])
      [] m.kind = "response" -> <<Len(m.arrays), m.block>> \o FlattenSeq([i \in DOMAIN m.arrays |-> encode_u32s(m.arrays[i])])
      [] m.kind = "setup"    -> <<Len(m.params), m.block>> \o FlattenSeq([i \in DOMAIN m.params |-> EncodeParams(m.params[i])])
                                \o FlattenSeq([i \in DOMAIN m.arrays |-> encode_u32s(m.arrays[i])])

(* /recent has no magic: a fixed-width count, and the addresses.           *)
Encode(m) == IF m.kind = "recent" THEN <<Len(m.addrs)>> \o m.addrs ELSE <<MAGIC[m.kind]>> \o EncodeFields(m)

RECURSIVE SumSeq(_)
SumSeq(s) == IF s = <<>> THEN 0 ELSE Head(s) + SumSeq(Tail(s))

(* BlockDelta::encoded_len, and setup_encoded_len: the length, unencoded.  *)
CellLen(cells, i) == uvarint_len[Gap(cells, i)] + uvarint_len[Zigzag(cells[i].delta)]
RowLen(rows, i) ==
    uvarint_len[Gap(rows, i)] + uvarint_len[Len(rows[i].cells)]
    + LET cells == ByIndex(rows[i].cells) IN SumSeq([j \in DOMAIN cells |-> CellLen(cells, j)])
EncodedLen(m) ==
    CASE m.kind = "delta" ->
           3 + SumSeq([i \in DOMAIN m.segments |-> LET rows == ByIndex(m.segments[i])
                                                   IN  uvarint_len[Len(rows)] + SumSeq([j \in DOMAIN rows |-> RowLen(rows, j)])])
      [] m.kind = "setup" ->
           3 + 3 * Len(m.params) + SumSeq([i \in DOMAIN m.arrays |-> uvarint_len[Len(m.arrays[i])] + Len(m.arrays[i])])

-----------------------------------------------------------------------------
(* Decoders.  A reader takes the bytes and a position; what it returns is  *)
(* where it stopped and what it read, or Refused.                          *)

Refused == [at |-> 0]
Read(at, v) == [at |-> at, v |-> v]
Then(r, Next(_, _)) == IF r.at = 0 THEN Refused ELSE Next(r.v, r.at)
Guard(holds, r) == IF holds THEN r ELSE Refused

ReadByte(b, pos) == IF pos <= Len(b) THEN Read(pos + 1, b[pos]) ELSE Refused

(* Too many bytes, or bits beyond the width, are malformed.                *)
ReadUvarint(b, pos) ==
    LET ends  == {i \in pos .. Len(b) : b[i] < 4}
        end   == CHOOSE i \in ends : \A j \in ends : i <= j
        value == SumSeq([i \in 1 .. (end - pos + 1) |-> (b[pos + i - 1] % 4) * 4 ^ (i - 1)])
    IN  IF ends = {} \/ 2 * (end - pos) >= WIDTH \/ value >= 2 ^ WIDTH THEN Refused ELSE Read(end + 1, value)

ReadMany(n, Item(_, _), b, pos) ==
    FoldLeft(LAMBDA got, i : Then(got, LAMBDA items, at : Then(Item(b, at), LAMBDA v, next : Read(next, Append(items, v)))),
             Read(pos, <<>>), [i \in 1 .. n |-> i])

(* check_count: every entry has a byte at least.                           *)
ReadCount(b, pos) == Then(ReadUvarint(b, pos), LAMBDA n, at : Guard(n <= Len(b) + 1 - at, Read(at, n)))

(* Gaps add up to indices, which have a width.                             *)
Indexed(gapped, bound) ==
    LET index(i) == SumSeq([j \in 1 .. i |-> gapped[j].gap])
    IN  IF \E i \in DOMAIN gapped : index(i) > bound THEN <<>>
        ELSE [i \in DOMAIN gapped |-> [index |-> index(i), item |-> gapped[i].item]]

ReadEntries(Item(_, _), bound, b, pos) ==
    Then(ReadCount(b, pos), LAMBDA n, at :
        Then(ReadMany(n, LAMBDA c, p : Then(ReadUvarint(c, p), LAMBDA gap, q :
                                           Then(Item(c, q), LAMBDA v, r : Read(r, [gap |-> gap, item |-> v]))), b, at),
             LAMBDA gapped, next :
                LET entries == Indexed(gapped, bound) IN Guard(Len(entries) = n, Read(next, entries))))

ReadDelta(b, pos) ==
    Then(ReadUvarint(b, pos), LAMBDA u, at :
        LET d == Unzigzag(u) IN Guard(d < DeltaBound /\ -d < DeltaBound, Read(at, d)))

ReadCells(b, pos) ==
    Then(ReadEntries(ReadDelta, OffsetMax, b, pos), LAMBDA cells, at :
        Read(at, [i \in DOMAIN cells |-> [index |-> cells[i].index, delta |-> cells[i].item]]))

ReadRows(b, pos) ==
    Then(ReadEntries(ReadCells, RowMax, b, pos), LAMBDA rows, at :
        Read(at, [i \in DOMAIN rows |-> [index |-> rows[i].index, cells |-> rows[i].item]]))

(* read_u32s, of which the caller then wants exactly `len`.                *)
ReadArray(len, b, pos) ==
    Then(ReadUvarint(b, pos), LAMBDA n, at : Guard(n = len, ReadMany(n, ReadByte, b, at)))

ReadArrays(lens, b, pos) ==
    FoldLeft(LAMBDA got, len : Then(got, LAMBDA arrays, at :
                 Then(ReadArray(len, b, at), LAMBDA a, next : Read(next, Append(arrays, a)))),
             Read(pos, <<>>), lens)

(* SimpleParams::new would panic at what is refused here.                  *)
ReadParams(b, pos) ==
    Then(ReadMany(3, ReadByte, b, pos), LAMBDA f, at :
        Guard(f[1] > 0 /\ f[2] \in 1 .. 4, Read(at, [lwe_dim |-> f[1], bits |-> f[2], width |-> f[3]])))

Each(len) == [i \in 1 .. Arity |-> len]

ReadFields(kind, b, pos) ==
    CASE kind = "delta" ->
           Then(ReadMany(2, ReadByte, b, pos), LAMBDA f, at : Guard(f[2] = Arity,
               Then(ReadMany(Arity, ReadRows, b, at), LAMBDA segments, next :
                   Read(next, [kind |-> kind, block |-> f[1], segments |-> segments]))))
      [] kind = "query" ->
           Then(ReadByte(b, pos), LAMBDA n, at : Guard(n = Arity,
               Then(ReadArrays(Each(QueryLen), b, at), LAMBDA arrays, next : Read(next, [kind |-> kind, arrays |-> arrays]))))
      [] kind = "response" ->
           Then(ReadMany(2, ReadByte, b, pos), LAMBDA f, at : Guard(f[1] = Arity,
               Then(ReadArrays(Each(ResponseLen), b, at), LAMBDA arrays, next :
                   Read(next, [kind |-> kind, block |-> f[2], arrays |-> arrays]))))
      [] kind = "setup" ->
           Then(ReadMany(2, ReadByte, b, pos), LAMBDA f, at : Guard(f[1] \in 2 .. 4,
               Then(ReadMany(f[1], ReadParams, b, at), LAMBDA params, p :
                   Then(ReadArrays([i \in DOMAIN params |-> params[i].lwe_dim * params[i].width], b, p), LAMBDA arrays, next :
                       Read(next, [kind |-> kind, block |-> f[2], params |-> params, arrays |-> arrays])))))

(* Mutant of Complete: what follows a message is ignored.                  *)
CompleteOrMore(b, r) == r

(* TrailingBytes.                                                          *)
Complete(b, r) == Then(r, LAMBDA m, at : Guard(at = Len(b) + 1, r))

Decode(kind, b) ==
    IF kind = "recent"
    THEN Then(ReadByte(b, 1), LAMBDA n, at : Guard(Len(b) = n + 1, Read(Len(b) + 1, [kind |-> kind, addrs |-> Tail(b)])))
    ELSE Then(ReadByte(b, 1), LAMBDA magic, at : Guard(magic = MAGIC[kind], Complete(b, ReadFields(kind, b, at))))

-----------------------------------------------------------------------------
(* A message goes out; its end may be lost, bytes may follow it, and any   *)
(* byte of it may change.  The endpoint says which decoder it is for.      *)
WireInit ==
    /\ sent \in Messages
    /\ arrived = Encode(sent)
    /\ flaws = 0

Flawed(new) == arrived' = new /\ flaws' = flaws + 1 /\ UNCHANGED sent

CutShort == flaws < MaxFlaws /\ \E n \in 0 .. (Len(arrived) - 1) : Flawed(SubSeq(arrived, 1, n))
RunsOn   == flaws < MaxFlaws /\ \E b \in Byte : Flawed(Append(arrived, b))
Altered  == flaws < MaxFlaws /\ \E i \in DOMAIN arrived, b \in Byte : Flawed([arrived EXCEPT ![i] = b])

WireNext == CutShort \/ RunsOn \/ Altered

WireSpec == WireInit /\ [][WireNext]_wireVars

-----------------------------------------------------------------------------
Sorted(m) ==
    IF m.kind # "delta" THEN m
    ELSE [m EXCEPT !.segments = [s \in DOMAIN m.segments |->
             ByIndex([r \in DOMAIN m.segments[s] |-> [m.segments[s][r] EXCEPT !.cells = ByIndex(@)]])]]

(* A message that arrives whole is decoded to what was sent, in order of   *)
(* its indices.  Of what arrives in any state the decoder makes a message  *)
(* that the encoder can send and that then decodes to itself, with as many *)
(* bytes as its length was computed to, or nothing; and no part of it, nor *)
(* anything longer, would have been a message as well.                     *)
DecodedOrRefused ==
    LET got == Decode(sent.kind, arrived) IN
    /\ flaws = 0 => got.at # 0 /\ got.v = Sorted(sent)
    /\ got.at # 0 =>
          /\ Decode(sent.kind, Encode(got.v)).v = got.v
          /\ Len(Encode(got.v)) <= Len(arrived)
          /\ sent.kind \in {"delta", "setup"} => EncodedLen(got.v) = Len(Encode(got.v))
          /\ \A n \in 0 .. (Len(arrived) - 1) : Decode(sent.kind, SubSeq(arrived, 1, n)).at = 0
          /\ \A b \in Byte : Decode(sent.kind, Append(arrived, b)).at = 0
=============================================================================
