------------------------------ MODULE WalEntry ------------------------------
(***************************************************************************)
(* wal.rs: the bytes of a log entry, and what replay makes of the bytes of *)
(* a log.  A cell stands for a byte and is the set of its one bits; a word *)
(* (u32) is the set of its one bits, and takes WordCells cells, the lowest *)
(* first.                                                                  *)
(***************************************************************************)
EXTENDS Integers, Sequences, FiniteSets, SequencesExt, FiniteSetsExt

CONSTANTS
    CellBits,     \* bits of a cell, 8 in the code
    WordCells,    \* cells of a length or a checksum, 4 in the code
    Polynomial    \* what crc32 folds in, 0xEDB88320 in the code

WordBits == 0..CellBits * WordCells - 1
Cells == SUBSET (0..CellBits - 1)

\* The top bit of a CRC polynomial, in the order of bits crc32 uses, is one.
ASSUME WalEntryAssumption ==
    /\ CellBits \in Nat \ {0}
    /\ WordCells \in Nat \ {0}
    /\ Polynomial \subseteq WordBits
    /\ CellBits * WordCells - 1 \in Polynomial

\* n as u32, and back.
Word(n) == {b \in WordBits : (n \div 2^b) % 2 = 1}

Number(w) ==
    LET highest[i \in 0..CellBits * WordCells] ==
          IF i = 0 THEN 0
          ELSE 2 * highest[i - 1] + IF CellBits * WordCells - i \in w THEN 1 ELSE 0
    IN  highest[CellBits * WordCells]

to_le_bytes(w) ==
    [i \in 1..WordCells |->
        {b \in 0..CellBits - 1 : (i - 1) * CellBits + b \in w}]

from_le_bytes(cells) ==
    UNION {{(i - 1) * CellBits + b : b \in cells[i]} : i \in DOMAIN cells}

\* The number in the word that starts behind the first n cells.
NumberAt(code, n) == Number(from_le_bytes(SubSeq(code, n + 1, n + WordCells)))

Xor(v, w) == (v \ w) \cup (w \ v)

\* Mutant: the bit that falls out decides nothing.
crc_bit_shifted(crc) == {b - 1 : b \in crc \ {0}}

\* One round of the inner loop of crc32.
crc_bit(crc) ==
    Xor({b - 1 : b \in crc \ {0}}, IF 0 \in crc THEN Polynomial ELSE {})

crc_cell(crc, cell) ==
    LET round[i \in 0..CellBits] ==
          IF i = 0 THEN Xor(crc, cell) ELSE crc_bit(round[i - 1])
    IN  round[CellBits]

crc32(data) ==
    LET over[n \in 0..Len(data)] ==
          IF n = 0 THEN WordBits ELSE crc_cell(over[n - 1], data[n])
    IN  WordBits \ over[Len(data)]

-----------------------------------------------------------------------------
PUT == {}
DELETE == {0}

\* The enum WalEntry.
WalEntries ==
    {e \in [op : {PUT, DELETE}, key : Seq(Cells), value : Seq(Cells)] :
        e.op = DELETE => e.value = <<>>}

\* WalEntry::encode, up to the checksum and with it.
Body(e) ==
    <<e.op>> \o to_le_bytes(Word(Len(e.key))) \o e.key
        \o IF e.op = PUT THEN to_le_bytes(Word(Len(e.value))) \o e.value ELSE <<>>

encode(e) == Body(e) \o to_le_bytes(crc32(Body(e)))

\* The lengths survive the cast to u32.
Fits(e) == \A s \in {e.key, e.value} : Number(Word(Len(s))) = Len(s)

\* WalEntry::decode: the entry that code begins with and the cells it takes,
\* none if a length test or the checksum rejects it.
Rejected == [entry |-> <<>>, consumed |-> 0]

is_err(d) == d.consumed = 0

\* Mutant: the checksum is not among the cells that are consumed.
Decoded_body(e, body_len) == [entry |-> e, consumed |-> body_len]

Decoded(e, body_len) == [entry |-> e, consumed |-> body_len + WordCells]

CheckSummed(e, code, body_len) ==
    IF /\ Len(code) >= body_len + WordCells
       /\ crc32(SubSeq(code, 1, body_len)) =
            from_le_bytes(SubSeq(code, body_len + 1, body_len + WordCells))
    THEN Decoded(e, body_len)
    ELSE Rejected

decode_delete(code, key_end) ==
    IF Len(code) < key_end THEN Rejected
    ELSE CheckSummed([op |-> DELETE, key |-> SubSeq(code, WordCells + 2, key_end),
                      value |-> <<>>], code, key_end)

decode_put(code, key_end) ==
    LET val_start == key_end + WordCells
        val_end == val_start + NumberAt(code, key_end)
    IN  IF Len(code) < val_start \/ Len(code) < val_end THEN Rejected
        ELSE CheckSummed([op |-> PUT, key |-> SubSeq(code, WordCells + 2, key_end),
                          value |-> SubSeq(code, val_start + 1, val_end)],
                         code, val_end)

decode(code) ==
    IF Len(code) < 1 + WordCells THEN Rejected
    ELSE LET key_end == 1 + WordCells + NumberAt(code, 1)
         IN  CASE code[1] = PUT    -> decode_put(code, key_end)
               [] code[1] = DELETE -> decode_delete(code, key_end)
               [] OTHER            -> Rejected

\* The loop of Wal::replay, from the cursor behind the first n cells.
replay_bytes(file) ==
    LET from[n \in 0..Len(file)] ==
          LET d == decode(SubSeq(file, n + 1, Len(file)))
          IN  IF n = Len(file) \/ is_err(d) THEN <<>>
              ELSE <<d.entry>> \o from[n + d.consumed]
    IN  from[0]
=============================================================================
