------------------------------ MODULE MCRecords ------------------------------
(****************************************************************************)
(* Bytes of nine values, so that identifiers have digits of three and a     *)
(* 16-bit number ends at 80; code, name and sector are cut short.           *)
(****************************************************************************)
EXTENDS Records

MCSignature == <<1, 2, 3, 4, 5, 6, 7, 8>>

MCLiterals == [signature |-> MCSignature, version |-> 6487, header_size |-> 92,
               checksum |-> 0, reserved |-> 0, partition_entry_size |-> 128,
               partition_entries_checksum |-> 0,
               rest |-> [k \in 1..(SectorBytes - 92) |-> 0]]

\* No two fields of a header hold the same.
HeaderFrom(n) == [current_lba |-> n, backup_lba |-> 1000 + n, first_usable_lba |-> n + 2,
                  last_usable_lba |-> 700 * 6561 + n, disk_uuid |-> [k \in 1..16 |-> (k + n) % 9],
                  partition_entries_lba |-> n + 4, partition_entry_count |-> n + 5]
MCHeaders == {HeaderFrom(1), HeaderFrom(20)}
MCDiskUuids == {HeaderFrom(1).disk_uuid}

\* Identifiers, written in several ways and in ways that are none.
Value(k, n) == ((k * k + n * k) \div 2) % 3
Canonical(n, upper) ==
  [j \in 1..36 |-> IF j \in {9, 14, 19, 24} THEN Dash ELSE Digit(Value(j, n), upper)]
WithoutDashes(str) == SelectSeq(str, IsDigit)
MCStrings ==
  {Canonical(1, FALSE), Canonical(1, TRUE), Canonical(2, FALSE),
   WithoutDashes(Canonical(2, FALSE)),
   SubSeq(Canonical(1, FALSE), 1, 34), SubSeq(Canonical(1, FALSE), 1, 35),
   SubSeq(Canonical(2, FALSE), 1, 24),
   [Canonical(1, FALSE) EXCEPT ![20] = Junk], [Canonical(1, FALSE) EXCEPT ![2] = Dash]}

MCStacks == {[k \in 1..16 |-> 0], [k \in 1..16 |-> 8]}

\* A checksum in which every byte and its place count.
MCcrc32(b) == LET sum[k \in 0..Len(b)] == IF k = 0 THEN 1
                                           ELSE (sum[k - 1] * 7 + b[k] + 1) % 6561
              IN sum[Len(b)]

MCStages == {[first_lba |-> 34, size |-> 1024], [first_lba |-> 4000, size |-> 41984]}

\* What is there at first is neither a header nor an entry.
Unlike(n) == [a \in 0..(n - 1) |-> (a * 5 + 1) % 9]
MCFound == [header |-> {Unlike(SectorBytes)}, entry |-> {Unlike(NameBytes + 56)},
            mbr |-> {Unlike(CodeBytes + 36)}]
=============================================================================
