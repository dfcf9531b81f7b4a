--------------------------- MODULE EquihashLayout ---------------------------
(***************************************************************************)
(* Where the solvers keep hashes and tree nodes, at the parameters they are *)
(* built with: 210 bits, 9 rounds, 7 rest bits (cpu_tromp/equi_miner_210.h, *)
(* cuda_tromp/equi_miner.cu).  Sizes and bit positions are written out      *)
(* there round by round, in both alike; here they are set against the       *)
(* digits of the hash.                                                     *)
(***************************************************************************)
EXTENDS Integers, Sequences, SequencesExt

WN == 210
WK == 9
DIGITBITS == WN \div (WK + 1)
RESTBITS  == 7
BUCKBITS  == DIGITBITS - RESTBITS
HASHLEN   == (WN + 7) \div 8

\* Faulty variant: the general formula, which other parameters use.
HashSizeOfBits(r) == (WN - (r + 1) * DIGITBITS + RESTBITS + 7) \div 8

\* hashsize: the bytes kept of a hash in round r.
HashSize(r) == <<26, 23, 20, 18, 15, 13, 10, 7, 5, 0>>[r + 1]

\* hashwords: the units of four bytes they take.
HashWords(bytes) == (bytes + 3) \div 4

\* htlayout: the first byte of a hash of the round before, in its units.
PrevBo(r) == HashWords(HashSize(r - 1)) * 4 - HashSize(r - 1)

\* A field is read from consecutive bytes; <<k, i, j>> is bits i to j of byte
\* prevbo + k, the highest bit being 0.
RestField ==
  << << <<0, 6, 7>>, <<1, 0, 4>> >>,
     << <<0, 3, 7>>, <<1, 0, 1>> >>,
     << <<0, 0, 6>> >>,
     << <<0, 5, 7>>, <<1, 0, 3>> >>,
     << <<0, 2, 7>>, <<1, 0, 0>> >>,
     << <<0, 7, 7>>, <<1, 0, 5>> >>,
     << <<0, 4, 7>>, <<1, 0, 2>> >>,
     << <<0, 1, 7>> >>,
     << <<0, 6, 7>>, <<1, 0, 4>> >> >>

\* What round r takes of the xor for the bucket of the next heap; the last round
\* compares it.
NextField ==
  << << <<1, 5, 7>>, <<2, 0, 7>>, <<3, 0, 2>> >>,
     << <<1, 2, 7>>, <<2, 0, 7>> >>,
     << <<0, 7, 7>>, <<1, 0, 7>>, <<2, 0, 4>> >>,
     << <<1, 4, 7>>, <<2, 0, 7>>, <<3, 0, 1>> >>,
     << <<1, 1, 7>>, <<2, 0, 6>> >>,
     << <<1, 6, 7>>, <<2, 0, 7>>, <<3, 0, 3>> >>,
     << <<1, 3, 7>>, <<2, 0, 7>>, <<3, 0, 0>> >>,
     << <<1, 0, 7>>, <<2, 0, 5>> >>,
     << <<1, 5, 7>>, <<2, 0, 7>>, <<3, 0, 7>>, <<4, 0, 1>> >> >>

\* What a byte of a slot holds: that byte of the hash, a part of the tree node of
\* round r, or nothing.
HashBytes == 0 .. HASHLEN - 1
Tag(r)    == HASHLEN + r
Unwritten == HASHLEN + WK

VARIABLES
  device,  \* "cpu" or "cuda": whose solver it is
  slots,   \* the bytes of a slot of each heap that every round fills
  filled   \* number of rounds that have filled them

layoutVars == <<device, slots, filled>>

\* slot0, slot1: HASHWORDS0 or HASHWORDS1 units and one for the tree node.
SlotBytes(h) ==
  0 .. 4 * ((WN - (h + 1) * DIGITBITS + RESTBITS + 31) \div 32 + 1) - 1

LayoutInit ==
  /\ device \in {"cpu", "cuda"}
  /\ slots = [h \in 0 .. 1 |-> [b \in SlotBytes(h) |-> Unwritten]]
  /\ filled = 0

\* Faulty variant: the trees of all rounds begin with the heap.
TagUnitFirst(r) == IF device = "cpu" THEN HashWords(HashSize(r)) ELSE 0

\* On the CPU a slot begins with the hash, and the tree node is the unit after.  On
\* the device the node comes first, and trees0[r / 2] and trees1[r / 2] begin r / 2
\* units into the heap.
HashUnit(r) == IF device = "cpu" THEN 0 ELSE r \div 2 + 1
TagUnit(r)  == IF device = "cpu" THEN HashWords(HashSize(r)) ELSE r \div 2

\* A byte of the hash of round r, counted from its first unit.
HashByte(r, i) == slots[r % 2][4 * HashUnit(r) + i]

\* Round r writes its tree node and the units of the hash.
Fill(r, units) ==
  /\ slots' = [slots EXCEPT ![r % 2] =
       [b \in SlotBytes(r % 2) |->
          IF b \div 4 = TagUnit(r) THEN Tag(r)
          ELSE IF b - 4 * HashUnit(r) \in DOMAIN units THEN units[b - 4 * HashUnit(r)]
          ELSE @[b]]]
  /\ filled' = filled + 1
  /\ UNCHANGED device

\* digit0, digitH: the hash ends with its last unit.
FillFromHash ==
  /\ filled = 0
  /\ Fill(0, [i \in PrevBo(1) .. 4 * HashWords(HashSize(0)) - 1 |->
               HASHLEN - HashSize(0) + i - PrevBo(1)])

\* digit1 to digit8, digit_1 to digit_8: the words that are left of the hash of the
\* round before.
FillFromSlot ==
  LET r == filled
      nextunits == HashWords(HashSize(r))
      dunits == HashWords(HashSize(r - 1)) - nextunits
  IN /\ r \in 1 .. WK - 1
     /\ Fill(r, [i \in 0 .. 4 * nextunits - 1 |-> HashByte(r - 1, 4 * dunits + i)])

LayoutNext == FillFromHash \/ FillFromSlot

\* The bits round r reads as a field, in order, counted from the first of the hash.
Bits(r, field) ==
  FlattenSeq([n \in 1 .. Len(field) |->
    [i \in 1 .. field[n][3] - field[n][2] + 1 |->
       8 * HashByte(r - 1, PrevBo(r) + field[n][1]) + field[n][2] + i - 1]])

Span(first, length) == [i \in 1 .. length |-> first + i - 1]

----------------------------------------------------------------------------
(* Properties.                                                             *)

\* Each round sorts by its own digit of the hash: wherever the rounds before have
\* moved it, the masks and shifts written out for the round read the digit's rest
\* bits and the next digit's bucket bits, in order and no other byte; the last
\* round compares the whole last digit.
EachRoundReadsItsDigit ==
  filled > 0 =>
    LET r == filled
    IN /\ Bits(r, RestField[r]) = Span(r * DIGITBITS - RESTBITS, RESTBITS)
       /\ Bits(r, NextField[r]) =
            Span(r * DIGITBITS, IF r = WK THEN DIGITBITS ELSE BUCKBITS)

\* A round writes the heap the round before last wrote, and the tree nodes written
\* there so far stay: the tree of a solution can be read off at the end.
TagsAreKept ==
  \A t \in 0 .. filled - 1 : \A b \in SlotBytes(t % 2) :
    b \div 4 = TagUnit(t) => slots[t % 2][b] = Tag(t)
=============================================================================
