------------------------------ MODULE MCEquihash ------------------------------
EXTENDS EquihashSolvers, Bitwise

\* Digits of two bits.
MCXorDigits == [d \in 0 .. 3 |-> [e \in 0 .. 3 |-> d ^^ e]]

\* Nine hashes with three solutions among them; the last digit is the filling.
Base ==
  << <<0, 2, 0, 3, 1>>, <<0, 0, 0, 1, 1>>, <<1, 1, 0, 0, 2>>, <<1, 0, 1, 2, 1>>,
     <<2, 2, 3, 0, 3>>, <<2, 3, 2, 2, 0>>, <<3, 1, 1, 3, 1>>, <<3, 0, 1, 3, 3>>,
     <<0, 1, 0, 1, 1>> >>

\* The eighth hash is g, the sixth has h in the middle.
Variant(g, h) ==
  [i \in 0 .. 8 |->
     CASE i = 7 -> g \o <<3>> [] i = 5 -> <<2, 3>> \o h \o <<0>> [] OTHER -> Base[i + 1]]

\* For the CPU solver one ranges over all there are, the other over some that collide.
MCInputs == {Variant(g, h) : g \in [1 .. 4 -> 0 .. 3], h \in [1 .. 2 -> 0 .. 3]}

\* For the device: two solutions; one whose indices 0 and 8 share a bin of probdupe;
\* one; and a repeat of 0 that it cannot see.
MCCudaInputs ==
  {Variant(<<0, 3, 2, 0>>, <<0, 1>>), Variant(<<3, 2, 0, 0>>, <<3, 3>>),
   Variant(<<3, 3, 2, 3>>, <<1, 0>>), Variant(<<0, 1, 2, 0>>, <<0, 3>>)}

\* Nothing in the counters, or one slot of what was there before.
MCDeviceMemory ==
  {CudaEmpty, [CudaEmpty EXCEPT ![0] = {SlotOf(<<0, 1, 0, 0, 1>>, {<<NHASHES, NHASHES>>}, 0)}]}
=============================================================================
