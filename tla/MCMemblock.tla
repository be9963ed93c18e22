----------------------------- MODULE MCMemblock -----------------------------
(* A small memory for Memblock: the device tree below the kernel image,    *)
(* the image reserved in two adjacent pieces, and room for a few blocks.   *)
EXTENDS Memblock

MCBootCalls ==
    <<[op |-> "reserve", base |-> 8, size |-> 1],
      [op |-> "add", base |-> 8, size |-> 32],
      [op |-> "reserve", base |-> 10, size |-> 2],
      [op |-> "reserve", base |-> 12, size |-> 1]>>
=============================================================================
