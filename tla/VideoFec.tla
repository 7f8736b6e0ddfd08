------------------------------ MODULE VideoFec ------------------------------
(***************************************************************************)
(* How a video frame is cut into blocks and the blocks into shards with    *)
(* parity (videoBroadcastThread and fec::encode in src/stream.cpp).  The   *)
(* client is told the number of data shards and a percentage, and works    *)
(* out from them how many parity shards a block has.                       *)
(***************************************************************************)
EXTENDS Integers, Sequences

CONSTANTS
  blocksize,     \* bytes of a shard
  Sizes,         \* sizes of a frame with its packet headers
  Percentages,   \* config::stream.fec_percentage
  Minimums       \* minRequiredFecPackets of the client's request

DATA_SHARDS_MAX == 255
MAX_FEC_BLOCKS == 4

VARIABLES
  frame,    \* the frame to send: its size, and what is asked for
  blocks    \* the blocks it was sent in

vars == <<frame, blocks>>

Init ==
  /\ frame \in [size : Sizes, fec : Percentages, minimum : Minimums]
  /\ blocks = <<>>

RoundedUp(a, b) == (a + b - 1) \div b

(* Blocks of equal size but the last, which extends to the end.            *)
SplitIn(size, n) ==
  LET aligned == RoundedUp(size \div n, blocksize) * blocksize
  IN [i \in 1 .. n |-> IF i < n THEN aligned ELSE size - (n - 1) * aligned]

(* adjusted_fec_percentage_for_min_parity has something to adjust.         *)
Adjusts(data, parity, minimum, fec) ==
  fec # 0 /\ parity < minimum /\ data # 0

encode(size, fec, minimum) ==
  LET data == RoundedUp(size, blocksize)
      parity == (data * fec + 99) \div 100
      adjusted == Adjusts(data, parity, minimum, fec)
  IN [size |-> size, data |-> data, raised |-> adjusted,
      parity |-> IF adjusted THEN minimum ELSE parity,
      percentage |-> IF adjusted THEN (100 * minimum) \div data ELSE fec]

DataShards(fec) == DATA_SHARDS_MAX - fec   \* mutant: counts P as a percentage

(* D = 255 - P and P = D * F.                                              *)
max_data_shards_per_fec_block(fec) == (DATA_SHARDS_MAX * 100) \div (100 + fec)

(* A frame that needs too many blocks is sent without parity.              *)
Sent(f) ==
  LET most == max_data_shards_per_fec_block(f.fec) * blocksize
      needed == RoundedUp(f.size, most)
      skip == needed > MAX_FEC_BLOCKS
      sizes == SplitIn(f.size, IF skip THEN MAX_FEC_BLOCKS ELSE needed)
  IN [i \in DOMAIN sizes |->
        encode(sizes[i], IF skip THEN 0 ELSE f.fec, f.minimum)]

Send ==
  /\ blocks = <<>>
  /\ blocks' = Sent(frame)
  /\ UNCHANGED frame

-----------------------------------------------------------------------------
(* A parity that was raised to the client's minimum may be beyond what can *)
(* be told: with a minimum of three or more, the percentage that is cut to *)
(* a whole number may be too small for more than 100 data shards, or it    *)
(* does not fit its 8 bits, or the shards the 255 elements.                *)
Strained(b) ==
  /\ b.raised /\ b.parity > 2
  /\ b.data > 100 \/ b.percentage > 255 \/ b.data + b.parity > DATA_SHARDS_MAX

(* Every byte is in a block; and, unless the client's minimum strains what *)
(* can be told, a block with parity fits the field of 255 elements that    *)
(* the code works in, and from what it is told the client finds as many    *)
(* parity shards as there are.                                             *)
FecIsSound ==
  \A i \in DOMAIN blocks :
    LET b == blocks[i]
        all[k \in 0 .. i] == IF k = 0 THEN 0 ELSE all[k - 1] + blocks[k].size
    IN /\ b.size > 0
       /\ i = Len(blocks) => all[i] = frame.size
       /\ \/ Strained(b)
          \/ /\ b.percentage # 0 => b.data + b.parity <= DATA_SHARDS_MAX
             /\ b.percentage \in 0 .. 255
             /\ b.parity = RoundedUp(b.data * b.percentage, 100)
=============================================================================
