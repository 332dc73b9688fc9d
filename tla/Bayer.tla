------------------------------- MODULE Bayer -------------------------------
(***************************************************************************)
(* bayer_unshuffle_preview, src/camlibs/stv0680/bayer.c: scales an        *)
(* STV0680 raw frame down by 2^scale and turns the Bayer mosaic into RGB   *)
(* in one pass.  Each raw line holds the sensor's odd columns in its first *)
(* half and its even columns in its second half; in the mosaic, green is   *)
(* where column and row have the same parity, red at odd columns of even   *)
(* rows, blue at even columns of odd rows.                                 *)
(*                                                                         *)
(* The two outer loops are the state machine (one step per output pixel,  *)
(* one per row); the two inner loops, which only sum, are the operator     *)
(* RGB.  C shifts of non-negative ints are products and quotients by       *)
(* powers of two, x&1 is x % 2, and the store into an unsigned char is     *)
(* % 256.                                                                  *)
(***************************************************************************)
EXTENDS Integers, Sequences, FiniteSets, FiniteSetsExt, TLC

CONSTANTS
  Dims,   \* frames the caller may pass: records [w, h, scale]
  Vals    \* byte values a raw pixel may have

ASSUME \A d \in Dims : d.w >= 1 /\ d.h >= 1 /\ d.scale >= 1
ASSUME Vals \subseteq 0..255

VARIABLES
  w, h, scale,  \* the arguments
  raw,          \* the raw buffer: byte offset -> value
  rawoff,       \* how far the raw pointer has been advanced
  nx, ny,       \* the loop counters
  output        \* the RGB triples written so far, in order

vars == <<w, h, scale, raw, rawoff, nx, ny, output>>

nw == w \div 2^scale      \* w >> scale
nh == h \div 2^scale      \* h >> scale
incr == 2^scale           \* 1 << scale

(* Mutant: nx << scale, as if the line were not split into two halves.    *)
RawIndex_fullstep(x, y) ==
  rawoff + y * w + nx * 2^scale + x \div 2
    + (IF x % 2 = 1 THEN 0 ELSE w \div 2)

(* The byte offset read for block position (x, y) of output pixel nx.     *)
RawIndex(x, y) ==
  rawoff + y * w + nx * 2^(scale - 1) + x \div 2
    + (IF x % 2 = 1 THEN 0 ELSE w \div 2)

(* colour = 1 - (x&1) + (y&1): 0 red, 1 green, 2 blue.                     *)
colour(x, y) == 1 - (x % 2) + (y % 2)

(* The bytes the inner loops read for output pixel nx.                    *)
Reads == {RawIndex(x, y) : x, y \in 0..incr - 1}

(* The inner loops over memory mem: rgb[c] after summing the block.        *)
RGB(c, mem) ==
  MapThenSumSet(LAMBDA p : IF colour(p[1], p[2]) = c THEN mem[RawIndex(p[1], p[2])]
                                                     ELSE 0,
                (0..incr - 1) \X (0..incr - 1))

(* output[0..2]: the sums shifted right, stored as unsigned char.          *)
Store(mem) == <<(RGB(0, mem) \div 2^(2 * scale - 2)) % 256,
                (RGB(1, mem) \div 2^(2 * scale - 1)) % 256,
                (RGB(2, mem) \div 2^(2 * scale - 2)) % 256>>

Init ==
  /\ \E d \in Dims : w = d.w /\ h = d.h /\ scale = d.scale
  /\ raw \in [0..w * h - 1 -> Vals]
  /\ rawoff = 0
  /\ nx = 0
  /\ ny = 0
  /\ output = <<>>

(* Mutant: the nx loop runs while nx <= nw.                                *)
Pixel_le ==
  /\ ny < nh
  /\ nx <= nw
  /\ \E past \in [Reads \ DOMAIN raw -> Vals] :
       output' = Append(output, Store(raw @@ past))
  /\ nx' = nx + 1
  /\ UNCHANGED <<w, h, scale, raw, rawoff, ny>>

(* The body of the nx loop: sum the block, store the three averages.  A   *)
(* byte read past the raw buffer (undefined behaviour) may hold any value; *)
(* ReadsInBounds shows the code reads none.                                *)
Pixel ==
  /\ ny < nh
  /\ nx < nw
  /\ \E past \in [Reads \ DOMAIN raw -> Vals] :
       output' = Append(output, Store(raw @@ past))
  /\ nx' = nx + 1
  /\ UNCHANGED <<w, h, scale, raw, rawoff, ny>>

(* Mutant: raw += w, one line per output row instead of 2^scale.          *)
NextRow_oneline ==
  /\ ny < nh
  /\ nx >= nw
  /\ ny' = ny + 1
  /\ rawoff' = rawoff + w
  /\ nx' = 0
  /\ UNCHANGED <<w, h, scale, raw, output>>

(* The end of an nx loop: ++ny, raw += w << scale, and nx starts again.    *)
NextRow ==
  /\ ny < nh
  /\ nx >= nw
  /\ ny' = ny + 1
  /\ rawoff' = rawoff + w * 2^scale
  /\ nx' = 0
  /\ UNCHANGED <<w, h, scale, raw, output>>

Next == Pixel \/ NextRow

Spec == Init /\ [][Next]_vars

Done == ny >= nh

-----------------------------------------------------------------------------
(* Reference: the preview pixel (px, py) is, per colour, the mean (rounded *)
(* down) of the sensor pixels of that colour in its 2^scale square.        *)

(* The sensor pixel at column c, row r, from the raw line layout.          *)
Sensor(c, r) == raw[r * w + (IF c % 2 = 0 THEN w \div 2 ELSE 0) + c \div 2]

Colour(c, r) ==
  IF c % 2 = r % 2 THEN "G" ELSE IF c % 2 = 1 THEN "R" ELSE "B"

Mean(px, py, col) ==
  LET S == {p \in (px * incr..px * incr + incr - 1)
                  \X (py * incr..py * incr + incr - 1) : Colour(p[1], p[2]) = col}
  IN MapThenSumSet(LAMBDA p : Sensor(p[1], p[2]), S) \div Cardinality(S)

Reference ==
  [k \in 1..nw * nh |->
     LET px == (k - 1) % nw
         py == (k - 1) \div nw
     IN <<Mean(px, py, "R"), Mean(px, py, "G"), Mean(px, py, "B")>>]

-----------------------------------------------------------------------------
TypeOK ==
  /\ raw \in [0..w * h - 1 -> 0..255]
  /\ output \in Seq((0..255) \X (0..255) \X (0..255))
  /\ nx \in 0..nw /\ ny \in 0..nh

(* The pointer arithmetic of the inner loop (raw advanced by w << scale    *)
(* per row, nx << (scale-1) plus x >> 1 plus the half-line offset) reads  *)
(* only bytes of the w*h raw buffer, for every output pixel still to make. *)
ReadsInBounds ==
  (ny < nh /\ nx < nw) =>
    \A x, y \in 0..incr - 1 : RawIndex(x, y) \in 0..w * h - 1

(* Every triple bayer_unshuffle_preview has written, and at the end the    *)
(* whole output, is the per-colour block average of the mosaic: the       *)
(* shifts by 2*scale-2 and 2*scale-1 divide by the number of red, green   *)
(* and blue samples, and the output order is row by row.                   *)
PreviewIsBlockAverage ==
  /\ Len(output) <= Len(Reference)
  /\ \A k \in 1..Len(output) : output[k] = Reference[k]
  /\ Done => Len(output) = Len(Reference)

====
