------------------------------ MODULE Rescale ------------------------------
(***************************************************************************)
(* fd_rescale of app/scenario_app/aiot_example/tflitemicro_algo.cc: an     *)
(* image of any size becomes the input of the person detection network,    *)
(* pixel by pixel, interpolated in fixed point arithmetic.                 *)
(*                                                                         *)
(* The values of the window are free, but for pixels it holds twice.       *)
(***************************************************************************)
EXTENDS Integers

CONSTANTS
  SCALE,                \* 1 << LOCAL_FRAQ_BITS (256)
  NWIDTH, NHEIGHT,      \* HIMAX_INPUT_SIZE_X, HIMAX_INPUT_SIZE_Y (96)
  Widths, Heights,      \* sizes of images; small enough for 32 bits
  Bytes                 \* values of pixels

ASSUME ScaleAssumption == SCALE \in Nat \ {0}
ASSUME InputAssumption == NWIDTH \in 1 .. SCALE /\ NHEIGHT \in 1 .. SCALE
ASSUME ImageAssumption == Widths \subseteq Nat \ {0} /\ Heights \subseteq Nat \ {0}
ASSUME ByteAssumption  == Bytes \subseteq 0 .. 255 /\ 0 \in Bytes

VARIABLES
  width, height,        \* of the image
  x, y,                 \* the next pixel of the network's input
  at, pix,              \* the last window: places in the image, and values
  out_image             \* the last pixel computed

rescale_vars == <<width, height, x, y, at, pix, out_image>>

RescaleInit ==
  /\ width \in Widths /\ height \in Heights
  /\ x = 0 /\ y = 0
  /\ at = [i \in 1 .. 4 |-> 0] /\ pix = [i \in 1 .. 4 |-> 0] /\ out_image = 0

-----------------------------------------------------------------------------
\* Mutant: divided first, without the fraction.
FactorWhole(a, b) == (a \div b) * SCALE

\* SC, the step in the image for one pixel of the input
Factor(a, b) == (a * SCALE) \div b

floor(i, f) == (i * f) \div SCALE

\* Mutant: one column or row too far.
CeilFurther(i, f, n) == IF floor(i, f) >= n THEN floor(i, f) ELSE floor(i, f) + 1

ceil(i, f, n) == IF floor(i, f) + 1 >= n THEN floor(i, f) ELSE floor(i, f) + 1

\* Mutant: the whole offset in the place of the fraction.
FractionWhole(i, f) == i * f

fraction(i, f) == i * f - floor(i, f) * SCALE

Window(fx, fy) == [i \in 1 .. 4 |->
  (IF i <= 2 THEN floor(y, fy) ELSE ceil(y, fy, height)) * width
    + (IF i \in {1, 3} THEN floor(x, fx) ELSE ceil(x, fx, width))]

Blend(f, a, b) == (SCALE - f) * a + f * b

Interpolated(f, g, p) ==
  Blend(g, Blend(f, p[1], p[2]), Blend(f, p[3], p[4])) \div (SCALE * SCALE)

Pixel == LET fx == Factor(width, NWIDTH)
             fy == Factor(height, NHEIGHT) IN
  /\ y < NHEIGHT
  /\ at' = Window(fx, fy)
  /\ pix' \in [1 .. 4 -> Bytes]
  /\ \A i, j \in 1 .. 4 : at'[i] = at'[j] => pix'[i] = pix'[j]
  /\ out_image' = Interpolated(fraction(x, fx), fraction(y, fy), pix')
  /\ x' = IF x + 1 < NWIDTH THEN x + 1 ELSE 0
  /\ y' = IF x + 1 < NWIDTH THEN y ELSE y + 1
  /\ UNCHANGED <<width, height>>

\* The next image is of another size, perhaps.
tflitemicro_algo_run ==
  /\ y = NHEIGHT
  /\ width' \in Widths /\ height' \in Heights
  /\ x' = 0 /\ y' = 0
  /\ at' = [i \in 1 .. 4 |-> 0] /\ pix' = [i \in 1 .. 4 |-> 0] /\ out_image' = 0

RescaleNext == Pixel \/ tflitemicro_algo_run

RescaleSpec == RescaleInit /\ [][RescaleNext]_rescale_vars

-----------------------------------------------------------------------------
(***************************************************************************)
(* Properties                                                              *)
(***************************************************************************)

RescaleTypeOK ==
  /\ width \in Widths /\ height \in Heights
  /\ x \in 0 .. NWIDTH - 1 /\ y \in 0 .. NHEIGHT
  /\ at \in [1 .. 4 -> Int] /\ pix \in [1 .. 4 -> Bytes] /\ out_image \in Int

\* Every pixel that is read is one of the image, in its last row and column too,
\* whether its size is larger or smaller than the input's and divides it or not.
StaysInImage == \A i \in 1 .. 4 : at[i] \in 0 .. width * height - 1

\* A computed pixel lies between the least and the greatest of its window: the
\* fixed point sum neither overflows nor leaves a byte.
Between(lo, hi) == (\A i \in 1 .. 4 : pix[i] \in lo .. hi) => out_image \in lo .. hi
BetweenNeighbours == \A lo, hi \in Bytes : Between(lo, hi)

\* However the rounded steps add up, the window is at the exact place in the
\* image or one pixel before it, in both directions.
NearExact == [][ Pixel => LET col == (x * width) \div NWIDTH
                              row == (y * height) \div NHEIGHT IN
  \E c \in {col, col - 1}, r \in {row, row - 1} : c >= 0 /\ r >= 0 /\ at'[1] = r * width + c ]_rescale_vars
=============================================================================
