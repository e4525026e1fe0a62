-------------------------------- MODULE MCLzss --------------------------------
(* Sixteen positions, matches of up to four bytes, two units to a flags      *)
(* byte.  Tiles are an even number of bytes: all of two and four, and all    *)
(* ends of a longer input, after which the ring has turned once and whose    *)
(* beginning makes the trees deep.                                           *)
EXTENDS Lzss

MCMasks == <<1, 2>>
Start == <<32, 65, 65, 32, 65, 32, 32, 65, 65, 65, 65, 32, 32>>

(* F - 1 spaces first, so that the strings of spaces before the input are    *)
(* equal, and F again when only the first of them has left the ring.         *)
Spaces == <<32, 32, 32>>
MCSpaces == {Spaces \o middle \o <<32, 32, 32, 32>> :
               middle \in {m \in [1 .. 7 -> {0, Space, 65}] : m[1] = 65 /\ m[7] = 65}}

MCInputs == [1 .. 2 -> Bytes] \union [1 .. 4 -> Bytes]
            \union {Start \o end : end \in [1 .. 11 -> {Space, 65}]} \union MCSpaces
=============================================================================
