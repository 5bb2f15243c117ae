------------------------------ MODULE MCGifLzw ------------------------------
(* Pictures of eight pixels: strings of three pixels are repeated and the   *)
(* codes grow from three to four bits.  A column of eight rows goes through *)
(* all four passes of an interlaced picture.                                *)
EXTENDS GifLzw

MCShapes == {[width |-> 2, height |-> 4, interlace |-> FALSE],
             [width |-> 1, height |-> 8, interlace |-> TRUE]}
=============================================================================
