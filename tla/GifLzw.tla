------------------------------- MODULE GifLzw -------------------------------
(***************************************************************************)
(* GifUtils::LZWDecoder (GifUtils.cpp): one picture, sent as LZW codes of  *)
(* growing width, row after row or interlaced, is decoded into the raster. *)
(* One step is one round of the decoder's main loop.  The input is what a  *)
(* GIF encoder makes of a picture: a Clear code, the codes of the greedy   *)
(* LZW parse and an End code, packed from the lowest bit on.               *)
(***************************************************************************)
EXTENDS Integers, Sequences, SequencesExt, FiniteSets, TLC

CONSTANTS Shapes,       \* the pictures' [width, height, interlace]
          Colours,      \* the colours that occur in them, below 2^InitCodeSize
          InitCodeSize, \* bits of a raw code, at least 2
          MaxCodeSize   \* 12 in the code: the table has 2^12 = 4096 entries

VARIABLES picture,   \* what was encoded: its shape and pixel[row][column]
          bufIn,     \* the bits given to the decoder
          whichBit, CodeSize, NextEntry, PrevCode,
          Prefix, Suffix,
          bottom,    \* OutStack[0], which outlives a round of the loop
          nPixels, row, col,
          bufOut,    \* the raster: a function on the places written so far
          ret        \* "running", "decoded", or "failed" for return 0

vars == <<picture, bufIn, whichBit, CodeSize, NextEntry, PrevCode, Prefix, Suffix,
          bottom, nPixels, row, col, bufOut, ret>>

ClearCode == 2^InitCodeSize
EndCode == ClearCode + 1
FirstEntry == ClearCode + 2
nArrMaxSize == 2^MaxCodeSize

-----------------------------------------------------------------------------
(* The encoder of the GIF format. *)

Pass(r) == IF r % 8 = 0 THEN 1 ELSE IF r % 4 = 0 THEN 2 ELSE IF r % 2 = 0 THEN 3 ELSE 4

(* The rows in the order in which they are sent. *)
RowOrder(s) ==
  LET rows == [k \in 1..s.height |-> k - 1]
  IN IF s.interlace
     THEN FlattenSeq([p \in 1..4 |-> SelectSeq(rows, LAMBDA r : Pass(r) = p)])
     ELSE rows

Sent(p) == FlattenSeq([k \in 1..p.shape.height |->
                         p.pixel[RowOrder(p.shape)[k]]])

Bits(code, width) == [k \in 1..width |-> (code \div 2^(k - 1)) % 2]

(* strings[n] is the string of code FirstEntry + n - 1. *)
CodeOf(strings, w) ==
  IF Len(w) = 1 THEN w[1]
  ELSE FirstEntry - 1 + CHOOSE n \in DOMAIN strings : strings[n] = w

(* The decoder's table is one entry behind: that decides the next width.   *)
EncodePixel(e, pixel) ==
  LET longer == Append(e.w, pixel)
      added == FirstEntry + Len(e.strings) + 1
  IN IF Len(longer) = 1 \/ \E n \in DOMAIN e.strings : e.strings[n] = longer
     THEN [e EXCEPT !.w = longer]
     ELSE [w |-> <<pixel>>, strings |-> Append(e.strings, longer),
           bits |-> e.bits \o Bits(CodeOf(e.strings, e.w), e.width),
           width |-> IF added > 2^e.width THEN e.width + 1 ELSE e.width]

Encode(pixels) ==
  LET start == [w |-> <<>>, strings |-> <<>>, width |-> InitCodeSize + 1,
                bits |-> Bits(ClearCode, InitCodeSize + 1)]
      end == FoldLeft(EncodePixel, start, pixels)
      last == FirstEntry + Len(end.strings) + 1
  IN end.bits \o Bits(CodeOf(end.strings, end.w), end.width)
              \o Bits(EndCode, IF last > 2^end.width THEN end.width + 1 ELSE end.width)

Pictures == UNION {{[shape |-> s, pixel |-> px] :
                      px \in [0..(s.height - 1) -> [1..s.width -> Colours]]} : s \in Shapes}

-----------------------------------------------------------------------------
Init ==
  /\ picture \in Pictures
  /\ bufIn = Encode(Sent(picture))
  /\ whichBit = 0
  /\ CodeSize = InitCodeSize + 1
  /\ NextEntry = FirstEntry
  /\ PrevCode \in {0, ClearCode}     \* the code leaves it uninitialised
  /\ Prefix = [k \in 0..(nArrMaxSize - 1) |-> 0]
  /\ Suffix = [k \in 0..(nArrMaxSize - 1) |-> 0]
  /\ bottom = 0
  /\ nPixels = 0 /\ row = 0 /\ col = 0
  /\ bufOut = <<>>
  /\ ret = "running"

shape == picture.shape
maxPixels == shape.width * shape.height

(* The next CodeSize bits; past the end of the input they are zero here.   *)
Code ==
  LET bit(k) == IF whichBit + k <= Len(bufIn) THEN bufIn[whichBit + k] ELSE 0
  IN FoldLeft(LAMBDA v, k : v + bit(k) * 2^(k - 1), 0, [k \in 1..CodeSize |-> k])

(* The characters of a code, the last one first: the content of OutStack.  *)
Expand(code) ==
  LET stack[c \in 0..(nArrMaxSize - 1)] ==
        IF c < FirstEntry THEN <<c>> ELSE <<Suffix[c]>> \o stack[Prefix[c]]
  IN stack[code]

(* A code that is not in the table yet: the previous one, on top of what   *)
(* the last round left in OutStack[0].                                     *)
OutStack ==
  IF Code < NextEntry THEN Expand(Code) ELSE <<bottom>> \o Expand(PrevCode)

NextRow(r) ==
  LET wrap(next, start) == IF next >= shape.height THEN start ELSE next
  IN IF ~shape.interlace THEN r + 1
     ELSE IF r % 8 = 0 THEN wrap(r + 8, 4)
     ELSE IF r % 4 = 0 THEN wrap(r + 8, 2)
     ELSE IF r % 2 = 0 THEN wrap(r + 4, 1)
     ELSE r + 2

(* The output loop: one pixel after the other from the top of the stack.   *)
Put(to, pixel) ==
  LET r == IF to.col = shape.width THEN NextRow(to.row) ELSE to.row
      c == IF to.col = shape.width THEN 0 ELSE to.col
  IN [row |-> r, col |-> c + 1, out |-> (<<r, c>> :> pixel) @@ to.out]

Output(stack) ==
  LET count == IF nPixels + Len(stack) > maxPixels
               THEN maxPixels - nPixels ELSE Len(stack)
      to == FoldLeft(Put, [row |-> row, col |-> col, out |-> bufOut],
                     Reverse(SubSeq(stack, 1, count)))
  IN /\ row' = to.row /\ col' = to.col /\ bufOut' = to.out
     /\ nPixels' = nPixels + count

-----------------------------------------------------------------------------
Running == ret = "running" /\ nPixels < maxPixels

Clear ==
  /\ Running /\ Code = ClearCode
  /\ whichBit' = whichBit + CodeSize
  /\ CodeSize' = InitCodeSize + 1
  /\ NextEntry' = FirstEntry
  /\ PrevCode' = Code
  /\ UNCHANGED <<picture, bufIn, Prefix, Suffix, bottom, nPixels, row, col, bufOut, ret>>

(* The first character of a string is the one on top of the stack.         *)
AddEntry(first) ==
  IF PrevCode = ClearCode
  THEN UNCHANGED <<Prefix, Suffix, NextEntry, CodeSize>>
  ELSE /\ Prefix' = [Prefix EXCEPT ![NextEntry] = PrevCode]
       /\ Suffix' = [Suffix EXCEPT ![NextEntry] = first]
       /\ NextEntry' = NextEntry + 1
       /\ CodeSize' = IF NextEntry' >= 2^CodeSize /\ CodeSize < MaxCodeSize
                      THEN CodeSize + 1 ELSE CodeSize

DecodeCode ==
  /\ Running /\ Code \notin {ClearCode, EndCode}
  /\ Len(OutStack) <= nArrMaxSize + 1
  /\ PrevCode = ClearCode \/ NextEntry + 1 < nArrMaxSize
  /\ whichBit' = whichBit + CodeSize
  /\ AddEntry(Last(OutStack))
  /\ PrevCode' = Code
  /\ bottom' = OutStack[1]
  /\ Output(OutStack)
  /\ UNCHANGED <<picture, bufIn, ret>>

(* return 0: the stack or the table is full. *)
Fail ==
  /\ Running /\ Code \notin {ClearCode, EndCode}
  /\ \/ Len(OutStack) > nArrMaxSize + 1
     \/ PrevCode # ClearCode /\ NextEntry + 1 >= nArrMaxSize
  /\ ret' = "failed"
  /\ UNCHANGED <<picture, bufIn, whichBit, CodeSize, NextEntry, PrevCode, Prefix, Suffix,
                 bottom, nPixels, row, col, bufOut>>

Finish ==
  /\ ret = "running"
  /\ nPixels >= maxPixels \/ Code = EndCode
  /\ ret' = "decoded"
  /\ UNCHANGED <<picture, bufIn, whichBit, CodeSize, NextEntry, PrevCode, Prefix, Suffix,
                 bottom, nPixels, row, col, bufOut>>

Next == Clear \/ DecodeCode \/ Fail \/ Finish

Spec == Init /\ [][Next]_vars

-----------------------------------------------------------------------------
(* "Codec to perform LZW (GIF Variant) decompression" (GifUtils.cpp:317):  *)
(* the decoder gives back the picture that was encoded.  It does not when  *)
(* a code stands for a string that is not in the table yet and the string  *)
(* before it has more than one character: OutStack[0], which "keeps the    *)
(* first character of previous output", holds its last one.                *)
DecodesPicture ==
  ret = "decoded" =>
    bufOut = [at \in (0..(shape.height - 1)) \X (0..(shape.width - 1)) |->
                picture.pixel[at[1]][at[2] + 1]]
=============================================================================
