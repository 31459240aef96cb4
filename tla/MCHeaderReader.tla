--------------------------- MODULE MCHeaderReader ---------------------------
(* Small instances of HeaderReader for TLC. *)
EXTENDS HeaderReader

(* Two magics, lengths at the bounds of the detector and of the parser, a  *)
(* length whose low bytes are a pickle's (896), and an ONNX tag (8).       *)
MCLow == {GgufMagic, ZipMagic, 0, 7, 8, 20, 896, MaxHeader, MaxHeader + 1}

(* bytes the file does not have are zero *)
MCHeads ==
    { h \in [n : {3, 8, 16}, low : MCLow, high : {0, 1}, brace : BOOLEAN, clean : BOOLEAN] :
        /\ h.n < 4 => h.low < 256 * 256 * 256 /\ h.high = 0
        /\ h.n < 9 => ~h.brace /\ h.clean }
=============================================================================
