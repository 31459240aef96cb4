--------------------------- MODULE FormatDetection ---------------------------
(***************************************************************************)
(* What the first bytes of a blob say about its format (validator.rs), and *)
(* what the SafeTensors parser asks of the same bytes (safetensors.rs).    *)
(*                                                                         *)
(* The first 16 bytes are a record:                                        *)
(*     n      how many of them the file has                                *)
(*     low    bytes 0..3 as a little-endian word                           *)
(*     high   bytes 4..7 as a little-endian word                           *)
(*     brace  byte 8 is '{'                                                *)
(*     clean  bytes 8..n hold no control characters but white space        *)
(***************************************************************************)
EXTENDS Integers

MaxHeader == 8 * 1024 * 1024   \* MAX_SAFETENSORS_HEADER, and the detector's bound
GgufMagic == 1179993927        \* "GGUF"
ZipMagic  == 67324752          \* "PK" 3 4

Byte0(w) == w % 256
Byte1(w) == (w \div 256) % 256

FirstBytes == [n : 0..16, low : Nat, high : Nat, brace : BOOLEAN, clean : BOOLEAN]

IsGguf(h)   == h.low = GgufMagic
IsPickle(h) == Byte0(h.low) = 128 /\ Byte1(h.low) \in 2..5
IsZip(h)    == h.low = ZipMagic
IsOnnx(h)   == Byte0(h.low) = 8

(* the declared length is that of a header, and JSON seems to follow *)
IsSafeTensors(h) ==
    /\ h.n >= 9
    /\ h.high = 0 /\ h.low \in 8..MaxHeader
    /\ h.brace
    /\ h.clean   \* looks_like_safetensors_json_head

(* Variant: the bound on the header length is left to the parser. *)
detect_safe_format_NoBound(h) ==
    IF h.n < 4 THEN "invalid"
    ELSE IF IsGguf(h) THEN "gguf"
    ELSE IF IsPickle(h) \/ IsZip(h) THEN "rejected"
    ELSE IF h.n >= 9 /\ h.low >= 8 /\ h.brace /\ h.clean THEN "safetensors"
    ELSE IF IsOnnx(h) THEN "onnx"
    ELSE "invalid"

(* the tests in their order: the first that applies decides *)
detect_safe_format(h) ==
    IF h.n < 4 THEN "invalid"
    ELSE IF IsGguf(h) THEN "gguf"
    ELSE IF IsPickle(h) \/ IsZip(h) THEN "rejected"
    ELSE IF IsSafeTensors(h) THEN "safetensors"
    ELSE IF IsOnnx(h) THEN "onnx"
    ELSE "invalid"

Verdict == {"invalid", "gguf", "rejected", "safetensors", "onnx"}

(* parse_safetensors_header: header_len is neither zero nor above the cap *)
HeaderLengthOk(h) == h.n >= 8 /\ h.high = 0 /\ h.low \in 1..MaxHeader
=============================================================================
