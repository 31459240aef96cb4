---------------------------- MODULE HeaderReader ----------------------------
(***************************************************************************)
(* How the Inspect and Register handlers read the header of a blob: detect *)
(* the format, go back to the first byte and parse, with                   *)
(* parse_safetensors_header (safetensors.rs) or, in every other case, with *)
(* parse_gguf_header (gguf.rs).                                            *)
(*                                                                         *)
(* The GGUF parser never goes back, so a file is modelled by its length,   *)
(* its first 16 bytes and an arbitrary value for every later read that     *)
(* lies within the length.  Arrays of variable-size elements nest; the     *)
(* recursion of skip_or_read_value is a stack of frames.  What is read is  *)
(* not kept: keys and values end up in an attribute map nobody computes    *)
(* with.                                                                   *)
(***************************************************************************)
EXTENDS FormatDetection, Sequences

CONSTANTS
    Heads,        \* first bytes of the files
    Lengths,      \* lengths of the files
    Counts,       \* 64-bit counts the files declare
    StringLens,   \* string lengths the files declare
    Types,        \* value types the files declare
    MaxKv,        \* 4096
    MaxString,    \* 1024
    MaxSkip,      \* 64 * 1024, elements skipped one by one
    MaxU64,       \* 2^64 - 1
    MaxSeek       \* the largest offset lseek(2) takes

ASSUME ReaderAssumption ==
    /\ Heads \subseteq FirstBytes
    /\ Lengths \subseteq Nat
    /\ Counts \subseteq 0..MaxU64
    /\ StringLens \subseteq 0..MaxU64
    /\ Types \subseteq Nat
    /\ MaxKv \in Nat
    /\ MaxString \in Nat
    /\ MaxSkip \in Nat
    /\ MaxU64 \in Nat
    /\ MaxSeek \in 0..MaxU64

VARIABLES
    caller,    \* "inspect" or "register"
    head,      \* the first bytes of the file
    len,       \* its length
    phase,     \* what is done next, or how it ended
    verdict,   \* what detect_safe_format said
    pos,       \* position of the reader
    kvs,       \* key-value pairs still to be read
    vtype,     \* type of the value to be read next
    stack,     \* arrays that are being skipped, the innermost last
    lost,      \* history: declared bytes and elements that were passed over
    sought     \* history: the last move of the reader was a seek

fileVars == <<caller, head, len>>
parseVars == <<pos, kvs, vtype, stack, lost, sought>>
headerVars == <<fileVars, phase, verdict, parseVars>>

(* metadata in the reply, "Digest: ..." instead of it, SecurityRejection *)
Final == {"ok", "failed", "refused"}

Frame == [item : Nat, count : 0..MaxU64, skipped : Nat]

HeaderTypeOK ==
    /\ caller \in {"inspect", "register"}
    /\ head \in FirstBytes
    /\ len \in Nat
    /\ phase \in {"detect", "json", "magic", "version", "counts", "key", "type",
                  "value", "element"} \cup Final
    /\ verdict \in Verdict \cup {"none"}
    /\ pos \in Nat
    /\ kvs \in Nat
    /\ vtype \in Nat
    /\ stack \in Seq(Frame)
    /\ lost \in Nat
    /\ sought \in BOOLEAN

HeaderInit ==
    /\ caller \in {"inspect", "register"}
    /\ len \in Lengths
    /\ head \in {h \in Heads : h.n = IF len < 16 THEN len ELSE 16}
    /\ phase = "detect"
    /\ verdict = "none"
    /\ pos = 0
    /\ kvs = 0
    /\ vtype = 0
    /\ stack = <<>>
    /\ lost = 0
    /\ sought = FALSE
-----------------------------------------------------------------------------
(* detect_safe_format, and which parser its answer selects.  Register ends *)
(* with an error for a banned format, Inspect goes on.                     *)
Detect ==
    /\ phase = "detect"
    /\ verdict' = detect_safe_format(head)
    /\ phase' = IF verdict' = "safetensors" THEN "json"
                ELSE IF verdict' = "rejected" /\ caller = "register" THEN "refused"
                ELSE "magic"
    /\ UNCHANGED <<fileVars, parseVars>>

(* parse_safetensors_header: length, body, and the body is a JSON object *)
ParseJson(isObject) ==
    /\ phase = "json"
    /\ phase' = IF HeaderLengthOk(head) /\ 8 + head.low <= len /\ isObject
                THEN "ok" ELSE "failed"
    /\ UNCHANGED <<fileVars, verdict, parseVars>>
-----------------------------------------------------------------------------
Fits(n) == pos + n <= len

(* read_exact: the bytes are there, and the reader moves past them *)
ReadExact(n) == Fits(n) /\ pos' = pos + n /\ sought' = FALSE

(* item_byte_size and the arms of skip_or_read_value that read a number;   *)
(* 0 for strings (8), arrays (9) and unknown types                         *)
Width(t) == CASE t \in {0, 1, 7}    -> 1
              [] t \in {2, 3}       -> 2
              [] t \in {4, 5, 6}    -> 4
              [] t \in {10, 11, 12} -> 8
              [] OTHER              -> 0

Fail == phase' = "failed" /\ UNCHANGED <<fileVars, verdict, parseVars>>

ReadMagic ==
    /\ phase = "magic"
    /\ IsGguf(head)
    /\ ReadExact(4)
    /\ phase' = "version"
    /\ UNCHANGED <<fileVars, verdict, kvs, vtype, stack, lost>>

BadMagic == phase = "magic" /\ ~(IsGguf(head) /\ Fits(4)) /\ Fail

ReadVersion ==
    /\ phase = "version"
    /\ ReadExact(4)
    /\ phase' = "counts"
    /\ UNCHANGED <<fileVars, verdict, kvs, vtype, stack, lost>>

(* truncated, or a version outside 2..3 *)
BadVersion == phase = "version" /\ Fail

NextKey(left) == IF left = 0 THEN "ok" ELSE "key"

(* tensor_count and metadata_kv_count *)
ReadCounts(c) ==
    /\ phase = "counts"
    /\ c <= MaxKv
    /\ ReadExact(16)
    /\ kvs' = c
    /\ phase' = NextKey(c)
    /\ UNCHANGED <<fileVars, verdict, vtype, stack, lost>>

BadCounts(c) == phase = "counts" /\ ~(Fits(16) /\ c <= MaxKv) /\ Fail

ReadKey(l) ==
    /\ phase = "key"
    /\ l <= MaxString
    /\ ReadExact(8 + l)
    /\ phase' = "type"
    /\ UNCHANGED <<fileVars, verdict, kvs, vtype, stack, lost>>

(* too long, truncated, or not UTF-8; the value of a string likewise *)
BadString ==
    /\ phase = "key" \/ (phase = "value" /\ vtype = 8)
    /\ Fail

ReadType(t) ==
    /\ phase = "type"
    /\ ReadExact(4)
    /\ vtype' = t
    /\ phase' = "value"
    /\ UNCHANGED <<fileVars, verdict, kvs, stack, lost>>

BadType == phase = "type" /\ ~Fits(4) /\ Fail
-----------------------------------------------------------------------------
(* A value has been passed: with arrays open it was an element of the      *)
(* innermost one, otherwise the pair is complete.                          *)
ValueDone(open) ==
    IF open = <<>>
    THEN /\ kvs' = kvs - 1
         /\ phase' = NextKey(kvs - 1)
         /\ stack' = open
    ELSE /\ kvs' = kvs
         /\ phase' = "element"
         /\ stack' = [open EXCEPT ![Len(open)].skipped = @ + 1]

(* Variant: numbers are passed over by seeking, too. *)
ReadNumber_Seeks ==
    /\ phase = "value"
    /\ Width(vtype) > 0
    /\ pos' = pos + Width(vtype)
    /\ sought' = FALSE
    /\ ValueDone(stack)
    /\ UNCHANGED <<fileVars, verdict, vtype, lost>>

ReadNumber ==
    /\ phase = "value"
    /\ Width(vtype) > 0
    /\ ReadExact(Width(vtype))
    /\ ValueDone(stack)
    /\ UNCHANGED <<fileVars, verdict, vtype, lost>>

BadNumber == phase = "value" /\ Width(vtype) > 0 /\ ~Fits(Width(vtype)) /\ Fail

ReadString(l) ==
    /\ phase = "value"
    /\ vtype = 8
    /\ l <= MaxString
    /\ ReadExact(8 + l)
    /\ ValueDone(stack)
    /\ UNCHANGED <<fileVars, verdict, vtype, lost>>

UnknownType == phase = "value" /\ vtype \notin 0..12 /\ Fail

(* An array of numbers: checked_mul, checked_add, and one seek, which may  *)
(* lead past the end of the file.                                          *)
ArrayEnd(item, count) == pos + 12 + count * Width(item)

(* Variant: the product wraps around. *)
SeekArray_Wraps(item, count) ==
    LET payload == (count * Width(item)) % (MaxU64 + 1) IN
    /\ phase = "value" /\ vtype = 9 /\ Width(item) > 0
    /\ Fits(12)
    /\ pos + 12 + payload <= MaxSeek
    /\ pos' = pos + 12 + payload
    /\ sought' = TRUE
    /\ lost' = lost + (count * Width(item) - payload)
    /\ ValueDone(stack)
    /\ UNCHANGED <<fileVars, verdict, vtype>>

SeekArray(item, count) ==
    /\ phase = "value" /\ vtype = 9 /\ Width(item) > 0
    /\ Fits(12)
    /\ count * Width(item) <= MaxU64
    /\ ArrayEnd(item, count) <= MaxSeek
    /\ pos' = ArrayEnd(item, count)
    /\ sought' = TRUE
    /\ lost' = lost + (count * Width(item) - (pos' - (pos + 12)))
    /\ ValueDone(stack)
    /\ UNCHANGED <<fileVars, verdict, vtype>>

(* every other array is gone through element by element; the code recurses *)
(* into an array of arrays without a limit to the depth (gguf.rs 162), and *)
(* what its own stack holds is not modelled                                *)
OpenArray(item, count) ==
    /\ phase = "value" /\ vtype = 9 /\ Width(item) = 0
    /\ ReadExact(12)
    /\ stack' = Append(stack, [item |-> item, count |-> count, skipped |-> 0])
    /\ phase' = "element"
    /\ UNCHANGED <<fileVars, verdict, kvs, vtype, lost>>

BadArray(item, count) ==
    /\ phase = "value" /\ vtype = 9
    /\ \/ ~Fits(12)
       \/ Width(item) > 0 /\ count * Width(item) > MaxU64
       \/ Width(item) > 0 /\ ArrayEnd(item, count) > MaxSeek
    /\ Fail

Innermost == stack[Len(stack)]
MaxIter(f) == IF f.count < MaxSkip THEN f.count ELSE MaxSkip

NextElement ==
    /\ phase = "element"
    /\ Innermost.skipped < MaxIter(Innermost)
    /\ vtype' = Innermost.item
    /\ phase' = "value"
    /\ UNCHANGED <<fileVars, verdict, pos, kvs, stack, lost, sought>>

(* Variant: the first MaxSkip elements will do. *)
CloseArray_Capped ==
    /\ phase = "element"
    /\ Innermost.skipped >= MaxIter(Innermost)
    /\ lost' = lost + (Innermost.count - Innermost.skipped)
    /\ ValueDone(SubSeq(stack, 1, Len(stack) - 1))
    /\ UNCHANGED <<fileVars, verdict, pos, vtype, sought>>

CloseArray ==
    /\ phase = "element"
    /\ Innermost.skipped >= MaxIter(Innermost)
    /\ Innermost.count <= Innermost.skipped
    /\ lost' = lost + (Innermost.count - Innermost.skipped)
    /\ ValueDone(SubSeq(stack, 1, Len(stack) - 1))
    /\ UNCHANGED <<fileVars, verdict, pos, vtype, sought>>

(* "GGUF array exceeds safety skip cap; refusing to skip" *)
ArrayTooLong ==
    /\ phase = "element"
    /\ Innermost.skipped >= MaxIter(Innermost)
    /\ Innermost.count > Innermost.skipped
    /\ Fail

HeaderNext ==
    \/ Detect
    \/ \E b \in BOOLEAN : ParseJson(b)
    \/ ReadMagic \/ BadMagic
    \/ ReadVersion \/ BadVersion
    \/ \E c \in Counts : ReadCounts(c) \/ BadCounts(c)
    \/ \E l \in StringLens : ReadKey(l) \/ ReadString(l)
    \/ BadString
    \/ \E t \in Types : ReadType(t)
    \/ BadType
    \/ ReadNumber \/ BadNumber
    \/ UnknownType
    \/ \E t \in Types, c \in Counts : SeekArray(t, c) \/ OpenArray(t, c) \/ BadArray(t, c)
    \/ NextElement \/ CloseArray \/ ArrayTooLong

HeaderSpec == HeaderInit /\ [][HeaderNext]_headerVars
-----------------------------------------------------------------------------
(* The reader never goes on from inside an array ("leaving the reader      *)
(* positioned mid-array so the next KV pair read garbage", gguf.rs):       *)
(* whatever counts and element types a file declares, nested ones, huge    *)
(* ones and those above the skip cap included, the parser has passed       *)
(* exactly the declared bytes and elements, or has failed.                 *)
InStep == phase # "failed" => lost = 0

(* "Truncation or unknown types must surface as an error rather than       *)
(* silently returning partial metadata" (gguf.rs): metadata is returned    *)
(* only for a header that lies within the file, except that the payload of *)
(* an array of numbers may be missing when nothing is read after it.       *)
AcceptedInside == phase = "ok" /\ ~sought => pos <= len

(* The detector and the SafeTensors parser agree on the length of a        *)
(* header, and a file that starts like SafeTensors is taken for it, unless *)
(* the two low bytes of its length are those of a pickle.                  *)
DetectorAgrees ==
    verdict # "none" =>
        /\ verdict = "safetensors" => HeaderLengthOk(head)
        /\ IsSafeTensors(head) /\ ~IsPickle(head) => verdict = "safetensors"

(* Why AcceptedInside holds: only a seek leads past the end, and the next  *)
(* read, if there is one, fails.                                           *)
InsideOrSought == pos <= len \/ sought

(* Why InStep holds: an array that is open has elements left for the value *)
(* that is being read, and no more have been skipped than it declares.     *)
FramesWithin ==
    /\ phase \in {"key", "type", "value", "element"} => kvs >= 1
    /\ phase \notin {"value", "element"} \cup Final => stack = <<>>
    /\ phase = "element" => stack # <<>>
    /\ \A i \in 1..Len(stack) :
          /\ stack[i].skipped <= MaxIter(stack[i])
          /\ i < Len(stack) \/ phase = "value" => stack[i].skipped < MaxIter(stack[i])

HeaderInv == FramesWithin /\ InStep /\ InsideOrSought /\ DetectorAgrees
=============================================================================
