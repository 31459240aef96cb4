-------------------------- MODULE HeaderReaderProofs --------------------------
(***************************************************************************)
(* Proofs about FormatDetection and HeaderReader, for files of every       *)
(* length and content and for every value of the caps.                     *)
(***************************************************************************)
EXTENDS HeaderReader, TLAPS

USE DEF Final

(* The widths of the numeric types. *)
LEMMA WidthType == \A t \in Nat : Width(t) \in {0, 1, 2, 4, 8}
  BY DEF Width

LEMMA PayloadType ==
    ASSUME NEW t \in Nat, NEW c \in Nat
    PROVE  c * Width(t) \in Nat
  <1>1. \/ Width(t) = 0 \/ Width(t) = 1 \/ Width(t) = 2 \/ Width(t) = 4 \/ Width(t) = 8
    BY WidthType
  <1>2. QED
    BY <1>1

(* No length of a SafeTensors header reads as one of the magics. *)
LEMMA MagicsBeyond ==
    MaxHeader \in Nat /\ MaxHeader < GgufMagic /\ MaxHeader < ZipMagic
  BY SMT DEF MaxHeader, GgufMagic, ZipMagic

(* The tests of detect_safe_format on any first bytes: SafeTensors is only *)
(* reported for a length the parser takes, and reported for every such     *)
(* file that does not start like a pickle.                                 *)
LEMMA DetectorFacts ==
    ASSUME NEW h \in FirstBytes
    PROVE  /\ detect_safe_format(h) \in Verdict
           /\ detect_safe_format(h) = "safetensors" => HeaderLengthOk(h)
           /\ IsSafeTensors(h) /\ ~IsPickle(h) => detect_safe_format(h) = "safetensors"
  <1>1. IsSafeTensors(h) => ~IsGguf(h) /\ ~IsZip(h) /\ ~(h.n < 4) /\ HeaderLengthOk(h)
    <2>1. h.n \in 0..16 /\ h.low \in Nat
      BY DEF FirstBytes
    <2>2. QED
      BY <2>1, MagicsBeyond DEF IsSafeTensors, IsGguf, IsZip, HeaderLengthOk
  <1>2. detect_safe_format(h) \in Verdict
    BY DEF detect_safe_format, Verdict
  <1>3. detect_safe_format(h) = "safetensors" => IsSafeTensors(h)
    BY DEF detect_safe_format
  <1>4. IsSafeTensors(h) /\ ~IsPickle(h) => detect_safe_format(h) = "safetensors"
    BY <1>1 DEF detect_safe_format
  <1>5. QED
    BY <1>1, <1>2, <1>3, <1>4
-----------------------------------------------------------------------------
LEMMA HeaderInitInv == HeaderInit => HeaderTypeOK /\ HeaderInv
  <1> SUFFICES ASSUME HeaderInit PROVE HeaderTypeOK /\ HeaderInv
    OBVIOUS
  <1>1. head \in FirstBytes /\ len \in Nat
    BY ReaderAssumption DEF HeaderInit
  <1>2. stack = <<>> /\ stack \in Seq(Frame) /\ Len(stack) = 0
    BY DEF HeaderInit
  <1>3. HeaderTypeOK
    BY <1>1, <1>2 DEF HeaderInit, HeaderTypeOK
  <1>4. HeaderInv
    BY <1>1, <1>2 DEF HeaderInit, HeaderInv, FramesWithin, InStep, InsideOrSought,
                      DetectorAgrees
  <1>5. QED
    BY <1>3, <1>4

(* The end of the parse: nothing but the phase changes. *)
LEMMA FailKeepsInv ==
    ASSUME HeaderTypeOK, HeaderInv, Fail
    PROVE  HeaderTypeOK' /\ HeaderInv'
  BY DEF Fail, HeaderTypeOK, HeaderInv, FramesWithin, InStep, InsideOrSought,
         DetectorAgrees, fileVars, parseVars, MaxIter

(* The frames that ValueDone and CloseArray leave. *)
LEMMA BumpType ==
    ASSUME NEW s \in Seq(Frame), s # <<>>
    PROVE  LET t == [s EXCEPT ![Len(s)].skipped = @ + 1] IN
           /\ t \in Seq(Frame)
           /\ Len(t) = Len(s)
           /\ \A i \in 1..Len(s) : i # Len(s) => t[i] = s[i]
           /\ t[Len(s)].count = s[Len(s)].count
           /\ t[Len(s)].skipped = s[Len(s)].skipped + 1
  <1> DEFINE t == [s EXCEPT ![Len(s)].skipped = @ + 1]
             f == s[Len(s)]
             g == [f EXCEPT !.skipped = @ + 1]
  <1>0. Len(s) \in Nat /\ Len(s) > 0 /\ DOMAIN s = 1..Len(s)
    OBVIOUS
  <1>1. f \in Frame
    BY <1>0
  <1>2. g \in Frame /\ g.count = f.count /\ g.skipped = f.skipped + 1
    BY <1>1 DEF Frame
  <1>3. t = [s EXCEPT ![Len(s)] = g]
    BY <1>0
  <1>4. t = [i \in 1..Len(s) |-> IF i = Len(s) THEN g ELSE s[i]]
    BY <1>0, <1>3
  <1>5. \A i \in 1..Len(s) : t[i] \in Frame
    BY <1>0, <1>2, <1>4
  <1>6. t \in Seq(Frame) /\ Len(t) = Len(s)
    BY <1>0, <1>4, <1>5
  <1>7. QED
    BY <1>0, <1>2, <1>4, <1>6

(* What a frame's numbers are. *)
LEMMA FrameFacts ==
    ASSUME NEW f \in Frame
    PROVE  MaxIter(f) \in Nat /\ MaxIter(f) <= f.count /\ f.skipped \in Nat /\ f.count \in Nat
  BY ReaderAssumption DEF MaxIter, Frame

(* read_exact leaves the reader within the file. *)
LEMMA ReadExactType ==
    ASSUME HeaderTypeOK, NEW n \in Nat, ReadExact(n)
    PROVE  pos' \in Nat /\ pos' <= len /\ sought' \in BOOLEAN
  <1>1. pos' \in Nat /\ pos' <= len
    BY DEF HeaderTypeOK, ReadExact, Fits
  <1>2. sought' = FALSE
    BY DEF ReadExact
  <1>3. QED
    BY <1>1, <1>2

(* A value has been passed, and the arrays in "open" all had an element left. *)
LEMMA ValueDoneKeepsInv ==
    ASSUME HeaderTypeOK, HeaderInv, NEW open \in Seq(Frame), kvs >= 1, ValueDone(open),
           \A i \in 1..Len(open) : open[i].skipped < MaxIter(open[i]),
           UNCHANGED <<fileVars, verdict, vtype>>,
           pos' \in Nat, lost' = 0, sought' \in BOOLEAN, pos' <= len \/ sought'
    PROVE  HeaderTypeOK' /\ HeaderInv'
  <1> USE DEF fileVars
  <1>1. CASE open = <<>>
    <2>1. kvs' = kvs - 1 /\ stack' = <<>> /\ phase' \in {"ok", "key"}
          /\ (phase' = "key" => kvs' >= 1) /\ kvs' \in Nat
      BY <1>1 DEF ValueDone, NextKey, HeaderTypeOK
    <2>2. stack' \in Seq(Frame) /\ Len(stack') = 0
      BY <2>1
    <2>3. HeaderTypeOK'
      BY <2>1, <2>2 DEF HeaderTypeOK
    <2>4. HeaderInv'
      BY <2>1, <2>2 DEF HeaderInv, HeaderTypeOK, FramesWithin, InStep, InsideOrSought,
                        DetectorAgrees
    <2>5. QED
      BY <2>3, <2>4
  <1>2. CASE open # <<>>
    <2>1. kvs' = kvs /\ phase' = "element"
          /\ stack' = [open EXCEPT ![Len(open)].skipped = @ + 1]
      BY <1>2 DEF ValueDone
    <2>2. /\ stack' \in Seq(Frame)
          /\ Len(stack') = Len(open)
          /\ \A i \in 1..Len(open) : i # Len(open) => stack'[i] = open[i]
          /\ stack'[Len(open)].count = open[Len(open)].count
          /\ stack'[Len(open)].skipped = open[Len(open)].skipped + 1
      BY <1>2, <2>1, BumpType
    <2>3. Len(open) \in Nat /\ Len(open) > 0 /\ stack' # <<>>
      BY <1>2, <2>2
    <2>4. \A i \in 1..Len(open) : open[i] \in Frame
      OBVIOUS
    <2>5. stack'[Len(open)].skipped <= MaxIter(stack'[Len(open)])
      BY <2>2, <2>3, <2>4, ReaderAssumption DEF MaxIter, Frame
    <2>6. \A i \in 1..Len(open) : i # Len(open) =>
             stack'[i].skipped < MaxIter(stack'[i]) /\ stack'[i].skipped <= MaxIter(stack'[i])
      BY <2>2, <2>4, FrameFacts
    <2>7. FramesWithin'
      <3>1. \A i \in 1..Len(stack') :
               /\ stack'[i].skipped <= MaxIter(stack'[i])
               /\ i < Len(stack') => stack'[i].skipped < MaxIter(stack'[i])
        BY <2>2, <2>3, <2>5, <2>6
      <3>2. QED
        BY <2>1, <2>3, <3>1 DEF FramesWithin, MaxIter
    <2>8. HeaderTypeOK'
      BY <2>1, <2>2 DEF HeaderTypeOK
    <2>9. QED
      BY <2>1, <2>7, <2>8 DEF HeaderInv, InStep, InsideOrSought, DetectorAgrees
  <1>3. QED
    BY <1>1, <1>2

(* The frames of the arrays that are open while a value is read. *)
LEMMA OpenFrames ==
    ASSUME HeaderTypeOK, FramesWithin, phase = "value"
    PROVE  /\ stack \in Seq(Frame)
           /\ \A i \in 1..Len(stack) : stack[i].skipped < MaxIter(stack[i])
  BY DEF HeaderTypeOK, FramesWithin
-----------------------------------------------------------------------------
(* Every step keeps the types and the invariant. *)
LEMMA HeaderStepInv ==
    ASSUME HeaderTypeOK, HeaderInv, HeaderNext
    PROVE  HeaderTypeOK' /\ HeaderInv'
  <1> USE DEF fileVars, parseVars
  <1>1. CASE Detect
    <2>1. /\ verdict' \in Verdict
          /\ verdict' = "safetensors" => HeaderLengthOk(head)
          /\ IsSafeTensors(head) /\ ~IsPickle(head) => verdict' = "safetensors"
      BY <1>1, DetectorFacts DEF Detect, HeaderTypeOK
    <2>2. phase' \in {"json", "refused", "magic"} /\ stack = <<>>
      BY <1>1 DEF Detect, HeaderInv, FramesWithin
    <2>3. HeaderTypeOK'
      BY <1>1, <2>1, <2>2 DEF Detect, HeaderTypeOK
    <2>4. FramesWithin'
      BY <1>1, <2>2 DEF Detect, HeaderInv, FramesWithin
    <2>5. QED
      BY <1>1, <2>1, <2>2, <2>3, <2>4 DEF Detect, HeaderInv, InStep, InsideOrSought, DetectorAgrees
  <1>2. ASSUME NEW b \in BOOLEAN, ParseJson(b) PROVE HeaderTypeOK' /\ HeaderInv'
    <2>1. phase' \in {"ok", "failed"} /\ stack = <<>>
      BY <1>2 DEF ParseJson, HeaderInv, FramesWithin
    <2>2. FramesWithin'
      BY <1>2, <2>1 DEF ParseJson, HeaderInv, FramesWithin
    <2>3. HeaderTypeOK'
      BY <1>2, <2>1 DEF ParseJson, HeaderTypeOK
    <2>4. QED
      BY <1>2, <2>1, <2>2, <2>3 DEF ParseJson, HeaderInv, InStep, InsideOrSought, DetectorAgrees
  <1>3. CASE Fail
    BY <1>3, FailKeepsInv
  <1>4. CASE ReadMagic
    <2>1. HeaderTypeOK'
      BY <1>4, ReadExactType DEF ReadMagic, HeaderTypeOK
    <2>2. QED
      BY <1>4, <2>1 DEF ReadMagic, ReadExact, Fits, HeaderTypeOK, HeaderInv, FramesWithin,
                        InStep, InsideOrSought, DetectorAgrees, MaxIter
  <1>5. CASE ReadVersion
    <2>1. HeaderTypeOK'
      BY <1>5, ReadExactType DEF ReadVersion, HeaderTypeOK
    <2>2. QED
      BY <1>5, <2>1 DEF ReadVersion, ReadExact, Fits, HeaderTypeOK, HeaderInv, FramesWithin,
                        InStep, InsideOrSought, DetectorAgrees, MaxIter
  <1>6. ASSUME NEW c \in Counts, ReadCounts(c) PROVE HeaderTypeOK' /\ HeaderInv'
    <2>1. c \in Nat /\ stack = <<>> /\ phase' \in {"ok", "key"} /\ (phase' = "key" => c >= 1)
      BY <1>6, ReaderAssumption DEF ReadCounts, NextKey, HeaderInv, FramesWithin
    <2>2. HeaderTypeOK'
      BY <1>6, <2>1, ReadExactType DEF ReadCounts, HeaderTypeOK
    <2>3. FramesWithin'
      BY <1>6, <2>1 DEF ReadCounts, HeaderInv, FramesWithin
    <2>4. QED
      BY <1>6, <2>1, <2>2, <2>3 DEF ReadCounts, ReadExact, Fits, HeaderTypeOK, HeaderInv, InStep,
                                   InsideOrSought, DetectorAgrees
  <1>7. ASSUME NEW l \in StringLens, ReadKey(l) PROVE HeaderTypeOK' /\ HeaderInv'
    <2>1. l \in Nat /\ stack = <<>>
      BY <1>7, ReaderAssumption DEF ReadKey, HeaderInv, FramesWithin
    <2>2. HeaderTypeOK'
      BY <1>7, <2>1, ReadExactType DEF ReadKey, HeaderTypeOK
    <2>3. FramesWithin'
      BY <1>7, <2>1 DEF ReadKey, HeaderInv, FramesWithin
    <2>4. QED
      BY <1>7, <2>1, <2>2, <2>3 DEF ReadKey, ReadExact, Fits, HeaderTypeOK, HeaderInv, InStep,
                                   InsideOrSought, DetectorAgrees
  <1>8. ASSUME NEW t \in Types, ReadType(t) PROVE HeaderTypeOK' /\ HeaderInv'
    <2>1. t \in Nat /\ stack = <<>>
      BY <1>8, ReaderAssumption DEF ReadType, HeaderInv, FramesWithin
    <2>2. HeaderTypeOK'
      BY <1>8, <2>1, ReadExactType DEF ReadType, HeaderTypeOK
    <2>3. FramesWithin'
      BY <1>8, <2>1 DEF ReadType, HeaderInv, FramesWithin
    <2>4. QED
      BY <1>8, <2>1, <2>2, <2>3 DEF ReadType, ReadExact, Fits, HeaderTypeOK, HeaderInv, InStep,
                                   InsideOrSought, DetectorAgrees
  <1>9. CASE ReadNumber
    <2>1. /\ kvs >= 1 /\ lost = 0 /\ phase = "value"
          /\ pos' \in Nat /\ pos' <= len /\ sought' \in BOOLEAN
      <3>1. Width(vtype) \in Nat
        BY WidthType DEF HeaderTypeOK
      <3>2. pos' \in Nat /\ pos' <= len /\ sought' \in BOOLEAN
        BY <1>9, <3>1, ReadExactType DEF ReadNumber
      <3>3. QED
        BY <1>9, <3>2 DEF ReadNumber, HeaderInv, FramesWithin, InStep
    <2>2. QED
      BY <1>9, <2>1, OpenFrames, ValueDoneKeepsInv DEF ReadNumber, HeaderInv
  <1>10. ASSUME NEW l \in StringLens, ReadString(l) PROVE HeaderTypeOK' /\ HeaderInv'
    <2>1. /\ kvs >= 1 /\ lost = 0 /\ phase = "value"
          /\ pos' \in Nat /\ pos' <= len /\ sought' \in BOOLEAN
      <3>1. 8 + l \in Nat
        BY ReaderAssumption
      <3>2. pos' \in Nat /\ pos' <= len /\ sought' \in BOOLEAN
        BY <1>10, <3>1, ReadExactType DEF ReadString
      <3>3. QED
        BY <1>10, <3>2 DEF ReadString, HeaderInv, FramesWithin, InStep
    <2>2. QED
      BY <1>10, <2>1, OpenFrames, ValueDoneKeepsInv DEF ReadString, HeaderInv
  <1>11. ASSUME NEW t \in Types, NEW c \in Counts, SeekArray(t, c)
         PROVE  HeaderTypeOK' /\ HeaderInv'
    <2> DEFINE w == c * Width(t)
    <2>1. t \in Nat /\ c \in Nat
      BY ReaderAssumption
    <2>2. w \in Nat
      BY <2>1, PayloadType
    <2>3. pos' = pos + 12 + w /\ lost' = lost + (w - (pos' - (pos + 12)))
      BY <1>11 DEF SeekArray, ArrayEnd
    <2>4. kvs >= 1 /\ lost = 0 /\ phase = "value" /\ pos \in Nat
      BY <1>11 DEF SeekArray, HeaderTypeOK, HeaderInv, FramesWithin, InStep
    <2> HIDE DEF w
    <2>5. pos' \in Nat /\ lost' = 0
      BY <2>2, <2>3, <2>4
    <2>6. QED
      BY <1>11, <2>4, <2>5, OpenFrames, ValueDoneKeepsInv DEF SeekArray, HeaderInv
  <1>12. ASSUME NEW t \in Types, NEW c \in Counts, OpenArray(t, c)
         PROVE  HeaderTypeOK' /\ HeaderInv'
    <2> DEFINE f == [item |-> t, count |-> c, skipped |-> 0]
    <2>1. f \in Frame /\ f.skipped <= MaxIter(f)
      BY ReaderAssumption DEF Frame, MaxIter
    <2>2. stack' = Append(stack, f)
      BY <1>12 DEF OpenArray
    <2>3. /\ stack \in Seq(Frame)
          /\ \A i \in 1..Len(stack) : stack[i].skipped < MaxIter(stack[i])
      BY <1>12, OpenFrames DEF OpenArray, HeaderInv
    <2> HIDE DEF f
    <2>4. /\ stack' \in Seq(Frame) /\ stack' # <<>>
          /\ Len(stack') = Len(stack) + 1
          /\ stack'[Len(stack) + 1] = f
          /\ \A i \in 1..Len(stack) : stack'[i] = stack[i]
      BY <2>1, <2>2, <2>3
    <2>5. \A i \in 1..Len(stack) : stack[i] \in Frame
      BY <2>3
    <2>6. \A i \in 1..Len(stack') :
             /\ stack'[i].skipped <= MaxIter(stack'[i])
             /\ i < Len(stack') => stack'[i].skipped < MaxIter(stack'[i])
      <3>1. ASSUME NEW i \in 1..Len(stack), i # Len(stack) + 1
            PROVE  /\ stack'[i].skipped <= MaxIter(stack'[i])
                   /\ stack'[i].skipped < MaxIter(stack'[i])
        <4>1. stack'[i] = stack[i] /\ stack[i] \in Frame
          BY <2>4, <2>5
        <4>2. stack[i].skipped < MaxIter(stack[i])
          BY <2>3
        <4>3. stack[i].skipped \in Nat /\ MaxIter(stack[i]) \in Nat
          BY <4>1, FrameFacts
        <4>4. QED
          BY <4>1, <4>2, <4>3
      <3>2. stack'[Len(stack) + 1].skipped <= MaxIter(stack'[Len(stack) + 1])
        BY <2>1, <2>4
      <3>3. Len(stack) \in Nat
        BY <2>3
      <3>4. QED
        BY <2>4, <3>1, <3>2, <3>3
    <2>7. HeaderTypeOK'
      BY <1>12, <2>4, ReadExactType DEF OpenArray, HeaderTypeOK
    <2>8. FramesWithin'
      BY <1>12, <2>4, <2>6 DEF OpenArray, HeaderInv, FramesWithin, MaxIter
    <2>9. QED
      BY <1>12, <2>7, <2>8 DEF OpenArray, ReadExact, Fits, HeaderTypeOK, HeaderInv, InStep,
                               InsideOrSought, DetectorAgrees
  <1>13. CASE NextElement
    <2>1. /\ stack \in Seq(Frame) /\ stack # <<>>
          /\ Len(stack) \in 1..Len(stack) /\ stack[Len(stack)] \in Frame
      BY <1>13 DEF NextElement, HeaderTypeOK, HeaderInv, FramesWithin
    <2>2. HeaderTypeOK'
      BY <1>13, <2>1 DEF NextElement, Innermost, HeaderTypeOK, Frame
    <2>3. FramesWithin'
      BY <1>13, <2>1 DEF NextElement, Innermost, HeaderInv, FramesWithin, MaxIter
    <2>4. QED
      BY <1>13, <2>2, <2>3 DEF NextElement, HeaderInv, InStep, InsideOrSought, DetectorAgrees
  <1>14. CASE CloseArray
    <2> DEFINE n == Len(stack)
               open == SubSeq(stack, 1, n - 1)
    <2>1. /\ stack \in Seq(Frame) /\ n \in Nat /\ n >= 1 /\ stack[n] \in Frame
          /\ kvs >= 1 /\ lost = 0
      BY <1>14 DEF CloseArray, HeaderTypeOK, HeaderInv, FramesWithin, InStep
    <2>2. stack[n].skipped <= MaxIter(stack[n]) /\ stack[n].count <= stack[n].skipped
      BY <1>14, <2>1 DEF CloseArray, Innermost, HeaderInv, FramesWithin
    <2>3. stack[n].count = stack[n].skipped
      BY <2>1, <2>2, ReaderAssumption DEF MaxIter, Frame
    <2>4. lost' = 0
      BY <1>14, <2>1, <2>3 DEF CloseArray, Innermost, Frame
    <2>5. /\ open \in Seq(Frame) /\ Len(open) = n - 1
          /\ \A i \in 1..Len(open) : open[i] = stack[i] /\ i < n /\ i \in 1..n
      <3>1. open = [i \in 1..(n - 1) |-> stack[i]]
        BY <2>1
      <3>2. \A i \in 1..(n - 1) : stack[i] \in Frame
        BY <2>1
      <3>3. open \in Seq(Frame) /\ Len(open) = n - 1
        <4>1. n - 1 \in Nat
          BY <2>1
        <4> HIDE DEF open, n
        <4>2. QED
          BY <3>1, <3>2, <4>1
      <3>4. QED
        BY <2>1, <3>1, <3>3
    <2>6. \A i \in 1..Len(open) : open[i].skipped < MaxIter(open[i])
      BY <2>1, <2>5 DEF HeaderInv, FramesWithin
    <2>7. pos' \in Nat /\ sought' \in BOOLEAN /\ (pos' <= len \/ sought')
      BY <1>14 DEF CloseArray, HeaderTypeOK, HeaderInv, InsideOrSought
    <2>8. QED
      BY <1>14, <2>1, <2>4, <2>5, <2>6, <2>7, ValueDoneKeepsInv DEF CloseArray
  <1>15. QED
    BY <1>1, <1>2, <1>3, <1>4, <1>5, <1>6, <1>7, <1>8, <1>9, <1>10, <1>11, <1>12, <1>13, <1>14
       DEF HeaderNext, BadMagic, BadVersion, BadCounts, BadString, BadType, BadNumber,
           UnknownType, BadArray, ArrayTooLong
-----------------------------------------------------------------------------
(* The types and the invariant along every behaviour. *)
LEMMA HeaderAlways == HeaderSpec => [](HeaderTypeOK /\ HeaderInv)
  <1>1. HeaderInit => HeaderTypeOK /\ HeaderInv
    BY HeaderInitInv
  <1>2. (HeaderTypeOK /\ HeaderInv) /\ [HeaderNext]_headerVars => (HeaderTypeOK /\ HeaderInv)'
    <2> SUFFICES ASSUME HeaderTypeOK, HeaderInv, [HeaderNext]_headerVars
                 PROVE  (HeaderTypeOK /\ HeaderInv)'
      OBVIOUS
    <2>1. CASE HeaderNext
      BY <2>1, HeaderStepInv
    <2>2. CASE UNCHANGED headerVars
      BY <2>2 DEF headerVars, fileVars, parseVars, HeaderTypeOK, HeaderInv, FramesWithin,
                  InStep, InsideOrSought, DetectorAgrees, MaxIter
    <2>3. QED
      BY <2>1, <2>2
  <1>3. QED
    BY <1>1, <1>2, PTL DEF HeaderSpec

(* Type correctness of the reader. *)
THEOREM HeaderTypeCorrect == HeaderSpec => []HeaderTypeOK
  BY HeaderAlways, PTL

(* InStep for files of every length and content and for every value of the *)
(* caps: parse_gguf_header passes exactly the bytes and elements that its  *)
(* arrays declare, or fails.                                               *)
THEOREM ReaderStaysInStep == HeaderSpec => []InStep
  <1>1. HeaderInv => InStep
    BY DEF HeaderInv
  <1>2. QED
    BY <1>1, HeaderAlways, PTL

(* AcceptedInside: parse_gguf_header returns metadata only from within the *)
(* file, except where it ends with a seek over an array of numbers.        *)
THEOREM MetadataFromInside == HeaderSpec => []AcceptedInside
  <1>1. HeaderInv => AcceptedInside
    BY DEF HeaderInv, InsideOrSought, AcceptedInside
  <1>2. QED
    BY <1>1, HeaderAlways, PTL

(* DetectorAgrees for all first bytes: detect_safe_format and the          *)
(* SafeTensors parser agree on the length, and a file that starts like     *)
(* SafeTensors is taken for it unless it starts like a pickle, too.        *)
THEOREM DetectorAgreesWithParser == HeaderSpec => []DetectorAgrees
  <1>1. HeaderInv => DetectorAgrees
    BY DEF HeaderInv
  <1>2. QED
    BY <1>1, HeaderAlways, PTL
=============================================================================
