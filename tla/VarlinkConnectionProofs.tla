----------------------- MODULE VarlinkConnectionProofs -----------------------
(***************************************************************************)
(* Proofs about VarlinkConnection, for every cap, chunk size and stream.   *)
(***************************************************************************)
EXTENDS VarlinkConnection, TLAPS

USE ConnectionAssumption DEF GoTo, Closed, peerVars

(* The peer and the shutdown signal leave the server's half alone. *)
LEMMA PeerType ==
    ASSUME ConnTypeOK,
           \/ \E n \in 1 .. SendBound, terminated \in BOOLEAN : PeerSend(n, terminated)
           \/ PeerRead \/ PeerClose \/ Shutdown
    PROVE  ConnTypeOK'
  <1>1. ASSUME NEW n \in 1 .. SendBound, NEW terminated \in BOOLEAN,
               PeerSend(n, terminated)
        PROVE  ConnTypeOK'
    <2>1. /\ sent' = sent + n
          /\ UNCHANGED <<gone, eager, received, consumed, replied, unread, spc, shutdown>>
      BY <1>1 DEF PeerSend
    <2>2. nuls' \in {nuls, nuls \cup {sent + n}}
      BY <1>1 DEF PeerSend
    <2>3. nuls' \subseteq 1 .. sent' /\ nuls \subseteq nuls'
      BY <2>1, <2>2 DEF ConnTypeOK
    <2>4. sent' \in Nat /\ received' \in 0 .. sent' /\ consumed' \in 0 .. received'
      BY <2>1 DEF ConnTypeOK
    <2>5. QED
      BY <2>1, <2>3, <2>4 DEF ConnTypeOK
  <1>2. CASE PeerRead
    BY <1>2 DEF PeerRead, ConnTypeOK
  <1>3. CASE PeerClose
    BY <1>3 DEF PeerClose, ConnTypeOK
  <1>4. CASE Shutdown
    BY <1>4 DEF Shutdown, ConnTypeOK
  <1>5. QED
    BY <1>1, <1>2, <1>3, <1>4

(* The steps of the server that only move it on. *)
Moves ==
    \/ SelectShutdown \/ SelectRead \/ WakeForShutdown \/ ReadEof \/ ReadFails
    \/ RefuseBuffer \/ AcceptBuffer \/ WriteFails \/ ScanDone

LEMMA MovesOn ==
    ASSUME Moves
    PROVE  /\ UNCHANGED <<sent, nuls, gone, eager, received, consumed, replied, unread, shutdown>>
           /\ spc' \in {"select", "read", "scan", "refuse", "shut", "eof", "failed"}
  BY DEF Moves, SelectShutdown, SelectRead, WakeForShutdown, ReadEof, ReadFails,
         RefuseBuffer, AcceptBuffer, WriteFails, ScanDone

(* The task keeps the type of the connection. *)
LEMMA ServerType ==
    ASSUME ConnTypeOK, ServerStep
    PROVE  ConnTypeOK'
  <1>1. CASE Moves
    BY <1>1, MovesOn DEF ConnTypeOK
  <1>2. CASE ReadChunk
    <2>1. received' \in 0 .. sent /\ received <= received'
      BY <1>2 DEF ReadChunk, ConnTypeOK
    <2>2. QED
      BY <1>2, <2>1 DEF ReadChunk, ConnTypeOK
  <1>3. CASE WriteRefusal
    BY <1>3 DEF WriteRefusal, ConnTypeOK
  <1>4. CASE Dispatch
    BY <1>4 DEF Dispatch, Complete, ConnTypeOK
  <1>5. CASE WriteReply
    BY <1>5 DEF WriteReply, ConnTypeOK
  <1>6. QED
    BY <1>1, <1>2, <1>3, <1>4, <1>5 DEF ServerStep, Moves

(* Every step keeps it. *)
LEMMA ConnStepType ==
    ASSUME ConnTypeOK, [ConnNext]_connVars
    PROVE  ConnTypeOK'
  <1>1. CASE UNCHANGED connVars
    BY <1>1 DEF connVars, ConnTypeOK
  <1>2. QED
    BY <1>1, PeerType, ServerType DEF ConnNext

(* Type correctness of a connection. *)
THEOREM ConnTypeCorrect == ConnSpec => []ConnTypeOK
  <1>1. ConnInit => ConnTypeOK
    <2> SUFFICES ASSUME ConnInit PROVE ConnTypeOK
      OBVIOUS
    <2>1. nuls \subseteq 1 .. sent /\ replied \subseteq nuls
      BY DEF ConnInit
    <2>2. /\ sent \in Nat /\ received \in 0 .. sent /\ consumed \in 0 .. received
          /\ unread \in 0 .. OutCap
      BY DEF ConnInit
    <2>3. gone \in BOOLEAN /\ eager \in BOOLEAN /\ shutdown \in BOOLEAN /\ spc = "select"
      BY DEF ConnInit
    <2>4. QED
      BY <2>1, <2>2, <2>3 DEF ConnTypeOK
  <1>2. QED
    BY <1>1, ConnStepType, PTL DEF ConnSpec
-----------------------------------------------------------------------------
(* Sending adds terminators behind everything the server has read. *)
LEMMA PeerKeepsInv ==
    ASSUME ConnTypeOK, ConnInv,
           \/ \E n \in 1 .. SendBound, terminated \in BOOLEAN : PeerSend(n, terminated)
           \/ PeerRead \/ PeerClose \/ Shutdown
    PROVE  ConnInv'
  <1>1. ASSUME NEW n \in 1 .. SendBound, NEW terminated \in BOOLEAN,
               PeerSend(n, terminated)
        PROVE  ConnInv'
    <2>1. /\ sent' = sent + n
          /\ UNCHANGED <<gone, eager, received, consumed, replied, unread, spc, shutdown>>
          /\ eager \/ replied = nuls
      BY <1>1 DEF PeerSend
    <2>2. nuls' \in {nuls, nuls \cup {sent + n}}
      BY <1>1 DEF PeerSend
    <2>3. received < sent + n /\ consumed < sent + n
      BY DEF ConnTypeOK
    <2>4. /\ {m \in nuls' : m <= consumed} = {m \in nuls : m <= consumed}
          /\ {m \in nuls' : m < consumed} = {m \in nuls : m < consumed}
      BY <2>2, <2>3 DEF ConnTypeOK
    <2>5. Complete' = Complete
      BY <2>1, <2>2, <2>3 DEF Complete, ConnTypeOK
    <2>6. DrainedIsReplied'
      BY <2>1, <2>4 DEF ConnInv, DrainedIsReplied
    <2>7. BufferShort' /\ BufferBounded'
      BY <2>1, <2>5 DEF ConnInv, BufferShort, BufferBounded, BufferLen
    <2>8. OneCall'
      BY <2>1, <2>2 DEF OneCall
    <2>9. QED
      BY <2>6, <2>7, <2>8 DEF ConnInv
  <1>2. ASSUME UNCHANGED <<sent, nuls, eager, received, consumed, replied, spc>> PROVE ConnInv'
    BY <1>2 DEF ConnInv, DrainedIsReplied, BufferShort, BufferBounded, BufferLen,
                OneCall, Complete
  <1>3. QED
    BY <1>1, <1>2 DEF PeerRead, PeerClose, Shutdown

(* A step that only moves the task on keeps the invariant; what it knows   *)
(* afterwards is the guard it passed.                                      *)
LEMMA MovesKeepInv ==
    ASSUME ConnTypeOK, ConnInv, Moves
    PROVE  ConnInv'
  <1>1. /\ UNCHANGED <<sent, nuls, eager, received, consumed, replied>>
        /\ spc' # "write" /\ spc' # "refused"
    BY MovesOn
  <1>2. UNCHANGED <<Complete, BufferLen>>
    BY <1>1 DEF Complete, BufferLen
  <1>3. DrainedIsReplied'
    <2>1. CASE spc = "write"
      <3>1. spc' = "failed"
        BY <2>1 DEF Moves, SelectShutdown, SelectRead, WakeForShutdown, ReadEof, ReadFails,
           RefuseBuffer, AcceptBuffer, WriteFails, ScanDone
      <3>2. QED
        BY <3>1 DEF DrainedIsReplied
    <2>2. CASE spc # "write"
      <3>1. spc # "failed"
        BY DEF Moves, SelectShutdown, SelectRead, WakeForShutdown, ReadEof, ReadFails,
           RefuseBuffer, AcceptBuffer, WriteFails, ScanDone
      <3>2. QED
        BY <1>1, <2>2, <3>1 DEF ConnInv, DrainedIsReplied
    <2>3. QED
      BY <2>1, <2>2
  <1>4. BufferShort'
    BY <1>1, <1>2 DEF ConnInv, BufferShort, Moves, SelectShutdown, SelectRead,
       WakeForShutdown, ReadEof, ReadFails, RefuseBuffer, AcceptBuffer, WriteFails,
       ScanDone, TooLong, BufferLen, ConnTypeOK
  <1>5. BufferBounded' /\ OneCall'
    BY <1>1, <1>2 DEF ConnInv, BufferBounded, OneCall
  <1>6. QED
    BY <1>3, <1>4, <1>5 DEF ConnInv

(* A buffer within the cap grows by one chunk. *)
LEMMA OneChunkMore ==
    ASSUME NEW a \in Nat, NEW b \in Nat, NEW c \in Nat,
           a - c <= MaxMsg, b <= a + Chunk
    PROVE  b - c <= MaxMsg + Chunk
  OBVIOUS

(* Each step of the task: the read grows the buffer, a dispatch drains the *)
(* first call, and its reply makes replied catch up with consumed.         *)
LEMMA ServerKeepsInv ==
    ASSUME ConnTypeOK, ConnInv, ServerStep
    PROVE  ConnInv'
  <1>1. CASE Moves
    BY <1>1, MovesKeepInv
  <1>2. CASE ReadChunk
    <2>1. /\ spc = "read" /\ spc' = "check"
          /\ UNCHANGED <<sent, nuls, eager, consumed, replied>>
          /\ received' - consumed <= BufferLen + Chunk
      BY <1>2 DEF ReadChunk, ConnTypeOK, BufferLen
    <2>2. BufferBounded'
      <3>1. BufferLen <= MaxMsg
        BY <2>1 DEF ConnInv, BufferShort
      <3>2. received \in Nat /\ received' \in Nat /\ consumed \in Nat /\ consumed <= received
        BY <2>1, <1>2 DEF ReadChunk, BufferLen, ConnTypeOK
      <3>3. received - consumed <= MaxMsg /\ received' <= received + Chunk
        BY <3>1, <3>2, <1>2 DEF BufferLen, ReadChunk, ConnTypeOK
      <3>4. received' - consumed <= MaxMsg + Chunk
        BY <3>2, <3>3, OneChunkMore
      <3>5. QED
        BY <2>1, <3>4 DEF BufferBounded, BufferLen
    <2>3. DrainedIsReplied' /\ BufferShort' /\ OneCall'
      BY <2>1 DEF ConnInv, DrainedIsReplied, BufferShort, OneCall
    <2>4. QED
      BY <2>2, <2>3 DEF ConnInv
  <1>3. CASE WriteRefusal
    <2>1. /\ spc = "refuse" /\ spc' = "refused"
          /\ UNCHANGED <<sent, nuls, eager, received, consumed, replied>>
      BY <1>3 DEF WriteRefusal
    <2>2. QED
      BY <2>1 DEF ConnInv, DrainedIsReplied, BufferShort, BufferBounded, OneCall,
                  BufferLen, Complete
  <1>4. CASE Dispatch
    <2>1. PICK n \in Complete : (\A m \in Complete : n <= m) /\ consumed' = n
      BY <1>4 DEF Dispatch
    <2>2. /\ spc = "scan" /\ spc' = "write"
          /\ UNCHANGED <<sent, nuls, eager, received, replied>>
      BY <1>4 DEF Dispatch
    <2>3. n \in nuls /\ consumed < n /\ n <= received /\ n \in Nat
      BY <2>1 DEF Complete, ConnTypeOK
    <2>4. \A m \in nuls : m <= consumed <=> m < n
      BY <2>1, <2>3 DEF Complete, ConnTypeOK
    <2>5. DrainedIsReplied'
      BY <2>1, <2>2, <2>4 DEF ConnInv, DrainedIsReplied
    <2>6. BufferShort' /\ BufferBounded'
      BY <2>1, <2>2, <2>3 DEF ConnInv, BufferShort, BufferBounded, BufferLen, ConnTypeOK
    <2>7. QED
      BY <2>2, <2>5, <2>6 DEF ConnInv, OneCall
  <1>5. CASE WriteReply
    <2>1. /\ spc = "write" /\ spc' = "scan" /\ replied' = replied \cup {consumed}
          /\ UNCHANGED <<sent, nuls, eager, received, consumed>>
      BY <1>5 DEF WriteReply
    <2>2. {n \in nuls : n <= consumed} = {n \in nuls : n < consumed} \cup {consumed}
      <3>1. consumed \in nuls /\ consumed \in Nat
        BY <2>1 DEF ConnTypeOK
      <3>2. ASSUME NEW n \in nuls
            PROVE  n <= consumed <=> n < consumed \/ n = consumed
        <4>1. n \in Nat
          BY DEF ConnTypeOK
        <4>2. QED
          BY <3>1, <4>1
      <3>3. QED
        BY <3>1, <3>2
    <2>3. DrainedIsReplied'
      BY <2>1, <2>2 DEF ConnInv, DrainedIsReplied
    <2>4. BufferShort' /\ BufferBounded' /\ OneCall'
      BY <2>1 DEF ConnInv, BufferShort, BufferBounded, BufferLen, OneCall
    <2>5. QED
      BY <2>3, <2>4 DEF ConnInv
  <1>6. QED
    BY <1>1, <1>2, <1>3, <1>4, <1>5 DEF ServerStep, Moves

(* The inductive invariant holds throughout. *)
LEMMA ConnInvariant == ConnSpec => []ConnInv
  <1>1. ConnInit => ConnInv
    <2> SUFFICES ASSUME ConnInit PROVE ConnInv
      OBVIOUS
    <2>1. nuls = {} /\ replied = {} /\ received = 0 /\ consumed = 0 /\ spc = "select"
      BY DEF ConnInit
    <2>2. QED
      BY <2>1 DEF ConnInv, DrainedIsReplied, BufferShort, BufferBounded, OneCall,
                  BufferLen, Complete
  <1>2. ConnTypeOK /\ ConnInv /\ [ConnNext]_connVars => ConnInv'
    <2>1. CASE UNCHANGED connVars
      BY <2>1 DEF connVars, ConnInv, DrainedIsReplied, BufferShort, BufferBounded,
                  OneCall, BufferLen, Complete
    <2>2. QED
      BY <2>1, PeerKeepsInv, ServerKeepsInv DEF ConnNext
  <1>3. QED
    BY <1>1, <1>2, ConnTypeCorrect, PTL DEF ConnSpec

(* The receive buffer never exceeds the cap by more than one chunk. *)
THEOREM BufferStaysBounded == ConnSpec => []BufferBounded
  <1>1. ConnInv => BufferBounded
    BY DEF ConnInv
  <1>2. QED
    BY <1>1, ConnInvariant, PTL

(* A task that waits, or left in an orderly way, owes no reply to a call   *)
(* it has received.                                                        *)
THEOREM NoReplyOwedWhenIdle == ConnSpec => []IdleMeansAnswered
  <1>1. ConnTypeOK /\ ConnInv => IdleMeansAnswered
    <2> SUFFICES ASSUME ConnTypeOK, ConnInv, spc \in {"select", "read", "shut", "eof"}
                 PROVE  {n \in nuls : n <= received} = replied
      BY DEF IdleMeansAnswered
    <2>1. Complete = {}
      BY DEF ConnInv, BufferShort
    <2>2. replied = {n \in nuls : n <= consumed}
      BY DEF ConnInv, DrainedIsReplied
    <2>3. ASSUME NEW n \in nuls
          PROVE  n <= received <=> n <= consumed
      <3>1. n \in Nat /\ received \in Nat /\ consumed \in Nat /\ consumed <= received
        BY DEF ConnTypeOK
      <3>2. ~(consumed < n /\ n <= received)
        BY <2>1 DEF Complete
      <3>3. QED
        BY <3>1, <3>2
    <2>4. QED
      BY <2>2, <2>3
  <1>2. QED
    BY <1>1, ConnTypeCorrect, ConnInvariant, PTL
-----------------------------------------------------------------------------
(* The connection implements OrderedService: replies come in the order of  *)
(* the calls, one for each, and none after the task has returned.          *)
THEOREM ConnectionServesInOrder == ConnSpec => ServesInOrder
  <1> USE DEF Service!serviceVars
  <1>1. ConnInit => Service!ServiceInit
    BY DEF ConnInit, Service!ServiceInit
  <1>2. ConnTypeOK /\ ConnInv /\ [ConnNext]_connVars =>
           [Service!ServiceNext]_(Service!serviceVars)
    <2> SUFFICES ASSUME ConnTypeOK, ConnInv, [ConnNext]_connVars
                 PROVE  [Service!ServiceNext]_(Service!serviceVars)
      OBVIOUS
    <2>1. ASSUME NEW n \in 1 .. SendBound, NEW terminated \in BOOLEAN,
                 PeerSend(n, terminated)
          PROVE  [Service!ServiceNext]_(Service!serviceVars)
      <3>1. UNCHANGED <<replied, spc>> /\ nuls' \in {nuls, nuls \cup {sent + n}}
        BY <2>1 DEF PeerSend
      <3>2. sent + n \in 1 .. SendBound /\ \A m \in nuls : m < sent + n
        BY <2>1 DEF PeerSend, ConnTypeOK
      <3>3. QED
        BY <3>1, <3>2 DEF Service!ServiceNext, Service!Ask
    <2>2. CASE WriteReply
      <3>1. /\ spc = "write" /\ spc' = "scan" /\ replied' = replied \cup {consumed}
            /\ nuls' = nuls
        BY <2>2 DEF WriteReply
      <3>2. consumed \in nuls \ replied /\ \A m \in nuls \ replied : consumed <= m
        BY <3>1 DEF ConnTypeOK, ConnInv, DrainedIsReplied
      <3>3. QED
        BY <3>1, <3>2 DEF Service!ServiceNext, Service!Answer
    <2>3. ASSUME UNCHANGED <<nuls, replied>>, spc \in Closed => spc' \in Closed
          PROVE  [Service!ServiceNext]_(Service!serviceVars)
      BY <2>3 DEF Service!ServiceNext, Service!HangUp
    <2>4. CASE Moves \/ ReadChunk \/ WriteRefusal \/ Dispatch
      BY <2>4, <2>3 DEF Moves, SelectShutdown, SelectRead, WakeForShutdown, ReadChunk,
         ReadEof, ReadFails, RefuseBuffer, WriteRefusal, AcceptBuffer, Dispatch,
         WriteFails, ScanDone
    <2>5. CASE PeerRead \/ PeerClose \/ Shutdown \/ UNCHANGED connVars
      BY <2>5, <2>3 DEF PeerRead, PeerClose, Shutdown, connVars
    <2>6. QED
      BY <2>1, <2>2, <2>4, <2>5 DEF ConnNext, ServerStep, Moves
  <1>3. QED
    BY <1>1, <1>2, ConnTypeCorrect, ConnInvariant, PTL
       DEF ConnSpec, ServesInOrder, Service!ServiceSpec

(* A peer that waits for its replies, like VarlinkClient, is only refused  *)
(* for a call that exceeds the cap by itself.                              *)
THEOREM PoliteRefusalIsForOneCall ==
    ConnSpec => []RefusalIsForOneCall
  <1>1. ConnTypeOK /\ ConnInv => RefusalIsForOneCall
    BY DEF ConnInv, DrainedIsReplied, BufferShort, OneCall, Complete,
           RefusalIsForOneCall, ConnTypeOK
  <1>2. QED
    BY <1>1, ConnTypeCorrect, ConnInvariant, PTL
=============================================================================
