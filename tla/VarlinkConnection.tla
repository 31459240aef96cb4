-------------------------- MODULE VarlinkConnection --------------------------
(***************************************************************************)
(* One Varlink connection (handle_varlink_client in server.rs) and its     *)
(* peer.  The peer's bytes form one stream: byte positions count from 1,   *)
(* nuls holds the positions of the terminators sent so far, and a call is  *)
(* known by the position of its terminator.  The receive buffer is what    *)
(* lies between two positions of the stream, consumed and received.        *)
(***************************************************************************)
EXTENDS Naturals

CONSTANTS
    MaxMsg,      \* MAX_MSG_BYTES
    Chunk,       \* size of read_chunk
    OutCap,      \* replies that fit into the socket before a write waits
    SendBound    \* bound on the length of the stream

ASSUME ConnectionAssumption ==
    /\ MaxMsg \in Nat \ {0}
    /\ Chunk \in Nat \ {0}
    /\ OutCap \in Nat \ {0}
    /\ SendBound \in Nat

VARIABLES
    sent,      \* bytes the peer has written
    nuls,      \* positions of the terminators among them
    gone,      \* whether the peer has closed its end
    eager,     \* whether the peer sends before it has read its reply
    received,  \* bytes the server has read
    consumed,  \* bytes drained from the front of its buffer
    replied,   \* calls whose reply has been written
    unread,    \* replies written and not read by the peer
    spc,       \* where the connection task stands
    shutdown   \* the value of the shutdown watch channel

connVars == <<sent, nuls, gone, eager, received, consumed, replied, unread, spc, shutdown>>
peerVars == <<sent, nuls, gone, eager>>

Closed == {"shut", "eof", "failed", "refused"}   \* why the task has returned

BufferLen == received - consumed

(* complete calls in the buffer *)
Complete == {n \in nuls : consumed < n /\ n <= received}

ConnTypeOK ==
    /\ sent \in Nat
    /\ nuls \subseteq 1 .. sent
    /\ gone \in BOOLEAN
    /\ eager \in BOOLEAN
    /\ received \in 0 .. sent
    /\ consumed \in 0 .. received
    /\ replied \subseteq nuls
    /\ unread \in 0 .. OutCap
    /\ spc \in {"select", "read", "check", "scan", "write", "refuse"} \cup Closed
    /\ spc = "write" => consumed \in nuls
    /\ shutdown \in BOOLEAN

ConnInit ==
    /\ sent = 0
    /\ nuls = {}
    /\ gone = FALSE
    /\ eager \in BOOLEAN
    /\ received = 0
    /\ consumed = 0
    /\ replied = {}
    /\ unread = 0
    /\ spc = "select"
    /\ shutdown = FALSE

GoTo(pc) == spc' = pc
-----------------------------------------------------------------------------
(* The peer.  VarlinkClient::call writes one call and then reads its       *)
(* reply; another peer may write as much as it likes.                      *)

PeerSend(n, terminated) ==
    /\ ~gone
    /\ sent + n <= SendBound
    /\ eager \/ (replied = nuls /\ unread = 0)
    /\ sent' = sent + n
    /\ nuls' = IF terminated THEN nuls \cup {sent + n} ELSE nuls
    /\ UNCHANGED <<gone, eager, received, consumed, replied, unread, spc, shutdown>>

PeerRead ==
    /\ ~gone
    /\ unread > 0
    /\ unread' = unread - 1
    /\ UNCHANGED <<peerVars, received, consumed, replied, spc, shutdown>>

PeerClose ==
    /\ ~gone
    /\ gone' = TRUE
    /\ UNCHANGED <<sent, nuls, eager, received, consumed, replied, unread, spc, shutdown>>

(* main: shutdown_tx.send(true) *)
Shutdown ==
    /\ ~shutdown
    /\ shutdown' = TRUE
    /\ UNCHANGED <<peerVars, received, consumed, replied, unread, spc>>
-----------------------------------------------------------------------------
(* The connection task.  The select! is biased: it looks at the shutdown   *)
(* channel first and waits for both when neither is ready.                 *)

SelectShutdown ==
    /\ spc = "select"
    /\ shutdown
    /\ GoTo("shut")
    /\ UNCHANGED <<peerVars, received, consumed, replied, unread, shutdown>>

SelectRead ==
    /\ spc = "select"
    /\ ~shutdown
    /\ GoTo("read")
    /\ UNCHANGED <<peerVars, received, consumed, replied, unread, shutdown>>

WakeForShutdown ==
    /\ spc = "read"
    /\ shutdown
    /\ GoTo("select")
    /\ UNCHANGED <<peerVars, received, consumed, replied, unread, shutdown>>

ReadChunk ==
    /\ spc = "read"
    /\ received < sent
    /\ received' = IF sent - received < Chunk THEN sent ELSE received + Chunk
    /\ GoTo("check")
    /\ UNCHANGED <<peerVars, consumed, replied, unread, shutdown>>

ReadEof ==
    /\ spc = "read"
    /\ gone
    /\ received = sent
    /\ GoTo("eof")
    /\ UNCHANGED <<peerVars, received, consumed, replied, unread, shutdown>>

(* a peer that closes with replies unread resets the connection *)
ReadFails ==
    /\ spc = "read"
    /\ gone
    /\ unread > 0
    /\ GoTo("failed")
    /\ UNCHANGED <<peerVars, received, consumed, replied, unread, shutdown>>

(* Variant: the cap is on everything the connection has ever carried. *)
TooLong_Total == received > MaxMsg

(* Variant: the buffer is never too long. *)
TooLong_Never == FALSE

TooLong == BufferLen > MaxMsg

RefuseBuffer ==
    /\ spc = "check"
    /\ TooLong
    /\ GoTo("refuse")
    /\ UNCHANGED <<peerVars, received, consumed, replied, unread, shutdown>>

(* the ProtocolError reply; an error of this write is ignored *)
WriteRefusal ==
    /\ spc = "refuse"
    /\ \/ /\ ~gone
          /\ unread < OutCap
          /\ unread' = unread + 1
       \/ gone /\ UNCHANGED unread
    /\ GoTo("refused")
    /\ UNCHANGED <<peerVars, received, consumed, replied, shutdown>>

AcceptBuffer ==
    /\ spc = "check"
    /\ ~TooLong
    /\ GoTo("scan")
    /\ UNCHANGED <<peerVars, received, consumed, replied, unread, shutdown>>

(* Variant: the last terminator of the buffer ends the call. *)
Dispatch_Last ==
    /\ spc = "scan"
    /\ \E n \in Complete :
          /\ \A m \in Complete : m <= n
          /\ consumed' = n
    /\ GoTo("write")
    /\ UNCHANGED <<peerVars, received, replied, unread, shutdown>>

(* drain the first call, parse it and dispatch_call (or the InvalidParameter *)
(* reply of a call that is no JSON)                                          *)
Dispatch ==
    /\ spc = "scan"
    /\ \E n \in Complete :
          /\ \A m \in Complete : n <= m
          /\ consumed' = n
    /\ GoTo("write")
    /\ UNCHANGED <<peerVars, received, replied, unread, shutdown>>

(* Variant: one call for each read (`if let` instead of `while let`). *)
WriteReply_Once ==
    /\ spc = "write"
    /\ ~gone
    /\ unread < OutCap
    /\ unread' = unread + 1
    /\ replied' = replied \cup {consumed}
    /\ GoTo("select")
    /\ UNCHANGED <<peerVars, received, consumed, shutdown>>

WriteReply ==
    /\ spc = "write"
    /\ ~gone
    /\ unread < OutCap
    /\ unread' = unread + 1
    /\ replied' = replied \cup {consumed}
    /\ GoTo("scan")
    /\ UNCHANGED <<peerVars, received, consumed, shutdown>>

WriteFails ==
    /\ spc = "write"
    /\ gone
    /\ GoTo("failed")
    /\ UNCHANGED <<peerVars, received, consumed, replied, unread, shutdown>>

ScanDone ==
    /\ spc = "scan"
    /\ Complete = {}
    /\ GoTo("select")
    /\ UNCHANGED <<peerVars, received, consumed, replied, unread, shutdown>>

ServerStep ==
    \/ SelectShutdown
    \/ SelectRead
    \/ WakeForShutdown
    \/ ReadChunk
    \/ ReadEof
    \/ ReadFails
    \/ RefuseBuffer
    \/ WriteRefusal
    \/ AcceptBuffer
    \/ Dispatch
    \/ WriteReply
    \/ WriteFails
    \/ ScanDone

ConnNext ==
    \/ \E n \in 1 .. SendBound, terminated \in BOOLEAN : PeerSend(n, terminated)
    \/ PeerRead
    \/ PeerClose
    \/ Shutdown
    \/ ServerStep

ConnSpec == ConnInit /\ [][ConnNext]_connVars

(* The runtime polls the task whenever it is ready, and a peer that is not *)
(* gone reads the replies it asked for.                                    *)
FairConnSpec == ConnSpec /\ WF_connVars(ServerStep) /\ WF_connVars(PeerRead)
-----------------------------------------------------------------------------
(* A connection serves calls in order, one reply each: it implements       *)
(* OrderedService, with a call counted as made when its terminator is sent.*)
Service == INSTANCE OrderedService
              WITH Call <- 1 .. SendBound, asked <- nuls,
                   answered <- replied, open <- spc \notin Closed

ServesInOrder == Service!ServiceSpec

(* "After every successful read, the buffer is scanned for complete        *)
(* NUL-terminated messages": when the task waits for more bytes, or has    *)
(* left because of shutdown or end of file, every call it had received     *)
(* completely has been answered.                                           *)
IdleMeansAnswered ==
    spc \in {"select", "read", "shut", "eof"} => {n \in nuls : n <= received} = replied

(* "Caps memory growth": the buffer exceeds the cap by one chunk at most,  *)
(* whatever the peer sends.                                                *)
BufferBounded == BufferLen <= MaxMsg + Chunk

(* A peer that waits for its replies is refused only for a single call     *)
(* that exceeds the cap by itself.                                         *)
RefusalIsForOneCall ==
    ~eager /\ spc = "refused" => BufferLen > MaxMsg /\ \A n \in Complete : n = received

(* Every call of a peer that stays is answered, unless the daemon shuts    *)
(* down or the connection is refused.                                      *)
CallsAnswered ==
    \A n \in 1 .. SendBound : n \in nuls ~> n \in replied \/ gone \/ spc \in Closed
-----------------------------------------------------------------------------
(* Why ServesInOrder holds: what has been drained has been answered, the   *)
(* call being answered, and one whose reply could not be written, excepted.*)
DrainedIsReplied ==
    /\ spc \notin {"write", "failed"} => replied = {n \in nuls : n <= consumed}
    /\ spc = "write" => replied = {n \in nuls : n < consumed}

(* Outside of a check and a refusal the buffer is within the cap, and the  *)
(* task only waits when there is no complete call in it.                   *)
BufferShort ==
    /\ spc \notin {"check", "refuse", "refused"} => BufferLen <= MaxMsg
    /\ spc \in {"refuse", "refused"} => BufferLen > MaxMsg
    /\ spc \in {"select", "read", "shut", "eof"} => Complete = {}

(* A polite peer has one call under way at most, and sent nothing after it. *)
OneCall == ~eager => \A n \in nuls \ replied : n = sent

ConnInv == DrainedIsReplied /\ BufferShort /\ BufferBounded /\ OneCall
=============================================================================
