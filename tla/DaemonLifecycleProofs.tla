------------------------ MODULE DaemonLifecycleProofs ------------------------
(***************************************************************************)
(* Theorems about the daemon process, for every set of clients, watchdog   *)
(* timeout, lateness and bound.                                            *)
(***************************************************************************)
EXTENDS DaemonLifecycle, TLAPS

(* A period is never zero unless the watchdog is off. *)
LEMMA PeriodPositive ==
    ASSUME NEW u \in Nat, u # 0
    PROVE  WatchdogPeriod(u) \in Nat \ {0}
<1>1. Second \in Nat /\ Second >= 1
    BY LifecycleAssumption
<1>2. u >= 3 * Second => u \div 3 \in Nat /\ u \div 3 >= 1
    BY <1>1
<1>3. QED
    BY <1>1, <1>2 DEF WatchdogPeriod, Least

(* watchdog_period_from_env: "one-third of the advertised timeout when the *)
(* timeout is at least 3 seconds (so the daemon pings three times per      *)
(* watchdog window)"; and for a timeout of a second or more the next ping  *)
(* is due before the timeout has passed.                                   *)
THEOREM PeriodFitsTimeout ==
    \A u \in Nat :
        /\ u >= 3 * Second => 3 * WatchdogPeriod(u) <= u
        /\ u >= Second => WatchdogPeriod(u) <= u
<1> SUFFICES ASSUME NEW u \in Nat
             PROVE  /\ u >= 3 * Second => 3 * WatchdogPeriod(u) <= u
                    /\ u >= Second => WatchdogPeriod(u) <= u
    OBVIOUS
<1>1. Second \in Nat /\ Second >= 1
    BY LifecycleAssumption
<1>2. u \div 3 \in Nat /\ 3 * (u \div 3) <= u
    OBVIOUS
<1>3. QED
    BY <1>1, <1>2 DEF WatchdogPeriod, Least

LEMMA PeriodIsNat ==
    ASSUME passed \in 0 .. 2
    PROVE  Period \in Nat
<1>1. WatchdogPeriod(WatchdogUsec) \in Nat
  <2>1. CASE WatchdogUsec = 0
    BY <2>1 DEF WatchdogPeriod
  <2>2. CASE WatchdogUsec # 0
    BY <2>2, PeriodPositive, LifecycleAssumption
  <2>3. QED
    BY <2>1, <2>2
<1>2. DefaultPeriod \in Nat
    BY LifecycleAssumption
<1>3. QED
    BY <1>1, <1>2 DEF Period

(* The end of a process, whatever its cause, keeps the types. *)
LEMMA EndKeepsType ==
    ASSUME LifecycleTypeOK, NEW how \in {"clean", "signal", "failure"},
           NEW left \in [Sockets -> {"absent", "raw", "ready"}],
           EndProcess(how, left), passed' = passed,
           starts' = starts, faults' \in 0 .. MaxFaults
    PROVE  LifecycleTypeOK'
<1>1. Period \in Nat /\ Period' = Period
    BY PeriodIsNat DEF LifecycleTypeOK, Period, Watched
<1>2. DrainTime \in Nat /\ 0 \in 0 .. Slack
    BY LifecycleAssumption DEF DrainTime
<1>3. queue' \in [Sockets -> Seq(Client)]
    BY DEF LifecycleTypeOK, EndProcess
<1>4. armed' \in BOOLEAN /\ shutdown' \in BOOLEAN /\ sig' \in BOOLEAN
    BY DEF EndProcess
<1>5. client' \in [Client -> {"away", "lost", "queued", "idle", "read"} \cup InHand]
    BY DEF EndProcess
<1>6. calls' \in [Client -> 0 .. MaxCalls]
    BY LifecycleAssumption DEF EndProcess
<1>7. unit' \in {"open", "stale", "closed"} /\ file' \in [Sockets -> {"absent", "raw", "ready"}]
    BY DEF EndProcess, LifecycleTypeOK
<1>8. QED
    BY <1>1, <1>2, <1>3, <1>4, <1>5, <1>6, <1>7 DEF LifecycleTypeOK, EndProcess

LEMMA LifecycleTypeStep ==
    ASSUME LifecycleTypeOK, LatecomerInv, [LifecycleNext]_lifeVars
    PROVE  LifecycleTypeOK'
<1> USE DEF socketVars, procVars, clientVars, timeVars, countVars
<1>1. Period \in Nat
    BY PeriodIsNat DEF LifecycleTypeOK
<1>2. passed' = passed => Period' = Period
    BY DEF Period, Watched
<1>3. Current \in Sockets /\ NextTask \in Tasks
    BY DEF Current, NextTask, Sockets, Tasks
<1>4. CASE ManagerStart \/ OperatorStart
    BY <1>2, <1>4, LifecycleAssumption DEF ManagerStart, OperatorStart, Start, LifecycleTypeOK, BeforeSignals
<1>5. CASE OpenStores \/ Adopt
    BY <1>2, <1>5 DEF OpenStores, Adopt, LifecycleTypeOK, BeforeSignals
<1>6. CASE Bind \/ SetMode
    BY <1>2, <1>3, <1>6 DEF Bind, SetMode, LifecycleTypeOK, BeforeSignals
<1>7. CASE BindFails
    BY <1>7, EndKeepsType DEF BindFails, LifecycleTypeOK
<1>8. CASE Spawn
    BY <1>2, <1>3, <1>8 DEF Spawn, LifecycleTypeOK, BeforeSignals
<1>9. CASE NotifyReady \/ InstallSignals
  <2>1. armed' \in BOOLEAN
    BY <1>9 DEF NotifyReady, InstallSignals, LifecycleTypeOK
  <2>2. QED
    BY <1>2, <1>9, <2>1 DEF NotifyReady, InstallSignals, LifecycleTypeOK, BeforeSignals
<1>10. CASE ReceiveSignal
    BY <1>2, <1>10, LifecycleAssumption DEF ReceiveSignal, LifecycleTypeOK, DrainTime
<1>11. CASE DrainEnds \/ NotifyStopping
  <2>1. armed' \in BOOLEAN
    BY <1>11 DEF DrainEnds, NotifyStopping, LifecycleTypeOK
  <2>2. QED
    BY <1>2, <1>11, <2>1 DEF DrainEnds, NotifyStopping, LifecycleTypeOK
<1>12. CASE Exit
    BY <1>12, EndKeepsType DEF Exit, LifecycleTypeOK
<1>13. CASE OpenStoresFails \/ AdoptFails \/ InstallSignalsFails \/ Killed
    BY <1>13, EndKeepsType, LifecycleAssumption
       DEF OpenStoresFails, AdoptFails, InstallSignalsFails, Killed, Fault, LifecycleTypeOK
<1>14. CASE SetModeFails
  <2>1. [file EXCEPT ![Current] = "absent"] \in [Sockets -> {"absent", "raw", "ready"}]
    BY <1>3 DEF LifecycleTypeOK
  <2>2. faults' \in 0 .. MaxFaults
    BY <1>14, LifecycleAssumption DEF SetModeFails, Fault, LifecycleTypeOK
  <2>3. QED
    BY <1>14, <2>1, <2>2, EndKeepsType DEF SetModeFails
<1>15. ASSUME NEW s \in Sockets, AcceptFails(s)
       PROVE  LifecycleTypeOK'
    BY <1>2, <1>15, LifecycleAssumption DEF AcceptFails, Fault, LifecycleTypeOK, Tasks
<1>16. ASSUME NEW s \in Sockets, ListenerStop(s)
       PROVE  LifecycleTypeOK'
  <2>1. queue' \in [Sockets -> Seq(Client)]
    BY <1>16 DEF ListenerStop, LifecycleTypeOK
  <2>2. QED
    BY <1>2, <1>16, <2>1 DEF ListenerStop, LifecycleTypeOK, Tasks
<1>17. ASSUME NEW s \in Sockets, ListenerPoll(s)
       PROVE  LifecycleTypeOK'
    BY <1>2, <1>17 DEF ListenerPoll, LifecycleTypeOK, Tasks
<1>18. ASSUME NEW s \in Sockets, CleanSocketFile(s)
       PROVE  LifecycleTypeOK'
    BY <1>2, <1>18 DEF CleanSocketFile, LifecycleTypeOK
<1>19. ASSUME NEW c \in Client, Connect(c)
       PROVE  LifecycleTypeOK'
  <2>1. SocketOf[c] \in Sockets
    BY LifecycleAssumption
  <2>2. queue' \in [Sockets -> Seq(Client)]
    BY <1>19, <2>1 DEF Connect, LifecycleTypeOK
  <2>3. QED
    BY <1>2, <1>19, <2>2 DEF Connect, LifecycleTypeOK
<1>20. ASSUME NEW c \in Client, NEW v \in {"away", "idle", "read", "call", "reply"},
              NEW n \in 0 .. MaxCalls, SetClient(c, v, n)
       PROVE  LifecycleTypeOK'
    BY <1>2, <1>20 DEF SetClient, LifecycleTypeOK, InHand
<1>21. ASSUME NEW c \in Client, ClientStep(c)
       PROVE  LifecycleTypeOK'
  <2>1. MaxCalls \in Nat /\ 0 \in 0 .. MaxCalls /\ 1 \in 0 .. MaxCalls
    BY LifecycleAssumption
  <2>2. calls[c] \in 0 .. MaxCalls
    BY DEF LifecycleTypeOK
  <2>3. CASE ClientRead(c)
    BY <1>20, <2>1, <2>3 DEF ClientRead
  <2>4. CASE WriteReply(c)
    BY <1>20, <2>1, <2>2, <2>4 DEF WriteReply
  <2>5. QED
    BY <1>19, <1>20, <1>21, <2>1, <2>2, <2>3, <2>4
       DEF ClientStep, ClientStop, ClientPoll, ClientEof, ClientWaits, FinishCall, WriteFails
<1>22. CASE WatchdogStop
    BY <1>2, <1>22 DEF WatchdogStop, LifecycleTypeOK, Tasks
<1>23. CASE NotifyWatchdog
    BY <1>1, <1>2, <1>23, LifecycleAssumption DEF NotifyWatchdog, LifecycleTypeOK
<1>24. CASE Tick
  <2>1. next' \in Nat /\ next' <= Period
    BY <1>1, <1>24 DEF Tick, LifecycleTypeOK
  <2>2. late' \in 0 .. Slack
    BY <1>24, LifecycleAssumption DEF Tick, LifecycleTypeOK
  <2>3. drainLeft' \in 0 .. DrainTime
    BY <1>24, LifecycleAssumption DEF Tick, LifecycleTypeOK, DrainTime
  <2>4. QED
    BY <1>2, <1>24, <2>1, <2>2, <2>3 DEF Tick, LifecycleTypeOK
<1>25. CASE Signal
    BY <1>2, <1>25 DEF Signal, LifecycleTypeOK
<1>26. CASE EarlySignal
    BY <1>26, EndKeepsType DEF EarlySignal, LifecycleTypeOK
<1>27. ASSUME NEW s \in Sockets, Accept(s)
       PROVE  LifecycleTypeOK'
  <2>1. queue[s] \in Seq(Client) /\ queue[s] # <<>>
    BY <1>27 DEF LifecycleTypeOK, LatecomerInv, Accept
  <2>2. Head(queue[s]) \in Client /\ Tail(queue[s]) \in Seq(Client)
    BY <1>27, <2>1
  <2>3. queue' \in [Sockets -> Seq(Client)]
    BY <1>27, <2>2 DEF Accept, LifecycleTypeOK
  <2>4. QED
    BY <1>2, <1>27, <2>2, <2>3 DEF Accept, LifecycleTypeOK, Tasks
<1>28. CASE UNCHANGED lifeVars
    BY <1>2, <1>28 DEF lifeVars, LifecycleTypeOK
<1>29. CASE RestartSockets \/ OperatorStop \/ OpenSockets
  <2>1. file' \in [Sockets -> {"absent", "raw", "ready"}]
    BY <1>29 DEF RestartSockets, OperatorStop, OpenSockets, OpenedFiles, LifecycleTypeOK
  <2>2. queue' \in [Sockets -> Seq(Client)]
    <3>1. <<>> \in Seq(Client)
      OBVIOUS
    <3>2. queue' = queue \/ queue' = [s \in Sockets |-> <<>>]
      BY <1>29 DEF RestartSockets, OperatorStop, OpenSockets, CloseSockets
    <3>3. QED
      BY <3>1, <3>2 DEF LifecycleTypeOK
  <2>3. client' \in [Client -> {"away", "lost", "queued", "idle", "read"} \cup InHand]
    BY <1>29 DEF RestartSockets, OperatorStop, OpenSockets, CloseSockets, LifecycleTypeOK
  <2>4. QED
    BY <1>2, <1>29, <2>1, <2>2, <2>3 DEF RestartSockets, OperatorStop, OpenSockets, LifecycleTypeOK
<1>30. QED
    BY <1>4, <1>5, <1>6, <1>7, <1>8, <1>9, <1>10, <1>11, <1>12, <1>13, <1>14, <1>15, <1>16,
       <1>17, <1>18, <1>21, <1>22, <1>23, <1>24, <1>25, <1>26, <1>27, <1>28, <1>29
       DEF LifecycleNext, MainStep, FailedStep, ListenerStep

(* The end of a process leaves no latecomers and no listener under way. *)
LEMMA EndKeepsLatecomers ==
    ASSUME LifecycleTypeOK, LatecomerInv, NEW how, NEW left, EndProcess(how, left)
    PROVE  LatecomerInv'
<1>1. \A s \in Sockets : queue'[s] \in Seq(ClientsOf(s))
    BY DEF EndProcess, LatecomerInv, ClientsOf
<1>2. \A s \in Sockets : task'[s] # "accept"
    BY DEF EndProcess, Tasks
<1>3. latecomer' = {}
    BY DEF EndProcess
<1>4. QED
    BY <1>1, <1>2, <1>3 DEF LatecomerInv, OneLateAccept, ClientsOf

LEMMA LatecomerStep ==
    ASSUME LifecycleTypeOK, LatecomerInv, SocketInv, [LifecycleNext]_lifeVars
    PROVE  LatecomerInv'
<1> USE DEF socketVars, procVars, clientVars, timeVars, countVars
<1>1. ASSUME UNCHANGED <<task, shutdown, queue, client, latecomer>>
      PROVE  LatecomerInv'
    BY <1>1 DEF LatecomerInv, OneLateAccept, ClientsOf
<1>2. ASSUME UNCHANGED <<shutdown, clientVars>>,
             \A s \in Sockets : task'[s] = "accept" => task[s] = "accept"
      PROVE  LatecomerInv'
  <2>1. \A c \in latecomer : SocketOf[c] \in Sockets
    BY LifecycleAssumption DEF LifecycleTypeOK
  <2>2. QED
    BY <1>2, <2>1 DEF LatecomerInv, OneLateAccept, ClientsOf
<1>3. CASE ManagerStart \/ OperatorStart \/ OpenStores \/ Adopt \/ Bind \/ SetMode
           \/ NotifyReady \/ InstallSignals \/ DrainEnds \/ NotifyStopping
           \/ NotifyWatchdog \/ Tick \/ Signal
    BY <1>1, <1>3 DEF ManagerStart, OperatorStart, Start, OpenStores, Adopt, Bind, SetMode,
       NotifyReady, InstallSignals, DrainEnds, NotifyStopping, NotifyWatchdog, Tick, Signal
<1>4. CASE BindFails \/ Exit \/ OpenStoresFails \/ AdoptFails \/ SetModeFails
           \/ InstallSignalsFails \/ Killed \/ EarlySignal
    BY <1>4, EndKeepsLatecomers DEF BindFails, Exit, OpenStoresFails, AdoptFails, SetModeFails,
       InstallSignalsFails, Killed, EarlySignal
<1>5. CASE Spawn
    BY <1>2, <1>5 DEF Spawn, LifecycleTypeOK, Tasks
<1>6. CASE WatchdogStop
    BY <1>2, <1>6 DEF WatchdogStop, LifecycleTypeOK, Tasks
<1>7. CASE ReceiveSignal
    BY <1>7 DEF ReceiveSignal, LatecomerInv, OneLateAccept, ClientsOf
<1>8. ASSUME NEW s \in Sockets, AcceptFails(s)
      PROVE  LatecomerInv'
    BY <1>2, <1>8 DEF AcceptFails, LifecycleTypeOK, Tasks
<1>9. ASSUME NEW s \in Sockets, CleanSocketFile(s)
      PROVE  LatecomerInv'
    BY <1>1, <1>9 DEF CleanSocketFile
<1>10. ASSUME NEW s \in Sockets, ListenerPoll(s)
       PROVE  LatecomerInv'
  <2>1. latecomer = {} /\ latecomer' = {}
    BY <1>10 DEF ListenerPoll, LatecomerInv
  <2>2. \A r \in Sockets : task'[r] = "accept" => queue'[r] # <<>>
    BY <1>10 DEF ListenerPoll, LatecomerInv, LifecycleTypeOK, Tasks
  <2>3. QED
    BY <1>10, <2>1, <2>2 DEF ListenerPoll, LatecomerInv, OneLateAccept, ClientsOf
<1>11. ASSUME NEW s \in Sockets, ListenerStop(s)
       PROVE  LatecomerInv'
  <2>1. \A r \in Sockets : queue'[r] \in Seq(ClientsOf(r))
    BY <1>11 DEF ListenerStop, LatecomerInv, LifecycleTypeOK
  <2>2. \A r \in Sockets : task'[r] = "accept" => task[r] = "accept" /\ queue'[r] = queue[r]
    BY <1>11 DEF ListenerStop, LifecycleTypeOK, Tasks
  <2>3. \A c \in latecomer : SocketOf[c] \in Sockets /\ client'[c] = client[c]
    BY <1>11, LifecycleAssumption DEF ListenerStop, LatecomerInv, LifecycleTypeOK
  <2>4. shutdown' = shutdown /\ latecomer' = latecomer
    BY <1>11 DEF ListenerStop
  <2>5. QED
    BY <2>1, <2>2, <2>3, <2>4 DEF LatecomerInv, OneLateAccept, ClientsOf
<1>12. ASSUME NEW s \in Sockets, Accept(s)
       PROVE  LatecomerInv'
  <2> DEFINE h == Head(queue[s])
  <2>1. queue[s] \in Seq(ClientsOf(s)) /\ queue[s] # <<>>
    BY <1>12 DEF Accept, LatecomerInv
  <2>2. h \in ClientsOf(s) /\ Tail(queue[s]) \in Seq(ClientsOf(s))
    BY <2>1
  <2>3. h \in Client /\ SocketOf[h] = s
    BY <2>2 DEF ClientsOf
  <2>4. \A r \in Sockets : queue'[r] \in Seq(ClientsOf(r))
    BY <1>12, <2>2 DEF Accept, LatecomerInv, LifecycleTypeOK
  <2>5. \A r \in Sockets : task'[r] = "accept" =>
             r # s /\ task[r] = "accept" /\ queue'[r] = queue[r]
    BY <1>12 DEF Accept, LifecycleTypeOK, Tasks
  <2>6. \A c \in latecomer : SocketOf[c] # s
    BY <1>12 DEF Accept, LatecomerInv
  <2>7. \A c \in latecomer' : c \in latecomer \/ (c = h /\ shutdown)
    BY <1>12 DEF Accept
  <2>8. \A c \in latecomer : client'[c] = client[c] /\ c # h
    BY <1>12, <2>3, <2>6 DEF Accept, LifecycleTypeOK
  <2>9. client'[h] = "idle"
    BY <1>12, <2>3 DEF Accept, LifecycleTypeOK
  <2>10. \A c \in latecomer : SocketOf[c] \in Sockets
    BY LifecycleAssumption DEF LifecycleTypeOK
  <2>11. shutdown' = shutdown
    BY <1>12 DEF Accept
  <2>12. \A c \in latecomer' : client'[c] \in {"idle", "away"} /\ task'[SocketOf[c]] # "accept"
    BY <2>3, <2>5, <2>7, <2>8, <2>9, <2>10 DEF LatecomerInv
  <2>13. OneLateAccept'
    BY <2>3, <2>6, <2>7 DEF LatecomerInv, OneLateAccept
  <2>14. latecomer' # {} => shutdown'
    BY <2>7, <2>11 DEF LatecomerInv
  <2>15. QED
    BY <2>4, <2>5, <2>12, <2>13, <2>14 DEF LatecomerInv, ClientsOf
<1>13. ASSUME NEW c \in Client, Connect(c)
       PROVE  LatecomerInv'
  <2>1. c \in ClientsOf(SocketOf[c]) /\ SocketOf[c] \in Sockets
    BY LifecycleAssumption DEF ClientsOf
  <2>2. \A r \in Sockets : queue[r] \in Seq(ClientsOf(r))
    BY DEF LatecomerInv
  <2>3. \A r \in Sockets : queue'[r] \in Seq(ClientsOf(r)) /\ (queue[r] # <<>> => queue'[r] # <<>>)
    <3>1. \A r \in Sockets : queue'[r] = IF r = SocketOf[c] THEN Append(queue[r], c) ELSE queue[r]
      BY <1>13, <2>1 DEF Connect, LifecycleTypeOK
    <3>2. Append(queue[SocketOf[c]], c) \in Seq(ClientsOf(SocketOf[c]))
      BY <2>1, <2>2
    <3>3. Append(queue[SocketOf[c]], c) # <<>>
      BY <2>1, <2>2
    <3>4. QED
      BY <2>2, <3>1, <3>2, <3>3
  <2>4. \A b \in latecomer' : b \in latecomer /\ client'[b] = client[b]
    BY <1>13 DEF Connect, LifecycleTypeOK
  <2>5. task' = task /\ shutdown' = shutdown
    BY <1>13 DEF Connect
  <2>6. QED
    BY <2>3, <2>4, <2>5 DEF LatecomerInv, OneLateAccept, ClientsOf
<1>14. ASSUME NEW c \in Client, NEW v, NEW n, SetClient(c, v, n), c \in latecomer => v = "away"
       PROVE  LatecomerInv'
    BY <1>14 DEF SetClient, LatecomerInv, OneLateAccept, ClientsOf, LifecycleTypeOK
<1>15. ASSUME NEW c \in Client, ClientStep(c)
       PROVE  LatecomerInv'
  <2>1. c \in latecomer => shutdown /\ client[c] \in {"idle", "away"}
    BY DEF LatecomerInv
  <2>2. QED
    BY <1>13, <1>14, <1>15, <2>1
       DEF ClientStep, ClientStop, ClientPoll, ClientEof, ClientRead, ClientWaits,
           FinishCall, WriteReply, WriteFails
<1>16. CASE UNCHANGED lifeVars
    BY <1>1, <1>16 DEF lifeVars
<1>17. CASE RestartSockets \/ OperatorStop \/ OpenSockets
  <2>1. CASE OpenSockets
    BY <1>1, <2>1 DEF OpenSockets
  <2>2. CASE RestartSockets \/ OperatorStop
    <3>1. \A s \in Sockets : queue'[s] = <<>> /\ task'[s] # "accept"
      BY <2>2 DEF RestartSockets, OperatorStop, CloseSockets, SocketInv, HasTasks, Tasks
    <3>2. UNCHANGED <<task, shutdown, latecomer>>
      BY <2>2 DEF RestartSockets, OperatorStop
    <3>3. \A c \in latecomer : client'[c] = client[c]
      BY <2>2 DEF RestartSockets, OperatorStop, CloseSockets, LatecomerInv, LifecycleTypeOK
    <3>4. \A s \in Sockets : queue'[s] \in Seq(ClientsOf(s)')
      <4>1. \A S : <<>> \in Seq(S)
        OBVIOUS
      <4>2. QED
        BY <3>1, <4>1
    <3>5. \A c \in latecomer : client'[c] \in {"idle", "away"} /\ task'[SocketOf[c]] # "accept"
      BY <3>2, <3>3 DEF LatecomerInv
    <3>6. QED
      BY <3>1, <3>2, <3>4, <3>5 DEF LatecomerInv, OneLateAccept
  <2>3. QED
    BY <1>17, <2>1, <2>2
<1>18. QED
    BY <1>3, <1>4, <1>5, <1>6, <1>7, <1>8, <1>9, <1>10, <1>11, <1>12, <1>15, <1>16, <1>17
       DEF LifecycleNext, MainStep, FailedStep, ListenerStep

(* While main runs, only Bind and SetMode change a socket file.            *)
LEMMA SocketStep ==
    ASSUME LifecycleTypeOK, SocketInv, [LifecycleNext]_lifeVars
    PROVE  SocketInv'
<1> USE DEF socketVars, procVars, clientVars, timeVars, countVars
<1>1. passed' = passed => \A s \in Sockets : Passed(s)' = Passed(s)
    BY DEF Passed
<1>0. /\ "varlink" \in Sockets /\ "fd" \in Sockets
      /\ UNCHANGED <<passed, unit>> => \A s \in Sockets : Reach(s)' = Reach(s)
    BY <1>1 DEF Sockets, Reach
<1>2. ASSUME NEW how, NEW left, EndProcess(how, left), passed' = passed
      PROVE  SocketInv'
  <2>1. pc' = "off" /\ \A t \in Tasks : task'[t] = "none"
    BY <1>2 DEF EndProcess
  <2>2. ASSUME NEW s \in Sockets, Passed(s)'
        PROVE  unit' = "stale" /\ file'[s] = "absent"
    BY <1>1, <1>2, <2>2 DEF EndProcess, Passed, LifecycleTypeOK
  <2>3. QED
    BY <2>1, <2>2 DEF SocketInv, Reach, HasTasks
<1>3. ASSUME UNCHANGED <<socketVars, pc>>,
             pc \in HasTasks \/ task' = task
      PROVE  SocketInv'
    BY <1>0, <1>1, <1>3 DEF SocketInv, Current
<1>4. ASSUME UNCHANGED <<socketVars, task>>,
             pc \in HasTasks <=> pc' \in HasTasks,
             pc' \notin {"socket2", "chmod2", "chmod1"},
             passed > 0 /\ pc' # "off" => unit # "closed"
      PROVE  SocketInv'
    BY <1>0, <1>1, <1>4 DEF SocketInv
<1>5. CASE ManagerStart \/ OperatorStart \/ OpenStores \/ NotifyReady \/ InstallSignals
           \/ ReceiveSignal \/ DrainEnds \/ NotifyStopping
    BY <1>4, <1>5 DEF ManagerStart, OperatorStart, Start, OpenStores, NotifyReady,
       InstallSignals, ReceiveSignal, DrainEnds, NotifyStopping, HasTasks, SocketInv
<1>6. CASE Adopt
    BY <1>1, <1>6 DEF Adopt, Adopts, Passed, LifecycleTypeOK, Current, SocketInv, HasTasks, Sockets, Reach
<1>7. CASE Bind
    BY <1>1, <1>7 DEF Bind, Adopts, Current, SocketInv, HasTasks, Sockets, LifecycleTypeOK, Reach
<1>8. CASE SetMode
    BY <1>1, <1>8 DEF SetMode, Current, SocketInv, HasTasks, Sockets, LifecycleTypeOK, Reach
<1>9. CASE Spawn
    BY <1>0, <1>1, <1>9 DEF Spawn, SocketInv, HasTasks
<1>10. CASE BindFails \/ Exit \/ OpenStoresFails \/ AdoptFails
            \/ InstallSignalsFails \/ Killed \/ EarlySignal
    BY <1>2, <1>10 DEF BindFails, Exit, OpenStoresFails, AdoptFails,
       InstallSignalsFails, Killed, EarlySignal
<1>11. CASE SetModeFails
    BY <1>2, <1>11 DEF SetModeFails
<1>12. ASSUME NEW s \in Sockets, CleanSocketFile(s)
       PROVE  SocketInv'
    BY <1>1, <1>12 DEF CleanSocketFile, SocketInv, HasTasks, LifecycleTypeOK, Sockets, Current, Reach
<1>13. ASSUME NEW s \in Sockets, ListenerStep(s) \/ AcceptFails(s)
       PROVE  SocketInv'
  <2>1. pc \in HasTasks
    BY <1>13 DEF ListenerStep, ListenerStop, ListenerPoll, Accept, AcceptFails, SocketInv, Tasks
  <2>2. QED
    BY <1>3, <1>13, <2>1 DEF ListenerStep, ListenerStop, ListenerPoll, Accept, AcceptFails
<1>14. ASSUME NEW c \in Client, ClientStep(c)
       PROVE  SocketInv'
    BY <1>3, <1>14
       DEF ClientStep, Connect, ClientStop, ClientPoll, ClientEof, ClientRead, ClientWaits,
           FinishCall, WriteReply, WriteFails, SetClient
<1>15. CASE WatchdogStop
  <2>1. pc \in HasTasks
    BY <1>15 DEF WatchdogStop, SocketInv, Tasks
  <2>2. QED
    BY <1>3, <1>15, <2>1 DEF WatchdogStop
<1>16. CASE NotifyWatchdog \/ Tick \/ Signal \/ UNCHANGED lifeVars
    BY <1>3, <1>16 DEF NotifyWatchdog, Tick, Signal, lifeVars
<1>17. CASE RestartSockets \/ OperatorStop \/ OpenSockets
  <2>1. pc = "off" /\ UNCHANGED <<passed, pc, task>>
    BY <1>17 DEF RestartSockets, OperatorStop, OpenSockets
  <2>2. ASSUME NEW s \in Sockets, Passed(s)', unit' # "closed"
        PROVE  unit' = "open" /\ file'[s] = "ready"
    BY <1>1, <1>17, <2>1, <2>2 DEF RestartSockets, OperatorStop, OpenSockets, OpenedFiles
  <2>3. QED
    BY <2>1, <2>2 DEF SocketInv, Reach, HasTasks
<1>18. QED
    BY <1>5, <1>6, <1>7, <1>8, <1>9, <1>10, <1>11, <1>12, <1>13, <1>14, <1>15, <1>16, <1>17
       DEF LifecycleNext, MainStep, FailedStep

(* What the sum of age and next, or of age and drainLeft, may come to. *)
LEMMA WatchdogStep ==
    ASSUME LifecycleTypeOK, SocketInv, WatchdogInv, [LifecycleNext]_lifeVars
    PROVE  WatchdogInv'
<1> USE DEF socketVars, procVars, clientVars, timeVars, countVars
<1>1. Period \in Nat /\ (passed' = passed => Period' = Period)
    BY PeriodIsNat DEF LifecycleTypeOK, Period, Watched
<1>2. Watched /\ WatchdogUsec # 0 => Period # 0
    BY PeriodPositive, LifecycleAssumption DEF Period
<1>3. DrainTime \in Nat /\ Slack \in Nat
    BY LifecycleAssumption DEF DrainTime
<1>4. ASSUME NEW how, NEW left, EndProcess(how, left)
      PROVE  WatchdogInv'
    BY <1>4 DEF EndProcess, WatchdogInv
<1>5. ASSUME UNCHANGED <<passed, pc, task, shutdown, armed, age, next, late, drainLeft>>
      PROVE  WatchdogInv'
    BY <1>1, <1>5 DEF WatchdogInv, Watched
<1>6. CASE ManagerStart \/ OperatorStart \/ OpenStores \/ Adopt \/ Bind \/ SetMode
    BY <1>6 DEF ManagerStart, OperatorStart, Start, OpenStores, Adopt, Bind, SetMode, WatchdogInv
<1>7. CASE Spawn
  <2>1. pc' = "ready" => Period' = 0 \/ task'["watchdog"] = "select"
    BY <1>1, <1>7 DEF Spawn, LifecycleTypeOK, Tasks
  <2>2. ~armed /\ ~armed' /\ ~shutdown /\ ~shutdown' /\ pc' \in {"ready", "spawn"}
    BY <1>7 DEF Spawn, WatchdogInv
  <2>3. QED
    BY <2>1, <2>2 DEF WatchdogInv
<1>8. CASE NotifyReady
    BY <1>1, <1>8 DEF NotifyReady, Watched, WatchdogInv, LifecycleTypeOK
<1>9. CASE InstallSignals
    BY <1>1, <1>9 DEF InstallSignals, Watched, WatchdogInv
<1>10. CASE ReceiveSignal
    BY <1>1, <1>3, <1>10 DEF ReceiveSignal, Watched, WatchdogInv, LifecycleTypeOK
<1>11. CASE DrainEnds
    BY <1>1, <1>3, <1>11 DEF DrainEnds, Watched, WatchdogInv, LifecycleTypeOK
<1>12. CASE NotifyStopping
    BY <1>12 DEF NotifyStopping, WatchdogInv
<1>13. CASE BindFails \/ Exit \/ OpenStoresFails \/ AdoptFails \/ SetModeFails
            \/ InstallSignalsFails \/ Killed \/ EarlySignal
    BY <1>4, <1>13 DEF BindFails, Exit, OpenStoresFails, AdoptFails, SetModeFails,
       InstallSignalsFails, Killed, EarlySignal
<1>14. ASSUME UNCHANGED <<passed, pc, shutdown, timeVars>>,
              task["watchdog"] = "select" /\ ~shutdown => task'["watchdog"] = "select"
       PROVE  WatchdogInv'
    BY <1>1, <1>14 DEF WatchdogInv, Watched
<1>15. ASSUME NEW s \in Sockets, ListenerStep(s) \/ AcceptFails(s)
       PROVE  WatchdogInv'
    BY <1>14, <1>15 DEF ListenerStep, ListenerStop, ListenerPoll, Accept, AcceptFails,
       LifecycleTypeOK, Sockets, Tasks
<1>16. ASSUME NEW s \in Sockets, CleanSocketFile(s)
       PROVE  WatchdogInv'
    BY <1>5, <1>16 DEF CleanSocketFile
<1>17. ASSUME NEW c \in Client, ClientStep(c)
       PROVE  WatchdogInv'
    BY <1>5, <1>17
       DEF ClientStep, Connect, ClientStop, ClientPoll, ClientEof, ClientRead, ClientWaits,
           FinishCall, WriteReply, WriteFails, SetClient
<1>18. CASE WatchdogStop
    BY <1>14, <1>18 DEF WatchdogStop
<1>19. CASE NotifyWatchdog
    BY <1>1, <1>3, <1>19 DEF NotifyWatchdog, Watched, WatchdogInv, LifecycleTypeOK
<1>20. CASE Tick
  <2>1. armed /\ ~shutdown => task["watchdog"] = "select"
    BY <1>2 DEF WatchdogInv
  <2>2. armed' /\ ~shutdown' => age' + next' <= Period' + late'
    BY <1>1, <1>20, <2>1 DEF Tick, Watched, Due, WatchdogInv, LifecycleTypeOK
  <2>3. armed' /\ pc' = "drain" => age' + drainLeft' <= Period' + Slack + DrainTime
    BY <1>1, <1>3, <1>20 DEF Tick, Watched, WatchdogInv, LifecycleTypeOK
  <2>4. QED
    BY <1>1, <1>20, <2>2, <2>3 DEF Tick, Watched, WatchdogInv
<1>21. CASE Signal \/ RestartSockets \/ OperatorStop \/ OpenSockets \/ UNCHANGED lifeVars
    BY <1>5, <1>21 DEF Signal, RestartSockets, OperatorStop, OpenSockets, lifeVars
<1>22. QED
    BY <1>6, <1>7, <1>8, <1>9, <1>10, <1>11, <1>12, <1>13, <1>15, <1>16, <1>17, <1>18, <1>19,
       <1>20, <1>21
       DEF LifecycleNext, MainStep, FailedStep

(* A task that has ended stays so until the process ends. *)
LEMMA DrainStep ==
    ASSUME LifecycleTypeOK, DrainInv, [LifecycleNext]_lifeVars
    PROVE  DrainInv'
<1> USE DEF socketVars, procVars, clientVars, timeVars, countVars
<1>1. ASSUME pc' \notin {"stop", "exit"}
      PROVE  DrainInv'
    BY <1>1 DEF DrainInv
<1>2. ASSUME UNCHANGED <<pc, task, drainLeft>>
      PROVE  DrainInv'
    BY <1>2 DEF DrainInv, Drained
<1>3. CASE ManagerStart \/ OperatorStart \/ OpenStores \/ Adopt \/ Bind \/ SetMode \/ Spawn
           \/ NotifyReady \/ InstallSignals \/ ReceiveSignal
    BY <1>1, <1>3 DEF ManagerStart, OperatorStart, Start, OpenStores, Adopt, Bind, SetMode, Spawn,
       NotifyReady, InstallSignals, ReceiveSignal
<1>4. CASE BindFails \/ Exit \/ OpenStoresFails \/ AdoptFails \/ SetModeFails
           \/ InstallSignalsFails \/ Killed \/ EarlySignal
    BY <1>1, <1>4 DEF BindFails, Exit, OpenStoresFails, AdoptFails, SetModeFails,
       InstallSignalsFails, Killed, EarlySignal, EndProcess
<1>5. CASE DrainEnds
    BY <1>5 DEF DrainEnds, DrainInv, Drained, LifecycleTypeOK
<1>6. CASE NotifyStopping
    BY <1>6 DEF NotifyStopping, DrainInv, Drained
<1>7. CASE Tick
    BY <1>7 DEF Tick, DrainInv, Drained
<1>8. ASSUME NEW s \in Sockets, ListenerStep(s) \/ AcceptFails(s)
      PROVE  DrainInv'
    BY <1>8 DEF ListenerStep, ListenerStop, ListenerPoll, Accept, AcceptFails, DrainInv, Drained, Tasks
<1>9. CASE WatchdogStop
    BY <1>9 DEF WatchdogStop, DrainInv, Drained, Tasks
<1>10. ASSUME NEW s \in Sockets, CleanSocketFile(s)
       PROVE  DrainInv'
    BY <1>2, <1>10 DEF CleanSocketFile
<1>11. ASSUME NEW c \in Client, ClientStep(c)
       PROVE  DrainInv'
    BY <1>2, <1>11
       DEF ClientStep, Connect, ClientStop, ClientPoll, ClientEof, ClientRead, ClientWaits,
           FinishCall, WriteReply, WriteFails, SetClient
<1>12. CASE NotifyWatchdog \/ Signal \/ UNCHANGED lifeVars
            \/ RestartSockets \/ OperatorStop \/ OpenSockets
    BY <1>2, <1>12 DEF NotifyWatchdog, Signal, lifeVars, RestartSockets, OperatorStop, OpenSockets
<1>13. QED
    BY <1>3, <1>4, <1>5, <1>6, <1>7, <1>8, <1>9, <1>10, <1>11, <1>12
       DEF LifecycleNext, MainStep, FailedStep

(* The invariants hold at first, and together they are kept. *)
LifecycleInv == LifecycleTypeOK /\ LatecomerInv /\ SocketInv /\ WatchdogInv /\ DrainInv

LEMMA LifecycleInvariant == LifecycleSpec => []LifecycleInv
<1>1. LifecycleInit => LifecycleInv
  <2> SUFFICES ASSUME LifecycleInit PROVE LifecycleInv
    OBVIOUS
  <2>1. Period \in Nat
    BY PeriodIsNat DEF LifecycleInit
  <2>2. DrainTime \in Nat /\ Slack \in Nat /\ MaxStarts \in Nat /\ MaxFaults \in Nat /\ 0 \in 0 .. MaxCalls
    BY LifecycleAssumption DEF DrainTime
  <2>3. queue \in [Sockets -> Seq(Client)] /\ \A s \in Sockets : queue[s] \in Seq(ClientsOf(s))
    BY DEF LifecycleInit
  <2>4. file \in [Sockets -> {"absent", "raw", "ready"}]
    BY DEF LifecycleInit
  <2>5. LifecycleTypeOK
    <3>1. armed \in BOOLEAN /\ shutdown \in BOOLEAN /\ sig \in BOOLEAN
      BY DEF LifecycleInit
    <3>2. task \in [Tasks -> {"none", "select", "accept", "done"}]
      BY DEF LifecycleInit
    <3>3. /\ client \in [Client -> {"away", "lost", "queued", "idle", "read"} \cup InHand]
          /\ calls \in [Client -> 0 .. MaxCalls] /\ unit \in {"open", "stale", "closed"}
      BY <2>2 DEF LifecycleInit
    <3>4. age \in Nat /\ next \in Nat /\ next <= Period /\ late \in 0 .. Slack
          /\ drainLeft \in 0 .. DrainTime /\ starts \in 0 .. MaxStarts /\ faults \in 0 .. MaxFaults
      BY <2>1, <2>2 DEF LifecycleInit
    <3>5. QED
      BY <2>3, <2>4, <3>1, <3>2, <3>3, <3>4 DEF LifecycleInit, LifecycleTypeOK
  <2>6. LatecomerInv
    BY <2>3 DEF LifecycleInit, LatecomerInv, OneLateAccept, Tasks
  <2>7. SocketInv
    BY DEF LifecycleInit, SocketInv, HasTasks, Reach, Passed
  <2>8. WatchdogInv
    BY DEF LifecycleInit, WatchdogInv
  <2>9. DrainInv
    BY DEF LifecycleInit, DrainInv
  <2>10. QED
    BY <2>5, <2>6, <2>7, <2>8, <2>9 DEF LifecycleInv
<1>2. LifecycleInv /\ [LifecycleNext]_lifeVars => LifecycleInv'
    BY LifecycleTypeStep, LatecomerStep, SocketStep, WatchdogStep, DrainStep DEF LifecycleInv
<1>3. QED
    BY <1>1, <1>2, PTL DEF LifecycleSpec

(* Types of the daemon's state, over starts, stops, failures and kills. *)
THEOREM LifecycleTypeCorrect == LifecycleSpec => []LifecycleTypeOK
<1>1. LifecycleInv => LifecycleTypeOK
    BY DEF LifecycleInv
<1>2. QED
    BY <1>1, LifecycleInvariant, PTL

(* A daemon that is alive is never too late for its watchdog, for every    *)
(* timeout that covers a period, the lateness and the drain.               *)
THEOREM WatchdogIsFed == LifecycleSpec => []WatchdogFed
<1>1. LifecycleInv => WatchdogFed
  <2> SUFFICES ASSUME LifecycleInv, armed PROVE age <= WatchdogUsec
    BY DEF WatchdogFed
  <2>1. Watched /\ WatchdogUsec # 0
    BY DEF LifecycleInv, WatchdogInv
  <2>2. Period = WatchdogPeriod(WatchdogUsec)
    BY <2>1 DEF Period, LifecycleInv, LifecycleTypeOK
  <2>3. Period \in Nat
    BY PeriodIsNat DEF LifecycleInv, LifecycleTypeOK
  <2>4. Period + Slack + DrainTime <= WatchdogUsec
    BY <2>1, <2>2, LifecycleAssumption
  <2>5. DrainTime \in Nat /\ Slack \in Nat /\ WatchdogUsec \in Nat
    BY LifecycleAssumption DEF DrainTime
  <2>6. age \in Nat /\ next \in Nat /\ late \in 0 .. Slack /\ drainLeft \in 0 .. DrainTime
    BY DEF LifecycleInv, LifecycleTypeOK
  <2>7. CASE ~shutdown
    <3>1. age + next <= Period + late
      BY <2>7 DEF LifecycleInv, WatchdogInv
    <3>2. QED
      BY <2>3, <2>4, <2>5, <2>6, <3>1
  <2>8. CASE shutdown
    <3>1. pc = "drain" \/ pc = "stop"
      BY <2>8 DEF LifecycleInv, WatchdogInv
    <3>2. age <= Period + Slack + DrainTime
      BY <2>3, <2>5, <2>6, <3>1 DEF LifecycleInv, WatchdogInv
    <3>3. QED
      BY <2>3, <2>4, <2>5, <2>6, <3>2
  <2>9. QED
    BY <2>7, <2>8
<1>2. QED
    BY <1>1, LifecycleInvariant, PTL

(* After the signal a listener accepts one more connection at most. *)
THEOREM AtMostOneLateAccept == LifecycleSpec => []OneLateAccept
<1>1. LifecycleInv => OneLateAccept
    BY DEF LifecycleInv, LatecomerInv
<1>2. QED
    BY <1>1, LifecycleInvariant, PTL

(* No call is carried out on a connection accepted after the signal. *)
THEOREM LatecomersAreUnserved == LifecycleSpec => []LatecomerUnserved
<1>1. LifecycleInv => LatecomerUnserved
    BY DEF LifecycleInv, LatecomerInv, LatecomerUnserved, InHand
<1>2. QED
    BY <1>1, LifecycleInvariant, PTL

(* Every listener accepts on a socket file of the right mode, but for one  *)
(* of the manager's that has outlived a process: its file is gone.         *)
THEOREM ListenersAreReachable == LifecycleSpec => []ListenersReachable
<1>1. LifecycleInv => ListenersReachable
    BY DEF LifecycleInv, SocketInv, ListenersReachable, Sockets, Tasks
<1>2. QED
    BY <1>1, LifecycleInvariant, PTL

(* Who accepts a connection: only a listener in the middle of a poll. *)
LEMMA QueuedToIdle ==
    ASSUME LifecycleInv, [LifecycleNext]_lifeVars, NEW c \in Client,
           client[c] = "queued", client'[c] = "idle"
    PROVE  \E s \in Sockets : task[s] = "accept"
<1> USE DEF socketVars, procVars, clientVars, timeVars, countVars
<1>1. ASSUME NEW how, NEW left, EndProcess(how, left) PROVE FALSE
    BY <1>1 DEF EndProcess
<1>2. ASSUME NEW b \in Client, ClientStep(b) PROVE FALSE
    BY <1>2 DEF LifecycleInv, LifecycleTypeOK, ClientStep, Connect, ClientStop, ClientPoll, ClientEof,
       ClientRead, ClientWaits, FinishCall, WriteReply, WriteFails, SetClient
<1>3. ASSUME NEW s \in Sockets, ListenerStop(s) PROVE FALSE
    BY <1>3 DEF ListenerStop
<1>4. ~UNCHANGED client
    OBVIOUS
<1>5. ASSUME CloseSockets PROVE FALSE
    BY <1>5 DEF CloseSockets
<1>6. QED
    BY <1>1, <1>2, <1>3, <1>4, <1>5
       DEF LifecycleNext, MainStep, FailedStep, ListenerStep, ManagerStart, OperatorStart, Start,
           RestartSockets, OperatorStop, OpenSockets,
           OpenStores, Adopt, Bind, BindFails, SetMode, Spawn, NotifyReady, InstallSignals,
           ReceiveSignal, DrainEnds, NotifyStopping, Exit, OpenStoresFails, AdoptFails, SetModeFails,
           InstallSignalsFails, Killed, AcceptFails, ListenerPoll, Accept, CleanSocketFile,
           WatchdogStop, NotifyWatchdog, Tick, Signal, EarlySignal, lifeVars

(* Unless the drain ran out of time, nothing is accepted after STOPPING=1. *)
THEOREM NothingAcceptedAfterStopping == LifecycleSpec => NoAcceptAfterStopping
<1> DEFINE Quiet == pc = "exit" /\ drainLeft > 0 =>
                      \A c \in Client : client[c] = "queued" => client'[c] # "idle"
<1>1. LifecycleInv /\ [LifecycleNext]_lifeVars => [Quiet]_lifeVars
  <2> SUFFICES ASSUME LifecycleInv, [LifecycleNext]_lifeVars, pc = "exit", drainLeft > 0,
                      NEW c \in Client, client[c] = "queued", client'[c] = "idle"
               PROVE  FALSE
    OBVIOUS
  <2>1. \A s \in Sockets : task[s] = "done"
    BY DEF LifecycleInv, DrainInv, Drained, Tasks
  <2>2. QED
    BY <2>1, QueuedToIdle
<1>2. QED
    BY <1>1, LifecycleInvariant, PTL DEF LifecycleSpec, NoAcceptAfterStopping
=============================================================================
