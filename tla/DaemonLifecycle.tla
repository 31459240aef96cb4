--------------------------- MODULE DaemonLifecycle ---------------------------
(***************************************************************************)
(* The daemon process from start to exit (main.rs, activation.rs,          *)
(* notify.rs and the two accept loops), its clients, and the service       *)
(* manager with modeld.service and modeld.socket, by whose PartOf= and     *)
(* RuntimeDirectory= the sockets and their files go with the service.  A   *)
(* start adopts the sockets the manager passes or binds its own, spawns    *)
(* two listener tasks and a watchdog task, reports READY=1, and waits for  *)
(* a signal; it then raises the shutdown channel, waits two seconds at     *)
(* most for the three tasks, reports STOPPING=1 and returns.               *)
(* Connections are tasks of their own that nobody awaits.  Time advances   *)
(* in units; a task that is due is polled within Slack units.              *)
(***************************************************************************)
EXTENDS Integers, Sequences

CONSTANTS
    Client,         \* peers, each with one connection at a time
    SocketOf,       \* the socket a client connects to
    Second,         \* time units in a second
    WatchdogSet,    \* whether the manager sets WATCHDOG_USEC
    WatchdogUsec,   \* the manager's watchdog timeout, in time units
    DefaultPeriod,  \* ten seconds in the code, in time units
    Slack,          \* how late the runtime may poll a task that is due
    MaxCalls,       \* bound on the calls that one read completes
    MaxStarts,      \* bound on the starts
    MaxFaults       \* bound on the system calls that fail and the kills

Sockets   == {"varlink", "fd"}
Tasks     == Sockets \cup {"watchdog"}
DrainTime == 2 * Second

Least(a, b) == IF a <= b THEN a ELSE b

(* watchdog_period_from_env when the manager sets WATCHDOG_USEC *)
WatchdogPeriod(usec) ==
    IF usec = 0 THEN 0
    ELSE Least(IF usec >= 3 * Second THEN usec \div 3 ELSE Second, 300 * Second)

(* The manager's timeout covers a period, the lateness of the ping and the *)
(* whole drain.  For WatchdogSec=15 of modeld.service that is 5 + 2        *)
(* seconds, and leaves 8 for the lateness.                                 *)
ASSUME LifecycleAssumption ==
    /\ SocketOf \in [Client -> Sockets]
    /\ Second \in Nat \ {0}
    /\ DefaultPeriod \in Nat \ {0}
    /\ Slack \in Nat
    /\ MaxCalls \in Nat \ {0}
    /\ MaxStarts \in Nat
    /\ MaxFaults \in Nat
    /\ WatchdogSet \in BOOLEAN
    /\ WatchdogUsec \in Nat
    /\ WatchdogUsec # 0 => WatchdogPeriod(WatchdogUsec) + Slack + DrainTime <= WatchdogUsec

VARIABLES
    passed,     \* LISTEN_FDS of the manager, 0 when there is no manager
    unit,       \* the manager's sockets: "open", "stale" (open still, but
                \* their files are gone) or "closed"
    file,       \* per socket: "absent", "raw" (bound) or "ready" (mode set)
    pc,         \* where main stands
    task,       \* per task: "none", "select", "accept", "done"
    shutdown,   \* the value of the shutdown watch channel
    sig,        \* whether a caught signal waits for main
    queue,      \* per socket: connections not accepted yet, oldest first
    client,     \* per client: "away", "lost" (the manager dropped it from a
                \* backlog), "queued", "idle", "read", "call", "reply"
    calls,      \* per client: calls of its last read that are not answered
    latecomer,  \* clients accepted after shutdown was raised
    armed,      \* whether the manager's watchdog timer runs
    age,        \* time since the manager's last ping
    next,       \* time until the watchdog task is due
    late,       \* time since it became due
    drainLeft,  \* time left for the drain
    end,        \* how the last process ended, while there is none
    starts, faults

socketVars == <<passed, unit, file>>
procVars   == <<task, shutdown, sig>>
clientVars == <<queue, client, calls, latecomer>>
timeVars   == <<armed, age, next, late, drainLeft>>
countVars  == <<starts, faults>>
lifeVars   == <<socketVars, pc, procVars, clientVars, timeVars, end, countVars>>

Passed(s) == IF s = "varlink" THEN passed >= 1 ELSE passed >= 2

(* the period of a daemon that does not read WATCHDOG_USEC *)
Period_Default == DefaultPeriod

Watched == passed > 0 /\ WatchdogSet

(* DEFAULT_WATCHDOG_PERIOD_SECS when no WATCHDOG_USEC is set *)
Period == IF Watched THEN WatchdogPeriod(WatchdogUsec) ELSE DefaultPeriod

(* The socket main is about to obtain, and the task it is about to spawn. *)
Current  == IF pc \in {"socket1", "chmod1"} THEN "varlink" ELSE "fd"
NextTask == CASE task["varlink"] = "none" -> "varlink"
              [] task["varlink"] # "none" /\ task["fd"] = "none" -> "fd"
              [] OTHER -> "watchdog"

Running   == pc # "off"
InHand    == {"call", "reply"}                     \* a call has been read
BeforeSignals == {"open", "socket1", "chmod1", "socket2", "chmod2", "spawn", "ready", "signals"}

LifecycleTypeOK ==
    /\ passed \in 0 .. 2
    /\ unit \in {"open", "stale", "closed"}
    /\ file \in [Sockets -> {"absent", "raw", "ready"}]
    /\ pc \in BeforeSignals \cup {"off", "wait", "drain", "stop", "exit"}
    /\ task \in [Tasks -> {"none", "select", "accept", "done"}]
    /\ shutdown \in BOOLEAN
    /\ sig \in BOOLEAN
    /\ queue \in [Sockets -> Seq(Client)]
    /\ client \in [Client -> {"away", "lost", "queued", "idle", "read"} \cup InHand]
    /\ calls \in [Client -> 0 .. MaxCalls]
    /\ latecomer \subseteq Client
    /\ armed \in BOOLEAN
    /\ age \in Nat
    /\ next \in Nat /\ next <= Period
    /\ late \in 0 .. Slack
    /\ drainLeft \in 0 .. DrainTime
    /\ end \in {"none", "clean", "signal", "failure"}
    /\ starts \in 0 .. MaxStarts
    /\ faults \in 0 .. MaxFaults

LifecycleInit ==
    /\ passed \in 0 .. 2
    /\ unit = IF passed = 0 THEN "closed" ELSE "open"
    /\ file = [s \in Sockets |-> IF Passed(s) THEN "ready" ELSE "absent"]
    /\ pc = "off"
    /\ task = [t \in Tasks |-> "none"]
    /\ shutdown = FALSE
    /\ sig = FALSE
    /\ queue = [s \in Sockets |-> <<>>]
    /\ client = [c \in Client |-> "away"]
    /\ calls = [c \in Client |-> 0]
    /\ latecomer = {}
    /\ armed = FALSE
    /\ age = 0
    /\ next = 0
    /\ late = 0
    /\ drainLeft = DrainTime
    /\ end = "none"
    /\ starts = 0
    /\ faults = 0

-----------------------------------------------------------------------------
(* The end of the process: its tasks and descriptors are gone.  Without a   *)
(* manager its socket files stay; with one they go with RuntimeDirectory,   *)
(* and the manager's own sockets outlive them, with what waits there.       *)
EndProcess(how, left) ==
    /\ pc' = "off"
    /\ unit' = IF passed > 0 THEN "stale" ELSE unit
    /\ file' = IF passed > 0 THEN [s \in Sockets |-> "absent"] ELSE left
    /\ task' = [t \in Tasks |-> "none"]
    /\ shutdown' = FALSE
    /\ sig' = FALSE
    /\ queue' = [s \in Sockets |-> IF Passed(s) THEN queue[s] ELSE <<>>]
    /\ client' = [c \in Client |->
                    IF client[c] = "lost" \/ (client[c] = "queued" /\ Passed(SocketOf[c]))
                    THEN client[c] ELSE "away"]
    /\ calls' = [c \in Client |-> 0]
    /\ latecomer' = {}
    /\ armed' = FALSE
    /\ age' = 0
    /\ next' = 0
    /\ late' = 0
    /\ drainLeft' = DrainTime
    /\ end' = how

Fault == faults < MaxFaults /\ faults' = faults + 1

(* PartOf=: a stop or a restart of the service reaches the sockets, which   *)
(* are closed, and what waits in them is dropped.                           *)
CloseSockets ==
    /\ passed > 0
    /\ queue' = [s \in Sockets |-> <<>>]
    /\ client' = [c \in Client |-> IF client[c] = "queued" THEN "lost" ELSE client[c]]

OpenedFiles == [s \in Sockets |-> IF Passed(s) THEN "ready" ELSE file[s]]

(* Restart=on-failure, before the service itself: the sockets are new.      *)
RestartSockets ==
    /\ pc = "off" /\ end = "failure" /\ unit = "stale"
    /\ CloseSockets
    /\ unit' = "open"
    /\ file' = OpenedFiles
    /\ UNCHANGED <<passed, pc, procVars, calls, latecomer, timeVars, end, countVars>>

(* The rest of systemctl stop, when the process has ended, or was not there.*)
OperatorStop ==
    /\ pc = "off" /\ unit # "closed"
    /\ CloseSockets
    /\ unit' = "closed"
    /\ end' = "clean"
    /\ UNCHANGED <<passed, file, pc, procVars, calls, latecomer, timeVars, countVars>>

(* systemctl start of the sockets or, by Requires=, of the service.         *)
OpenSockets ==
    /\ pc = "off" /\ passed > 0 /\ unit = "closed"
    /\ unit' = "open"
    /\ file' = OpenedFiles
    /\ UNCHANGED <<passed, pc, procVars, clientVars, timeVars, end, countVars>>

(* One start: the manager restarts the unit after a failure, and starts it  *)
(* when a connection waits; an operator may start it at any time.  The      *)
(* sockets come first.                                                      *)
Start ==
    /\ pc = "off"
    /\ passed > 0 => unit # "closed" /\ (end = "failure" => unit = "open")
    /\ starts < MaxStarts
    /\ starts' = starts + 1
    /\ pc' = "open"
    /\ end' = "none"
    /\ UNCHANGED <<socketVars, procVars, clientVars, timeVars, faults>>

ManagerStart ==
    /\ passed > 0
    /\ end = "failure" \/ \E s \in Sockets : queue[s] # <<>>
    /\ Start

OperatorStart == Start

(* CasStore::new, TagRegistry::new and EvictionManager::new *)
OpenStores ==
    /\ pc = "open"
    /\ pc' = "socket1"
    /\ UNCHANGED <<socketVars, procVars, clientVars, timeVars, end, countVars>>

OpenStoresFails ==
    /\ pc = "open"
    /\ Fault
    /\ EndProcess("failure", file)
    /\ UNCHANGED <<passed, starts>>

(* parse_listen_fds for one of the two descriptors *)
Adopts(s) == Passed(s)

Adopt ==
    /\ pc \in {"socket1", "socket2"}
    /\ Adopts(Current)
    /\ pc' = IF pc = "socket1" THEN "socket2" ELSE "spawn"
    /\ UNCHANGED <<socketVars, procVars, clientVars, timeVars, end, countVars>>

(* The descriptor cannot be registered and is dropped; binding the path     *)
(* then fails, as the file exists or that listener cannot be registered.    *)
AdoptFails ==
    /\ pc \in {"socket1", "socket2"}
    /\ Adopts(Current)
    /\ Fault
    /\ EndProcess("failure", file)
    /\ UNCHANGED <<passed, starts>>

(* the chmod left out *)
Bind_NoMode ==
    /\ pc \in {"socket1", "socket2"}
    /\ ~Adopts(Current)
    /\ file[Current] = "absent"
    /\ file' = [file EXCEPT ![Current] = "raw"]
    /\ pc' = IF pc = "socket1" THEN "socket2" ELSE "spawn"
    /\ UNCHANGED <<passed, unit, procVars, clientVars, timeVars, end, countVars>>

(* bind_standalone *)
Bind ==
    /\ pc \in {"socket1", "socket2"}
    /\ ~Adopts(Current)
    /\ file[Current] = "absent"
    /\ file' = [file EXCEPT ![Current] = "raw"]
    /\ pc' = IF pc = "socket1" THEN "chmod1" ELSE "chmod2"
    /\ UNCHANGED <<passed, unit, procVars, clientVars, timeVars, end, countVars>>

BindFails ==
    /\ pc \in {"socket1", "socket2"}
    /\ ~Adopts(Current)
    /\ file[Current] # "absent"
    /\ EndProcess("failure", file)
    /\ UNCHANGED <<passed, countVars>>

SetMode ==
    /\ pc \in {"chmod1", "chmod2"}
    /\ file' = [file EXCEPT ![Current] = "ready"]
    /\ pc' = IF pc = "chmod1" THEN "socket2" ELSE "spawn"
    /\ UNCHANGED <<passed, unit, procVars, clientVars, timeVars, end, countVars>>

SetModeFails ==
    /\ pc \in {"chmod1", "chmod2"}
    /\ Fault
    /\ EndProcess("failure", [file EXCEPT ![Current] = "absent"])
    /\ UNCHANGED <<passed, starts>>

(* The two listeners and the watchdog, whose first tick is due at once; a  *)
(* zero period ends it.                                                    *)
Spawn ==
    /\ pc = "spawn"
    /\ task' = [task EXCEPT ![NextTask] =
                   IF NextTask = "watchdog" /\ Period = 0 THEN "done" ELSE "select"]
    /\ pc' = IF NextTask = "watchdog" THEN "ready" ELSE "spawn"
    /\ UNCHANGED <<socketVars, shutdown, sig, clientVars, timeVars, end, countVars>>

(* READY=1 starts the manager's watchdog timer. *)
NotifyReady ==
    /\ pc = "ready"
    /\ pc' = "signals"
    /\ armed' = (Watched /\ WatchdogUsec # 0)
    /\ age' = 0
    /\ UNCHANGED <<socketVars, procVars, clientVars, next, late, drainLeft, end, countVars>>

InstallSignals ==
    /\ pc = "signals"
    /\ pc' = "wait"
    /\ UNCHANGED <<socketVars, procVars, clientVars, timeVars, end, countVars>>

InstallSignalsFails ==
    /\ pc = "signals"
    /\ Fault
    /\ EndProcess("failure", file)
    /\ UNCHANGED <<passed, starts>>

ReceiveSignal ==
    /\ pc = "wait"
    /\ sig
    /\ shutdown' = TRUE
    /\ drainLeft' = DrainTime
    /\ pc' = "drain"
    /\ UNCHANGED <<socketVars, task, sig, clientVars, armed, age, next, late, end, countVars>>

(* the handle of the Varlink listener not awaited *)
Drained_NoVarlink == \A t \in Tasks \ {"varlink"} : task[t] = "done"

(* the awaits of the three handles, and the timeout around them *)
Drained == \A t \in Tasks : task[t] = "done"

DrainEnds ==
    /\ pc = "drain"
    /\ Drained \/ drainLeft = 0
    /\ pc' = "stop"
    /\ UNCHANGED <<socketVars, procVars, clientVars, timeVars, end, countVars>>

NotifyStopping ==
    /\ pc = "stop"
    /\ pc' = "exit"
    /\ armed' = FALSE
    /\ age' = 0
    /\ UNCHANGED <<socketVars, procVars, clientVars, next, late, drainLeft, end, countVars>>

(* the connections awaited, without a timeout *)
Exit_AwaitsClients ==
    /\ pc = "exit"
    /\ \A s \in Sockets : task[s] # "accept"
    /\ \A c \in Client : client[c] \notin {"read", "call", "reply"}
    /\ EndProcess("clean", file)
    /\ UNCHANGED <<passed, countVars>>

(* main has returned: the runtime waits for polls in progress, drops the   *)
(* tasks at their awaits, and the process exits.                           *)
Exit ==
    /\ pc = "exit"
    /\ \A s \in Sockets : task[s] # "accept"
    /\ \A c \in Client : client[c] \notin {"read", "call"}
    /\ EndProcess("clean", file)
    /\ UNCHANGED <<passed, countVars>>

MainStep ==
    \/ OpenStores \/ Adopt \/ Bind \/ BindFails \/ SetMode \/ Spawn \/ NotifyReady
    \/ InstallSignals \/ ReceiveSignal \/ DrainEnds \/ NotifyStopping \/ Exit

-----------------------------------------------------------------------------
(* The accept loops.  select! is biased: it asks the shutdown channel, and  *)
(* then the listener; the value may change between the two.                 *)
ListenerStop(s) ==
    /\ task[s] = "select"
    /\ shutdown
    /\ task' = [task EXCEPT ![s] = "done"]
    /\ queue' = [queue EXCEPT ![s] = IF Passed(s) THEN @ ELSE <<>>]
    /\ client' = [c \in Client |->
                    IF client[c] = "queued" /\ SocketOf[c] = s /\ ~Passed(s)
                    THEN "away" ELSE client[c]]
    /\ UNCHANGED <<socketVars, pc, shutdown, sig, calls, latecomer, timeVars, end, countVars>>

(* select! without biased *)
ListenerPoll_Unbiased(s) ==
    /\ task[s] = "select"
    /\ queue[s] # <<>>
    /\ task' = [task EXCEPT ![s] = "accept"]
    /\ UNCHANGED <<socketVars, pc, shutdown, sig, clientVars, timeVars, end, countVars>>

ListenerPoll(s) ==
    /\ task[s] = "select"
    /\ ~shutdown
    /\ queue[s] # <<>>
    /\ task' = [task EXCEPT ![s] = "accept"]
    /\ UNCHANGED <<socketVars, pc, shutdown, sig, clientVars, timeVars, end, countVars>>

Accept(s) ==
    /\ task[s] = "accept"
    /\ task' = [task EXCEPT ![s] = "select"]
    /\ queue' = [queue EXCEPT ![s] = Tail(@)]
    /\ client' = [client EXCEPT ![Head(queue[s])] = "idle"]
    /\ latecomer' = IF shutdown THEN latecomer \cup {Head(queue[s])} ELSE latecomer
    /\ UNCHANGED <<socketVars, pc, shutdown, sig, calls, timeVars, end, countVars>>

(* a failed accept ends the loop *)
AcceptFails_Leaves(s) ==
    /\ task[s] = "accept"
    /\ Fault
    /\ task' = [task EXCEPT ![s] = "done"]
    /\ UNCHANGED <<socketVars, pc, shutdown, sig, clientVars, timeVars, end, starts>>

AcceptFails(s) ==
    /\ task[s] = "accept"
    /\ Fault
    /\ task' = [task EXCEPT ![s] = "select"]
    /\ UNCHANGED <<socketVars, pc, shutdown, sig, clientVars, timeVars, end, starts>>

ListenerStep(s) == ListenerStop(s) \/ ListenerPoll(s) \/ Accept(s)

(* A connection: handle_varlink_client serves call after call, and          *)
(* handle_fd_request one; both ask the shutdown channel before they read.   *)
SetClient(c, v, n) ==
    /\ client' = [client EXCEPT ![c] = v]
    /\ calls' = [calls EXCEPT ![c] = n]
    /\ UNCHANGED <<socketVars, pc, procVars, queue, latecomer, timeVars, end, countVars>>

(* From bind on, a socket of the daemon's own takes connections.            *)
Bound(s) ==
    \/ task[s] \in {"select", "accept"}
    \/ task[s] = "none" /\ pc \in IF s = "varlink" THEN {"chmod1", "socket2", "chmod2", "spawn"}
                                                  ELSE {"chmod2", "spawn"}

Connect(c) ==
    LET s == SocketOf[c] IN
    /\ client[c] \in {"away", "lost"}
    /\ IF Passed(s) THEN unit = "open" ELSE Bound(s)
    /\ client' = [client EXCEPT ![c] = "queued"]
    /\ queue' = [queue EXCEPT ![s] = Append(@, c)]
    /\ latecomer' = latecomer \ {c}
    /\ UNCHANGED <<socketVars, pc, procVars, calls, timeVars, end, countVars>>

(* select! without biased *)
ClientPoll_Unbiased(c) == client[c] = "idle" /\ SetClient(c, "read", 0)

ClientStop(c) == client[c] = "idle" /\ shutdown /\ SetClient(c, "away", 0)
ClientPoll(c) == client[c] = "idle" /\ ~shutdown /\ SetClient(c, "read", 0)
ClientEof(c)  == client[c] = "read" /\ SetClient(c, "away", 0)

(* A read may complete several calls; handle_fd_request takes one.          *)
ClientRead(c) ==
    /\ client[c] = "read"
    /\ \E n \in IF SocketOf[c] = "fd" THEN {1} ELSE 1 .. MaxCalls : SetClient(c, "call", n)

(* the bytes of a call have not all arrived *)
ClientWaits(c) == client[c] = "read" /\ SetClient(c, "idle", 0)

(* dispatch_call and the handoff run without an await. *)
FinishCall(c) == client[c] = "call" /\ SetClient(c, "reply", calls[c])

(* The next buffered call follows, without a look at the shutdown channel.  *)
WriteReply(c) ==
    /\ client[c] = "reply"
    /\ IF calls[c] > 1 THEN SetClient(c, "call", calls[c] - 1)
       ELSE SetClient(c, IF SocketOf[c] = "fd" THEN "away" ELSE "idle", 0)

WriteFails(c) == client[c] = "reply" /\ SetClient(c, "away", 0)

ClientStep(c) ==
    \/ Connect(c) \/ ClientStop(c) \/ ClientPoll(c) \/ ClientEof(c) \/ ClientRead(c)
    \/ ClientWaits(c) \/ FinishCall(c) \/ WriteReply(c) \/ WriteFails(c)

-----------------------------------------------------------------------------
(* The watchdog task: shutdown first, then the tick.  A tick that was late  *)
(* leaves the schedule of the later ones alone.                             *)
WatchdogStop ==
    /\ task["watchdog"] = "select"
    /\ shutdown
    /\ task' = [task EXCEPT !["watchdog"] = "done"]
    /\ UNCHANGED <<socketVars, pc, shutdown, sig, clientVars, timeVars, end, countVars>>

NotifyWatchdog ==
    /\ task["watchdog"] = "select"
    /\ ~shutdown
    /\ next = 0
    /\ next' = IF late <= Period THEN Period - late ELSE 0
    /\ late' = IF late <= Period THEN 0 ELSE late - Period
    /\ age' = 0
    /\ UNCHANGED <<socketVars, pc, procVars, clientVars, armed, drainLeft, end, countVars>>

Due == task["watchdog"] = "select" /\ ~shutdown /\ next = 0

(* A unit of time.  It waits for what main does at once. *)
Tick ==
    /\ Running
    /\ pc # "stop"
    /\ pc = "drain" => drainLeft > 0
    /\ Due => late < Slack
    /\ age' = IF armed THEN age + 1 ELSE age
    /\ next' = IF task["watchdog"] = "select" /\ next > 0 THEN next - 1 ELSE next
    /\ late' = IF Due THEN late + 1 ELSE late
    /\ drainLeft' = IF pc = "drain" THEN drainLeft - 1 ELSE drainLeft
    /\ UNCHANGED <<socketVars, pc, procVars, clientVars, armed, end, countVars>>

(* SIGTERM or SIGINT: caught once the handlers are installed, fatal before. *)
Signal ==
    /\ pc \in {"wait", "drain", "stop", "exit"}
    /\ sig' = TRUE
    /\ UNCHANGED <<socketVars, pc, task, shutdown, clientVars, timeVars, end, countVars>>

EarlySignal ==
    /\ pc \in BeforeSignals
    /\ EndProcess("signal", file)
    /\ UNCHANGED <<passed, countVars>>

(* SIGKILL, the memory killer, a panic of main *)
Killed ==
    /\ Running
    /\ Fault
    /\ EndProcess("failure", file)
    /\ UNCHANGED <<passed, starts>>

(* The operator removes the file of a socket that nobody has bound. *)
CleanSocketFile(s) ==
    /\ pc = "off"
    /\ ~Passed(s)
    /\ file[s] # "absent"
    /\ file' = [file EXCEPT ![s] = "absent"]
    /\ UNCHANGED <<passed, unit, pc, procVars, clientVars, timeVars, end, countVars>>

FailedStep ==
    \/ OpenStoresFails \/ AdoptFails \/ SetModeFails \/ InstallSignalsFails \/ Killed
    \/ \E s \in Sockets : AcceptFails(s)

LifecycleNext ==
    \/ ManagerStart \/ OperatorStart \/ MainStep \/ FailedStep
    \/ RestartSockets \/ OperatorStop \/ OpenSockets
    \/ \E s \in Sockets : ListenerStep(s) \/ CleanSocketFile(s)
    \/ \E c \in Client : ClientStep(c)
    \/ WatchdogStop \/ NotifyWatchdog \/ Tick
    \/ Signal \/ EarlySignal

LifecycleSpec == LifecycleInit /\ [][LifecycleNext]_lifeVars

(* A poll of a connection that is under way ends: dispatch_call returns. *)
PollEnds(c) == ClientEof(c) \/ ClientRead(c) \/ ClientWaits(c) \/ FinishCall(c)

(* main and the accept loops are polled when they are ready, polls end,    *)
(* time passes, and the manager does what modeld.service and modeld.socket *)
(* ask for.  Nothing is assumed of the peers: one may never read its reply.*)
FairLifecycleSpec ==
    /\ LifecycleSpec
    /\ WF_lifeVars(MainStep)
    /\ WF_lifeVars(Tick)
    /\ WF_lifeVars(RestartSockets \/ ManagerStart)
    /\ \A s \in Sockets : WF_lifeVars(ListenerStep(s))
    /\ \A c \in Client : WF_lifeVars(PollEnds(c))
-----------------------------------------------------------------------------
(* The period of watchdog_period_from_env, the lateness of the runtime and *)
(* a drain after a signal never add up to the manager's timeout: a daemon  *)
(* that is alive is not killed by its watchdog, not even while it stops.   *)
WatchdogFed == armed => age <= WatchdogUsec

(* A listener that has passed its look at the shutdown channel may accept  *)
(* one more connection after the signal, and no second one.                *)
OneLateAccept ==
    \A s \in Sockets : \A c, d \in latecomer :
        SocketOf[c] = s /\ SocketOf[d] = s => c = d

(* Such a connection finds shutdown raised before it reads: no call that   *)
(* arrives on it is carried out.                                           *)
LatecomerUnserved == \A c \in latecomer : client[c] \notin InHand

(* "await it before notifying systemd of STOPPING=1" (main.rs): unless the *)
(* drain ran out of time, nothing is accepted after STOPPING=1.            *)
NoAcceptAfterStopping ==
    [][pc = "exit" /\ drainLeft > 0 =>
          \A c \in Client : client[c] = "queued" => client'[c] # "idle"]_lifeVars

(* The file of a socket that main has obtained: ready, unless it is one of *)
(* the manager's that has outlived a process and lost its file with it.    *)
Reach(s) == IF Passed(s) /\ unit = "stale" THEN "absent" ELSE "ready"

(* bind_standalone: "After a successful bind the socket is chmod'd to      *)
(* SOCKET_MODE so that group modeld can connect": a listener that accepts  *)
(* does so on a socket file of that mode, over failures and restarts; all  *)
(* but one adopted after a clean stop, whose file is gone.                 *)
ListenersReachable ==
    \A s \in Sockets : task[s] \in {"select", "accept"} => file[s] = Reach(s)

(* "a stuck client cannot prevent shutdown" (main.rs): once a signal has   *)
(* been caught the process ends, even if a peer never reads its reply.     *)
StopTerminates == sig ~> pc = "off"

(* With both sockets passed by the manager a connection that waits in a    *)
(* backlog is accepted in the end, by this process or a later one, unless  *)
(* the manager itself drops it: by a systemctl stop, or by the restart     *)
(* after a failure, both of which PartOf= carries to the socket.           *)
QueuedIsTaken ==
    \A c \in Client :
        client[c] = "queued" /\ passed = 2
            ~> client[c] \in {"idle", "lost"} \/ (pc = "off" /\ starts = MaxStarts)
-----------------------------------------------------------------------------
(* Why OneLateAccept and LatecomerUnserved hold: a connection is accepted  *)
(* late by a poll that began before shutdown was raised, and the poll was  *)
(* the last one.                                                           *)
ClientsOf(s) == {c \in Client : SocketOf[c] = s}

LatecomerInv ==
    /\ \A s \in Sockets : queue[s] \in Seq(ClientsOf(s))
    /\ \A s \in Sockets : task[s] = "accept" => queue[s] # <<>>
    /\ latecomer # {} => shutdown
    /\ \A c \in latecomer : client[c] \in {"idle", "away"} /\ task[SocketOf[c]] # "accept"
    /\ OneLateAccept

(* Why ListenersReachable holds: main gets past a socket only with its     *)
(* file ready (a socket of the manager may have lost it to an earlier      *)
(* process that ended), and the tasks come after both.                     *)
HasTasks == {"spawn", "ready", "signals", "wait", "drain", "stop", "exit"}

SocketInv ==
    /\ \A s \in Sockets : Passed(s) /\ unit # "closed" => file[s] = Reach(s)
    /\ passed > 0 /\ pc # "off" => unit # "closed"
    /\ pc \in {"chmod1", "chmod2"} => file[Current] = "raw"
    /\ pc \in HasTasks \cup {"socket2", "chmod2"} => file["varlink"] = Reach("varlink")
    /\ pc \in HasTasks => file["fd"] = Reach("fd")
    /\ pc \notin HasTasks => \A t \in Tasks : task[t] = "none"

(* Why WatchdogFed holds: until shutdown a ping is at most late + Period - *)
(* next old, and from then on the drain bounds its age.                    *)
WatchdogInv ==
    /\ shutdown <=> pc \in {"drain", "stop", "exit"}
    /\ armed => pc \in {"signals", "wait", "drain", "stop"} /\ Watched /\ WatchdogUsec # 0
    /\ pc \in {"ready", "signals", "wait"} => Period = 0 \/ task["watchdog"] = "select"
    /\ armed /\ ~shutdown => age + next <= Period + late
    /\ armed /\ pc = "drain" => age + drainLeft <= Period + Slack + DrainTime
    /\ armed /\ pc = "stop" => age <= Period + Slack + DrainTime

(* Why NoAcceptAfterStopping holds: a drain that ended in time has seen    *)
(* every task end, and no task comes back.                                 *)
DrainInv == pc \in {"stop", "exit"} /\ drainLeft > 0 => Drained
=============================================================================
