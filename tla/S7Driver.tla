------------------------------ MODULE S7Driver ------------------------------
(***************************************************************************)
(* The Siemens S7-1200 HTTP driver, siemens_s_7_1200/main.go: the Driver   *)
(* record behind its mutex, the HTTP handlers that read and change it, the *)
(* goroutine that maintains the connection, and the goroutines that dial   *)
(* the PLC.                                                                *)
(*                                                                         *)
(* Each action is one critical section of d.mu or one wait of a goroutine, *)
(* so every interleaving the mutex allows is a behaviour.  A session is    *)
(* one gos7 client and its TCP connection; its identifier is reused once   *)
(* nothing refers to it.  The PLC configuration is left out: no step of the *)
(* driver but the 400 of a connect without an IP depends on it.  Time is    *)
(* the order of events: a timer may always fire.                            *)
(***************************************************************************)
EXTENDS Naturals, FiniteSets

CONSTANTS
  Maintainers,     \* goroutines that can run maintainConnection
  Requests,        \* HTTP handlers in flight at the same time
  Sessions,        \* identifiers of gos7 clients
  None,            \* a nil client
  BackoffInitial,  \* CONNECT_BACKOFF_MS_INITIAL
  BackoffMax,      \* CONNECT_BACKOFF_MS_MAX
  RetryMax         \* CONNECT_RETRY_MAX, 0 for no limit

ASSUME ConstantsAssumption ==
  /\ None \notin Sessions
  /\ BackoffInitial \in Nat
  /\ BackoffMax \in Nat
  /\ RetryMax \in Nat

VARIABLES
  \* fields of Driver, under d.mu
  desired,
  connected,
  client,
  stopCh,          \* "nil" or "open"
  maintainerRun,
  \* locals of each maintainConnection
  mpc,             \* where the goroutine is
  mdial,           \* the client it is connecting
  mwait,           \* which of its three waits it is in or about to enter
  mchan,           \* the stop channel that wait selects on
  backoff,
  tries,
  fails,           \* history: consecutive failures so far, up to RetryMax
  \* locals of each request
  rpc,
  rclient,
  \* the sessions themselves, and the process
  sess,
  crashed,         \* a goroutine called a method of a nil client
  released         \* history: Disconnect ran since the first maintainer started

driverVars == <<desired, connected, client, stopCh, maintainerRun>>
maintainerVars == <<mpc, mdial, mwait, mchan, backoff, tries, fails>>
requestVars == <<rpc, rclient>>
vars == <<driverVars, maintainerVars, requestVars, sess, crashed, released>>

MaintainerPC ==
  {"none", "top", "look", "dial", "store", "arm", "wait", "exited"}
Waits == {"health", "settle", "backoff"}
SessionState == {"free", "dialing", "open", "lost", "refused", "closed"}

Smaller(a, b) == IF a < b THEN a ELSE b
Larger(a, b) == IF a < b THEN b ELSE a

Running(m) == mpc[m] \notin {"none", "exited"}

TypeOK ==
  /\ desired \in BOOLEAN
  /\ connected \in BOOLEAN
  /\ client \in Sessions \cup {None}
  /\ stopCh \in {"nil", "open"}
  /\ maintainerRun \in BOOLEAN
  /\ mpc \in [Maintainers -> MaintainerPC]
  /\ mdial \in [Maintainers -> Sessions \cup {None}]
  /\ mwait \in [Maintainers -> Waits]
  /\ mchan \in [Maintainers -> {"nil", "open", "closed"}]
  /\ backoff \in [Maintainers -> 0 .. Larger(BackoffInitial, BackoffMax)]
  /\ tries \in [Maintainers -> 0 .. RetryMax]
  /\ fails \in [Maintainers -> 0 .. RetryMax]
  /\ rpc \in [Requests -> {"idle", "grab", "busy", "failed"}]
  /\ rclient \in [Requests -> Sessions \cup {None}]
  /\ sess \in [Sessions -> SessionState]
  /\ crashed \in BOOLEAN
  /\ released \in BOOLEAN

Init ==
  /\ desired = FALSE
  /\ connected = FALSE
  /\ client = None
  /\ stopCh = "nil"
  /\ maintainerRun = FALSE
  /\ mpc = [m \in Maintainers |-> "none"]
  /\ mdial = [m \in Maintainers |-> None]
  /\ mwait = [m \in Maintainers |-> "health"]
  /\ mchan = [m \in Maintainers |-> "nil"]
  /\ backoff = [m \in Maintainers |-> BackoffInitial]
  /\ tries = [m \in Maintainers |-> 0]
  /\ fails = [m \in Maintainers |-> 0]
  /\ rpc = [r \in Requests |-> "idle"]
  /\ rclient = [r \in Requests |-> None]
  /\ sess = [s \in Sessions |-> "free"]
  /\ crashed = FALSE
  /\ released = FALSE

-----------------------------------------------------------------------------
(* HTTP handlers.                                                          *)

SpawnAnyway == TRUE
NeedsMaintainer == ~maintainerRun

Spawn(m) ==
  /\ mpc[m] = "none"
  /\ mpc' = [mpc EXCEPT ![m] = "top"]
  /\ maintainerRun' = TRUE
  /\ UNCHANGED <<mdial, mwait, mchan, backoff, tries, fails>>

\* POST /plc/connect, which answers at once when a session is desired already.
Connect ==
  /\ ~desired
  /\ desired' = TRUE
  /\ stopCh' = "open"
  /\ IF NeedsMaintainer
     THEN \E m \in Maintainers : Spawn(m)
     ELSE UNCHANGED <<maintainerRun, maintainerVars>>
  /\ UNCHANGED <<connected, client, requestVars, sess, crashed, released>>

\* close(d.stopCh): every wait that selects on the open channel now has it
\* closed.
CloseStop ==
  /\ stopCh' = "nil"
  /\ mchan' = [m \in Maintainers |->
                 IF mpc[m] = "wait" /\ mchan[m] = "open" THEN "closed" ELSE mchan[m]]

CloseClient(s) ==
  sess' = [x \in Sessions |-> IF x = s THEN "closed" ELSE sess[x]]

DisconnectKeepsConnected ==
  /\ desired' = FALSE
  /\ CloseStop
  /\ CloseClient(client)
  /\ client' = None
  /\ released' = maintainerRun
  /\ UNCHANGED <<connected, maintainerRun, mpc, mdial, mwait, backoff, tries, fails,
                 requestVars, crashed>>

Disconnect ==
  /\ desired' = FALSE
  /\ CloseStop
  /\ CloseClient(client)
  /\ client' = None
  /\ connected' = FALSE
  /\ released' = maintainerRun
  /\ UNCHANGED <<maintainerRun, mpc, mdial, mwait, backoff, tries, fails,
                 requestVars, crashed>>

IsConnectedByClient == client # None
IsConnected == connected /\ client # None

\* ReadDB and WriteDB are one transfer here: what they do to the driver's
\* connection state is the same.  ensureConnected is one critical section...
EnsureConnected(r) ==
  /\ rpc[r] = "idle"
  /\ IsConnected
  /\ rpc' = [rpc EXCEPT ![r] = "grab"]
  /\ UNCHANGED <<driverVars, maintainerVars, rclient, sess, crashed, released>>

\* ... and reading d.client another.  A Disconnect between the two leaves a
\* nil client, and the goroutine that calls its method takes the process down.
GrabClient(r) ==
  /\ rpc[r] = "grab"
  /\ rpc' = [rpc EXCEPT ![r] = "busy"]
  /\ rclient' = [rclient EXCEPT ![r] = client]
  /\ crashed' = (client = None)
  /\ UNCHANGED <<driverVars, maintainerVars, sess, released>>

TransferDone(r) ==
  /\ rpc[r] = "busy"
  /\ rclient[r] \in Sessions
  /\ sess[rclient[r]] = "open"
  /\ rpc' = [rpc EXCEPT ![r] = "idle"]
  /\ rclient' = [rclient EXCEPT ![r] = None]
  /\ UNCHANGED <<driverVars, maintainerVars, sess, crashed, released>>

\* The transfer returns an error, or READ_TIMEOUT_MS or WRITE_TIMEOUT_MS passes.
TransferFails(r) ==
  /\ rpc[r] = "busy"
  /\ rpc' = [rpc EXCEPT ![r] = "failed"]
  /\ rclient' = [rclient EXCEPT ![r] = None]
  /\ UNCHANGED <<driverVars, maintainerVars, sess, crashed, released>>

\* The failure is charged to the driver, whichever session it has by now.
MarkDisconnected(r) ==
  /\ rpc[r] = "failed"
  /\ rpc' = [rpc EXCEPT ![r] = "idle"]
  /\ connected' = FALSE
  /\ UNCHANGED <<desired, client, stopCh, maintainerRun,
                 maintainerVars, rclient, sess, crashed, released>>

InFlight(r) ==
  \/ GrabClient(r)
  \/ TransferDone(r) \/ TransferFails(r) \/ MarkDisconnected(r)

-----------------------------------------------------------------------------
(* maintainConnection.                                                     *)

\* The top of the loop copies d.desired and d.cfg, and leaves when the
\* session is no longer desired.
TopNeverExits(m) ==
  /\ mpc[m] = "top"
  /\ mpc' = [mpc EXCEPT ![m] = "look"]
  /\ UNCHANGED <<driverVars, mdial, mwait, mchan, backoff, tries, fails,
                 requestVars, sess, crashed, released>>

\* Returning from maintainConnection: its locals are gone, maintainerRun stays.
Exit(m) ==
  /\ mpc' = [mpc EXCEPT ![m] = "exited"]
  /\ mdial' = [mdial EXCEPT ![m] = None]
  /\ mwait' = [mwait EXCEPT ![m] = "health"]
  /\ mchan' = [mchan EXCEPT ![m] = "nil"]
  /\ backoff' = [backoff EXCEPT ![m] = BackoffInitial]
  /\ tries' = [tries EXCEPT ![m] = 0]
  /\ fails' = [fails EXCEPT ![m] = 0]

Top(m) ==
  /\ mpc[m] = "top"
  /\ IF desired
     THEN /\ mpc' = [mpc EXCEPT ![m] = "look"]
          /\ UNCHANGED <<mdial, mwait, mchan, backoff, tries, fails>>
     ELSE Exit(m)
  /\ UNCHANGED <<driverVars, requestVars, sess, crashed, released>>

LookHealthy(m) ==
  /\ mpc[m] = "look"
  /\ IsConnected
  /\ mpc' = [mpc EXCEPT ![m] = "arm"]
  /\ mwait' = [mwait EXCEPT ![m] = "health"]
  /\ UNCHANGED <<driverVars, mdial, mchan, backoff, tries, fails,
                 requestVars, sess, crashed, released>>

\* gos7.NewClient and the goroutine that calls ConnectTo.
Dial(m) ==
  /\ mpc[m] = "look"
  /\ ~IsConnected
  /\ \E s \in Sessions :
       /\ sess[s] = "free"
       /\ sess' = [sess EXCEPT ![s] = "dialing"]
       /\ mdial' = [mdial EXCEPT ![m] = s]
  /\ mpc' = [mpc EXCEPT ![m] = "dial"]
  /\ UNCHANGED <<driverVars, mwait, mchan, backoff, tries, fails,
                 requestVars, crashed, released>>

DialSucceeds(m) ==
  /\ mpc[m] = "dial"
  /\ sess[mdial[m]] \in {"open", "lost"}
  /\ mpc' = [mpc EXCEPT ![m] = "store"]
  /\ UNCHANGED <<driverVars, mdial, mwait, mchan, backoff, tries, fails,
                 requestVars, sess, crashed, released>>

\* The new client replaces whatever d.client is, desired or not.
Store(m) ==
  /\ mpc[m] = "store"
  /\ client' = mdial[m]
  /\ connected' = TRUE
  /\ mpc' = [mpc EXCEPT ![m] = "arm"]
  /\ mwait' = [mwait EXCEPT ![m] = "settle"]
  /\ mdial' = [mdial EXCEPT ![m] = None]
  /\ backoff' = [backoff EXCEPT ![m] = BackoffInitial]
  /\ tries' = [tries EXCEPT ![m] = 0]
  /\ fails' = [fails EXCEPT ![m] = 0]
  /\ UNCHANGED <<desired, stopCh, maintainerRun, mchan,
                 requestVars, sess, crashed, released>>

LimitPassed(t) == RetryMax > 0 /\ t > RetryMax
LimitReached(t) == RetryMax > 0 /\ t >= RetryMax

\* A failed or timed-out attempt.  The counter is not read without a limit.
DialFails(m) ==
  /\ mpc[m] = "dial"
  /\ LET t == IF RetryMax > 0 THEN tries[m] + 1 ELSE 0
     IN  /\ tries' = [tries EXCEPT ![m] = IF LimitReached(t) THEN 0 ELSE t]
         /\ backoff' = [backoff EXCEPT ![m] = IF LimitReached(t) THEN BackoffMax ELSE @]
  /\ fails' = [fails EXCEPT ![m] = Smaller(@ + 1, RetryMax)]
  /\ mpc' = [mpc EXCEPT ![m] = "arm"]
  /\ mwait' = [mwait EXCEPT ![m] = "backoff"]
  /\ mdial' = [mdial EXCEPT ![m] = None]
  /\ UNCHANGED <<driverVars, mchan, requestVars, crashed, released>>

DialRefused(m) ==
  /\ DialFails(m)
  /\ sess[mdial[m]] = "refused"
  /\ sess' = [sess EXCEPT ![mdial[m]] = "free"]

\* cfg.Timeout passes; the goroutine that dials goes on alone.
DialTimeout(m) ==
  /\ DialFails(m)
  /\ UNCHANGED sess

\* Each wait is a select on a timer and on the channel d.stopChan() returns
\* as the select is entered: nil, which never fires, if Disconnect came first.
ArmWait(m) ==
  /\ mpc[m] = "arm"
  /\ mchan' = [mchan EXCEPT ![m] = stopCh]
  /\ mpc' = [mpc EXCEPT ![m] = "wait"]
  /\ UNCHANGED <<driverVars, mdial, mwait, backoff, tries, fails,
                 requestVars, sess, crashed, released>>

Doubled(b) == Smaller(b * 2, BackoffMax)

WaitElapses(m) ==
  /\ mpc[m] = "wait"
  /\ mpc' = [mpc EXCEPT ![m] = "top"]
  /\ backoff' = [backoff EXCEPT ![m] = IF mwait[m] = "backoff" THEN Doubled(@) ELSE @]
  /\ mwait' = [mwait EXCEPT ![m] = "health"]
  /\ mchan' = [mchan EXCEPT ![m] = "nil"]
  /\ UNCHANGED <<driverVars, mdial, tries, fails,
                 requestVars, sess, crashed, released>>

WaitStopped(m) ==
  /\ mpc[m] = "wait"
  /\ mchan[m] = "closed"
  /\ Exit(m)
  /\ UNCHANGED <<driverVars, requestVars, sess, crashed, released>>

-----------------------------------------------------------------------------
(* The goroutine that dials, the PLC, and the Go runtime.                  *)

\* ConnectTo returns, even when the maintainer has given the attempt up.
DialReturns(s) ==
  /\ sess[s] = "dialing"
  /\ \E answer \in {"open", "refused"} : sess' = [sess EXCEPT ![s] = answer]
  /\ UNCHANGED <<driverVars, maintainerVars, requestVars, crashed, released>>

PlcDrops(s) ==
  /\ sess[s] = "open"
  /\ sess' = [sess EXCEPT ![s] = "lost"]
  /\ UNCHANGED <<driverVars, maintainerVars, requestVars, crashed, released>>

Referenced(s) ==
  \/ client = s
  \/ \E m \in Maintainers : mdial[m] = s
  \/ \E r \in Requests : rclient[r] = s

\* A client nothing refers to is collected, and its connection closed with it.
Collect(s) ==
  /\ sess[s] \in {"open", "lost", "refused", "closed"}
  /\ ~Referenced(s)
  /\ sess' = [sess EXCEPT ![s] = "free"]
  /\ UNCHANGED <<driverVars, maintainerVars, requestVars, crashed, released>>

-----------------------------------------------------------------------------
Handlers ==
  \/ Connect
  \/ Disconnect
  \/ \E r \in Requests : EnsureConnected(r) \/ InFlight(r)

Maintain(m) ==
  \/ Top(m) \/ LookHealthy(m) \/ Dial(m)
  \/ DialSucceeds(m) \/ Store(m) \/ DialRefused(m) \/ DialTimeout(m)
  \/ ArmWait(m) \/ WaitElapses(m) \/ WaitStopped(m)

Environment ==
  \E s \in Sessions :
    DialReturns(s) \/ PlcDrops(s) \/ Collect(s)

\* The crash of the process ends the behaviour.
Next ==
  \/ ~crashed /\ (Handlers \/ (\E m \in Maintainers : Maintain(m)) \/ Environment)
  \/ crashed /\ UNCHANGED vars

Spec == Init /\ [][Next]_vars

\* Goroutines run, a transfer ends by its timeout at the latest, dials return
\* in the end (the OS gives up), and garbage is collected.  Clients call when
\* they like.
Alive(A) == ~crashed /\ A

Fairness ==
  /\ \A m \in Maintainers : WF_vars(Alive(Maintain(m)))
  /\ \A r \in Requests : WF_vars(Alive(InFlight(r)))
  /\ \A s \in Sessions :
       /\ WF_vars(Alive(DialReturns(s)))
       /\ WF_vars(Alive(Collect(s)))

\* The PLC can be reached: an attempt repeated for ever is answered in time.
PlcReachable ==
  \A m \in Maintainers :
    /\ SF_vars(Alive(DialSucceeds(m)))
    /\ \A s \in Sessions :
         SF_vars(Alive(mdial[m] = s /\ DialReturns(s) /\ sess'[s] = "open"))

FairSpec == Spec /\ Fairness
ReachableSpec == FairSpec /\ PlcReachable

-----------------------------------------------------------------------------
(* Properties.                                                             *)

\* maintainerRun lets at most one maintainConnection run, whatever order
\* Connect, Disconnect and the maintainer's own exit come in.
SingleMaintainer ==
  \A m, n \in Maintainers : Running(m) /\ Running(n) => m = n

\* A driver that reports connected has a client, and one the driver has not
\* closed and the runtime has not collected, however dials, transfers and
\* disconnects overlapped.
ConnectedHasSession ==
  connected => client \in Sessions /\ sess[client] \in {"open", "lost"}

\* CONNECT_RETRY_MAX: after that many consecutive failures every further
\* wait is CONNECT_BACKOFF_MS_MAX, until a dial succeeds.
RetryLimitBacksOff ==
  \A m \in Maintainers :
    (/\ RetryMax > 0
     /\ fails[m] = RetryMax
     /\ mpc[m] \in {"arm", "wait"}
     /\ mwait[m] = "backoff") => backoff[m] = BackoffMax

\* A running maintainer of a desired session brings it up, if the PLC can be
\* reached, unless it is told to stop (or the process crashes).
MaintainerReconnects ==
  \A m \in Maintainers :
    (Running(m) /\ desired /\ ~connected) ~>
      (connected \/ ~desired \/ ~Running(m) \/ crashed)

\* Disconnect ends the maintainer, even one whose wait the closed channel
\* does not reach, unless the session is desired again first.
DisconnectStopsMaintainer ==
  ~desired ~> (desired \/ crashed \/ \A m \in Maintainers : ~Running(m))

\* The driver implements the link its caller sees.
Worker ==
  IF \E m \in Maintainers : Running(m) THEN "alive"
  ELSE IF maintainerRun THEN "gone" ELSE "none"

Link == INSTANCE S7Link WITH wanted <- desired, up <- connected, worker <- Worker
LinkSpec == Link!Spec

\* README.md:76: "If the PLC disconnects, it will attempt to reconnect while
\* the session is desired (after /plc/connect)."
ReconnectsWhileDesired ==
  (desired /\ ~connected) ~>
    (connected \/ ~desired \/ crashed \/ \E m \in Maintainers : mpc[m] = "dial")
=============================================================================
