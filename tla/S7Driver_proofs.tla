--------------------------- MODULE S7Driver_proofs ---------------------------
(***************************************************************************)
(* Proofs about S7Driver for every number of handlers, maintainers and     *)
(* sessions and every backoff configuration.                               *)
(***************************************************************************)
EXTENDS S7Driver, TLAPS

(* Every step of the specification is one of its actions.  The lemma names *)
(* them once for the case splits below.                                    *)
LEMMA NextCases ==
  ASSUME Next
  PROVE  \/ Connect \/ Disconnect
         \/ \E r \in Requests :
              \/ EnsureConnected(r) \/ GrabClient(r)
              \/ TransferDone(r) \/ TransferFails(r) \/ MarkDisconnected(r)
         \/ \E m \in Maintainers :
              \/ Top(m) \/ LookHealthy(m) \/ Dial(m)
              \/ DialSucceeds(m) \/ Store(m) \/ DialRefused(m) \/ DialTimeout(m)
              \/ ArmWait(m) \/ WaitElapses(m) \/ WaitStopped(m)
         \/ \E s \in Sessions : DialReturns(s) \/ PlcDrops(s) \/ Collect(s)
         \/ UNCHANGED vars
  BY DEF Next, Handlers, InFlight, Maintain, Environment

-----------------------------------------------------------------------------
(* Every variable of the driver keeps its type; the backoff in particular  *)
(* stays within the larger of its two settings (main.go:188-269).          *)
LEMMA TypeInductive == TypeOK /\ [Next]_vars => TypeOK'
<1> SUFFICES ASSUME TypeOK, [Next]_vars PROVE TypeOK'
  OBVIOUS
<1> USE ConstantsAssumption
<1>1. CASE Connect
  BY <1>1 DEF TypeOK, Connect, Spawn, maintainerVars, requestVars, MaintainerPC
<1>2. CASE Disconnect
  BY <1>2 DEF TypeOK, Disconnect, CloseStop, CloseClient, requestVars, SessionState
<1>3. ASSUME NEW r \in Requests,
             \/ EnsureConnected(r) \/ GrabClient(r)
             \/ TransferDone(r) \/ TransferFails(r) \/ MarkDisconnected(r)
      PROVE  TypeOK'
  BY <1>3 DEF TypeOK, EnsureConnected, GrabClient, TransferDone, TransferFails,
              MarkDisconnected, driverVars, maintainerVars
<1>4. ASSUME NEW m \in Maintainers,
             Top(m) \/ LookHealthy(m) \/ Dial(m) \/ DialSucceeds(m) \/ ArmWait(m)
      PROVE  TypeOK'
  BY <1>4 DEF TypeOK, Top, Exit, LookHealthy, Dial, DialSucceeds, ArmWait, Larger,
              driverVars, requestVars, MaintainerPC, Waits, SessionState
<1>5. ASSUME NEW m \in Maintainers, Store(m)
      PROVE  TypeOK'
  BY <1>5 DEF TypeOK, Store, Larger, requestVars, MaintainerPC, Waits
<1>6. ASSUME NEW m \in Maintainers, DialRefused(m) \/ DialTimeout(m)
      PROVE  TypeOK'
  <2>1. /\ backoff' \in [Maintainers -> 0 .. Larger(BackoffInitial, BackoffMax)]
        /\ tries' \in [Maintainers -> 0 .. RetryMax]
        /\ fails' \in [Maintainers -> 0 .. RetryMax]
    BY <1>6 DEF TypeOK, DialRefused, DialTimeout, DialFails, LimitReached, Smaller, Larger
  <2>2. sess' \in [Sessions -> SessionState]
    BY <1>6 DEF TypeOK, DialRefused, DialTimeout, SessionState
  <2>3. QED
    BY <1>6, <2>1, <2>2 DEF TypeOK, DialRefused, DialTimeout, DialFails,
                            driverVars, requestVars, MaintainerPC, Waits
<1>7. ASSUME NEW m \in Maintainers, WaitElapses(m)
      PROVE  TypeOK'
  <2>1. backoff' \in [Maintainers -> 0 .. Larger(BackoffInitial, BackoffMax)]
    BY <1>7 DEF TypeOK, WaitElapses, Doubled, Smaller, Larger
  <2>2. QED
    BY <1>7, <2>1 DEF TypeOK, WaitElapses, driverVars, requestVars, MaintainerPC, Waits
<1>8. ASSUME NEW m \in Maintainers, WaitStopped(m)
      PROVE  TypeOK'
  BY <1>8 DEF TypeOK, WaitStopped, Exit, Larger, driverVars, requestVars,
              MaintainerPC, Waits
<1>9. ASSUME NEW s \in Sessions, DialReturns(s) \/ PlcDrops(s) \/ Collect(s)
      PROVE  TypeOK'
  BY <1>9 DEF TypeOK, DialReturns, PlcDrops, Collect, driverVars, maintainerVars,
              requestVars, SessionState
<1>10. CASE UNCHANGED vars
  BY <1>10 DEF TypeOK, vars, driverVars, maintainerVars, requestVars
<1>11. QED
  BY <1>1, <1>2, <1>3, <1>4, <1>5, <1>6, <1>7, <1>8, <1>9, <1>10, NextCases

THEOREM TypeCorrect == Spec => []TypeOK
<1>1. ASSUME Init PROVE TypeOK
  <2>1. /\ backoff \in [Maintainers -> 0 .. Larger(BackoffInitial, BackoffMax)]
        /\ tries \in [Maintainers -> 0 .. RetryMax]
        /\ fails \in [Maintainers -> 0 .. RetryMax]
    BY <1>1, ConstantsAssumption DEF Init, Larger
  <2>2. /\ mpc \in [Maintainers -> MaintainerPC]
        /\ mdial \in [Maintainers -> Sessions \cup {None}]
        /\ mwait \in [Maintainers -> Waits]
        /\ mchan \in [Maintainers -> {"nil", "open", "closed"}]
    BY <1>1 DEF Init, MaintainerPC, Waits
  <2>3. sess \in [Sessions -> SessionState]
    BY <1>1 DEF Init, SessionState
  <2>4. QED
    BY <1>1, <2>1, <2>2, <2>3 DEF Init, TypeOK
<1>2. QED
  BY <1>1, TypeInductive, PTL DEF Spec

-----------------------------------------------------------------------------
(* The inductive invariant.  maintainerRun is set as the first maintainer  *)
(* starts and never cleared, so there is one maintainer for ever: what it  *)
(* dials is its own, and no step of another goroutine can close or reuse   *)
(* the session between the dial and the store.                             *)
OneMaintainer ==
  /\ ~maintainerRun => \A m \in Maintainers : mpc[m] = "none"
  /\ \A m, n \in Maintainers : mpc[m] # "none" /\ mpc[n] # "none" => m = n

DialsOwned ==
  \A m \in Maintainers :
    /\ mdial[m] # None <=> mpc[m] \in {"dial", "store"}
    /\ mpc[m] = "dial" => sess[mdial[m]] \in {"dialing", "open", "lost", "refused"}
    /\ mpc[m] = "store" => sess[mdial[m]] \in {"open", "lost"}
    /\ mdial[m] # None => mdial[m] # client

ClientLive ==
  /\ client # None => sess[client] \in {"open", "lost"}
  /\ connected => client # None

StopsReleased ==
  /\ desired => maintainerRun
  /\ maintainerRun /\ ~desired => released
  /\ \A m \in Maintainers : mchan[m] = "closed" => released
  /\ released => maintainerRun

Inv == OneMaintainer /\ DialsOwned /\ ClientLive /\ StopsReleased

LEMMA InvInit == Init => Inv
  BY DEF Init, Inv, OneMaintainer, DialsOwned, ClientLive, StopsReleased

(* A handler touches no maintainer but to start the first one, and no      *)
(* session but to close the client it also clears.                         *)
LEMMA InvHandlers ==
  ASSUME TypeOK, Inv,
         \/ Connect \/ Disconnect
         \/ \E r \in Requests :
              \/ EnsureConnected(r) \/ GrabClient(r)
              \/ TransferDone(r) \/ TransferFails(r) \/ MarkDisconnected(r)
  PROVE  Inv'
<1> USE ConstantsAssumption
    DEF TypeOK, Inv, OneMaintainer, DialsOwned, ClientLive, StopsReleased
<1>1. CASE Connect
  BY <1>1 DEF Connect, NeedsMaintainer, Spawn, maintainerVars, requestVars
<1>2. CASE Disconnect
  BY <1>2 DEF Disconnect, CloseStop, CloseClient, requestVars
<1>3. ASSUME NEW r \in Requests,
             \/ EnsureConnected(r) \/ GrabClient(r)
             \/ TransferDone(r) \/ TransferFails(r) \/ MarkDisconnected(r)
      PROVE  Inv'
  BY <1>3 DEF EnsureConnected, GrabClient, TransferDone, TransferFails,
              MarkDisconnected, driverVars, maintainerVars
<1>4. QED
  BY <1>1, <1>2, <1>3

LEMMA InvMaintainer ==
  ASSUME TypeOK, Inv, NEW m \in Maintainers, Maintain(m)
  PROVE  Inv'
<1> USE ConstantsAssumption
    DEF TypeOK, Inv, OneMaintainer, DialsOwned, ClientLive, StopsReleased
<1>1. CASE Top(m) \/ WaitStopped(m)
  BY <1>1 DEF Top, WaitStopped, Exit, driverVars, requestVars
<1>2. CASE LookHealthy(m) \/ DialSucceeds(m) \/ ArmWait(m) \/ WaitElapses(m)
  BY <1>2 DEF LookHealthy, DialSucceeds, ArmWait, WaitElapses, driverVars, requestVars
<1>3. CASE Dial(m)
  BY <1>3 DEF Dial, driverVars, requestVars
<1>4. CASE Store(m)
  BY <1>4 DEF Store, requestVars
<1>5. CASE DialRefused(m) \/ DialTimeout(m)
  BY <1>5 DEF DialRefused, DialTimeout, DialFails, driverVars, requestVars
<1>6. QED
  BY <1>1, <1>2, <1>3, <1>4, <1>5 DEF Maintain

(* The PLC answers only what is dialled, and the runtime collects only what *)
(* neither the driver nor the maintainer holds.                            *)
LEMMA InvEnvironment ==
  ASSUME TypeOK, Inv, NEW s \in Sessions,
         DialReturns(s) \/ PlcDrops(s) \/ Collect(s)
  PROVE  Inv'
<1> USE ConstantsAssumption
    DEF TypeOK, Inv, OneMaintainer, DialsOwned, ClientLive, StopsReleased
<1>1. CASE DialReturns(s) \/ PlcDrops(s)
  BY <1>1 DEF DialReturns, PlcDrops, driverVars, maintainerVars, requestVars
<1>2. CASE Collect(s)
  BY <1>2 DEF Collect, Referenced, driverVars, maintainerVars, requestVars
<1>3. QED
  BY <1>1, <1>2

LEMMA InvInductive == TypeOK /\ Inv /\ [Next]_vars => Inv'
<1> SUFFICES ASSUME TypeOK, Inv, [Next]_vars PROVE Inv'
  OBVIOUS
<1>1. CASE UNCHANGED vars
  BY <1>1 DEF Inv, OneMaintainer, DialsOwned, ClientLive, StopsReleased,
              vars, driverVars, maintainerVars, requestVars
<1>2. CASE Next
  <2>1. CASE \E m \in Maintainers : Maintain(m)
    BY <2>1, InvMaintainer
  <2>2. CASE Handlers
    BY <2>2, InvHandlers DEF Handlers, InFlight
  <2>3. CASE Environment
    BY <2>3, InvEnvironment DEF Environment
  <2>4. QED
    BY <1>1, <1>2, <2>1, <2>2, <2>3 DEF Next
<1>3. QED
  BY <1>1, <1>2

LEMMA Invariance == Spec => [](TypeOK /\ Inv)
  BY InvInit, InvInductive, TypeCorrect, PTL DEF Spec

(* One maintainer at a time, for any interleaving of any number of         *)
(* connects, disconnects and exits (main.go:145-180).                      *)
THEOREM SingleMaintainerTheorem == Spec => []SingleMaintainer
<1>1. Inv => SingleMaintainer
  BY DEF Inv, OneMaintainer, SingleMaintainer, Running
<1>2. QED
  BY <1>1, Invariance, PTL

(* Connected means a live session, whatever overlaps (main.go:164-282).    *)
THEOREM ConnectedHasSessionTheorem == Spec => []ConnectedHasSession
<1>1. TypeOK /\ Inv => ConnectedHasSession
  BY DEF TypeOK, Inv, ClientLive, ConnectedHasSession
<1>2. QED
  BY <1>1, Invariance, PTL

-----------------------------------------------------------------------------
(* The attempt counter against the history of failures: they agree until   *)
(* the limit is reached, and from then on the backoff is its maximum, which *)
(* doubling and capping keeps, whatever the counter does next.              *)
RetryInv ==
  RetryMax > 0 => \A m \in Maintainers :
    /\ tries[m] < RetryMax
    /\ fails[m] < RetryMax => tries[m] = fails[m]
    /\ fails[m] = RetryMax => backoff[m] = BackoffMax

LEMMA RetryInductive == TypeOK /\ RetryInv /\ [Next]_vars => RetryInv'
<1> SUFFICES ASSUME TypeOK, RetryInv, [Next]_vars, RetryMax > 0,
                    NEW k \in Maintainers
             PROVE  /\ tries'[k] < RetryMax
                    /\ fails'[k] < RetryMax => tries'[k] = fails'[k]
                    /\ fails'[k] = RetryMax => backoff'[k] = BackoffMax
  BY DEF RetryInv
<1> USE ConstantsAssumption DEF TypeOK, RetryInv
<1>1. CASE UNCHANGED <<backoff, tries, fails>>
  BY <1>1
<1>2. CASE Connect
  BY <1>2, <1>1 DEF Connect, Spawn, maintainerVars
<1>3. CASE Disconnect
  BY <1>3, <1>1 DEF Disconnect
<1>4. ASSUME NEW r \in Requests,
             \/ EnsureConnected(r) \/ GrabClient(r)
             \/ TransferDone(r) \/ TransferFails(r) \/ MarkDisconnected(r)
      PROVE  UNCHANGED <<backoff, tries, fails>>
  BY <1>4 DEF EnsureConnected, GrabClient, TransferDone, TransferFails,
              MarkDisconnected, maintainerVars
<1>5. ASSUME NEW s \in Sessions, DialReturns(s) \/ PlcDrops(s) \/ Collect(s)
      PROVE  UNCHANGED <<backoff, tries, fails>>
  BY <1>5 DEF DialReturns, PlcDrops, Collect, maintainerVars
<1>6. ASSUME NEW m \in Maintainers, Maintain(m)
      PROVE  /\ tries'[k] < RetryMax
             /\ fails'[k] < RetryMax => tries'[k] = fails'[k]
             /\ fails'[k] = RetryMax => backoff'[k] = BackoffMax
  <2>1. CASE LookHealthy(m) \/ Dial(m) \/ DialSucceeds(m) \/ ArmWait(m)
    BY <2>1, <1>1 DEF LookHealthy, Dial, DialSucceeds, ArmWait
  <2>2. CASE Top(m) \/ WaitStopped(m) \/ Store(m)
    BY <2>2 DEF Top, WaitStopped, Exit, Store
  <2>3. CASE DialRefused(m) \/ DialTimeout(m)
    BY <2>3 DEF DialRefused, DialTimeout, DialFails, LimitReached, Smaller
  <2>4. CASE WaitElapses(m)
    BY <2>4 DEF WaitElapses, Doubled, Smaller
  <2>5. QED
    BY <1>6, <2>1, <2>2, <2>3, <2>4 DEF Maintain
<1>7. CASE UNCHANGED vars
  BY <1>7, <1>1 DEF vars, maintainerVars
<1>8. QED
  BY <1>1, <1>2, <1>3, <1>4, <1>5, <1>6, <1>7
     DEF Next, Handlers, InFlight, Environment

(* CONNECT_RETRY_MAX failures in a row leave the driver waiting            *)
(* CONNECT_BACKOFF_MS_MAX between attempts, for every limit and every pair *)
(* of backoff settings (main.go:254-268).                                  *)
THEOREM RetryLimitTheorem == Spec => []RetryLimitBacksOff
<1>1. Init => RetryInv
  BY ConstantsAssumption DEF Init, RetryInv
<1>2. TypeOK /\ RetryInv => RetryLimitBacksOff
  BY DEF TypeOK, RetryInv, RetryLimitBacksOff
<1>3. QED
  BY <1>1, <1>2, RetryInductive, TypeCorrect, PTL DEF Spec

-----------------------------------------------------------------------------
(* The refinement.  Worker is a function of the maintainers' positions, so *)
(* the steps that move no maintainer in or out of its loop leave it alone. *)
LEMMA WorkerKept ==
  ASSUME maintainerRun' = maintainerRun,
         \A m \in Maintainers : Running(m)' <=> Running(m)
  PROVE  Worker' = Worker
  BY DEF Worker

LEMMA RefinesHandlers ==
  ASSUME TypeOK, Inv, Handlers
  PROVE  [Link!Next]_(Link!vars)
<1> USE DEF Link!vars, Link!Next
<1>1. CASE Connect
  <2>1. CASE maintainerRun
    <3>1. Worker' = Worker
      BY <1>1, <2>1, WorkerKept DEF Connect, NeedsMaintainer, maintainerVars, Running
    <3>2. Worker # "none"
      BY <2>1 DEF Worker
    <3>3. QED
      BY <1>1, <3>1, <3>2 DEF Connect, Link!Want
  <2>2. CASE ~maintainerRun
    <3>1. Worker = "none"
      BY <2>2 DEF Inv, OneMaintainer, Worker, Running
    <3>2. Worker' = "alive"
      BY <1>1, <2>2 DEF TypeOK, Connect, NeedsMaintainer, Spawn, Worker, Running
    <3>3. QED
      BY <1>1, <3>1, <3>2 DEF Connect, Link!Want
  <2>3. QED
    BY <2>1, <2>2 DEF TypeOK
<1>2. CASE Disconnect
  <2>1. Worker' = Worker
    BY <1>2, WorkerKept DEF Disconnect, Running
  <2>2. Worker # "none" <=> maintainerRun
    BY DEF Worker, Inv, OneMaintainer, Running
  <2>3. QED
    BY <1>2, <2>1, <2>2 DEF TypeOK, Disconnect, Link!Release
<1>3. ASSUME NEW r \in Requests, EnsureConnected(r) \/ InFlight(r)
      PROVE  [Link!Next]_(Link!vars)
  <2>1. Worker' = Worker
    BY <1>3, WorkerKept DEF EnsureConnected, InFlight, GrabClient, TransferDone,
         TransferFails, MarkDisconnected, driverVars, maintainerVars, Running
  <2>2. CASE MarkDisconnected(r)
    BY <2>1, <2>2 DEF MarkDisconnected, Link!Drop
  <2>3. CASE EnsureConnected(r) \/ GrabClient(r) \/ TransferDone(r) \/ TransferFails(r)
    BY <2>1, <2>3 DEF EnsureConnected, GrabClient, TransferDone, TransferFails, driverVars
  <2>4. QED
    BY <1>3, <2>2, <2>3 DEF InFlight
<1>4. QED
  BY <1>1, <1>2, <1>3 DEF Handlers

LEMMA RefinesMaintainer ==
  ASSUME TypeOK, Inv, NEW m \in Maintainers, Maintain(m)
  PROVE  [Link!Next]_(Link!vars)
<1> USE DEF Link!vars, Link!Next
<1>1. ASSUME mpc' = [mpc EXCEPT ![m] = "exited"],
             Running(m), released,
             UNCHANGED <<desired, connected, maintainerRun, released>>
      PROVE  Link!Retire
  <2>1. Worker = "alive"
    BY <1>1 DEF Worker
  <2>2. Worker' = "gone"
    BY <1>1 DEF TypeOK, Inv, OneMaintainer, Worker, Running
  <2>3. QED
    BY <1>1, <2>1, <2>2 DEF Link!Retire
<1>2. CASE Top(m)
  <2>1. CASE desired
    <3>1. Worker' = Worker
      BY <1>2, <2>1, WorkerKept DEF TypeOK, Top, driverVars, Running
    <3>2. QED
      BY <1>2, <3>1 DEF Top, driverVars
  <2>2. CASE ~desired
    <3>1. released /\ Running(m)
      BY <1>2, <2>2 DEF TypeOK, Top, Running, Inv, OneMaintainer, StopsReleased
    <3>2. QED
      BY <1>1, <1>2, <2>2, <3>1 DEF Top, Exit, driverVars
  <2>3. QED
    BY <2>1, <2>2 DEF TypeOK
<1>3. CASE WaitStopped(m)
  <2>1. released /\ Running(m)
    BY <1>3 DEF WaitStopped, Running, Inv, StopsReleased
  <2>2. QED
    BY <1>1, <1>3, <2>1 DEF WaitStopped, Exit, driverVars
<1>4. CASE Store(m)
  <2>1. Worker = "alive" /\ Worker' = Worker
    BY <1>4, WorkerKept DEF TypeOK, Store, Worker, Running
  <2>2. QED
    BY <1>4, <2>1 DEF Store, Link!Establish
<1>5. CASE \/ LookHealthy(m) \/ Dial(m) \/ DialSucceeds(m) \/ DialRefused(m)
           \/ DialTimeout(m) \/ ArmWait(m) \/ WaitElapses(m)
  <2>1. Worker' = Worker
    BY <1>5, WorkerKept DEF TypeOK, LookHealthy, Dial, DialSucceeds, DialRefused,
         DialTimeout, DialFails, ArmWait, WaitElapses, driverVars, Running
  <2>2. QED
    BY <1>5, <2>1 DEF LookHealthy, Dial, DialSucceeds, DialRefused,
         DialTimeout, DialFails, ArmWait, WaitElapses, driverVars
<1>6. QED
  BY <1>2, <1>3, <1>4, <1>5 DEF Maintain

(* The driver implements the link of S7Link: a step of a handler or of the *)
(* maintainer is a step of the link or invisible in it, and the PLC and    *)
(* the runtime are invisible (main.go:145-282).                            *)
THEOREM Refinement == Spec => LinkSpec
<1>1. Init => Link!Init
  BY DEF Init, Link!Init, Worker, Running
<1>2. TypeOK /\ Inv /\ [Next]_vars => [Link!Next]_(Link!vars)
  <2> SUFFICES ASSUME TypeOK, Inv, [Next]_vars PROVE [Link!Next]_(Link!vars)
    OBVIOUS
  <2>1. CASE Environment \/ UNCHANGED vars
    <3>1. UNCHANGED <<desired, connected, maintainerRun, mpc, released>>
      BY <2>1 DEF Environment, DialReturns, PlcDrops, Collect, vars, driverVars, maintainerVars
    <3>2. Worker' = Worker
      BY <3>1, WorkerKept DEF Running
    <3>3. QED
      BY <3>1, <3>2 DEF Link!vars
  <2>2. QED
    BY <2>1, RefinesHandlers, RefinesMaintainer DEF Next
<1>3. QED
  BY <1>1, <1>2, Invariance, PTL DEF Spec, LinkSpec, Link!Spec
=============================================================================
