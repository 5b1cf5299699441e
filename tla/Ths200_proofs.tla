---------------------------- MODULE Ths200_proofs ----------------------------
(***************************************************************************)
(* Proofs about Ths200 for any number of PUT handlers and publishers.      *)
(***************************************************************************)
EXTENDS Ths200, TLAPS

(* A step is one of the four callers' entries, a step of a caller inside   *)
(* restartPublisher, of a publisher or of the network, or changes nothing. *)
LEMMA NextCases ==
  ASSUME [Next]_vars
  PROVE  \/ main # "exited" /\ \E r \in Requests : Put(r)
         \/ main # "exited" /\ (StartIfConfigured \/ Signal \/ Shutdown)
         \/ main # "exited" /\ \E a \in Actors : Cancel(a) \/ Disconnect(a)
         \/ main # "exited" /\ \E a \in Actors : Wait(a) \/ MakeContext(a) \/ Go(a)
         \/ main # "exited" /\ \E g \in Publishers : Publisher(g)
         \/ main # "exited" /\ \E g \in Publishers : Network(g)
         \/ UNCHANGED vars
  BY DEF Next, Caller

-----------------------------------------------------------------------------
(* The inductive invariant.  Each goroutine a caller is about to start is  *)
(* its own.  While callers do not overlap, one at most is inside, every    *)
(* publisher is the one d.pubCancel stops, and none is left when a caller  *)
(* comes to make the next; nobody being at it, that one is up to date.     *)
StartsOwn ==
  \A a \in Actors : apc[a] = "go" =>
    /\ grabbed[a] \in Publishers
    /\ ppc[grabbed[a]] = "made"
    /\ \A b \in Actors : apc[b] = "go" /\ grabbed[b] = grabbed[a] => a = b

Serial ==
  ~overlapped =>
    \A a, b \in Actors : apc[a] # "idle" /\ apc[b] # "idle" => a = b

MadeIsStarted ==
  ~overlapped =>
    \A g \in Publishers : ppc[g] = "made" =>
      \E a \in Actors : apc[a] = "go" /\ grabbed[a] = g

Cancellable ==
  ~overlapped => \A g \in Publishers : ppc[g] # "none" => g = pubCancel

MakesAfterAll ==
  ~overlapped =>
    \A a \in Actors : apc[a] = "make" => \A g \in Publishers : ppc[g] = "none"

UpToDate ==
  (/\ ~overlapped
   /\ configured
   /\ main = "serving"
   /\ \A a \in Actors : apc[a] \in {"idle", "go"}) =>
     /\ pubCancel \in Publishers
     /\ ppc[pubCancel] # "none"
     /\ current[pubCancel]
     /\ ~cancelled[pubCancel]

Inv ==
  /\ TypeOK /\ StartsOwn
  /\ Serial /\ MadeIsStarted /\ Cancellable /\ MakesAfterAll
  /\ UpToDate /\ TicksOwnClient

LEMMA InvInit == Init => Inv
<1> SUFFICES ASSUME Init PROVE Inv
  OBVIOUS
<1>1. current \in [Publishers -> BOOLEAN] /\ cancelled \in [Publishers -> BOOLEAN]
  BY Zenon DEF Init
<1>2. /\ apc \in [Actors -> ActorPC]
      /\ grabbed \in [Actors -> Publishers \cup {None}]
      /\ ppc \in [Publishers -> PublisherPC]
      /\ client \in [Publishers -> {"closed", "dialing", "open", "lost"}]
  BY DEF Init, ActorPC, PublisherPC
<1>3. \A g \in Publishers : ppc[g] = "none"
  BY DEF Init
<1>4. TypeOK
  BY <1>1, <1>2, <1>3 DEF Init, TypeOK, Phases
<1>5. \A a \in Actors : apc[a] = "idle"
  BY DEF Init
<1>6. StartsOwn /\ Serial /\ MadeIsStarted /\ Cancellable /\ MakesAfterAll
  BY <1>3, <1>5 DEF StartsOwn, Serial, MadeIsStarted, Cancellable, MakesAfterAll
<1>7. UpToDate /\ TicksOwnClient
  BY DEF Init, UpToDate, TicksOwnClient, Counted
<1>8. QED
  BY <1>4, <1>6, <1>7 DEF Inv

(* The entries of stopPublisher: afterwards the caller is inside.          *)
LEMMA InvEnters ==
  ASSUME Inv, main # "exited",
         \/ \E r \in Requests : Put(r)
         \/ StartIfConfigured \/ Signal \/ Shutdown
  PROVE  Inv'
<1> USE DEF Inv
<1>1. ASSUME NEW r \in Requests, Put(r) PROVE Inv'
  <2> r \in Actors
    BY DEF Actors
  <2>1. TypeOK'
    BY <1>1 DEF TypeOK, Put, EnterStop, ActorPC
  <2>2. StartsOwn'
    BY <1>1 DEF TypeOK, StartsOwn, Put, EnterStop
  <2>3. (Serial /\ MadeIsStarted /\ Cancellable /\ MakesAfterAll)'
    BY <1>1 DEF TypeOK, Serial, MadeIsStarted, Cancellable, MakesAfterAll, Put, EnterStop
  <2>4. (UpToDate /\ TicksOwnClient)'
    BY <1>1 DEF TypeOK, UpToDate, TicksOwnClient, Counted, Put, EnterStop
  <2>5. QED
    BY <2>1, <2>2, <2>3, <2>4
<1>2. CASE StartIfConfigured
  <2> Main \in Actors
    BY DEF Actors
  <2>1. TypeOK'
    BY <1>2 DEF TypeOK, StartIfConfigured, EnterStop, ActorPC, Phases, driver, publishers
  <2>2. StartsOwn'
    BY <1>2 DEF TypeOK, StartsOwn, StartIfConfigured, EnterStop, driver, publishers
  <2>3. (Serial /\ MadeIsStarted /\ Cancellable /\ MakesAfterAll)'
    BY <1>2 DEF TypeOK, Serial, MadeIsStarted, Cancellable, MakesAfterAll,
                StartIfConfigured, EnterStop, driver, publishers
  <2>4. (UpToDate /\ TicksOwnClient)'
    BY <1>2 DEF TypeOK, UpToDate, TicksOwnClient, Counted, StartIfConfigured,
                EnterStop, driver, publishers
  <2>5. QED
    BY <2>1, <2>2, <2>3, <2>4
<1>3. CASE Signal
  BY <1>3 DEF Signal, TypeOK, StartsOwn, Serial, MadeIsStarted, Cancellable,
              MakesAfterAll, UpToDate, TicksOwnClient, Counted, Phases, driver,
              publishers
<1>4. CASE Shutdown
  <2> Main \in Actors
    BY DEF Actors
  <2>1. TypeOK'
    BY <1>4 DEF TypeOK, Shutdown, EnterStop, ActorPC, Phases, driver, publishers
  <2>2. StartsOwn'
    BY <1>4 DEF TypeOK, StartsOwn, Shutdown, EnterStop, driver, publishers
  <2>3. (Serial /\ MadeIsStarted /\ Cancellable /\ MakesAfterAll)'
    BY <1>4 DEF TypeOK, Serial, MadeIsStarted, Cancellable, MakesAfterAll,
                Shutdown, EnterStop, driver, publishers
  <2>4. (UpToDate /\ TicksOwnClient)'
    BY <1>4 DEF TypeOK, UpToDate, TicksOwnClient, Counted, Shutdown,
                EnterStop, driver, publishers
  <2>5. QED
    BY <2>1, <2>2, <2>3, <2>4
<1>5. QED
  BY <1>1, <1>2, <1>3, <1>4

(* stopPublisher up to its wait moves no publisher.                        *)
LEMMA InvStops ==
  ASSUME Inv, main # "exited", NEW a \in Actors, Cancel(a) \/ Disconnect(a)
  PROVE  Inv'
<1> USE DEF Inv
<1>1. CASE Cancel(a)
  <2>1. cancelled' \in [Publishers -> BOOLEAN]
    BY <1>1, Zenon DEF TypeOK, Cancel
  <2>2. TypeOK'
    BY <1>1, <2>1 DEF TypeOK, Cancel, ActorPC
  <2>3. StartsOwn'
    BY <1>1 DEF TypeOK, StartsOwn, Cancel
  <2>4. (Serial /\ MadeIsStarted /\ Cancellable /\ MakesAfterAll)'
    BY <1>1 DEF TypeOK, Serial, MadeIsStarted, Cancellable, MakesAfterAll, Cancel
  <2>5. (UpToDate /\ TicksOwnClient)'
    BY <1>1, <2>1 DEF TypeOK, UpToDate, Cancellable, TicksOwnClient, Counted, Cancel
  <2>6. QED
    BY <2>2, <2>3, <2>4, <2>5
<1>2. CASE Disconnect(a)
  <2>1. TypeOK'
    BY <1>2 DEF TypeOK, Disconnect, ActorPC, driver, publishers
  <2>2. StartsOwn'
    BY <1>2 DEF TypeOK, StartsOwn, Disconnect, driver, publishers
  <2>3. (Serial /\ MadeIsStarted /\ Cancellable /\ MakesAfterAll)'
    BY <1>2 DEF TypeOK, Serial, MadeIsStarted, Cancellable, MakesAfterAll, Disconnect,
                driver, publishers
  <2>4. (UpToDate /\ TicksOwnClient)'
    BY <1>2 DEF TypeOK, UpToDate, TicksOwnClient, Counted, Disconnect, driver, publishers
  <2>5. QED
    BY <2>1, <2>2, <2>3, <2>4
<1>3. QED
  BY <1>1, <1>2

(* The wait ends with no publisher but those made and not started, and     *)
(* while callers do not overlap there are none of these.                   *)
LEMMA InvWait ==
  ASSUME Inv, main # "exited", NEW a \in Actors, Wait(a)
  PROVE  Inv'
<1> USE DEF Inv
<1>1. TypeOK'
  BY DEF TypeOK, Wait, AfterWait, ActorPC, Phases, driver, publishers
<1>2. StartsOwn'
  BY DEF TypeOK, StartsOwn, Wait, AfterWait, driver, publishers
<1>3. ~overlapped => \A g \in Publishers : ppc[g] = "none"
  BY DEF TypeOK, Serial, MadeIsStarted, Wait, Counted
<1>4. (Serial /\ MadeIsStarted /\ Cancellable /\ MakesAfterAll)'
  BY <1>3 DEF TypeOK, Serial, MadeIsStarted, Cancellable, MakesAfterAll, Wait,
              AfterWait, driver, publishers
<1>5. (UpToDate /\ TicksOwnClient)'
  BY <1>3 DEF TypeOK, UpToDate, TicksOwnClient, Counted, Wait, AfterWait, driver,
              publishers
<1>6. QED
  BY <1>1, <1>2, <1>4, <1>5

LEMMA InvMake ==
  ASSUME Inv, main # "exited", NEW a \in Actors, MakeContext(a)
  PROVE  Inv'
<1> USE DEF Inv
<1> PICK g \in Publishers :
      /\ Reusable(g)
      /\ pubCancel' = g
      /\ grabbed' = [grabbed EXCEPT ![a] = g]
      /\ ppc' = [ppc EXCEPT ![g] = "made"]
      /\ current' = [current EXCEPT ![g] = TRUE]
      /\ cancelled' = [cancelled EXCEPT ![g] = FALSE]
      /\ client' = [client EXCEPT ![g] = "closed"]
  BY DEF MakeContext
<1>1. /\ apc[a] = "make"
      /\ apc' = [apc EXCEPT ![a] = "go"]
      /\ UNCHANGED <<configured, mqttClient, main, overlapped>>
  BY DEF MakeContext
<1>2. TypeOK'
  BY <1>1, ConstantsAssumption DEF TypeOK, ActorPC, PublisherPC
<1>3. StartsOwn'
  BY <1>1 DEF TypeOK, StartsOwn, Reusable
<1>4. (Serial /\ MadeIsStarted /\ Cancellable /\ MakesAfterAll)'
  BY <1>1 DEF TypeOK, Serial, MadeIsStarted, Cancellable, MakesAfterAll
<1>5. (UpToDate /\ TicksOwnClient)'
  BY <1>1 DEF TypeOK, UpToDate, TicksOwnClient, Counted
<1>6. QED
  BY <1>2, <1>3, <1>4, <1>5

LEMMA InvGo ==
  ASSUME Inv, main # "exited", NEW a \in Actors, Go(a)
  PROVE  Inv'
<1> USE DEF Inv
<1>1. /\ grabbed[a] \in Publishers
      /\ ppc[grabbed[a]] = "made"
      /\ \A b \in Actors : apc[b] = "go" /\ grabbed[b] = grabbed[a] => a = b
  BY DEF Go, StartsOwn
<1>2. TypeOK'
  BY <1>1 DEF TypeOK, Go, ActorPC, PublisherPC, driver
<1>3. StartsOwn'
  BY <1>1 DEF TypeOK, StartsOwn, Go
<1>4. (Serial /\ MadeIsStarted /\ Cancellable /\ MakesAfterAll)'
  BY <1>1 DEF TypeOK, Serial, MadeIsStarted, Cancellable, MakesAfterAll, Go, driver
<1>5. (UpToDate /\ TicksOwnClient)'
  BY <1>1 DEF TypeOK, UpToDate, TicksOwnClient, Counted, Go, driver
<1>6. QED
  BY <1>2, <1>3, <1>4, <1>5

(* A publisher that is there moves within its loops or, being cancelled,   *)
(* goes; the one that is up to date is not cancelled.                      *)
LEMMA InvPublisher ==
  ASSUME Inv, main # "exited", NEW g \in Publishers, Publisher(g)
  PROVE  Inv'
<1> USE DEF Inv
<1>1. CASE Return(g)
  <2>1. TypeOK'
    BY <1>1 DEF TypeOK, Return, PublisherPC, driver, callers
  <2>2. StartsOwn'
    BY <1>1 DEF TypeOK, StartsOwn, Return, driver, callers
  <2>3. (Serial /\ MadeIsStarted /\ Cancellable /\ MakesAfterAll)'
    BY <1>1 DEF TypeOK, Serial, MadeIsStarted, Cancellable, MakesAfterAll, Return,
                driver, callers
  <2>4. (UpToDate /\ TicksOwnClient)'
    BY <1>1 DEF TypeOK, UpToDate, TicksOwnClient, Counted, Return, driver, callers
  <2>5. QED
    BY <2>1, <2>2, <2>3, <2>4
<1>2. CASE ~Return(g)
  <2>1. /\ ppc[g] \in PublisherPC \ {"none", "made"}
        /\ \E l \in PublisherPC \ {"none", "made", "new"} : ppc' = [ppc EXCEPT ![g] = l]
        /\ mqttClient' = IF ppc[g] = "new" THEN g ELSE mqttClient
        /\ UNCHANGED <<configured, pubCancel, main, apc, grabbed, current, cancelled,
                       overlapped>>
    BY <1>2 DEF Publisher, StoreClient, NotDone, Connect, ConnectDone, ConnectFails,
                Tick, PublishEnds, PublisherPC, driver, callers
  <2>2. client' \in [Publishers -> {"closed", "dialing", "open", "lost"}]
    BY <1>2 DEF TypeOK, Publisher, StoreClient, NotDone, Connect, ConnectDone,
                ConnectFails, Tick, PublishEnds
  <2>3. TypeOK'
    BY <2>1, <2>2 DEF TypeOK
  <2>4. StartsOwn'
    BY <2>1 DEF TypeOK, StartsOwn
  <2>5. (Serial /\ MadeIsStarted /\ Cancellable /\ MakesAfterAll)'
    BY <2>1 DEF TypeOK, Serial, MadeIsStarted, Cancellable, MakesAfterAll
  <2>6. (UpToDate /\ TicksOwnClient)'
    BY <2>1 DEF TypeOK, UpToDate, Cancellable, TicksOwnClient, Counted, PublisherPC
  <2>7. QED
    BY <2>3, <2>4, <2>5, <2>6
<1>3. QED
  BY <1>1, <1>2

LEMMA InvNetwork ==
  ASSUME Inv, main # "exited", NEW g \in Publishers, Network(g)
  PROVE  Inv'
<1> USE DEF Inv
<1>1. client' \in [Publishers -> {"closed", "dialing", "open", "lost"}]
  BY DEF TypeOK, Network, DialEnds, BrokerDrops, AutoReconnect
<1>2. UNCHANGED <<driver, callers, publishers, overlapped>>
  BY DEF Network, DialEnds, BrokerDrops, AutoReconnect
<1>3. QED
  BY <1>1, <1>2 DEF TypeOK, StartsOwn, Serial, MadeIsStarted, Cancellable,
                    MakesAfterAll, UpToDate, TicksOwnClient, Counted, driver,
                    callers, publishers

LEMMA InvNext == Inv /\ [Next]_vars => Inv'
<1> SUFFICES ASSUME Inv, [Next]_vars PROVE Inv'
  OBVIOUS
<1>1. CASE UNCHANGED vars
  BY <1>1 DEF Inv, TypeOK, StartsOwn, Serial, MadeIsStarted, Cancellable,
              MakesAfterAll, UpToDate, TicksOwnClient, Counted, vars, driver,
              callers, publishers
<1>2. QED
  BY <1>1, NextCases, InvEnters, InvStops, InvWait, InvMake, InvGo, InvPublisher,
     InvNetwork

THEOREM Invariant == Spec => []Inv
  BY InvInit, InvNext, PTL DEF Spec

-----------------------------------------------------------------------------
(* Every variable keeps its type, and no publisher is ever there without   *)
(* d.pubCancel having been set (main.go:57).                               *)
THEOREM TypeCorrect == Spec => []TypeOK
<1>1. Inv => TypeOK
  BY DEF Inv
<1>2. QED
  BY <1>1, Invariant, PTL

(* While restartPublisher and stopPublisher (main.go:54-85) are not        *)
(* entered by two at once, d.pubCancel cancels every publisher.            *)
THEOREM OnePublisherTheorem == Spec => []OnePublisher
<1>1. Inv => OnePublisher
  BY DEF Inv, Cancellable, OnePublisher, Counted
<1>2. QED
  BY <1>1, Invariant, PTL

(* ... a configured driver that nobody is restarting has a publisher with  *)
(* the settings of the latest PUT (main.go:59, 265-271).                   *)
THEOREM LatestConfigTheorem == Spec => []LatestConfig
<1>1. Inv => LatestConfig
  <2> SUFFICES ASSUME Inv, ~overlapped, configured, main = "serving",
                      \A a \in Actors : apc[a] = "idle"
               PROVE  \E g \in Publishers : Counted(g) /\ current[g] /\ ~cancelled[g]
    BY DEF LatestConfig
  <2>1. /\ pubCancel \in Publishers
        /\ ppc[pubCancel] # "none"
        /\ current[pubCancel]
        /\ ~cancelled[pubCancel]
    BY DEF Inv, UpToDate
  <2>2. ppc[pubCancel] # "made"
    BY <2>1 DEF Inv, MadeIsStarted
  <2>3. QED
    BY <2>1, <2>2 DEF Counted
<1>2. QED
  BY <1>1, Invariant, PTL

(* ... and what a publisher's tick finds in d.mqttClient is the client it  *)
(* stored itself (main.go:118-121, 163-167).                               *)
THEOREM TicksOwnClientTheorem == Spec => []TicksOwnClient
<1>1. Inv => TicksOwnClient
  BY DEF Inv
<1>2. QED
  BY <1>1, Invariant, PTL
=============================================================================
