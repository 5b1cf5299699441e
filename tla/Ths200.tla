------------------------------- MODULE Ths200 -------------------------------
(***************************************************************************)
(* The THS-200 driver, ths_200_temperature_and_humidity_sensor/main.go:    *)
(* the publisher goroutine, its MQTT client, and the three callers that    *)
(* stop or restart it: PUT /config/mqtt, the start of main and its         *)
(* shutdown.                                                               *)
(*                                                                         *)
(* One action is one critical section of d.mu, one call of the MQTT client *)
(* or one wait.  A publisher, its context and its client share one         *)
(* identifier, which is reused once the publisher has returned and nothing *)
(* of the driver refers to it.  The broker and topic a publisher works     *)
(* with are abstracted to whether they are the latest configuration.  What *)
(* is only reported is left out: d.connected, which the client's callbacks *)
(* set, the last error, and the last payload.                              *)
(***************************************************************************)
EXTENDS Naturals, FiniteSets

CONSTANTS
  Requests,      \* PUT /config/mqtt in flight at the same time
  Main,          \* the goroutine of main
  Publishers,    \* identifiers of publisher goroutines
  None           \* no publisher

ASSUME ConstantsAssumption ==
  /\ Main \notin Requests
  /\ None \notin Publishers

Actors == Requests \cup {Main}

VARIABLES
  \* fields of Driver, under d.mu
  configured,    \* settings has a broker and a topic
  mqttClient,
  pubCancel,     \* the context d.pubCancel cancels
  \* the callers of stopPublisher and restartPublisher
  main,          \* the phase of main
  apc,
  grabbed,       \* the client stopPublisher is to disconnect, or the context
                 \* restartPublisher made for the goroutine it is to start
  \* publishers
  ppc,
  current,       \* st, its copy of the settings, is still d.settings
  cancelled,
  client,        \* the state of a publisher's MQTT client
  \* history: two callers were in restartPublisher or stopPublisher at once
  overlapped

driver == <<configured, mqttClient, pubCancel>>
callers == <<main, apc, grabbed>>
publishers == <<ppc, current, cancelled>>
vars == <<driver, callers, publishers, client, overlapped>>

Phases == {"starting", "serving", "draining", "stopping", "exited"}
ActorPC == {"idle", "stop", "disconnect", "wait", "make", "go"}
PublisherPC ==
  {"none", "made", "new", "loop", "dial", "connecting", "publishing", "inflight"}

TypeOK ==
  /\ configured \in BOOLEAN
  /\ mqttClient \in Publishers \cup {None}
  /\ pubCancel \in Publishers \cup {None}
  /\ main \in Phases
  /\ apc \in [Actors -> ActorPC]
  /\ grabbed \in [Actors -> Publishers \cup {None}]
  /\ ppc \in [Publishers -> PublisherPC]
  /\ current \in [Publishers -> BOOLEAN]
  /\ cancelled \in [Publishers -> BOOLEAN]
  /\ client \in [Publishers -> {"closed", "dialing", "open", "lost"}]
  /\ overlapped \in BOOLEAN
  /\ (\E g \in Publishers : ppc[g] # "none") => pubCancel # None

\* The environment may lack the broker or the topic.
Init ==
  /\ configured \in BOOLEAN
  /\ mqttClient = None
  /\ pubCancel = None
  /\ main = "starting"
  /\ apc = [a \in Actors |-> "idle"]
  /\ grabbed = [a \in Actors |-> None]
  /\ ppc = [g \in Publishers |-> "none"]
  /\ current = [g \in Publishers |-> FALSE]
  /\ cancelled = [g \in Publishers |-> FALSE]
  /\ client = [g \in Publishers |-> "closed"]
  /\ overlapped = FALSE

-----------------------------------------------------------------------------
(* PUT /config/mqtt, startPublisherIfConfigured and the shutdown of main:  *)
(* three ways into stopPublisher.                                          *)

EnterStop(a) ==
  /\ apc[a] = "idle"
  /\ apc' = [apc EXCEPT ![a] = "stop"]
  /\ overlapped' = (overlapped \/ \E b \in Actors \ {a} : apc[b] # "idle")

PutOnlySaves(r) ==
  /\ apc[r] = "idle"
  /\ configured' = TRUE
  /\ current' = [g \in Publishers |-> FALSE]
  /\ UNCHANGED <<mqttClient, pubCancel, callers, ppc, cancelled, client, overlapped>>

\* A handler that had begun when the shutdown did may still get here.
Put(r) ==
  /\ configured' = TRUE
  /\ current' = [g \in Publishers |-> FALSE]
  /\ EnterStop(r)
  /\ UNCHANGED <<mqttClient, pubCancel, main, grabbed, ppc, cancelled, client>>

StartIfConfigured ==
  /\ main = "starting"
  /\ apc[Main] = "idle"
  /\ main' = "serving"
  /\ IF configured THEN EnterStop(Main) ELSE UNCHANGED <<apc, overlapped>>
  /\ UNCHANGED <<driver, grabbed, publishers, client>>

Signal ==
  /\ main = "serving"
  /\ apc[Main] = "idle"
  /\ main' = "draining"
  /\ UNCHANGED <<driver, apc, grabbed, publishers, client, overlapped>>

\* httpServer.Shutdown waits for the handlers, for SHUTDOWN_TIMEOUT_SEC at most.
Shutdown ==
  /\ main = "draining"
  /\ main' = "stopping"
  /\ EnterStop(Main)
  /\ UNCHANGED <<driver, grabbed, publishers, client>>

\* stopPublisher: cancel, take the client away, disconnect it, and wait for
\* every publisher there is.
Cancel(a) ==
  /\ apc[a] = "stop"
  /\ cancelled' = [g \in Publishers |->
                     cancelled[g] \/ (g = pubCancel /\ ppc[g] # "none")]
  /\ grabbed' = [grabbed EXCEPT ![a] = mqttClient]
  /\ mqttClient' = None
  /\ apc' = [apc EXCEPT ![a] = "disconnect"]
  /\ UNCHANGED <<configured, pubCancel, main, ppc, current, client, overlapped>>

Disconnect(a) ==
  /\ apc[a] = "disconnect"
  /\ client' = [g \in Publishers |-> IF g = grabbed[a] THEN "closed" ELSE client[g]]
  /\ grabbed' = [grabbed EXCEPT ![a] = None]
  /\ apc' = [apc EXCEPT ![a] = "wait"]
  /\ UNCHANGED <<driver, main, publishers, overlapped>>

\* pubWG counts a publisher from the go statement to its return.
Counted(g) == ppc[g] \notin {"none", "made"}

AfterWait(a) ==
  IF a = Main /\ main = "stopping"
  THEN main' = "exited" /\ apc' = [apc EXCEPT ![a] = "idle"]
  ELSE apc' = [apc EXCEPT ![a] = "make"] /\ UNCHANGED main

NoWait(a) ==
  /\ apc[a] = "wait"
  /\ AfterWait(a)
  /\ UNCHANGED <<driver, grabbed, publishers, client, overlapped>>

Wait(a) ==
  /\ apc[a] = "wait"
  /\ \A g \in Publishers : ~Counted(g)
  /\ AfterWait(a)
  /\ UNCHANGED <<driver, grabbed, publishers, client, overlapped>>

Reusable(g) ==
  /\ ppc[g] = "none"
  /\ mqttClient # g /\ pubCancel # g
  /\ \A a \in Actors : grabbed[a] # g

\* The second half of restartPublisher makes a context and copies the
\* settings under the lock, and starts the goroutine after it.
MakeContext(a) ==
  /\ apc[a] = "make"
  /\ \E g \in Publishers :
       /\ Reusable(g)
       /\ pubCancel' = g
       /\ grabbed' = [grabbed EXCEPT ![a] = g]
       /\ ppc' = [ppc EXCEPT ![g] = "made"]
       /\ current' = [current EXCEPT ![g] = TRUE]
       /\ cancelled' = [cancelled EXCEPT ![g] = FALSE]
       /\ client' = [client EXCEPT ![g] = "closed"]
  /\ apc' = [apc EXCEPT ![a] = "go"]
  /\ UNCHANGED <<configured, mqttClient, main, overlapped>>

Go(a) ==
  /\ apc[a] = "go"
  /\ ppc' = [ppc EXCEPT ![grabbed[a]] = "new"]
  /\ grabbed' = [grabbed EXCEPT ![a] = None]
  /\ apc' = [apc EXCEPT ![a] = "idle"]
  /\ UNCHANGED <<driver, main, current, cancelled, client, overlapped>>

-----------------------------------------------------------------------------
(* runPublisher.                                                           *)

StoreForgotten(g) ==
  /\ ppc[g] = "new"
  /\ ppc' = [ppc EXCEPT ![g] = "loop"]
  /\ UNCHANGED <<configured, mqttClient, pubCancel, callers, current, cancelled, client,
                 overlapped>>

StoreClient(g) ==
  /\ ppc[g] = "new"
  /\ mqttClient' = g
  /\ ppc' = [ppc EXCEPT ![g] = "loop"]
  /\ UNCHANGED <<configured, pubCancel, callers, current, cancelled, client, overlapped>>

\* The top of the connect loop: client.Connect() unless the context was done,
\* which a caller may have cancelled, and the client disconnected, in between.
NotDone(g) ==
  /\ ppc[g] = "loop"
  /\ ~cancelled[g]
  /\ ppc' = [ppc EXCEPT ![g] = "dial"]
  /\ UNCHANGED <<driver, callers, current, cancelled, client, overlapped>>

\* A client that is connecting or connected already is left as it is.
Connect(g) ==
  /\ ppc[g] = "dial"
  /\ ppc' = [ppc EXCEPT ![g] = "connecting"]
  /\ client' = [client EXCEPT ![g] = IF @ = "closed" THEN "dialing" ELSE @]
  /\ UNCHANGED <<driver, callers, current, cancelled, overlapped>>

Abandoned(g) == mqttClient # g /\ \A a \in Actors : grabbed[a] # g

\* The context is looked at before every attempt, in every wait for the next
\* one, and between two ticks.  A client that neither the driver nor a caller
\* has taken stays connected on its own, and is no longer followed.
ReturnFromLoopOnly(g) ==
  /\ ppc[g] = "loop"
  /\ cancelled[g]
  /\ ppc' = [ppc EXCEPT ![g] = "none"]
  /\ current' = [current EXCEPT ![g] = FALSE]
  /\ cancelled' = [cancelled EXCEPT ![g] = FALSE]
  /\ client' = [client EXCEPT ![g] = IF Abandoned(g) THEN "closed" ELSE @]
  /\ UNCHANGED <<driver, callers, overlapped>>

Return(g) ==
  /\ ppc[g] \in {"loop", "publishing"}
  /\ cancelled[g]
  /\ ppc' = [ppc EXCEPT ![g] = "none"]
  /\ current' = [current EXCEPT ![g] = FALSE]
  /\ cancelled' = [cancelled EXCEPT ![g] = FALSE]
  /\ client' = [client EXCEPT ![g] = IF Abandoned(g) THEN "closed" ELSE @]
  /\ UNCHANGED <<driver, callers, overlapped>>

ConnectDone(g) ==
  /\ ppc[g] = "connecting"
  /\ client[g] \in {"open", "lost"}
  /\ ppc' = [ppc EXCEPT ![g] = "publishing"]
  /\ UNCHANGED <<driver, callers, current, cancelled, client, overlapped>>

\* The attempt failed, was cut off by Disconnect, or did not end in time.  The
\* backoff only delays the next one.
ConnectFails(g) ==
  /\ ppc[g] = "connecting"
  /\ client[g] \in {"closed", "dialing"}
  /\ ppc' = [ppc EXCEPT ![g] = "loop"]
  /\ UNCHANGED <<driver, callers, current, cancelled, client, overlapped>>

\* A tick publishes with the client the driver has by now, and is skipped if
\* that is nil or not connected.
Tick(g) ==
  /\ ppc[g] = "publishing"
  /\ mqttClient # None
  /\ client[mqttClient] = "open"
  /\ ppc' = [ppc EXCEPT ![g] = "inflight"]
  /\ UNCHANGED <<driver, callers, current, cancelled, client, overlapped>>

\* Acknowledged, failed, or given up after MQTT_CONNECT_TIMEOUT_SEC.
PublishEnds(g) ==
  /\ ppc[g] = "inflight"
  /\ ppc' = [ppc EXCEPT ![g] = "publishing"]
  /\ UNCHANGED <<driver, callers, current, cancelled, client, overlapped>>

-----------------------------------------------------------------------------
(* The MQTT client and the broker.                                         *)

DialEnds(g) ==
  /\ client[g] = "dialing"
  /\ \E answer \in {"open", "closed"} : client' = [client EXCEPT ![g] = answer]
  /\ UNCHANGED <<driver, callers, publishers, overlapped>>

BrokerDrops(g) ==
  /\ client[g] = "open"
  /\ client' = [client EXCEPT ![g] = "lost"]
  /\ UNCHANGED <<driver, callers, publishers, overlapped>>

\* SetAutoReconnect(true).
AutoReconnect(g) ==
  /\ client[g] = "lost"
  /\ client' = [client EXCEPT ![g] = "open"]
  /\ UNCHANGED <<driver, callers, publishers, overlapped>>

-----------------------------------------------------------------------------
Caller(a) == Cancel(a) \/ Disconnect(a) \/ Wait(a) \/ MakeContext(a) \/ Go(a)

Publisher(g) ==
  \/ StoreClient(g) \/ NotDone(g) \/ Connect(g) \/ Return(g) \/ ConnectDone(g)
  \/ ConnectFails(g) \/ Tick(g) \/ PublishEnds(g)

Network(g) == DialEnds(g) \/ BrokerDrops(g) \/ AutoReconnect(g)

Next ==
  \/ /\ main # "exited"
     /\ \/ \E r \in Requests : Put(r)
        \/ StartIfConfigured \/ Signal \/ Shutdown
        \/ \E a \in Actors : Caller(a)
        \/ \E g \in Publishers : Publisher(g) \/ Network(g)
  \/ main = "exited" /\ UNCHANGED vars

Spec == Init /\ [][Next]_vars

Alive(A) == main # "exited" /\ A

\* Goroutines run.  A select whose context is done while a ticker also fires
\* chooses at random, so the return cannot be passed over for ever.
Fairness ==
  /\ WF_vars(Shutdown)
  /\ \A a \in Actors : WF_vars(Alive(Caller(a)))
  /\ \A g \in Publishers :
       /\ WF_vars(Alive(Publisher(g)))
       /\ SF_vars(Alive(Return(g)))

\* The broker can be reached: an attempt repeated for ever is answered in
\* time, a lost connection comes back, and a tick finds it.
BrokerReachable ==
  /\ SF_vars(Alive(\E g \in Publishers :
       ppc[g] = "connecting" /\ DialEnds(g) /\ client'[g] = "open"))
  /\ SF_vars(Alive(\E g \in Publishers : ConnectDone(g)))
  /\ SF_vars(Alive(\E g \in Publishers : Tick(g)))
  /\ \A g \in Publishers : WF_vars(Alive(AutoReconnect(g)))

FairSpec == Spec /\ Fairness
ReachableSpec == FairSpec /\ BrokerReachable

-----------------------------------------------------------------------------
(* Properties.                                                             *)

\* As long as no two callers were in stopPublisher and restartPublisher at
\* once, there is at most one publisher, and it is the one d.pubCancel stops.
OnePublisher ==
  ~overlapped => \A g \in Publishers : Counted(g) => g = pubCancel

\* ... and whenever no caller is at it, a configured driver has a publisher
\* that runs with the latest configuration, whatever state the one before it
\* was stopped in.
LatestConfig ==
  (/\ ~overlapped
   /\ configured
   /\ main = "serving"
   /\ \A a \in Actors : apc[a] = "idle") =>
     \E g \in Publishers : Counted(g) /\ current[g] /\ ~cancelled[g]

\* ... and the client a tick takes from d.mqttClient is the publisher's own: one
\* that was stopped before it had stored its client does not put that in place
\* of its successor's.
TicksOwnClient ==
  ~overlapped =>
    \A g \in Publishers :
      Counted(g) /\ ppc[g] # "new" /\ ~cancelled[g] => mqttClient = g

\* A cancelled publisher returns, in whatever wait the cancel finds it and
\* however callers overlap.
CancelledReturns ==
  \A g \in Publishers : (cancelled[g] /\ Counted(g)) ~> (~Counted(g) \/ main = "exited")

\* A publisher publishes, if the broker can be reached, until it is cancelled,
\* restarts overlap or the driver exits.
Publishes ==
  (\E g \in Publishers : Counted(g)) ~>
    (\/ \E g \in Publishers : ppc[g] = "inflight" \/ cancelled[g]
     \/ overlapped
     \/ main = "exited")

\* README.md:35: SHUTDOWN_TIMEOUT_SEC is the "HTTP/MQTT shutdown timeout":
\* a shutdown that finds every PUT answered, and meets no later one, ends.
Quiet == \A r \in Requests : apc[r] = "idle"
ShutdownCompletes == []((main = "draining" /\ []Quiet) => <>(main = "exited"))
=============================================================================
