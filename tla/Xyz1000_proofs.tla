---------------------------- MODULE Xyz1000_proofs ----------------------------
(***************************************************************************)
(* Proofs about Xyz1000 for every number of handlers, collectors and files *)
(* and every retry configuration.                                          *)
(***************************************************************************)
EXTENDS Xyz1000, FiniteSetTheorems, TLAPS

(* What the assumption on the constants says of the actors and delays.     *)
LEMMA Constants ==
  /\ \A a \in Actors : a \in Requests <=> a \notin Collectors
  /\ NoPort \notin Ports
  /\ RetryInitial \in Nat
  /\ RetryMax \in Nat
  /\ RetryBound \in Nat
  BY ConstantsAssumption DEF Actors

LEMMA NextCases ==
  ASSUME Next
  PROVE  \/ \E r \in Requests :
              \/ ConnectPort(r) \/ ConnectBaud(r) \/ ConnectAddress(r)
              \/ Start(r) \/ ConnectCheck(r) \/ ConnectAnswer(r)
              \/ ConfigBaud(r) \/ ConfigAddress(r) \/ ConfigReconnect(r)
              \/ ConfigAnswer(r)
         \/ \E c \in Collectors :
              \/ Top(c) \/ Report(c) \/ ResetBackoff(c) \/ ShouldReconnect(c)
              \/ ReadBegins(c) \/ ReadSucceeds(c) \/ ReadFails(c) \/ Sample(c)
              \/ ClosePort(c) \/ SleepBackoff(c) \/ SleepEnds(c)
         \/ \E a \in Actors :
              \/ CopySettings(a) \/ OpenSucceeds(a) \/ OpenFails(a) \/ StorePort(a)
         \/ Signal \/ Cancel \/ StopWaits \/ StopCloses
         \/ UNCHANGED vars
  BY DEF Next, Request, Collector, OpenPort, Stop, Actors

-----------------------------------------------------------------------------
(* Every variable keeps its type; in particular the delay never exceeds    *)
(* the larger of its two settings (driver.go:212-228).                     *)
LEMMA TypeInductive == TypeOK /\ [Next]_vars => TypeOK'
<1> SUFFICES ASSUME TypeOK, [Next]_vars PROVE TypeOK'
  OBVIOUS
<1> USE Constants
<1>1. ASSUME NEW r \in Requests,
             ConnectPort(r) \/ ConnectBaud(r) \/ ConnectAddress(r) \/ ConnectCheck(r)
      PROVE  TypeOK'
  BY <1>1 DEF TypeOK, ConnectPort, ConnectBaud, ConnectAddress, ConnectCheck,
              Accepting, At, Goto, Actors, RequestPC, CollectorPC, settings, retries, flags
<1>2. ASSUME NEW r \in Requests, Start(r)
      PROVE  TypeOK'
  BY <1>2 DEF TypeOK, Start, At, Goto, Actors, RequestPC, CollectorPC, settings, retries
<1>3. ASSUME NEW r \in Requests, ConnectAnswer(r) \/ ConfigAnswer(r)
      PROVE  TypeOK'
  BY <1>3 DEF TypeOK, ConnectAnswer, ConfigAnswer, SetState, At, Goto, Actors,
              RequestPC, CollectorPC, settings, retries, flags
<1>4. ASSUME NEW r \in Requests, ConfigBaud(r) \/ ConfigAddress(r) \/ ConfigReconnect(r)
      PROVE  TypeOK'
  <2>1. applied' \in [Requests -> BOOLEAN]
    BY <1>4, Zenon DEF TypeOK, ConfigBaud, ConfigAddress, ConfigReconnect
  <2>2. /\ baudRate' \in Bauds \cup {BadBaud}
        /\ portNamed' = portNamed
        /\ reconnectRequested' \in BOOLEAN
        /\ UNCHANGED <<port, connectionState, retries, shouldRunCollector, held, file, main>>
    BY <1>4, Zenon DEF TypeOK, ConfigBaud, ConfigAddress, ConfigReconnect, settings, flags
  <2>3. \E l \in RequestPC : pc' = [pc EXCEPT ![r] = l]
    BY <1>4, Zenon DEF ConfigBaud, ConfigAddress, ConfigReconnect, Goto, RequestPC
  <2>4. QED
    BY <2>1, <2>2, <2>3 DEF TypeOK, Actors, retries
<1>5. ASSUME NEW c \in Collectors,
             Top(c) \/ Report(c) \/ ShouldReconnect(c) \/ Sample(c) \/ SleepEnds(c)
      PROVE  TypeOK'
  BY <1>5 DEF TypeOK, Top, Report, ShouldReconnect, Sample, SleepEnds, SetState,
              At, Goto, Actors, RequestPC, CollectorPC, settings, retries, flags
<1>6. ASSUME NEW c \in Collectors,
             ReadBegins(c) \/ ReadSucceeds(c) \/ ReadFails(c) \/ ClosePort(c)
      PROVE  TypeOK'
  BY <1>6 DEF TypeOK, ReadBegins, ReadSucceeds, ReadFails, ClosePort,
              At, Goto, Actors, RequestPC, CollectorPC, settings, retries, flags
<1>7. ASSUME NEW c \in Collectors, ResetBackoff(c) \/ SleepBackoff(c)
      PROVE  TypeOK'
  <2>1. /\ backoffDelay' \in 0 .. Larger(RetryInitial, RetryMax)
        /\ retryCount' \in 0 .. RetryBound
    BY <1>7 DEF TypeOK, ResetBackoff, SleepBackoff, NextDelay, Smaller, Larger
  <2>2. QED
    BY <1>7, <2>1 DEF TypeOK, ResetBackoff, SleepBackoff, At, Goto, Actors,
                      RequestPC, CollectorPC, settings, flags
<1>8. ASSUME NEW a \in Actors,
             CopySettings(a) \/ OpenSucceeds(a) \/ OpenFails(a) \/ StorePort(a)
      PROVE  TypeOK'
  BY <1>8 DEF TypeOK, CopySettings, OpenSucceeds, OpenFails, StorePort,
              At, Goto, Actors, RequestPC, CollectorPC, settings, retries, flags
<1>9. CASE Signal \/ Cancel \/ StopWaits \/ StopCloses
  BY <1>9 DEF TypeOK, Signal, Cancel, StopWaits, StopCloses, SetState,
              settings, retries, flags
<1>10. CASE UNCHANGED vars
  BY <1>10 DEF TypeOK, vars, settings, retries, flags
<1>11. QED
  BY <1>1, <1>2, <1>3, <1>4, <1>5, <1>6, <1>7, <1>8, <1>9, <1>10, NextCases

THEOREM TypeCorrect == Spec => []TypeOK
<1>1. ASSUME Init PROVE TypeOK
  <2>1. /\ retryCount \in 0 .. RetryBound
        /\ backoffDelay \in 0 .. Larger(RetryInitial, RetryMax)
    BY <1>1, Constants DEF Init, Larger
  <2>2. /\ pc \in [Actors -> CollectorPC \cup RequestPC]
        /\ \A c \in Collectors : pc[c] \in CollectorPC
        /\ \A r \in Requests : pc[r] \in RequestPC
    BY <1>1, Constants DEF Init, Actors, CollectorPC, RequestPC
  <2>3. QED
    BY <1>1, <2>1, <2>2 DEF Init, TypeOK
<1>2. QED
  BY <1>1, TypeInductive, PTL DEF Spec

-----------------------------------------------------------------------------
(* The inductive invariant.  shouldRunCollector is set as the collector    *)
(* starts and never cleared, so there is one.  It alone closes a file that *)
(* may be in use, and never one that somebody is about to store; Stop      *)
(* closes after the last collector, and one started later stops at once.   *)
OneCollector ==
  /\ ~shouldRunCollector => \A c \in Collectors : pc[c] = "off"
  /\ \A c, d \in Collectors : pc[c] # "off" /\ pc[d] # "off" => c = d

Using == {"up", "reset", "reconfigured", "poll", "read", "pollStatus", "readStatus",
          "sampled", "close"}

CollectorHasPort == \A c \in Collectors : pc[c] \in Using => port # NoPort

HeldOpen ==
  /\ port # NoPort => file[port] = "open"
  /\ \A a \in Actors :
       /\ held[a] # NoPort <=> pc[a] \in {"store", "read", "readStatus"}
       /\ held[a] # NoPort => file[held[a]] = "open"

StoresOwn ==
  \A a \in Actors : pc[a] = "store" =>
    /\ held[a] # port
    /\ \A b \in Actors : held[b] = held[a] => a = b

Stopped ==
  /\ main \in {"closing", "exited"} =>
       \A c \in Collectors : pc[c] \in {"off", "top", "exited"}
  /\ main = "exited" => port = NoPort

Inv == OneCollector /\ CollectorHasPort /\ HeldOpen /\ StoresOwn /\ Stopped

LEMMA InvInit == Init => Inv
  BY Constants DEF Init, Inv, OneCollector, CollectorHasPort, HeldOpen, StoresOwn,
                   Stopped, Using, Actors

(* A handler outside openPort moves no file; it may start the collector.   *)
LEMMA InvHandlers ==
  ASSUME TypeOK, Inv, main # "exited", NEW r \in Requests,
         \/ ConnectPort(r) \/ ConnectBaud(r) \/ ConnectAddress(r)
         \/ Start(r) \/ ConnectCheck(r) \/ ConnectAnswer(r)
         \/ ConfigBaud(r) \/ ConfigAddress(r) \/ ConfigReconnect(r)
         \/ ConfigAnswer(r)
  PROVE  Inv'
<1> USE Constants
    DEF TypeOK, Inv, OneCollector, CollectorHasPort, HeldOpen, StoresOwn, Stopped,
        Using, Actors, At, Goto
<1>1. CASE Start(r)
  BY <1>1 DEF Start, settings, retries
<1>2. CASE ConnectPort(r) \/ ConnectBaud(r) \/ ConnectAddress(r) \/ ConnectCheck(r)
  BY <1>2 DEF ConnectPort, ConnectBaud, ConnectAddress, ConnectCheck, Accepting,
              settings, retries, flags
<1>3. CASE ConnectAnswer(r) \/ ConfigAnswer(r) \/ ConfigBaud(r) \/ ConfigAddress(r)
  BY <1>3 DEF ConnectAnswer, ConfigAnswer, ConfigBaud, ConfigAddress, SetState,
              Accepting, settings, retries, flags
<1>4. CASE ConfigReconnect(r)
  BY <1>4 DEF ConfigReconnect, settings, retries
<1>5. QED
  BY <1>1, <1>2, <1>3, <1>4

LEMMA InvOpenPort ==
  ASSUME TypeOK, Inv, main # "exited", NEW a \in Actors,
         CopySettings(a) \/ OpenSucceeds(a) \/ OpenFails(a) \/ StorePort(a)
  PROVE  Inv'
<1> USE Constants
    DEF TypeOK, Inv, OneCollector, CollectorHasPort, HeldOpen, StoresOwn, Stopped,
        Using, Actors, At, Goto
<1>1. CASE CopySettings(a) \/ OpenFails(a)
  BY <1>1 DEF CopySettings, OpenFails, settings, retries, flags
<1>2. CASE OpenSucceeds(a)
  BY <1>2 DEF OpenSucceeds, Referenced, settings, retries, flags
<1>3. CASE StorePort(a)
  BY <1>3 DEF StorePort, settings, retries, flags
<1>4. QED
  BY <1>1, <1>2, <1>3

LEMMA InvCollector ==
  ASSUME TypeOK, Inv, main # "exited", NEW c \in Collectors,
         \/ Top(c) \/ Report(c) \/ ResetBackoff(c) \/ ShouldReconnect(c)
         \/ ReadBegins(c) \/ ReadSucceeds(c) \/ ReadFails(c) \/ Sample(c)
         \/ ClosePort(c) \/ SleepBackoff(c) \/ SleepEnds(c)
  PROVE  Inv'
<1> USE Constants
    DEF TypeOK, Inv, OneCollector, CollectorHasPort, HeldOpen, StoresOwn, Stopped,
        Using, Actors, At, Goto
<1>1. CASE Top(c) \/ Sample(c) \/ SleepEnds(c)
  BY <1>1 DEF Top, Sample, SleepEnds, CtxDone, settings, retries, flags
<1>2. CASE Report(c) \/ ShouldReconnect(c)
  BY <1>2 DEF Report, ShouldReconnect, SetState, settings, retries, flags
<1>3. CASE ResetBackoff(c) \/ SleepBackoff(c)
  BY <1>3 DEF ResetBackoff, SleepBackoff, settings, flags
<1>4. CASE ReadBegins(c)
  BY <1>4 DEF ReadBegins, settings, retries, flags
<1>5. CASE ReadSucceeds(c) \/ ReadFails(c)
  BY <1>5 DEF ReadSucceeds, ReadFails, settings, retries, flags
<1>6. CASE ClosePort(c)
  BY <1>6 DEF ClosePort, RequestPC, settings, retries, flags
<1>7. QED
  BY <1>1, <1>2, <1>3, <1>4, <1>5, <1>6

LEMMA InvMain ==
  ASSUME TypeOK, Inv, Signal \/ Cancel \/ StopWaits \/ StopCloses
  PROVE  Inv'
<1> USE Constants
    DEF TypeOK, Inv, OneCollector, CollectorHasPort, HeldOpen, StoresOwn, Stopped,
        Using, Actors
<1>1. CASE Signal \/ Cancel \/ StopWaits
  BY <1>1 DEF Signal, Cancel, StopWaits, Running, settings, retries, flags
<1>2. CASE StopCloses
  BY <1>2 DEF StopCloses, SetState, RequestPC, settings, retries, flags
<1>3. QED
  BY <1>1, <1>2

LEMMA InvInductive == TypeOK /\ Inv /\ [Next]_vars => Inv'
<1> SUFFICES ASSUME TypeOK, Inv, [Next]_vars PROVE Inv'
  OBVIOUS
<1>1. CASE UNCHANGED vars
  BY <1>1 DEF Inv, OneCollector, CollectorHasPort, HeldOpen, StoresOwn, Stopped,
              vars, settings, retries, flags
<1>2. ASSUME Next, main # "exited", ~ UNCHANGED vars
      PROVE  Inv'
  BY <1>2, NextCases, InvHandlers, InvOpenPort, InvCollector, InvMain
<1>3. QED
  BY <1>1, <1>2 DEF Next

LEMMA Invariance == Spec => [](TypeOK /\ Inv)
  BY InvInit, InvInductive, TypeCorrect, PTL DEF Spec

(* No read of the collector ever finds its file closed under it, for any   *)
(* number of handlers (driver.go:109-185, 279-286, 404-470).               *)
THEOREM ReadsOpenPortTheorem == Spec => []ReadsOpenPort
<1>1. TypeOK /\ Inv => ReadsOpenPort
  BY Constants DEF TypeOK, Inv, HeldOpen, ReadsOpenPort, Actors
<1>2. QED
  BY <1>1, Invariance, PTL

(* A shutdown whose handlers were drained leaves no open file behind       *)
(* (driver.go:97-107, 613-621).                                            *)
THEOREM ShutdownReleasesPortTheorem == Spec => []ShutdownReleasesPort
<1>1. TypeOK /\ Inv => ShutdownReleasesPort
  BY Constants DEF TypeOK, Inv, HeldOpen, Stopped, ShutdownReleasesPort, Actors, At
<1>2. QED
  BY <1>1, Invariance, PTL
-----------------------------------------------------------------------------
(* Powers of two.  The library knows 2^n as the number of subsets of a set *)
(* of n elements; one element more doubles them, as each may have it too.  *)
LEMMA PowerOfZero == 2 ^ 0 = 1
<1>1. Cardinality(SUBSET {}) = 2 ^ 0
  BY FS_EmptySet, FS_SUBSET
<1>2. SUBSET {} = {{}}
  OBVIOUS
<1>3. QED
  BY <1>1, <1>2, FS_Singleton

LEMMA PowerDoubles ==
  ASSUME NEW n \in Nat
  PROVE  2 ^ n \in Nat \ {0} /\ 2 ^ (n + 1) = 2 * 2 ^ n
<1> DEFINE Old == 1 .. n
           Without == SUBSET Old
           With == {T \cup {n + 1} : T \in Without}
           add == [T \in Without |-> T \cup {n + 1}]
<1>1. IsFiniteSet(Without) /\ Cardinality(Without) = 2 ^ n
  <2>1. IsFiniteSet(Old) /\ Cardinality(Old) = n
    BY FS_Interval
  <2>2. QED
    BY <2>1, FS_SUBSET
<1>2. Cardinality(SUBSET (1 .. (n + 1))) = 2 ^ (n + 1)
  <2>1. IsFiniteSet(1 .. (n + 1)) /\ Cardinality(1 .. (n + 1)) = n + 1
    BY FS_Interval
  <2>2. QED
    BY <2>1, FS_SUBSET
<1>3. n + 1 \notin Old /\ 1 .. (n + 1) = Old \cup {n + 1}
  OBVIOUS
<1> HIDE DEF Old
<1>4. add \in Bijection(Without, With)
  <2>1. add \in [Without -> With]
    OBVIOUS
  <2>2. ASSUME NEW T \in Without, NEW U \in Without, add[T] = add[U] PROVE T = U
    <3>1. T = add[T] \ {n + 1} /\ U = add[U] \ {n + 1}
      BY <1>3
    <3>2. QED
      BY <2>2, <3>1
  <2>3. \A A \in With : \E T \in Without : add[T] = A
    OBVIOUS
  <2> HIDE DEF add, With, Without
  <2>4. QED
    BY <2>1, <2>2, <2>3 DEF Bijection, Injection, Surjection, IsInjective
<1>5. IsFiniteSet(With) /\ Cardinality(With) = 2 ^ n
  <2>1. ExistsBijection(Without, With)
    BY <1>4 DEF ExistsBijection
  <2> HIDE DEF With, Without
  <2>2. QED
    BY <1>1, <2>1, FS_Bijection
<1>6. Without \cap With = {}
  BY <1>3
<1>7. SUBSET (1 .. (n + 1)) = Without \cup With
  <2>1. ASSUME NEW A \in SUBSET (Old \cup {n + 1}), n + 1 \in A PROVE A \in With
    <3>1. A = (A \ {n + 1}) \cup {n + 1} /\ A \ {n + 1} \in Without
      BY <2>1
    <3>2. QED
      BY <3>1
  <2>2. ASSUME NEW A \in SUBSET (Old \cup {n + 1}), n + 1 \notin A PROVE A \in Without
    BY <2>2
  <2>3. Without \cup With \subseteq SUBSET (Old \cup {n + 1})
    OBVIOUS
  <2> HIDE DEF With, Without
  <2>4. QED
    BY <1>3, <2>1, <2>2, <2>3
<1> HIDE DEF With, Without
<1>8. Cardinality(Without \cup With) = 2 ^ n + 2 ^ n - Cardinality({})
  BY <1>1, <1>5, <1>6, FS_Union
<1>9. 2 ^ n \in Nat \ {0}
  <2>1. {} \in Without
    BY DEF Without
  <2>2. QED
    BY <1>1, <2>1, FS_CardinalityType, FS_EmptySet
<1>10. 2 ^ (n + 1) = 2 ^ n + 2 ^ n - 0
  BY <1>2, <1>7, <1>8, FS_EmptySet
<1>11. QED
  BY <1>9, <1>10

-----------------------------------------------------------------------------
(* The delay after n retries, and what sleepBackoff makes of it.           *)
Delay(n) == Smaller(RetryInitial * 2 ^ n, RetryMax)

LEMMA NextDelays ==
  ASSUME RetryInitial > 0, NEW n \in Nat
  PROVE  /\ NextDelay(Delay(n)) = Delay(n + 1)
         /\ RetryMax > 0 => Delay(n) # 0
<1> DEFINE p == 2 ^ n
<1>1. p \in Nat \ {0} /\ 2 ^ (n + 1) = 2 * p
  BY PowerDoubles
<1> HIDE DEF p
<1> DEFINE x == RetryInitial * p
<1>2. x \in Nat \ {0} /\ RetryInitial * (2 * p) = 2 * x
  BY <1>1, Constants
<1>3. Delay(n) = Smaller(x, RetryMax) /\ Delay(n + 1) = Smaller(2 * x, RetryMax)
  BY <1>1, <1>2 DEF Delay, p
<1> HIDE DEF x
<1>4. QED
  BY <1>2, <1>3, Constants DEF NextDelay, Smaller

(* The bound of the model on retryCount lies where the delay does not grow *)
(* any more.                                                               *)
LEMMA LastDelay ==
  RetryInitial > 0 => Delay(RetryBound) = RetryMax /\ NextDelay(RetryMax) = RetryMax
<1> SUFFICES ASSUME RetryInitial > 0
             PROVE  Delay(RetryBound) = RetryMax /\ NextDelay(RetryMax) = RetryMax
  OBVIOUS
<1>1. RetryInitial * 2 ^ RetryBound \in Nat
  <2>1. 2 ^ RetryBound \in Nat
    BY PowerDoubles, Constants
  <2>2. QED
    BY <2>1, Constants
<1>2. QED
  BY <1>1, ConstantsAssumption DEF Delay, NextDelay, Smaller

(* Where nothing was retried the delay is IOT_RETRY_INITIAL_MS, which      *)
(* BackoffMatchesRetries does not say and the first retry needs.           *)
BackoffInv ==
  RetryInitial > 0 =>
    /\ retryCount = 0 /\ RetryBound > 0 => backoffDelay = RetryInitial
    /\ retryCount > 0 => backoffDelay = Delay(retryCount)

LEMMA BackoffSleeps ==
  ASSUME TypeOK, BackoffInv, NEW c \in Collectors, SleepBackoff(c)
  PROVE  BackoffInv'
<1> SUFFICES ASSUME RetryInitial > 0
             PROVE  /\ retryCount' = 0 /\ RetryBound > 0 => backoffDelay' = RetryInitial
                    /\ retryCount' > 0 => backoffDelay' = Delay(retryCount')
  BY Constants DEF BackoffInv, Delay, Smaller
<1> DEFINE given == IF backoffDelay = 0 THEN RetryInitial ELSE backoffDelay
<1>1. /\ retryCount \in 0 .. RetryBound
      /\ retryCount' = Smaller(retryCount + 1, RetryBound)
      /\ backoffDelay' = NextDelay(Smaller(given, RetryMax))
  BY DEF TypeOK, SleepBackoff
<1>2. CASE RetryBound = 0
  BY <1>1, <1>2 DEF Smaller
<1>3. CASE RetryBound > 0 /\ retryCount = 0
  <2>1. retryCount' = 1 /\ given = RetryInitial
    BY <1>1, <1>3, Constants DEF BackoffInv, Smaller
  <2>2. Delay(0) = Smaller(RetryInitial, RetryMax)
    BY PowerOfZero, Constants DEF Delay
  <2>3. NextDelay(Delay(0)) = Delay(1)
    BY NextDelays
  <2>4. QED
    BY <1>1, <2>1, <2>2, <2>3
<1>4. CASE retryCount > 0
  <2>1. backoffDelay = Delay(retryCount) /\ retryCount \in Nat /\ retryCount # 0
    BY <1>1, <1>4, Constants DEF BackoffInv
  <2>2. Smaller(given, RetryMax) = backoffDelay
    <3>1. backoffDelay \in Nat /\ backoffDelay <= RetryMax
      BY <2>1, Constants DEF TypeOK, Delay, Smaller, Larger
    <3>2. RetryMax > 0 => backoffDelay # 0
      BY <2>1, NextDelays
    <3>3. QED
      BY <3>1, <3>2, Constants DEF Smaller
  <2>3. backoffDelay' = Delay(retryCount + 1)
    BY <1>1, <2>1, <2>2, NextDelays
  <2>4. CASE retryCount < RetryBound
    BY <1>1, <1>4, <2>3, <2>4, Constants DEF Smaller
  <2>5. CASE retryCount = RetryBound
    <3>1. retryCount' = RetryBound
      BY <1>1, <2>5, Constants DEF Smaller
    <3>2. backoffDelay' = Delay(RetryBound)
      BY <1>1, <2>1, <2>2, <2>5, LastDelay
    <3>3. QED
      BY <3>1, <3>2, <2>1, <2>5
  <2>6. QED
    BY <1>1, <2>4, <2>5, Constants
<1>5. QED
  BY <1>1, <1>2, <1>3, <1>4, Constants

LEMMA RetriesFrame ==
  ASSUME [Next]_vars
  PROVE  \/ \E c \in Collectors : ResetBackoff(c) \/ SleepBackoff(c)
         \/ UNCHANGED retries
<1>1. CASE UNCHANGED vars
  BY <1>1 DEF vars
<1>2. ASSUME NEW r \in Requests,
             \/ ConnectPort(r) \/ ConnectBaud(r) \/ ConnectAddress(r)
             \/ Start(r) \/ ConnectCheck(r) \/ ConnectAnswer(r)
             \/ ConfigBaud(r) \/ ConfigAddress(r) \/ ConfigReconnect(r)
             \/ ConfigAnswer(r)
      PROVE  UNCHANGED retries
  BY <1>2, Zenon DEF ConnectPort, ConnectBaud, ConnectAddress, Start, ConnectCheck,
     ConnectAnswer, ConfigBaud, ConfigAddress, ConfigReconnect, ConfigAnswer
<1>3. ASSUME NEW c \in Collectors,
             \/ Top(c) \/ Report(c) \/ ShouldReconnect(c)
             \/ ReadBegins(c) \/ ReadSucceeds(c) \/ ReadFails(c) \/ Sample(c)
             \/ ClosePort(c) \/ SleepEnds(c)
      PROVE  UNCHANGED retries
  BY <1>3, Zenon DEF Top, Report, ShouldReconnect, ReadBegins, ReadSucceeds,
     ReadFails, Sample, ClosePort, SleepEnds
<1>4. ASSUME NEW a \in Actors,
             CopySettings(a) \/ OpenSucceeds(a) \/ OpenFails(a) \/ StorePort(a)
      PROVE  UNCHANGED retries
  BY <1>4, Zenon DEF CopySettings, OpenSucceeds, OpenFails, StorePort
<1>5. CASE Signal \/ Cancel \/ StopWaits \/ StopCloses
  BY <1>5, Zenon DEF Signal, Cancel, StopWaits, StopCloses
<1>6. QED
  BY <1>1, <1>2, <1>3, <1>4, <1>5, NextCases, Zenon

LEMMA BackoffInductive == TypeOK /\ BackoffInv /\ [Next]_vars => BackoffInv'
<1> SUFFICES ASSUME TypeOK, BackoffInv, [Next]_vars PROVE BackoffInv'
  OBVIOUS
<1>1. ASSUME NEW c \in Collectors, ResetBackoff(c) PROVE BackoffInv'
  BY <1>1 DEF ResetBackoff, BackoffInv
<1>2. CASE UNCHANGED retries
  BY <1>2 DEF retries, BackoffInv
<1>3. QED
  BY <1>1, <1>2, RetriesFrame, BackoffSleeps

(* The next delay is IOT_RETRY_INITIAL_MS doubled by every retry that      *)
(* /status counts, up to IOT_RETRY_MAX_MS, for every pair of settings      *)
(* (driver.go:205-229).                                                    *)
THEOREM BackoffMatchesRetriesTheorem == Spec => []BackoffMatchesRetries
<1>1. Init => BackoffInv
  BY DEF Init, BackoffInv
<1>2. BackoffInv => BackoffMatchesRetries
  BY DEF BackoffInv, BackoffMatchesRetries, Delay
<1>3. QED
  BY <1>1, <1>2, BackoffInductive, TypeCorrect, PTL DEF Spec
=============================================================================
