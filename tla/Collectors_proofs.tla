------------------------- MODULE Collectors_proofs -------------------------
(***************************************************************************)
(* Proofs about the programs of one collecting goroutine for each device:  *)
(* ModbusCollectors, for either program, and Sht3x, for any settings, any  *)
(* addresses and any calibrations.  The two share no name and no variable. *)
(***************************************************************************)
EXTENDS ModbusCollectors, Sht3x, TLAPS

(* Where a collector is without a connection and where it has one.  Between *)
(* a failed read and the close that follows the status is not OK.           *)
LinkInv(l) ==
  /\ pc[l] \in {"top", "connect", "refused", "sleep", "exited"} => ~open[l]
  /\ pc[l] \in {"mark", "write", "store"} => open[l]
  /\ pc[l] = "close" => ~ok[l]
  /\ ok[l] => open[l] \/ pc[l] = "exited"

(* daq2000 has waited for its collectors when it ends. *)
EndsAlone ==
  main = "exited" /\ program = "daq2000" => \A l \in AllLinks : pc[l] = "exited"

Inv == TypeOK /\ EndsAlone /\ \A l \in AllLinks : LinkInv(l)

LEMMA InvInit == Init => Inv
<1> SUFFICES ASSUME Init PROVE Inv
  OBVIOUS
<1>1. TypeOK
  BY ProgramsAssumption DEF Init, TypeOK, CollectorPC
<1>2. EndsAlone
  BY DEF Init, EndsAlone
<1>3. ASSUME NEW l \in AllLinks PROVE LinkInv(l)
  BY <1>3 DEF Init, LinkInv
<1>4. QED
  BY <1>1, <1>2, <1>3 DEF Inv

-----------------------------------------------------------------------------
(* A step of collector l changes its own entries of pc, open, tried and ok. *)
LEMMA StepsAreLocal ==
  ASSUME TypeOK, NEW l \in AllLinks, Collector(l)
  PROVE  /\ \A k \in AllLinks \ {l} :
              pc'[k] = pc[k] /\ (open'[k] <=> open[k]) /\ (ok'[k] <=> ok[k])
         /\ UNCHANGED <<program, ctx, main>>
         /\ TypeOK'
<1>1. CASE Top(l) \/ ConnectFails(l) \/ Sleep(l) \/ Checks(l)
  <2>1. \E c \in CollectorPC : pc' = [pc EXCEPT ![l] = c]
    BY <1>1 DEF Top, ConnectFails, Sleep, Checks, Moves, CollectorPC
  <2>2. QED
    BY <1>1, <2>1 DEF Top, ConnectFails, Sleep, Checks, TypeOK
<1>2. CASE Refused(l) \/ Mark(l) \/ Write(l) \/ Store(l) \/ Failed(l)
  <2>1. \E c \in CollectorPC, b \in BOOLEAN :
          pc' = [pc EXCEPT ![l] = c] /\ ok' = [ok EXCEPT ![l] = b]
    BY <1>2 DEF Refused, Mark, Write, Store, Failed, Moves, Shows, CollectorPC
  <2>2. /\ UNCHANGED <<program, open, ctx, main>>
        /\ \E b \in BOOLEAN : tried' \in {tried, [tried EXCEPT ![l] = b]}
    BY <1>2 DEF Refused, Mark, Write, Store, Failed
  <2>3. TypeOK'
    BY <2>1, <2>2 DEF TypeOK
  <2>4. \A k \in AllLinks \ {l} : pc'[k] = pc[k] /\ (ok'[k] <=> ok[k])
    BY <2>1 DEF TypeOK
  <2>5. QED
    BY <2>2, <2>3, <2>4
<1>3. CASE Connects(l) \/ Leave(l) \/ Reads(l) \/ ReadFails(l) \/ Close(l)
  <2>1. \E c \in CollectorPC : pc' = [pc EXCEPT ![l] = c]
    BY <1>3 DEF Connects, Leave, Reads, ReadFails, Close, Moves, CollectorPC
  <2>2. \E b \in BOOLEAN : open' = [open EXCEPT ![l] = b]
    BY <1>3 DEF Connects, Leave, Reads, ReadFails, Close, SetOpen, TypeOK
  <2>3. \E b \in BOOLEAN : tried' \in {tried, [tried EXCEPT ![l] = b]}
    BY <1>3 DEF Connects, Leave, Reads, ReadFails, Close
  <2>4. UNCHANGED <<program, ok, ctx, main>>
    BY <1>3 DEF Connects, Leave, Reads, ReadFails, Close
  <2>5. TypeOK'
    BY <2>1, <2>2, <2>3, <2>4 DEF TypeOK
  <2>6. \A k \in AllLinks \ {l} : pc'[k] = pc[k] /\ (open'[k] <=> open[k])
    BY <2>1, <2>2 DEF TypeOK
  <2>7. QED
    BY <2>4, <2>5, <2>6
<1>4. QED
  BY <1>1, <1>2, <1>3 DEF Collector

(* ... and keeps what the invariant says of it. *)
LEMMA CollectorKeeps ==
  ASSUME TypeOK, NEW l \in AllLinks, LinkInv(l), Collector(l)
  PROVE  LinkInv(l)'
<1> USE DEF LinkInv, TypeOK, Moves
<1>1. CASE Top(l) \/ ConnectFails(l) \/ Sleep(l) \/ Checks(l)
  BY <1>1 DEF Top, ConnectFails, Sleep, Checks
<1>2. CASE Connects(l)
  <2>1. pc'[l] \in {"mark", "tick"} /\ open'[l]
    BY <1>2 DEF Connects, SetOpen
  <2>2. QED
    BY <2>1
<1>3. CASE Refused(l)
  <2>1. pc'[l] = "sleep" /\ ~ok'[l] /\ ~open'[l]
    BY <1>3 DEF Refused, Shows
  <2>2. QED
    BY <2>1
<1>4. CASE Mark(l) \/ Write(l) \/ Store(l)
  <2>1. pc'[l] \in {"write", "tick"} /\ open'[l]
    BY <1>4 DEF Mark, Write, Store
  <2>2. QED
    BY <2>1
<1>5. CASE Leave(l)
  <2>1. pc'[l] = "exited" /\ ~open'[l]
    BY <1>5 DEF Leave, SetOpen
  <2>2. QED
    BY <2>1
<1>6. CASE Reads(l)
  <2>1. pc'[l] = "store" /\ open'[l]
    BY <1>6 DEF Reads, SetOpen
  <2>2. QED
    BY <2>1
<1>7. CASE ReadFails(l)
  <2>1. pc[l] # "exited" /\ pc'[l] = "failed"
    BY <1>7 DEF ReadFails, Due
  <2>2. open[l] => open'[l]
    BY <1>7 DEF ReadFails, SetOpen
  <2>3. ok'[l] <=> ok[l]
    BY <1>7 DEF ReadFails
  <2>4. QED
    BY <2>1, <2>2, <2>3
<1>8. CASE Failed(l)
  <2>1. pc'[l] = "close" /\ ~ok'[l]
    BY <1>8 DEF Failed, Shows
  <2>2. QED
    BY <2>1
<1>9. CASE Close(l)
  <2>1. pc'[l] \in {"tick", "sleep"} /\ ~open'[l] /\ ~ok'[l]
    BY <1>9 DEF Close, SetOpen
  <2>2. QED
    BY <2>1
<1>10. QED
  BY <1>1, <1>2, <1>3, <1>4, <1>5, <1>6, <1>7, <1>8, <1>9 DEF Collector

(* A step of main leaves the collectors alone. *)
LEMMA MainKeeps ==
  ASSUME Inv, Edge11ServerFails \/ Signal \/ Drained \/ Returns
  PROVE  Inv'
<1> USE DEF Edge11ServerFails, Signal, Drained, Returns, Main
<1>1. TypeOK'
  BY DEF Inv, TypeOK
<1>2. EndsAlone'
  BY DEF Inv, EndsAlone
<1>3. \A l \in AllLinks : LinkInv(l)'
  BY DEF Inv, LinkInv
<1>4. QED
  BY <1>1, <1>2, <1>3 DEF Inv

LEMMA InvNext == Inv /\ [Next]_vars => Inv'
<1> SUFFICES ASSUME Inv, [Next]_vars PROVE Inv'
  OBVIOUS
<1>1. CASE main # "exited" /\ \E l \in AllLinks : Collector(l)
  <2>1. PICK l \in AllLinks : Collector(l)
    BY <1>1
  <2>2. TypeOK' /\ UNCHANGED <<program, main>>
    BY <2>1, StepsAreLocal DEF Inv
  <2>3. LinkInv(l)'
    BY <2>1, CollectorKeeps DEF Inv
  <2>4. ASSUME NEW k \in AllLinks, k # l PROVE LinkInv(k)'
    BY <2>1, <2>4, StepsAreLocal DEF Inv, LinkInv
  <2>5. EndsAlone'
    BY <1>1, <2>2 DEF EndsAlone
  <2>6. QED
    BY <2>2, <2>3, <2>4, <2>5 DEF Inv
<1>2. CASE UNCHANGED vars
  BY <1>2 DEF vars, Inv, TypeOK, EndsAlone, LinkInv
<1>3. QED
  BY <1>1, <1>2, MainKeeps DEF Next

THEOREM InvInductive == Spec => []Inv
<1>1. QED
  BY InvInit, InvNext, PTL DEF Spec

-----------------------------------------------------------------------------
(* Both programs keep to the types of their state (TypeOK). *)
THEOREM TypeCorrect == Spec => []TypeOK
<1>1. Inv => TypeOK
  BY DEF Inv
<1>2. QED
  BY <1>1, InvInductive, PTL

(* Every connection is closed before the next handler is made and before   *)
(* daq2000 ends (NoneLeftOpen).                                            *)
THEOREM NoneLeftOpenTheorem == Spec => []NoneLeftOpen
<1>1. Inv => NoneLeftOpen
  BY DEF Inv, LinkInv, EndsAlone, NoneLeftOpen
<1>2. QED
  BY <1>1, InvInductive, PTL

(* No status shows a link as connected that has no connection, and whose   *)
(* collector is alive (OkHasConnection).                                   *)
THEOREM OkHasConnectionTheorem == Spec => []OkHasConnection
<1>1. Inv => OkHasConnection
  BY DEF Inv, LinkInv, OkHasConnection
<1>2. QED
  BY <1>1, InvInductive, PTL

-----------------------------------------------------------------------------
(* The steps of Sht3x. *)
LEMMA ShtCases ==
  ASSUME [ShtNext]_shtVars
  PROVE  \/ LookUpAddress \/ Command \/ Measure \/ Read \/ ReadOnceFails
         \/ SetReading \/ SetDisconnected \/ BackoffEnds \/ WaitEnds \/ Cancelled
         \/ \E a \in Addresses : PutI2C(a)
         \/ \E c \in Calibrations : PutCalibration(c)
         \/ Interrupted \/ ServerFails \/ Cancel \/ CloseBus \/ Exit
         \/ UNCHANGED shtVars
  BY DEF ShtNext, PollLoop, Handlers

(* The next delay is one of those between the initial one and the larger   *)
(* of the two settings.                                                    *)
LEMMA ShtDoubled ==
  ASSUME backoff \in InitialBackoff..Largest
  PROVE  Doubled \in InitialBackoff..Largest
  BY BackoffAssumption DEF Doubled, Largest

LEMMA ShtTypeInductive ==
  ASSUME ShtTypeOK, [ShtNext]_shtVars
  PROVE  ShtTypeOK'
<1>1. CASE LookUpAddress
  BY <1>1 DEF ShtTypeOK, LookUpAddress, LoopPC, settings, served, environment
<1>2. CASE \/ Command \/ Measure \/ Read \/ ReadOnceFails
           \/ WaitEnds \/ Cancelled
  BY <1>2 DEF ShtTypeOK, Command, Measure, Read, ReadOnceFails,
     WaitEnds, Cancelled, Steps, LoopPC,
     settings, served, environment
<1>3. CASE SetReading
  <2>1. reading' \in Readings /\ oldReadings' \in Nat
    BY <1>3 DEF ShtTypeOK, SetReading, Readings
  <2>2. backoff' \in InitialBackoff..Largest
    BY <1>3, BackoffAssumption DEF SetReading, Largest
  <2>3. QED
    BY <1>3, <2>1, <2>2 DEF ShtTypeOK, SetReading, LoopPC, settings, environment
<1>4. CASE SetDisconnected
  BY <1>4 DEF ShtTypeOK, SetDisconnected, LoopPC, settings, environment
<1>5. CASE BackoffEnds
  BY <1>5, ShtDoubled DEF ShtTypeOK, BackoffEnds, LoopPC,
     settings, served, environment
<1>6. ASSUME NEW a \in Addresses, PutI2C(a) PROVE ShtTypeOK'
  BY <1>6 DEF ShtTypeOK, PutI2C, served, loop, environment
<1>7. ASSUME NEW c \in Calibrations, PutCalibration(c) PROVE ShtTypeOK'
  BY <1>7 DEF ShtTypeOK, PutCalibration, served, loop, environment
<1>8. CASE Interrupted \/ ServerFails \/ Cancel \/ CloseBus \/ Exit
  BY <1>8 DEF ShtTypeOK, Interrupted, ServerFails, Cancel, CloseBus, Exit,
     MainPC, settings, served, loop
<1>9. CASE UNCHANGED shtVars
  BY <1>9 DEF ShtTypeOK, shtVars, settings, served, loop, environment
<1>10. QED
  BY <1>1, <1>2, <1>3, <1>4, <1>5, <1>6, <1>7, <1>8, <1>9, ShtCases

(* The state of the SHT3x driver keeps its types; the backoff stays within *)
(* the settings even where BACKOFF_INITIAL_MS is above BACKOFF_MAX_MS      *)
(* (temperature_and_humidity_sensor/main.go, pollLoop).                    *)
THEOREM ShtTypeCorrect == ShtSpec => []ShtTypeOK
<1>1. ASSUME ShtInit PROVE ShtTypeOK
  <2>1. backoff \in InitialBackoff..Largest
    BY <1>1, BackoffAssumption DEF ShtInit, Largest
  <2>2. connected \in BOOLEAN /\ ctxDone \in BOOLEAN
    BY <1>1, Zenon DEF ShtInit
  <2>3. QED
    BY <1>1, <2>1, <2>2 DEF ShtInit, ShtTypeOK, LoopPC, MainPC
<1>2. ShtTypeOK /\ [ShtNext]_shtVars => ShtTypeOK'
  BY ShtTypeInductive
<1>3. QED
  BY <1>1, <1>2, PTL DEF ShtSpec

-----------------------------------------------------------------------------
(* Once a reading of an old address was stored, the measurement in flight, *)
(* if any, is of the address that is set: it alone may be stored next.     *)
ShtOldInv ==
  /\ oldReadings \in {0, 1}
  /\ loopAt \in {"write", "measure", "read", "store"} =>
       oldReadings = 0 \/ readAddr = addr

(* However often PUT /i2c changes the address, and wherever a measurement  *)
(* is when it does, one reading of another address is stored at most       *)
(* before the next PUT (main.go, pollLoop, setReading and PUT /i2c).       *)
THEOREM ShtOldAddressOnce == ShtSpec => []OldAddressOnce
<1>1. ShtInit => ShtOldInv
  BY DEF ShtInit, ShtOldInv
<1>2. ASSUME ShtOldInv, [ShtNext]_shtVars PROVE ShtOldInv'
  <2>1. CASE LookUpAddress
    BY <1>2, <2>1 DEF ShtOldInv, LookUpAddress, settings
  <2>2. CASE SetReading
    BY <1>2, <2>2 DEF ShtOldInv, SetReading, settings
  <2>3. CASE \/ Command \/ Measure \/ Read \/ ReadOnceFails
             \/ WaitEnds \/ Cancelled
    BY <1>2, <2>3 DEF ShtOldInv, Command, Measure, Read, ReadOnceFails,
       WaitEnds, Cancelled, Steps, settings
  <2>4. CASE SetDisconnected \/ BackoffEnds
    BY <1>2, <2>4 DEF ShtOldInv, SetDisconnected, BackoffEnds, settings
  <2>5. ASSUME NEW a \in Addresses, PutI2C(a) PROVE ShtOldInv'
    BY <1>2, <2>5 DEF ShtOldInv, PutI2C
  <2>6. ASSUME NEW c \in Calibrations, PutCalibration(c) PROVE ShtOldInv'
    BY <1>2, <2>6 DEF ShtOldInv, PutCalibration, loop
  <2>7. CASE Interrupted \/ ServerFails \/ Cancel \/ CloseBus \/ Exit
    BY <1>2, <2>7 DEF ShtOldInv, Interrupted, ServerFails, Cancel, CloseBus,
       Exit, settings, loop
  <2>8. CASE UNCHANGED shtVars
    BY <1>2, <2>8 DEF ShtOldInv, shtVars, settings, loop
  <2>9. QED
    BY <1>2, <2>1, <2>2, <2>3, <2>4, <2>5, <2>6, <2>7, <2>8, ShtCases
<1>3. ShtOldInv => OldAddressOnce
  BY DEF ShtOldInv, OldAddressOnce
<1>4. QED
  BY <1>1, <1>2, <1>3, PTL DEF ShtSpec
=============================================================================
