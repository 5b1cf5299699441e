------------------------------- MODULE Sht3x -------------------------------
(***************************************************************************)
(* temperature_and_humidity_sensor/main.go: one goroutine measures with an *)
(* SHT3x on an I2C bus, at the address and with the calibration offsets    *)
(* that PUT /i2c and PUT /calibration may change at any time.              *)
(*                                                                         *)
(* One step is one critical section of d.mu, one bus transaction or one    *)
(* wait.  A pair of offsets is one value, since it is written and used     *)
(* under one lock, and a reading is the address it was measured at and the *)
(* offsets it was calibrated with.  Raw values, CRCs (a failed read), time *)
(* stamps, error texts and the GET handlers, which copy the state under    *)
(* the lock, are left out.                                                 *)
(***************************************************************************)
EXTENDS Integers

CONSTANTS
  Addresses,        \* of the sensors on the bus, 0x40 and 0x41
  Calibrations,     \* pairs of offsets
  NoReading,        \* lastReading before the first one
  InitialBackoff,   \* BACKOFF_INITIAL_MS
  MaxBackoff        \* BACKOFF_MAX_MS; loadConfig does not compare the two

ASSUME BackoffAssumption ==
  InitialBackoff \in Nat \ {0} /\ MaxBackoff \in Nat \ {0}

VARIABLES
  addr, offsets,    \* what the handlers set
  reading,          \* lastReading
  connected,
  loopAt,           \* where pollLoop is
  readAddr,         \* its argument of readOnce
  backoff,
  ctxDone,          \* the context is cancelled
  mainAt,           \* where main is
  oldReadings       \* readings stored of another address since it was set

settings == <<addr, offsets>>
served == <<reading, connected>>
loop == <<loopAt, readAddr, backoff>>
environment == <<ctxDone, mainAt>>
shtVars == <<settings, served, loop, environment, oldReadings>>

LoopPC ==
  {"top", "write", "measure", "read", "store", "failed", "backoff", "wait",
   "exited"}
MainPC == {"serving", "draining", "cancelled", "closed", "exited"}

Readings == [from : Addresses, offsets : Calibrations]

Largest == IF InitialBackoff > MaxBackoff THEN InitialBackoff ELSE MaxBackoff

ShtTypeOK ==
  /\ addr \in Addresses
  /\ offsets \in Calibrations
  /\ reading \in Readings \cup {NoReading}
  /\ connected \in BOOLEAN
  /\ loopAt \in LoopPC
  /\ readAddr \in Addresses
  /\ backoff \in InitialBackoff..Largest
  /\ ctxDone \in BOOLEAN
  /\ mainAt \in MainPC
  /\ oldReadings \in Nat

ShtInit ==
  /\ addr \in Addresses
  /\ offsets \in Calibrations
  /\ reading = NoReading
  /\ connected = FALSE
  /\ loopAt = "top"
  /\ readAddr = addr
  /\ backoff = InitialBackoff
  /\ ctxDone = FALSE
  /\ mainAt = "serving"
  /\ oldReadings = 0

-----------------------------------------------------------------------------
(* pollLoop.                                                               *)

KeepsAddress ==
  /\ loopAt = "top"
  /\ loopAt' = IF ctxDone THEN "exited" ELSE "write"
  /\ UNCHANGED <<settings, served, readAddr, backoff, environment, oldReadings>>

\* The address is looked up for every measurement.
LookUpAddress ==
  /\ loopAt = "top"
  /\ loopAt' = IF ctxDone THEN "exited" ELSE "write"
  /\ readAddr' = IF ctxDone THEN readAddr ELSE addr
  /\ UNCHANGED <<settings, served, backoff, environment, oldReadings>>

Steps(from, to) ==
  /\ loopAt = from
  /\ loopAt' = to
  /\ UNCHANGED <<settings, served, readAddr, backoff, environment, oldReadings>>

\* readOnce: the command, the delay, which the context cuts short, and the
\* answer.  After bus.Close a transaction fails.
Command == mainAt # "closed" /\ Steps("write", "measure")
Measure == Steps("measure", "read")
Read == mainAt # "closed" /\ Steps("read", "store")
ReadOnceFails ==
  \/ Steps("write", "failed")
  \/ ctxDone /\ Steps("measure", "failed")
  \/ Steps("read", "failed")

\* setReading: whatever address has been set since, the offsets of now.
SetReading ==
  /\ loopAt = "store"
  /\ reading' = [from |-> readAddr, offsets |-> offsets]
  /\ connected' = TRUE
  /\ backoff' = InitialBackoff
  /\ oldReadings' = oldReadings + IF readAddr # addr THEN 1 ELSE 0
  /\ loopAt' = "wait"
  /\ UNCHANGED <<settings, readAddr, environment>>

StaysConnected == Steps("failed", "backoff")

\* setConnectedState(false, ...)
SetDisconnected ==
  /\ loopAt = "failed"
  /\ connected' = FALSE
  /\ loopAt' = "backoff"
  /\ UNCHANGED <<settings, reading, readAddr, backoff, environment, oldReadings>>

DoubledUncapped == IF backoff < MaxBackoff THEN 2 * backoff ELSE backoff

Doubled ==
  IF backoff < MaxBackoff
    THEN IF 2 * backoff > MaxBackoff THEN MaxBackoff ELSE 2 * backoff
    ELSE backoff

BackoffEnds ==
  /\ loopAt = "backoff"
  /\ backoff' = Doubled
  /\ loopAt' = "top"
  /\ UNCHANGED <<settings, served, readAddr, environment, oldReadings>>

WaitEnds == Steps("wait", "top")
Cancelled == ctxDone /\ (Steps("backoff", "exited") \/ Steps("wait", "exited"))

PollLoop ==
  \/ LookUpAddress \/ Command \/ Measure \/ Read \/ ReadOnceFails
  \/ SetReading \/ SetDisconnected \/ BackoffEnds \/ WaitEnds \/ Cancelled

-----------------------------------------------------------------------------
(* The handlers, which Shutdown does not wait for longer than 5 s, and     *)
(* main, which does not wait for pollLoop.                                 *)

PutI2C(a) ==
  /\ addr' = a
  /\ oldReadings' = 0
  /\ UNCHANGED <<offsets, served, loop, environment>>

PutCalibration(c) ==
  /\ offsets' = c
  /\ UNCHANGED <<addr, served, loop, environment, oldReadings>>

Interrupted ==
  /\ mainAt = "serving"
  /\ mainAt' = "draining"
  /\ UNCHANGED <<settings, served, loop, ctxDone, oldReadings>>

\* log.Fatalf ends the process without the deferred calls.
ServerFails ==
  /\ mainAt = "serving"
  /\ mainAt' = "exited"
  /\ UNCHANGED <<settings, served, loop, ctxDone, oldReadings>>

Cancel ==
  /\ mainAt = "draining"
  /\ ctxDone' = TRUE
  /\ mainAt' = "cancelled"
  /\ UNCHANGED <<settings, served, loop, oldReadings>>

CloseBus ==
  /\ mainAt = "cancelled"
  /\ mainAt' = "closed"
  /\ UNCHANGED <<settings, served, loop, ctxDone, oldReadings>>

Exit ==
  /\ mainAt = "closed"
  /\ mainAt' = "exited"
  /\ UNCHANGED <<settings, served, loop, ctxDone, oldReadings>>

Handlers ==
  \/ \E a \in Addresses : PutI2C(a)
  \/ \E c \in Calibrations : PutCalibration(c)

ShtNext ==
  \/ /\ mainAt # "exited"
     /\ PollLoop \/ Handlers \/ Interrupted \/ ServerFails \/ Cancel \/ CloseBus \/ Exit
  \/ mainAt = "exited" /\ UNCHANGED shtVars

ShtSpec == ShtInit /\ [][ShtNext]_shtVars

\* The goroutine is scheduled, and its timers and transactions end, well or
\* not.  Nothing is assumed of the sensor.
ShtFairSpec == ShtSpec /\ WF_shtVars(mainAt # "exited" /\ PollLoop)

-----------------------------------------------------------------------------
(* Properties.                                                             *)

\* After PUT /i2c at most one more reading of another sensor is stored, the one
\* whose measurement had begun.
OldAddressOnce == oldReadings <= 1

\* Settings that stay take effect: in the end /readings either answers 503 or
\* serves a reading of the sensor and with the offsets of now, whether or not
\* there is a sensor at the new address.
SettingsTakeEffect ==
  \A a \in Addresses, c \in Calibrations :
    addr = a /\ offsets = c ~>
      \/ connected => reading = [from |-> a, offsets |-> c]
      \/ addr # a \/ offsets # c \/ mainAt # "serving"
=============================================================================
