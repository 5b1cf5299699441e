---------------------------- MODULE StreamControl ----------------------------
(***************************************************************************)
(* What the USB camera driver promises the callers of /stream/start and    *)
(* /stream/stop, without its device, channels, errors or other requests.   *)
(* A start brings one worker to life, and only where the last one has      *)
(* gone; the worker goes when a stop asks for it and for no other reason,  *)
(* however often the device fails it; the stream counts as stopped when    *)
(* the worker has gone, and not before.  A stop that meets another one     *)
(* leaves the driver stuck: then nothing is answered any more, but the     *)
(* worker may still go.  UvcCamera is shown to implement this.             *)
(***************************************************************************)

VARIABLES
  phase,      \* "idle", "streaming", or "stopping" once a stop has asked
  worker,     \* the capture goroutine: "alive" or "gone"
  stuck

vars == <<phase, worker, stuck>>

Init ==
  /\ phase = "idle"
  /\ worker = "gone"
  /\ stuck = FALSE

Start ==
  /\ ~stuck
  /\ phase = "idle"
  /\ worker = "gone"
  /\ phase' = "streaming"
  /\ worker' = "alive"
  /\ UNCHANGED stuck

Stop ==
  /\ ~stuck
  /\ phase = "streaming"
  /\ phase' = "stopping"
  /\ UNCHANGED <<worker, stuck>>

StopAgain ==
  /\ ~stuck
  /\ phase = "stopping"
  /\ stuck' = TRUE
  /\ UNCHANGED <<phase, worker>>

Go ==
  /\ phase = "stopping"
  /\ worker = "alive"
  /\ worker' = "gone"
  /\ UNCHANGED <<phase, stuck>>

Stopped ==
  /\ ~stuck
  /\ phase = "stopping"
  /\ worker = "gone"
  /\ phase' = "idle"
  /\ UNCHANGED <<worker, stuck>>

Next == Start \/ Stop \/ StopAgain \/ Go \/ Stopped

Spec == Init /\ [][Next]_vars
=============================================================================
