------------------------------- MODULE S7Link -------------------------------
(***************************************************************************)
(* What the Siemens S7-1200 driver promises the caller of /plc/connect,    *)
(* /plc/disconnect and /plc/status, without its lock, channels, timers,    *)
(* clients or requests in flight.  One background worker keeps the link    *)
(* up.  It is started by the first request for a link and by no later one, *)
(* and it may retire only once a release has been asked for: a worker that *)
(* has retired is never replaced.  S7Driver is shown to implement this.    *)
(***************************************************************************)
EXTENDS Naturals

VARIABLES
  wanted,     \* the caller has asked for a link and not released it
  up,         \* what the driver reports as its connection state
  worker,     \* the background worker: "none", "alive" or "gone"
  released    \* a release has been asked for since the worker started

vars == <<wanted, up, worker, released>>

TypeOK ==
  /\ wanted \in BOOLEAN
  /\ up \in BOOLEAN
  /\ worker \in {"none", "alive", "gone"}
  /\ released \in BOOLEAN

Init ==
  /\ wanted = FALSE
  /\ up = FALSE
  /\ worker = "none"
  /\ released = FALSE

Want ==
  /\ ~wanted
  /\ wanted' = TRUE
  /\ worker' = IF worker = "none" THEN "alive" ELSE worker
  /\ UNCHANGED <<up, released>>

Release ==
  /\ wanted' = FALSE
  /\ up' = FALSE
  /\ released' = (worker # "none")
  /\ UNCHANGED worker

\* The worker brings the link up, whether or not it is still wanted.
Establish ==
  /\ worker = "alive"
  /\ up' = TRUE
  /\ UNCHANGED <<wanted, worker, released>>

Drop ==
  /\ up' = FALSE
  /\ UNCHANGED <<wanted, worker, released>>

Retire ==
  /\ worker = "alive"
  /\ released
  /\ worker' = "gone"
  /\ UNCHANGED <<wanted, up, released>>

Next == Want \/ Release \/ Establish \/ Drop \/ Retire

Spec == Init /\ [][Next]_vars
=============================================================================
