-------------------------- MODULE ModbusCollectors --------------------------
(***************************************************************************)
(* Two Go programs that collect from an edge module over Modbus with a     *)
(* goburrow handler for each connection, and serve their status:           *)
(*   "daq2000"  industrial_io_t_edge_data_acquisition_module/driver.go,    *)
(*              one collector over TCP and one over RTU;                   *)
(*   "edge11"   industrial_io_t_edge_data_acquisition_module__11, one      *)
(*              collector over TCP.                                        *)
(* Init chooses the program.                                               *)
(*                                                                         *)
(* Send of a handler connects when there is no connection, and leaves the  *)
(* connection alone when the request fails.  A poll is one step, whatever  *)
(* it reads; the values, the delays, the counters of attempts, the texts   *)
(* of errors and the MQTT client of daq2000 are left out, and the polling  *)
(* interval is below the 60 s after which the library closes a connection  *)
(* that is not used.                                                       *)
(***************************************************************************)

CONSTANT Programs   \* the programs to look at

ASSUME ProgramsAssumption == Programs \subseteq {"daq2000", "edge11"}

VARIABLES
  program,
  pc,           \* of each collector
  open,         \* the handler it made last has a connection
  tried,        \* the writes were sent over this connection
  ok,           \* OK in the CommStatus of daq2000, connected in the buffer of edge11
  ctx,          \* the context is cancelled
  main

vars == <<program, pc, open, tried, ok, ctx, main>>

AllLinks == {"tcp", "rtu"}
Links == IF program = "daq2000" THEN AllLinks ELSE {"tcp"}

CollectorPC ==
  {"top", "connect", "refused", "sleep", "mark", "write", "tick", "read",
   "store", "failed", "close", "exited"}

TypeOK ==
  /\ program \in Programs
  /\ pc \in [AllLinks -> CollectorPC]
  /\ open \in [AllLinks -> BOOLEAN]
  /\ tried \in [AllLinks -> BOOLEAN]
  /\ ok \in [AllLinks -> BOOLEAN]
  /\ ctx \in BOOLEAN
  /\ main \in {"serving", "draining", "waiting", "exited"}

\* Of edge11 there is one collector.
Init ==
  /\ program \in Programs
  /\ pc = [l \in AllLinks |-> IF l \in Links THEN "top" ELSE "exited"]
  /\ open = [l \in AllLinks |-> FALSE]
  /\ tried = [l \in AllLinks |-> FALSE]
  /\ ok = [l \in AllLinks |-> FALSE]
  /\ ctx = FALSE
  /\ main = "serving"

-----------------------------------------------------------------------------
(* A collector.                                                            *)

Moves(l, from, to) == pc[l] = from /\ pc' = [pc EXCEPT ![l] = to]
Shows(l, b) == ok' = [ok EXCEPT ![l] = b]
SetOpen(l, b) == open' = [open EXCEPT ![l] = b]

Top(l) ==
  /\ Moves(l, "top", IF ctx THEN "exited" ELSE "connect")
  /\ UNCHANGED <<program, open, tried, ok, ctx, main>>

Connects(l) ==
  /\ Moves(l, "connect", IF program = "daq2000" THEN "mark" ELSE "tick")
  /\ SetOpen(l, TRUE)
  /\ tried' = [tried EXCEPT ![l] = FALSE]
  /\ UNCHANGED <<program, ok, ctx, main>>

ConnectFails(l) ==
  /\ Moves(l, "connect", "refused")
  /\ UNCHANGED <<program, open, tried, ok, ctx, main>>

Refused(l) ==
  /\ Moves(l, "refused", "sleep")
  /\ Shows(l, FALSE)
  /\ UNCHANGED <<program, open, tried, ctx, main>>

\* The context cuts the sleep short; edge11 finds that out at the top.
Sleep(l) ==
  /\ \/ Moves(l, "sleep", "top")
     \/ ctx /\ program = "daq2000" /\ Moves(l, "sleep", "exited")
  /\ UNCHANGED <<program, open, tried, ok, ctx, main>>

Mark(l) ==
  /\ Moves(l, "mark", "write")
  /\ Shows(l, TRUE)
  /\ UNCHANGED <<program, open, tried, ctx, main>>

\* The optional writes, once for each Connect.  One that fails is reported,
\* and the status stays OK.
Write(l) ==
  /\ Moves(l, "write", "tick")
  /\ tried' = [tried EXCEPT ![l] = TRUE]
  /\ Shows(l, TRUE)
  /\ UNCHANGED <<program, open, ctx, main>>

\* edge11 looks at the context before every poll; daq2000 takes the tick or the
\* end of the context, whichever it finds, and either if both are there.
Checks(l) ==
  /\ program = "edge11" /\ ~ctx
  /\ Moves(l, "tick", "read")
  /\ UNCHANGED <<program, open, tried, ok, ctx, main>>

Leave(l) ==
  /\ ctx
  /\ Moves(l, "tick", "exited")
  /\ SetOpen(l, FALSE)
  /\ UNCHANGED <<program, tried, ok, ctx, main>>

Due == IF program = "daq2000" THEN "tick" ELSE "read"

ReadsIfOpen(l) ==
  /\ open[l]
  /\ Moves(l, Due, "store")
  /\ UNCHANGED <<program, open, tried, ok, ctx, main>>

\* A poll succeeds, over a connection that the library makes if need be.
Reads(l) ==
  /\ Moves(l, Due, "store")
  /\ SetOpen(l, TRUE)
  /\ tried' = [tried EXCEPT ![l] = @ /\ open[l]]
  /\ UNCHANGED <<program, ok, ctx, main>>

ReadFails(l) ==
  /\ Moves(l, Due, "failed")
  /\ \E b \in {open[l], TRUE} : SetOpen(l, b)
  /\ tried' = [tried EXCEPT ![l] = @ /\ open[l]]
  /\ UNCHANGED <<program, ok, ctx, main>>

Store(l) ==
  /\ Moves(l, "store", "tick")
  /\ Shows(l, TRUE)
  /\ UNCHANGED <<program, open, tried, ctx, main>>

Failed(l) ==
  /\ Moves(l, "failed", "close")
  /\ Shows(l, FALSE)
  /\ UNCHANGED <<program, open, tried, ctx, main>>

StaysOpen(l) ==
  /\ Moves(l, "close", IF program = "daq2000" THEN "tick" ELSE "sleep")
  /\ UNCHANGED <<program, open, tried, ok, ctx, main>>

\* The break of daq2000 ends the select and not the loop around it: the next
\* poll uses the same handler.  edge11 leaves its loop and connects anew.
Close(l) ==
  /\ Moves(l, "close", IF program = "daq2000" THEN "tick" ELSE "sleep")
  /\ SetOpen(l, FALSE)
  /\ UNCHANGED <<program, tried, ok, ctx, main>>

Collector(l) ==
  \/ Top(l) \/ Connects(l) \/ ConnectFails(l) \/ Refused(l) \/ Sleep(l)
  \/ Mark(l) \/ Write(l) \/ Checks(l) \/ Leave(l) \/ Reads(l) \/ ReadFails(l)
  \/ Store(l) \/ Failed(l) \/ Close(l)

-----------------------------------------------------------------------------
(* main.                                                                   *)

Main(from, to) ==
  main = from /\ main' = to /\ UNCHANGED <<program, pc, open, tried, ok>>

\* log.Fatalf; daq2000 goes on without its server.
Edge11ServerFails ==
  program = "edge11" /\ Main("serving", "exited") /\ UNCHANGED ctx

Signal == Main("serving", "draining") /\ ctx' = TRUE

\* Shutdown ends, or its time is up.
Drained == Main("draining", "waiting") /\ UNCHANGED ctx

ReturnsAtOnce == Main("waiting", "exited") /\ UNCHANGED ctx

\* daq2000 waits for its collectors, edge11 does not.
Returns ==
  /\ program = "daq2000" => \A l \in AllLinks : pc[l] = "exited"
  /\ Main("waiting", "exited")
  /\ UNCHANGED ctx

Next ==
  \/ main # "exited" /\ \E l \in AllLinks : Collector(l)
  \/ Edge11ServerFails \/ Signal \/ Drained \/ Returns
  \/ main = "exited" /\ UNCHANGED vars

Spec == Init /\ [][Next]_vars

\* Every goroutine runs and every wait of it ends; a connection or a poll that
\* is tried for ever succeeds in the end.
FairSpec ==
  /\ Spec
  /\ WF_vars(Drained \/ Returns)
  /\ \A l \in AllLinks :
       /\ WF_vars(main # "exited" /\ Collector(l))
       /\ SF_vars(main # "exited" /\ Connects(l))
       /\ SF_vars(main # "exited" /\ Reads(l))

-----------------------------------------------------------------------------
(* Properties.                                                             *)

\* A handler is made, and daq2000 ends, only when the connection before is
\* closed: none is left behind.
NoneLeftOpen ==
  /\ \A l \in AllLinks :
       pc[l] \in {"top", "connect", "refused", "sleep", "exited"} => ~open[l]
  /\ main = "exited" /\ program = "daq2000" => \A l \in AllLinks : ~open[l]

\* A link is shown as connected only while it has a connection; the status of a
\* collector that has ended is its last one.
OkHasConnection == \A l \in AllLinks : ok[l] => open[l] \/ pc[l] = "exited"

\* While the program serves, every collector goes on getting values.
Acquires ==
  \A l \in AllLinks : []<>(l \in Links => pc[l] = "store" \/ main # "serving")

\* Nothing is read over a connection on which the writes were not sent first
\* (driver.go:199, "Optional writes on connect").
WritesOnConnect ==
  program = "daq2000" => \A l \in AllLinks : pc[l] = "store" => tried[l]
=============================================================================
