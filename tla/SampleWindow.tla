---------------------------- MODULE SampleWindow ----------------------------
(***************************************************************************)
(* The buffer that the documents of the edge data acquisition module       *)
(* describe: the latest samples, in the order they were taken, as many as  *)
(* the capacity allows.  Daq's array with a head and a length is shown to  *)
(* implement it.                                                           *)
(***************************************************************************)
EXTENDS Naturals, Sequences

CONSTANTS Capacity, Samples

VARIABLE window

Init == window = <<>>

Add(x) ==
  window' = Append(IF Len(window) < Capacity THEN window ELSE Tail(window), x)

Next == \E x \in Samples : Add(x)

Spec == Init /\ [][Next]_window
=============================================================================
