---------------------------- MODULE MCAlertPipeline ----------------------------
(***************************************************************************)
(* An instance of AlertPipeline for TLC: one site of capacity 10, silent   *)
(* after two hours, whose readings jump, pass the capacity, deviate from   *)
(* their forecast, are faulty or empty.                                    *)
(***************************************************************************)
EXTENDS AlertPipeline

OneSite == {1}
Capacities == [s \in OneSite |-> 10]

Good == [value |-> [f \in Measured |-> 8], quality |-> "good", reasons |-> {}]
Faulty == [value |-> [f \in Measured |-> 20], quality |-> "partial", reasons |-> {"humidity"}]
Absurd == [value |-> [f \in Measured |-> IF f = "kwh" THEN 20 ELSE 99], quality |-> "good", reasons |-> {}]
Empty == [value |-> [f \in Measured |-> None], quality |-> None, reasons |-> {}]

Record(h, kwh, missing) == [site |-> 1, hour |-> h, kwh |-> kwh, missing |-> missing]

\* One file of two hours, one that is written an hour ahead and lacks a measure, one that
\* repeats an hour and is refused.
Files ==
  << [records |-> <<Record(0, 8, {}), Record(1, 20, {})>>, ahead |-> 0, total |-> 2, sites |-> OneSite],
     [records |-> <<Record(1, 20, {"euros"})>>, ahead |-> 1, total |-> 1, sites |-> OneSite],
     [records |-> <<Record(0, 8, {}), Record(0, 20, {})>>, ahead |-> 0, total |-> 2, sites |-> OneSite] >>

Said == {10}

Combinations ==
  { [hand |-> {1}, hours |-> 1, readings |-> 1, predictions |-> 0, failures |-> 1,
     reports |-> {Faulty}, files |-> <<>>],
    [hand |-> {}, hours |-> 2, readings |-> 2, predictions |-> 0, failures |-> 0,
     reports |-> {Good, Faulty, Absurd, Empty}, files |-> <<>>],
    [hand |-> {}, hours |-> 1, readings |-> 3, predictions |-> 1, failures |-> 0,
     reports |-> {Faulty}, files |-> Files] }
=============================================================================
