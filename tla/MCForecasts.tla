------------------------------ MODULE MCForecasts ------------------------------
(***************************************************************************)
(* An instance of Forecasts for TLC: drift windows of one hour, which end  *)
(* one hour before the run.  In the first mix trainings and failures meet  *)
(* the scorings over a model that is there.  In the second the file and    *)
(* the API disagree on an hour and one drift run compares two windows.  In *)
(* the third two drift runs meet on the same window, one of them for one   *)
(* site maybe.  In the fourth there is no model yet and a drift run may    *)
(* die.                                                                    *)
(***************************************************************************)
EXTENDS Forecasts

CONSTANTS lyon, nice

Row(s, h, csv, v) == [site |-> s, hour |-> h, csv |-> csv, kwh |-> v]

Races ==
  [hours |-> 1, trained |-> TRUE, trainings |-> 2, runs |-> 0, failures |-> 1,
   score |-> Starters, drift |-> {}, instants |-> {1}, asked |-> {Sites},
   readings |-> {Row(lyon, 0, FALSE, 1)}]

TwoWindows ==
  [hours |-> 2, trained |-> TRUE, trainings |-> 0, runs |-> 1, failures |-> 0,
   score |-> {"dag"}, drift |-> {"hand"}, instants |-> {4}, asked |-> {Sites},
   readings |-> {Row(lyon, 0, FALSE, 1), Row(lyon, 1, FALSE, 1), Row(lyon, 2, FALSE, 2),
                 Row(lyon, 2, TRUE, None)}]

OneWindow ==
  [hours |-> 1, trained |-> TRUE, trainings |-> 0, runs |-> 2, failures |-> 0,
   score |-> {"dag"}, drift |-> {"hand"}, instants |-> {3}, asked |-> {Sites, {lyon}},
   readings |-> {Row(lyon, 0, FALSE, 1), Row(nice, 0, FALSE, 1), Row(lyon, 1, FALSE, 1)}]

Empty ==
  [hours |-> 1, trained |-> FALSE, trainings |-> 1, runs |-> 1, failures |-> 1,
   score |-> {"dag"}, drift |-> {"dag"}, instants |-> {}, asked |-> {},
   readings |-> {Row(lyon, 0, FALSE, 1)}]

Combinations == {Races, TwoWindows, OneWindow, Empty}
=============================================================================
