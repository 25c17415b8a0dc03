------------------------------- MODULE MCActa -------------------------------
(* Acta around a leap second: three instants, one written in two ways. *)
EXTENDS Acta

T(min, s, frac, off) == [min |-> min, s |-> s, frac |-> frac, off |-> off]
MCClock ==
  << {T(1439, 59, <<1>>, 0), T(1499, 59, <<1, 0>>, 60)},
     {T(1439, 59, <<1, 5>>, 0)},
     {T(1439, 60, << >>, 0)} >>
=============================================================================
