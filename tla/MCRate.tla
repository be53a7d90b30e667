-------------------------------- MODULE MCRate --------------------------------
(* Values for the configuration of StepgenRate: one axis, which turns at the *)
(* first start, and one segment.                                             *)
EXTENDS StepgenRate

CONSTANT X      \* the axis

OneAxis   == {X}
NoInvert  == [a \in Axes |-> FALSE]
RateKinds == {[dur |-> 2, rate |-> [a \in Axes |-> 1]]}
===============================================================================
