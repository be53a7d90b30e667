-------------------------------- MODULE MCHost --------------------------------
(* Values for the configurations of StepgenHost: one axis, the rates of the  *)
(* stimuli and the segments they submit.                                     *)
EXTENDS StepgenHost

CONSTANT X      \* the axis

OneAxis  == {X}
NoInvert == [a \in Axes |-> FALSE]
Fwd == [a \in Axes |-> RateMax]
Rev == [a \in Axes |-> -RateMax]

HostKinds ==
    [dur : {4 * HalfTicks}, rate : {Fwd, Rev}] \cup [dur : 1 .. HalfTicks, rate : {Fwd}]
===============================================================================
