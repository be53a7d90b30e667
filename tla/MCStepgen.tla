------------------------------ MODULE MCStepgen ------------------------------
(* Values for the configurations of Stepgen. *)
EXTENDS StepgenProps

CONSTANTS X, Y      \* axes

OneAxis  == {X}
TwoAxes  == {X, Y}
NoInvert == [a \in Axes |-> FALSE]
YInvert  == [a \in Axes |-> a = Y]

(* One rate for every axis. *)
Uniform(d, r) == [dur |-> d, rate |-> [a \in Axes |-> r]]

(* A reversal and a segment that does not validate. *)
LifecycleKinds == {Uniform(3, 1), Uniform(2, -1), Uniform(0, 1)}

(* Full speed both ways, in lengths that end a segment on and off the end   *)
(* of a half, and a slow segment that shifts the phase.                     *)
ReversingKinds == {Uniform(4, 2), Uniform(3, -2), Uniform(2, 1)}

(* Two axes that turn at different segments, at full speed and slower.      *)
Pair(d, x, y) == [dur |-> d, rate |-> [a \in Axes |-> IF a = X THEN x ELSE y]]
CoordinatedKinds == {Pair(4, 2, 2), Pair(3, -2, 2), Pair(2, 1, -1)}
=============================================================================
