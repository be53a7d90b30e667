----------------------------- MODULE DriverInputs -----------------------------
(***************************************************************************)
(* What the stepper drives are promised on their inputs: a STEP line       *)
(* falls between two pulses, and a pulse comes only after the DIR line of  *)
(* its axis has been stable for Setup ticks.  Under that contract a drive  *)
(* counts every pulse, one position up or down.                            *)
(***************************************************************************)
EXTENDS Integers

CONSTANTS
    Axes,       \* the axes
    Positive,   \* per axis: the DIR level of positive motion
    Setup,      \* ticks a DIR line is stable before a pulse
    Far         \* where the two clocks saturate

VARIABLES
    dir,        \* the DIR lines
    position,   \* where the motors are
    sinceTurn,  \* per axis: ticks since the DIR line changed
    sincePulse  \* per axis: ticks since the last pulse, 0 while STEP is high

vars == <<dir, position, sinceTurn, sincePulse>>

Init ==
    /\ dir \in [Axes -> BOOLEAN]
    /\ position = [a \in Axes |-> 0]
    /\ sinceTurn = [a \in Axes |-> Far]
    /\ sincePulse = [a \in Axes |-> Far]

Aged(t) == IF t < Far THEN t + 1 ELSE t

(* One tick of the timebase, with a pulse for the axes in S. *)
Pulse(S) ==
    /\ \A a \in S : sinceTurn[a] >= Setup /\ sincePulse[a] >= 1
    /\ position' = [a \in Axes |->
                      IF a \notin S THEN position[a]
                      ELSE IF dir[a] = Positive[a] THEN position[a] + 1
                      ELSE position[a] - 1]
    /\ sinceTurn' = [a \in Axes |-> Aged(sinceTurn[a])]
    /\ sincePulse' = [a \in Axes |-> IF a \in S THEN 0 ELSE Aged(sincePulse[a])]
    /\ UNCHANGED dir

(* DIR lines change together. *)
Turn(lines) ==
    /\ dir' = lines
    /\ sinceTurn' = [a \in Axes |-> IF lines[a] # dir[a] THEN 0 ELSE sinceTurn[a]]
    /\ UNCHANGED <<position, sincePulse>>

(* The timebase starts; its STEP lines have been low for long. *)
Restart ==
    /\ sincePulse' = [a \in Axes |-> Far]
    /\ UNCHANGED <<dir, position, sinceTurn>>

Next ==
    \/ \E S \in SUBSET Axes : Pulse(S)
    \/ \E lines \in [Axes -> BOOLEAN] : Turn(lines)
    \/ Restart

Spec == Init /\ [][Next]_vars
=============================================================================
