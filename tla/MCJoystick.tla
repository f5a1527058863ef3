----------------------------- MODULE MCJoystick -----------------------------
(* TLC instance of the RC input: a stick can be at either end, in the middle,
   and at one place that is neither. *)
EXTENDS Joystick

MCPositions == {-2, 0, 1, 2}
=============================================================================
