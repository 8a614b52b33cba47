----------------------------- MODULE MotorUnits -----------------------------
(***************************************************************************)
(* The way of a joint's command to its motor and of the motor's state back *)
(* (transmission.h, robstride.cpp): the direction of the motor, and values *)
(* as fractions of a range, in 16 bits.  Commands and limits are whole     *)
(* numbers of some unit; what comes back is counted in Steps-ths of it.    *)
(* Rounding of the floats themselves is not modelled.                      *)
(***************************************************************************)
EXTENDS Integers

CONSTANTS
  Steps,      \* the largest code, 65535
  Limits,     \* limits of the motor types
  Commands    \* values a controller may ask for

ASSUME UnitsAssumption ==
  /\ Steps \in Nat \ {0}
  /\ Limits \subseteq Nat \ {0}
  /\ Commands \subseteq Int

Clip(x, x_min, x_max) == IF x < x_min THEN x_min ELSE IF x > x_max THEN x_max ELSE x

(* Mutant of FloatToUint16: the value is not clipped, and the cast wraps. *)
FloatToUint16Wraps(x, x_min, x_max) ==
  (((x - x_min) * Steps) \div (x_max - x_min)) % (Steps + 1)

FloatToUint16(x, x_min, x_max) ==
  ((Clip(x, x_min, x_max) - x_min) * Steps) \div (x_max - x_min)

(* In Steps-ths of a unit. *)
Uint16ToFloat(n, x_min, x_max) == x_min * Steps + n * (x_max - x_min)

TransformJointToActuator(direction, cmd) == cmd * direction
TransformActuatorToJoint(direction, state) == state * direction

(* SetMitCmd, and ParseFeedback of a motor that stands where it was sent. *)
Code(direction, x, limit) == FloatToUint16(TransformJointToActuator(direction, x), - limit, limit)
Reported(direction, x, limit) ==
  TransformActuatorToJoint(direction, Uint16ToFloat(Code(direction, x, limit), - limit, limit))
-----------------------------------------------------------------------------
(* A command out of range becomes the limit, never a value from the other  *)
(* end of it, and what a motor that obeys reports is the command, less     *)
(* than one step away, whichever way round the motor is mounted.           *)
CommandComesBack ==
  \A limit \in Limits, direction \in {-1, 1}, x \in Commands :
    /\ Code(direction, x, limit) \in 0 .. Steps
    /\ LET error == Reported(direction, x, limit) - Clip(x, - limit, limit) * Steps
       IN  - (2 * limit) < error /\ error < 2 * limit
=============================================================================
