------------------------------ MODULE ImuFrame ------------------------------
(***************************************************************************)
(* ImuFrameFix (imu_frame.h): the change from the sensor's frame to the    *)
(* one the policy was trained in.  Quaternions are kept without their      *)
(* norms, which the last lines of ApplyQuat divide out: qW is (0, 1, 1, 0) *)
(* for the code's (0, r, r, 0) with r^2 = 1/2.                             *)
(***************************************************************************)
EXTENDS Integers

Quat == [w : Int, x : Int, y : Int, z : Int]
Vec  == [x : Int, y : Int, z : Int]

Mul(a, b) ==
  [w |-> a.w * b.w - a.x * b.x - a.y * b.y - a.z * b.z,
   x |-> a.w * b.x + a.x * b.w + a.y * b.z - a.z * b.y,
   y |-> a.w * b.y - a.x * b.z + a.y * b.w + a.z * b.x,
   z |-> a.w * b.z + a.x * b.y - a.y * b.x + a.z * b.w]

Conj(q) == [w |-> q.w, x |-> - q.x, y |-> - q.y, z |-> - q.z]

(* body_signs: each is 1 or -1, and Init throws unless their product is 1. *)
Signs == {s \in [x : {-1, 1}, y : {-1, 1}, z : {-1, 1}] : s.x * s.y * s.z = 1}

(* Mutant of qB: the half turns about y and z are exchanged. *)
qBSwapped(s) ==
  CASE s.x = 1 /\ s.y = 1   -> [w |-> 1, x |-> 0, y |-> 0, z |-> 0]
    [] s.x = 1 /\ s.y = -1  -> [w |-> 0, x |-> 1, y |-> 0, z |-> 0]
    [] s.x = -1 /\ s.y = 1  -> [w |-> 0, x |-> 0, y |-> 0, z |-> 1]
    [] s.x = -1 /\ s.y = -1 -> [w |-> 0, x |-> 0, y |-> 1, z |-> 0]

qB(s) ==
  CASE s.x = 1 /\ s.y = 1   -> [w |-> 1, x |-> 0, y |-> 0, z |-> 0]
    [] s.x = 1 /\ s.y = -1  -> [w |-> 0, x |-> 1, y |-> 0, z |-> 0]
    [] s.x = -1 /\ s.y = 1  -> [w |-> 0, x |-> 0, y |-> 1, z |-> 0]
    [] s.x = -1 /\ s.y = -1 -> [w |-> 0, x |-> 0, y |-> 0, z |-> 1]

qW(world_z_down) ==
  IF world_z_down THEN [w |-> 0, x |-> 1, y |-> 1, z |-> 0]
                  ELSE [w |-> 1, x |-> 0, y |-> 0, z |-> 0]

ApplyVec(s, v) == [x |-> s.x * v.x, y |-> s.y * v.y, z |-> s.z * v.z]

ApplyQuat(s, world_z_down, quat_inverse, q) ==
  Mul(Mul(qW(world_z_down), IF quat_inverse THEN Conj(q) ELSE q), qB(s))
-----------------------------------------------------------------------------
(* What a quaternion does to a vector, times its squared norm. *)
Pure(v) == [w |-> 0, x |-> v.x, y |-> v.y, z |-> v.z]
Rotated(q, v) == Mul(Mul(q, Pure(v)), Conj(q))

(* The world in which "z points up" when the sensor's has z down: x and y  *)
(* exchanged and z negated.  (Times the squared norm of qW.)               *)
World(world_z_down, u) ==
  IF world_z_down THEN [w |-> u.w * 2, x |-> u.y * 2, y |-> u.x * 2, z |-> - (u.z * 2)] ELSE u

(* ApplyVec and ApplyQuat agree with each other: a vector of the sensor's  *)
(* body, taken to the world through the published values, is the vector    *)
(* the sensor's own values take it to, seen from the policy's world.       *)
SameWorldVector(s, down, inverse, q, v) ==
  Rotated(ApplyQuat(s, down, inverse, q), ApplyVec(s, v))
    = World(down, Rotated(IF inverse THEN Conj(q) ELSE q, v))
=============================================================================
