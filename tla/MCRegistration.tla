--------------------------- MODULE MCRegistration ---------------------------
(* Small instances of Registration for TLC. *)
EXTENDS Registration, TLC

CONSTANTS d1, d2, i1, i2

Fleet == Permutations(Device) \cup Permutations(Id)

Once(some) == [e \in Events |-> IF e \in some THEN 1 ELSE 0]

RaceBudgets   == {Once({"loss", "register", "unregister", "query"})}
CrashBudgets  == {Once({"crash", "unregister", "refuse", "resend"})}
DeviceBudgets == RaceBudgets \cup CrashBudgets
LiveBudgets   == {Once({"loss", "crash", "register"})}
FleetBudgets  == {Once({"unregister"})}
=============================================================================
