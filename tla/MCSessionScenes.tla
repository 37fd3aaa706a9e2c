--------------------------- MODULE MCSessionScenes ---------------------------
(***************************************************************************)
(* SessionManager for TLC, one caller in three scenes over the same rows:  *)
(* a day with its boundary and refunds, callers that die between two       *)
(* transactions, and callers that die while the wall clock is set back.    *)
(* The constants of this module bound all; what each scene may do is fixed *)
(* here.                                                                   *)
(***************************************************************************)
EXTENDS SessionManager

CONSTANTS u1, s1, s2, t1

VARIABLE scene

Scene(name) == scene = name

Day == INSTANCE SessionManager WITH
    Costs <- {}, Asks <- {0, 1}, MaxTime <- 3,
    MaxCrashes <- 0, MaxBacksteps <- 0

Death == INSTANCE SessionManager WITH
    Reasons <- {UserEnded}, Asks <- {0}, MaxTime <- 2,
    MaxCrashes <- 1, MaxBacksteps <- 0

Clock == INSTANCE SessionManager WITH
    Sessions <- {s1}, Reasons <- {UserEnded}, Asks <- {0},
    MaxTime <- 2, MaxCrashes <- 1, MaxBacksteps <- 1

ScenesInit == Init /\ scene \in {"day", "death", "clock"}

ScenesNext ==
    /\ \/ Scene("day") /\ Day!Next
       \/ Scene("death") /\ Death!Next
       \/ Scene("clock") /\ Clock!Next
    /\ UNCHANGED scene

ScenesSpec == ScenesInit /\ [][ScenesNext]_<<vars, scene>>

=============================================================================
