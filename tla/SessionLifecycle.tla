-------------------------- MODULE SessionLifecycle --------------------------
(***************************************************************************)
(* What the session plane promises, with no rows, transactions or callers: *)
(* a tenant has one live session at a time, a session moves only along     *)
(* `legal`, and time is charged to a session only while it is scanning.    *)
(***************************************************************************)
EXTENDS Integers

CONSTANTS Users, Sessions, Legal, Metered, Initial, Final, Absent

VARIABLES
    status,     \* per session: Absent, or a state of Legal's domain
    owner,      \* per session: its tenant (meaningless while Absent)
    charge      \* per session: metered seconds it has consumed so far

lifecycleVars == <<status, owner, charge>>

IsLive(s) == status[s] \notin {Absent, Final}

Init ==
    /\ status = [s \in Sessions |-> Absent]
    /\ charge = [s \in Sessions |-> 0]

\* Only a session that is, or is just becoming, metered has its charge changed.
ChargesOnlyMetered ==
    \A s \in Sessions :
        charge'[s] # charge[s] => {status[s], status'[s]} \cap Metered # {}

Begin(u, s) ==
    /\ status[s] = Absent
    /\ \A other \in Sessions : ~(IsLive(other) /\ owner[other] = u)
    /\ status' = [status EXCEPT ![s] = Initial]
    /\ owner' = [owner EXCEPT ![s] = u]

Move(s, to) ==
    /\ status[s] # Absent
    /\ to \in Legal[status[s]]
    /\ status' = [status EXCEPT ![s] = to]
    /\ UNCHANGED owner

\* Time passes, or a metered session is given time back.
Lapse == UNCHANGED <<status, owner>>

Next ==
    /\ \/ \E u \in Users, s \in Sessions : Begin(u, s)
       \/ \E s \in Sessions, to \in DOMAIN Legal : Move(s, to)
       \/ Lapse
    /\ ChargesOnlyMetered

Spec == Init /\ [][Next]_lifecycleVars
=============================================================================
