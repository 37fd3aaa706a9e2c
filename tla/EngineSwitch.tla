---------------------------- MODULE EngineSwitch ----------------------------
(***************************************************************************)
(* The owner's AI-engine switch (src/core/engine_switch.py) and the guard  *)
(* of src/multi_user_daemon.py that heals it. The switch is one Redis key  *)
(* that may expire and may be evicted; turning it off leaves a tombstone.  *)
(* The guard looks every PollEvery seconds and re-asserts an always-on     *)
(* switch that it saw less than Memory seconds ago, that is gone, and that *)
(* has no tombstone. Each Redis call is a step; time is kept in countdowns *)
(* and ages, so that nothing grows.                                        *)
(***************************************************************************)
EXTENDS Integers

CONSTANTS
    PollEvery,      \* SWITCH_GUARD_POLL_S
    Memory,         \* SWITCH_GUARD_MEMORY_S
    Tombstone,      \* seconds turn_off's tombstone lives
    Durations,      \* auto-off timers the owner asks for
    SwitchPlans     \* which of FaultKinds may happen together

\* overlap          the owner's calls, the guard's and the clock interleave
\* evict_key        Redis evicts engine:on, as it may any key
\* evict_tombstone  Redis evicts the tombstone
\* redis_restart    Redis restarts and has lost both
\* daemon_restart   the guard's process restarts
\* read_error       a read of the guard raises
FaultKinds == {"overlap", "evict_key", "evict_tombstone", "redis_restart",
               "daemon_restart", "read_error"}

ASSUME SwitchAssumption ==
    /\ PollEvery \in Nat \ {0}
    /\ Memory \in Nat \ {0}
    /\ Tombstone \in Nat \ {0}
    /\ Durations \subseteq Nat \ {0}
    /\ \A faults \in SwitchPlans : faults \subseteq FaultKinds

Off == "off"
Timed == "timed"
Always == "always"

\* Instead of the seconds a key has left.
Absent == 0
Forever == -1

VARIABLES
    key,        \* engine:on: Absent, seconds left, or Forever
    tomb,       \* engine:off:by_owner: Absent or seconds left
    memory,     \* the guard's: was it on without a timer, and how long ago
    owner,      \* where the owner's call is
    guard,      \* where the guard's pass is
    sincePass,  \* seconds since the guard's last pass began
    intent,     \* history: what the owner last asked for
    plan        \* what may go wrong in this behaviour

vars == <<key, tomb, memory, owner, guard, sincePass, intent, plan>>

-----------------------------------------------------------------------------
\* Bound: where the guard's memory stops counting, past any age that matters.
Oldest == Memory + PollEvery

Forgotten == [always |-> FALSE, age |-> Oldest]

\* on: the key is set, the tombstone is still to be deleted.
\* off: the key is deleted, the tombstone is still to be written.
OwnerPC == {"idle", "on", "off"}

GuardPC == {"idle", "ttl", "absent", "set", "clear"}

TypeOK ==
    /\ key \in Nat \cup {Forever}
    /\ tomb \in 0..Tombstone
    /\ memory \in [always : BOOLEAN, age : 0..Oldest]
    /\ owner \in OwnerPC
    /\ guard \in GuardPC
    /\ sincePass \in 0..PollEvery
    /\ intent \in {Off, Timed, Always}
    /\ plan \in SwitchPlans

Init ==
    /\ key = Absent
    /\ tomb = Absent
    /\ memory = Forgotten
    /\ owner = "idle"
    /\ guard = "idle"
    /\ sincePass = 0
    /\ intent = Off
    /\ plan \in SwitchPlans

\* May a call begin, or the clock go on, while the other party is in a call?
Overlap == "overlap" \in plan

-----------------------------------------------------------------------------
(* The owner's calls. *)

\* turn_on: no duration, or none to speak of, means always on.
TurnOn(wanted) ==
    /\ owner = "idle"
    /\ Overlap \/ guard = "idle"
    /\ key' = wanted
    /\ owner' = "on"
    /\ intent' = IF wanted = Forever THEN Always ELSE Timed
    /\ UNCHANGED <<tomb, memory, guard, sincePass, plan>>

\* Mutant: the tombstone of an earlier turn_off stays.
TurnOnKeeps ==
    /\ owner = "on"
    /\ owner' = "idle"
    /\ UNCHANGED <<key, tomb, memory, guard, sincePass, intent, plan>>

TurnOnClears ==
    /\ owner = "on"
    /\ tomb' = Absent
    /\ owner' = "idle"
    /\ UNCHANGED <<key, memory, guard, sincePass, intent, plan>>

TurnOff ==
    /\ owner = "idle"
    /\ Overlap \/ guard = "idle"
    /\ key' = Absent
    /\ owner' = "off"
    /\ UNCHANGED <<tomb, memory, guard, sincePass, intent, plan>>

TurnOffMarks ==
    /\ owner = "off"
    /\ tomb' = Tombstone
    /\ owner' = "idle"
    /\ intent' = Off
    /\ UNCHANGED <<key, memory, guard, sincePass, plan>>

-----------------------------------------------------------------------------
(* One pass of the guard. *)

Remembered(age) == memory.always /\ age < Memory

\* status() reads the key. An error reads as absent.
GuardRead ==
    /\ guard = "idle"
    /\ sincePass = PollEvery
    /\ Overlap \/ owner = "idle"
    /\ sincePass' = 0
    /\ \/ key # Absent /\ guard' = "ttl"
       \/ /\ key = Absent \/ "read_error" \in plan
          /\ guard' = IF Remembered(memory.age) THEN "absent" ELSE "idle"
    /\ UNCHANGED <<key, tomb, memory, owner, intent, plan>>

\* ... and then its TTL. The guard's `now` is still that of the beginning of its
\* pass, sincePass seconds ago. The TTL of a key that went meanwhile is negative, like
\* that of a key without a timer.
GuardTtl ==
    /\ guard = "ttl"
    /\ \/ /\ memory' = [always |-> key \in {Absent, Forever}, age |-> sincePass]
          /\ guard' = "idle"
       \/ /\ "read_error" \in plan
          /\ guard' = IF Remembered(memory.age - sincePass) THEN "absent" ELSE "idle"
          /\ UNCHANGED memory
    /\ UNCHANGED <<key, tomb, owner, sincePass, intent, plan>>

\* Mutant: the tombstone is not looked at.
GuardCheckBlind ==
    /\ guard = "absent"
    /\ guard' = "set"
    /\ UNCHANGED <<key, tomb, memory, owner, sincePass, intent, plan>>

\* owner_turned_off_recently, true also when it cannot be read.
GuardCheck ==
    /\ guard = "absent"
    /\ \/ /\ tomb # Absent \/ "read_error" \in plan
          /\ memory' = [memory EXCEPT !.always = FALSE]
          /\ guard' = "idle"
       \/ /\ tomb = Absent
          /\ guard' = "set"
          /\ UNCHANGED memory
    /\ UNCHANGED <<key, tomb, owner, sincePass, intent, plan>>

\* turn_on(None) of the switch, by the guard.
GuardSet ==
    /\ guard = "set"
    /\ key' = Forever
    /\ guard' = "clear"
    /\ UNCHANGED <<tomb, memory, owner, sincePass, intent, plan>>

GuardClear ==
    /\ guard = "clear"
    /\ tomb' = Absent
    /\ memory' = [memory EXCEPT !.age = sincePass]
    /\ guard' = "idle"
    /\ UNCHANGED <<key, owner, sincePass, intent, plan>>

-----------------------------------------------------------------------------
(* The environment. *)

CountDown(n) == IF n > 0 THEN n - 1 ELSE n

\* One second. The guard's next pass is not late.
Tick ==
    /\ Overlap \/ (owner = "idle" /\ guard = "idle")
    /\ sincePass < PollEvery
    /\ sincePass' = sincePass + 1
    /\ key' = CountDown(key)
    /\ tomb' = CountDown(tomb)
    /\ memory' = [memory EXCEPT !.age = IF @ < Oldest THEN @ + 1 ELSE @]
    /\ UNCHANGED <<owner, guard, intent, plan>>

EvictKey ==
    /\ "evict_key" \in plan
    /\ key # Absent
    /\ key' = Absent
    /\ UNCHANGED <<tomb, memory, owner, guard, sincePass, intent, plan>>

EvictTombstone ==
    /\ "evict_tombstone" \in plan
    /\ tomb # Absent
    /\ tomb' = Absent
    /\ UNCHANGED <<key, memory, owner, guard, sincePass, intent, plan>>

\* Redis keeps nothing over a restart; the daemon's memory is its process's.
RedisRestart ==
    /\ "redis_restart" \in plan
    /\ key' = Absent
    /\ tomb' = Absent
    /\ UNCHANGED <<memory, owner, guard, sincePass, intent, plan>>

DaemonRestart ==
    /\ "daemon_restart" \in plan
    /\ memory' = Forgotten
    /\ guard' = "idle"
    /\ sincePass' = 0
    /\ UNCHANGED <<key, tomb, owner, intent, plan>>

-----------------------------------------------------------------------------
Owner ==
    \/ \E wanted \in Durations \cup {Forever} : TurnOn(wanted)
    \/ TurnOnClears \/ TurnOff \/ TurnOffMarks

Guard == GuardRead \/ GuardTtl \/ GuardCheck \/ GuardSet \/ GuardClear

Next ==
    \/ Owner \/ Guard
    \/ Tick \/ EvictKey \/ EvictTombstone \/ RedisRestart \/ DaemonRestart

Spec == Init /\ [][Next]_vars

\* The guard's loop and the clock go on, and a call of the owner returns.
Fairness ==
    /\ WF_vars(Guard)
    /\ WF_vars(Tick)
    /\ WF_vars(TurnOnClears \/ TurnOffMarks)

FairSpec == Spec /\ Fairness

-----------------------------------------------------------------------------
(* Properties. *)

\* Calls do not overlap, and the tombstone goes only with its timer.
Calm == plan \cap {"overlap", "evict_tombstone", "redis_restart"} = {}

\* Calm: once the owner has turned
\* the engine off it stays off, though the guard remembers it as always on.
OwnerOffStays == Calm /\ intent = Off /\ owner = "idle" => key = Absent

\* What OwnerOffStays rests on: while the guard's memory of an always-on switch
\* is actionable, the tombstone is there and will outlive it.
TombstoneOutlivesMemory ==
    Calm /\ intent = Off /\ owner = "idle" /\ Remembered(memory.age) =>
        tomb >= Memory - memory.age

\* With no overlapping calls, read errors or daemon restarts: an always-on switch that the
\* guard has seen, and will see to in time, comes back after an eviction or a
\* Redis restart, unless the owner acts.
HealsEviction ==
    /\ plan \cap {"overlap", "read_error", "daemon_restart"} = {}
    /\ intent = Always /\ owner = "idle" /\ key = Absent
    /\ memory.always /\ memory.age + PollEvery < Memory
    ~> key = Forever \/ owner # "idle"
=============================================================================
