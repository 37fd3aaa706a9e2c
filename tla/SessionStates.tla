---------------------------- MODULE SessionStates ----------------------------
(***************************************************************************)
(* The state machine table of src/core/session_manager.py, shared by the   *)
(* session manager and by the flows that drive it.                         *)
(***************************************************************************)

Scanning == "scanning"
SetupProposed == "setup_proposed"
Executing == "executing"
Ended == "ended"
Status == {Scanning, SetupProposed, Executing, Ended}

\* A session id for which no row was inserted yet.
Absent == "absent"

LEGAL ==
    [from \in Status |->
        CASE from = Scanning      -> {SetupProposed, Ended}
          [] from = SetupProposed -> {Scanning, Executing, Ended}
          [] from = Executing     -> {Ended}
          [] OTHER                -> {}]

MeteredStates == {Scanning}

UserEnded == "user_ended"
QuotaExhausted == "quota_exhausted"
CostCapped == "cost_cap"
TradeOpened == "trade_opened"
CapacityLost == "capacity_lost"
EndReason == {UserEnded, QuotaExhausted, CostCapped, TradeOpened, CapacityLost}

\* A session that has no end reason yet.
NoReason == "none"
==============================================================================
