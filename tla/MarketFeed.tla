------------------------------ MODULE MarketFeed ------------------------------
(***************************************************************************)
(* The shared market data of the multi-user daemon: demand from scans and  *)
(* positions, the stream gate that turns it into a stream profile          *)
(* (multi_user_daemon.py), the data agent that applies the profile and     *)
(* keeps the candle buffer (agents/data_agent.py), the WebSocket client    *)
(* with its one supervisor (data/binance_client.py) and the REST fetcher   *)
(* with its candle table (data/historical_fetcher.py).                     *)
(*                                                                         *)
(* One symbol and one analysed timeframe.  Candles are numbered; `now` is  *)
(* the one that is forming.  Streams: "kline" and "mark" of the scan       *)
(* profile, "light" (the one-minute kline) of the prices profile.          *)
(***************************************************************************)
EXTENDS Integers, Sequences, FiniteSetsExt, SequencesExt

CONSTANTS
    FeedPlans,      \* sets of faults a behaviour may meet
    MaxTime,        \* bound: candles
    MaxFlips,       \* bound: changes of demand
    MaxDrops,       \* bound: connections lost
    MaxAttempts,    \* max_reconnect_attempts
    MaxBuffer,      \* max_buffer_size
    Linger,         \* polls a lower demand waits: STREAM_LINGER_SECONDS
    RefillAfter     \* quiet candles that call for a refill: SCAN_GAP_REFILL_S

ASSUME FeedAssumption ==
    /\ {MaxTime, MaxFlips, MaxDrops, Linger, RefillAfter} \subseteq Nat
    /\ {MaxAttempts, MaxBuffer} \subseteq Nat \ {0}

FeedFaults == {"silence",       \* a socket goes silent without closing
               "drop",          \* a socket breaks
               "outage",        \* connecting fails again and again
               "fetch_error",   \* a REST fetch fails
               "late"}          \* a closed candle is delivered late

VARIABLES
    fplan, now, flips, drops,
    scanOn, exposed,  \* an active session scans; a paper engine has exposure
    applied, lower,     \* the gate: what it applied, polls of lower demand
    change,             \* the profile change under way
    profile, quietFrom, \* the agent: _stream_profile, _scan_streams_until
    snapshot,           \* a refill's fetch on its way
    buffer, stored,     \* the candle buffer; candles in the table
    conn, attempt,      \* the socket; the supervisor's attempts
    subs, server,       \* client.subscriptions; what the exchange streams
    cut,                \* the last profile change was cut short
    misfiled            \* one backfill met two gaps

demandVars == <<scanOn, exposed, flips>>
gateVars == <<applied, lower, change, cut>>
agentVars == <<profile, quietFrom, snapshot>>
bookVars == <<buffer, stored, misfiled>>
wireVars == <<conn, attempt, subs, server, drops>>
fvars == <<fplan, now, demandVars, gateVars, agentVars, bookVars, wireVars>>

FeedFault(f) == f \in fplan
FeedSpared(faults) == fplan \cap faults = {}
NoChange == [step |-> "idle", to |-> "none"]
NoSnapshot == <<>>
Rank == [none |-> 0, prices |-> 1, scan |-> 2]

(***************************************************************************)
(* The candle buffer, a sequence of candle numbers.                        *)
(***************************************************************************)
\* Mutant: the buffer grows.
TrimmedNot(buf) == buf

\* The newest MaxBuffer candles.
Trimmed(buf) ==
    IF Len(buf) > MaxBuffer
    THEN SubSeq(buf, Len(buf) - MaxBuffer + 1, Len(buf)) ELSE buf

\* _on_kline_update, closed or forming: the last candle is replaced, a newer
\* one appended, an older one ignored.
OnKline(buf, t) ==
    IF buf = <<>> \/ t > Last(buf) THEN Trimmed(Append(buf, t)) ELSE buf

\* The members of a set of numbers, in order.
InOrder(S) == [i \in 1 .. Cardinality(S) |->
                   CHOOSE t \in S : Cardinality({q \in S : q < t}) = i - 1]

\* _check_buffer_gaps: the positions after a hole.
GapsOf(buf) == InOrder({i \in 2 .. Len(buf) : buf[i] - buf[i - 1] > 1})

NewestOf(rows, n) == {r \in rows : Cardinality({q \in rows : q > r}) < n}

\* fetch_ohlcv from candle p on: the table's newest rows when it has enough
\* of them, else the exchange's oldest.
FetchedSince(p, limit) ==
    LET cached == NewestOf({t \in stored : t >= p}, limit) IN
    IF 100 * Cardinality(cached) >= 95 * limit THEN cached
    ELSE p .. Min({p + limit - 1, now})

Inserted(buf, i, new) ==
    SubSeq(buf, 1, i - 1) \o new \o SubSeq(buf, i, Len(buf))

\* The candles fetched for the gap before position i.
Missed(buf, i) ==
    {t \in FetchedSince(buf[i - 1], buf[i] - buf[i - 1]) :
        buf[i - 1] < t /\ t < buf[i]}

\* _fill_buffer_gaps: every gap's candles go in at the position it had
\* before any was filled; failing are the gaps whose fetch raises.
Filled(buf, failing) ==
    Trimmed(FoldLeft(LAMBDA acc, i : IF i \in failing THEN acc
                                     ELSE Inserted(acc, i, InOrder(Missed(buf, i))),
                     buf, GapsOf(buf)))

\* _cache_data of those fetches.
FilledRows(buf, failing) ==
    UNION {FetchedSince(buf[i - 1], buf[i] - buf[i - 1]) :
              i \in ToSet(GapsOf(buf)) \ failing}

(***************************************************************************)
(* Demand.                                                                       *)
(***************************************************************************)
\* _stream_demand
StreamDemand == IF scanOn THEN "scan" ELSE IF exposed THEN "prices" ELSE "none"

\* The streams set_stream_profile wants for a profile, in order.
WantedInOrder == [none |-> <<>>, prices |-> <<"light">>,
                  scan |-> <<"kline", "mark">>]
Wanted(p) == ToSet(WantedInOrder[p])

DemandChanges ==
    /\ flips < MaxFlips
    /\ flips' = flips + 1
    /\ \/ scanOn' = ~scanOn /\ UNCHANGED exposed
       \/ exposed' = ~exposed /\ UNCHANGED scanOn
    /\ UNCHANGED <<fplan, now, gateVars, agentVars, bookVars, wireVars>>

(***************************************************************************)
(* The gate.                                                               *)
(***************************************************************************)
\* set_stream_profile begins, or returns at once when nothing differs.
BeginChange(p) ==
    /\ lower' = -1
    /\ IF subs = Wanted(p) /\ profile = p
       THEN applied' = p /\ UNCHANGED change
       ELSE change' = [step |-> "drop", to |-> p] /\ UNCHANGED applied

\* Mutant: the gate forgets to compare a demand that falls.
GatePollSticky ==
    /\ change.step = "idle"
    /\ IF Rank[StreamDemand] > Rank[applied] THEN BeginChange(StreamDemand)
       ELSE lower' = -1 /\ UNCHANGED <<applied, change>>
    /\ UNCHANGED <<fplan, now, demandVars, cut, agentVars, bookVars, wireVars>>

\* A stream sends updates of the forming candle every few seconds, and the
\* linger is two minutes.
Flows(s) == conn = "up" /\ s \in server
UpdatesCame == (lower >= Linger /\ Flows("kline")) => Last(buffer) = now

\* One turn of _stream_gate_loop with _gate_decision.
GatePoll ==
    /\ change.step = "idle"
    /\ UpdatesCame
    /\ IF StreamDemand = applied THEN lower' = -1 /\ UNCHANGED <<applied, change>>
       ELSE IF Rank[StreamDemand] >= Rank[applied] \/ lower >= Linger
       THEN BeginChange(StreamDemand)
       ELSE lower' = lower + 1 /\ UNCHANGED <<applied, change>>
    /\ UNCHANGED <<fplan, now, demandVars, cut, agentVars, bookVars, wireVars>>

(***************************************************************************)
(* set_stream_profile.                                                     *)
(***************************************************************************)
\* A control frame raises on a broken socket, is lost on a silent one and is not
\* sent without one.
Raises == conn = "broken"

\* The exception is swallowed; the gate takes the change as applied.
CutShort ==
    /\ change' = NoChange
    /\ applied' = change.to
    /\ cut' = TRUE
    /\ UNCHANGED <<lower, profile, quietFrom, snapshot>>

StepTo(step) ==
    /\ change' = [change EXCEPT !.step = step]
    /\ UNCHANGED <<applied, lower, cut, profile, quietFrom, snapshot>>

\* unsubscribe: out of the resubscribe set first, then off the wire.
DropStreams ==
    /\ change.step = "drop"
    /\ LET doomed == subs \ Wanted(change.to) IN
       /\ subs' = subs \ doomed
       /\ server' = IF conn = "up" THEN server \ doomed ELSE server
       /\ IF Raises /\ doomed # {} THEN CutShort ELSE StepTo("add")
    /\ UNCHANGED <<fplan, now, demandVars, bookVars, conn, attempt, drops>>

\* subscribe_kline, subscribe_funding_rate: recorded first, then sent.
AddStream ==
    /\ change.step = "add"
    /\ LET order == WantedInOrder[change.to]
           missing == {i \in DOMAIN order : order[i] \notin subs}
           next == order[Min(missing)] IN
       IF missing = {} THEN StepTo("refill") /\ UNCHANGED <<subs, server>>
       ELSE /\ subs' = subs \cup {next}
            /\ server' = IF conn = "up" THEN server \cup {next} ELSE server
            /\ IF Raises THEN CutShort ELSE StepTo("add")
    /\ UNCHANGED <<fplan, now, demandVars, bookVars, conn, attempt, drops>>

\* Mutant: a scan never refills.
NeedsRefillNever == FALSE

\* Entering scan mode after a quiet spell.
NeedsRefill ==
    /\ change.to = "scan" /\ profile # "scan"
    /\ now - quietFrom > RefillAfter

Applied_(until) ==
    /\ profile' = change.to
    /\ quietFrom' = until
    /\ applied' = change.to
    /\ change' = NoChange
    /\ cut' = FALSE
    /\ UNCHANGED lower

\* The change without a refill, or the refill's fetch leaves; leaving the
\* scan profile starts the quiet spell.
Reconcile ==
    /\ change.step = "refill"
    /\ IF NeedsRefill
       THEN /\ snapshot' = [i \in 1 .. now |-> i]
            /\ change' = [change EXCEPT !.step = "fetching"]
            /\ UNCHANGED <<applied, lower, cut, profile, quietFrom>>
       ELSE /\ Applied_(IF profile = "scan" /\ change.to # "scan" THEN now
                       ELSE quietFrom)
            /\ UNCHANGED snapshot
    /\ UNCHANGED <<fplan, now, demandVars, bookVars, wireVars>>

\* _fetch_initial_data: the buffer is replaced, or kept if the fetch failed;
\* the candle that was forming is stored and never corrected.
Refilled ==
    /\ change.step = "fetching"
    /\ \/ /\ buffer' = Trimmed(snapshot)
          /\ stored' = stored \cup ToSet(snapshot)
       \/ (FeedFault("fetch_error") /\ UNCHANGED <<buffer, stored>>)
    /\ snapshot' = NoSnapshot
    /\ Applied_(quietFrom)
    /\ UNCHANGED <<fplan, now, demandVars, misfiled, wireVars>>

(***************************************************************************)
(* The exchange and its candles.                                           *)
(***************************************************************************)
\* A candle closes: its last update reaches the handler if the stream flows.
\* Bounds: control frames take no candle, a refill's fetch at most one.
CandleCloses ==
    /\ now < MaxTime
    /\ change.step \in {"idle", "fetching"}
    /\ snapshot # NoSnapshot => Last(snapshot) = now
    /\ now' = now + 1
    /\ buffer' = IF Flows("kline") THEN OnKline(buffer, now) ELSE buffer
    /\ UNCHANGED <<fplan, demandVars, gateVars, agentVars, stored, misfiled,
                   wireVars>>

\* An update of the forming candle, or late of the one before.
CandleMoves ==
    /\ Flows("kline")
    /\ \E t \in {now} \cup (IF FeedFault("late") /\ now > 1 THEN {now - 1}
                            ELSE {}) :
        buffer' = OnKline(buffer, t)
    /\ UNCHANGED <<fplan, now, demandVars, gateVars, agentVars, stored,
                   misfiled, wireVars>>

(***************************************************************************)
(* The socket and its supervisor.                                          *)
(***************************************************************************)
ConnectionFails ==
    /\ conn = "up" /\ drops < MaxDrops
    /\ drops' = drops + 1
    /\ \/ (FeedFault("drop") /\ conn' = "broken")
       \/ (FeedFault("silence") /\ conn' = "silent")
    /\ server' = {}
    /\ UNCHANGED <<fplan, now, demandVars, gateVars, agentVars, bookVars,
                   attempt, subs>>

\* _message_loop returns: recv raised, or silence with subscriptions; the
\* socket is closed and the attempt counted, past the last one for good.
LoseSocket ==
    /\ \/ conn = "broken"
       \/ conn = "silent" /\ subs # {}
    /\ conn' = IF attempt + 1 > MaxAttempts THEN "dead" ELSE "closed"
    /\ attempt' = attempt + 1
    /\ UNCHANGED <<fplan, now, demandVars, gateVars, agentVars, bookVars, subs,
                   server, drops>>

\* _open_connection fails.
ReopenFails ==
    /\ conn = "closed"
    /\ \/ FeedFault("outage")
       \/ attempt < MaxAttempts
    /\ conn' = IF attempt + 1 > MaxAttempts THEN "dead" ELSE "closed"
    /\ attempt' = attempt + 1
    /\ UNCHANGED <<fplan, now, demandVars, gateVars, agentVars, bookVars, subs,
                   server, drops>>

\* _open_connection replays the subscriptions; _on_ws_reconnect then fills
\* the gaps the buffer shows, before the message loop reads again.
Reopen ==
    /\ conn = "closed"
    /\ conn' = "up"
    /\ attempt' = 0
    /\ server' = subs
    /\ \E failing \in IF FeedFault("fetch_error")
                      THEN SUBSET ToSet(GapsOf(buffer)) ELSE {{}} :
        /\ buffer' = Filled(buffer, failing)
        /\ stored' = stored \cup FilledRows(buffer, failing)
        /\ misfiled' = (misfiled \/ Len(GapsOf(buffer)) > 1)
    /\ UNCHANGED <<fplan, now, demandVars, gateVars, agentVars, subs, drops>>

(***************************************************************************)
(* The specification.                                                      *)
(***************************************************************************)
\* After start(): connected, the first candle fetched, nothing subscribed.
FeedInit ==
    /\ fplan \in FeedPlans
    /\ now = 1 /\ flips = 0 /\ drops = 0
    /\ scanOn = FALSE /\ exposed = FALSE
    /\ applied = "none" /\ lower = -1 /\ change = NoChange /\ cut = FALSE
    /\ profile = "none" /\ quietFrom = 1 /\ snapshot = NoSnapshot
    /\ buffer = <<1>> /\ stored = {1} /\ misfiled = FALSE
    /\ conn = "up" /\ attempt = 0 /\ subs = {} /\ server = {}

FeedNext ==
    \/ DemandChanges \/ GatePoll \/ DropStreams \/ AddStream \/ Reconcile
    \/ Refilled \/ CandleCloses \/ CandleMoves \/ ConnectionFails
    \/ LoseSocket \/ ReopenFails \/ Reopen

FeedSpec == FeedInit /\ [][FeedNext]_fvars

\* The gate loop and the supervisor are running tasks of the daemon and REST
\* fetches return; a server that can be reached is reached at last, and what it
\* streams moves.
FeedFairness ==
    /\ WF_fvars(CandleMoves) /\ WF_fvars(GatePoll)
    /\ WF_fvars(DropStreams) /\ WF_fvars(AddStream)
    /\ WF_fvars(Reconcile) /\ WF_fvars(Refilled)
    /\ WF_fvars(LoseSocket) /\ WF_fvars(Reopen)

FeedFairSpec == FeedSpec /\ FeedFairness

(***************************************************************************)
(* Properties.                                                             *)
(***************************************************************************)
\* Types, with the bounds of the buffer and of the supervisor's attempts.
FeedTypeOK ==
    /\ fplan \subseteq FeedFaults
    /\ now \in 1 .. MaxTime /\ flips \in 0 .. MaxFlips
    /\ drops \in 0 .. MaxDrops /\ attempt \in 0 .. MaxAttempts + 1
    /\ {scanOn, exposed, cut, misfiled} \subseteq BOOLEAN
    /\ applied \in DOMAIN Rank /\ profile \in DOMAIN Rank
    /\ lower \in -1 .. Linger
    /\ change.step \in {"idle", "drop", "add", "refill", "fetching"}
    /\ change.to \in DOMAIN Rank
    /\ Len(buffer) <= MaxBuffer /\ ToSet(buffer) \subseteq 1 .. MaxTime
    /\ stored \subseteq 1 .. MaxTime
    /\ conn \in {"up", "silent", "broken", "closed", "dead"}
    /\ {subs, server} \subseteq SUBSET {"kline", "mark", "light"}

\* Candles stay in order whatever refills, updates and late closes do, until
\* one backfill meets two gaps (it files the second at a stale position).
BufferIsOrdered ==
    ~misfiled => \A i \in 2 .. Len(buffer) : buffer[i - 1] < buffer[i]

\* A live socket streams exactly what the client would resubscribe: no change
\* of profile and no reconnect leaves the two apart.
ServedIsSubscribed == conn = "up" => server = subs

\* On an unbroken connection an applied scan profile reads a buffer that lags
\* by no more than the candle just closed or the quiet spell that needs no
\* refill, however often the scan came and went.
ScanBufferIsRecent ==
    (/\ FeedSpared({"drop", "silence", "fetch_error"})
     /\ profile = "scan" /\ change.step = "idle") =>
        now - Last(buffer) <= Max({1, RefillAfter})

\* "every stream names its live consumer": once demand settles, the exchange
\* streams its profile and nothing else, unless the change was cut short.
DemandIsStreamed ==
    FeedSpared({"outage"}) =>
        <>[](\/ cut
             \/ (conn = "up" /\ server = Wanted(StreamDemand))
             \/ (conn = "silent" /\ StreamDemand = "none"))

\* What a scan reads from the feed (data_agent.py, binance_client.py): buffers in
\* order, of subscribed streams, and not from before a pause.
FeedIsSound == BufferIsOrdered /\ ServedIsSubscribed /\ ScanBufferIsRecent

=============================================================================
