---------------------------- MODULE PaperAccount ----------------------------
(***************************************************************************)
(* The money of one paper engine (paper_trading_engine.py), of one symbol: *)
(* what an order pays and moves when it fills, and what the account, the   *)
(* position and the risk book are told.  PaperDesk has the interleavings   *)
(* of the tasks around the same engine; here an operation of the engine is *)
(* one step, and the arithmetic is whole.                                  *)
(*                                                                         *)
(* Money is counted in 1/Scale of price times lot, so that a fee, a rate   *)
(* of Scale, is an integer.  The random slippage of a market fill is at    *)
(* most Slip, always against the taker; a limit fill may be a little better.    *)
(***************************************************************************)
EXTENDS Integers, Sequences, SequencesExt, FiniteSetsExt

CONSTANTS InitialBalance, Leverage,
          MakerFee, TakerFee, Scale,
          Slip, Better,      \* largest slippage, largest improvement of a fill
          Dust,              \* 0.001, in lots: at most this is no position
          Quotes,            \* bound: prices fed
          Lots, Parts,       \* bounds: quantities of entries, of legs
          MaxPlaced          \* bound: orders placed

ASSUME AccountAssumption ==
    /\ {InitialBalance, MakerFee, TakerFee, Slip, Better, Dust, MaxPlaced} \subseteq Nat
    /\ {Leverage, Scale} \subseteq Nat \ {0}
    /\ Quotes \subseteq Nat \ {0} /\ Lots \union Parts \subseteq Nat \ {0}
    /\ Quotes # {} /\ IsFiniteSet(Quotes)
    \* Both are a small part of a price.
    /\ \A q \in Quotes : Slip < q /\ Better < q

VARIABLES quote,     \* current_prices[symbol], 0 before the first
          purse,     \* balance, total_commission, peak_balance
          holding,   \* the position, or Flat
          resting,   \* open limit and stop orders, in the order of the dict
          placed,    \* orders placed so far
          tape       \* paid and received for what was really bought and sold; the
                     \* cost and the lots of positions given up as dust; positions
                     \* closed; what on_position_closed was told they made

accountState == <<quote, purse, holding, resting, placed, tape>>

Flat == [side |-> "flat", quantity |-> 0, entry |-> 0, mark |-> 0, realized |-> 0]
Sign(side) == CASE side = "buy" -> 1 [] side = "sell" -> -1 [] OTHER -> 0
Counter(side) == IF side = "buy" THEN "sell" ELSE "buy"
PaperOrder(type, side, n, at, reduce) ==
    [type |-> type, side |-> side, quantity |-> n, at |-> at, reduce |-> reduce]

Commission(n, at, rate) == n * at * rate

\* A new engine, or one rebuilt around an open row: its entry fee is estimated,
\* and it has no price yet.  (Bound: one entry price.)
AccountInit ==
    /\ quote = 0 /\ resting = <<>> /\ placed = 0
    /\ \E n \in {0} \union Lots :
          LET at == Max(Quotes)
              fee == Commission(n, at, TakerFee)
          IN  /\ purse = [balance |-> InitialBalance - fee, fees |-> fee, peak |-> InitialBalance]
              /\ holding = IF n = 0 THEN Flat
                           ELSE [side |-> "buy", quantity |-> n, entry |-> at, mark |-> at,
                                 realized |-> 0]
              /\ tape = [cash |-> -n * at, dustCost |-> 0, dust |-> 0, closed |-> 0, told |-> 0]

-----------------------------------------------------------------------------
(* Fills.                                                                  *)

MarketFills(side, at) == {at + Sign(side) * s : s \in 1..Slip}

Charged(acc, n, at, rate) ==
    [acc EXCEPT !.purse.balance = @ - Commission(n, at, rate),
                !.purse.fees = @ + Commission(n, at, rate)]

OpenedPosition(acc, o, at) ==
    [acc EXCEPT !.holding = [side |-> o.side, quantity |-> o.quantity, entry |-> at,
                             mark |-> at, realized |-> 0],
                !.tape.cash = @ - Sign(o.side) * o.quantity * at]

\* Of what is closed: at most what is held.
Profit(h, o, at) ==
    Scale * Sign(h.side) * (at - h.entry) * Min({o.quantity, h.quantity})

PeakAfter(acc, balance) == Max({acc.purse.peak, balance})

CountsAsClosed(left, n) == left <= Dust

ToldAtClose(acc, profit) == acc.holding.realized + profit

\* _update_position, the closing branch: any reduce-only order, on whichever
\* side, and any order against the position.
Reduced(acc, o, at) ==
    LET h == acc.holding
        n == Min({o.quantity, h.quantity})
        profit == Profit(h, o, at)
        left == h.quantity - n
        balance == acc.purse.balance + profit
        after == [acc EXCEPT !.purse.balance = balance,
                             !.purse.peak = PeakAfter(acc, balance),
                             !.tape.cash = @ + Sign(h.side) * n * at]
    IN  IF CountsAsClosed(left, n)
        THEN [after EXCEPT !.holding = Flat,
                           !.tape.dustCost = @ + Sign(h.side) * left * h.entry,
                           !.tape.dust = @ + left,
                           !.tape.closed = @ + 1,
                           !.tape.told = @ + ToldAtClose(acc, profit)]
        ELSE [after EXCEPT !.holding.quantity = left, !.holding.realized = @ + profit]

\* Mutant: an order on the position's side averages in.
UpdatePositionAverages(acc, o, at) ==
    CASE acc.holding = Flat /\ o.reduce -> acc
      [] acc.holding = Flat /\ ~o.reduce -> OpenedPosition(acc, o, at)
      [] acc.holding # Flat /\ (o.reduce \/ o.side # acc.holding.side) -> Reduced(acc, o, at)
      [] OTHER -> [acc EXCEPT !.holding.quantity = @ + o.quantity,
                              !.tape.cash = @ - Sign(o.side) * o.quantity * acc.holding.entry]

\* _update_position.  A resting entry that fills on the position's side is paid
\* for and changes nothing.
UpdatePosition(acc, o, at) ==
    CASE acc.holding = Flat /\ o.reduce -> acc
      [] acc.holding = Flat /\ ~o.reduce -> OpenedPosition(acc, o, at)
      [] acc.holding # Flat /\ (o.reduce \/ o.side # acc.holding.side) -> Reduced(acc, o, at)
      [] OTHER -> acc

Filled(acc, o, at, rate) == UpdatePosition(Charged(acc, o.quantity, at, rate), o, at)

Now == [purse |-> purse, holding |-> holding, tape |-> tape]
Becomes(acc) == purse' = acc.purse /\ holding' = acc.holding /\ tape' = acc.tape

-----------------------------------------------------------------------------
(* Orders.                                                                 *)

\* place_order: an add-on is refused, and so is an entry the balance does not
\* cover; reduce-only orders are not looked at.
Refused(o, price) ==
    /\ ~o.reduce
    /\ \/ o.side = holding.side
       \/ o.quantity * price * Scale > purse.balance * Leverage

\* place_market_order: without a price the state manager is asked, and without
\* an answer nothing is filled.
PlaceMarketOrder(side, n, reduce) ==
    /\ placed < MaxPlaced
    /\ LET o == PaperOrder("market", side, n, 0, reduce)
       IN  \E q \in IF quote > 0 THEN {quote} ELSE Quotes :
              /\ quote' = q
              /\ IF Refused(o, q) THEN UNCHANGED <<purse, holding, tape>>
                 ELSE \E at \in MarketFills(side, q) : Becomes(Filled(Now, o, at, TakerFee))
    /\ placed' = placed + 1 /\ UNCHANGED resting

MarketWithoutPrice ==
    /\ quote = 0 /\ placed < MaxPlaced
    /\ placed' = placed + 1 /\ UNCHANGED <<quote, purse, holding, resting, tape>>

\* close_position, with the position's own quantity and side.
ClosePaperPosition ==
    holding # Flat /\ PlaceMarketOrder(Counter(holding.side), holding.quantity, TRUE)

Rests(o) ==
    /\ placed < MaxPlaced /\ placed' = placed + 1
    /\ resting' = IF Refused(o, o.at) THEN resting ELSE Append(resting, o)
    /\ UNCHANGED <<quote, purse, holding, tape>>

PlaceLimitOrder(side, n, at, reduce) == Rests(PaperOrder("limit", side, n, at, reduce))

\* A bracket's stop, always reduce-only.
PlaceStopLossOrder(side, n, at) == Rests(PaperOrder("stop", side, n, at, TRUE))

CancelOrder(i) ==
    /\ resting' = RemoveAt(resting, i)
    /\ UNCHANGED <<quote, purse, holding, placed, tape>>

CancelAllOrders ==
    /\ resting # <<>> /\ resting' = <<>>
    /\ UNCHANGED <<quote, purse, holding, placed, tape>>

\* A limit at its price or through it, a stop at its trigger or beyond.
Crossed(o, q) ==
    CASE o.type = "limit" -> Sign(o.side) * (o.at - q) >= 0
      [] o.type = "stop" -> Sign(o.side) * (q - o.at) >= 0

\* An open order that the fed price has crossed fills, a limit at its price or
\* better and a stop with a slip past the price; the others stay in the book.
LookAt(feed, look, o) ==
    IF ~Crossed(o, feed.price) THEN [look EXCEPT !.left = Append(@, o)]
    ELSE [look EXCEPT !.account =
            IF o.type = "limit"
            THEN Filled(@, o, o.at - Sign(o.side) * feed.better, MakerFee)
            ELSE Filled(@, o, feed.price + Sign(o.side) * feed.slip, TakerFee)]

\* check_limit_orders: every open order in turn, whatever the fills before it did
\* to the position.
BookLooked(feed, acc, orders) ==
    LET Look(look, o) == LookAt(feed, look, o)
    IN  FoldLeft(Look, [account |-> acc, left |-> <<>>], orders)

MarkedAt(acc, q) == IF acc.holding = Flat THEN acc ELSE [acc EXCEPT !.holding.mark = q]

\* A price: the orders it reaches, then the mark of what is left.
PriceFed(q) ==
    /\ quote' = q /\ UNCHANGED placed
    /\ \E slip \in 1..Slip, better \in 0..Better :
          LET looked == BookLooked([price |-> q, slip |-> slip, better |-> better], Now, resting)
          IN  /\ Becomes(MarkedAt(looked.account, q))
              /\ resting' = looked.left

\* close_all_positions: at the last mark if no price was fed.  The legs stay.
CloseAllPositions ==
    /\ holding # Flat
    /\ quote' = IF quote = 0 THEN holding.mark ELSE quote
    /\ LET o == PaperOrder("market", Counter(holding.side), holding.quantity, 0, TRUE)
       IN  \E at \in MarketFills(o.side, quote') : Becomes(Filled(Now, o, at, TakerFee))
    /\ UNCHANGED <<resting, placed>>

-----------------------------------------------------------------------------

\* Entries on either side; a bracket's legs on the position's other side.
AccountNext ==
    \/ \E side \in {"buy", "sell"}, n \in Lots : PlaceMarketOrder(side, n, FALSE)
    \/ \E side \in {"buy", "sell"}, n \in Lots, at \in Quotes : PlaceLimitOrder(side, n, at, FALSE)
    \/ \E n \in {p \in Parts : p <= holding.quantity}, at \in Quotes :
          \/ PlaceLimitOrder(Counter(holding.side), n, at, TRUE)
          \/ PlaceStopLossOrder(Counter(holding.side), n, at)
    \/ MarketWithoutPrice \/ ClosePaperPosition \/ CloseAllPositions \/ CancelAllOrders
    \/ \E i \in DOMAIN resting : CancelOrder(i)
    \/ \E q \in Quotes : PriceFed(q)

AccountSpec == AccountInit /\ [][AccountNext]_accountState

-----------------------------------------------------------------------------
(* Properties.                                                             *)

\* Type invariant; the balance never passes the peak the drawdown is taken from.
AccountTypeOK ==
    /\ quote \in {0} \union Quotes /\ placed \in 0..MaxPlaced
    /\ holding.quantity \in Nat /\ (holding = Flat <=> holding.quantity = 0)
    /\ purse.fees \in Nat /\ purse.balance <= purse.peak
    /\ Len(resting) <= placed

\* The account has what was really bought and sold left it, after any order of
\* entries, partial exits, legs larger than what is left of the position and
\* legs without one: the fees beside, and what was given up as dust at its cost.
EquityIsConserved ==
    purse.balance - InitialBalance + purse.fees =
        Scale * (tape.cash + tape.dustCost + Sign(holding.side) * holding.quantity * holding.entry)

\* No more than 0.001 of a position is forgotten when it counts as closed.
DroppedIsDust == tape.dust <= Dust * tape.closed

\* What the risk book was told of the positions that are over is what they made
\* for the account, partial exits included.
HookTellsTheAccount ==
    holding = Flat => tape.told = purse.balance - InitialBalance + purse.fees

\* "Averaging in is not the fix either": an open position never grows and never
\* turns into one on the other side, whatever rests in the book.
NeverGrowsNorFlips ==
    [][holding # Flat /\ holding' # Flat /\ tape'.closed = tape.closed =>
          /\ holding'.side = holding.side
          /\ holding'.quantity <= holding.quantity]_accountState

\* The money of a paper account (paper_trading_engine.py): what is in it, what
\* was told of it, and a position that legs can only make smaller.
MoneyIsConserved ==
    /\ [](EquityIsConserved /\ DroppedIsDust /\ HookTellsTheAccount)
    /\ NeverGrowsNorFlips

=============================================================================
