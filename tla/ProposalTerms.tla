---------------------------- MODULE ProposalTerms ----------------------------
(***************************************************************************)
(* The money of one proposal: sized when it is made, sized again at the    *)
(* live price when it is approved, booked at the market a moment later     *)
(* (core/proposals.py size_position and revalidate, core/preferences.py,   *)
(* multi_user_daemon.py _approve_proposal).  ProposalFlow has the life of  *)
(* the rows and their shelf life; here the tenant may change preferences   *)
(* and the price may move between any two steps.                           *)
(*                                                                         *)
(* A size is a fraction [n, d]; ratios are in tenths; a risk is in         *)
(* hundredths of the currency; prices are integers.                        *)
(***************************************************************************)
EXTENDS Integers, Sequences, SequencesExt, FiniteSetsExt

CONSTANTS TermSetups,    \* setups of the shared analysis
          TermPrefs,     \* what the tenant may set the preferences to
          ChannelFloors, \* CHANNEL_MIN_RR of the channels, 0 for no channel
          Tolerance,     \* price_tolerance, in thousandths
          TermPrices,    \* bound: live prices, 0 while there is none
          Cuts           \* what the risk gate may leave of a size, in quarters

ASSUME TermsAssumption ==
    /\ Tolerance \in Nat /\ TermPrices \subseteq Nat /\ ChannelFloors \subseteq Nat
    /\ Cuts \subseteq 1..4
    /\ \A setup \in TermSetups : setup.entry \in Int /\ setup.stop \in Int
    /\ TermPrefs \subseteq [capital : Int, riskPct : Int, leverage : Int, minRr : Int,
                            minConfidence : Int]

VARIABLES floor,     \* the session's channel, by its R:R floor
          persona,   \* the preferences row
          priced,    \* the daemon's live price
          offer,     \* the proposal row
          check,     \* _approve_proposal: the price it read and what it was told
          trade,     \* what was booked
          kept       \* history: the preferences are those the proposal was made with

termVars == <<floor, persona, priced, offer, check, trade, kept>>

NoOffer == [status |-> "none"]
Unchecked == [at |-> "idle"]
NoTrade == [size |-> [n |-> 0, d |-> 1]]

Apart(x, y) == IF x < y THEN y - x ELSE x - y
SmallerSize(a, b) == IF a.n * b.d <= b.n * a.d THEN a ELSE b
Pays(direction, from, to) == IF direction = "LONG" THEN to - from ELSE from - to

\* In hundredths of the currency.
Budget(prefs) == prefs.capital * prefs.riskPct

BudgetSize(prefs, distance) == [n |-> Budget(prefs), d |-> 100 * distance]
LeverageSize(prefs, entry) == [n |-> prefs.capital * Max({1, prefs.leverage}), d |-> entry]

\* The first one that is a price; 0 when there is none.  The others are booked
\* all the same.
FirstTarget(targets) ==
    LET real == SelectSeq(targets, LAMBDA t : t > 0)
    IN  IF real = << >> THEN 0 ELSE Head(real)

\* size_position accepts: stop and first target on their sides of the entry, and
\* the reward worth the risk.
SizingOk(direction, entry, stop, targets, prefs) ==
    LET distance == Pays(direction, stop, entry)
        reward == Pays(direction, entry, FirstTarget(targets))
    IN  /\ entry > 0 /\ stop > 0 /\ distance > 0
        /\ prefs.capital > 0 /\ prefs.riskPct > 0
        /\ FirstTarget(targets) > 0 /\ reward > 0
        /\ 10 * reward >= prefs.minRr * distance

\* ... and its size: the risk budget over the distance, within the leverage.
Sized(entry, stop, prefs) ==
    SmallerSize(BudgetSize(prefs, Apart(entry, stop)), LeverageSize(prefs, entry))

\* effective_prefs_for_channel only ever raises the floor.
EffectivePrefs == [persona EXCEPT !.minRr = Max({@, floor})]

-----------------------------------------------------------------------------

TermsInit ==
    /\ floor \in ChannelFloors /\ persona \in TermPrefs /\ priced \in TermPrices
    /\ offer = NoOffer /\ check = Unchecked /\ trade = NoTrade /\ kept = TRUE

\* A setup the persona's rules refuse makes no row.
CreateProposal(setup) ==
    /\ offer = NoOffer
    /\ setup.confidence >= persona.minConfidence
    /\ SizingOk(setup.direction, setup.entry, setup.stop, setup.targets, EffectivePrefs)
    /\ offer' = [status |-> "proposed", direction |-> setup.direction, entry |-> setup.entry,
                 stop |-> setup.stop, targets |-> setup.targets,
                 size |-> Sized(setup.entry, setup.stop, EffectivePrefs),
                 risk |-> Budget(persona)]
    /\ kept' = TRUE
    /\ UNCHANGED <<floor, persona, priced, check, trade>>

ChangePersona(prefs) ==
    /\ persona' = prefs /\ kept' = (kept /\ prefs = persona)
    /\ UNCHANGED <<floor, priced, offer, check, trade>>

PriceGoes(q) ==
    /\ priced' = q
    /\ UNCHANGED <<floor, persona, offer, check, trade, kept>>

\* The price is read before the preferences are.
ReadPrice ==
    /\ check.at = "idle" /\ offer # NoOffer /\ offer.status = "proposed" /\ priced > 0
    /\ check' = [at |-> "priced", price |-> priced]
    /\ UNCHANGED <<floor, persona, priced, offer, trade, kept>>

Breached(price) == Pays(offer.direction, offer.stop, price) <= 0
Drifted(price) == 1000 * Apart(price, offer.entry) > Tolerance * offer.entry

\* Mutant: sized again at the price it was proposed at.
SizedAsProposed(price) ==
    SmallerSize(Sized(offer.entry, offer.stop, persona), offer.size)

\* Shrinks only.
FinalSize(price) == SmallerSize(Sized(price, offer.stop, persona), offer.size)

Marked(outcome) == [offer EXCEPT !.status = outcome]

\* revalidate, under the persona alone: the channel's floor and the confidence are
\* not looked at again.
Reconsider ==
    /\ check.at = "priced"
    /\ LET price == check.price
       IN  IF /\ ~Breached(price) /\ ~Drifted(price)
              /\ SizingOk(offer.direction, price, offer.stop, offer.targets, persona)
           THEN /\ check' = [at |-> "checked", price |-> price, prefs |-> persona,
                             size |-> FinalSize(price)]
                /\ UNCHANGED offer
           ELSE /\ check' = Unchecked
                /\ offer' = IF Breached(price) THEN Marked("invalidated") ELSE offer
    /\ UNCHANGED <<floor, persona, priced, trade, kept>>

\* The row's own risk_amount, whatever became of the size.
RecordedRisk(size) == offer.risk

\* evaluate_and_book and mark: the risk gate may shrink the size or refuse.
BookTerms ==
    /\ check.at = "checked"
    /\ \/ \E quarters \in Cuts :
             LET size == [n |-> check.size.n * quarters, d |-> 4 * check.size.d]
             IN  trade' = [size |-> size, direction |-> offer.direction, price |-> check.price,
                           prefs |-> check.prefs, stop |-> offer.stop,
                           targets |-> offer.targets, risk |-> RecordedRisk(size)]
          /\ offer' = Marked("executed")
       \/ trade' = trade /\ offer' = Marked("rejected")
    /\ check' = Unchecked
    /\ UNCHANGED <<floor, persona, priced, kept>>

TermsNext ==
    \/ \E setup \in TermSetups : CreateProposal(setup)
    \/ \E prefs \in TermPrefs : ChangePersona(prefs)
    \/ \E q \in TermPrices : PriceGoes(q)
    \/ ReadPrice \/ Reconsider \/ BookTerms

TermsSpec == TermsInit /\ [][TermsNext]_termVars

-----------------------------------------------------------------------------
(* Properties.                                                             *)

Booked == trade # NoTrade

\* Type invariant; a trade is booked of an executed offer and of no other.
TermsTypeOK ==
    /\ floor \in ChannelFloors /\ persona \in TermPrefs /\ priced \in TermPrices
    /\ check.at \in {"idle", "priced", "checked"}
    /\ Booked <=> offer # NoOffer /\ offer.status = "executed"

\* "Size is therefore capped at the originally approved size, always": however
\* the price drifts towards the stop and however the preferences are raised.
BookedNeverGrows == Booked => SmallerSize(trade.size, offer.size) = trade.size

\* What the stop costs at the price the approval looked at, and the notional,
\* fit the budget and the leverage the tenant had set by then.
LossFitsBudget ==
    Booked =>
        /\ 100 * trade.size.n * Apart(trade.price, trade.stop) <= Budget(trade.prefs) * trade.size.d
        /\ trade.size.n * trade.price <=
               trade.prefs.capital * Max({1, trade.prefs.leverage}) * trade.size.d

\* The first target that is a price is still ahead and pays the tenant's own ratio,
\* and the stop is still behind, at the price the approval looked at.
RewardIsAhead ==
    Booked =>
        /\ Pays(trade.direction, trade.stop, trade.price) > 0
        /\ 10 * Pays(trade.direction, trade.price, FirstTarget(trade.targets)) >=
               trade.prefs.minRr * Apart(trade.price, trade.stop)

\* The heat the risk book counts for the trade covers what its stop costs, as
\* long as the preferences are those it was proposed under.
RecordedCoversLoss ==
    Booked /\ kept =>
        100 * trade.size.n * Apart(trade.price, trade.stop) <= trade.risk * trade.size.d

\* What an approval books (proposals.py) is no more than what was proposed, with
\* the account's budget and the market as they are now.
BookedAsApproved == BookedNeverGrows /\ LossFitsBudget /\ RewardIsAhead /\ RecordedCoversLoss

=============================================================================
