-------------------------- MODULE DecisionsProofs --------------------------
(***************************************************************************)
(* Theorems about what is decided by calculation: the terms of a proposal  *)
(* (ProposalTerms), for every price, preference, tolerance and cut, the    *)
(* limits of an account's book (RiskBook), for every number of sessions,   *)
(* limit, length and plan, the money of a paper account (PaperAccount),    *)
(* for every price, size, fee and slippage, and the setups that leave the  *)
(* strategy agent (SetupSafety), for every analysis and answer.            *)
(***************************************************************************)
EXTENDS SetupSafety, ProposalTerms, RiskBook, PaperAccount, SumTheorems,
        SequenceTheorems

-----------------------------------------------------------------------------
(* Sizes are fractions.                                                    *)

Sizes == [n : Nat, d : Nat \ {0}]

NoMore(a, b) == a.n * b.d <= b.n * a.d

\* What holds of an order between products by a common factor.
LEMMA Scales ==
    ASSUME NEW x \in Nat, NEW y \in Nat, NEW z \in Nat, x <= y
    PROVE  x * z <= y * z
  OBVIOUS

LEMMA Cancels ==
    ASSUME NEW x \in Nat, NEW y \in Nat, NEW z \in Nat \ {0}, x * z <= y * z
    PROVE  x <= y
  OBVIOUS

\* A fraction is no more than a third one if it is no more than a second one that is not.
LEMMA NoMoreGoesOn ==
    ASSUME NEW a \in Sizes, NEW b \in Sizes, NEW c \in Sizes, NoMore(a, b), NoMore(b, c)
    PROVE  NoMore(a, c)
  <1>1. PICK an \in Nat, ad \in Nat \ {0}, bn \in Nat, bd \in Nat \ {0}, cn \in Nat, cd \in Nat \ {0} :
            /\ a.n = an /\ a.d = ad /\ b.n = bn /\ b.d = bd /\ c.n = cn /\ c.d = cd
    BY DEF Sizes
  <1>2. an * bd <= bn * ad /\ bn * cd <= cn * bd
    BY <1>1 DEF NoMore
  <1>3. (an * bd) * cd <= (bn * ad) * cd
    <2>1. an * bd \in Nat /\ bn * ad \in Nat
      OBVIOUS
    <2> QED
      BY <1>2, <2>1, Scales
  <1>4. (bn * cd) * ad <= (cn * bd) * ad
    <2>1. bn * cd \in Nat /\ cn * bd \in Nat
      OBVIOUS
    <2> QED
      BY <1>2, <2>1, Scales
  <1>5. (an * cd) * bd <= (cn * ad) * bd
    <2>1. (an * cd) * bd = (an * bd) * cd /\ (bn * ad) * cd = (bn * cd) * ad
          /\ (cn * ad) * bd = (cn * bd) * ad
      OBVIOUS
    <2>2. /\ (an * bd) * cd \in Int /\ (bn * ad) * cd \in Int /\ (cn * bd) * ad \in Int
      OBVIOUS
    <2> QED
      BY <1>3, <1>4, <2>1, <2>2
  <1>6. an * cd \in Nat /\ cn * ad \in Nat
    OBVIOUS
  <1>7. an * cd <= cn * ad
    BY <1>5, <1>6, Cancels
  <1> QED
    BY <1>1, <1>7 DEF NoMore

\* The smaller of two sizes is a size and no more than either.
LEMMA SmallerIs ==
    ASSUME NEW a \in Sizes, NEW b \in Sizes
    PROVE  /\ SmallerSize(a, b) \in Sizes
           /\ NoMore(SmallerSize(a, b), a)
           /\ NoMore(SmallerSize(a, b), b)
  <1>1. a.n \in Nat /\ a.d \in Nat /\ b.n \in Nat /\ b.d \in Nat
    BY DEF Sizes
  <1>2. a.n * b.d \in Int /\ b.n * a.d \in Int /\ a.n * a.d \in Int /\ b.n * b.d \in Int
    BY <1>1
  <1> QED
    BY <1>2 DEF SmallerSize, NoMore

\* The gate leaves between none and four of four quarters.
LEMMA CutIs ==
    ASSUME NEW a \in Sizes, NEW quarters \in Cuts
    PROVE  LET cut == [n |-> a.n * quarters, d |-> 4 * a.d]
           IN  cut \in Sizes /\ NoMore(cut, a)
  <1>1. PICK n \in Nat, d \in Nat \ {0} : a.n = n /\ a.d = d
    BY DEF Sizes
  <1>2. quarters \in Nat /\ quarters <= 4
    BY TermsAssumption
  <1>3. n * quarters \in Nat /\ 4 * d \in Nat \ {0}
    BY <1>2
  <1>4. quarters * (n * d) <= 4 * (n * d)
    BY <1>2, Scales
  <1>5. (n * quarters) * d = quarters * (n * d) /\ n * (4 * d) = 4 * (n * d)
    BY <1>2
  <1> QED
    BY <1>1, <1>3, <1>4, <1>5 DEF Sizes, NoMore


\* A leverage below one counts as one.
LEMMA LeverageIs ==
    ASSUME NEW l \in Int
    PROVE  Max({1, l}) \in Nat
  <1>1. \E x \in {1, l} : \A y \in {1, l} : x >= y
    BY SMT
  <1>2. Max({1, l}) \in {1, l} /\ Max({1, l}) >= 1
    BY <1>1 DEF Max
  <1> QED
    BY <1>2

\* With a budget and a stop on its side, the size is within the budget and the leverage.
LEMMA PositiveIsSized ==
    ASSUME NEW prefs \in TermPrefs, NEW direction, NEW entry \in Int, NEW stop \in Int,
           entry > 0, Pays(direction, stop, entry) > 0, prefs.capital > 0, prefs.riskPct > 0
    PROVE  /\ Apart(entry, stop) \in Nat \ {0}
           /\ Apart(entry, stop) = Pays(direction, stop, entry)
           /\ BudgetSize(prefs, Apart(entry, stop)) \in Sizes
           /\ LeverageSize(prefs, entry) \in Sizes
           /\ Sized(entry, stop, prefs) \in Sizes
           /\ NoMore(Sized(entry, stop, prefs), BudgetSize(prefs, Apart(entry, stop)))
           /\ NoMore(Sized(entry, stop, prefs), LeverageSize(prefs, entry))
  <1>1. prefs.capital \in Int /\ prefs.riskPct \in Int /\ prefs.leverage \in Int
    BY TermsAssumption
  <1>2. Apart(entry, stop) \in Nat \ {0} /\ Apart(entry, stop) = Pays(direction, stop, entry)
    BY DEF Pays, Apart
  <1>3. PICK c \in Nat, r \in Nat, l \in Nat :
            c = prefs.capital /\ r = prefs.riskPct /\ l = Max({1, prefs.leverage})
    BY <1>1, LeverageIs
  <1>4. c * r \in Nat /\ c * l \in Nat
    OBVIOUS
  <1>5. BudgetSize(prefs, Apart(entry, stop)) \in Sizes
    <2>1. PICK a \in Nat \ {0} : a = Apart(entry, stop)
      BY <1>2
    <2>2. 100 * a \in Nat \ {0}
      OBVIOUS
    <2> QED
      BY <1>3, <1>4, <2>1, <2>2 DEF BudgetSize, Budget, Sizes
  <1>6. LeverageSize(prefs, entry) \in Sizes
    BY <1>3, <1>4 DEF LeverageSize, Sizes
  <1> QED
    BY <1>2, <1>5, <1>6, SmallerIs DEF Sized

\* So size_position sizes what it accepts.
LEMMA SizedIs ==
    ASSUME NEW prefs \in TermPrefs, NEW direction, NEW entry \in Int, NEW stop \in Int, NEW targets,
           SizingOk(direction, entry, stop, targets, prefs)
    PROVE  /\ Apart(entry, stop) \in Nat \ {0}
           /\ Apart(entry, stop) = Pays(direction, stop, entry)
           /\ BudgetSize(prefs, Apart(entry, stop)) \in Sizes
           /\ LeverageSize(prefs, entry) \in Sizes
           /\ Sized(entry, stop, prefs) \in Sizes
           /\ NoMore(Sized(entry, stop, prefs), BudgetSize(prefs, Apart(entry, stop)))
           /\ NoMore(Sized(entry, stop, prefs), LeverageSize(prefs, entry))
  <1>1. entry > 0 /\ Pays(direction, stop, entry) > 0 /\ prefs.capital > 0 /\ prefs.riskPct > 0
    BY DEF SizingOk
  <1> QED
    BY <1>1, PositiveIsSized

-----------------------------------------------------------------------------
(* The inductive invariant.                                                *)

OfferRows == [status : {"proposed", "invalidated", "executed", "rejected"},
              direction : {setup.direction : setup \in TermSetups},
              entry : Int, stop : Int, targets : {setup.targets : setup \in TermSetups},
              size : Sizes, risk : Int]

\* The row keeps what was proposed, and its risk is the budget while the
\* preferences stay.
OfferIsKept ==
    offer # NoOffer => offer \in OfferRows /\ (kept => offer.risk = Budget(persona))

\* What the approval has checked: a size within the offer's, the budget and the
\* leverage of the preferences it read, at the price it read.
CheckIsSound ==
    /\ check.at \in {"idle", "priced", "checked"}
    /\ check.at # "idle" => offer \in OfferRows /\ offer.status = "proposed" /\ check.price \in Nat
    /\ check.at = "checked" =>
         /\ check.prefs \in TermPrefs /\ check.size \in Sizes
         /\ NoMore(check.size, offer.size)
         /\ SizingOk(offer.direction, check.price, offer.stop, offer.targets, check.prefs)
         /\ NoMore(check.size, Sized(check.price, offer.stop, check.prefs))
         /\ kept => offer.risk = Budget(check.prefs)

\* A trade is booked once, of an offer that is then executed.
BookedOfExecuted == Booked => offer \in OfferRows /\ offer.status = "executed"

TermsInv ==
    /\ persona \in TermPrefs /\ priced \in TermPrices
    /\ OfferIsKept /\ CheckIsSound /\ BookedOfExecuted /\ BookedAsApproved

LEMMA TermsStart == TermsInit => TermsInv
  BY DEF TermsInit, TermsInv, OfferIsKept, CheckIsSound, BookedOfExecuted, BookedAsApproved,
     BookedNeverGrows, LossFitsBudget, RewardIsAhead, RecordedCoversLoss, Booked, Unchecked, NoOffer

\* A status is all that marking changes.
LEMMA MarkedIs ==
    ASSUME offer \in OfferRows, NEW outcome \in {"proposed", "invalidated", "executed", "rejected"}
    PROVE  /\ Marked(outcome) \in OfferRows /\ Marked(outcome).status = outcome
           /\ Marked(outcome).size = offer.size /\ Marked(outcome).risk = offer.risk
           /\ Marked(outcome).stop = offer.stop /\ Marked(outcome).direction = offer.direction
           /\ Marked(outcome).targets = offer.targets
  BY DEF Marked, OfferRows

\* The budget is a number of hundredths.
LEMMA BudgetIs ==
    ASSUME NEW prefs \in TermPrefs
    PROVE  Budget(prefs) \in Int
  <1>1. prefs.capital \in Int /\ prefs.riskPct \in Int
    BY TermsAssumption
  <1> QED
    BY <1>1 DEF Budget

\* create, under the channel's floor: a row that passes is sized by the persona.
LEMMA CreateKeepsTerms ==
    ASSUME TermsInv, NEW setup \in TermSetups, CreateProposal(setup)
    PROVE  TermsInv'
  <1> DEFINE prefs == EffectivePrefs
             row == [status |-> "proposed", direction |-> setup.direction, entry |-> setup.entry,
                     stop |-> setup.stop, targets |-> setup.targets,
                     size |-> Sized(setup.entry, setup.stop, prefs), risk |-> Budget(persona)]
  <1>1. /\ offer = NoOffer /\ offer' = row
        /\ SizingOk(setup.direction, setup.entry, setup.stop, setup.targets, prefs)
        /\ setup.entry \in Int /\ setup.stop \in Int /\ persona \in TermPrefs
        /\ kept' = TRUE /\ UNCHANGED <<floor, persona, priced, check, trade>>
    BY TermsAssumption DEF CreateProposal, TermsInv
  <1>2. ~Booked /\ check.at = "idle"
    <2>1. offer \notin OfferRows
      BY <1>1 DEF NoOffer, OfferRows
    <2> QED
      BY <2>1 DEF TermsInv, CheckIsSound, BookedOfExecuted
  <1>3. /\ prefs.capital = persona.capital /\ prefs.riskPct = persona.riskPct
        /\ prefs.leverage = persona.leverage
    BY <1>1, TermsAssumption DEF EffectivePrefs
  <1>4. Sized(setup.entry, setup.stop, prefs) = Sized(setup.entry, setup.stop, persona)
    BY <1>3 DEF Sized, BudgetSize, LeverageSize, Budget
  <1>5. Sized(setup.entry, setup.stop, persona) \in Sizes
    <2>1. /\ setup.entry > 0 /\ Pays(setup.direction, setup.stop, setup.entry) > 0
          /\ persona.capital > 0 /\ persona.riskPct > 0
      BY <1>1, <1>3 DEF SizingOk
    <2> QED
      BY <1>1, <2>1, PositiveIsSized
  <1>6. row \in OfferRows /\ row.risk = Budget(persona)
    BY <1>1, <1>4, <1>5, BudgetIs DEF OfferRows
  <1> HIDE DEF prefs, row
  <1>7. OfferIsKept' /\ CheckIsSound' /\ ~Booked'
    BY <1>1, <1>2, <1>6 DEF OfferIsKept, CheckIsSound, Booked, Budget, TermsInv
  <1> QED
    BY <1>1, <1>7 DEF TermsInv, BookedOfExecuted, BookedAsApproved, BookedNeverGrows, LossFitsBudget,
       RewardIsAhead, RecordedCoversLoss

\* The tenant sets preferences; the trade's own are those it was checked with.
LEMMA PersonaKeepsTerms ==
    ASSUME TermsInv, NEW prefs \in TermPrefs, ChangePersona(prefs)
    PROVE  TermsInv'
  <1>1. /\ persona' = prefs /\ kept' = (kept /\ prefs = persona)
        /\ UNCHANGED <<floor, priced, offer, check, trade>>
    BY DEF ChangePersona
  <1>2. OfferIsKept'
    BY <1>1 DEF TermsInv, OfferIsKept, Budget
  <1>3. CheckIsSound'
    BY <1>1 DEF TermsInv, CheckIsSound
  <1>4. BookedAsApproved' /\ BookedOfExecuted'
    BY <1>1 DEF TermsInv, BookedOfExecuted, BookedAsApproved, BookedNeverGrows, LossFitsBudget,
       RewardIsAhead, RecordedCoversLoss, Booked
  <1> QED
    BY <1>1, <1>2, <1>3, <1>4 DEF TermsInv

\* The price moves, or is read.
LEMMA PricesKeepTerms ==
    ASSUME TermsInv, (\E q \in TermPrices : PriceGoes(q)) \/ ReadPrice
    PROVE  TermsInv'
  <1>1. CASE \E q \in TermPrices : PriceGoes(q)
    BY <1>1 DEF PriceGoes, TermsInv, OfferIsKept, CheckIsSound, BookedOfExecuted,
       BookedAsApproved, BookedNeverGrows, LossFitsBudget, RewardIsAhead, RecordedCoversLoss, Booked, Budget
  <1>2. CASE ReadPrice
    <2>1. check' = [at |-> "priced", price |-> priced] /\ priced \in Nat
      BY <1>2, TermsAssumption DEF ReadPrice, TermsInv
    <2>2. CheckIsSound'
      BY <1>2, <2>1 DEF ReadPrice, CheckIsSound, TermsInv, OfferIsKept
    <2> QED
      BY <1>2, <2>2 DEF ReadPrice, TermsInv, OfferIsKept, BookedOfExecuted,
         BookedAsApproved, BookedNeverGrows, LossFitsBudget, RewardIsAhead, RecordedCoversLoss, Booked, Budget
  <1> QED
    BY <1>1, <1>2

\* What is booked does not change while neither the trade nor the offer's size does.
LEMMA BookedStays ==
    ASSUME BookedAsApproved, UNCHANGED <<trade, kept>>, offer'.size = offer.size
    PROVE  BookedAsApproved'
  BY DEF BookedAsApproved, BookedNeverGrows, LossFitsBudget, RewardIsAhead, RecordedCoversLoss, Booked

\* revalidate: what passes is sized at the price read, and no larger than offered.
LEMMA ReconsiderKeepsTerms ==
    ASSUME TermsInv, Reconsider
    PROVE  TermsInv'
  <1>1. /\ offer \in OfferRows /\ offer.status = "proposed" /\ check.price \in Nat
        /\ persona \in TermPrefs /\ ~Booked /\ offer # NoOffer
        /\ UNCHANGED <<floor, persona, priced, trade, kept>>
    BY DEF Reconsider, TermsInv, CheckIsSound, BookedOfExecuted, OfferRows, NoOffer
  <1>2. ~Booked'
    BY <1>1 DEF Booked
  <1>3. BookedOfExecuted' /\ BookedAsApproved'
    BY <1>2 DEF BookedOfExecuted, BookedAsApproved, BookedNeverGrows, LossFitsBudget, RewardIsAhead,
       RecordedCoversLoss
  <1>4. CASE /\ SizingOk(offer.direction, check.price, offer.stop, offer.targets, persona)
             /\ check' = [at |-> "checked", price |-> check.price, prefs |-> persona,
                          size |-> FinalSize(check.price)]
             /\ UNCHANGED offer
    <2>1. /\ Sized(check.price, offer.stop, persona) \in Sizes /\ offer.size \in Sizes
      BY <1>1, <1>4, SizedIs DEF OfferRows
    <2>2. /\ FinalSize(check.price) \in Sizes
          /\ NoMore(FinalSize(check.price), offer.size)
          /\ NoMore(FinalSize(check.price), Sized(check.price, offer.stop, persona))
      BY <2>1, SmallerIs DEF FinalSize
    <2>3. kept => offer.risk = Budget(persona)
      BY <1>1 DEF TermsInv, OfferIsKept
    <2>4. /\ check'.at = "checked" /\ check'.price = check.price /\ check'.prefs = persona
          /\ check'.size = FinalSize(check.price)
      BY <1>4
    <2>5. CheckIsSound'
      BY <1>1, <1>4, <2>2, <2>3, <2>4 DEF CheckIsSound
    <2>6. OfferIsKept'
      BY <1>1, <1>4 DEF TermsInv, OfferIsKept, Budget
    <2> QED
      BY <1>1, <1>3, <2>5, <2>6 DEF TermsInv
  <1>5. CASE check' = Unchecked /\ (offer' = Marked("invalidated") \/ offer' = offer)
    <2>1. CheckIsSound'
      BY <1>5 DEF CheckIsSound, Unchecked
    <2>2. offer' \in OfferRows /\ offer'.risk = offer.risk
      BY <1>1, <1>5, MarkedIs
    <2>3. OfferIsKept'
      BY <1>1, <2>2 DEF TermsInv, OfferIsKept, Budget
    <2> QED
      BY <1>1, <1>3, <2>1, <2>3 DEF TermsInv
  <1>6. \/ /\ SizingOk(offer.direction, check.price, offer.stop, offer.targets, persona)
           /\ check' = [at |-> "checked", price |-> check.price, prefs |-> persona,
                        size |-> FinalSize(check.price)]
           /\ UNCHANGED offer
        \/ check' = Unchecked /\ (offer' = Marked("invalidated") \/ offer' = offer)
    BY DEF Reconsider
  <1> QED
    BY <1>4, <1>5, <1>6

\* evaluate_and_book: a part of what was checked, with the prices and preferences
\* it was checked with.
LEMMA BookKeepsTerms ==
    ASSUME TermsInv, BookTerms
    PROVE  TermsInv'
  <1>1. /\ offer \in OfferRows /\ offer.status = "proposed" /\ check.price \in Nat
        /\ check.prefs \in TermPrefs /\ check.size \in Sizes /\ NoMore(check.size, offer.size)
        /\ SizingOk(offer.direction, check.price, offer.stop, offer.targets, check.prefs)
        /\ NoMore(check.size, Sized(check.price, offer.stop, check.prefs))
        /\ kept => offer.risk = Budget(check.prefs)
        /\ ~Booked /\ offer # NoOffer
        /\ check' = Unchecked /\ UNCHANGED <<floor, persona, priced, kept>>
    BY DEF BookTerms, TermsInv, CheckIsSound, BookedOfExecuted, OfferRows, NoOffer
  <1>2. CheckIsSound'
    BY <1>1 DEF CheckIsSound, Unchecked
  <1>3. CASE trade' = trade /\ offer' = Marked("rejected")
    <2>1. ~Booked'
      BY <1>1, <1>3 DEF Booked
    <2>2. OfferIsKept'
      BY <1>1, <1>3, MarkedIs DEF TermsInv, OfferIsKept, Budget
    <2> QED
      BY <1>1, <1>2, <2>1, <2>2 DEF TermsInv, BookedOfExecuted, BookedAsApproved, BookedNeverGrows,
         LossFitsBudget, RewardIsAhead, RecordedCoversLoss
  <1>4. ASSUME NEW quarters \in Cuts, offer' = Marked("executed"),
               trade' = [size |-> [n |-> check.size.n * quarters, d |-> 4 * check.size.d],
                         direction |-> offer.direction, price |-> check.price,
                         prefs |-> check.prefs, stop |-> offer.stop,
                         targets |-> offer.targets, risk |-> offer.risk]
        PROVE  TermsInv'
    <2>1. PICK size : size = [n |-> check.size.n * quarters, d |-> 4 * check.size.d]
      OBVIOUS
    <2>2. size \in Sizes /\ NoMore(size, check.size)
      BY <1>1, <2>1, CutIs
    <2>3. /\ trade'.size = size /\ trade'.direction = offer.direction /\ trade'.price = check.price
          /\ trade'.prefs = check.prefs /\ trade'.stop = offer.stop
          /\ trade'.targets = offer.targets /\ trade'.risk = offer.risk
      BY <1>4, <2>1
    <2>4. PICK distance \in Nat \ {0} :
            /\ distance = Apart(check.price, offer.stop)
            /\ distance = Pays(offer.direction, offer.stop, check.price)
            /\ BudgetSize(check.prefs, distance) \in Sizes
            /\ LeverageSize(check.prefs, check.price) \in Sizes
            /\ Sized(check.price, offer.stop, check.prefs) \in Sizes
            /\ NoMore(Sized(check.price, offer.stop, check.prefs), BudgetSize(check.prefs, distance))
            /\ NoMore(Sized(check.price, offer.stop, check.prefs), LeverageSize(check.prefs, check.price))
      BY <1>1, SizedIs DEF OfferRows
    <2>5. NoMore(size, offer.size) /\ offer.size \in Sizes
      BY <1>1, <2>2, NoMoreGoesOn DEF OfferRows
    <2>6. /\ NoMore(size, BudgetSize(check.prefs, distance))
          /\ NoMore(size, LeverageSize(check.prefs, check.price))
      BY <1>1, <2>2, <2>4, NoMoreGoesOn
    <2>7. BookedNeverGrows'
      BY <1>1, <1>4, <2>3, <2>5, MarkedIs DEF BookedNeverGrows, SmallerSize, NoMore
    <2>8. 100 * size.n * distance <= Budget(check.prefs) * size.d
      <3>1. size.n * (100 * distance) <= Budget(check.prefs) * size.d
        BY <2>6 DEF NoMore, BudgetSize
      <3>2. size.n \in Nat
        BY <2>2 DEF Sizes
      <3>3. 100 * size.n * distance = size.n * (100 * distance)
        BY <3>2
      <3> QED
        BY <3>1, <3>3
    <2>9. LossFitsBudget'
      <3>1. size.n * check.price <= (check.prefs.capital * Max({1, check.prefs.leverage})) * size.d
        BY <2>6 DEF NoMore, LeverageSize
      <3> QED
        BY <2>3, <2>4, <2>8, <3>1 DEF LossFitsBudget, Budget
    <2>10. RewardIsAhead'
      BY <1>1, <2>3, <2>4 DEF RewardIsAhead, SizingOk
    <2>11. RecordedCoversLoss'
      <3>1. kept => 100 * size.n * distance <= offer.risk * size.d
        BY <1>1, <2>8
      <3> QED
        BY <1>1, <2>3, <2>4, <3>1 DEF RecordedCoversLoss
    <2>12. OfferIsKept' /\ BookedOfExecuted'
      BY <1>1, <1>4, MarkedIs DEF TermsInv, OfferIsKept, BookedOfExecuted, Budget
    <2> QED
      BY <1>1, <1>2, <2>7, <2>9, <2>10, <2>11, <2>12 DEF TermsInv, BookedAsApproved
  <1> QED
    BY <1>3, <1>4 DEF BookTerms, RecordedRisk

\* What an approval books (proposals.py revalidate, multi_user_daemon.py
\* _approve_proposal) is no more than was proposed, fits the budget and the leverage
\* the tenant had set when the approval read them, has its stop behind and a target
\* worth the risk ahead, and costs at its stop no more than the risk recorded for it
\* while the preferences are those it was proposed under; however the price and the
\* preferences move between any two steps.
THEOREM BooksAsApproved == TermsSpec => []BookedAsApproved
<1>1. TermsInv /\ [TermsNext]_termVars => TermsInv'
  <2> SUFFICES ASSUME TermsInv, [TermsNext]_termVars PROVE TermsInv'
    OBVIOUS
  <2>1. CASE UNCHANGED termVars
    BY <2>1 DEF termVars, TermsInv, OfferIsKept, CheckIsSound, BookedOfExecuted, Budget,
       BookedAsApproved, BookedNeverGrows, LossFitsBudget, RewardIsAhead, RecordedCoversLoss, Booked
  <2> QED
    BY <2>1, CreateKeepsTerms, PersonaKeepsTerms, PricesKeepTerms, ReconsiderKeepsTerms,
       BookKeepsTerms DEF TermsNext
<1>2. TermsInv => BookedAsApproved
  BY DEF TermsInv
<1> QED
  BY <1>1, <1>2, TermsStart, PTL DEF TermsSpec

-----------------------------------------------------------------------------
(***************************************************************************)
(* The risk book: BookKeepsLimits.                                         *)
(***************************************************************************)

Directions == {"LONG", "SHORT"}
Positions == [symbol : Symbols, direction : Directions, risk : Nat, pnl : Int, stop : BOOLEAN]
Accounts == [balance : Int, peak : Int, dayStart : Int, startDay : Nat, trades : Nat,
             wins : Nat, losses : Nat, winStreak : Nat, lossStreak : Nat]
Candidate(s) == s.symbol \in Symbols /\ s.direction \in Directions /\ s.risk \in Nat

\* An account with its positions.
Books(h) ==
    /\ IsFiniteSet(DOMAIN h) /\ h = [i \in DOMAIN h |-> h[i]]
    /\ \A i \in DOMAIN h : h[i] \in Positions

Accounted(a, h) ==
    /\ a \in Accounts /\ Books(h)
    /\ a.balance <= a.peak /\ a.peak >= Initial /\ a.startDay <= today

Pending == {e \in Evaluators : verdicts[e] # NoCandidate}
Held(h) == Cardinality(DOMAIN h)

RiskTypes ==
    /\ today \in Nat /\ riskPlan \in SUBSET {"agent", "crash", "concurrent"}
    /\ Accounted(account, holdings)
    /\ disk = [account |-> disk.account, holdings |-> disk.holdings, flag |-> disk.flag]
    /\ Accounted(disk.account, disk.holdings)
    /\ DOMAIN verdicts = Evaluators /\ verdicts = [e \in Evaluators |-> verdicts[e]]
    /\ \A e \in Pending : Candidate(verdicts[e])
    /\ openings \in [ever : Nat, today : Nat] /\ closes \in Nat

\* Six percent of the peak, and two for each of n sessions more.
Room(n, peak) == (6 + 2 * n) * peak

\* A tenant's file is its book, but for the day's counters.
FileIsBook ==
    /\ disk.holdings = holdings
    /\ disk.account.balance = account.balance /\ disk.account.peak = account.peak
    /\ disk.account.lossStreak = account.lossStreak

\* Of the sessions that will book there is one that saw the book as it now is or
\* with less room, all the others have two percent each.
Reserved ==
    /\ RiskOf(holdings) * 100 <= Room(Waves - 1, account.peak)
    /\ \A e \in Pending : verdicts[e].risk * 100 <= 2 * account.peak
    /\ Pending # {} =>
         \E e \in Pending : (RiskOf(holdings) + verdicts[e].risk) * 100
                              <= Room(Waves - Cardinality(Pending), account.peak)

Counted ==
    /\ Cardinality(Pending) <= Waves
    /\ Held(holdings) + Cardinality(Pending) <= MaxConcurrent + Waves - 1
    /\ openings.today + Cardinality(Pending) <= MaxDaily + MaxConcurrent - 1 + Waves - 1

\* What was opened today is closed today or still open.
OpenedToday ==
    openings.today > 0 =>
      /\ account.startDay = today /\ disk.account.trades = account.trades
      /\ openings.today <= account.trades + Held(holdings)

TenantInv ==
    /\ DOMAIN holdings \subseteq 1..openings.ever
    /\ \A i \in DOMAIN holdings : holdings[i].pnl = 0
    /\ FileIsBook /\ Reserved /\ Counted /\ OpenedToday

\* Two positions at most are taken over, and little is won on them.
Small(a, h, ever) ==
    /\ DOMAIN h \subseteq {1, 2}
    /\ \A i \in DOMAIN h : h[i].pnl <= 2 /\ (~h[i].stop => h[i].risk = 60)
    /\ a.balance <= Initial + 4 - 2 * Held(h)
    /\ ever = 0 => DOMAIN h = {} /\ a.balance = Initial

AgentInv ==
    /\ Pending = {} /\ openings.today = 0
    /\ openings.ever = 0 \/ openings.ever = MaxOpens
    /\ Small(account, holdings, openings.ever)
    /\ Small(disk.account, disk.holdings, openings.ever)

RiskInv ==
    /\ RiskTypes
    /\ ~IsAgent => TenantInv
    /\ IsAgent => AgentInv
    /\ CountersAreTodays /\ FlagFollowsBreaker

LEMMA RiskNumbers ==
    /\ MaxOpens \in Nat \ {0} /\ MaxConcurrent \in Nat \ {0} /\ MaxDaily \in Nat \ {0}
    /\ IsFiniteSet(Evaluators) /\ Cardinality(Evaluators) \in Nat \ {0}
    /\ Waves \in Nat \ {0}
<1>1. /\ MaxOpens \in Nat \ {0} /\ MaxConcurrent \in Nat \ {0} /\ MaxDaily \in Nat \ {0}
      /\ IsFiniteSet(Evaluators) /\ Evaluators # {}
  BY RiskAssumption
<1>2. Cardinality(Evaluators) \in Nat \ {0}
  BY <1>1, FS_CardinalityType, FS_EmptySet
<1>3. Waves \in Nat \ {0}
  BY <1>2 DEF Waves
<1> QED BY <1>1, <1>2, <1>3

\* Room grows with the peak and with the sessions.
LEMMA RoomPeak == \A n \in Nat, p \in Nat, q \in Nat : p <= q => Room(n, p) <= Room(n, q)
<1>1. ASSUME NEW n \in Nat, NEW p \in Nat, NEW q \in Nat, p <= q PROVE Room(n, p) <= Room(n, q)
  <2>1. PICK c \in Nat, d \in Nat : c = 6 + 2 * n /\ d = q - p
    BY <1>1
  <2>2. c * (p + d) = c * p + c * d /\ c * d \in Nat /\ c * p \in Int
    OBVIOUS
  <2>3. q = p + d
    BY <2>1
  <2>4. c * q = c * p + c * d
    BY <2>2, <2>3
  <2> QED BY <2>1, <2>2, <2>4 DEF Room
<1> QED BY <1>1

LEMMA RoomType == \A n \in Nat, p \in Nat : Room(n, p) \in Int
BY DEF Room

LEMMA RoomStep == \A n \in Nat, p \in Nat : Room(n + 1, p) = Room(n, p) + 2 * p
<1>1. ASSUME NEW n \in Nat, NEW p \in Nat PROVE Room(n + 1, p) = Room(n, p) + 2 * p
  <2>1. (6 + 2 * (n + 1)) * p = (6 + 2 * n) * p + 2 * p
    OBVIOUS
  <2> QED BY <2>1 DEF Room
<1> QED BY <1>1

LEMMA RoomMore == \A n \in Nat, m \in Nat, p \in Nat : n <= m => Room(n, p) <= Room(m, p)
<1>1. ASSUME NEW n \in Nat, NEW m \in Nat, NEW p \in Nat, n <= m PROVE Room(n, p) <= Room(m, p)
  <2>1. PICK k \in Nat : m = n + k
    BY <1>1
  <2>2. (6 + 2 * (n + k)) * p = (6 + 2 * n) * p + 2 * (k * p) /\ k * p \in Nat
    OBVIOUS
  <2> QED BY <2>1, <2>2 DEF Room
<1> QED BY <1>1

-----------------------------------------------------------------------------
(* Books. *)

\* add_position, close_position: what the sums are.
LEMMA BookSums ==
    ASSUME NEW h, Books(h)
    PROVE  /\ RiskOf(h) \in Nat /\ UnrealizedOf(h) \in Int /\ Held(h) \in Nat
           /\ \A i \in DOMAIN h : h[i].risk <= RiskOf(h)
           /\ (\A i \in DOMAIN h : h[i].pnl <= 2) => UnrealizedOf(h) <= 2 * Held(h)
           /\ (\A i \in DOMAIN h : h[i].pnl <= 0) => UnrealizedOf(h) <= 0
<1>1. PICK f, g, D :
        /\ D = DOMAIN h /\ f = [i \in D |-> h[i].risk] /\ g = [i \in D |-> h[i].pnl]
  OBVIOUS
<1>2. RiskOf(h) = SumFunctionOnSet(f, D) /\ UnrealizedOf(h) = SumFunctionOnSet(g, D)
  BY <1>1 DEF RiskOf, UnrealizedOf, SumFunction
<1>3. /\ IsFiniteSet(D) /\ \A i \in D : f[i] \in Nat /\ g[i] \in Int
      /\ \A i \in D : f[i] = h[i].risk /\ g[i] = h[i].pnl
  BY <1>1 DEF Books, Positions
<1>4. RiskOf(h) \in Nat /\ \A i \in D : f[i] <= RiskOf(h)
  <2>1. /\ SumFunctionOnSet(f, D) \in Nat
        /\ \A i \in D : f[i] <= SumFunctionOnSet(f, D)
    BY <1>3, SumOfNaturals
  <2> QED BY <1>2, <2>1
<1>5. UnrealizedOf(h) \in Int
  BY <1>2, <1>3, SumType
<1>6. ASSUME \A i \in D : g[i] <= 2 PROVE UnrealizedOf(h) <= 2 * Cardinality(D)
  BY <1>2, <1>3, <1>6, SumAtMost
<1>7. ASSUME \A i \in D : g[i] <= 0 PROVE UnrealizedOf(h) <= 0
  <2>1. PICK none \in Int : none = 0
    OBVIOUS
  <2>2. \A i \in D : g[i] \in Int /\ g[i] <= none
    BY <1>3, <1>7, <2>1
  <2>3. SumFunctionOnSet(g, D) <= none * Cardinality(D)
    BY <1>3, <2>2, SumAtMost
  <2>4. none * Cardinality(D) = 0
    BY <1>3, <2>1, FS_CardinalityType
  <2> QED BY <1>2, <2>3, <2>4
<1>8. Held(h) \in Nat
  BY <1>1, <1>3, FS_CardinalityType DEF Held
<1> QED BY <1>1, <1>3, <1>4, <1>5, <1>6, <1>7, <1>8 DEF Held

LEMMA BookWithout ==
    ASSUME NEW h, Books(h), NEW id \in DOMAIN h, NEW w, w = Dropped(h, id)
    PROVE  /\ Books(w) /\ DOMAIN w = DOMAIN h \ {id}
           /\ \A i \in DOMAIN w : w[i] = h[i]
           /\ Held(w) = Held(h) - 1 /\ RiskOf(w) <= RiskOf(h)
<1>1. DOMAIN w = DOMAIN h \ {id} /\ \A i \in DOMAIN w : w[i] = h[i]
  BY DEF Dropped
<1>2. Books(w) /\ Held(w) = Held(h) - 1
  <2>1. IsFiniteSet(DOMAIN w) /\ Held(w) = Held(h) - 1
    BY <1>1, FS_RemoveElement DEF Books, Held
  <2>2. w = [i \in DOMAIN w |-> w[i]]
    BY <1>1 DEF Dropped
  <2>3. \A i \in DOMAIN w : w[i] \in Positions
    BY <1>1 DEF Books
  <2> QED BY <2>1, <2>2, <2>3 DEF Books
<1>3. PICK f, g, D, E :
        /\ D = DOMAIN h /\ f = [i \in D |-> h[i].risk]
        /\ E = D \ {id} /\ g = [i \in E |-> w[i].risk]
  OBVIOUS
<1>4. RiskOf(h) = SumFunctionOnSet(f, D) /\ RiskOf(w) = SumFunctionOnSet(g, E)
  BY <1>1, <1>3 DEF RiskOf, SumFunction
<1>5. IsFiniteSet(D) /\ IsFiniteSet(E) /\ (\A i \in D : f[i] \in Nat) /\ \A i \in E : g[i] = f[i]
  BY <1>1, <1>2, <1>3 DEF Books, Positions
<1>6. SumFunctionOnSet(g, E) = SumFunctionOnSet(f, E)
  BY <1>5, SumAgrees
<1>7. SumFunctionOnSet(f, D) = f[id] + SumFunctionOnSet(f, E) /\ SumFunctionOnSet(f, E) \in Nat
      /\ f[id] \in Nat
  BY <1>3, <1>5, SumOfNaturals
<1> QED BY <1>1, <1>2, <1>4, <1>6, <1>7

LEMMA BookWith ==
    ASSUME NEW h, Books(h), NEW id, id \notin DOMAIN h, NEW one \in Positions,
           NEW w, DOMAIN w = DOMAIN h \cup {id}, w = [i \in DOMAIN w |-> w[i]], w[id] = one,
           \A i \in DOMAIN h : w[i] = h[i]
    PROVE  Books(w) /\ Held(w) = Held(h) + 1 /\ RiskOf(w) = RiskOf(h) + one.risk
<1>1. Books(w) /\ Held(w) = Held(h) + 1
  BY FS_AddElement DEF Books, Held
<1>2. PICK f, g, D, E :
        /\ D = DOMAIN h /\ f = [i \in D |-> h[i].risk]
        /\ E = D \cup {id} /\ g = [i \in E |-> w[i].risk]
  OBVIOUS
<1>3. RiskOf(h) = SumFunctionOnSet(f, D) /\ RiskOf(w) = SumFunctionOnSet(g, E)
  BY <1>2 DEF RiskOf, SumFunction
<1>4. /\ IsFiniteSet(D) /\ IsFiniteSet(E) /\ (\A i \in E : g[i] \in Int)
      /\ \A i \in D : f[i] = g[i]
      /\ E \ {id} = D /\ id \in E /\ g[id] = one.risk
  <2>1. IsFiniteSet(D) /\ IsFiniteSet(E) /\ E = DOMAIN w
    BY <1>1, <1>2 DEF Books
  <2>2. \A i \in E : g[i] = w[i].risk /\ w[i] \in Positions
    BY <1>1, <1>2, <2>1 DEF Books
  <2>3. \A i \in E : g[i] \in Int
    BY <2>2 DEF Positions
  <2>4. \A i \in D : f[i] = g[i]
    BY <1>2
  <2>5. E \ {id} = D /\ id \in E /\ g[id] = one.risk
    BY <1>2
  <2> QED BY <2>1, <2>3, <2>4, <2>5
<1>5. SumFunctionOnSet(f, D) = SumFunctionOnSet(g, D)
  BY <1>4, SumAgrees
<1>6. SumFunctionOnSet(g, E) = g[id] + SumFunctionOnSet(g, D)
      /\ SumFunctionOnSet(g, D) \in Int
  <2>1. SumFunctionOnSet(g, E) = g[id] + SumFunctionOnSet(g, E \ {id})
        /\ SumFunctionOnSet(g, E \ {id}) \in Int
    BY <1>4, SumRemove
  <2> QED BY <1>4, <2>1
<1>7. RiskOf(w) = RiskOf(h) + one.risk
  <2>1. one.risk \in Int
    BY DEF Positions
  <2> QED BY <1>3, <1>4, <1>5, <1>6, <2>1
<1> QED BY <1>1, <1>7

\* _maybe_roll_daily_unlocked, close_position
LEMMA RolledIs ==
    ASSUME NEW a, NEW h, Accounted(a, h), today \in Nat, NEW b, b = Rolled(a, h)
    PROVE  /\ Accounted(b, h) /\ b.startDay = today
           /\ b.balance = a.balance /\ b.peak = a.peak /\ b.lossStreak = a.lossStreak
           /\ a.startDay = today => b = a
           /\ a.startDay # today => b.trades = 0
<1>1. Equity(a, h) \in Int
  BY BookSums DEF Accounted, Accounts, Equity
<1>2. b \in Accounts
  BY <1>1 DEF Accounted, Accounts, Rolled
<1> QED BY <1>1, <1>2 DEF Accounted, Accounts, Rolled

LEMMA RealizedIs ==
    ASSUME NEW a, NEW h, Accounted(a, h), NEW pnl \in Int, NEW b, b = Realized(a, pnl)
    PROVE  /\ Accounted(b, h) /\ b.startDay = a.startDay
           /\ b.balance = a.balance + pnl /\ b.peak >= a.peak /\ b.trades = a.trades + 1
<1>1. PICK top \in Int : top = IF a.balance + pnl > a.peak THEN a.balance + pnl ELSE a.peak
  BY DEF Accounted, Accounts
<1>2. PICK c : c = [a EXCEPT !.balance = a.balance + pnl, !.trades = a.trades + 1, !.peak = top]
  OBVIOUS
<1>3. /\ c \in Accounts /\ c.startDay = a.startDay /\ c.balance = a.balance + pnl
      /\ c.peak = top /\ c.trades = a.trades + 1
  <2>1. PICK balance \in Int : balance = a.balance + pnl
    BY DEF Accounted, Accounts
  <2>2. PICK trades \in Nat : trades = a.trades + 1
    BY DEF Accounted, Accounts
  <2>3. c = [a EXCEPT !.balance = balance, !.trades = trades, !.peak = top]
    BY <1>2, <2>1, <2>2
  <2>4. a \in Accounts
    BY DEF Accounted
  <2>5. c \in Accounts
    BY <1>1, <2>1, <2>2, <2>3, <2>4 DEF Accounts
  <2>6. c.startDay = a.startDay /\ c.balance = balance /\ c.peak = top /\ c.trades = trades
    BY <2>3, <2>4 DEF Accounts
  <2> QED BY <2>1, <2>2, <2>5, <2>6
<1>4. b = IF pnl > 0
          THEN [c EXCEPT !.wins = c.wins + 1, !.winStreak = c.winStreak + 1, !.lossStreak = 0]
          ELSE [c EXCEPT !.losses = c.losses + 1, !.lossStreak = c.lossStreak + 1, !.winStreak = 0]
  BY <1>1, <1>2 DEF Realized
<1>5. /\ b \in Accounts /\ b.startDay = c.startDay /\ b.balance = c.balance /\ b.peak = c.peak
      /\ b.trades = c.trades
  <2>1. PICK wins \in Nat, losses \in Nat, winStreak \in Nat, lossStreak \in Nat :
          /\ wins = c.wins + 1 /\ winStreak = c.winStreak + 1
          /\ losses = c.losses + 1 /\ lossStreak = c.lossStreak + 1
    BY <1>3 DEF Accounts
  <2>1a. PICK none \in Nat : none = 0
    OBVIOUS
  <2>2. CASE pnl > 0
    <3>1. b = [c EXCEPT !.wins = wins, !.winStreak = winStreak, !.lossStreak = none]
      BY <1>4, <2>1, <2>1a, <2>2
    <3>2. c \in Accounts
      BY <1>3
    <3>3. b \in Accounts
      BY <2>1, <2>1a, <3>1, <3>2 DEF Accounts
    <3>4. b.startDay = c.startDay /\ b.balance = c.balance
      BY <3>1, <3>2 DEF Accounts
    <3>5. b.peak = c.peak /\ b.trades = c.trades
      BY <3>1, <3>2 DEF Accounts
    <3> QED BY <3>3, <3>4, <3>5
  <2>3. CASE ~(pnl > 0)
    <3>1. b = [c EXCEPT !.losses = losses, !.lossStreak = lossStreak, !.winStreak = none]
      BY <1>4, <2>1, <2>1a, <2>3
    <3>2. c \in Accounts
      BY <1>3
    <3>3. b \in Accounts
      BY <2>1, <2>1a, <3>1, <3>2 DEF Accounts
    <3>4. b.startDay = c.startDay /\ b.balance = c.balance
      BY <3>1, <3>2 DEF Accounts
    <3>5. b.peak = c.peak /\ b.trades = c.trades
      BY <3>1, <3>2 DEF Accounts
    <3> QED BY <3>3, <3>4, <3>5
  <2> QED BY <2>2, <2>3
<1>6. top >= a.peak /\ top >= a.balance + pnl
  BY <1>1 DEF Accounted, Accounts
<1>7. b.balance <= b.peak /\ b.peak >= Initial /\ b.startDay <= today
  BY <1>3, <1>5, <1>6 DEF Accounted, Accounts, Initial
<1> QED BY <1>3, <1>5, <1>6, <1>7 DEF Accounted

-----------------------------------------------------------------------------
(* The steps. *)

\* What a setup offers, and what a cut leaves of it.
SetupRecords == [symbol : Symbols, direction : Directions, risk : Nat, entry : Int, stop : Int,
                 target : Int, size : Int, confidence : Int,
                 regime : {"TRENDING", "RANGING"}]

LEMMA SetupsFit == \A s \in Setups : s \in SetupRecords
<1>1. Plain \in SetupRecords
  BY DEF Plain, SetupRecords, Symbols, Directions
<1>2. [Plain EXCEPT !.symbol = "ADA"] \in SetupRecords
  BY <1>1 DEF SetupRecords, Symbols
<1>3. [Plain EXCEPT !.symbol = "ETH", !.direction = "SHORT", !.risk = 1, !.stop = 11, !.target = 8]
        \in SetupRecords
  <2>1. PICK symbol \in Symbols, direction \in Directions, risk \in Nat, stop \in Int, target \in Int :
          symbol = "ETH" /\ direction = "SHORT" /\ risk = 1 /\ stop = 11 /\ target = 8
    BY DEF Symbols, Directions
  <2>2. PICK t : t = [Plain EXCEPT !.symbol = symbol, !.direction = direction, !.risk = risk]
    OBVIOUS
  <2>3. t \in SetupRecords
    BY <1>1, <2>2 DEF SetupRecords
  <2>4. [t EXCEPT !.stop = stop, !.target = target] \in SetupRecords
    BY <2>3 DEF SetupRecords
  <2> QED BY <2>1, <2>2, <2>4
<1>4. [Plain EXCEPT !.risk = 3] \in SetupRecords
  BY <1>1 DEF SetupRecords
<1>5. [Plain EXCEPT !.stop = 11] \in SetupRecords /\ [Plain EXCEPT !.stop = 7] \in SetupRecords
  BY <1>1 DEF SetupRecords
<1>6. [Plain EXCEPT !.size = 1] \in SetupRecords
  BY <1>1 DEF SetupRecords
<1>7. [Plain EXCEPT !.confidence = 60] \in SetupRecords
  BY <1>1 DEF SetupRecords
<1>8. [Plain EXCEPT !.regime = "RANGING"] \in SetupRecords
  BY <1>1 DEF SetupRecords
<1> QED BY <1>1, <1>2, <1>3, <1>4, <1>5, <1>6, <1>7, <1>8 DEF Setups

LEMMA CutFits ==
    ASSUME NEW s \in Setups, NEW h, NEW p
    PROVE  /\ Candidate(Cut(s, h, p)) /\ Cut(s, h, p).risk = s.risk /\ s.risk \in Nat
           /\ Cut(s, h, p) # NoCandidate
<1>1. s \in SetupRecords
  BY SetupsFit
<1>2. PICK size : size = (s.size * RegimeFactor(s) * CorrelationFactor(s, h, p)) \div 100
  OBVIOUS
<1>3. PICK c : c = [s EXCEPT !.size = size]
  OBVIOUS
<1>4. c = Cut(s, h, p)
  BY <1>2, <1>3 DEF Cut
<1>5. c.symbol = s.symbol /\ c.direction = s.direction /\ c.risk = s.risk
  BY <1>1, <1>3 DEF SetupRecords
<1>6. s.symbol \in Symbols /\ s.direction \in Directions /\ s.risk \in Nat
  BY <1>1 DEF SetupRecords
<1>7. c # NoCandidate
  BY <1>5, <1>6 DEF NoCandidate, Symbols
<1> QED BY <1>4, <1>5, <1>6, <1>7 DEF Candidate

LEMMA PendingIs ==
    ASSUME RiskTypes
    PROVE  IsFiniteSet(Pending) /\ Cardinality(Pending) \in Nat
           /\ Cardinality(Pending) <= Cardinality(Evaluators)
<1>1. Pending \subseteq Evaluators /\ IsFiniteSet(Evaluators)
  BY RiskNumbers DEF Pending
<1> QED BY <1>1, FS_Subset, FS_CardinalityType

\* The types of a state from those of its parts.
LEMMA TypesFrom ==
    ASSUME RiskTypes, riskPlan' = riskPlan, today' \in Nat, today' >= today,
           NEW a, a = account', NEW h, h = holdings', Accounted(a, h),
           NEW da, NEW dh, NEW df, disk' = [account |-> da, holdings |-> dh, flag |-> df],
           Accounted(da, dh),
           verdicts' = [e \in Evaluators |-> verdicts'[e]],
           \A e \in Pending' : Candidate(verdicts'[e]),
           openings' \in [ever : Nat, today : Nat], closes' \in Nat
    PROVE  RiskTypes'
<1>1. a.startDay \in Nat /\ da.startDay \in Nat /\ today \in Nat
  BY DEF Accounted, Accounts, RiskTypes
<1>2. Accounted(a, h)' /\ Accounted(account, holdings)'
  BY <1>1 DEF Accounted, Books
<1>3. disk'.account = da /\ disk'.holdings = dh /\ disk'.flag = df
  OBVIOUS
<1>4. Accounted(disk.account, disk.holdings)'
  BY <1>1, <1>3 DEF Accounted, Books
<1>5. (disk = [account |-> disk.account, holdings |-> disk.holdings, flag |-> disk.flag])'
  BY <1>3
<1>6. \A e \in Pending' : Candidate(verdicts[e])'
  BY DEF Candidate
<1> QED BY <1>2, <1>4, <1>5, <1>6 DEF RiskTypes

\* Nothing but the daily roll of the account happens to its counters.
LEMMA CountersFrom ==
    ASSUME RiskInv, riskPlan' = riskPlan, today' = today, closes' = closes,
           NEW h, Accounted(account, h), NEW a, a = account',
           a = account \/ a = Rolled(account, h)
    PROVE  CountersAreTodays'
<1>1. PICK b : b = Rolled(account, h)
  OBVIOUS
<1>2. /\ account.startDay = today => b = account
      /\ account.startDay # today => b.trades = 0
      /\ closes \in Nat /\ b.startDay = today
  BY <1>1, RolledIs DEF RiskInv, RiskTypes
<1> QED BY <1>1, <1>2 DEF RiskInv, CountersAreTodays

\* The parts of a tenant's and of the agent's book, from values.
LEMMA BooksStay ==
    ASSUME RiskInv, UNCHANGED <<riskPlan, today, account, holdings, disk, verdicts, openings, closes>>,
           flag' = flag, breakerOn' = breakerOn
    PROVE  RiskInv'
<1>1. Pending' = Pending /\ Waves' = Waves /\ IsAgent' = IsAgent
  BY DEF Pending, Waves, IsAgent
<1>2. RiskTypes'
  BY <1>1 DEF RiskInv, RiskTypes, Accounted, Books, Candidate
<1>3. TenantInv => TenantInv'
  BY <1>1 DEF TenantInv, FileIsBook, Reserved, Counted, OpenedToday, RiskOf, Held
<1>4. AgentInv => AgentInv'
  BY <1>1 DEF AgentInv, Small, Held
<1> QED BY <1>1, <1>2, <1>3, <1>4 DEF RiskInv, CountersAreTodays, FlagFollowsBreaker

\* A file written with the book.
LEMMA HoldIs ==
    ASSUME NEW a, NEW h, today \in Nat, Accounted(a, h), Hold(a, h), NEW b, b = Rolled(a, h)
    PROVE  /\ account' = b /\ holdings' = h /\ Accounted(b, h)
           /\ disk' = [account |-> b, holdings |-> h, flag |-> flag]
           /\ disk'.account = b /\ disk'.holdings = h
BY RolledIs DEF Hold, Saved

LEMMA TenantFrom ==
    ASSUME riskPlan' = riskPlan, NEW a, a = account', NEW h, h = holdings',
           NEW P, P = Pending', NEW n, n = Cardinality(P),
           DOMAIN h \subseteq 1..openings'.ever, \A i \in DOMAIN h : h[i].pnl = 0,
           disk'.holdings = h, disk'.account.balance = a.balance,
           disk'.account.peak = a.peak, disk'.account.lossStreak = a.lossStreak,
           RiskOf(h) * 100 <= Room(Waves - 1, a.peak),
           \A e \in P : verdicts'[e].risk * 100 <= 2 * a.peak,
           P # {} => \E e \in P :
             (RiskOf(h) + verdicts'[e].risk) * 100 <= Room(Waves - n, a.peak),
           n <= Waves, Held(h) + n <= MaxConcurrent + Waves - 1,
           openings'.today + n <= MaxDaily + MaxConcurrent - 1 + Waves - 1,
           openings'.today > 0 =>
             /\ a.startDay = today' /\ disk'.account.trades = a.trades
             /\ openings'.today <= a.trades + Held(h)
    PROVE  TenantInv'
<1>1. Waves' = Waves
  BY DEF Waves
<1>2. RiskOf(holdings)' = RiskOf(h) /\ Held(holdings)' = Held(h)
  BY DEF RiskOf, Held
<1>3. Cardinality(Pending)' = n
  OBVIOUS
<1>4. FileIsBook'
  BY DEF FileIsBook
<1>5. Reserved'
  <2>1. \A m : Room(m, account.peak)' = Room(m, a.peak)
    BY DEF Room
  <2>2. (RiskOf(holdings) * 100 <= Room(Waves - 1, account.peak))'
    BY <1>1, <1>2, <2>1 DEF Room
  <2>3. (\A e \in Pending : verdicts[e].risk * 100 <= 2 * account.peak)'
    OBVIOUS
  <2>4. (Pending # {} =>
           \E e \in Pending : (RiskOf(holdings) + verdicts[e].risk) * 100
                                <= Room(Waves - Cardinality(Pending), account.peak))'
    BY <1>1, <1>2, <1>3 DEF Room
  <2> QED BY <2>2, <2>3, <2>4 DEF Reserved
<1>6. Counted'
  BY <1>1, <1>2, <1>3 DEF Counted
<1>7. OpenedToday'
  BY <1>2 DEF OpenedToday
<1> QED BY <1>4, <1>5, <1>6, <1>7 DEF TenantInv

\* What the tenant's book says of the values, for use at a step.
LEMMA TenantHas ==
    ASSUME RiskInv, ~IsAgent
    PROVE  /\ TenantInv /\ UnrealizedOf(holdings) <= 0
           /\ Accounted(account, holdings) /\ Books(holdings) /\ today \in Nat
           /\ account \in Accounts /\ account.peak \in Nat
           /\ RiskOf(holdings) \in Nat /\ Held(holdings) \in Nat
           /\ \A e \in Pending : verdicts[e].risk \in Nat
           /\ openings.ever \in Nat /\ openings.today \in Nat
<1>1. RiskTypes /\ TenantInv
  BY DEF RiskInv
<1>2. Books(holdings) /\ Accounted(account, holdings) /\ account \in Accounts /\ today \in Nat
  BY <1>1 DEF RiskTypes, Accounted
<1>3. UnrealizedOf(holdings) <= 0 /\ RiskOf(holdings) \in Nat /\ Held(holdings) \in Nat
  <2>1. \A i \in DOMAIN holdings : holdings[i].pnl <= 0
    BY <1>1 DEF TenantInv
  <2> QED BY <1>2, <2>1, BookSums
<1>4. account.peak \in Nat
  BY <1>2 DEF Accounted, Accounts, Initial
<1>5. \A e \in Pending : verdicts[e].risk \in Nat
  BY <1>1 DEF RiskTypes, Candidate
<1>6. openings.ever \in Nat /\ openings.today \in Nat
  BY <1>1 DEF RiskTypes
<1> QED BY <1>1, <1>2, <1>3, <1>4, <1>5, <1>6

\* The checks of an evaluation, as bounds.
LEMMA ValidatedIs ==
    ASSUME RiskInv, ~IsAgent, NEW s \in Setups, NEW a, a = Rolled(account, holdings),
           Validates(s, a, holdings)
    PROVE  /\ s.risk \in Nat /\ s.risk * 100 <= 2 * account.peak
           /\ (RiskOf(holdings) + s.risk) * 100 <= 6 * account.peak
           /\ Held(holdings) < MaxConcurrent /\ a.trades < MaxDaily
<1>1. PICK p : p = Snapshot(a, holdings)
  OBVIOUS
<1>2. TradeRiskOk(s, p) /\ HeatOk(s, p) /\ CountOk(p) /\ DailyCountOk(p)
  BY <1>1 DEF Validates
<1>3. /\ p.equity = a.balance + UnrealizedOf(holdings) /\ p.risk = RiskOf(holdings)
      /\ p.count = Held(holdings) /\ p.trades = a.trades
  BY <1>1 DEF Snapshot, Equity, Held
<1>4. /\ a.balance = account.balance /\ account.balance \in Int /\ account.balance <= account.peak
      /\ account.peak \in Nat /\ UnrealizedOf(holdings) <= 0 /\ RiskOf(holdings) \in Nat
      /\ UnrealizedOf(holdings) \in Int
  BY TenantHas, RolledIs, BookSums DEF Accounted, Accounts
<1>5. s.risk \in Nat
  BY CutFits
<1>6. PICK equity \in Int : equity = p.equity /\ equity <= account.peak
  BY <1>3, <1>4
<1>7. s.risk * 100 <= 2 * equity /\ (RiskOf(holdings) + s.risk) * 100 <= 6 * equity
  BY <1>2, <1>3, <1>6 DEF TradeRiskOk, HeatOk
<1>8. Held(holdings) < MaxConcurrent /\ a.trades < MaxDaily
  BY <1>2, <1>3 DEF CountOk, DailyCountOk
<1> QED BY <1>4, <1>5, <1>6, <1>7, <1>8

LEMMA InvFrom ==
    ASSUME riskPlan' = riskPlan, RiskTypes', ~IsAgent => TenantInv', IsAgent => AgentInv',
           CountersAreTodays', FlagFollowsBreaker'
    PROVE  RiskInv'
BY DEF RiskInv, IsAgent

\* What a session's approval says when it is booked or given up: x is what of
\* its risk is taken into the book.
LEMMA Leaves ==
    ASSUME RiskInv, ~IsAgent, NEW e \in Pending, NEW P, P = Pending \ {e},
           NEW r, r = RiskOf(holdings), NEW x \in Nat, x <= verdicts[e].risk
    PROVE  /\ IsFiniteSet(P) /\ Cardinality(P) \in Nat
           /\ Cardinality(Pending) = Cardinality(P) + 1
           /\ (r + x) * 100 <= Room(Waves - 1, account.peak)
           /\ P # {} => \E f \in P :
                (r + x + verdicts[f].risk) * 100 <= Room(Waves - Cardinality(P), account.peak)
<1>1. PICK n \in Nat : n = Cardinality(P) /\ Cardinality(Pending) = n + 1 /\ IsFiniteSet(P)
  <2>1. IsFiniteSet(Pending)
    BY PendingIs DEF RiskInv
  <2>2. IsFiniteSet(P) /\ Cardinality(P) = Cardinality(Pending) - 1 /\ Cardinality(P) \in Nat
    BY <2>1, FS_RemoveElement, FS_CardinalityType
  <2>3. Cardinality(Pending) \in Nat
    BY <2>1, FS_CardinalityType
  <2> QED BY <2>2, <2>3
<1>2. PICK peak \in Nat : peak = account.peak
  BY TenantHas
<1>3. PICK k \in Nat : Waves = k + n + 1
  <2>1. n + 1 <= Waves /\ Waves \in Nat
    BY <1>1, TenantHas, RiskNumbers DEF TenantInv, Counted
  <2>2. n \in Nat
    BY <1>1
  <2>3. Waves - (n + 1) \in Nat /\ Waves = (Waves - (n + 1)) + n + 1
    BY <2>1, <2>2
  <2> QED BY <2>3
<1>4. r \in Nat /\ \A f \in Pending : verdicts[f].risk \in Nat /\ verdicts[f].risk * 100 <= 2 * peak
  BY <1>2, TenantHas DEF TenantInv, Reserved
<1>5. PICK room \in Int : room = Room(k, peak) /\ Room(k + 1, peak) = room + 2 * peak
  BY RoomType, RoomStep
<1>6. PICK f \in Pending : (r + verdicts[f].risk) * 100 <= room
  <2>1. Waves - Cardinality(Pending) = k
    BY <1>1, <1>3, RiskNumbers
  <2> QED BY <1>2, <1>5, <2>1, TenantHas DEF TenantInv, Reserved
<1>7. /\ Waves - 1 = k + n /\ Waves - Cardinality(P) = k + 1
  BY <1>1, <1>3
<1>7a. PICK j \in Nat : j = k + n
  OBVIOUS
<1>7b. Room(j, peak) \in Int /\ room <= Room(j, peak)
  BY <1>5, <1>7a, RoomType, RoomMore
<1>8. (r + x) * 100 <= Room(j, peak)
  <2>1. CASE f = e
    <3>1. (r + x) * 100 <= room
      BY <1>4, <1>6, <2>1
    <3> QED BY <1>4, <1>7b, <3>1
  <2>2. CASE f # e
    <3>1. n >= 1
      <4>1. f \in P
        BY <2>2
      <4>2. Cardinality(P) # 0
        BY <1>1, <4>1, FS_EmptySet
      <4> QED BY <1>1, <4>2
    <3>2. (r + x) * 100 <= room + 2 * peak
      BY <1>4, <1>6
    <3>3. Room(k + 1, peak) <= Room(j, peak)
      BY <1>7a, <3>1, RoomMore
    <3> QED BY <1>4, <1>5, <1>7b, <3>2, <3>3
  <2> QED BY <2>1, <2>2
<1>9. ASSUME P # {}
      PROVE  \E g \in P : (r + x + verdicts[g].risk) * 100 <= room + 2 * peak
  <2>1. CASE f = e
    <3>1. PICK g \in P : TRUE
      BY <1>9
    <3>2. (r + x + verdicts[g].risk) * 100 <= room + 2 * peak
      BY <1>4, <1>6, <2>1, <3>1
    <3> QED BY <3>2
  <2>2. CASE f # e
    <3>1. f \in P
      BY <2>2
    <3>2. (r + x + verdicts[f].risk) * 100 <= room + 2 * peak
      BY <1>4, <1>6
    <3> QED BY <3>1, <3>2
  <2> QED BY <2>1, <2>2
<1> QED BY <1>1, <1>2, <1>5, <1>7, <1>7a, <1>8, <1>9

LEMMA EvaluateKeeps ==
    ASSUME RiskInv, NEW e \in Evaluators, NEW s \in Setups, Evaluate(e, s)
    PROVE  RiskInv'
<1>1. PICK a : a = Rolled(account, holdings)
  OBVIOUS
<1>2. /\ ~IsAgent /\ verdicts[e] = NoCandidate /\ account' = a
      /\ "concurrent" \in riskPlan \/ Pending = {}
      /\ UNCHANGED <<riskPlan, today, holdings, disk, flag, breakerOn, openings, closes>>
  BY <1>1 DEF Evaluate, Pending
<1>3. PICK c : c = Cut(s, holdings, Snapshot(a, holdings))
  OBVIOUS
<1>4. verdicts' = IF Validates(s, a, holdings) THEN [verdicts EXCEPT ![e] = c] ELSE verdicts
  BY <1>1, <1>3 DEF Evaluate
<1>5. Candidate(c) /\ c.risk = s.risk /\ s.risk \in Nat /\ c # NoCandidate
  BY <1>3, CutFits
<1>6. RiskTypes /\ Accounted(account, holdings) /\ today \in Nat
  BY DEF RiskInv, RiskTypes
<1>7. /\ Accounted(a, holdings) /\ a.startDay = today
      /\ a.balance = account.balance /\ a.peak = account.peak /\ a.lossStreak = account.lossStreak
      /\ account.startDay = today => a = account
  BY <1>1, <1>6, RolledIs
<1>8. /\ DOMAIN verdicts' = Evaluators
      /\ \A f \in Evaluators : f # e => verdicts'[f] = verdicts[f]
      /\ Validates(s, a, holdings) => verdicts'[e] = c
      /\ ~Validates(s, a, holdings) => verdicts' = verdicts
      /\ verdicts' = [f \in Evaluators |-> verdicts'[f]]
  BY <1>4, <1>6 DEF RiskTypes
<1>9. /\ Validates(s, a, holdings) => Pending' = Pending \cup {e}
      /\ ~Validates(s, a, holdings) => Pending' = Pending
      /\ e \notin Pending
  BY <1>2, <1>5, <1>8 DEF Pending
<1>10. RiskTypes'
  <2>1. ASSUME NEW f \in Pending' PROVE Candidate(verdicts'[f])
    <3>1. CASE Validates(s, a, holdings) /\ f = e
      BY <1>5, <1>8, <3>1
    <3>2. CASE ~(Validates(s, a, holdings) /\ f = e)
      <4>1. f \in Pending /\ f \in Evaluators
        BY <1>9, <3>2 DEF Pending
      <4>2. verdicts'[f] = verdicts[f]
        BY <1>8, <1>9, <3>2, <4>1
      <4> QED BY <1>6, <4>1, <4>2 DEF RiskTypes
    <3> QED BY <3>1, <3>2
  <2>2. PICK da, dh, df : disk' = [account |-> da, holdings |-> dh, flag |-> df]
          /\ Accounted(da, dh)
    BY <1>2, <1>6 DEF RiskTypes
  <2> QED BY <1>2, <1>6, <1>7, <1>8, <2>1, <2>2, TypesFrom DEF RiskTypes
<1>11. PICK n \in Nat, w \in Nat, held \in Nat, opened \in Nat, peak \in Nat, r \in Nat :
         /\ n = Cardinality(Pending) /\ w = Waves /\ held = Held(holdings) /\ w > 0
         /\ opened = openings.today /\ peak = account.peak /\ r = RiskOf(holdings)
  BY <1>2, <1>6, TenantHas, PendingIs, RiskNumbers
<1>12. /\ DOMAIN holdings \subseteq 1..openings.ever /\ \A i \in DOMAIN holdings : holdings[i].pnl = 0
       /\ FileIsBook /\ Reserved /\ Counted /\ OpenedToday
  BY <1>2, TenantHas DEF TenantInv
<1>13. opened > 0 =>
         /\ a.startDay = today /\ disk'.account.trades = a.trades
         /\ opened <= a.trades + held
  BY <1>2, <1>7, <1>11, <1>12 DEF OpenedToday
<1>14. /\ disk'.holdings = holdings /\ disk'.account.balance = a.balance
       /\ disk'.account.peak = a.peak /\ disk'.account.lossStreak = a.lossStreak
  BY <1>2, <1>7, <1>12 DEF FileIsBook
<1>15. CASE ~Validates(s, a, holdings)
  <2>1. TenantInv'
    BY <1>2, <1>7, <1>8, <1>9, <1>11, <1>12, <1>13, <1>14, <1>15, TenantFrom
       DEF Reserved, Counted
  <2> QED BY <1>1, <1>2, <1>6, <1>10, <2>1, InvFrom, CountersFrom DEF RiskInv, FlagFollowsBreaker
<1>16. CASE Validates(s, a, holdings)
  <2>1. /\ s.risk * 100 <= 2 * peak /\ (r + s.risk) * 100 <= 6 * peak
        /\ held < MaxConcurrent /\ a.trades < MaxDaily
    BY <1>1, <1>2, <1>11, <1>16, ValidatedIs
  <2>1a. PICK P : P = Pending'
    OBVIOUS
  <2>1b. PICK m \in Nat : m = n + 1
    OBVIOUS
  <2>2. m = Cardinality(P) /\ m = n + 1
    <3>1. IsFiniteSet(Pending)
      BY <1>6, PendingIs
    <3>2. Cardinality(Pending \cup {e}) = n + 1
      BY <1>9, <1>11, <3>1, FS_AddElement
    <3> QED BY <1>9, <1>16, <2>1a, <2>1b, <3>2
  <2>3. m <= w
    <3>1. CASE "concurrent" \in riskPlan
      <4>1. w = Cardinality(Evaluators)
        BY <1>11, <3>1 DEF Waves
      <4>2. P \subseteq Evaluators /\ IsFiniteSet(Evaluators)
        BY <1>9, <1>16, <2>1a, RiskNumbers DEF Pending
      <4> QED BY <2>2, <4>1, <4>2, FS_Subset
    <3>2. CASE Pending = {}
      BY <1>11, <2>2, <3>2, FS_EmptySet
    <3> QED BY <1>2, <3>1, <3>2
  <2>4. held + m <= MaxConcurrent + w - 1
    BY <2>1, <2>3, RiskNumbers
  <2>5. opened + m <= MaxDaily + MaxConcurrent - 1 + w - 1
    <3>1. a.trades \in Nat
      BY <1>7 DEF Accounted, Accounts
    <3> QED BY <1>13, <2>1, <2>3, <3>1, RiskNumbers
  <2>6. (r + c.risk) * 100 <= Room(w - m, peak)
    <3>1. PICK k \in Nat, none \in Nat : k = w - m /\ none = 0
      BY <2>3
    <3>2. Room(none, peak) <= Room(k, peak) /\ Room(k, peak) \in Int
      BY <3>1, RoomMore, RoomType
    <3>3. Room(none, peak) = 6 * peak
      BY <3>1 DEF Room
    <3> QED BY <1>5, <2>1, <3>1, <3>2, <3>3
  <2>7. \A f \in P : verdicts'[f].risk * 100 <= 2 * peak
    <3>1. \A f \in Pending : verdicts[f].risk * 100 <= 2 * peak
      BY <1>11, <1>12 DEF Reserved
    <3>2. ASSUME NEW f \in P PROVE verdicts'[f].risk * 100 <= 2 * peak
      <4>1. CASE f = e
        BY <1>5, <1>8, <1>16, <2>1, <4>1
      <4>2. CASE f # e
        <5>1. f \in Pending
          BY <1>9, <1>16, <2>1a, <4>2
        <5>2. verdicts'[f] = verdicts[f]
          BY <1>8, <4>2, <5>1 DEF Pending
        <5> QED BY <3>1, <5>1, <5>2
      <4> QED BY <4>1, <4>2
    <3> QED BY <3>2
  <2>8. e \in P /\ verdicts'[e] = c
    BY <1>8, <1>9, <1>16, <2>1a
  <2>9. P # {} => \E f \in P : (RiskOf(holdings) + verdicts'[f].risk) * 100 <= Room(Waves - m, a.peak)
    BY <1>7, <1>11, <2>6, <2>8
  <2>10. RiskOf(holdings) * 100 <= Room(Waves - 1, a.peak)
    BY <1>7, <1>12 DEF Reserved
  <2>11. /\ m <= Waves /\ Held(holdings) + m <= MaxConcurrent + Waves - 1
         /\ openings'.today + m <= MaxDaily + MaxConcurrent - 1 + Waves - 1
    BY <1>2, <1>11, <2>3, <2>4, <2>5
  <2>12. openings'.today > 0 =>
           /\ a.startDay = today' /\ disk'.account.trades = a.trades
           /\ openings'.today <= a.trades + Held(holdings)
    BY <1>2, <1>11, <1>13
  <2>13. \A f \in P : verdicts'[f].risk * 100 <= 2 * a.peak
    BY <1>7, <1>11, <2>7
  <2>14. PICK h : h = holdings'
    OBVIOUS
  <2>15. h = holdings /\ DOMAIN h \subseteq 1..openings'.ever /\ \A i \in DOMAIN h : h[i].pnl = 0
    BY <1>2, <1>12, <2>14
  <2>16. TenantInv'
    BY <1>2, <1>14, <2>1a, <2>2, <2>9, <2>10, <2>11, <2>12, <2>13, <2>14, <2>15, TenantFrom
  <2> QED BY <1>1, <1>2, <1>6, <1>10, <2>16, InvFrom, CountersFrom DEF RiskInv, FlagFollowsBreaker
<1> QED BY <1>15, <1>16

\* After a verdict is gone.
LEMMA VerdictGone ==
    ASSUME RiskTypes, NEW e \in Evaluators, verdicts' = [verdicts EXCEPT ![e] = NoCandidate]
    PROVE  /\ Pending' = Pending \ {e} /\ verdicts' = [f \in Evaluators |-> verdicts'[f]]
           /\ \A f \in Pending \ {e} : verdicts'[f] = verdicts[f] /\ Candidate(verdicts'[f])
<1>1. /\ DOMAIN verdicts' = Evaluators /\ verdicts'[e] = NoCandidate
      /\ \A f \in Evaluators : f # e => verdicts'[f] = verdicts[f]
      /\ verdicts' = [f \in Evaluators |-> verdicts'[f]]
  BY DEF RiskTypes
<1>2. Pending' = Pending \ {e}
  BY <1>1 DEF Pending
<1>3. ASSUME NEW f \in Pending \ {e} PROVE verdicts'[f] = verdicts[f] /\ Candidate(verdicts'[f])
  <2>1. f \in Pending /\ f \in Evaluators /\ f # e
    BY DEF Pending
  <2>2. verdicts'[f] = verdicts[f]
    BY <1>1, <2>1
  <2> QED BY <2>1, <2>2 DEF RiskTypes
<1> QED BY <1>1, <1>2, <1>3

LEMMA AbandonKeeps ==
    ASSUME RiskInv, NEW e \in Evaluators, Abandon(e)
    PROVE  RiskInv'
<1>1. /\ e \in Pending /\ verdicts' = [verdicts EXCEPT ![e] = NoCandidate]
      /\ UNCHANGED <<riskPlan, today, account, holdings, disk, flag, breakerOn, openings, closes>>
  BY DEF Abandon, Pending
<1>2. ~IsAgent /\ RiskTypes /\ Accounted(account, holdings)
  BY <1>1 DEF RiskInv, AgentInv, RiskTypes
<1>3. PICK P : P = Pending \ {e}
  OBVIOUS
<1>4. /\ P = Pending' /\ verdicts' = [f \in Evaluators |-> verdicts'[f]]
      /\ \A f \in P : verdicts'[f] = verdicts[f] /\ Candidate(verdicts'[f])
  BY <1>1, <1>2, <1>3, VerdictGone
<1>5. RiskTypes'
  <2>1. PICK da, dh, df : disk' = [account |-> da, holdings |-> dh, flag |-> df]
          /\ Accounted(da, dh)
    BY <1>1, <1>2 DEF RiskTypes
  <2>2. \A f \in Pending' : Candidate(verdicts'[f])
    BY <1>4
  <2> QED BY <1>1, <1>2, <1>4, <2>1, <2>2, TypesFrom DEF RiskTypes
<1>6. PICK none \in Nat : none = 0
  OBVIOUS
<1>7. TenantInv /\ \A f \in Pending : verdicts[f].risk \in Nat
  BY <1>2, TenantHas
<1>8. PICK r \in Nat, peak \in Nat : r = RiskOf(holdings) /\ peak = account.peak
  BY <1>2, TenantHas
<1>9. PICK n \in Nat : n = Cardinality(P)
  BY <1>1, <1>2, <1>3, <1>6, <1>7, <1>8, Leaves
<1>10. /\ Cardinality(Pending) = n + 1
       /\ P # {} => \E f \in P : (r + none + verdicts[f].risk) * 100 <= Room(Waves - n, peak)
  BY <1>1, <1>2, <1>3, <1>6, <1>7, <1>8, <1>9, Leaves
<1>11. P # {} => \E f \in P : (RiskOf(holdings) + verdicts'[f].risk) * 100 <= Room(Waves - n, account.peak)
  <2> SUFFICES ASSUME P # {}
               PROVE  \E f \in P : (r + verdicts'[f].risk) * 100 <= Room(Waves - n, peak)
    BY <1>8
  <2>1. PICK f \in P : (r + none + verdicts[f].risk) * 100 <= Room(Waves - n, peak)
    BY <1>10
  <2>2. verdicts'[f] = verdicts[f] /\ verdicts[f].risk \in Nat
    BY <1>3, <1>4, <1>7
  <2>3. (r + verdicts'[f].risk) * 100 <= Room(Waves - n, peak)
    BY <1>6, <2>1, <2>2
  <2> QED BY <2>3
<1>12. \A f \in P : verdicts'[f].risk * 100 <= 2 * account.peak
  BY <1>3, <1>4, <1>7 DEF TenantInv, Reserved
<1>13. /\ n <= Waves /\ Held(holdings) + n <= MaxConcurrent + Waves - 1
       /\ openings.today + n <= MaxDaily + MaxConcurrent - 1 + Waves - 1
  <2>1. /\ n + 1 <= Waves /\ Held(holdings) + (n + 1) <= MaxConcurrent + Waves - 1
        /\ openings.today + (n + 1) <= MaxDaily + MaxConcurrent - 1 + Waves - 1
    BY <1>7, <1>10 DEF TenantInv, Counted
  <2> QED BY <1>2, <2>1, TenantHas, RiskNumbers
<1>14. /\ DOMAIN holdings \subseteq 1..openings.ever /\ \A i \in DOMAIN holdings : holdings[i].pnl = 0
       /\ disk.holdings = holdings /\ disk.account.balance = account.balance
       /\ disk.account.peak = account.peak /\ disk.account.lossStreak = account.lossStreak
       /\ RiskOf(holdings) * 100 <= Room(Waves - 1, account.peak) /\ OpenedToday
  BY <1>7 DEF TenantInv, FileIsBook, Reserved
<1>15. TenantInv'
  <2>1. PICK a, h, d, o : a = account' /\ h = holdings' /\ d = disk' /\ o = openings'
    OBVIOUS
  <2>2. a = account /\ h = holdings /\ d = disk /\ o = openings
    BY <1>1, <2>1
  <2>3. openings'.today > 0 =>
          /\ a.startDay = today' /\ disk'.account.trades = a.trades
          /\ openings'.today <= a.trades + Held(h)
    BY <1>1, <1>14, <2>1, <2>2 DEF OpenedToday
  <2> QED BY <1>1, <1>4, <1>9, <1>11, <1>12, <1>13, <1>14, <2>1, <2>2, <2>3, TenantFrom
<1> QED BY <1>1, <1>2, <1>5, <1>15, InvFrom, CountersFrom DEF RiskInv, FlagFollowsBreaker

LEMMA BookKeeps ==
    ASSUME RiskInv, NEW e \in Evaluators, Book(e)
    PROVE  /\ RiskInv' /\ ~IsAgent /\ account'.peak = account.peak
<1>1. /\ e \in Pending /\ verdicts' = [verdicts EXCEPT ![e] = NoCandidate]
      /\ openings' = [ever |-> openings.ever + 1, today |-> openings.today + 1]
      /\ UNCHANGED <<riskPlan, today, flag, breakerOn, closes>>
  BY DEF Book, Pending
<1>2. ~IsAgent /\ RiskTypes /\ Accounted(account, holdings) /\ today \in Nat
  BY <1>1 DEF RiskInv, AgentInv, RiskTypes
<1>3. PICK P : P = Pending \ {e}
  OBVIOUS
<1>4. /\ P = Pending' /\ verdicts' = [f \in Evaluators |-> verdicts'[f]]
      /\ \A f \in P : verdicts'[f] = verdicts[f] /\ Candidate(verdicts'[f])
  BY <1>1, <1>2, <1>3, VerdictGone
<1>5. TenantInv /\ \A f \in Pending : verdicts[f].risk \in Nat
  BY <1>2, TenantHas
<1>6a. PICK ever \in Nat : ever = openings.ever
  BY <1>2, TenantHas
<1>6b. PICK id \in Nat : id = ever + 1
  OBVIOUS
<1>6c. PICK r \in Nat, peak \in Nat, x \in Nat, opened \in Nat, held \in Nat :
        /\ r = RiskOf(holdings) /\ peak = account.peak /\ x = verdicts[e].risk
        /\ opened = openings.today /\ held = Held(holdings)
  BY <1>1, <1>2, TenantHas
<1>6. /\ r = RiskOf(holdings) /\ peak = account.peak /\ x = verdicts[e].risk
      /\ opened = openings.today /\ held = Held(holdings) /\ id = openings.ever + 1
  BY <1>6a, <1>6b, <1>6c
<1>7a. PICK none \in Int : none = 0
  OBVIOUS
<1>7b. PICK yes \in BOOLEAN : yes = TRUE
  BY Zenon
<1>7. none = 0 /\ yes = TRUE
  BY <1>7a, <1>7b
<1>8. PICK one : one = [symbol |-> verdicts[e].symbol, direction |-> verdicts[e].direction,
                        risk |-> x, pnl |-> none, stop |-> yes]
  OBVIOUS
<1>9. one \in Positions /\ one.risk = x /\ one.pnl = 0
  <2>1. verdicts[e].symbol \in Symbols /\ verdicts[e].direction \in Directions
    BY <1>1, <1>2 DEF RiskTypes, Candidate
  <2> QED BY <1>7, <1>8, <2>1 DEF Positions
<1>10. PICK h : h = [i \in DOMAIN holdings \cup {id} |-> IF i = id THEN one ELSE holdings[i]]
  OBVIOUS
<1>11. Hold(account, h)
  BY <1>6, <1>7, <1>8, <1>10 DEF Book
<1>12. DOMAIN holdings \subseteq 1..openings.ever /\ openings.ever \in Nat /\ id \notin DOMAIN holdings
  <2>1. DOMAIN holdings \subseteq 1..openings.ever /\ openings.ever \in Nat
    BY <1>2, <1>5, TenantHas DEF TenantInv
  <2> QED BY <1>6, <2>1
<1>13. /\ DOMAIN h = DOMAIN holdings \cup {id} /\ h = [i \in DOMAIN h |-> h[i]]
       /\ h[id] = one /\ \A i \in DOMAIN holdings : h[i] = holdings[i]
  BY <1>10, <1>12
<1>14. Books(h) /\ Held(h) = held + 1 /\ RiskOf(h) = r + x
  <2>1. Books(holdings)
    BY <1>2 DEF Accounted
  <2>2. Books(h) /\ Held(h) = Held(holdings) + 1 /\ RiskOf(h) = RiskOf(holdings) + one.risk
    BY <1>9, <1>12, <1>13, <2>1, BookWith
  <2> QED BY <1>6, <1>9, <2>2
<1>15. Accounted(account, h)
  BY <1>2, <1>14 DEF Accounted
<1>16. PICK b : b = Rolled(account, h)
  OBVIOUS
<1>17. /\ account' = b /\ holdings' = h /\ Accounted(b, h)
       /\ disk' = [account |-> b, holdings |-> h, flag |-> flag]
       /\ disk'.account = b /\ disk'.holdings = h
  BY <1>2, <1>11, <1>15, <1>16, HoldIs
<1>18. /\ b.startDay = today /\ b.peak = peak /\ b.trades \in Nat
       /\ account.startDay = today => b = account
  BY <1>2, <1>6, <1>15, <1>16, RolledIs DEF Accounted, Accounts
<1>19. RiskTypes'
  <2>1. \A f \in Pending' : Candidate(verdicts'[f])
    BY <1>4
  <2>2. openings' \in [ever : Nat, today : Nat]
    BY <1>1, <1>2, TenantHas
  <2>3. closes' \in Nat
    BY <1>1, <1>2 DEF RiskTypes
  <2>4. riskPlan' = riskPlan /\ today' \in Nat /\ today' >= today
    BY <1>1, <1>2
  <2>5. PICK a, w, df : a = account' /\ w = holdings' /\ df = flag
    OBVIOUS
  <2>6. Accounted(a, w) /\ disk' = [account |-> a, holdings |-> w, flag |-> df]
    BY <1>17, <2>5
  <2>7. verdicts' = [f \in Evaluators |-> verdicts'[f]]
    BY <1>4
  <2> QED BY <1>2, <2>1, <2>2, <2>3, <2>4, <2>5, <2>6, <2>7, TypesFrom
<1>20. PICK n \in Nat : n = Cardinality(P)
  BY <1>1, <1>2, <1>3, <1>6, Leaves
<1>21. /\ Cardinality(Pending) = n + 1
       /\ (r + x) * 100 <= Room(Waves - 1, peak)
       /\ P # {} => \E f \in P : (r + x + verdicts[f].risk) * 100 <= Room(Waves - n, peak)
  BY <1>1, <1>2, <1>3, <1>6, <1>20, Leaves
<1>22. P # {} => \E f \in P : (RiskOf(h) + verdicts'[f].risk) * 100 <= Room(Waves - n, b.peak)
  BY <1>4, <1>14, <1>18, <1>21
<1>23. \A f \in P : verdicts'[f].risk * 100 <= 2 * b.peak
  BY <1>3, <1>4, <1>5, <1>6, <1>18 DEF TenantInv, Reserved
<1>24. /\ n <= Waves /\ Held(h) + n <= MaxConcurrent + Waves - 1
       /\ openings'.today + n <= MaxDaily + MaxConcurrent - 1 + Waves - 1
  <2>1. /\ n + 1 <= Waves /\ held + (n + 1) <= MaxConcurrent + Waves - 1
        /\ opened + (n + 1) <= MaxDaily + MaxConcurrent - 1 + Waves - 1
    BY <1>5, <1>6, <1>21 DEF TenantInv, Counted
  <2>2. openings'.today = opened + 1
    BY <1>1, <1>6
  <2> QED BY <1>14, <2>1, <2>2, RiskNumbers
<1>25. openings'.today > 0 =>
         /\ b.startDay = today' /\ disk'.account.trades = b.trades
         /\ openings'.today <= b.trades + Held(h)
  <2>1. opened > 0 => account.startDay = today /\ opened <= account.trades + held
    BY <1>5, <1>6 DEF TenantInv, OpenedToday
  <2>2. opened + 1 <= b.trades + (held + 1)
    BY <1>18, <2>1
  <2>3. openings'.today = opened + 1
    BY <1>1, <1>6
  <2> QED BY <1>1, <1>14, <1>17, <1>18, <2>2, <2>3
<1>26. DOMAIN h \subseteq 1..openings'.ever /\ \A i \in DOMAIN h : h[i].pnl = 0
  <2>1. openings'.ever = id
    BY <1>1, <1>6
  <2>2. \A i \in DOMAIN holdings : holdings[i].pnl = 0
    BY <1>5 DEF TenantInv
  <2>3. DOMAIN h \subseteq 1..id
    BY <1>6, <1>12, <1>13
  <2>4. \A i \in DOMAIN h : h[i].pnl = 0
    BY <1>9, <1>13, <2>2
  <2> QED BY <2>1, <2>3, <2>4
<1>27. RiskOf(h) * 100 <= Room(Waves - 1, b.peak)
  BY <1>14, <1>18, <1>21
<1>28. TenantInv'
  BY <1>1, <1>4, <1>17, <1>20, <1>22, <1>23, <1>24, <1>25, <1>26, <1>27, TenantFrom
<1>29. CountersAreTodays'
  BY <1>1, <1>15, <1>16, <1>17, CountersFrom
<1> QED BY <1>1, <1>2, <1>6, <1>17, <1>18, <1>19, <1>28, <1>29, InvFrom DEF RiskInv, FlagFollowsBreaker

LEMMA AgentFrom ==
    ASSUME Pending' = {}, openings'.today = 0, NEW v, v = openings'.ever, v = 0 \/ v = MaxOpens,
           NEW a, a = account', NEW h, h = holdings', Small(a, h, v),
           NEW da, da = disk'.account, NEW dh, dh = disk'.holdings, Small(da, dh, v)
    PROVE  AgentInv'
BY DEF AgentInv, Small, Held

LEMMA AgentHas ==
    ASSUME RiskInv, IsAgent
    PROVE  /\ Pending = {} /\ openings.today = 0 /\ (openings.ever = 0 \/ openings.ever = MaxOpens)
           /\ Small(account, holdings, openings.ever)
           /\ Small(disk.account, disk.holdings, openings.ever)
           /\ Accounted(account, holdings) /\ Books(holdings) /\ today \in Nat
           /\ Held(holdings) \in Nat
           /\ openings \in [ever : Nat, today : Nat]
<1>1. Accounted(account, holdings) /\ Books(holdings) /\ today \in Nat
  BY DEF RiskInv, RiskTypes, Accounted
<1>2. Held(holdings) \in Nat
  BY <1>1, BookSums
<1> QED BY <1>1, <1>2 DEF RiskInv, RiskTypes, AgentInv

\* Verdicts as they were: so are the sessions that will book.
LEMMA VerdictsStay ==
    ASSUME RiskTypes, verdicts' = verdicts
    PROVE  /\ Pending' = Pending /\ verdicts' = [f \in Evaluators |-> verdicts'[f]]
           /\ \A f \in Pending' : Candidate(verdicts'[f])
<1>1. Pending' = Pending
  BY DEF Pending
<1>2. \A f \in Pending : Candidate(verdicts[f])
  BY DEF RiskTypes
<1>3. verdicts = [f \in Evaluators |-> verdicts[f]]
  BY DEF RiskTypes
<1> QED BY <1>1, <1>2, <1>3

LEMMA CloseKeeps ==
    ASSUME RiskInv, NEW id \in DOMAIN holdings, NEW pnl \in Int, pnl <= 2, ClosePosition(id, pnl)
    PROVE  RiskInv'
<1>1. UNCHANGED <<riskPlan, today, verdicts, flag, breakerOn, openings>> /\ closes' = closes + 1
  BY DEF ClosePosition
<1>2. RiskTypes /\ Accounted(account, holdings) /\ Books(holdings) /\ today \in Nat
  BY DEF RiskInv, RiskTypes, Accounted
<1>3. PICK w : w = Dropped(holdings, id)
  OBVIOUS
<1>4. /\ Books(w) /\ DOMAIN w = DOMAIN holdings \ {id}
      /\ \A i \in DOMAIN w : w[i] = holdings[i]
      /\ Held(w) = Held(holdings) - 1 /\ RiskOf(w) <= RiskOf(holdings)
  <2>1. PICK h : h = holdings
    OBVIOUS
  <2>2. Books(h) /\ id \in DOMAIN h /\ w = Dropped(h, id)
    BY <1>2, <1>3, <2>1
  <2>3. /\ Books(w) /\ DOMAIN w = DOMAIN h \ {id} /\ \A i \in DOMAIN w : w[i] = h[i]
        /\ Held(w) = Held(h) - 1 /\ RiskOf(w) <= RiskOf(h)
    BY <2>2, BookWithout
  <2> QED BY <2>1, <2>3
<1>5. PICK c : c = Realized(account, pnl)
  OBVIOUS
<1>6. /\ Accounted(c, holdings) /\ c.startDay = account.startDay
      /\ c.balance = account.balance + pnl /\ c.peak >= account.peak
      /\ c.trades = account.trades + 1
  BY <1>2, <1>5, RealizedIs
<1>7. Accounted(c, w)
  BY <1>4, <1>6 DEF Accounted
<1>8. PICK b : b = Rolled(c, w)
  OBVIOUS
<1>9. Hold(c, w)
  BY <1>3, <1>5 DEF ClosePosition
<1>10. /\ account' = b /\ holdings' = w /\ Accounted(b, w)
       /\ disk' = [account |-> b, holdings |-> w, flag |-> flag]
       /\ disk'.account = b /\ disk'.holdings = w
  BY <1>2, <1>7, <1>8, <1>9, HoldIs
<1>11. /\ b.startDay = today /\ b.balance = c.balance /\ b.peak = c.peak
       /\ c.startDay = today => b = c
       /\ c.startDay # today => b.trades = 0
  BY <1>2, <1>7, <1>8, RolledIs
<1>12. /\ Pending' = Pending /\ verdicts' = [f \in Evaluators |-> verdicts'[f]]
       /\ \A f \in Pending' : Candidate(verdicts'[f])
  BY <1>1, <1>2, VerdictsStay
<1>13. RiskTypes'
  <2>1. /\ openings' \in [ever : Nat, today : Nat]
        /\ closes' \in Nat
    BY <1>1, <1>2 DEF RiskTypes
  <2>2. riskPlan' = riskPlan /\ today' \in Nat /\ today' >= today
    BY <1>1, <1>2
  <2>3. PICK a, v, df : a = account' /\ v = holdings' /\ df = flag
    OBVIOUS
  <2>4. Accounted(a, v) /\ disk' = [account |-> a, holdings |-> v, flag |-> df]
    BY <1>10, <2>3
  <2> QED BY <1>2, <1>12, <2>1, <2>2, <2>3, <2>4, TypesFrom
<1>14. CountersAreTodays'
  <2>1. account.trades \in Nat /\ closes \in Nat /\ CountersAreTodays
    BY <1>2 DEF RiskTypes, Accounted, Accounts, RiskInv
  <2>2. "crash" \notin riskPlan => b.trades <= closes + 1
    BY <1>6, <1>11, <2>1 DEF CountersAreTodays
  <2> QED BY <1>1, <1>10, <2>2 DEF CountersAreTodays
<1>15. CASE ~IsAgent
  <2>1. TenantInv /\ \A f \in Pending : verdicts[f].risk \in Nat
    BY <1>15, TenantHas
  <2>2. PICK r \in Nat, peak \in Nat, opened \in Nat, held \in Nat :
          /\ r = RiskOf(holdings) /\ peak = account.peak
          /\ opened = openings.today /\ held = Held(holdings)
    BY <1>15, TenantHas
  <2>3. PICK q \in Nat, top \in Nat : q = RiskOf(w) /\ top = b.peak /\ q <= r /\ peak <= top
    <3>1. RiskOf(w) \in Nat
      BY <1>4, BookSums
    <3>2. b.peak \in Nat
      BY <1>10 DEF Accounted, Accounts, Initial
    <3> QED BY <1>4, <1>6, <1>11, <2>2, <3>1, <3>2
  <2>4. PICK n \in Nat : n = Cardinality(Pending)
    BY <1>2, PendingIs
  <2>5. n <= Waves /\ Waves \in Nat \ {0}
    BY <2>1, <2>4, RiskNumbers DEF TenantInv, Counted
  <2>6. q * 100 <= Room(Waves - 1, top)
    <3>1. r * 100 <= Room(Waves - 1, peak)
      BY <2>1, <2>2 DEF TenantInv, Reserved
    <3>2. PICK k \in Nat : k = Waves - 1
      BY <2>5
    <3>3. Room(k, peak) <= Room(k, top) /\ Room(k, peak) \in Int /\ Room(k, top) \in Int
      BY <2>3, RoomPeak, RoomType
    <3> QED BY <2>3, <3>1, <3>2, <3>3
  <2>7. \A f \in Pending : verdicts'[f].risk * 100 <= 2 * top
    BY <1>1, <2>1, <2>2, <2>3 DEF TenantInv, Reserved
  <2>8. ASSUME Pending # {}
        PROVE  \E f \in Pending : (q + verdicts'[f].risk) * 100 <= Room(Waves - n, top)
    <3>1. PICK f \in Pending : (r + verdicts[f].risk) * 100 <= Room(Waves - n, peak)
      BY <2>1, <2>2, <2>4, <2>8 DEF TenantInv, Reserved
    <3>2. PICK k \in Nat : k = Waves - n
      BY <2>5
    <3>3. Room(k, peak) <= Room(k, top) /\ Room(k, peak) \in Int /\ Room(k, top) \in Int
      BY <2>3, RoomPeak, RoomType
    <3>4. verdicts[f].risk \in Nat
      BY <2>1
    <3>5. (q + verdicts[f].risk) * 100 <= Room(k, top)
      BY <2>3, <3>1, <3>2, <3>3, <3>4
    <3> QED BY <1>1, <3>2, <3>5
  <2>9. Held(w) = held - 1 /\ held + n <= MaxConcurrent + Waves - 1
        /\ opened + n <= MaxDaily + MaxConcurrent - 1 + Waves - 1
    BY <1>4, <2>1, <2>2, <2>4 DEF TenantInv, Counted
  <2>10. /\ DOMAIN w \subseteq 1..openings'.ever /\ \A i \in DOMAIN w : w[i].pnl = 0
    BY <1>1, <1>4, <2>1 DEF TenantInv
  <2>11. openings'.today > 0 =>
           /\ b.startDay = today' /\ disk'.account.trades = b.trades
           /\ openings'.today <= b.trades + Held(w)
    <3>1. opened > 0 => account.startDay = today /\ opened <= account.trades + held
      BY <2>1, <2>2 DEF TenantInv, OpenedToday
    <3>2. account.trades \in Nat
      BY <1>2 DEF Accounted, Accounts
    <3> QED BY <1>1, <1>6, <1>10, <1>11, <2>2, <2>9, <3>1, <3>2
  <2>12. /\ Held(w) + n <= MaxConcurrent + Waves - 1
         /\ openings'.today + n <= MaxDaily + MaxConcurrent - 1 + Waves - 1
    BY <1>1, <2>2, <2>5, <2>9, RiskNumbers
  <2>13. TenantInv'
    BY <1>1, <1>10, <1>12, <2>3, <2>4, <2>5, <2>6, <2>7, <2>8, <2>10, <2>11, <2>12, TenantFrom
  <2> QED BY <1>1, <1>13, <1>14, <1>15, <2>13, InvFrom DEF RiskInv, FlagFollowsBreaker
<1>16. CASE IsAgent
  <2>1. Small(account, holdings, openings.ever) /\ Held(holdings) \in Nat
    BY <1>16, AgentHas
  <2>2. account.balance \in Int
    BY <1>2 DEF Accounted, Accounts
  <2>3. Small(b, w, openings.ever)
    BY <1>4, <1>6, <1>11, <2>1, <2>2 DEF Small, Initial
  <2>4. AgentInv'
    BY <1>1, <1>10, <1>12, <1>16, <2>3, AgentHas, AgentFrom
  <2> QED BY <1>1, <1>13, <1>14, <1>16, <2>4, InvFrom DEF RiskInv, FlagFollowsBreaker
<1> QED BY <1>15, <1>16

LEMMA PriceKeeps ==
    ASSUME RiskInv, NEW id \in DOMAIN holdings, NEW pnl \in Int, pnl <= 2, UpdatePrice(id, pnl)
    PROVE  RiskInv'
<1>1. /\ IsAgent /\ UNCHANGED <<riskPlan, today, account, verdicts, disk, flag, breakerOn,
                                openings, closes>>
  BY DEF UpdatePrice
<1>2. RiskTypes /\ Accounted(account, holdings) /\ Books(holdings) /\ today \in Nat
  BY DEF RiskInv, RiskTypes, Accounted
<1>3. PICK w : w = [holdings EXCEPT ![id].pnl = pnl]
  OBVIOUS
<1>4. holdings' = w
  BY <1>3 DEF UpdatePrice
<1>5. PICK one : one = [holdings[id] EXCEPT !.pnl = pnl]
  OBVIOUS
<1>6. one \in Positions /\ one.pnl = pnl /\ one.stop = holdings[id].stop
      /\ one.risk = holdings[id].risk
  BY <1>2, <1>5 DEF Books, Positions
<1>7. /\ DOMAIN w = DOMAIN holdings /\ w[id] = one
      /\ \A i \in DOMAIN holdings : i # id => w[i] = holdings[i]
      /\ w = [i \in DOMAIN w |-> w[i]]
  BY <1>2, <1>3, <1>5 DEF Books
<1>8. Books(w)
  BY <1>2, <1>6, <1>7 DEF Books
<1>9. Accounted(account, w)
  BY <1>2, <1>8 DEF Accounted
<1>10. /\ Pending' = Pending /\ verdicts' = [f \in Evaluators |-> verdicts'[f]]
       /\ \A f \in Pending' : Candidate(verdicts'[f])
  BY <1>1, <1>2, VerdictsStay
<1>11. RiskTypes'
  <2>1. PICK da, dh, df : disk' = [account |-> da, holdings |-> dh, flag |-> df]
          /\ Accounted(da, dh)
    BY <1>1, <1>2 DEF RiskTypes
  <2>2. /\ openings' \in [ever : Nat, today : Nat]
        /\ closes' \in Nat
    BY <1>1, <1>2 DEF RiskTypes
  <2>3. PICK a : a = account'
    OBVIOUS
  <2>4. Accounted(a, w)
    BY <1>1, <1>9, <2>3
  <2> QED BY <1>1, <1>2, <1>4, <1>10, <2>1, <2>2, <2>3, <2>4, TypesFrom
<1>12. Small(account, w, openings.ever)
  BY <1>1, <1>6, <1>7, AgentHas DEF Small, Held
<1>13. AgentInv'
  <2>1. Small(disk.account, disk.holdings, openings.ever)
    BY <1>1, AgentHas
  <2> QED BY <1>1, <1>4, <1>10, <1>12, <2>1, AgentHas, AgentFrom
<1> QED BY <1>1, <1>2, <1>11, <1>13, InvFrom, CountersFrom DEF RiskInv, FlagFollowsBreaker

LEMMA MidnightKeeps ==
    ASSUME RiskInv, Midnight
    PROVE  RiskInv'
<1>1. /\ today' = today + 1 /\ openings' = [openings EXCEPT !.today = 0] /\ closes' = 0
      /\ UNCHANGED <<riskPlan, account, holdings, verdicts, disk, flag, breakerOn>>
  BY DEF Midnight
<1>2. RiskTypes /\ Accounted(account, holdings) /\ today \in Nat
  BY DEF RiskInv, RiskTypes
<1>3. PICK o \in [ever : Nat, today : Nat] :
        o = openings' /\ o.ever = openings.ever /\ o.today = 0
  <2>1. PICK none \in Nat : none = 0
    OBVIOUS
  <2>2. openings' = [openings EXCEPT !.today = none] /\ openings \in [ever : Nat, today : Nat]
    BY <1>1, <1>2, <2>1 DEF RiskTypes
  <2> QED BY <2>1, <2>2
<1>4. /\ Pending' = Pending /\ verdicts' = [f \in Evaluators |-> verdicts'[f]]
      /\ \A f \in Pending' : Candidate(verdicts'[f])
  BY <1>1, <1>2, VerdictsStay
<1>5. RiskTypes'
  <2>1. PICK da, dh, df : disk' = [account |-> da, holdings |-> dh, flag |-> df]
          /\ Accounted(da, dh)
    BY <1>1, <1>2 DEF RiskTypes
  <2>2. /\ openings' \in [ever : Nat, today : Nat]
        /\ closes' \in Nat
    BY <1>1, <1>2, <1>3 DEF RiskTypes
  <2>3. riskPlan' = riskPlan /\ today' \in Nat /\ today' >= today
    BY <1>1, <1>2
  <2>4. PICK a, h : a = account' /\ h = holdings'
    OBVIOUS
  <2>5. Accounted(a, h)
    BY <1>1, <1>2, <2>4
  <2> QED BY <1>2, <1>4, <2>1, <2>2, <2>3, <2>4, <2>5, TypesFrom
<1>6. CountersAreTodays'
  <2>1. account.startDay \in Nat /\ account.startDay <= today
    BY <1>2 DEF Accounted, Accounts
  <2> QED BY <1>1, <1>2, <2>1 DEF CountersAreTodays
<1>7. CASE ~IsAgent
  <2>1. TenantInv
    BY <1>7, TenantHas
  <2>1a. PICK P : P = Pending
    OBVIOUS
  <2>2. PICK n \in Nat : n = Cardinality(Pending) /\ P = Pending
    BY <1>2, <2>1a, PendingIs
  <2>3. /\ n <= Waves /\ Held(holdings) + n <= MaxConcurrent + Waves - 1
        /\ openings'.today + n <= MaxDaily + MaxConcurrent - 1 + Waves - 1
    <3>1. n <= Waves /\ Held(holdings) + n <= MaxConcurrent + Waves - 1
      BY <2>1, <2>2 DEF TenantInv, Counted
    <3> QED BY <1>3, <3>1, RiskNumbers
  <2>4. PICK a, h : a = account' /\ h = holdings'
    OBVIOUS
  <2>5. a = account /\ h = holdings
    BY <1>1, <2>4
  <2>6. /\ DOMAIN h \subseteq 1..openings'.ever /\ \A i \in DOMAIN h : h[i].pnl = 0
        /\ disk'.holdings = h /\ disk'.account.balance = a.balance
        /\ disk'.account.peak = a.peak /\ disk'.account.lossStreak = a.lossStreak
    BY <1>1, <1>3, <2>1, <2>5 DEF TenantInv, FileIsBook
  <2>7. /\ RiskOf(h) * 100 <= Room(Waves - 1, a.peak)
        /\ \A e \in P : verdicts'[e].risk * 100 <= 2 * a.peak
        /\ P # {} => \E e \in P :
             (RiskOf(h) + verdicts'[e].risk) * 100 <= Room(Waves - n, a.peak)
    BY <1>1, <2>1, <2>2, <2>5 DEF TenantInv, Reserved
  <2>8. P = Pending' /\ n = Cardinality(P)
    BY <1>4, <2>2
  <2>9. ~(openings'.today > 0)
    BY <1>3
  <2>10. n <= Waves /\ Held(h) + n <= MaxConcurrent + Waves - 1
    BY <2>3, <2>5
  <2>11. TenantInv'
    BY <1>1, <2>3, <2>4, <2>6, <2>7, <2>8, <2>9, <2>10, TenantFrom
  <2> QED BY <1>1, <1>5, <1>6, <1>7, <2>11, InvFrom DEF RiskInv, FlagFollowsBreaker
<1>8. CASE IsAgent
  <2>1. AgentInv'
    BY <1>1, <1>3, <1>4, <1>8, AgentHas, AgentFrom
  <2> QED BY <1>1, <1>5, <1>6, <1>8, <2>1, InvFrom DEF RiskInv, FlagFollowsBreaker
<1> QED BY <1>7, <1>8

LEMMA RestartKeeps ==
    ASSUME RiskInv, Restart
    PROVE  RiskInv'
<1>1. PICK a : a = [disk.account EXCEPT !.startDay = today]
  OBVIOUS
<1>2. /\ "crash" \in riskPlan /\ account' = a /\ holdings' = disk.holdings /\ flag' = disk.flag
      /\ breakerOn' = FALSE /\ verdicts' = [e \in Evaluators |-> NoCandidate]
      /\ UNCHANGED <<riskPlan, today, disk, openings, closes>>
  BY <1>1 DEF Restart
<1>3. RiskTypes /\ today \in Nat /\ Accounted(disk.account, disk.holdings)
  BY DEF RiskInv, RiskTypes
<1>4. /\ a \in Accounts /\ a.startDay = today /\ a.balance = disk.account.balance
      /\ a.peak = disk.account.peak /\ a.lossStreak = disk.account.lossStreak
      /\ a.trades = disk.account.trades
  BY <1>1, <1>3 DEF Accounted, Accounts
<1>5. Accounted(a, disk.holdings)
  BY <1>3, <1>4 DEF Accounted, Accounts
<1>6. Pending' = {}
  BY <1>2 DEF Pending
<1>7. verdicts' = [e \in Evaluators |-> verdicts'[e]]
  BY <1>2
<1>8. RiskTypes'
  <2>1. PICK da, dh, df : disk' = [account |-> da, holdings |-> dh, flag |-> df]
          /\ Accounted(da, dh)
    BY <1>2, <1>3 DEF RiskTypes
  <2>2. openings' \in [ever : Nat, today : Nat] /\ closes' \in Nat
    BY <1>2, <1>3 DEF RiskTypes
  <2>3. riskPlan' = riskPlan /\ today' \in Nat /\ today' >= today
    BY <1>2, <1>3
  <2>4. PICK b, h : b = account' /\ h = holdings'
    OBVIOUS
  <2>5. Accounted(b, h)
    BY <1>2, <1>5, <2>4
  <2>7. \A e \in Pending' : Candidate(verdicts'[e])
    BY <1>6
  <2> QED BY <1>3, <1>7, <2>1, <2>2, <2>3, <2>4, <2>5, <2>7, TypesFrom
<1>9. CASE ~IsAgent
  <2>1. TenantInv
    BY <1>9, TenantHas
  <2>1a. PICK b, h, P : b = account' /\ h = holdings' /\ P = Pending'
    OBVIOUS
  <2>1b. PICK n \in Nat : n = 0
    OBVIOUS
  <2>2. b = account' /\ h = holdings' /\ P = Pending' /\ n = 0
    BY <2>1a, <2>1b
  <2>3. P = {} /\ n = Cardinality(P)
    BY <1>6, <2>2, FS_EmptySet
  <2>4. h = holdings /\ b = a
    BY <1>2, <2>1, <2>2 DEF TenantInv, FileIsBook
  <2>5. /\ disk'.holdings = h /\ disk'.account.balance = b.balance
        /\ disk'.account.peak = b.peak /\ disk'.account.lossStreak = b.lossStreak
        /\ disk'.account.trades = b.trades /\ b.startDay = today'
    BY <1>2, <1>4, <2>2, <2>4
  <2>6. /\ DOMAIN h \subseteq 1..openings'.ever /\ \A i \in DOMAIN h : h[i].pnl = 0
    BY <1>2, <2>1, <2>4 DEF TenantInv
  <2>7. RiskOf(h) * 100 <= Room(Waves - 1, b.peak)
    BY <1>4, <2>1, <2>4 DEF TenantInv, FileIsBook, Reserved
  <2>8. /\ n <= Waves /\ Held(h) + n <= MaxConcurrent + Waves - 1
        /\ openings'.today + n <= MaxDaily + MaxConcurrent - 1 + Waves - 1
    <3>1. PICK m \in Nat, held \in Nat, opened \in Nat :
            m = Cardinality(Pending) /\ held = Held(holdings) /\ opened = openings.today
      BY <1>3, <1>9, PendingIs, TenantHas
    <3>2. /\ held + m <= MaxConcurrent + Waves - 1
          /\ opened + m <= MaxDaily + MaxConcurrent - 1 + Waves - 1
      BY <2>1, <3>1 DEF TenantInv, Counted
    <3> QED BY <1>2, <2>2, <2>4, <3>1, <3>2, RiskNumbers
  <2>9. openings'.today > 0 =>
          /\ b.startDay = today' /\ disk'.account.trades = b.trades
          /\ openings'.today <= b.trades + Held(h)
    BY <1>2, <1>4, <2>1, <2>4, <2>5 DEF TenantInv, OpenedToday
  <2>10. TenantInv'
    BY <1>2, <2>2, <2>3, <2>5, <2>6, <2>7, <2>8, <2>9, TenantFrom
  <2> QED BY <1>2, <1>8, <1>9, <2>10, InvFrom DEF CountersAreTodays, FlagFollowsBreaker
<1>10. CASE IsAgent
  <2>1. Small(disk.account, disk.holdings, openings.ever)
    BY <1>10, AgentHas
  <2>2. Small(a, disk.holdings, openings.ever)
    BY <1>4, <2>1 DEF Small
  <2>3. AgentInv'
    BY <1>2, <1>6, <1>10, <2>1, <2>2, AgentHas, AgentFrom
  <2> QED BY <1>2, <1>8, <1>10, <2>3, InvFrom DEF CountersAreTodays, FlagFollowsBreaker
<1> QED BY <1>9, <1>10

\* The agent's handlers: at most the day is rolled, and the book written.
LEMMA AgentKeeps ==
    ASSUME RiskInv, IsAgent, UNCHANGED <<riskPlan, today, holdings, verdicts, openings, closes>>,
           NEW a, a = account', a = account \/ a = Rolled(account, holdings),
           NEW f, disk' = disk \/ disk' = [account |-> a, holdings |-> holdings, flag |-> f],
           FlagFollowsBreaker'
    PROVE  RiskInv'
<1>1. RiskTypes /\ Accounted(account, holdings) /\ today \in Nat
  BY DEF RiskInv, RiskTypes
<1>2. Accounted(a, holdings) /\ a.balance = account.balance
  <2>1. CASE a = account
    BY <1>1, <2>1
  <2>2. CASE a = Rolled(account, holdings)
    BY <1>1, <2>2, RolledIs
  <2> QED BY <2>1, <2>2
<1>3. /\ Pending' = Pending /\ verdicts' = [e \in Evaluators |-> verdicts'[e]]
      /\ \A e \in Pending' : Candidate(verdicts'[e])
  BY <1>1, VerdictsStay
<1>4. PICK da, dh, df :
        /\ disk' = [account |-> da, holdings |-> dh, flag |-> df] /\ Accounted(da, dh)
        /\ (da = disk.account /\ dh = disk.holdings) \/ (da = a /\ dh = holdings)
  <2>1. CASE disk' = disk
    BY <1>1, <2>1 DEF RiskTypes
  <2>2. CASE disk' = [account |-> a, holdings |-> holdings, flag |-> f]
    BY <1>2, <2>2
  <2> QED BY <2>1, <2>2
<1>5. PICK h : h = holdings'
  OBVIOUS
<1>6. RiskTypes'
  <2>1. openings' \in [ever : Nat, today : Nat] /\ closes' \in Nat
    BY <1>1 DEF RiskTypes
  <2>2. Accounted(a, h)
    BY <1>2, <1>5
  <2> QED BY <1>1, <1>3, <1>4, <1>5, <2>1, <2>2, TypesFrom
<1>7. /\ Small(account, holdings, openings.ever)
      /\ Small(disk.account, disk.holdings, openings.ever)
  BY AgentHas
<1>8. Small(a, h, openings.ever)
  BY <1>2, <1>5, <1>7 DEF Small
<1>9. Small(da, dh, openings.ever)
  BY <1>4, <1>5, <1>7, <1>8
<1>10. da = disk'.account /\ dh = disk'.holdings
  BY <1>4
<1>11. AgentInv'
  BY <1>3, <1>5, <1>8, <1>9, <1>10, AgentHas, AgentFrom
<1>12. CountersAreTodays'
  BY <1>1, CountersFrom
<1> QED BY <1>6, <1>11, <1>12, InvFrom

LEMMA AgentValidateKeeps ==
    ASSUME RiskInv, NEW s \in Setups, AgentValidate(s)
    PROVE  RiskInv'
<1>1. /\ IsAgent
      /\ UNCHANGED <<riskPlan, today, holdings, verdicts, disk, flag, openings, closes>>
      /\ account' = account \/ account' = Rolled(account, holdings)
      /\ breakerOn => breakerOn' = breakerOn
  BY DEF AgentValidate
<1>2. FlagFollowsBreaker'
  BY <1>1 DEF RiskInv, FlagFollowsBreaker
<1>3. PICK a, f : a = account' /\ f = flag
  OBVIOUS
<1> QED BY <1>1, <1>2, <1>3, AgentKeeps

LEMMA TriggerKeeps ==
    ASSUME RiskInv, TriggerBreaker
    PROVE  RiskInv'
<1>1. PICK a : a = Rolled(account, holdings)
  OBVIOUS
<1>2. /\ IsAgent /\ UNCHANGED <<riskPlan, today, holdings, verdicts, openings, closes>>
      /\ account' = a /\ breakerOn' = TRUE /\ flag' = TRUE
      /\ disk' = [account |-> a, holdings |-> holdings, flag |-> TRUE]
  BY <1>1 DEF TriggerBreaker, Saved
<1>3. FlagFollowsBreaker'
  BY <1>2 DEF FlagFollowsBreaker
<1>4. PICK f : f = TRUE
  OBVIOUS
<1> QED BY <1>1, <1>2, <1>3, <1>4, AgentKeeps

LEMMA ResetKeeps ==
    ASSUME RiskInv, NEW manual, ResetBreaker(manual)
    PROVE  RiskInv'
<1>1. PICK a : a = Rolled(account, holdings)
  OBVIOUS
<1>2. /\ IsAgent /\ UNCHANGED <<riskPlan, today, holdings, verdicts, openings, closes>>
      /\ breakerOn' = FALSE /\ flag' = FALSE
      /\ \/ account' = account /\ disk' = disk
         \/ account' = a /\ disk' = [account |-> a, holdings |-> holdings, flag |-> FALSE]
  BY <1>1 DEF ResetBreaker, Saved
<1>3. FlagFollowsBreaker'
  BY <1>2 DEF FlagFollowsBreaker
<1>4. PICK f, b : f = FALSE /\ b = account'
  OBVIOUS
<1> QED BY <1>1, <1>2, <1>3, <1>4, AgentKeeps

LEMMA CoolKeeps ==
    ASSUME RiskInv, CoolDown
    PROVE  RiskInv'
BY BooksStay DEF CoolDown

\* reconcile_on_startup: the exchange's positions in an order.
LEMMA Orders ==
    ASSUME NEW symbols \in SUBSET {"BTC", "ETH"}
    PROVE  /\ Cardinality(symbols) \in 0..2
           /\ \E f \in [1..Cardinality(symbols) -> symbols] :
                \A s \in symbols : \E i \in DOMAIN f : f[i] = s
<1>1. CASE symbols = {}
  <2>1. Cardinality(symbols) = 0
    BY <1>1, FS_EmptySet
  <2>2. PICK f : f = [i \in 1..0 |-> "BTC"]
    OBVIOUS
  <2>3. f \in [1..Cardinality(symbols) -> symbols]
    BY <2>1, <2>2
  <2> QED BY <1>1, <2>1, <2>3
<1>2. ASSUME NEW x, symbols = {x}
      PROVE  /\ Cardinality(symbols) \in 0..2
             /\ \E f \in [1..Cardinality(symbols) -> symbols] :
                  \A s \in symbols : \E i \in DOMAIN f : f[i] = s
  <2>1. Cardinality(symbols) = 1
    BY <1>2, FS_Singleton
  <2>2. PICK f : f = [i \in 1..1 |-> x]
    OBVIOUS
  <2>3. f \in [1..Cardinality(symbols) -> symbols] /\ 1 \in DOMAIN f /\ f[1] = x
    BY <1>2, <2>1, <2>2
  <2>4. \A s \in symbols : \E i \in DOMAIN f : f[i] = s
    BY <1>2, <2>3
  <2>5. Cardinality(symbols) \in 0..2
    BY <2>1
  <2> QED BY <2>3, <2>4, <2>5
<1>3. CASE symbols = {"BTC", "ETH"}
  <2>1. Cardinality(symbols) = 2
    <3>1. IsFiniteSet({"BTC"}) /\ Cardinality({"BTC"}) = 1 /\ "ETH" \notin {"BTC"}
      BY FS_Singleton
    <3>2. Cardinality({"BTC"} \cup {"ETH"}) = 2
      BY <3>1, FS_AddElement
    <3>3. symbols = {"BTC"} \cup {"ETH"}
      BY <1>3
    <3> QED BY <3>2, <3>3
  <2>2. PICK f : f = [i \in 1..2 |-> IF i = 1 THEN "BTC" ELSE "ETH"]
    OBVIOUS
  <2>3. f \in [1..2 -> symbols] /\ 1 \in DOMAIN f /\ 2 \in DOMAIN f /\ f[1] = "BTC" /\ f[2] = "ETH"
    BY <1>3, <2>2
  <2> QED BY <1>3, <2>1, <2>3
<1>4. symbols = {} \/ symbols = {"BTC"} \/ symbols = {"ETH"} \/ symbols = {"BTC", "ETH"}
  OBVIOUS
<1>5. CASE symbols = {"BTC"}
  BY <1>2, <1>5
<1>6. CASE symbols = {"ETH"}
  BY <1>2, <1>6
<1> QED BY <1>1, <1>3, <1>4, <1>5, <1>6

LEMMA ReconcileKeeps ==
    ASSUME RiskInv, NEW symbols \in SUBSET {"BTC", "ETH"}, Reconcile(symbols)
    PROVE  RiskInv'
<1>1. /\ IsAgent /\ openings.ever = 0 /\ openings' = [ever |-> MaxOpens, today |-> 0]
      /\ UNCHANGED <<riskPlan, today, verdicts, flag, breakerOn, closes>>
  BY DEF Reconcile
<1>2. RiskTypes /\ Accounted(account, holdings) /\ today \in Nat
  BY DEF RiskInv, RiskTypes
<1>3. DOMAIN holdings = {} /\ account.balance = Initial
  BY <1>1, AgentHas DEF Small
<1>4. PICK k \in 0..2 : k = Cardinality(symbols)
  BY Orders
<1>5. PICK live : live = CHOOSE f \in [1..k -> symbols] :
                           \A s \in symbols : \E i \in DOMAIN f : f[i] = s
  OBVIOUS
<1>6. live \in [1..k -> symbols]
  BY <1>4, <1>5, Orders
<1>7. PICK risk \in Nat, none \in Int : risk = 60 /\ none = 0
  OBVIOUS
<1>8. PICK h : h = [i \in 1..k |-> [symbol |-> live[i], direction |-> "LONG", risk |-> risk,
                                    pnl |-> none, stop |-> FALSE]]
  OBVIOUS
<1>9. Hold(account, h)
  BY <1>3, <1>4, <1>5, <1>6, <1>7, <1>8 DEF Reconcile
<1>10. /\ DOMAIN h = 1..k /\ h = [i \in DOMAIN h |-> h[i]]
       /\ \A i \in DOMAIN h : h[i] \in Positions /\ h[i].risk = 60 /\ h[i].pnl = 0
  <2>1. DOMAIN h = 1..k /\ h = [i \in DOMAIN h |-> h[i]]
    BY <1>8
  <2>2. ASSUME NEW i \in DOMAIN h
        PROVE  h[i] \in Positions /\ h[i].risk = 60 /\ h[i].pnl = 0
    <3>1. h[i] = [symbol |-> live[i], direction |-> "LONG", risk |-> risk, pnl |-> none,
                  stop |-> FALSE]
      BY <1>8, <2>1
    <3>2. live[i] \in Symbols
      BY <1>6, <2>1 DEF Symbols
    <3> QED BY <1>7, <3>1, <3>2 DEF Positions, Directions
  <2> QED BY <2>1, <2>2
<1>11. Books(h) /\ Held(h) = k
  <2>1. IsFiniteSet(1..k) /\ Cardinality(1..k) = k
    <3>1. PICK one \in Int, top \in Int : one = 1 /\ top = k
      BY <1>4
    <3>2. IsFiniteSet(one..top) /\ Cardinality(one..top) = IF one > top THEN 0 ELSE top - one + 1
      BY FS_Interval
    <3>3. k \in {0, 1, 2}
      BY <1>4
    <3> QED BY <3>1, <3>2, <3>3
  <2> QED BY <1>10, <2>1 DEF Books, Held
<1>12. Accounted(account, h)
  BY <1>2, <1>11 DEF Accounted
<1>13. PICK b : b = Rolled(account, h)
  OBVIOUS
<1>14. /\ account' = b /\ holdings' = h /\ Accounted(b, h)
       /\ disk' = [account |-> b, holdings |-> h, flag |-> flag]
       /\ disk'.account = b /\ disk'.holdings = h
  BY <1>2, <1>9, <1>12, <1>13, HoldIs
<1>15. b.balance = Initial
  BY <1>2, <1>3, <1>12, <1>13, RolledIs
<1>16. /\ Pending' = Pending /\ verdicts' = [e \in Evaluators |-> verdicts'[e]]
       /\ \A e \in Pending' : Candidate(verdicts'[e])
  BY <1>1, <1>2, VerdictsStay
<1>17. PICK v \in Nat \ {0} : v = MaxOpens
  BY RiskNumbers
<1>18. RiskTypes'
  <2>1. openings' \in [ever : Nat, today : Nat] /\ closes' \in Nat
    BY <1>1, <1>2, <1>17 DEF RiskTypes
  <2>2. PICK a, w, df : a = account' /\ w = holdings' /\ df = flag
    OBVIOUS
  <2>3. Accounted(a, w) /\ disk' = [account |-> a, holdings |-> w, flag |-> df]
    BY <1>14, <2>2
  <2> QED BY <1>1, <1>2, <1>16, <2>1, <2>2, <2>3, TypesFrom
<1>19. Small(b, h, v)
  <2>1. DOMAIN h \subseteq {1, 2}
    BY <1>10
  <2>2. b.balance <= Initial + 4 - 2 * Held(h)
    BY <1>11, <1>15 DEF Initial
  <2> QED BY <1>10, <1>17, <2>1, <2>2 DEF Small
<1>20. AgentInv'
  <2>1. v = openings'.ever /\ openings'.today = 0
    BY <1>1, <1>17
  <2> QED BY <1>1, <1>14, <1>16, <1>17, <1>19, <2>1, AgentHas, AgentFrom
<1>21. CountersAreTodays'
  BY <1>1, <1>12, <1>13, <1>14, CountersFrom
<1> QED BY <1>1, <1>18, <1>20, <1>21, InvFrom DEF RiskInv, FlagFollowsBreaker

-----------------------------------------------------------------------------
(* What follows. *)

LEMMA EmptyBook ==
    ASSUME NEW h, h = [i \in {} |-> NoCandidate]
    PROVE  DOMAIN h = {} /\ Books(h) /\ RiskOf(h) = 0 /\ Held(h) = 0
<1>1. DOMAIN h = {} /\ h = [i \in DOMAIN h |-> h[i]]
  OBVIOUS
<1>2. IsFiniteSet({}) /\ Cardinality({}) = 0
  BY FS_EmptySet
<1>3. PICK f, D : D = DOMAIN h /\ f = [i \in D |-> h[i].risk]
  OBVIOUS
<1>4. RiskOf(h) = SumFunctionOnSet(f, D)
  BY <1>3 DEF RiskOf, SumFunction
<1>5. SumFunctionOnSet(f, D) = 0
  BY <1>1, <1>2, <1>3, SumChosen
<1> QED BY <1>1, <1>2, <1>4, <1>5 DEF Books, Held

LEMMA RiskStarts == RiskInit => RiskInv
<1> SUFFICES ASSUME RiskInit PROVE RiskInv
  OBVIOUS
<1>1. /\ riskPlan \in SUBSET {"agent", "crash", "concurrent"} /\ today = 1
      /\ account = FreshAccount /\ holdings = [i \in {} |-> NoCandidate]
      /\ disk = [account |-> FreshAccount, holdings |-> [i \in {} |-> NoCandidate], flag |-> FALSE]
      /\ verdicts = [e \in Evaluators |-> NoCandidate]
      /\ flag = FALSE /\ breakerOn = FALSE
      /\ openings = [ever |-> 0, today |-> 0] /\ closes = 0
  BY RiskAssumption DEF RiskInit
<1>2. PICK a, h : a = FreshAccount /\ h = [i \in {} |-> NoCandidate]
  OBVIOUS
<1>3. /\ a \in Accounts /\ a.balance = 100 /\ a.peak = 100 /\ a.startDay = 1 /\ a.trades = 0
  BY <1>2 DEF FreshAccount, Accounts, Initial
<1>4. DOMAIN h = {} /\ Books(h) /\ RiskOf(h) = 0 /\ Held(h) = 0
  BY <1>2, EmptyBook
<1>5. Accounted(a, h)
  BY <1>1, <1>3, <1>4 DEF Accounted, Initial
<1>6. account = a /\ holdings = h /\ disk.account = a /\ disk.holdings = h
      /\ disk = [account |-> a, holdings |-> h, flag |-> FALSE]
  BY <1>1, <1>2
<1>7. Pending = {} /\ Cardinality(Pending) = 0
  BY <1>1, FS_EmptySet DEF Pending
<1>8. RiskTypes
  <2>1. openings \in [ever : Nat, today : Nat] /\ closes \in Nat /\ today \in Nat
    BY <1>1
  <2>2. DOMAIN verdicts = Evaluators /\ verdicts = [e \in Evaluators |-> verdicts[e]]
    BY <1>1
  <2>3. disk = [account |-> disk.account, holdings |-> disk.holdings, flag |-> disk.flag]
    BY <1>6
  <2> QED BY <1>1, <1>5, <1>6, <1>7, <2>1, <2>2, <2>3 DEF RiskTypes
<1>9. TenantInv
  <2>1. openings.today = 0
    BY <1>1
  <2>2. Reserved
    <3>1. PICK k \in Nat, none \in Nat, p \in Nat : k = Waves - 1 /\ none = 0 /\ p = 100
      BY RiskNumbers
    <3>2. Room(k, none) <= Room(k, p) /\ Room(k, p) \in Int
      BY <3>1, RoomPeak, RoomType
    <3>3. Room(k, none) = 0
      BY <3>1 DEF Room
    <3>4. 0 <= Room(k, p)
      BY <3>2, <3>3
    <3>5. RiskOf(holdings) * 100 <= Room(Waves - 1, account.peak)
      BY <1>3, <1>4, <1>6, <3>1, <3>4
    <3> QED BY <1>7, <3>5 DEF Reserved
  <2>3. Counted
    BY <1>4, <1>6, <1>7, <2>1, RiskNumbers DEF Counted
  <2>4. FileIsBook /\ OpenedToday
    BY <1>6, <2>1 DEF FileIsBook, OpenedToday
  <2>5. DOMAIN holdings \subseteq 1..openings.ever /\ \A i \in DOMAIN holdings : holdings[i].pnl = 0
    BY <1>4, <1>6
  <2> QED BY <2>2, <2>3, <2>4, <2>5 DEF TenantInv
<1>10. AgentInv
  <2>1. openings.ever = 0 /\ openings.today = 0
    BY <1>1
  <2>2. Small(a, h, openings.ever)
    BY <1>3, <1>4, <2>1 DEF Small, Initial
  <2> QED BY <1>6, <1>7, <2>1, <2>2 DEF AgentInv
<1>11. CountersAreTodays /\ FlagFollowsBreaker
  BY <1>1, <1>3, <1>6 DEF CountersAreTodays, FlagFollowsBreaker
<1> QED BY <1>8, <1>9, <1>10, <1>11 DEF RiskInv

LEMMA RiskGoesOn == RiskInv /\ [RiskNext]_riskVars => RiskInv'
<1> SUFFICES ASSUME RiskInv, [RiskNext]_riskVars PROVE RiskInv'
  OBVIOUS
<1>1. ASSUME NEW e \in Evaluators, NEW s \in Setups, Evaluate(e, s) PROVE RiskInv'
  BY <1>1, EvaluateKeeps
<1>2. ASSUME NEW e \in Evaluators, Book(e) PROVE RiskInv'
  BY <1>2, BookKeeps
<1>3. ASSUME NEW e \in Evaluators, Abandon(e) PROVE RiskInv'
  BY <1>3, AbandonKeeps
<1>4. ASSUME NEW id \in DOMAIN holdings, NEW pnl \in {-3, 2}, ClosePosition(id, pnl) PROVE RiskInv'
  <2>1. pnl \in Int /\ pnl <= 2
    OBVIOUS
  <2> QED BY <1>4, <2>1, CloseKeeps
<1>5. ASSUME NEW id \in DOMAIN holdings, NEW pnl \in {-21, -5, 2}, UpdatePrice(id, pnl) PROVE RiskInv'
  <2>1. pnl \in Int /\ pnl <= 2
    OBVIOUS
  <2> QED BY <1>5, <2>1, PriceKeeps
<1>6. ASSUME NEW symbols \in SUBSET {"BTC", "ETH"}, Reconcile(symbols) PROVE RiskInv'
  BY <1>6, ReconcileKeeps
<1>7. ASSUME NEW s \in Setups, AgentValidate(s) PROVE RiskInv'
  BY <1>7, AgentValidateKeeps
<1>8. ASSUME NEW manual \in BOOLEAN, ResetBreaker(manual) PROVE RiskInv'
  BY <1>8, ResetKeeps
<1>9. CASE TriggerBreaker
  BY <1>9, TriggerKeeps
<1>10. CASE CoolDown
  BY <1>10, CoolKeeps
<1>11. CASE Midnight
  BY <1>11, MidnightKeeps
<1>12. CASE Restart
  BY <1>12, RestartKeeps
<1>13. CASE UNCHANGED riskVars
  BY <1>13, BooksStay DEF riskVars
<1> QED BY <1>1, <1>2, <1>3, <1>4, <1>5, <1>6, <1>7, <1>8, <1>9, <1>10, <1>11, <1>12, <1>13
        DEF RiskNext

\* _handle_validate_trade with a position taken over: the heat alone turns the setup down.
LEMMA TakenOver ==
    ASSUME RiskInv, NEW s \in Setups, AgentValidate(s),
           NEW i \in DOMAIN holdings, ~holdings[i].stop
    PROVE  ~approved'
<1>1. PICK a : a = Rolled(account, holdings)
  OBVIOUS
<1>2. IsAgent /\ Accounted(account, holdings) /\ Books(holdings) /\ today \in Nat
  BY AgentHas DEF AgentValidate
<1>3. Small(account, holdings, openings.ever) /\ Held(holdings) \in Nat
  BY <1>2, AgentHas
<1>4. a.balance = account.balance /\ account.balance \in Int
  BY <1>1, <1>2, RolledIs DEF Accounted, Accounts
<1>5. /\ RiskOf(holdings) \in Nat /\ 60 <= RiskOf(holdings)
      /\ UnrealizedOf(holdings) \in Int /\ UnrealizedOf(holdings) <= 2 * Held(holdings)
  <2>1. holdings[i].risk = 60
    BY <1>3 DEF Small
  <2>2. \A j \in DOMAIN holdings : holdings[j].pnl <= 2
    BY <1>3 DEF Small
  <2> QED BY <1>2, <2>1, <2>2, BookSums
<1>6. a.balance + UnrealizedOf(holdings) <= 104
  <2>1. account.balance <= 104 - 2 * Held(holdings)
    BY <1>3 DEF Small, Initial
  <2> QED BY <1>3, <1>4, <1>5, <2>1
<1>7. PICK p : p = Snapshot(a, holdings)
  OBVIOUS
<1>8. p.equity = a.balance + UnrealizedOf(holdings) /\ p.risk = RiskOf(holdings)
  BY <1>7 DEF Snapshot, Equity
<1>9. s.risk \in Nat
  BY CutFits
<1>10. ~HeatOk(s, p)
  BY <1>4, <1>5, <1>6, <1>8, <1>9 DEF HeatOk
<1>11. ~Validates(s, a, holdings)
  BY <1>7, <1>10 DEF Validates
<1> QED BY <1>1, <1>11 DEF AgentValidate, EngineApproves

\* The limits of an account's book hold through evaluations that wait for their
\* executions, closes, midnights and restarts: what the sessions of a tenant
\* overshoot together is bounded, the file is the book, a position taken over
\* blocks the agent, and the breaker's flags agree.
THEOREM LimitsAreKept == RiskSpec => BookKeepsLimits
<1>1. RiskInv => DayIsBounded /\ CountersAreTodays /\ FlagFollowsBreaker
  <2> SUFFICES ASSUME RiskInv PROVE DayIsBounded
    BY DEF RiskInv
  <2> SUFFICES ASSUME ~IsAgent PROVE openings.today <= MaxDaily + MaxConcurrent - 1 + Waves - 1
    BY DEF DayIsBounded
  <2>1. PICK n \in Nat, opened \in Nat : n = Cardinality(Pending) /\ opened = openings.today
    BY PendingIs, TenantHas DEF RiskInv
  <2>2. opened + n <= MaxDaily + MaxConcurrent - 1 + Waves - 1
    BY <2>1, TenantHas DEF TenantInv, Counted
  <2> QED BY <2>1, <2>2, RiskNumbers
<1>2. ASSUME RiskInv, NEW e \in Evaluators, Book(e)
      PROVE  /\ RiskOf(holdings') * 100 <= (6 + 2 * (Waves - 1)) * account.peak
             /\ Cardinality(DOMAIN holdings') <= MaxConcurrent + Waves - 1
  <2>1. RiskInv' /\ ~IsAgent /\ account'.peak = account.peak /\ UNCHANGED riskPlan
    BY <1>2, BookKeeps DEF Book
  <2>2. Waves' = Waves /\ TenantInv' /\ RiskTypes'
    BY <2>1 DEF RiskInv, IsAgent, Waves
  <2>3. RiskOf(holdings)' = RiskOf(holdings') /\ Held(holdings)' = Cardinality(DOMAIN holdings')
    BY DEF RiskOf, Held
  <2>4. RiskOf(holdings') * 100 <= (6 + 2 * (Waves - 1)) * account.peak
    BY <2>1, <2>2, <2>3 DEF TenantInv, Reserved, Room
  <2>5. PICK n \in Nat : n = Cardinality(Pending')
    <3>1. Pending' \subseteq Evaluators /\ IsFiniteSet(Evaluators)
      BY RiskNumbers DEF Pending
    <3> QED BY <3>1, FS_Subset, FS_CardinalityType
  <2>6. Cardinality(DOMAIN holdings') + n <= MaxConcurrent + Waves - 1
    BY <2>2, <2>3, <2>5 DEF TenantInv, Counted
  <2>7. Cardinality(DOMAIN holdings') \in Nat
    BY <2>2, FS_CardinalityType DEF RiskTypes, Accounted, Books
  <2> QED BY <2>4, <2>5, <2>6, <2>7, RiskNumbers
<1>3. ASSUME RiskInv, Restart, ~IsAgent
      PROVE  /\ holdings' = holdings
             /\ account'.balance = account.balance /\ account'.peak = account.peak
             /\ account'.lossStreak = account.lossStreak
  <2>1. FileIsBook /\ Accounted(disk.account, disk.holdings)
    BY <1>3 DEF RiskInv, TenantInv, RiskTypes
  <2>2. account' = [disk.account EXCEPT !.startDay = today] /\ holdings' = disk.holdings
    BY <1>3 DEF Restart
  <2> QED BY <2>1, <2>2 DEF FileIsBook, Accounted, Accounts
<1>4. RiskInv => [\A e \in Evaluators : Book(e) =>
                    /\ RiskOf(holdings') * 100 <= (6 + 2 * (Waves - 1)) * account.peak
                    /\ Cardinality(DOMAIN holdings') <= MaxConcurrent + Waves - 1]_riskVars
  BY <1>2
<1>5. RiskInv => [(Restart /\ ~IsAgent) =>
                    /\ holdings' = holdings
                    /\ account'.balance = account.balance /\ account'.peak = account.peak
                    /\ account'.lossStreak = account.lossStreak]_riskVars
  BY <1>3
<1>6. RiskInv => [(\E s \in Setups : AgentValidate(s)) /\ (\E i \in DOMAIN holdings : ~holdings[i].stop)
                    => ~approved']_riskVars
  BY TakenOver
<1> QED BY <1>1, <1>4, <1>5, <1>6, RiskStarts, RiskGoesOn, PTL
        DEF RiskSpec, BookKeepsLimits, OverbookingIsBounded, RestartKeepsBook, TakenOverBlocks

-----------------------------------------------------------------------------
(***************************************************************************)
(* The money of a paper account (PaperAccount): the account adds up after  *)
(* every fill, of one order or of many that a price reaches at once.       *)
(***************************************************************************)

Sides == {"buy", "sell"}

\* An account of the right shape.
PaperAccounts ==
    [purse : [balance : Int, fees : Nat, peak : Int],
     holding : [side : Sides \union {"flat"}, quantity : Nat, entry : Int, mark : Int,
                realized : Int],
     tape : [cash : Int, dustCost : Int, dust : Nat, closed : Nat, told : Int]]

\* An account that adds up.
Sound(acc) ==
    /\ acc \in PaperAccounts
    /\ acc.holding # Flat => acc.holding.side \in Sides /\ acc.holding.quantity > 0
    /\ acc.purse.balance <= acc.purse.peak
    /\ acc.purse.balance - InitialBalance + acc.purse.fees =
        Scale * (acc.tape.cash + acc.tape.dustCost
                 + Sign(acc.holding.side) * acc.holding.quantity * acc.holding.entry)
    /\ acc.tape.dust <= Dust * acc.tape.closed
    /\ acc.tape.told + acc.holding.realized = acc.purse.balance - InitialBalance + acc.purse.fees

\* What fills may do to the position that is open: nothing but close or reduce it.
OnlyLess(before, after) ==
    /\ before.tape.closed <= after.tape.closed
    /\ before.holding # Flat /\ after.tape.closed = before.tape.closed =>
          /\ after.holding # Flat
          /\ after.holding.side = before.holding.side
          /\ after.holding.quantity <= before.holding.quantity

AnOrder(o) ==
    o.side \in Sides /\ o.quantity \in Nat /\ o.quantity > 0 /\ o.reduce \in BOOLEAN

LEMMA AccountNumbers ==
    /\ InitialBalance \in Nat /\ MakerFee \in Nat /\ TakerFee \in Nat /\ Slip \in Nat
    /\ Better \in Nat /\ Dust \in Nat /\ MaxPlaced \in Nat
    /\ Leverage \in Nat \ {0} /\ Scale \in Nat \ {0}
  BY AccountAssumption

LEMMA LesserOf ==
    ASSUME NEW a \in Int, NEW b \in Int
    PROVE  Min({a, b}) = IF a <= b THEN a ELSE b
  <1>1. PICK n : n = IF a <= b THEN a ELSE b
    OBVIOUS
  <1>2. n \in {a, b} /\ \A y \in {a, b} : n <= y
    BY <1>1
  <1>3. \A x \in {a, b} : (\A y \in {a, b} : x <= y) => x = n
    BY <1>1
  <1> QED BY <1>1, <1>2, <1>3 DEF Min

LEMMA GreaterOf ==
    ASSUME NEW a \in Int, NEW b \in Int
    PROVE  Max({a, b}) = IF a >= b THEN a ELSE b
  <1>1. PICK n : n = IF a >= b THEN a ELSE b
    OBVIOUS
  <1>2. n \in {a, b} /\ \A y \in {a, b} : n >= y
    BY <1>1
  <1>3. \A x \in {a, b} : (\A y \in {a, b} : x >= y) => x = n
    BY <1>1
  <1> QED BY <1>1, <1>2, <1>3 DEF Max

LEMMA ProductIsNatural ==
    ASSUME NEW a \in Nat, NEW b \in Nat
    PROVE  a * b \in Nat
  OBVIOUS

LEMMA FeeIsNatural ==
    ASSUME NEW n \in Nat, NEW at \in Nat, NEW rate \in Nat
    PROVE  Commission(n, at, rate) \in Nat
  <1>1. n * at \in Nat
    BY ProductIsNatural
  <1> QED BY <1>1, ProductIsNatural DEF Commission

Purses == [balance : Int, fees : Nat, peak : Int]
Holdings == [side : Sides \union {"flat"}, quantity : Nat, entry : Int, mark : Int, realized : Int]
Tapes == [cash : Int, dustCost : Int, dust : Nat, closed : Nat, told : Int]

\* What an order changes in an account.
WithPaid(acc, b, f) == [acc EXCEPT !.purse.balance = b, !.purse.fees = f]
WithOpened(acc, h, c) == [acc EXCEPT !.holding = h, !.tape.cash = c]
WithTraded(acc, b, k, c) ==
    [acc EXCEPT !.purse.balance = b, !.purse.peak = k, !.tape.cash = c]
WithClosed(acc, c, d, n, t) ==
    [acc EXCEPT !.holding = Flat, !.tape.dustCost = c, !.tape.dust = d, !.tape.closed = n,
                !.tape.told = t]
WithLeft(acc, n, r) == [acc EXCEPT !.holding.quantity = n, !.holding.realized = r]

LEMMA PaidFields ==
    ASSUME NEW acc, acc \in PaperAccounts, NEW b \in Int, NEW f \in Nat
    PROVE  LET to == WithPaid(acc, b, f)
           IN  /\ to \in PaperAccounts
               /\ to.purse.balance = b /\ to.purse.fees = f /\ to.purse.peak = acc.purse.peak
               /\ to.holding = acc.holding /\ to.tape = acc.tape
  BY DEF PaperAccounts, WithPaid

LEMMA OpenedFields ==
    ASSUME NEW acc, acc \in PaperAccounts, NEW h \in Holdings, NEW c \in Int
    PROVE  LET to == WithOpened(acc, h, c)
           IN  /\ to \in PaperAccounts
               /\ to.purse = acc.purse /\ to.holding = h
               /\ to.tape.cash = c /\ to.tape.dustCost = acc.tape.dustCost
               /\ to.tape.dust = acc.tape.dust /\ to.tape.closed = acc.tape.closed
               /\ to.tape.told = acc.tape.told
  BY DEF PaperAccounts, Holdings, WithOpened

LEMMA TradedFields ==
    ASSUME NEW acc, acc \in PaperAccounts, NEW b \in Int, NEW k \in Int, NEW c \in Int
    PROVE  LET to == WithTraded(acc, b, k, c)
           IN  /\ to \in PaperAccounts /\ to.holding = acc.holding
               /\ to.purse.balance = b /\ to.purse.fees = acc.purse.fees /\ to.purse.peak = k
               /\ to.tape.cash = c /\ to.tape.dustCost = acc.tape.dustCost
               /\ to.tape.dust = acc.tape.dust /\ to.tape.closed = acc.tape.closed
               /\ to.tape.told = acc.tape.told
  BY DEF PaperAccounts, WithTraded

LEMMA FlatIsHolding == Flat \in Holdings
  BY DEF Flat, Holdings

LEMMA ClosedFields ==
    ASSUME NEW acc, acc \in PaperAccounts, NEW c \in Int, NEW d \in Nat, NEW n \in Nat, NEW t \in Int
    PROVE  LET to == WithClosed(acc, c, d, n, t)
           IN  /\ to \in PaperAccounts
               /\ to.purse = acc.purse /\ to.holding = Flat
               /\ to.tape.cash = acc.tape.cash /\ to.tape.dustCost = c
               /\ to.tape.dust = d /\ to.tape.closed = n /\ to.tape.told = t
  BY FlatIsHolding DEF PaperAccounts, Holdings, WithClosed

LEMMA LeftFields ==
    ASSUME NEW acc, acc \in PaperAccounts, NEW n \in Nat, NEW r \in Int
    PROVE  LET to == WithLeft(acc, n, r)
           IN  /\ to \in PaperAccounts
               /\ to.purse = acc.purse /\ to.tape = acc.tape
               /\ to.holding.side = acc.holding.side /\ to.holding.quantity = n
               /\ to.holding.entry = acc.holding.entry /\ to.holding.realized = r
  BY DEF PaperAccounts, WithLeft

\* Paying a fee.
LEMMA ChargedIs ==
    ASSUME NEW acc, Sound(acc), NEW n \in Nat, NEW at \in Nat, NEW rate \in Nat
    PROVE  /\ Charged(acc, n, at, rate).holding = acc.holding
           /\ Charged(acc, n, at, rate).tape = acc.tape
           /\ Sound(Charged(acc, n, at, rate))
  <1>1. PICK fee : fee = Commission(n, at, rate)
    OBVIOUS
  <1>2. fee \in Nat
    BY <1>1, FeeIsNatural
  <1>3. acc.purse.balance \in Int /\ acc.purse.fees \in Nat /\ acc.purse.peak \in Int
    BY DEF Sound, PaperAccounts
  <1>4. PICK b : b = acc.purse.balance - fee
    OBVIOUS
  <1>5. PICK f : f = acc.purse.fees + fee
    OBVIOUS
  <1>6. b \in Int /\ f \in Nat
    BY <1>2, <1>3, <1>4, <1>5
  <1>7. PICK to : to = Charged(acc, n, at, rate)
    OBVIOUS
  <1>8. to = WithPaid(acc, b, f)
    BY <1>1, <1>4, <1>5, <1>7 DEF Charged, WithPaid
  <1>9. acc \in PaperAccounts
    BY DEF Sound
  <1>10. /\ to \in PaperAccounts
         /\ to.purse.balance = b /\ to.purse.fees = f /\ to.purse.peak = acc.purse.peak
         /\ to.holding = acc.holding /\ to.tape = acc.tape
    BY <1>6, <1>8, <1>9, PaidFields
  <1>11. b <= acc.purse.peak
    BY <1>2, <1>3, <1>4 DEF Sound
  <1>12. b - InitialBalance + f = acc.purse.balance - InitialBalance + acc.purse.fees
    BY <1>2, <1>3, <1>4, <1>5, AccountNumbers
  <1> QED BY <1>7, <1>10, <1>11, <1>12 DEF Sound

\* What a position made is what was received for it over what was paid.
LEMMA MadeIsReceived ==
    ASSUME NEW n \in Int, NEW l \in Int, NEW at \in Int, NEW entry \in Int, NEW sc \in Int,
           NEW s \in Int
    PROVE  sc * ((s * n) * at + (s * l) * entry)
             = sc * ((s * (n + l)) * entry) + ((sc * s) * (at - entry)) * n
  OBVIOUS

LEMMA MoneyMoves ==
    ASSUME NEW n \in Int, NEW l \in Int, NEW at \in Int, NEW entry \in Int, NEW sc \in Int,
           NEW s \in Int, NEW cash \in Int, NEW dust \in Int, NEW e \in Int,
           e = sc * (cash + dust + (s * (n + l)) * entry)
    PROVE  e + ((sc * s) * (at - entry)) * n
             = sc * ((cash + (s * n) * at) + dust + (s * l) * entry)
  OBVIOUS

LEMMA SignIs ==
    ASSUME NEW side
    PROVE  Sign(side) \in Int
  BY DEF Sign

LEMMA FlatIs ==
    Flat.side = "flat" /\ Flat.quantity = 0 /\ Flat.entry = 0 /\ Flat.mark = 0 /\ Flat.realized = 0
  BY DEF Flat

\* An order that closes some of the position, or all of it.
LEMMA ReducedIs ==
    ASSUME NEW acc, Sound(acc), acc.holding # Flat, NEW o, AnOrder(o), NEW at \in Nat
    PROVE  Sound(Reduced(acc, o, at)) /\ OnlyLess(acc, Reduced(acc, o, at))
  <1>1. PICK n : n = Min({o.quantity, acc.holding.quantity})
    OBVIOUS
  <1>2. acc \in PaperAccounts
    BY DEF Sound
  <1>3. acc.holding.side \in Sides /\ acc.holding.quantity \in Nat /\ acc.holding.quantity > 0
        /\ acc.holding.entry \in Int /\ acc.holding.realized \in Int
    BY DEF Sound, PaperAccounts
  <1>4. n \in Nat /\ n <= acc.holding.quantity
    BY <1>1, <1>3, LesserOf DEF AnOrder
  <1>5. PICK left : left = acc.holding.quantity - n
    OBVIOUS
  <1>6. left \in Nat /\ acc.holding.quantity = n + left
    BY <1>3, <1>4, <1>5
  <1>7. PICK s : s = Sign(acc.holding.side)
    OBVIOUS
  <1>8. s \in Int
    BY <1>7, SignIs
  <1>9. PICK profit : profit = ((Scale * s) * (at - acc.holding.entry)) * n
    OBVIOUS
  <1>10. profit = Profit(acc.holding, o, at)
    BY <1>1, <1>7, <1>9 DEF Profit
  <1>11. profit \in Int
    BY <1>3, <1>4, <1>8, <1>9, AccountNumbers
  <1>12. acc.purse.balance \in Int /\ acc.purse.fees \in Nat /\ acc.purse.peak \in Int
    BY <1>2 DEF PaperAccounts
  <1>13. acc.tape.cash \in Int /\ acc.tape.dustCost \in Int /\ acc.tape.dust \in Nat
         /\ acc.tape.closed \in Nat /\ acc.tape.told \in Int
    BY <1>2 DEF PaperAccounts
  <1>14. PICK b : b = acc.purse.balance + profit
    OBVIOUS
  <1>15. PICK k : k = Max({acc.purse.peak, b})
    OBVIOUS
  <1>16. b \in Int /\ k \in Int /\ b <= k
    BY <1>11, <1>12, <1>14, <1>15, GreaterOf
  <1>17. PICK c : c = acc.tape.cash + (s * n) * at
    OBVIOUS
  <1>18. c \in Int
    BY <1>4, <1>8, <1>13, <1>17
  <1>19. PICK after : after = WithTraded(acc, b, k, c)
    OBVIOUS
  <1>20. /\ after \in PaperAccounts /\ after.holding = acc.holding
         /\ after.purse.balance = b /\ after.purse.fees = acc.purse.fees /\ after.purse.peak = k
         /\ after.tape.cash = c /\ after.tape.dustCost = acc.tape.dustCost
         /\ after.tape.dust = acc.tape.dust /\ after.tape.closed = acc.tape.closed
         /\ after.tape.told = acc.tape.told
    BY <1>2, <1>16, <1>18, <1>19, TradedFields
  <1>21. PICK cost : cost = (s * left) * acc.holding.entry
    OBVIOUS
  <1>22. cost \in Int
    BY <1>3, <1>6, <1>8, <1>21
  <1>23. PICK to : to = Reduced(acc, o, at)
    OBVIOUS
  <1>24. to = IF left <= Dust
              THEN [after EXCEPT !.holding = Flat,
                                 !.tape.dustCost = @ + cost,
                                 !.tape.dust = @ + left,
                                 !.tape.closed = @ + 1,
                                 !.tape.told = @ + (acc.holding.realized + profit)]
              ELSE [after EXCEPT !.holding.quantity = left, !.holding.realized = @ + profit]
    BY <1>1, <1>5, <1>7, <1>10, <1>14, <1>15, <1>17, <1>19, <1>21, <1>23
       DEF Reduced, PeakAfter, CountsAsClosed, ToldAtClose, WithTraded
  <1>25. b - InitialBalance + acc.purse.fees
           = Scale * (c + acc.tape.dustCost + cost)
    <2>1. PICK e : e = acc.purse.balance - InitialBalance + acc.purse.fees
      OBVIOUS
    <2>2. e = Scale * (acc.tape.cash + acc.tape.dustCost + (s * (n + left)) * acc.holding.entry)
      BY <1>6, <1>7, <2>1 DEF Sound
    <2>3. e \in Int
      BY <1>12, <2>1, AccountNumbers
    <2>4. Scale \in Int /\ n \in Int /\ left \in Int /\ at \in Int
      BY <1>4, <1>6, AccountNumbers
    <2>5. e + profit = Scale * ((acc.tape.cash + (s * n) * at) + acc.tape.dustCost
                                 + (s * left) * acc.holding.entry)
      BY <1>3, <1>8, <1>9, <1>13, <2>2, <2>3, <2>4, MoneyMoves
    <2>6. e + profit = b - InitialBalance + acc.purse.fees
      BY <1>11, <1>12, <1>14, <2>1, AccountNumbers
    <2> QED BY <1>17, <1>21, <2>5, <2>6
  <1>26. acc.tape.told + (acc.holding.realized + profit) = b - InitialBalance + acc.purse.fees
    <2>1. acc.tape.told + acc.holding.realized
            = acc.purse.balance - InitialBalance + acc.purse.fees
      BY DEF Sound
    <2>2. PICK told : told = acc.tape.told
      OBVIOUS
    <2>3. PICK made : made = acc.holding.realized
      OBVIOUS
    <2>4. PICK had : had = acc.purse.balance
      OBVIOUS
    <2>5. PICK fees : fees = acc.purse.fees
      OBVIOUS
    <2>6. told \in Int /\ made \in Int /\ had \in Int /\ fees \in Int /\ InitialBalance \in Int
      BY <1>3, <1>12, <1>13, <2>2, <2>3, <2>4, <2>5, AccountNumbers
    <2>7. told + made = had - InitialBalance + fees /\ b = had + profit
      BY <1>14, <2>1, <2>2, <2>3, <2>4, <2>5
    <2>8. told + (made + profit) = b - InitialBalance + fees
      BY <1>11, <2>6, <2>7
    <2> QED BY <2>2, <2>3, <2>5, <2>8
  <1>27. CASE left <= Dust
    <2>1. PICK dc : dc = acc.tape.dustCost + cost
      OBVIOUS
    <2>2. PICK d : d = acc.tape.dust + left
      OBVIOUS
    <2>3. PICK m : m = acc.tape.closed + 1
      OBVIOUS
    <2>4. PICK t : t = acc.tape.told + (acc.holding.realized + profit)
      OBVIOUS
    <2>5. dc \in Int /\ d \in Nat /\ m \in Nat /\ t \in Int
      BY <1>3, <1>6, <1>11, <1>13, <1>22, <2>1, <2>2, <2>3, <2>4
    <2>6. to = WithClosed(after, dc, d, m, t)
      BY <1>20, <1>24, <1>27, <2>1, <2>2, <2>3, <2>4 DEF WithClosed
    <2>7. /\ to \in PaperAccounts
          /\ to.purse = after.purse /\ to.holding = Flat
          /\ to.tape.cash = after.tape.cash /\ to.tape.dustCost = dc
          /\ to.tape.dust = d /\ to.tape.closed = m /\ to.tape.told = t
      <3>1. after \in PaperAccounts
        BY <1>20
      <3>2. LET x == WithClosed(after, dc, d, m, t)
            IN  /\ x \in PaperAccounts
                /\ x.purse = after.purse /\ x.holding = Flat
                /\ x.tape.cash = after.tape.cash /\ x.tape.dustCost = dc
                /\ x.tape.dust = d /\ x.tape.closed = m /\ x.tape.told = t
        BY <2>5, <3>1, ClosedFields
      <3> QED BY <2>6, <3>2
    <2>8. d <= Dust * m
      <3>1. acc.tape.dust <= Dust * acc.tape.closed
        BY DEF Sound
      <3>2. Dust * m = Dust * acc.tape.closed + Dust
        BY <1>13, <2>3, AccountNumbers
      <3>3. Dust * acc.tape.closed \in Nat
        BY <1>13, AccountNumbers, ProductIsNatural
      <3> QED BY <1>6, <1>13, <1>27, <2>2, <3>1, <3>2, <3>3, AccountNumbers
    <2>9. (Sign(to.holding.side) * to.holding.quantity) * to.holding.entry = 0
      BY <2>7, SignIs, FlatIs
    <2>10. c + dc + 0 = c + acc.tape.dustCost + cost
      BY <1>13, <1>18, <1>22, <2>1
    <2>11. t + 0 = b - InitialBalance + acc.purse.fees
      BY <1>26, <2>4, <2>5
    <2>12. Sound(to)
      BY <1>16, <1>20, <1>25, <2>7, <2>8, <2>9, <2>10, <2>11, FlatIs DEF Sound
    <2>13. OnlyLess(acc, to)
      BY <1>13, <2>3, <2>7 DEF OnlyLess
    <2> QED BY <1>23, <2>12, <2>13
  <1>28. CASE ~(left <= Dust)
    <2>1. PICK r : r = acc.holding.realized + profit
      OBVIOUS
    <2>2. r \in Int
      BY <1>3, <1>11, <2>1
    <2>3. to = WithLeft(after, left, r)
      BY <1>20, <1>24, <1>28, <2>1 DEF WithLeft
    <2>4. /\ to \in PaperAccounts
          /\ to.purse = after.purse /\ to.tape = after.tape
          /\ to.holding.side = acc.holding.side /\ to.holding.quantity = left
          /\ to.holding.entry = acc.holding.entry /\ to.holding.realized = r
      BY <1>6, <1>20, <2>2, <2>3, LeftFields
    <2>5. left > 0
      BY <1>6, <1>28, AccountNumbers
    <2>6. acc.tape.told + r = b - InitialBalance + acc.purse.fees
      BY <1>26, <2>1
    <2>7. acc.tape.dust <= Dust * acc.tape.closed
      BY DEF Sound
    <2>8. Sound(to)
      BY <1>3, <1>7, <1>16, <1>20, <1>21, <1>25, <2>4, <2>5, <2>6, <2>7 DEF Sound
    <2>9. to.holding # Flat
      BY <2>4, <2>5, FlatIs
    <2>10. OnlyLess(acc, to)
      BY <1>6, <1>4, <1>3, <1>13, <1>20, <2>4, <2>9 DEF OnlyLess
    <2> QED BY <1>23, <2>8, <2>10
  <1> QED BY <1>27, <1>28

\* An entry from flat.
LEMMA OpenedIs ==
    ASSUME NEW acc, Sound(acc), acc.holding = Flat, NEW o, AnOrder(o), NEW at \in Nat
    PROVE  /\ Sound(OpenedPosition(acc, o, at))
           /\ OnlyLess(acc, OpenedPosition(acc, o, at))
  <1>1. acc \in PaperAccounts
    BY DEF Sound
  <1>2. o.side \in Sides /\ o.quantity \in Nat /\ o.quantity > 0
    BY DEF AnOrder
  <1>3. PICK h : h = [side |-> o.side, quantity |-> o.quantity, entry |-> at, mark |-> at,
                      realized |-> 0]
    OBVIOUS
  <1>4. h \in Holdings /\ h.side = o.side /\ h.quantity = o.quantity /\ h.entry = at
        /\ h.realized = 0
    BY <1>2, <1>3 DEF Holdings
  <1>5. PICK paid : paid = (Sign(o.side) * o.quantity) * at
    OBVIOUS
  <1>6. paid \in Int
    BY <1>2, <1>5, SignIs
  <1>7. acc.tape.cash \in Int /\ acc.tape.dustCost \in Int /\ acc.tape.closed \in Nat
    BY <1>1 DEF PaperAccounts
  <1>8. PICK c : c = acc.tape.cash - paid
    OBVIOUS
  <1>9. c \in Int
    BY <1>6, <1>7, <1>8
  <1>10. PICK to : to = WithOpened(acc, h, c)
    OBVIOUS
  <1>11. to = OpenedPosition(acc, o, at)
    BY <1>3, <1>5, <1>8, <1>10 DEF OpenedPosition, WithOpened
  <1>12. /\ to \in PaperAccounts
         /\ to.purse = acc.purse /\ to.holding = h
         /\ to.tape.cash = c /\ to.tape.dustCost = acc.tape.dustCost
         /\ to.tape.dust = acc.tape.dust /\ to.tape.closed = acc.tape.closed
         /\ to.tape.told = acc.tape.told
    BY <1>1, <1>4, <1>9, <1>10, OpenedFields
  <1>13. acc.tape.cash + acc.tape.dustCost + 0 = c + acc.tape.dustCost + paid
    BY <1>6, <1>7, <1>8
  <1>14. (Sign(acc.holding.side) * acc.holding.quantity) * acc.holding.entry = 0
    BY SignIs, FlatIs
  <1>15. (Sign(h.side) * h.quantity) * h.entry = paid
    BY <1>4, <1>5
  <1>16. acc.purse.balance - InitialBalance + acc.purse.fees
           = Scale * (acc.tape.cash + acc.tape.dustCost + 0)
    BY <1>14 DEF Sound
  <1>17. acc.holding.realized = 0
    BY FlatIs
  <1>18. Sound(to)
    BY <1>2, <1>4, <1>12, <1>13, <1>15, <1>16, <1>17 DEF Sound
  <1>19. OnlyLess(acc, to)
    BY <1>7, <1>12 DEF OnlyLess
  <1> QED BY <1>11, <1>18, <1>19

LEMMA LessThanItself ==
    ASSUME NEW acc, acc \in PaperAccounts
    PROVE  OnlyLess(acc, acc)
  BY DEF OnlyLess, PaperAccounts

LEMMA LessAndLess ==
    ASSUME NEW a, a \in PaperAccounts, NEW b, b \in PaperAccounts, NEW c, c \in PaperAccounts,
           OnlyLess(a, b), OnlyLess(b, c)
    PROVE  OnlyLess(a, c)
  <1>1. a.tape.closed \in Nat /\ b.tape.closed \in Nat /\ c.tape.closed \in Nat
    BY DEF PaperAccounts
  <1>2. a.holding.quantity \in Nat /\ b.holding.quantity \in Nat /\ c.holding.quantity \in Nat
    BY DEF PaperAccounts
  <1>3. a.tape.closed <= b.tape.closed /\ b.tape.closed <= c.tape.closed
    BY DEF OnlyLess
  <1>4. ASSUME a.holding # Flat, c.tape.closed = a.tape.closed
        PROVE  c.holding # Flat /\ c.holding.side = a.holding.side
               /\ c.holding.quantity <= a.holding.quantity
    <2>1. b.tape.closed = a.tape.closed /\ c.tape.closed = b.tape.closed
      BY <1>1, <1>3, <1>4
    <2>2. b.holding # Flat /\ b.holding.side = a.holding.side
          /\ b.holding.quantity <= a.holding.quantity
      BY <1>4, <2>1 DEF OnlyLess
    <2>3. c.holding # Flat /\ c.holding.side = b.holding.side
          /\ c.holding.quantity <= b.holding.quantity
      BY <2>1, <2>2 DEF OnlyLess
    <2> QED BY <1>2, <2>2, <2>3
  <1> QED BY <1>1, <1>3, <1>4 DEF OnlyLess

\* Any order that fills.
LEMMA UpdatedIs ==
    ASSUME NEW acc, Sound(acc), NEW o, AnOrder(o), NEW at \in Nat
    PROVE  /\ Sound(UpdatePosition(acc, o, at))
           /\ OnlyLess(acc, UpdatePosition(acc, o, at))
  <1>1. acc \in PaperAccounts /\ o.reduce \in BOOLEAN
    BY DEF Sound, AnOrder
  <1>2. OnlyLess(acc, acc)
    BY <1>1, LessThanItself
  <1>3. CASE acc.holding = Flat /\ o.reduce
    <2>1. UpdatePosition(acc, o, at) = acc
      BY <1>3 DEF UpdatePosition
    <2> QED BY <1>2, <2>1
  <1>4. CASE acc.holding = Flat /\ ~o.reduce
    <2>1. UpdatePosition(acc, o, at) = OpenedPosition(acc, o, at)
      BY <1>4 DEF UpdatePosition
    <2> QED BY <1>4, <2>1, OpenedIs
  <1>5. CASE acc.holding # Flat /\ (o.reduce \/ o.side # acc.holding.side)
    <2>1. UpdatePosition(acc, o, at) = Reduced(acc, o, at)
      BY <1>5 DEF UpdatePosition
    <2> QED BY <1>5, <2>1, ReducedIs
  <1>6. CASE acc.holding # Flat /\ ~(o.reduce \/ o.side # acc.holding.side)
    <2>1. UpdatePosition(acc, o, at) = acc
      BY <1>6 DEF UpdatePosition
    <2> QED BY <1>2, <2>1
  <1> QED BY <1>3, <1>4, <1>5, <1>6

LEMMA FilledIs ==
    ASSUME NEW acc, Sound(acc), NEW o, AnOrder(o), NEW at \in Nat, NEW rate \in Nat
    PROVE  Sound(Filled(acc, o, at, rate)) /\ OnlyLess(acc, Filled(acc, o, at, rate))
  <1>1. PICK paid : paid = Charged(acc, o.quantity, at, rate)
    OBVIOUS
  <1>2. o.quantity \in Nat
    BY DEF AnOrder
  <1>3. Sound(paid) /\ paid.holding = acc.holding /\ paid.tape = acc.tape
    BY <1>1, <1>2, ChargedIs
  <1>4. PICK to : to = UpdatePosition(paid, o, at)
    OBVIOUS
  <1>5. to = Filled(acc, o, at, rate)
    BY <1>1, <1>4 DEF Filled
  <1>6. Sound(to) /\ OnlyLess(paid, to)
    BY <1>3, <1>4, UpdatedIs
  <1>7. OnlyLess(acc, to)
    BY <1>3, <1>6 DEF OnlyLess
  <1> QED BY <1>5, <1>6, <1>7

-----------------------------------------------------------------------------
(* The loop over the open orders, a fold over the positions of the book.   *)

LEMMA LargestIsOne ==
    ASSUME NEW S, IsFiniteSet(S), S \subseteq Int, S # {}
    PROVE  Max(S) \in S /\ \A y \in S : y <= Max(S)
  <1> DEFINE Good == {T \in SUBSET S : T # {} => \E m \in T : \A y \in T : y <= m}
  <1>1. ASSUME NEW T \in SUBSET S, \A U \in SUBSET T : U # T => U \in Good
        PROVE  T \in Good
    <2>1. ASSUME T # {} PROVE \E m \in T : \A y \in T : y <= m
      <3>1. PICK c \in T : TRUE
        BY <2>1
      <3>2. T \ {c} \in Good
        BY <1>1, <3>1
      <3>3. CASE T \ {c} = {}
        <4>1. \A y \in T : y <= c
          BY <3>3, <3>1
        <4> QED BY <3>1, <4>1
      <3>4. CASE T \ {c} # {}
        <4>1. PICK m \in T \ {c} : \A y \in T \ {c} : y <= m
          BY <3>2, <3>4
        <4>2. PICK n : n = IF c >= m THEN c ELSE m
          OBVIOUS
        <4>3. n \in T /\ c <= n /\ m <= n
          BY <3>1, <4>1, <4>2
        <4>4. \A y \in T : y <= n
          BY <4>1, <4>3
        <4> QED BY <4>3, <4>4
      <3> QED BY <3>3, <3>4
    <2> QED BY <2>1
  <1> HIDE DEF Good
  <1>2. S \in Good
    BY <1>1, SubsetInduction
  <1>3. PICK m \in S : \A y \in S : y <= m
    BY <1>2 DEF Good
  <1>4. \E x \in S : \A y \in S : x >= y
    BY <1>3
  <1>5. Max(S) \in S /\ \A y \in S : Max(S) >= y
    BY <1>4 DEF Max
  <1> QED BY <1>5

\* What w says of the loop: the feed, the orders, and what it begins with.
LookOn(w, look, i) == LookAt(w.feed, look, w.orders[i])

\* g is what was looked at, and what came of it, by each subset of S.
Looks(w, S, g) ==
    g = [T \in SUBSET S |->
           IF T = {} THEN w.base ELSE LookOn(w, g[T \ {Max(T)}], Max(T))]

\* A finite set of positions.
Places(S) == IsFiniteSet(S) /\ S \subseteq Nat

LEMMA PlacesLargest ==
    ASSUME NEW S, Places(S), NEW T \in SUBSET S, T # {}
    PROVE  Max(T) \in T
  <1>1. IsFiniteSet(T)
    BY FS_Subset DEF Places
  <1>2. T \subseteq Int
    BY DEF Places
  <1> QED BY <1>1, <1>2, LargestIsOne

LEMMA PlacesSubset ==
    ASSUME NEW S, Places(S), NEW T \in SUBSET S
    PROVE  Places(T)
  BY FS_Subset DEF Places

LEMMA LookedIsChosen ==
    ASSUME NEW feed, NEW acc, NEW s, NEW w,
           w = [feed |-> feed, orders |-> s, base |-> [account |-> acc, left |-> <<>>]]
    PROVE  BookLooked(feed, acc, s) = (CHOOSE g : Looks(w, DOMAIN s, g))[DOMAIN s]
  <1>1. w.feed = feed /\ w.orders = s /\ w.base = [account |-> acc, left |-> <<>>]
    OBVIOUS
  <1> QED BY <1>1 DEF BookLooked, FoldLeft, MapThenFoldSet, Looks, LookOn

LEMMA LooksNone ==
    ASSUME NEW w, NEW S, NEW g, Looks(w, S, g)
    PROVE  g[{}] = w.base
  BY DEF Looks

\* The last of T, and what g has of it.
LastLook(w, g, T, c) == c = Max(T) /\ g[T] = LookOn(w, g[T \ {c}], c)

LEMMA LooksStep ==
    ASSUME NEW w, NEW S, Places(S), NEW g, Looks(w, S, g), NEW T \in SUBSET S, T # {}
    PROVE  \E c \in T : LastLook(w, g, T, c)
  <1>1. Max(T) \in T
    BY PlacesLargest
  <1>2. g[T] = LookOn(w, g[T \ {Max(T)}], Max(T))
    BY DEF Looks
  <1> QED BY <1>1, <1>2 DEF LastLook

LEMMA LooksAgree ==
    ASSUME NEW w, NEW S, Places(S), NEW g, Looks(w, S, g),
           NEW T \in SUBSET S, NEW h, Looks(w, T, h)
    PROVE  g[T] = h[T]
  <1> DEFINE Good == {U \in SUBSET T : g[U] = h[U]}
  <1>0. Places(T)
    BY PlacesSubset
  <1>1. ASSUME NEW U \in SUBSET T, \A V \in SUBSET U : V # U => V \in Good
        PROVE  U \in Good
    <2>0. U \in SUBSET S
      OBVIOUS
    <2>1. CASE U = {}
      <3>1. g[U] = w.base
        BY <2>1, LooksNone
      <3>2. h[U] = w.base
        BY <2>1, LooksNone
      <3> QED BY <3>1, <3>2
    <2>2. CASE U # {}
      <3>1. PICK c \in U : LastLook(w, g, U, c)
        BY <2>0, <2>2, LooksStep
      <3>2. PICK d \in U : LastLook(w, h, U, d)
        BY <1>0, <2>2, LooksStep
      <3>3. U \ {c} \in Good
        BY <1>1, <3>1
      <3> QED BY <3>1, <3>2, <3>3 DEF LastLook
    <2> QED BY <2>1, <2>2
  <1>2. IsFiniteSet(T)
    BY <1>0 DEF Places
  <1> HIDE DEF Good
  <1>3. T \in Good
    BY <1>1, <1>2, SubsetInduction
  <1> QED BY <1>3 DEF Good

LEMMA LooksPointwise ==
    ASSUME NEW w, NEW S, NEW g, g = [T \in SUBSET S |-> g[T]],
           \A T \in SUBSET S :
             g[T] = IF T = {} THEN w.base ELSE LookOn(w, g[T \ {Max(T)}], Max(T))
    PROVE  Looks(w, S, g)
  <1>1. PICK h : h = [T \in SUBSET S |->
                        IF T = {} THEN w.base ELSE LookOn(w, g[T \ {Max(T)}], Max(T))]
    OBVIOUS
  <1>2. h = [T \in SUBSET S |-> h[T]] /\ \A T \in SUBSET S : g[T] = h[T]
    BY <1>1
  <1>3. g = h
    BY <1>2, SameFunction
  <1> QED BY <1>1, <1>3 DEF Looks

LEMMA LooksExists ==
    ASSUME NEW w, NEW S, Places(S)
    PROVE  \E g : Looks(w, S, g)
  <1> DEFINE Good == {T \in SUBSET S : \E g : Looks(w, T, g)}
  <1>1. ASSUME NEW T \in SUBSET S, \A U \in SUBSET T : U # T => U \in Good
        PROVE  T \in Good
    <2> DEFINE at(U) == (CHOOSE g : Looks(w, U, g))[U]
               all == [U \in SUBSET T |->
                         IF U = {} THEN w.base ELSE LookOn(w, at(U \ {Max(U)}), Max(U))]
    <2>0. Places(T)
      BY PlacesSubset
    <2>1. ASSUME NEW U \in SUBSET T, U # T PROVE all[U] = at(U)
      <3>0. Places(U)
        BY <2>0, PlacesSubset
      <3>1. PICK g : g = CHOOSE h : Looks(w, U, h)
        OBVIOUS
      <3>2. Looks(w, U, g)
        BY <1>1, <2>1, <3>1
      <3>3. CASE U = {}
        <4>1. g[U] = w.base
          BY <3>2, <3>3, LooksNone
        <4> QED BY <3>1, <3>3, <4>1
      <3>4. CASE U # {}
        <4>1. U \in SUBSET U
          OBVIOUS
        <4>2. PICK c \in U : LastLook(w, g, U, c)
          BY <3>0, <3>2, <3>4, <4>1, LooksStep
        <4>3. PICK h : h = CHOOSE k : Looks(w, U \ {c}, k)
          OBVIOUS
        <4>4. Looks(w, U \ {c}, h)
          BY <1>1, <2>1, <4>2, <4>3
        <4>5. g[U \ {c}] = h[U \ {c}]
          BY <3>0, <3>2, <4>4, LooksAgree
        <4> QED BY <3>1, <3>4, <4>2, <4>3, <4>5 DEF LastLook
      <3> QED BY <3>3, <3>4
    <2>2. ASSUME NEW U \in SUBSET T, U # {} PROVE all[U \ {Max(U)}] = at(U \ {Max(U)})
      <3>1. Max(U) \in U
        BY <2>0, <2>2, PlacesLargest
      <3>2. U \ {Max(U)} \in SUBSET T /\ U \ {Max(U)} # T
        BY <3>1
      <3> QED BY <2>1, <3>2
    <2>3. PICK g : g = all
      OBVIOUS
    <2>4. g = [U \in SUBSET T |-> g[U]]
      BY <2>3
    <2>5. ASSUME NEW U \in SUBSET T
          PROVE  g[U] = IF U = {} THEN w.base ELSE LookOn(w, g[U \ {Max(U)}], Max(U))
      <3>1. g[U] = IF U = {} THEN w.base ELSE LookOn(w, at(U \ {Max(U)}), Max(U))
        BY <2>3
      <3>2. U # {} => g[U \ {Max(U)}] = at(U \ {Max(U)})
        BY <2>2, <2>3
      <3> QED BY <3>1, <3>2
    <2> HIDE DEF at, all
    <2>6. Looks(w, T, g)
      BY <2>4, <2>5, LooksPointwise
    <2> QED BY <2>6
  <1> HIDE DEF Good
  <1>0. IsFiniteSet(S)
    BY DEF Places
  <1>2. S \in Good
    BY <1>0, <1>1, SubsetInduction
  <1> QED BY <1>2 DEF Good

-----------------------------------------------------------------------------
(* What the loop makes of the account.                                     *)

PaperOrders ==
    [type : {"limit", "stop"}, side : Sides, quantity : Nat \ {0}, at : Quotes,
     reduce : BOOLEAN]

Feeds == [price : Quotes, slip : 1..Slip, better : 0..Better]

\* After a look at n orders, of the account that was acc before.
GoodLook(acc, look, n) ==
    /\ look \in [account : PaperAccounts, left : Seq(PaperOrders)]
    /\ Sound(look.account) /\ OnlyLess(acc, look.account)
    /\ Len(look.left) <= n

\* No fill is at a price below zero.
LEMMA PricesArePositive ==
    ASSUME NEW q \in Quotes, NEW side \in Sides, NEW s \in Nat, s <= Slip \/ s <= Better
    PROVE  q + Sign(side) * s \in Nat /\ q - Sign(side) * s \in Nat
  <1>1. q \in Nat /\ Slip < q /\ Better < q
    BY AccountAssumption
  <1>2. Slip \in Nat /\ Better \in Nat
    BY AccountNumbers
  <1>3. s < q
    BY <1>1, <1>2
  <1>4. CASE side = "buy"
    <2>1. Sign(side) = 1
      BY <1>4 DEF Sign
    <2> QED BY <1>1, <1>3, <2>1
  <1>5. CASE side = "sell"
    <2>1. Sign(side) = -1
      BY <1>5 DEF Sign
    <2>2. q + (-1) * s = q - s /\ q - (-1) * s = q + s
      BY <1>1
    <2> QED BY <1>1, <1>3, <2>1, <2>2
  <1> QED BY <1>4, <1>5 DEF Sides

LEMMA OrderIsOrder ==
    ASSUME NEW o \in PaperOrders
    PROVE  AnOrder(o) /\ o.at \in Quotes
  BY DEF PaperOrders, AnOrder

LEMMA LookAtIs ==
    ASSUME NEW acc, acc \in PaperAccounts, NEW look, NEW n \in Nat, GoodLook(acc, look, n),
           NEW feed \in Feeds, NEW o \in PaperOrders
    PROVE  GoodLook(acc, LookAt(feed, look, o), n + 1)
  <1>1. look \in [account : PaperAccounts, left : Seq(PaperOrders)]
        /\ Sound(look.account) /\ OnlyLess(acc, look.account) /\ Len(look.left) <= n
    BY DEF GoodLook
  <1>2. PICK to : to = LookAt(feed, look, o)
    OBVIOUS
  <1>3. CASE ~Crossed(o, feed.price)
    <2>1. PICK left : left = Append(look.left, o)
      OBVIOUS
    <2>2. left \in Seq(PaperOrders) /\ Len(left) = Len(look.left) + 1
      BY <1>1, <2>1
    <2>3. to = [look EXCEPT !.left = left]
      BY <1>2, <1>3, <2>1 DEF LookAt
    <2>4. to \in [account : PaperAccounts, left : Seq(PaperOrders)]
          /\ to.account = look.account /\ to.left = left
      BY <1>1, <2>2, <2>3
    <2>5. Len(look.left) \in Nat
      BY <1>1
    <2> QED BY <1>1, <1>2, <2>2, <2>4, <2>5 DEF GoodLook
  <1>4. CASE Crossed(o, feed.price)
    <2>1. PICK rate : rate = IF o.type = "limit" THEN MakerFee ELSE TakerFee
      OBVIOUS
    <2>2. PICK at : at = IF o.type = "limit" THEN o.at - Sign(o.side) * feed.better
                         ELSE feed.price + Sign(o.side) * feed.slip
      OBVIOUS
    <2>3. feed.price \in Quotes /\ feed.slip \in Nat /\ feed.slip <= Slip
          /\ feed.better \in Nat /\ feed.better <= Better
      BY AccountNumbers DEF Feeds
    <2>4. AnOrder(o) /\ o.at \in Quotes /\ o.side \in Sides
      BY OrderIsOrder DEF AnOrder
    <2>5. at \in Nat /\ rate \in Nat
      <3>1. o.at - Sign(o.side) * feed.better \in Nat
        BY <2>3, <2>4, PricesArePositive
      <3>2. feed.price + Sign(o.side) * feed.slip \in Nat
        BY <2>3, <2>4, PricesArePositive
      <3> QED BY <2>1, <2>2, <3>1, <3>2, AccountNumbers
    <2>6. PICK filled : filled = Filled(look.account, o, at, rate)
      OBVIOUS
    <2>7. Sound(filled) /\ OnlyLess(look.account, filled)
      BY <1>1, <2>4, <2>5, <2>6, FilledIs
    <2>8. to = [look EXCEPT !.account = filled]
      BY <1>2, <1>4, <2>1, <2>2, <2>6 DEF LookAt
    <2>9. filled \in PaperAccounts
      BY <2>7 DEF Sound
    <2>10. to \in [account : PaperAccounts, left : Seq(PaperOrders)]
           /\ to.account = filled /\ to.left = look.left
      BY <1>1, <2>8, <2>9
    <2>11. OnlyLess(acc, filled)
      BY <1>1, <2>7, <2>9, LessAndLess
    <2>12. Len(look.left) \in Nat
      BY <1>1
    <2> QED BY <1>1, <1>2, <2>7, <2>10, <2>11, <2>12 DEF GoodLook
  <1> QED BY <1>3, <1>4

\* check_limit_orders, whatever it finds.
LEMMA BookLookedIs ==
    ASSUME NEW acc, Sound(acc), NEW feed \in Feeds, NEW s \in Seq(PaperOrders)
    PROVE  GoodLook(acc, BookLooked(feed, acc, s), Len(s))
  <1>1. PICK w : w = [feed |-> feed, orders |-> s, base |-> [account |-> acc, left |-> <<>>]]
    OBVIOUS
  <1>2. PICK D : D = DOMAIN s
    OBVIOUS
  <1>3. D = 1..Len(s) /\ Len(s) \in Nat
    BY <1>2
  <1>4. IsFiniteSet(D) /\ Cardinality(D) = Len(s)
    BY <1>3, FS_Interval
  <1>5. Places(D)
    BY <1>3, <1>4 DEF Places
  <1>6. PICK g : g = CHOOSE h : Looks(w, D, h)
    OBVIOUS
  <1>7. Looks(w, D, g)
    BY <1>5, <1>6, LooksExists
  <1>8. BookLooked(feed, acc, s) = g[D]
    BY <1>1, <1>2, <1>6, LookedIsChosen
  <1>9. acc \in PaperAccounts
    BY DEF Sound
  <1> DEFINE Good == {T \in SUBSET D : GoodLook(acc, g[T], Cardinality(T))}
  <1>10. ASSUME NEW T \in SUBSET D, \A U \in SUBSET T : U # T => U \in Good
         PROVE  T \in Good
    <2>1. IsFiniteSet(T)
      BY <1>4, FS_Subset
    <2>2. CASE T = {}
      <3>1. g[T] = [account |-> acc, left |-> <<>>]
        BY <1>1, <1>7, <2>2, LooksNone
      <3>2. PICK look : look = [account |-> acc, left |-> <<>>]
        OBVIOUS
      <3>3. look \in [account : PaperAccounts, left : Seq(PaperOrders)]
            /\ look.account = acc /\ look.left = <<>>
        BY <1>9, <3>2
      <3>4. GoodLook(acc, look, 0)
        BY <1>9, <3>3, LessThanItself DEF GoodLook
      <3>5. Cardinality(T) = 0
        BY <2>2, FS_EmptySet
      <3> QED BY <3>1, <3>2, <3>4, <3>5
    <2>3. CASE T # {}
      <3>1. PICK c \in T : LastLook(w, g, T, c)
        BY <1>5, <1>7, <2>3, LooksStep
      <3>2. PICK U : U = T \ {c}
        OBVIOUS
      <3>3. GoodLook(acc, g[U], Cardinality(U))
        BY <1>10, <3>1, <3>2
      <3>4. Cardinality(U) \in Nat /\ Cardinality(T) = Cardinality(U) + 1
        <4>1. IsFiniteSet(U) /\ Cardinality(U) = Cardinality(T) - 1
          BY <2>1, <3>1, <3>2, FS_RemoveElement
        <4> QED BY <2>1, <4>1, FS_CardinalityType
      <3>5. w.orders[c] \in PaperOrders
        BY <1>1, <1>2, <3>1
      <3>6. g[T] = LookAt(feed, g[U], w.orders[c])
        BY <1>1, <3>1, <3>2 DEF LastLook, LookOn
      <3>7. GoodLook(acc, g[T], Cardinality(U) + 1)
        BY <1>9, <3>3, <3>4, <3>5, <3>6, LookAtIs
      <3> QED BY <3>4, <3>7
    <2> QED BY <2>2, <2>3
  <1> HIDE DEF Good
  <1>11. D \in Good
    BY <1>4, <1>10, SubsetInduction
  <1>12. GoodLook(acc, g[D], Cardinality(D))
    BY <1>11 DEF Good
  <1> QED BY <1>4, <1>8, <1>12

LEMMA MarkedAtIs ==
    ASSUME NEW acc, Sound(acc), NEW q \in Quotes
    PROVE  /\ Sound(MarkedAt(acc, q)) /\ OnlyLess(acc, MarkedAt(acc, q))
  <1>1. acc \in PaperAccounts
    BY DEF Sound
  <1>2. CASE acc.holding = Flat
    <2>1. MarkedAt(acc, q) = acc
      BY <1>2 DEF MarkedAt
    <2> QED BY <1>1, <2>1, LessThanItself
  <1>3. CASE acc.holding # Flat
    <2>1. PICK to : to = [acc EXCEPT !.holding.mark = q]
      OBVIOUS
    <2>2. to = MarkedAt(acc, q)
      BY <1>3, <2>1 DEF MarkedAt
    <2>3. q \in Int
      BY AccountAssumption
    <2>4. /\ to \in PaperAccounts /\ to.purse = acc.purse /\ to.tape = acc.tape
          /\ to.holding.side = acc.holding.side /\ to.holding.quantity = acc.holding.quantity
          /\ to.holding.entry = acc.holding.entry /\ to.holding.realized = acc.holding.realized
      BY <1>1, <2>1, <2>3 DEF PaperAccounts
    <2>5. acc.holding.side \in Sides
      BY <1>3 DEF Sound
    <2>6. to.holding # Flat
      BY <2>4, <2>5, FlatIs DEF Sides
    <2>7. Sound(to)
      BY <1>3, <2>4 DEF Sound
    <2>8. acc.holding.quantity \in Nat /\ acc.tape.closed \in Nat
      BY <1>1 DEF PaperAccounts
    <2>9. OnlyLess(acc, to)
      BY <2>4, <2>6, <2>8 DEF OnlyLess
    <2> QED BY <2>2, <2>7, <2>9
  <1> QED BY <1>2, <1>3

-----------------------------------------------------------------------------
(* The actions.                                                            *)

AccountInv ==
    /\ quote \in {0} \union Quotes /\ placed \in 0..MaxPlaced
    /\ resting \in Seq(PaperOrders) /\ Len(resting) <= placed
    /\ Sound(Now)
    /\ quote = 0 => holding = Flat \/ holding.mark \in Quotes

\* A step of the engine that keeps the invariant, and makes the position no more.
Keeps == AccountInv' /\ OnlyLess(Now, Now')

LEMMA NowFields ==
    Now.purse = purse /\ Now.holding = holding /\ Now.tape = tape
  BY DEF Now

LEMMA BecomesIs ==
    ASSUME NEW acc \in PaperAccounts, Becomes(acc)
    PROVE  Now' = acc
  <1>1. acc = [purse |-> acc.purse, holding |-> acc.holding, tape |-> acc.tape]
    BY DEF PaperAccounts
  <1>2. Now' = [purse |-> acc.purse, holding |-> acc.holding, tape |-> acc.tape]
    BY DEF Becomes, Now
  <1> QED BY <1>1, <1>2

LEMMA AccountSame ==
    ASSUME AccountInv, UNCHANGED <<purse, holding, tape>>
    PROVE  Sound(Now') /\ OnlyLess(Now, Now')
  <1>1. PICK acc : acc = Now
    OBVIOUS
  <1>2. Now' = acc
    BY <1>1 DEF Now
  <1>3. Sound(acc) /\ acc \in PaperAccounts
    BY <1>1 DEF AccountInv, Sound
  <1> QED BY <1>1, <1>2, <1>3, LessThanItself

LEMMA MarketFillsArePrices ==
    ASSUME NEW side \in Sides, NEW q \in Quotes, NEW at \in MarketFills(side, q)
    PROVE  at \in Nat
  <1>1. PICK s \in 1..Slip : at = q + Sign(side) * s
    BY DEF MarketFills
  <1>2. s \in Nat /\ s <= Slip
    BY <1>1, AccountNumbers
  <1> QED BY <1>1, <1>2, PricesArePositive

\* A market order fills.
LEMMA MarketFilled ==
    ASSUME AccountInv, NEW side \in Sides, NEW n \in Nat \ {0}, NEW reduce \in BOOLEAN,
           NEW q \in Quotes, NEW at \in MarketFills(side, q),
           Becomes(Filled(Now, PaperOrder("market", side, n, 0, reduce), at, TakerFee))
    PROVE  Sound(Now') /\ OnlyLess(Now, Now')
  <1>1. PICK o : o = PaperOrder("market", side, n, 0, reduce)
    OBVIOUS
  <1>2. AnOrder(o)
    BY <1>1 DEF PaperOrder, AnOrder
  <1>3. PICK acc : acc = Now
    OBVIOUS
  <1>4. Sound(acc)
    BY <1>3 DEF AccountInv
  <1>5. PICK to : to = Filled(acc, o, at, TakerFee)
    OBVIOUS
  <1>6. at \in Nat /\ TakerFee \in Nat
    BY MarketFillsArePrices, AccountNumbers
  <1>7. Sound(to) /\ OnlyLess(acc, to)
    BY <1>2, <1>4, <1>5, <1>6, FilledIs
  <1>8. Becomes(to) /\ to \in PaperAccounts
    BY <1>1, <1>3, <1>5, <1>7 DEF Sound
  <1>9. Now' = to
    BY <1>8, BecomesIs
  <1> QED BY <1>3, <1>7, <1>9

LEMMA PlaceMarketKeeps ==
    ASSUME AccountInv, NEW side \in Sides, NEW n \in Nat \ {0}, NEW reduce \in BOOLEAN,
           PlaceMarketOrder(side, n, reduce)
    PROVE  Keeps
  <1>1. PICK o : o = PaperOrder("market", side, n, 0, reduce)
    OBVIOUS
  <1>2. PICK q \in IF quote > 0 THEN {quote} ELSE Quotes :
            /\ quote' = q
            /\ IF Refused(o, q) THEN UNCHANGED <<purse, holding, tape>>
               ELSE \E at \in MarketFills(side, q) : Becomes(Filled(Now, o, at, TakerFee))
    BY <1>1 DEF PlaceMarketOrder, PaperOrder
  <1>3. q \in Quotes
    BY <1>2 DEF AccountInv
  <1>4. quote' \in Quotes /\ quote' # 0
    BY <1>2, <1>3, AccountAssumption
  <1>5. placed' \in 0..MaxPlaced /\ resting' = resting /\ Len(resting') <= placed'
    BY AccountNumbers DEF PlaceMarketOrder, AccountInv
  <1>6. CASE Refused(o, q)
    <2>1. UNCHANGED <<purse, holding, tape>>
      BY <1>2, <1>6
    <2> QED BY <1>4, <1>5, <2>1, AccountSame DEF Keeps, AccountInv
  <1>7. CASE ~Refused(o, q)
    <2>1. PICK at \in MarketFills(side, q) : Becomes(Filled(Now, o, at, TakerFee))
      BY <1>2, <1>7
    <2>2. Sound(Now') /\ OnlyLess(Now, Now')
      BY <1>1, <1>3, <2>1, MarketFilled
    <2> QED BY <1>4, <1>5, <2>2 DEF Keeps, AccountInv
  <1> QED BY <1>6, <1>7

LEMMA RestsKeeps ==
    ASSUME AccountInv, NEW o \in PaperOrders, Rests(o)
    PROVE  Keeps
  <1>1. placed' = placed + 1 /\ placed' \in 0..MaxPlaced
    BY AccountNumbers DEF Rests, AccountInv
  <1>2. resting' \in Seq(PaperOrders) /\ Len(resting') <= Len(resting) + 1
    BY DEF Rests, AccountInv
  <1>3. Len(resting) \in Nat /\ Len(resting') \in Nat /\ placed \in Nat
    BY <1>2 DEF AccountInv
  <1>4. Sound(Now') /\ OnlyLess(Now, Now')
    BY AccountSame DEF Rests
  <1>5. UNCHANGED <<quote, holding>>
    BY DEF Rests
  <1> QED BY <1>1, <1>2, <1>3, <1>4, <1>5 DEF Keeps, AccountInv

LEMMA Shortened ==
    ASSUME NEW S, NEW s \in Seq(S), NEW i \in DOMAIN s
    PROVE  RemoveAt(s, i) \in Seq(S) /\ Len(RemoveAt(s, i)) <= Len(s)
  <1>1. PICK a : a = SubSeq(s, 1, i - 1)
    OBVIOUS
  <1>2. PICK b : b = SubSeq(s, i + 1, Len(s))
    OBVIOUS
  <1>3. i \in 1..Len(s) /\ Len(s) \in Nat
    OBVIOUS
  <1>4. a \in Seq(S) /\ Len(a) = i - 1
    BY <1>1, <1>3
  <1>5. b \in Seq(S) /\ Len(b) = Len(s) - i
    BY <1>2, <1>3
  <1>6. RemoveAt(s, i) = a \o b
    BY <1>1, <1>2 DEF RemoveAt
  <1> QED BY <1>3, <1>4, <1>5, <1>6

LEMMA CancelKeeps ==
    ASSUME AccountInv, NEW i \in DOMAIN resting, CancelOrder(i)
    PROVE  Keeps
  <1>1. PICK s : s = resting
    OBVIOUS
  <1>2. s \in Seq(PaperOrders) /\ i \in DOMAIN s /\ resting' = RemoveAt(s, i)
    BY <1>1 DEF CancelOrder, AccountInv
  <1>3. resting' \in Seq(PaperOrders) /\ Len(resting') <= Len(s)
    BY <1>2, Shortened
  <1>4. Len(s) \in Nat /\ Len(resting') \in Nat /\ placed \in Nat /\ Len(s) <= placed
    BY <1>1, <1>2, <1>3 DEF AccountInv
  <1>5. Sound(Now') /\ OnlyLess(Now, Now')
    BY AccountSame DEF CancelOrder
  <1>6. UNCHANGED <<quote, placed, holding>>
    BY DEF CancelOrder
  <1> QED BY <1>3, <1>4, <1>5, <1>6 DEF Keeps, AccountInv

LEMMA CancelAllKeeps ==
    ASSUME AccountInv, CancelAllOrders
    PROVE  Keeps
  <1>1. resting' \in Seq(PaperOrders) /\ Len(resting') = 0
    BY DEF CancelAllOrders
  <1>2. Sound(Now') /\ OnlyLess(Now, Now')
    BY AccountSame DEF CancelAllOrders
  <1>3. UNCHANGED <<quote, placed, holding>> /\ placed >= 0
    BY DEF CancelAllOrders, AccountInv
  <1> QED BY <1>1, <1>2, <1>3 DEF Keeps, AccountInv

LEMMA WithoutPriceKeeps ==
    ASSUME AccountInv, MarketWithoutPrice
    PROVE  Keeps
  <1>1. placed' = placed + 1 /\ placed' \in 0..MaxPlaced
    BY AccountNumbers DEF MarketWithoutPrice, AccountInv
  <1>2. Sound(Now') /\ OnlyLess(Now, Now')
    BY AccountSame DEF MarketWithoutPrice
  <1>3. UNCHANGED <<quote, holding, resting>>
    BY DEF MarketWithoutPrice
  <1>4. Len(resting) \in Nat /\ placed \in Nat
    BY DEF AccountInv
  <1> QED BY <1>1, <1>2, <1>3, <1>4 DEF Keeps, AccountInv

LEMMA HeldIsSided ==
    ASSUME AccountInv, holding # Flat
    PROVE  /\ holding.side \in Sides /\ Counter(holding.side) \in Sides
           /\ holding.quantity \in Nat \ {0}
  <1>1. PICK acc : acc = Now
    OBVIOUS
  <1>2. Sound(acc) /\ acc.holding = holding
    BY <1>1, NowFields DEF AccountInv
  <1>3. acc.holding.side \in Sides /\ acc.holding.quantity \in Nat /\ acc.holding.quantity > 0
    BY <1>2 DEF Sound, PaperAccounts
  <1> QED BY <1>2, <1>3 DEF Sides, Counter

LEMMA ClosePaperKeeps ==
    ASSUME AccountInv, ClosePaperPosition
    PROVE  Keeps
  <1>1. holding # Flat
    BY DEF ClosePaperPosition
  <1>2. PICK side : side = Counter(holding.side)
    OBVIOUS
  <1>3. PICK n : n = holding.quantity
    OBVIOUS
  <1>4. side \in Sides /\ n \in Nat \ {0}
    BY <1>1, <1>2, <1>3, HeldIsSided
  <1>5. PlaceMarketOrder(side, n, TRUE)
    BY <1>2, <1>3 DEF ClosePaperPosition
  <1> QED BY <1>4, <1>5, PlaceMarketKeeps

LEMMA CloseAllKeeps ==
    ASSUME AccountInv, CloseAllPositions
    PROVE  Keeps
  <1>1. holding # Flat
    BY DEF CloseAllPositions
  <1>2. PICK side : side = Counter(holding.side)
    OBVIOUS
  <1>3. PICK n : n = holding.quantity
    OBVIOUS
  <1>4. side \in Sides /\ n \in Nat \ {0}
    BY <1>1, <1>2, <1>3, HeldIsSided
  <1>5. PICK q : q = quote'
    OBVIOUS
  <1>6. q \in Quotes
    BY <1>1, <1>5 DEF CloseAllPositions, AccountInv
  <1>7. PICK at \in MarketFills(side, q) :
            Becomes(Filled(Now, PaperOrder("market", side, n, 0, TRUE), at, TakerFee))
    BY <1>2, <1>3, <1>5 DEF CloseAllPositions, PaperOrder
  <1>8. Sound(Now') /\ OnlyLess(Now, Now')
    BY <1>4, <1>6, <1>7, MarketFilled
  <1>9. quote' \in Quotes /\ quote' # 0
    BY <1>5, <1>6, AccountAssumption
  <1>10. UNCHANGED <<resting, placed>>
    BY DEF CloseAllPositions
  <1> QED BY <1>8, <1>9, <1>10 DEF Keeps, AccountInv

LEMMA FedKeeps ==
    ASSUME AccountInv, NEW q \in Quotes, PriceFed(q)
    PROVE  Keeps
  <1>1. PICK slip \in 1..Slip, better \in 0..Better :
            LET looked == BookLooked([price |-> q, slip |-> slip, better |-> better], Now, resting)
            IN  Becomes(MarkedAt(looked.account, q)) /\ resting' = looked.left
    BY DEF PriceFed
  <1>2. PICK acc : acc = Now
    OBVIOUS
  <1>3. PICK s : s = resting
    OBVIOUS
  <1>4. PICK feed : feed = [price |-> q, slip |-> slip, better |-> better]
    OBVIOUS
  <1>5. feed \in Feeds
    BY <1>1, <1>4 DEF Feeds
  <1>6. PICK looked : looked = BookLooked(feed, acc, s)
    OBVIOUS
  <1>7. Becomes(MarkedAt(looked.account, q)) /\ resting' = looked.left
    BY <1>1, <1>2, <1>3, <1>4, <1>6
  <1>8. Sound(acc) /\ s \in Seq(PaperOrders) /\ Len(s) <= placed /\ placed \in 0..MaxPlaced
    BY <1>2, <1>3 DEF AccountInv
  <1>9. GoodLook(acc, looked, Len(s))
    BY <1>5, <1>6, <1>8, BookLookedIs
  <1>10. looked \in [account : PaperAccounts, left : Seq(PaperOrders)]
         /\ Sound(looked.account) /\ OnlyLess(acc, looked.account) /\ Len(looked.left) <= Len(s)
    BY <1>9 DEF GoodLook
  <1>11. PICK to : to = MarkedAt(looked.account, q)
    OBVIOUS
  <1>12. Sound(to) /\ OnlyLess(looked.account, to)
    BY <1>10, <1>11, MarkedAtIs
  <1>13. acc \in PaperAccounts /\ looked.account \in PaperAccounts /\ to \in PaperAccounts
    BY <1>8, <1>10, <1>12 DEF Sound
  <1>14. OnlyLess(acc, to)
    BY <1>10, <1>12, <1>13, LessAndLess
  <1>15. Now' = to
    BY <1>7, <1>11, <1>13, BecomesIs
  <1>16. quote' \in Quotes /\ quote' # 0 /\ placed' = placed
    BY AccountAssumption DEF PriceFed
  <1>17. resting' \in Seq(PaperOrders) /\ Len(resting') <= placed'
    BY <1>7, <1>8, <1>10, <1>16
  <1> QED BY <1>2, <1>8, <1>12, <1>14, <1>15, <1>16, <1>17 DEF Keeps, AccountInv

LEMMA AccountBegins == AccountInit => AccountInv
  <1> SUFFICES ASSUME AccountInit PROVE AccountInv
    OBVIOUS
  <1>1. PICK n \in {0} \union Lots :
          LET at == Max(Quotes)
              fee == Commission(n, at, TakerFee)
          IN  /\ purse = [balance |-> InitialBalance - fee, fees |-> fee, peak |-> InitialBalance]
              /\ holding = IF n = 0 THEN Flat
                           ELSE [side |-> "buy", quantity |-> n, entry |-> at, mark |-> at,
                                 realized |-> 0]
              /\ tape = [cash |-> -n * at, dustCost |-> 0, dust |-> 0, closed |-> 0, told |-> 0]
    BY DEF AccountInit
  <1>2. n \in Nat
    BY <1>1, AccountAssumption
  <1>3. PICK at : at = Max(Quotes)
    OBVIOUS
  <1>4. at \in Quotes /\ at \in Nat
    <2>1. Quotes \subseteq Nat /\ Quotes \subseteq Int /\ Quotes # {} /\ IsFiniteSet(Quotes)
      BY AccountAssumption
    <2> QED BY <1>3, <2>1, LargestIsOne
  <1>5. PICK fee : fee = Commission(n, at, TakerFee)
    OBVIOUS
  <1>6. fee \in Nat /\ fee = (n * at) * TakerFee
    BY <1>2, <1>4, <1>5, FeeIsNatural, AccountNumbers DEF Commission
  <1>7. PICK paid : paid = -n * at
    OBVIOUS
  <1>8. paid \in Int
    BY <1>2, <1>4, <1>7
  <1>9. purse = [balance |-> InitialBalance - fee, fees |-> fee, peak |-> InitialBalance]
    BY <1>1, <1>3, <1>5
  <1>10. purse.balance = InitialBalance - fee /\ purse.fees = fee /\ purse.peak = InitialBalance
         /\ purse \in Purses
    BY <1>6, <1>9, AccountNumbers DEF Purses
  <1>11. holding = IF n = 0 THEN Flat
                   ELSE [side |-> "buy", quantity |-> n, entry |-> at, mark |-> at, realized |-> 0]
    BY <1>1, <1>3
  <1>12. holding \in Holdings /\ holding.realized = 0
         /\ (holding # Flat => holding.side \in Sides /\ holding.quantity > 0
                               /\ holding.mark \in Quotes)
         /\ (n = 0 => holding = Flat)
         /\ (n # 0 => holding.side = "buy" /\ holding.quantity = n /\ holding.entry = at)
    <2>1. CASE n = 0
      BY <1>11, <2>1, FlatIsHolding, FlatIs
    <2>2. CASE n # 0
      BY <1>2, <1>4, <1>11, <2>2 DEF Holdings, Sides
    <2> QED BY <2>1, <2>2
  <1>13. tape = [cash |-> paid, dustCost |-> 0, dust |-> 0, closed |-> 0, told |-> 0]
    BY <1>1, <1>3, <1>7
  <1>14. tape.cash = paid /\ tape.dustCost = 0 /\ tape.dust = 0 /\ tape.closed = 0
         /\ tape.told = 0 /\ tape \in Tapes
    BY <1>8, <1>13 DEF Tapes
  <1>15. PICK acc : acc = Now
    OBVIOUS
  <1>16. acc.purse = purse /\ acc.holding = holding /\ acc.tape = tape
    BY <1>15, NowFields
  <1>17. acc \in PaperAccounts
    BY <1>10, <1>12, <1>14, <1>15 DEF Now, PaperAccounts, Purses, Holdings, Tapes
  <1>18. paid + 0 + (Sign(holding.side) * holding.quantity) * holding.entry = 0
    <2>1. CASE n = 0
      <3>1. paid = 0
        BY <1>4, <1>7, <2>1
      <3>2. (Sign(holding.side) * holding.quantity) * holding.entry = 0
        BY <1>12, <2>1, FlatIs, SignIs
      <3> QED BY <3>1, <3>2
    <2>2. CASE n # 0
      <3>1. Sign(holding.side) = 1
        BY <1>12, <2>2 DEF Sign
      <3>2. (1 * n) * at = n * at
        BY <1>2, <1>4
      <3>3. -n * at + 0 + n * at = 0
        BY <1>2, <1>4
      <3> QED BY <1>7, <1>12, <2>2, <3>1, <3>2, <3>3
    <2> QED BY <2>1, <2>2
  <1>19. (InitialBalance - fee) - InitialBalance + fee = 0 /\ InitialBalance - fee <= InitialBalance
    BY <1>6, AccountNumbers
  <1>20. Scale * 0 = 0 /\ Dust * 0 = 0 /\ 0 <= 0
    BY AccountNumbers
  <1>21. Sound(acc)
    BY <1>10, <1>12, <1>14, <1>16, <1>17, <1>18, <1>19, <1>20 DEF Sound
  <1>22. quote = 0 /\ placed = 0 /\ placed \in 0..MaxPlaced
    BY AccountNumbers DEF AccountInit
  <1>23. resting \in Seq(PaperOrders) /\ Len(resting) = 0
    BY DEF AccountInit
  <1> QED BY <1>12, <1>15, <1>21, <1>22, <1>23 DEF AccountInv

LEMMA OrdersAre ==
    ASSUME NEW type \in {"limit", "stop"}, NEW side \in Sides, NEW n \in Nat \ {0},
           NEW at \in Quotes, NEW reduce \in BOOLEAN
    PROVE  PaperOrder(type, side, n, at, reduce) \in PaperOrders
  BY DEF PaperOrder, PaperOrders

LEMMA AccountKeeps ==
    ASSUME AccountInv, AccountNext
    PROVE  Keeps
  <1>1. ASSUME NEW side \in {"buy", "sell"}, NEW n \in Lots, PlaceMarketOrder(side, n, FALSE)
        PROVE  Keeps
    BY <1>1, PlaceMarketKeeps, AccountAssumption DEF Sides
  <1>2. ASSUME NEW side \in {"buy", "sell"}, NEW n \in Lots, NEW at \in Quotes,
               PlaceLimitOrder(side, n, at, FALSE)
        PROVE  Keeps
    <2>1. PICK o : o = PaperOrder("limit", side, n, at, FALSE)
      OBVIOUS
    <2>2. o \in PaperOrders
      BY <2>1, OrdersAre, AccountAssumption DEF Sides
    <2>3. Rests(o)
      BY <1>2, <2>1 DEF PlaceLimitOrder
    <2> QED BY <2>2, <2>3, RestsKeeps
  <1>3. ASSUME NEW n \in {p \in Parts : p <= holding.quantity}, NEW at \in Quotes,
               \/ PlaceLimitOrder(Counter(holding.side), n, at, TRUE)
               \/ PlaceStopLossOrder(Counter(holding.side), n, at)
        PROVE  Keeps
    <2>1. PICK side : side = Counter(holding.side)
      OBVIOUS
    <2>2. side \in Sides
      BY <2>1 DEF Counter, Sides
    <2>3. n \in Nat \ {0}
      BY AccountAssumption
    <2>4. PICK type : type \in {"limit", "stop"} /\ Rests(PaperOrder(type, side, n, at, TRUE))
      BY <1>3, <2>1 DEF PlaceLimitOrder, PlaceStopLossOrder
    <2>5. PICK o : o = PaperOrder(type, side, n, at, TRUE)
      OBVIOUS
    <2>6. o \in PaperOrders
      BY <2>2, <2>3, <2>4, <2>5, OrdersAre
    <2> QED BY <2>4, <2>5, <2>6, RestsKeeps
  <1>4. ASSUME NEW i \in DOMAIN resting, CancelOrder(i) PROVE Keeps
    BY <1>4, CancelKeeps
  <1>5. ASSUME NEW q \in Quotes, PriceFed(q) PROVE Keeps
    BY <1>5, FedKeeps
  <1> QED
    BY <1>1, <1>2, <1>3, <1>4, <1>5, WithoutPriceKeeps, ClosePaperKeeps, CloseAllKeeps, CancelAllKeeps
       DEF AccountNext

LEMMA AccountStays ==
    ASSUME AccountInv, UNCHANGED accountState
    PROVE  AccountInv'
  BY DEF AccountInv, accountState, Now

\* What the invariant says of the account as the engine has it.
LEMMA AccountSays ==
    ASSUME AccountInv
    PROVE  EquityIsConserved /\ DroppedIsDust /\ HookTellsTheAccount /\ AccountTypeOK
  <1>1. PICK acc : acc = Now
    OBVIOUS
  <1>2. Sound(acc) /\ acc.purse = purse /\ acc.holding = holding /\ acc.tape = tape
    BY <1>1, NowFields DEF AccountInv
  <1>3. EquityIsConserved
    BY <1>2 DEF Sound, EquityIsConserved
  <1>4. DroppedIsDust
    BY <1>2 DEF Sound, DroppedIsDust
  <1>5. tape.told \in Int
    BY <1>2 DEF Sound, PaperAccounts
  <1>6. HookTellsTheAccount
    <2> SUFFICES ASSUME holding = Flat
                 PROVE  tape.told = purse.balance - InitialBalance + purse.fees
      BY DEF HookTellsTheAccount
    <2>1. holding.realized = 0
      BY FlatIs
    <2>2. tape.told + holding.realized = purse.balance - InitialBalance + purse.fees
      BY <1>2 DEF Sound
    <2> QED BY <1>5, <2>1, <2>2
  <1>7. /\ holding.quantity \in Nat /\ (holding # Flat => holding.quantity > 0)
        /\ purse.fees \in Nat /\ purse.balance <= purse.peak
    BY <1>2 DEF Sound, PaperAccounts
  <1>8. AccountTypeOK
    BY <1>7, FlatIs DEF AccountTypeOK, AccountInv
  <1> QED BY <1>3, <1>4, <1>6, <1>8

LEMMA AccountIsInductive == AccountSpec => []AccountInv
  <1>1. AccountInv /\ [AccountNext]_accountState => AccountInv'
    BY AccountKeeps, AccountStays DEF Keeps
  <1> QED BY <1>1, AccountBegins, PTL DEF AccountSpec

\* The money of a paper account (paper_trading_engine.py): for any prices, sizes,
\* fees and slippage, any leverage and any number of orders, the account has what
\* its fills left it, no more than the dust is forgotten, the risk book is told what
\* a position made, and resting orders only close or reduce it.
THEOREM MoneyIsKept == AccountSpec => MoneyIsConserved
  <1>1. AccountInv => EquityIsConserved /\ DroppedIsDust /\ HookTellsTheAccount
    BY AccountSays
  <1>2. AccountInv /\ [AccountNext]_accountState =>
          [holding # Flat /\ holding' # Flat /\ tape'.closed = tape.closed =>
              /\ holding'.side = holding.side
              /\ holding'.quantity <= holding.quantity]_accountState
    <2> SUFFICES ASSUME AccountInv, AccountNext, holding # Flat, tape'.closed = tape.closed
                 PROVE  holding'.side = holding.side /\ holding'.quantity <= holding.quantity
      OBVIOUS
    <2>1. OnlyLess(Now, Now')
      BY AccountKeeps DEF Keeps
    <2>2. Now'.holding = holding' /\ Now'.tape = tape'
      BY DEF Now
    <2> QED BY <2>1, <2>2, NowFields DEF OnlyLess
  <1> QED
    BY <1>1, <1>2, AccountIsInductive, PTL DEF AccountSpec, MoneyIsConserved, NeverGrowsNorFlips

\* An account of a paper engine is one: no fee is negative and the balance never
\* passes the peak that the drawdown is taken from (paper_trading_engine.py).
THEOREM AccountTyped == AccountSpec => []AccountTypeOK
  <1>1. AccountInv => AccountTypeOK
    BY AccountSays
  <1> QED BY <1>1, AccountIsInductive, PTL

-----------------------------------------------------------------------------
(* The setup of a trade (SetupSafety).                                     *)

\* The largest and the least of a few numbers.
LEMMA LargerOfTwo ==
    ASSUME NEW a \in Int, NEW b \in Int
    PROVE  Max({a, b}) = IF a >= b THEN a ELSE b
  <1>1. PICK m \in {a, b} : m = IF a >= b THEN a ELSE b
    OBVIOUS
  <1>2. m \in Int /\ \A y \in {a, b} : m >= y
    BY <1>1
  <1>3. Max({a, b}) \in {a, b} /\ \A y \in {a, b} : Max({a, b}) >= y
    BY <1>2 DEF Max
  <1> QED BY <1>1, <1>3

LEMMA LesserOfTwo ==
    ASSUME NEW a \in Int, NEW b \in Int
    PROVE  Min({a, b}) = IF a <= b THEN a ELSE b
  <1>1. PICK m \in {a, b} : m = IF a <= b THEN a ELSE b
    OBVIOUS
  <1>2. m \in Int /\ \A y \in {a, b} : m <= y
    BY <1>1
  <1>3. Min({a, b}) \in {a, b} /\ \A y \in {a, b} : Min({a, b}) <= y
    BY <1>2 DEF Min
  <1> QED BY <1>1, <1>3

LEMMA LargestOfThree ==
    ASSUME NEW a \in Int, NEW b \in Int, NEW c \in Int
    PROVE  Max({a, b, c}) \in Int /\ Max({a, b, c}) >= b
  <1>1. IsFiniteSet({a, b, c})
    <2>1. IsFiniteSet({a} \cup {b})
      BY FS_AddElement, FS_Singleton
    <2>2. IsFiniteSet(({a} \cup {b}) \cup {c})
      BY <2>1, FS_AddElement
    <2>3. {a, b, c} = ({a} \cup {b}) \cup {c}
      OBVIOUS
    <2> QED BY <2>2, <2>3
  <1> QED BY <1>1, LargestIsOne

LEMMA DistanceIsNatural ==
    ASSUME NEW x \in Int
    PROVE  Absolute(x) \in Nat
  BY DEF Absolute

\* Some element of a finite set has the largest value.
LEMMA SomeHasMost ==
    ASSUME NEW S, IsFiniteSet(S), S # {}, NEW f, \A x \in S : f[x] \in Int
    PROVE  \E x \in S : \A y \in S : f[y] <= f[x]
  <1> DEFINE Good == {T \in SUBSET S : T # {} => \E x \in T : \A y \in T : f[y] <= f[x]}
  <1>1. ASSUME NEW T \in SUBSET S, \A U \in SUBSET T : U # T => U \in Good
        PROVE  T \in Good
    <2>1. ASSUME T # {} PROVE \E x \in T : \A y \in T : f[y] <= f[x]
      <3>1. PICK c \in T : TRUE
        BY <2>1
      <3>2. T \ {c} \in Good
        BY <1>1, <3>1
      <3>3. CASE T \ {c} = {}
        BY <3>1, <3>3
      <3>4. CASE T \ {c} # {}
        <4>1. PICK m \in T \ {c} : \A y \in T \ {c} : f[y] <= f[m]
          BY <3>2, <3>4
        <4>2. PICK n \in {c, m} : f[c] <= f[n] /\ f[m] <= f[n]
          BY <3>1, <4>1
        <4>3. \A y \in T : f[y] <= f[n]
          BY <3>1, <4>1, <4>2
        <4> QED BY <3>1, <4>1, <4>2, <4>3
      <3> QED BY <3>3, <3>4
    <2> QED BY <2>1
  <1> HIDE DEF Good
  <1>2. S \in Good
    BY <1>1, SubsetInduction
  <1> QED BY <1>2 DEF Good

LEMMA PlacesAreFinite ==
    ASSUME NEW n \in Nat
    PROVE  IsFiniteSet(1..n)
  <1>1. PICK one \in Int, top \in Int : one = 1 /\ top = n
    OBVIOUS
  <1>2. IsFiniteSet(one..top)
    BY FS_Interval
  <1> QED BY <1>1, <1>2

\* A sum over the three places of a sequence.
LEMMA SumOfThree ==
    ASSUME NEW f, DOMAIN f = 1..3, f[1] \in Int, f[2] \in Int, f[3] \in Int
    PROVE  SumFunction(f) = f[1] + f[2] + f[3]
  <1>1. 1..3 = {1, 2, 3}
    OBVIOUS
  <1>2. \A S \in SUBSET {1, 2, 3} : IsFiniteSet(S) /\ \A x \in S : f[x] \in Int
    <2>1. IsFiniteSet(1..3)
      <3>1. PICK n \in Nat : n = 3
        OBVIOUS
      <3> QED BY <3>1, PlacesAreFinite
    <2> QED BY <1>1, <2>1, FS_Subset
  <1>3. SumFunctionOnSet(f, {1, 2, 3}) = f[1] + SumFunctionOnSet(f, {2, 3})
    <2>1. {1, 2, 3} \ {1} = {2, 3} /\ {1, 2, 3} \in SUBSET {1, 2, 3} /\ 1 \in {1, 2, 3}
      OBVIOUS
    <2> QED BY <1>2, <2>1, SumRemove
  <1>4. SumFunctionOnSet(f, {2, 3}) = f[2] + SumFunctionOnSet(f, {3})
    <2>1. {2, 3} \ {2} = {3} /\ {2, 3} \in SUBSET {1, 2, 3} /\ 2 \in {2, 3}
      OBVIOUS
    <2> QED BY <1>2, <2>1, SumRemove
  <1>5. SumFunctionOnSet(f, {3}) = f[3] + SumFunctionOnSet(f, {})
    <2>1. {3} \ {3} = {} /\ {3} \in SUBSET {1, 2, 3} /\ 3 \in {3}
      OBVIOUS
    <2> QED BY <1>2, <2>1, SumRemove
  <1>6. SumFunctionOnSet(f, {}) = 0
    BY FS_EmptySet, SumChosen
  <1> QED BY <1>1, <1>3, <1>4, <1>5, <1>6 DEF SumFunction

\* The first two of naturals are no more than all of them.
LEMMA FirstTwoAtMostAll ==
    ASSUME NEW n \in Nat, n >= 2, NEW f, DOMAIN f = 1..n, \A i \in 1..n : f[i] \in Nat
    PROVE  SumFunction(f) \in Nat /\ f[1] + f[2] <= SumFunction(f)
  <1>1. IsFiniteSet(1..n) /\ IsFiniteSet((1..n) \ {1})
    <2>1. (1..n) \ {1} \in SUBSET (1..n)
      OBVIOUS
    <2> QED BY <2>1, PlacesAreFinite, FS_Subset
  <1>2. SumFunctionOnSet(f, 1..n) = f[1] + SumFunctionOnSet(f, (1..n) \ {1})
    BY <1>1, SumOfNaturals
  <1>3. 2 \in (1..n) \ {1}
    OBVIOUS
  <1>4. /\ SumFunctionOnSet(f, (1..n) \ {1}) \in Nat
        /\ f[2] <= SumFunctionOnSet(f, (1..n) \ {1})
    BY <1>1, <1>3, SumOfNaturals
  <1>5. f[1] \in Nat /\ f[2] \in Nat
    OBVIOUS
  <1> QED BY <1>2, <1>4, <1>5 DEF SumFunction

LEMMA SumOfIntegers ==
    ASSUME NEW n \in Nat, NEW f, DOMAIN f = 1..n, \A i \in 1..n : f[i] \in Int
    PROVE  SumFunction(f) \in Int
  BY PlacesAreFinite, SumType DEF SumFunction

-----------------------------------------------------------------------------
(* What the analysis yields.                                               *)

\* The average true range is never below zero.
LEMMA AtrIsNatural ==
    ASSUME NEW x \in SetupContexts
    PROVE  Atr(x) \in Nat
  <1>1. PICK c : c = x.candles
    OBVIOUS
  <1>2. c \in Seq([high : Int, low : Int, close : Int]) /\ x.atr \in Nat
    BY <1>1, SizingAssumption
  <1>3. PICK n \in Nat : n = Len(c) /\ DOMAIN c = 1..n
    BY <1>2
  <1>4. CASE n < 3
    BY <1>1, <1>2, <1>3, <1>4 DEF Atr, AtrFromCandles
  <1>5. CASE n >= 3
    <2>1. PICK t : t = TrueRanges(c)
      OBVIOUS
    <2>2. ASSUME NEW i \in 1..n - 1 PROVE t[i] \in Nat
      <3>1. c[i + 1] \in [high : Int, low : Int, close : Int]
            /\ c[i] \in [high : Int, low : Int, close : Int]
        <4>1. i \in 1..n /\ i + 1 \in 1..n
          BY <1>5
        <4> QED BY <1>2, <1>3, <4>1, ElementOfSeq
      <3>2. PICK h \in Int, l \in Int, b \in Int :
                h = c[i + 1].high /\ l = c[i + 1].low /\ b = c[i].close
        BY <3>1
      <3>3. t[i] = Max({h - l, Absolute(h - b), Absolute(l - b)})
        BY <1>3, <2>1, <3>2 DEF TrueRanges
      <3>4. PICK p \in Int, q \in Nat, r \in Nat :
                p = h - l /\ q = Absolute(h - b) /\ r = Absolute(l - b)
        <4>1. h - l \in Int /\ h - b \in Int /\ l - b \in Int
          OBVIOUS
        <4>2. Absolute(h - b) \in Nat /\ Absolute(l - b) \in Nat
          BY <4>1, DistanceIsNatural
        <4> QED BY <4>1, <4>2
      <3>5. Max({p, q, r}) \in Int /\ Max({p, q, r}) >= q
        BY LargestOfThree
      <3> QED BY <3>3, <3>4, <3>5
    <2>3. PICK s : s = SubSeq(t, n - 2, n - 1)
      OBVIOUS
    <2>4. s = [i \in 1..2 |-> t[i + n - 3]]
      <3>1. n - 1 - (n - 2) + 1 = 2
        BY <1>5
      <3> QED BY <1>5, <2>3, <3>1
    <2>5. DOMAIN s = 1..2 /\ \A i \in 1..2 : s[i] \in Nat
      BY <1>5, <2>2, <2>4
    <2>6. SumFunction(s) \in Nat
      <3>1. PICK two \in Nat : two = 2
        OBVIOUS
      <3>2. two >= 2 /\ DOMAIN s = 1..two /\ \A i \in 1..two : s[i] \in Nat
        BY <2>5, <3>1
      <3> QED BY <3>2, FirstTwoAtMostAll
    <2>7. AtrFromCandles(c, 2) = SumFunction(s) \div 2
      BY <1>3, <1>5, <2>1, <2>3 DEF AtrFromCandles
    <2>8. AtrFromCandles(c, 2) \in Nat
      BY <2>6, <2>7
    <2> QED BY <1>1, <1>2, <2>8 DEF Atr
  <1> QED BY <1>3, <1>4, <1>5

Opportunities == [direction : {"LONG", "SHORT"}, count : Nat, confidence : Nat]

\* Of opportunities, one is the best.
LEMMA OneIsBest ==
    ASSUME NEW o \in Seq(Opportunities), o # << >>
    PROVE  BestOpportunity(o).direction \in {"LONG", "SHORT"}
  <1> DEFINE Beats(a, b) == \/ o[a].count > o[b].count
                            \/ /\ o[a].count = o[b].count
                               /\ o[a].confidence > o[b].confidence
             Best(i) == /\ ~\E j \in DOMAIN o : Beats(j, i)
                        /\ \A j \in 1 .. i - 1 : Beats(i, j)
  <1>1. PICK n \in Nat : DOMAIN o = 1..n /\ n > 0
    OBVIOUS
  <1>2. \A i \in 1..n : o[i].count \in Nat /\ o[i].confidence \in Nat
                        /\ o[i].direction \in {"LONG", "SHORT"}
    <2>1. \A i \in 1..n : o[i] \in Opportunities
      BY <1>1, ElementOfSeq
    <2> QED BY <2>1 DEF Opportunities
  <1>3. IsFiniteSet(1..n) /\ 1 \in 1..n
    BY <1>1, PlacesAreFinite
  <1>4. PICK m \in 1..n : \A j \in 1..n : o[j].count <= o[m].count
    <2>1. PICK f : f = [i \in 1..n |-> o[i].count]
      OBVIOUS
    <2>2. \A i \in 1..n : f[i] = o[i].count /\ f[i] \in Int
      BY <1>2, <2>1
    <2>3. \E i \in 1..n : \A j \in 1..n : f[j] <= f[i]
      BY <1>3, <2>2, SomeHasMost
    <2> QED BY <2>2, <2>3
  <1> DEFINE Most == {i \in 1..n : o[i].count = o[m].count}
  <1>5. PICK k \in Most : \A j \in Most : o[j].confidence <= o[k].confidence
    <2>1. IsFiniteSet(Most) /\ m \in Most
      BY <1>3, FS_Subset
    <2>2. PICK f : f = [i \in 1..n |-> o[i].confidence]
      OBVIOUS
    <2>3. \A i \in Most : f[i] = o[i].confidence /\ f[i] \in Int
      BY <1>2, <2>2
    <2> HIDE DEF Most
    <2>4. \E i \in Most : \A j \in Most : f[j] <= f[i]
      BY <2>1, <2>3, SomeHasMost
    <2> QED BY <2>3, <2>4
  <1> DEFINE Surest == {i \in Most : o[i].confidence = o[k].confidence}
  <1>6. PICK i \in Surest : \A j \in Surest : i <= j
    <2>1. Surest \in SUBSET Nat /\ Surest # {}
      BY <1>5
    <2> QED BY <2>1, LeastNatural
  <1>7. \A j \in 1..n : ~Beats(j, i)
    BY <1>2, <1>4, <1>5, <1>6
  <1>8. ASSUME NEW j \in 1 .. i - 1 PROVE Beats(i, j)
    <2>1. j \in 1..n /\ j < i
      BY <1>6
    <2>2. j \notin Surest
      BY <1>6, <2>1
    <2> QED BY <1>2, <1>4, <1>5, <1>6, <2>1, <2>2
  <1>9. \E b \in 1..n : Best(b)
    BY <1>1, <1>6, <1>7, <1>8
  <1> HIDE DEF Best
  <1>10. (CHOOSE b \in 1..n : Best(b)) \in 1..n
    BY <1>9
  <1>11. BestOpportunity(o) = o[CHOOSE b \in 1..n : Best(b)]
    BY <1>1 DEF BestOpportunity, Best
  <1> QED BY <1>2, <1>10, <1>11

Answered(r) ==
    /\ {r.entry, r.stop, r.claim, r.confidence} \subseteq Int
    /\ r.tps \in Seq([price : Int, pct : Int])

\* The example is one, and so is every setup at the levels.
LEMMA ExampleIsAnswered ==
    ASSUME NEW x \in SetupContexts
    PROVE  Answered(ExampleReply(x))
  <1>1. PICK a \in Nat : a = Atr(x)
    BY AtrIsNatural
  <1>2. PICK way \in Int : way = IF BestOpportunity(x.opps).direction = "LONG" THEN 1 ELSE -1
    OBVIOUS
  <1>3. PICK p1 \in Int, p2 \in Int, p3 \in Int :
            /\ p1 = Current + way * ((3 * a) \div 2)
            /\ p2 = Current + way * ((5 * a) \div 2)
            /\ p3 = Current + way * ((7 * a) \div 2)
    BY <1>1, <1>2 DEF Current
  <1>4. Current - way * a \in Int /\ Current \in Int
    BY <1>1, <1>2 DEF Current
  <1>5. ExampleReply(x).tps = <<[price |-> p1, pct |-> 33], [price |-> p2, pct |-> 33],
                                [price |-> p3, pct |-> 34]>>
    BY <1>1, <1>2, <1>3 DEF ExampleReply
  <1>6. /\ ExampleReply(x).entry = Current /\ ExampleReply(x).stop = Current - way * a
        /\ ExampleReply(x).claim = 25 /\ ExampleReply(x).confidence = 7
    BY <1>1, <1>2 DEF ExampleReply
  <1> QED BY <1>4, <1>5, <1>6 DEF Answered

LEMMA LevelsAreNumbers ==
    ASSUME NEW x \in SetupContexts
    PROVE  SupportLevels(x) \subseteq Int /\ ResistanceLevels(x) \subseteq Int
  <1>1. x.levels \subseteq Int /\ \A b \in x.blocks : b.low \in Int /\ b.high \in Int
    BY SizingAssumption
  <1>2. \A S : FiveNearest(S) \subseteq S
    BY DEF FiveNearest
  <1> QED BY <1>1, <1>2 DEF SupportLevels, ResistanceLevels

LEMMA RepliesAreAnswered ==
    ASSUME NEW x \in SetupContexts,
           NEW r \in SetupReplies \cup LevelReplies(x) \cup {ExampleReply(x)}
    PROVE  Answered(r)
  <1>1. CASE r \in SetupReplies
    <2>1. r \in [direction : STRING, entry : Int, stop : Int, claim : Int,
                 confidence : Int, tps : Seq([price : Int, pct : Int])]
      BY <1>1, SizingAssumption
    <2> QED BY <2>1 DEF Answered
  <1>2. CASE r \in LevelReplies(x)
    <2>1. PICK v \in SupportLevels(x) \cup ResistanceLevels(x),
               w \in SupportLevels(x) \cup ResistanceLevels(x) :
              r = [direction |-> BestOpportunity(x.opps).direction, entry |-> Current,
                   stop |-> v, claim |-> 20,
                   tps |-> <<[price |-> w, pct |-> 100]>>, confidence |-> 7]
      <3>1. CASE BestOpportunity(x.opps).direction = "LONG"
        BY <1>2, <3>1 DEF LevelReplies
      <3>2. CASE BestOpportunity(x.opps).direction # "LONG"
        BY <1>2, <3>2 DEF LevelReplies
      <3> QED BY <3>1, <3>2
    <2>2. v \in Int /\ w \in Int
      BY <2>1, LevelsAreNumbers
    <2> QED BY <2>1, <2>2 DEF Answered, Current
  <1> QED BY <1>1, <1>2, ExampleIsAnswered

-----------------------------------------------------------------------------
(* What the validation guarantees.                                         *)

LEMMA Halves ==
    ASSUME NEW n \in Nat
    PROVE  n \div 2 \in Nat /\ n - 1 <= 2 * (n \div 2) /\ 2 * (n \div 2) <= n
  OBVIOUS

\* The ratio the example claims is within a fifth of its own.
LEMMA ClaimIsNear ==
    ASSUME NEW a \in Nat, a > 1, NEW u \in Nat, u = 100 * a, NEW w \in Nat,
           502 * a - 100 <= 2 * w, 2 * w <= 502 * a
    PROVE  Absolute(25 * u - 10 * w) \in Int /\ Absolute(25 * u - 10 * w) <= 2 * w
  <1>1. 25 * u - 10 * w \in Int
    OBVIOUS
  <1>2. 25 * u - 10 * w <= 2 * w
    OBVIOUS
  <1>3. -(25 * u - 10 * w) <= 2 * w
    OBVIOUS
  <1> QED BY <1>1, <1>2, <1>3 DEF Absolute

\* The weighted reward of the example.
LEMMA ExampleReward ==
    ASSUME NEW a \in Nat, a > 1, NEW b1 \in Nat, NEW b2 \in Nat, NEW b3 \in Nat,
           3 * a - 1 <= 2 * b1, 2 * b1 <= 3 * a,
           5 * a - 1 <= 2 * b2, 2 * b2 <= 5 * a,
           7 * a - 1 <= 2 * b3, 2 * b3 <= 7 * a,
           NEW w \in Nat, w = b1 * 33 + b2 * 33 + b3 * 34
    PROVE  502 * a - 100 <= 2 * w /\ 2 * w <= 502 * a /\ 2 * w >= 300 * a
  OBVIOUS

\* The example of the prompt passes.
LEMMA ExamplePasses ==
    ASSUME NEW x \in SetupContexts, x.opps # << >>, Atr(x) > 1,
           NearZones(ExampleReply(x), x)
    PROVE  SafeSetup(ExampleReply(x), x)
  <1>1. PICK a \in Nat : a = Atr(x) /\ a > 1
    BY AtrIsNatural
  <1>2. PICK dir \in {"LONG", "SHORT"} : dir = BestOpportunity(x.opps).direction
    <2>1. x.opps \in Seq(Opportunities)
      BY SizingAssumption DEF Opportunities
    <2> QED BY <2>1, OneIsBest
  <1>3. PICK way \in {1, -1} : way = IF dir = "LONG" THEN 1 ELSE -1
    OBVIOUS
  <1>4. PICK b1 \in Nat, b2 \in Nat, b3 \in Nat :
            /\ b1 = (3 * a) \div 2 /\ 3 * a - 1 <= 2 * b1 /\ 2 * b1 <= 3 * a
            /\ b2 = (5 * a) \div 2 /\ 5 * a - 1 <= 2 * b2 /\ 2 * b2 <= 5 * a
            /\ b3 = (7 * a) \div 2 /\ 7 * a - 1 <= 2 * b3 /\ 2 * b3 <= 7 * a
    <2>1. 3 * a \in Nat /\ 5 * a \in Nat /\ 7 * a \in Nat
      OBVIOUS
    <2> QED BY <2>1, Halves
  <1>4a. /\ 3 * a - 1 <= 2 * b1 /\ 2 * b1 <= 3 * a
         /\ 5 * a - 1 <= 2 * b2 /\ 2 * b2 <= 5 * a
         /\ 7 * a - 1 <= 2 * b3 /\ 2 * b3 <= 7 * a
    BY <1>4
  <1>5. PICK e : e = ExampleReply(x)
    OBVIOUS
  <1>6. /\ e.direction = dir /\ e.entry = 1000 /\ e.stop = 1000 - way * a
        /\ e.claim = 25 /\ e.confidence = 7
        /\ e.tps = <<[price |-> 1000 + way * b1, pct |-> 33],
                     [price |-> 1000 + way * b2, pct |-> 33],
                     [price |-> 1000 + way * b3, pct |-> 34]>>
    BY <1>1, <1>2, <1>3, <1>4, <1>5 DEF ExampleReply, Current
  <1>7. DirectionOf(e, x) = dir
    BY <1>2, <1>6 DEF DirectionOf
  <1>8. Risk(e) = a
    <2>1. CASE way = 1
      BY <1>1, <1>6, <2>1 DEF Risk, Absolute
    <2>2. CASE way = -1
      BY <1>1, <1>6, <2>2 DEF Risk, Absolute
    <2> QED BY <2>1, <2>2
  <1>9. /\ Reward(e, dir, e.tps[1]) = b1 /\ Reward(e, dir, e.tps[2]) = b2
        /\ Reward(e, dir, e.tps[3]) = b3
    <2>1. CASE dir = "LONG"
      BY <1>3, <1>6, <2>1 DEF Reward
    <2>2. CASE dir = "SHORT"
      BY <1>3, <1>6, <2>2 DEF Reward
    <2> QED BY <2>1, <2>2
  <1>10. DOMAIN e.tps = 1..3 /\ Len(e.tps) = 3
    BY <1>6
  <1>11. e.tps[1].pct = 33 /\ e.tps[2].pct = 33 /\ e.tps[3].pct = 34
    BY <1>6
  <1>12. TotalWeight(e) = 100
    <2>1. PICK f : f = [i \in DOMAIN e.tps |-> e.tps[i].pct]
      OBVIOUS
    <2>2. DOMAIN f = 1..3 /\ f[1] = 33 /\ f[2] = 33 /\ f[3] = 34
      BY <1>10, <1>11, <2>1
    <2>3. SumFunction(f) = f[1] + f[2] + f[3]
      BY <2>2, SumOfThree
    <2> QED BY <2>1, <2>2, <2>3 DEF TotalWeight
  <1>13. PICK w \in Nat : w = WeightedReward(e, dir) /\ w = b1 * 33 + b2 * 33 + b3 * 34
    <2>1. PICK f : f = [i \in DOMAIN e.tps |-> Reward(e, dir, e.tps[i]) * e.tps[i].pct]
      OBVIOUS
    <2>2. DOMAIN f = 1..3 /\ f[1] = b1 * 33 /\ f[2] = b2 * 33 /\ f[3] = b3 * 34
      BY <1>9, <1>10, <1>11, <2>1
    <2>3. SumFunction(f) = f[1] + f[2] + f[3]
      BY <2>2, SumOfThree
    <2>4. WeightedReward(e, dir) = SumFunction(f)
      BY <2>1 DEF WeightedReward
    <2>5. b1 * 33 + b2 * 33 + b3 * 34 \in Nat
      OBVIOUS
    <2> QED BY <2>2, <2>3, <2>4, <2>5
  <1>14. 502 * a - 100 <= 2 * w /\ 2 * w <= 502 * a /\ 2 * w >= 300 * a
    <2>1. a > 1 /\ w = b1 * 33 + b2 * 33 + b3 * 34
      BY <1>1, <1>13
    <2> QED BY <1>4a, <2>1, ExampleReward
  <1>15. NearZones(e, x)
    BY <1>5
  <1>16. StopOnItsSide(e, dir)
    <2>1. CASE dir = "LONG"
      BY <1>1, <1>3, <1>6, <2>1 DEF StopOnItsSide
    <2>2. CASE dir = "SHORT"
      BY <1>1, <1>3, <1>6, <2>2 DEF StopOnItsSide
    <2> QED BY <2>1, <2>2
  <1>17. RatioFloor(e, dir)
    <2>1. 3 * TotalWeight(e) * Risk(e) = 300 * a
      BY <1>8, <1>12
    <2>2. WeightedReward(e, dir) = w
      BY <1>13
    <2> QED BY <1>14, <2>1, <2>2 DEF RatioFloor
  <1>18. ClaimAgrees(e, dir)
    <2>1. PICK u \in Nat : u = 100 * a
      OBVIOUS
    <2>2. Max({3 * u, 2 * w}) >= 2 * w /\ Max({3 * u, 2 * w}) \in Int
      BY LargerOfTwo
    <2>3. Absolute(25 * u - 10 * w) <= 2 * w /\ Absolute(25 * u - 10 * w) \in Int
      BY <1>1, <1>14, <2>1, ClaimIsNear
    <2> QED BY <1>6, <1>8, <1>12, <1>13, <2>1, <2>2, <2>3 DEF ClaimAgrees
  <1>19. \A i \in DOMAIN e.tps : Reward(e, dir, e.tps[i]) > 0
    <2>1. b1 > 0 /\ b2 > 0 /\ b3 > 0
      <3>1. b1 > 0
        BY <1>1, <1>4a
      <3>2. b2 > 0
        BY <1>1, <1>4a
      <3>3. b3 > 0
        BY <1>1, <1>4a
      <3> QED BY <3>1, <3>2, <3>3
    <2>2. \A i \in 1..3 : i = 1 \/ i = 2 \/ i = 3
      OBVIOUS
    <2> QED BY <1>9, <1>10, <2>1, <2>2
  <1>20. Current \div 1000 = 1
    BY DEF Current
  <1>21. /\ Len(e.tps) > 0 /\ Risk(e) > 0 /\ TotalWeight(e) > 0 /\ e.claim >= 15
         /\ e.confidence \in 3 .. 10 /\ Risk(e) >= Current \div 1000
    BY <1>1, <1>6, <1>8, <1>10, <1>12, <1>20
  <1> QED BY <1>5, <1>7, <1>15, <1>16, <1>17, <1>18, <1>19, <1>21 DEF SafeSetup

LEMMA OppositeSides ==
    ASSUME NEW u \in Int, NEW v \in Int, (u < 0 /\ v > 0) \/ (u > 0 /\ v < 0)
    PROVE  u * v < 0
  OBVIOUS

\* A place of an answer's targets.
LEMMA TargetsAreNumbers ==
    ASSUME NEW s, Answered(s)
    PROVE  /\ s.entry \in Int /\ s.stop \in Int /\ s.claim \in Int
           /\ Len(s.tps) \in Nat /\ DOMAIN s.tps = 1..Len(s.tps)
           /\ \A i \in 1..Len(s.tps) : s.tps[i].price \in Int /\ s.tps[i].pct \in Int
  <1>1. s.tps \in Seq([price : Int, pct : Int])
    BY DEF Answered
  <1>2. \A i \in 1..Len(s.tps) : s.tps[i] \in [price : Int, pct : Int]
    BY <1>1, ElementOfSeq
  <1> QED BY <1>1, <1>2 DEF Answered

LEMMA SafeStop ==
    ASSUME NEW s, Answered(s), NEW x, SafeSetup(s, x)
    PROVE  \A i \in DOMAIN s.tps : (s.tps[i].price - s.entry) * (s.stop - s.entry) < 0
  <1> SUFFICES ASSUME NEW i \in DOMAIN s.tps
               PROVE  (s.tps[i].price - s.entry) * (s.stop - s.entry) < 0
    OBVIOUS
  <1>1. PICK dir : dir = DirectionOf(s, x)
    OBVIOUS
  <1>2. PICK e \in Int, t \in Int, p \in Int : e = s.entry /\ t = s.stop /\ p = s.tps[i].price
    BY TargetsAreNumbers
  <1>3. StopOnItsSide(s, dir) /\ Reward(s, dir, s.tps[i]) > 0
    BY <1>1 DEF SafeSetup
  <1>4. (p - e < 0 /\ t - e > 0) \/ (p - e > 0 /\ t - e < 0)
    BY <1>2, <1>3 DEF StopOnItsSide, Reward
  <1>5. (p - e) * (t - e) < 0
    <2>1. p - e \in Int /\ t - e \in Int
      OBVIOUS
    <2> QED BY <1>4, <2>1, OppositeSides
  <1> QED BY <1>2, <1>5

\* The risk of a safe setup is a distance.
LEMMA SafeRisk ==
    ASSUME NEW s, Answered(s), NEW x, SafeSetup(s, x)
    PROVE  Risk(s) \in Nat /\ Risk(s) > 0
  <1>1. s.entry \in Int /\ s.stop \in Int
    BY TargetsAreNumbers
  <1> QED BY <1>1 DEF SafeSetup, Risk, Absolute

-----------------------------------------------------------------------------
(* The size.                                                               *)

\* What the size before the cap loses at the stop, k being the risk taken.
LEMMA AdjustedSize ==
    ASSUME NEW risk \in Nat, risk > 0, NEW atr \in Nat
    PROVE  \E n \in Nat, d \in Nat :
             /\ VolatilityAdjusted(risk, atr) = [n |-> n, d |-> d] /\ d > 0
             /\ (n * risk) * 100 <= (2 * (Balance * RiskPercent)) * d
  <1>1. PICK k \in Nat : k = Balance * RiskPercent
    BY SizingAssumption
  <1>2. FixedRiskSize(risk) = [n |-> k, d |-> 100 * risk]
    BY <1>1 DEF FixedRiskSize
  <1>3. CASE atr >= 2 * risk
    <2>1. ~(2 * atr <= risk)
      BY <1>3
    <2>2. VolatilityAdjusted(risk, atr) = [n |-> k * 2, d |-> (100 * risk) * 1]
      BY <1>2, <1>3, <2>1 DEF VolatilityAdjusted, Scaled
    <2>3. k * 2 \in Nat /\ (100 * risk) * 1 \in Nat /\ (100 * risk) * 1 > 0
      OBVIOUS
    <2>4. ((k * 2) * risk) * 100 <= (2 * k) * ((100 * risk) * 1)
      OBVIOUS
    <2> QED BY <1>1, <2>2, <2>3, <2>4
  <1>4. CASE 2 * atr <= risk
    <2>1. ~(atr >= 2 * risk)
      BY <1>4
    <2>2. VolatilityAdjusted(risk, atr) = [n |-> k * 1, d |-> (100 * risk) * 2]
      BY <1>2, <1>4, <2>1 DEF VolatilityAdjusted, Scaled
    <2>3. k * 1 \in Nat /\ (100 * risk) * 2 \in Nat /\ (100 * risk) * 2 > 0
      OBVIOUS
    <2>4. ((k * 1) * risk) * 100 <= (2 * k) * ((100 * risk) * 2)
      <3>1. PICK m \in Nat : m = k * risk
        OBVIOUS
      <3>2. ((k * 1) * risk) * 100 = m * 100 /\ (2 * k) * ((100 * risk) * 2) = 400 * m
        BY <3>1
      <3> QED BY <3>2
    <2> QED BY <1>1, <2>2, <2>3, <2>4
  <1>5. CASE ~(atr >= 2 * risk) /\ ~(2 * atr <= risk)
    <2>1. VolatilityAdjusted(risk, atr) = [n |-> k * atr, d |-> (100 * risk) * risk]
      BY <1>2, <1>5 DEF VolatilityAdjusted, Scaled
    <2>2. k * atr \in Nat /\ (100 * risk) * risk \in Nat /\ (100 * risk) * risk > 0
      OBVIOUS
    <2>3. ((k * atr) * risk) * 100 <= (2 * k) * ((100 * risk) * risk)
      <3>1. PICK m \in Nat : m = k * risk
        OBVIOUS
      <3>2. /\ ((k * atr) * risk) * 100 = (atr * m) * 100
            /\ (2 * k) * ((100 * risk) * risk) = ((2 * risk) * m) * 100
        BY <3>1
      <3>3. atr * m <= (2 * risk) * m
        <4>1. atr <= 2 * risk /\ 2 * risk \in Nat
          BY <1>5
        <4> QED BY <4>1, Scales
      <3>4. atr * m \in Nat /\ (2 * risk) * m \in Nat
        OBVIOUS
      <3> QED BY <3>2, <3>3, <3>4
    <2> QED BY <1>1, <2>1, <2>2, <2>3
  <1> QED BY <1>3, <1>4, <1>5

\* A position, capped or not, loses and levers no more than its bounds.
LEMMA SizeIsBounded ==
    ASSUME NEW s, Answered(s), NEW x, SafeSetup(s, x), NEW atr \in Nat,
           NEW size, size = CalculateSize(s, atr)
    PROVE  /\ size.n * Risk(s) * 100 <= 2 * RiskPercent * Balance * size.d
           /\ size.n * s.entry <= MaxLeverage * Balance * size.d
  <1>1. PICK risk \in Nat : risk = Risk(s) /\ risk > 0
    BY SafeRisk
  <1>2. PICK e \in Int : e = s.entry
    BY TargetsAreNumbers
  <1>3. PICK k \in Nat : k = Balance * RiskPercent
    BY SizingAssumption
  <1>4. PICK v \in Nat : v = Balance * MaxLeverage
    BY SizingAssumption
  <1>5. PICK n \in Nat, d \in Nat : /\ VolatilityAdjusted(risk, atr) = [n |-> n, d |-> d] /\ d > 0
                                    /\ (n * risk) * 100 <= (2 * k) * d
    BY <1>1, <1>3, AdjustedSize
  <1>6. size = IF n * e <= v * d THEN [n |-> n, d |-> d] ELSE [n |-> v, d |-> e]
    BY <1>1, <1>2, <1>4, <1>5 DEF CalculateSize, MaxSize, SizeAtMost
  <1>7. /\ (size.n * risk) * 100 <= (2 * k) * size.d
        /\ size.n * e <= v * size.d
        /\ size.n \in Int /\ size.d \in Int
    <2>1. CASE n * e <= v * d
      BY <1>5, <1>6, <2>1
    <2>2. CASE ~(n * e <= v * d)
      <3>1. size.n = v /\ size.d = e
        BY <1>6, <2>2
      <3>2. v * d < n * e /\ v * d \in Nat
        BY <2>2
      <3>3. e > 0
        <4>1. ASSUME e <= 0 PROVE FALSE
          <5>1. n * e <= 0
            BY <4>1
          <5> QED BY <3>2, <5>1
        <4> QED BY <4>1
      <3>4. e \in Nat
        BY <3>3
      <3>5. PICK r \in Nat : r = 100 * risk
        OBVIOUS
      <3>6. (v * d) * r <= (n * e) * r
        <4>1. n * e \in Nat /\ v * d <= n * e
          BY <3>2, <3>4
        <4> QED BY <3>2, <4>1, Scales
      <3>7. (n * r) * e <= ((2 * k) * d) * e
        <4>1. n * r \in Nat /\ (2 * k) * d \in Nat /\ n * r <= (2 * k) * d
          BY <1>5, <3>5
        <4> QED BY <3>4, <4>1, Scales
      <3>8. (v * r) * d <= ((2 * k) * e) * d
        <4>1. /\ (v * r) * d = (v * d) * r /\ (n * e) * r = (n * r) * e
              /\ ((2 * k) * d) * e = ((2 * k) * e) * d
          OBVIOUS
        <4>2. (v * d) * r \in Int /\ (n * e) * r \in Int /\ ((2 * k) * d) * e \in Int
          OBVIOUS
        <4> QED BY <3>6, <3>7, <4>1, <4>2
      <3>9. v * r <= (2 * k) * e
        <4>1. v * r \in Nat /\ (2 * k) * e \in Nat /\ d \in Nat \ {0}
          BY <1>5, <3>4
        <4> QED BY <3>8, <4>1, Cancels
      <3>10. (v * risk) * 100 = v * r
        BY <3>5
      <3> QED BY <3>1, <3>9, <3>10
    <2> QED BY <2>1, <2>2
  <1>8. PICK p \in Int, q \in Int : p = size.n /\ q = size.d
    BY <1>7
  <1>9. 2 * RiskPercent * Balance * q = (2 * k) * q /\ MaxLeverage * Balance * q = v * q
    <2>1. Balance \in Nat /\ RiskPercent \in Nat /\ MaxLeverage \in Nat
      BY SizingAssumption
    <2>2. 2 * RiskPercent * Balance = 2 * k /\ MaxLeverage * Balance = v
      BY <1>3, <1>4, <2>1
    <2> QED BY <2>2
  <1> QED BY <1>1, <1>2, <1>7, <1>8, <1>9

-----------------------------------------------------------------------------
(* Reward and risk.                                                        *)

\* The distances of an answer's targets.
LEMMA TargetsAreAway ==
    ASSUME NEW s, Answered(s)
    PROVE  \A i \in 1..Len(s.tps) : Distance(s, i) \in Nat
  <1> SUFFICES ASSUME NEW i \in 1..Len(s.tps) PROVE Distance(s, i) \in Nat
    OBVIOUS
  <1>1. s.tps[i].price - s.entry \in Int
    BY TargetsAreNumbers
  <1> QED BY <1>1, DistanceIsNatural DEF Distance

\* What becomes of the distance d of the i-th target.
Moved(i, d, r) ==
    IF i = 1 THEN Max({3 * r, Min({d, 4 * r})})
    ELSE IF i = 2 THEN Max({5 * r, Min({d, 7 * r})})
    ELSE Max({8 * r, d})

LEMMA MovedIs ==
    ASSUME NEW i \in Nat, NEW d \in Nat, NEW r \in Nat
    PROVE  /\ Moved(i, d, r) \in Nat
           /\ i = 1 => Moved(i, d, r) <= 4 * r
           /\ i = 2 => 5 * r <= Moved(i, d, r) /\ Moved(i, d, r) <= 7 * r
           /\ i > 2 => Moved(i, d, r) = IF 8 * r >= d THEN 8 * r ELSE d
  <1>1. 3 * r \in Nat /\ 4 * r \in Nat /\ 5 * r \in Nat /\ 7 * r \in Nat /\ 8 * r \in Nat
    OBVIOUS
  <1>2. CASE i = 1
    <2>1. PICK m \in Nat : m = Min({d, 4 * r}) /\ m <= 4 * r
      BY <1>1, LesserOfTwo
    <2>2. Max({3 * r, m}) = IF 3 * r >= m THEN 3 * r ELSE m
      BY <1>1, LargerOfTwo
    <2> QED BY <1>1, <1>2, <2>1, <2>2 DEF Moved
  <1>3. CASE i = 2
    <2>1. PICK m \in Nat : m = Min({d, 7 * r}) /\ m <= 7 * r
      BY <1>1, LesserOfTwo
    <2>2. Max({5 * r, m}) = IF 5 * r >= m THEN 5 * r ELSE m
      BY <1>1, LargerOfTwo
    <2> QED BY <1>1, <1>3, <2>1, <2>2 DEF Moved
  <1>4. CASE i # 1 /\ i # 2
    <2>1. Max({8 * r, d}) = IF 8 * r >= d THEN 8 * r ELSE d
      BY <1>1, LargerOfTwo
    <2> QED BY <1>1, <1>4, <2>1 DEF Moved
  <1> QED BY <1>2, <1>3, <1>4

LEMMA MovedInOrder ==
    ASSUME NEW i \in Nat \ {0}, NEW d \in Nat, NEW e \in Nat, d <= e, NEW r \in Nat
    PROVE  Moved(i, d, r) <= Moved(i + 1, e, r)
  <1>1. /\ Moved(i, d, r) \in Nat
        /\ i = 1 => Moved(i, d, r) <= 4 * r
        /\ i = 2 => Moved(i, d, r) <= 7 * r
        /\ i > 2 => Moved(i, d, r) = IF 8 * r >= d THEN 8 * r ELSE d
    BY MovedIs
  <1>2. /\ Moved(i + 1, e, r) \in Nat
        /\ i + 1 = 2 => 5 * r <= Moved(i + 1, e, r)
        /\ i + 1 > 2 => Moved(i + 1, e, r) = IF 8 * r >= e THEN 8 * r ELSE e
    <2>1. i + 1 \in Nat
      OBVIOUS
    <2> QED BY <2>1, MovedIs
  <1>3. CASE i = 1
    BY <1>1, <1>2, <1>3
  <1>4. CASE i = 2
    BY <1>1, <1>2, <1>4
  <1>5. CASE i > 2
    BY <1>1, <1>2, <1>5
  <1> QED BY <1>3, <1>4, <1>5

LEMMA OptimizedKeepsOrder ==
    ASSUME NEW s, Answered(s), NEW x, SafeSetup(s, x), NEW o, o = Optimized(s),
           \A i \in 1 .. Len(o) - 1 : Distance(s, i) <= Distance(s, i + 1)
    PROVE  \A i \in 1 .. Len(o) - 1 : o[i] <= o[i + 1]
  <1>1. PICK n \in Nat : n = Len(s.tps) /\ DOMAIN s.tps = 1..n
    BY TargetsAreNumbers
  <1>2. PICK r \in Nat : r = Risk(s)
    BY SafeRisk
  <1>3. o = [i \in 1..n |-> Moved(i, 2 * Distance(s, i), r)]
    BY <1>1, <1>2 DEF Optimized, Moved
  <1>4. Len(o) = n
    BY <1>3
  <1> SUFFICES ASSUME NEW i \in 1 .. n - 1 PROVE o[i] <= o[i + 1]
    BY <1>4
  <1>5. i \in 1..n /\ i + 1 \in 1..n /\ i \in Nat \ {0}
    OBVIOUS
  <1>6. PICK d \in Nat, e \in Nat : d = Distance(s, i) /\ e = Distance(s, i + 1) /\ d <= e
    BY <1>1, <1>4, <1>5, TargetsAreAway
  <1>7. Moved(i, 2 * d, r) <= Moved(i + 1, 2 * e, r)
    <2>1. 2 * d \in Nat /\ 2 * e \in Nat /\ 2 * d <= 2 * e
      BY <1>6
    <2> QED BY <1>5, <2>1, MovedInOrder
  <1> QED BY <1>3, <1>5, <1>6, <1>7

\* The parts of a setup without a negative one.
LEMMA PartsAreNatural ==
    ASSUME NEW s, Answered(s), \A i \in DOMAIN s.tps : s.tps[i].pct >= 0
    PROVE  \A i \in 1..Len(s.tps) : s.tps[i].pct \in Nat /\ Part(s, i) \in Nat
  <1> SUFFICES ASSUME NEW i \in 1..Len(s.tps)
               PROVE  s.tps[i].pct \in Nat /\ Part(s, i) \in Nat
    OBVIOUS
  <1>1. PICK p \in Nat, d \in Nat : p = s.tps[i].pct /\ d = Distance(s, i)
    BY TargetsAreNumbers, TargetsAreAway
  <1>2. d * p \in Nat
    OBVIOUS
  <1> QED BY <1>1, <1>2 DEF Part

LEMMA ScenariosKeepOrder ==
    ASSUME NEW s, Answered(s), NEW x, SafeSetup(s, x), Len(s.tps) >= 3,
           TotalWeight(s) <= 100, \A i \in DOMAIN s.tps : s.tps[i].pct >= 0,
           NEW o, o = Scenarios(s)
    PROVE  /\ o.full_loss <= o.tp1_only /\ o.tp1_only <= o.tp1_tp2
           /\ o.tp1_tp2 <= o.all_tps
  <1>1. PICK n \in Nat : n = Len(s.tps) /\ DOMAIN s.tps = 1..n /\ n >= 3
    BY TargetsAreNumbers
  <1>2. PICK r \in Nat : r = Risk(s)
    BY SafeRisk
  <1>3. 1 \in 1..n /\ 2 \in 1..n /\ n >= 2
    BY <1>1
  <1>4. PICK p1 \in Nat, p2 \in Nat, w1 \in Nat, w2 \in Nat :
            p1 = Part(s, 1) /\ p2 = Part(s, 2) /\ w1 = s.tps[1].pct /\ w2 = s.tps[2].pct
    BY <1>1, <1>3, PartsAreNatural
  <1>5. TotalReward(s) \in Nat /\ p1 + p2 <= TotalReward(s)
    <2>1. PICK f : f = [i \in DOMAIN s.tps |-> Part(s, i)]
      OBVIOUS
    <2>2. DOMAIN f = 1..n /\ (\A i \in 1..n : f[i] \in Nat) /\ f[1] = p1 /\ f[2] = p2
      BY <1>1, <1>3, <1>4, <2>1, PartsAreNatural
    <2>3. SumFunction(f) \in Nat /\ f[1] + f[2] <= SumFunction(f)
      BY <1>3, <2>2, FirstTwoAtMostAll
    <2> QED BY <2>1, <2>2, <2>3 DEF TotalReward
  <1>6. w1 + w2 <= 100
    <2>1. PICK f : f = [i \in DOMAIN s.tps |-> s.tps[i].pct]
      OBVIOUS
    <2>2. DOMAIN f = 1..n /\ (\A i \in 1..n : f[i] \in Nat) /\ f[1] = w1 /\ f[2] = w2
      BY <1>1, <1>3, <1>4, <2>1, PartsAreNatural
    <2>3. SumFunction(f) \in Nat /\ f[1] + f[2] <= SumFunction(f)
      BY <1>3, <2>2, FirstTwoAtMostAll
    <2> QED BY <2>1, <2>2, <2>3 DEF TotalWeight
  <1>7. PICK t \in Nat : t = TotalReward(s)
    BY <1>5
  <1>8. /\ o.full_loss = -100 * r
        /\ o.tp1_only = p1 - r * (100 - w1)
        /\ o.tp1_tp2 = p1 + p2 - r * (100 - w1 - w2)
        /\ o.all_tps = t
    BY <1>2, <1>4, <1>7 DEF Scenarios
  <1>9. PICK rest \in Nat : rest = 100 - w1 - w2
    BY <1>6
  <1>10. PICK a \in Nat, b \in Nat, c \in Nat : a = r * w1 /\ b = r * w2 /\ c = r * rest
    OBVIOUS
  <1>11. r * (100 - w1) = b + c /\ 100 * r = a + b + c /\ r * (100 - w1 - w2) = c
    <2>1. 100 - w1 = w2 + rest /\ 100 = w1 + w2 + rest
      BY <1>9
    <2>2. r * (w2 + rest) = b + c /\ r * (w1 + w2 + rest) = a + b + c
      BY <1>10
    <2>3. r * (100 - w1) = b + c
      BY <2>1, <2>2
    <2>4. r * 100 = a + b + c
      BY <2>1, <2>2
    <2> QED BY <1>9, <1>10, <2>3, <2>4
  <1>12. -100 * r = -(a + b + c)
    <2>1. -100 * r = -(100 * r)
      OBVIOUS
    <2> QED BY <1>11, <2>1
  <1> QED BY <1>5, <1>7, <1>8, <1>11, <1>12

\* A safe setup has something to win.
LEMMA SafeReward ==
    ASSUME NEW s, Answered(s), NEW x, SafeSetup(s, x)
    PROVE  TotalReward(s) \in Int /\ TotalReward(s) > 0
  <1>1. PICK dir : dir = DirectionOf(s, x)
    OBVIOUS
  <1>2. PICK n \in Nat : n = Len(s.tps) /\ DOMAIN s.tps = 1..n
    BY TargetsAreNumbers
  <1>3. PICK f : f = [i \in DOMAIN s.tps |-> Reward(s, dir, s.tps[i]) * s.tps[i].pct]
    OBVIOUS
  <1>4. PICK g : g = [i \in DOMAIN s.tps |-> Part(s, i)]
    OBVIOUS
  <1>5. ASSUME NEW i \in 1..n PROVE f[i] = g[i] /\ f[i] \in Int
    <2>1. PICK p \in Int, e \in Int, w \in Int :
              p = s.tps[i].price /\ e = s.entry /\ w = s.tps[i].pct
      BY <1>2, TargetsAreNumbers
    <2>2. PICK d \in Int : d = Reward(s, dir, s.tps[i]) /\ d > 0 /\ (d = e - p \/ d = p - e)
      BY <1>1, <1>2, <2>1 DEF SafeSetup, Reward
    <2>3. Distance(s, i) = d
      BY <2>1, <2>2 DEF Distance, Absolute
    <2>4. d * w \in Int
      OBVIOUS
    <2> QED BY <1>2, <1>3, <1>4, <2>1, <2>2, <2>3, <2>4 DEF Part
  <1>6. f = [i \in 1..n |-> f[i]] /\ g = [i \in 1..n |-> g[i]]
    BY <1>2, <1>3, <1>4
  <1>7. f = g
    BY <1>5, <1>6, SameFunction
  <1>8. WeightedReward(s, dir) = SumFunction(f) /\ TotalReward(s) = SumFunction(g)
    BY <1>3, <1>4 DEF WeightedReward, TotalReward
  <1>9. PICK t \in Int : t = SumFunction(f)
    BY <1>5, <1>6, SumOfIntegers
  <1>10. PICK w \in Int : w = TotalWeight(s) /\ w > 0
    <2>1. PICK h : h = [i \in DOMAIN s.tps |-> s.tps[i].pct]
      OBVIOUS
    <2>2. DOMAIN h = 1..n /\ \A i \in 1..n : h[i] \in Int
      BY <1>2, <2>1, TargetsAreNumbers
    <2>3. SumFunction(h) \in Int
      BY <2>2, SumOfIntegers
    <2> QED BY <2>1, <2>3 DEF SafeSetup, TotalWeight
  <1>11. PICK r \in Nat : r = Risk(s) /\ r > 0
    BY SafeRisk
  <1>12. 2 * t >= 3 * w * r
    BY <1>1, <1>8, <1>9, <1>10, <1>11 DEF SafeSetup, RatioFloor
  <1>13. w * r > 0 /\ w * r \in Int
    BY <1>10, <1>11
  <1>14. 3 * w * r = 3 * (w * r)
    OBVIOUS
  <1> QED BY <1>7, <1>8, <1>9, <1>12, <1>13, <1>14

LEMMA EvenAtItsRate ==
    ASSUME NEW risk \in Int, risk > 0, NEW reward \in Int, reward > 0
    PROVE  ExpectedValue(risk, reward, BreakEvenWinRate(risk, reward)) = 0
  <1>1. BreakEvenWinRate(risk, reward) = [n |-> risk, d |-> risk + reward]
    BY DEF BreakEvenWinRate
  <1>2. ExpectedValue(risk, reward, [n |-> risk, d |-> risk + reward])
            = risk * reward - ((risk + reward) - risk) * risk
    BY DEF ExpectedValue
  <1>3. risk * reward - ((risk + reward) - risk) * risk = 0
    OBVIOUS
  <1> QED BY <1>1, <1>2, <1>3

-----------------------------------------------------------------------------
(* The request, step by step.                                              *)

\* What is known of a request at each phase.
SetupInv ==
    /\ context \in SetupContexts
    /\ phase = "create" => context.opps # << >> /\ Atr(context) # 0
    /\ phase \in {"validate", "size", "done"} => Answered(proposed)
    /\ phase \in {"size", "done"} => SafeSetup(proposed, context)
    /\ phase = "done" => sized = CalculateSize(proposed, Atr(context))

LEMMA SetupInvInit == SetupInit => SetupInv
  BY DEF SetupInit, SetupInv

LEMMA SetupInvStep == SetupInv /\ [SetupNext]_svars => SetupInv'
  <1> SUFFICES ASSUME SetupInv, [SetupNext]_svars PROVE SetupInv'
    OBVIOUS
  <1>1. CASE Gather
    BY <1>1 DEF SetupInv, Gather
  <1>2. CASE Create
    <2>1. CASE phase' = "refused"
      BY <1>2, <2>1 DEF SetupInv, Create
    <2>2. CASE phase' # "refused"
      <3>1. PICK r \in SetupReplies \cup LevelReplies(context)
                           \cup {ExampleReply(context)} :
                proposed' = r /\ phase' = "validate"
        BY <1>2, <2>2 DEF Create
      <3>2. Answered(r)
        BY <3>1, RepliesAreAnswered DEF SetupInv
      <3>3. context' = context
        BY <1>2 DEF Create
      <3> QED BY <3>1, <3>2, <3>3 DEF SetupInv
    <2> QED BY <2>1, <2>2
  <1>3. CASE Validate
    BY <1>3 DEF SetupInv, Validate
  <1>4. CASE SizePosition
    BY <1>4 DEF SetupInv, SizePosition
  <1>5. CASE UNCHANGED svars
    BY <1>5 DEF SetupInv, svars
  <1> QED BY <1>1, <1>2, <1>3, <1>4, <1>5 DEF SetupNext

\* Whatever a request is at, what leaves it is safe.
LEMMA SetupInvSafe == SetupInv => SetupIsSafe
  <1> SUFFICES ASSUME SetupInv PROVE SetupIsSafe
    OBVIOUS
  <1>1. context \in SetupContexts
    BY DEF SetupInv
  <1>2. StopAgainstTargets
    BY SafeStop DEF StopAgainstTargets, SetupInv
  <1>3. ZonesAreBacked
    <2> SUFFICES ASSUME NEW dir, NEW z \in EntryZones(context, dir),
                        z.type \notin {"ote", "default"}
                 PROVE  \E c \in Confluences(context, dir) : c = <<z.type, z.low>>
      BY DEF ZonesAreBacked
    <2>1. PICK b \in context.blocks :
              b.type = Side(dir) /\ z = [low |-> b.low, high |-> b.high, type |-> b.kind]
      BY DEF EntryZones
    <2>2. <<b.kind, b.low>> \in Confluences(context, dir)
      BY <2>1 DEF Confluences
    <2> QED BY <2>1, <2>2
  <1>4. ExampleIsSafe
    BY <1>1, ExamplePasses DEF ExampleIsSafe, SetupInv
  <1>5. LossIsBounded /\ LeverageIsBounded
    <2> SUFFICES ASSUME phase = "done"
                 PROVE  /\ sized.n * Risk(proposed) * 100
                             <= 2 * RiskPercent * Balance * sized.d
                        /\ sized.n * proposed.entry <= MaxLeverage * Balance * sized.d
      BY DEF LossIsBounded, LeverageIsBounded
    <2>1. Atr(context) \in Nat
      BY <1>1, AtrIsNatural
    <2> QED BY <2>1, SizeIsBounded DEF SetupInv
  <1>6. OptimizedInOrder
    BY OptimizedKeepsOrder DEF OptimizedInOrder, ThreeTargets, SetupInv
  <1>7. ScenariosInOrder
    BY ScenariosKeepOrder DEF ScenariosInOrder, ThreeTargets, SetupInv
  <1>8. BreakEvenIsZero
    <2> SUFFICES ASSUME phase = "done"
                 PROVE  ExpectedValue(100 * Risk(proposed), TotalReward(proposed),
                          BreakEvenWinRate(100 * Risk(proposed), TotalReward(proposed))) = 0
      BY DEF BreakEvenIsZero
    <2>1. Risk(proposed) \in Nat /\ Risk(proposed) > 0
      BY SafeRisk DEF SetupInv
    <2>2. TotalReward(proposed) \in Int /\ TotalReward(proposed) > 0
      BY SafeReward DEF SetupInv
    <2>3. 100 * Risk(proposed) \in Int /\ 100 * Risk(proposed) > 0
      BY <2>1
    <2> QED BY <2>2, <2>3, EvenAtItsRate
  <1> QED BY <1>2, <1>3, <1>4, <1>5, <1>6, <1>7, <1>8 DEF SetupIsSafe

\* Of every setup that leaves the strategy agent, whatever a model answers:
\* the stop and the targets are on opposite sides of the entry, the size loses
\* at the stop and levers no more than its bounds, the entry zones shown are
\* backed, the prompt's example passes, and the figures of reward and risk are
\* in order (generate_strategy, _validate_setup_safety, calculate_size).
THEOREM SetupsAreSafe == SetupSpec => []SetupIsSafe
  <1>1. SetupInit => SetupInv
    BY SetupInvInit
  <1>2. SetupInv /\ [SetupNext]_svars => SetupInv'
    BY SetupInvStep
  <1>3. SetupInv => SetupIsSafe
    BY SetupInvSafe
  <1> QED BY <1>1, <1>2, <1>3, PTL DEF SetupSpec

=============================================================================
