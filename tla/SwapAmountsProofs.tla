-------------------------- MODULE SwapAmountsProofs --------------------------
(***************************************************************************)
(* The withdrawal for a Lightning payment covers what the quote asks for,  *)
(* for every amount that stays clear of the word size; and the invariants  *)
(* that MCDenomination checks hold for every rate, fee and largest amount  *)
(* visited.                                                                *)
(***************************************************************************)
EXTENDS MCDenomination, DenominationProofs

\* What the provers do not know of powers.
PowersOfTen == \A n \in Nat : 10 ^ n \in Nat \ {0}

\* Padding or cutting a fraction undoes what writing it with fewer or with more
\* digits did, when none was lost.
LEMMA FracReadBack ==
    ASSUME NEW frac \in Nat, NEW digits \in Nat, PowersOfTen,
           digits < Decimals => frac % 10 ^ (Decimals - digits) = 0
    PROVE  FracSats(IF digits < Decimals
                      THEN frac \div 10 ^ (Decimals - digits)
                      ELSE frac * 10 ^ (digits - Decimals), digits) = frac
  <1>1. CASE digits < Decimals
    <2>1. Decimals - digits \in Nat
      BY <1>1, DecimalsAssumption
    <2>2. PICK p \in Nat \ {0} : p = 10 ^ (Decimals - digits)
      BY <2>1 DEF PowersOfTen
    <2>3. frac \div p \in Nat /\ frac = p * (frac \div p) + (frac % p)
      BY DivisionNat
    <2>4. frac = (frac \div p) * p
      BY <1>1, <2>2, <2>3
    <2> QED
      BY <1>1, <2>2, <2>4 DEF FracSats
  <1>2. CASE ~(digits < Decimals)
    <2>1. digits - Decimals \in Nat
      BY <1>2, DecimalsAssumption
    <2>2. PICK p \in Nat \ {0} : p = 10 ^ (digits - Decimals)
      BY <2>1 DEF PowersOfTen
    <2>3. (frac * p) \div p = frac
      BY ExactDivision
    <2> QED
      BY <1>2, <2>2, <2>3 DEF FracSats
  <1> QED
    BY <1>1, <1>2

\* However an amount is written, it is read back as it was.
LEMMA QuoteReadBack ==
    ASSUME NEW quoted \in Nat, PowersOfTen, NEW str \in Strings(quoted)
    PROVE  BtcStrToSats(str) = quoted
  <1>1. CASE str = InSats(quoted)
    BY <1>1 DEF InSats, BtcStrToSats
  <1>2. CASE str # InSats(quoted)
    <2>1. PICK digits \in 1 .. Decimals + 2 :
              /\ str = InBtc(quoted, digits)
              /\ digits < Decimals =>
                     (quoted % SatsPerBtc) % 10 ^ (Decimals - digits) = 0
      BY <1>2 DEF Strings
    <2>2. PICK d \in Nat \ {0} : d = SatsPerBtc
      BY DecimalsAssumption DEF PowersOfTen, SatsPerBtc
    <2>3. quoted \div d \in Nat /\ quoted % d \in Nat
          /\ quoted = d * (quoted \div d) + (quoted % d)
      <3>1. quoted % d \in 0 .. (d - 1)
        BY DivisionNat
      <3>2. quoted \div d \in Nat
        BY DivisionNat
      <3>3. quoted = d * (quoted \div d) + (quoted % d)
        BY DivisionNat
      <3> QED
        BY <3>1, <3>2, <3>3
    <2>4. FracSats(str.frac, digits) = quoted % d
      BY <2>1, <2>2, <2>3, FracReadBack, DecimalsAssumption DEF InBtc
    <2>5. str.point /\ str.whole = quoted \div d /\ str.digits = digits
      BY <2>1, <2>2 DEF InBtc
    <2>6. BtcStrToSats(str) = (quoted \div d) * d + (quoted % d)
      BY <2>2, <2>4, <2>5 DEF BtcStrToSats
    <2> QED
      BY <2>3, <2>6
  <1> QED
    BY <1>1, <1>2

\* handle_pay_lightning rounds what the quote asks for to ten satoshis and
\* execute_withdraw rounds that to units: at the rate of ten the units cover
\* the quote and one less would not, so that the swap is neither left short by
\* the withdrawal nor given a unit too much.
THEOREM WithdrawalCovers ==
    ASSUME NEW input \in Nat \ {0}, Rate = 10, input + 19 <= Word,
           PowersOfTen, NEW str \in Strings(input)
    PROVE  LET units == WithdrawnUnits(str) IN
               /\ TongoUnitsToSats(units) >= input
               /\ TongoUnitsToSats(units - 1) < input
  <1>1. PICK units \in Nat : units = CeilDiv(input, 10)
    BY CeilDivCovers
  <1>2. units * 10 >= input /\ units * 10 < input + 10
    BY <1>1, CeilDivCovers
  <1>3. RoundedToTens(input) = TongoUnitsToSats(units)
    BY <1>1 DEF RoundedToTens, CeilDiv, TongoUnitsToSats
  <1>4. units \in Nat \ {0} /\ units * Rate + (Rate - 1) < Word
    BY <1>2, WordAssumption
  <1>5. WithdrawnUnits(str) = units
    BY <1>3, <1>4, QuoteReadBack, UnitsRoundTrip DEF WithdrawnUnits
  <1> QED
    BY <1>2, <1>4, <1>5 DEF TongoUnitsToSats

-----------------------------------------------------------------------------
(* The invariants of MCDenomination *)

InRange == sats \in 0 .. MaxSats

LEMMA Visited == Spec => []InRange
  <1>1. Init => InRange
    BY MaxSatsAssumption DEF Init, InRange
  <1>2. InRange /\ [Next]_sats => InRange'
    BY MaxSatsAssumption DEF Next, InRange
  <1> QED
    BY <1>1, <1>2, PTL DEF Spec

\* No amount visited comes near the size of a word.
NoWrap == MaxSats + Rate + 19 <= Word

LEMMA VisitedNat ==
    ASSUME NoWrap, InRange
    PROVE  sats \in Nat /\ sats + Rate + 19 <= Word
  BY RateAssumption, WordAssumption, MaxSatsAssumption DEF NoWrap, InRange

LEMMA LeastUnits ==
    ASSUME NoWrap, InRange
    PROVE  UnitsAreTheLeastCover
  <1> SUFFICES ASSUME sats > 0
               PROVE  LET units == SatsToTongoUnits(sats) IN
                        /\ TongoUnitsToSats(units) >= sats
                        /\ \A fewer \in 0 .. units - 1 :
                              TongoUnitsToSats(fewer) < sats
    BY DEF UnitsAreTheLeastCover
  <1>1. sats \in Nat \ {0} /\ sats + (Rate - 1) < Word
    BY VisitedNat, RateAssumption, WordAssumption
  <1>2. PICK units \in Nat : units = SatsToTongoUnits(sats)
    BY <1>1, LeastCover
  <1>3. units * Rate >= sats /\ units * Rate < sats + Rate
    BY <1>1, <1>2, LeastCover DEF TongoUnitsToSats
  <1>4. ASSUME NEW fewer \in 0 .. units - 1
        PROVE  fewer * Rate < sats
    <2>1. (units - fewer) * Rate >= Rate
      BY <1>2, <1>4, RateAssumption
    <2>2. (units - fewer) * Rate = units * Rate - fewer * Rate
      BY <1>2, <1>4, RateAssumption
    <2> QED
      BY <1>1, <1>3, <2>1, <2>2, RateAssumption
  <1> QED
    BY <1>2, <1>3, <1>4 DEF TongoUnitsToSats

LEMMA StringUnits ==
    ASSUME NoWrap, InRange
    PROVE  UnitsSurviveTheString
  <1>1. PICK units \in Nat : units = sats \div Rate
    BY VisitedNat, DivisionNat, RateAssumption
  <1>2. units * Rate <= sats
    <2>1. PICK r \in 0 .. (Rate - 1) : sats = Rate * units + r
      BY <1>1, VisitedNat, DivisionNat, RateAssumption
    <2>2. Rate * units = units * Rate
      BY <1>1, RateAssumption
    <2> QED
      BY <1>1, <2>1, <2>2, RateAssumption
  <1>3. units * Rate + (Rate - 1) < Word
    BY <1>1, <1>2, VisitedNat, RateAssumption, WordAssumption
  <1>4. units > 0 => SatsToTongoUnits(TongoUnitsToSats(units)) = units
    BY <1>1, <1>3, UnitsRoundTrip
  <1> QED
    BY <1>1, <1>4 DEF UnitsSurviveTheString

LEMMA LeastFee ==
    ASSUME NoWrap, InRange
    PROVE  FeeIsTheLeastCover
  <1>1. sats \in Nat
    BY VisitedNat
  <1> DEFINE fee == CalculateFeeSats(sats)
  <1>2. /\ TongoUnitsToSats(fee \div Rate) = fee
        /\ FeePercent > 0 => 100 * fee >= sats * FeePercent
    BY <1>1, FeeIsWholeUnits
  <1>3. ASSUME fee > 0 PROVE 100 * (fee - Rate) < sats * FeePercent
    <2>1. FeePercent > 0 /\ sats # 0
      BY <1>3, FeeAssumption DEF CalculateFeeSats
    <2>2. sats * FeePercent \in Nat
      BY <1>1, <2>1, FeeAssumption
    <2>3. PICK raw \in Nat : raw = CeilDiv(sats * FeePercent, 100)
      BY <2>2, CeilDivCovers
    <2>4. raw * 100 < sats * FeePercent + 100
      BY <2>2, <2>3, CeilDivCovers
    <2>5. PICK units \in Nat : units = CeilDiv(raw, Rate)
      BY CeilDivCovers, RateAssumption
    <2>6. units * Rate < raw + Rate
      BY <2>5, CeilDivCovers, RateAssumption
    <2>7. fee = units * Rate
      BY <2>1, <2>3, <2>5, FeeAssumption DEF CalculateFeeSats
    <2>8. fee \in Int /\ fee - Rate <= raw - 1
      BY <2>5, <2>6, <2>7, RateAssumption
    <2> QED
      BY <2>2, <2>4, <2>8, RateAssumption
  <1> QED
    BY <1>2, <1>3 DEF FeeIsTheLeastCover

LEMMA NearestSats ==
    ASSUME NEW amount \in Nat, NEW part \in Nat, NEW short \in {0, 1},
           part \div 2 \in Nat \ {0}, part = 2 * (part \div 2)
    PROVE  2 * (part * RoundedSats(amount, part, short) - amount) \in -part .. part
  <1> DEFINE half == part \div 2
  <1>1. PICK m \in Nat : m = amount + half - short
    OBVIOUS
  <1>2. PICK q \in Nat, r \in 0 .. (part - 1) :
            q = m \div part /\ m = part * q + r
    BY DivisionNat
  <1>3. RoundedSats(amount, part, short) = q
    BY <1>1, <1>2 DEF RoundedSats
  <1>4. part * q - amount = half - short - r
    BY <1>1, <1>2
  <1>5. half - short - r \in -half .. half
    BY <1>2
  <1> QED
    BY <1>3, <1>4, <1>5

LEMMA NearestInvoice ==
    ASSUME NoWrap, InRange
    PROVE  InvoiceAmountIsNearest
  <1>1. ASSUME NEW amount \in Nat PROVE Nearest(amount, "n", 10)
    <2>1. \A short : ParseBolt11Amount(amount, "n", short)
                        = RoundedSats(amount, 10, short)
      BY DEF ParseBolt11Amount
    <2>2. 10 \div 2 \in Nat \ {0} /\ 10 = 2 * (10 \div 2)
      OBVIOUS
    <2>3. \A short \in {0, 1} :
              2 * (10 * RoundedSats(amount, 10, short) - amount) \in -10 .. 10
      BY <2>2, NearestSats
    <2> QED
      BY <2>1, <2>3 DEF Nearest
  <1>2. ASSUME NEW amount \in Nat PROVE Nearest(amount, "p", 10000)
    <2>1. PICK part \in Nat : part = 10000
      OBVIOUS
    <2>2. \A short : ParseBolt11Amount(amount, "p", short)
                        = RoundedSats(amount, part, short)
      BY <2>1 DEF ParseBolt11Amount
    <2>3. part \div 2 \in Nat \ {0} /\ part = 2 * (part \div 2)
      BY <2>1
    <2>4. Nearest(amount, "p", part)
      BY <2>2, <2>3, NearestSats DEF Nearest
    <2> QED
      BY <2>1, <2>4
  <1>3. \A off \in {-1, 0, 1} : sats > 0 => 1250 * sats + off \in Nat
    BY VisitedNat
  <1> QED
    BY <1>1, <1>2, <1>3, VisitedNat DEF InvoiceAmountIsNearest

LEMMA LeastWithdrawal ==
    ASSUME NoWrap, InRange, Rate = 10, PowersOfTen
    PROVE  WithdrawalIsTheLeastCover
  BY VisitedNat, WithdrawalCovers, WordAssumption DEF WithdrawalIsTheLeastCover

\* sats_to_tongo_units gives the fewest units that cover an amount, at any
\* rate and for any amount that does not wrap.
THEOREM UnitsAlwaysLeast ==
    ASSUME NoWrap
    PROVE  Spec => []UnitsAreTheLeastCover
  <1>1. InRange => UnitsAreTheLeastCover
    BY LeastUnits
  <1> QED
    BY <1>1, Visited, PTL

\* What handle_auto_fund writes as satoshis, execute_fund reads as the same
\* units, at any rate.
THEOREM UnitsAlwaysSurvive ==
    ASSUME NoWrap
    PROVE  Spec => []UnitsSurviveTheString
  <1>1. InRange => UnitsSurviveTheString
    BY StringUnits
  <1> QED
    BY <1>1, Visited, PTL

\* calculate_fee_sats takes whole units, no less than the percentage and less
\* than a unit more, at any rate and percentage.
THEOREM FeeAlwaysLeast ==
    ASSUME NoWrap
    PROVE  Spec => []FeeIsTheLeastCover
  <1>1. InRange => FeeIsTheLeastCover
    BY LeastFee
  <1> QED
    BY <1>1, Visited, PTL

\* parseBolt11Amount takes every amount to a satoshi nearest to it, a half up or
\* down, as the doubles come out.
THEOREM InvoiceAlwaysNearest ==
    ASSUME NoWrap
    PROVE  Spec => []InvoiceAmountIsNearest
  <1>1. InRange => InvoiceAmountIsNearest
    BY NearestInvoice
  <1> QED
    BY <1>1, Visited, PTL

\* At the rate of ten the withdrawal of handle_pay_lightning is the least that
\* covers its quote.
THEOREM WithdrawalAlwaysLeast ==
    ASSUME NoWrap, Rate = 10, PowersOfTen
    PROVE  Spec => []WithdrawalIsTheLeastCover
  <1>1. InRange => WithdrawalIsTheLeastCover
    BY LeastWithdrawal
  <1> QED
    BY <1>1, Visited, PTL

=============================================================================
