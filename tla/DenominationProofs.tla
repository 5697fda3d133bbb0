------------------------- MODULE DenominationProofs -------------------------
(***************************************************************************)
(* What the conversions of Denomination do, for every rate, fee and amount *)
(* whose rounding does not wrap.                                           *)
(***************************************************************************)
EXTENDS Denomination, TLAPS

\* Division by a positive number is the usual one.
LEMMA Division ==
    ASSUME NEW n \in Int, NEW d \in Nat \ {0}
    PROVE  /\ n \div d \in Int
           /\ n % d \in 0 .. (d - 1)
           /\ n = d * (n \div d) + (n % d)
  OBVIOUS

\* The quotient of a natural number is one.
LEMMA DivisionNat ==
    ASSUME NEW n \in Nat, NEW d \in Nat \ {0}
    PROVE  /\ n \div d \in Nat
           /\ n % d \in 0 .. (d - 1)
           /\ n = d * (n \div d) + (n % d)
  <1>1. n \div d \in Int /\ n % d \in 0 .. (d - 1) /\ n = d * (n \div d) + (n % d)
    BY Division
  <1>2. ASSUME n \div d < 0 PROVE FALSE
    <2>1. n \div d <= -1
      BY <1>1, <1>2
    <2>2. d * (n \div d) <= -d
      BY <1>1, <2>1
    <2> QED
      BY <1>1, <2>2
  <1> QED
    BY <1>1, <1>2

\* There is one quotient and one remainder.
LEMMA DivisionUnique ==
    ASSUME NEW d \in Nat \ {0}, NEW a \in Nat, NEW b \in 0 .. (d - 1),
           NEW q \in Nat, NEW r \in 0 .. (d - 1), d * a + b = d * q + r
    PROVE  a = q /\ b = r
  <1>1. d * (a - q) = r - b
    OBVIOUS
  <1>2. ASSUME a - q >= 1 PROVE FALSE
    <2>1. d * (a - q) >= d
      BY <1>2
    <2> QED
      BY <1>1, <2>1
  <1>3. ASSUME a - q <= -1 PROVE FALSE
    <2>1. d * (a - q) <= -d
      BY <1>3
    <2> QED
      BY <1>1, <2>1
  <1>4. a = q
    BY <1>2, <1>3
  <1> QED
    BY <1>4

\* A remainder below its divisor is the number itself.
LEMMA SmallMod ==
    ASSUME NEW n \in Nat, NEW d \in Nat \ {0}, n < d
    PROVE  n % d = n
  <1>1. n \div d \in Nat /\ n % d \in 0 .. (d - 1) /\ n = d * (n \div d) + (n % d)
    BY DivisionNat
  <1>2. n \in 0 .. (d - 1) /\ d * 0 + n = d * (n \div d) + (n % d)
    BY <1>1
  <1> QED
    BY <1>1, <1>2, DivisionUnique

\* Dividing a multiple.
LEMMA ExactDivision ==
    ASSUME NEW a \in Nat, NEW d \in Nat \ {0}
    PROVE  (a * d) \div d = a
  <1>1. a * d \in Nat
    OBVIOUS
  <1>2. PICK q \in Nat, r \in 0 .. (d - 1) :
            q = (a * d) \div d /\ r = (a * d) % d /\ a * d = d * q + r
    BY <1>1, DivisionNat
  <1>3. 0 \in 0 .. (d - 1) /\ d * a + 0 = d * q + r
    BY <1>2
  <1>4. a = q
    BY <1>3, DivisionUnique
  <1> QED
    BY <1>2, <1>4

\* Rounding up: the least multiple that covers n.
LEMMA CeilDivCovers ==
    ASSUME NEW n \in Nat, NEW d \in Nat \ {0}
    PROVE  /\ CeilDiv(n, d) \in Nat
           /\ CeilDiv(n, d) * d >= n
           /\ CeilDiv(n, d) * d < n + d
  <1>1. PICK m \in Nat : m = n + (d - 1)
    OBVIOUS
  <1>2. m \div d \in Nat /\ m % d \in 0 .. (d - 1) /\ m = d * (m \div d) + (m % d)
    BY DivisionNat
  <1>3. (m \div d) * d = d * (m \div d)
    BY <1>2
  <1> QED
    BY <1>1, <1>2, <1>3 DEF CeilDiv

\* sats_to_tongo_units returns a number of units or the error.
LEMMA UnitsType ==
    ASSUME NEW sats \in Nat
    PROVE  SatsToTongoUnits(sats) \in Nat \cup {Invalid}
  <1>1. sats + (Rate - 1) \in Int /\ Word \in Nat \ {0}
    BY RateAssumption, WordAssumption
  <1>2. (sats + (Rate - 1)) % Word \in Nat
    BY <1>1, Division
  <1> QED
    BY <1>2, DivisionNat, RateAssumption DEF SatsToTongoUnits

\* An amount whose rounding fits a u64 is paid with the least number of units
\* that cover it: the user never gives away a whole unit, and never sends
\* less than was typed.
THEOREM LeastCover ==
    ASSUME NEW sats \in Nat \ {0}, sats + (Rate - 1) < Word
    PROVE  /\ SatsToTongoUnits(sats) \in Nat
           /\ TongoUnitsToSats(SatsToTongoUnits(sats)) >= sats
           /\ TongoUnitsToSats(SatsToTongoUnits(sats)) < sats + Rate
  <1>1. SatsToTongoUnits(sats) = CeilDiv(sats, Rate)
    BY SmallMod, RateAssumption, WordAssumption DEF SatsToTongoUnits, CeilDiv
  <1> QED
    BY <1>1, CeilDivCovers, RateAssumption DEF TongoUnitsToSats

\* Units survive being written as satoshis and read back, as handle_auto_fund
\* does with what it sweeps: it funds exactly the whole units it has read.
THEOREM UnitsRoundTrip ==
    ASSUME NEW units \in Nat \ {0}, units * Rate + (Rate - 1) < Word
    PROVE  SatsToTongoUnits(TongoUnitsToSats(units)) = units
  <1> DEFINE sats == units * Rate
             back == SatsToTongoUnits(sats)
  <1>1. sats \in Nat \ {0}
    BY RateAssumption
  <1>2. back \in Nat /\ back * Rate >= sats /\ back * Rate < sats + Rate
    BY <1>1, LeastCover DEF TongoUnitsToSats
  <1>3. ASSUME back < units PROVE FALSE
    <2>1. (units - back) * Rate >= Rate
      BY <1>2, <1>3, RateAssumption
    <2>2. (units - back) * Rate = units * Rate - back * Rate
      BY <1>2, RateAssumption
    <2> QED
      BY <1>1, <1>2, <2>1, <2>2, RateAssumption
  <1>4. ASSUME back > units PROVE FALSE
    <2>1. (back - units) * Rate >= Rate
      BY <1>2, <1>4, RateAssumption
    <2>2. (back - units) * Rate = back * Rate - units * Rate
      BY <1>2, RateAssumption
    <2> QED
      BY <1>1, <1>2, <2>1, <2>2, RateAssumption
  <1> QED
    BY <1>2, <1>3, <1>4 DEF TongoUnitsToSats

\* The fee is a whole number of units that covers the configured percentage,
\* so what operations.rs deducts is what calculate_fee_sats announced.
THEOREM FeeIsWholeUnits ==
    ASSUME NEW sats \in Nat
    PROVE  /\ CalculateFeeSats(sats) \div Rate \in Nat
           /\ TongoUnitsToSats(CalculateFeeSats(sats) \div Rate) = CalculateFeeSats(sats)
           /\ FeePercent > 0 => 100 * CalculateFeeSats(sats) >= sats * FeePercent
  <1>1. CASE FeePercent <= 0 \/ sats = 0
    <2>1. CalculateFeeSats(sats) = 0
      BY <1>1 DEF CalculateFeeSats
    <2>2. 0 \div Rate = 0
      <3>1. 0 * Rate = 0
        BY RateAssumption
      <3> QED
        BY <3>1, ExactDivision, RateAssumption
    <2> QED
      BY <1>1, <2>1, <2>2, RateAssumption, FeeAssumption DEF TongoUnitsToSats
  <1>2. CASE FeePercent > 0 /\ sats # 0
    <2> DEFINE raw == CeilDiv(sats * FeePercent, 100)
               units == CeilDiv(raw, Rate)
    <2>1. sats * FeePercent \in Nat
      BY <1>2, FeeAssumption
    <2>2. raw \in Nat /\ raw * 100 >= sats * FeePercent
      BY <2>1, CeilDivCovers
    <2>3. units \in Nat /\ units * Rate >= raw
      BY <2>2, CeilDivCovers, RateAssumption
    <2>4. CalculateFeeSats(sats) = units * Rate
      BY <1>2, FeeAssumption DEF CalculateFeeSats
    <2>5. units * Rate \in Nat
      BY <2>3, RateAssumption
    <2>6. (units * Rate) \div Rate = units
      BY <2>3, ExactDivision, RateAssumption
    <2>7. 100 * (units * Rate) >= sats * FeePercent
      BY <2>1, <2>2, <2>3, <2>5
    <2> QED
      BY <2>3, <2>4, <2>6, <2>7 DEF TongoUnitsToSats
  <1> QED
    BY <1>1, <1>2, FeeAssumption

\* The fee units of a withdrawal are a natural number.
LEMMA FeeUnitsType ==
    ASSUME NEW sats \in Nat, NEW toSelf \in BOOLEAN
    PROVE  ComputeWithdrawFeeUnits(sats, toSelf) \in Nat
  BY FeeIsWholeUnits DEF ComputeWithdrawFeeUnits, ComputeFeeUnits

=============================================================================
