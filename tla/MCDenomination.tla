--------------------------- MODULE MCDenomination ---------------------------
(***************************************************************************)
(* The conversions of Denomination and SwapAmounts against what they are   *)
(* for, with reference definitions where there are any,                    *)
(* for every amount up to MaxSats.  The machine only visits the amounts    *)
(* one by one, as a user editing an amount field does.                     *)
(***************************************************************************)
EXTENDS SwapAmounts

CONSTANT MaxSats    \* bound: the largest amount visited

ASSUME MaxSatsAssumption == MaxSats \in Nat

VARIABLE sats

Init == sats = 0

Next == sats' \in {sats + 1, sats} /\ sats' <= MaxSats

Spec == Init /\ [][Next]_sats

-----------------------------------------------------------------------------
\* The units paid for an amount cover it, and are the fewest that do: the
\* rounding of sats_to_tongo_units never gives away a whole unit.
UnitsAreTheLeastCover ==
    sats > 0 => LET units == SatsToTongoUnits(sats) IN
        /\ TongoUnitsToSats(units) >= sats
        /\ \A fewer \in 0 .. units - 1 : TongoUnitsToSats(fewer) < sats

\* handle_auto_fund turns units into a satoshi string that execute_fund turns
\* back into units: nothing is swept that is not there, and nothing is left.
UnitsSurviveTheString ==
    LET units == sats \div Rate IN
        units > 0 => SatsToTongoUnits(TongoUnitsToSats(units)) = units

\* The fee is a whole number of units, never below the configured percentage
\* and less than one unit and one satoshi above it, so that the fee units
\* operations.rs takes are exactly the fee the user was shown.
FeeIsTheLeastCover ==
    LET fee == CalculateFeeSats(sats) IN
        /\ fee = TongoUnitsToSats(fee \div Rate)
        /\ FeePercent > 0 => 100 * fee >= sats * FeePercent
        /\ fee > 0 => 100 * (fee - Rate) < sats * FeePercent

\* The satoshis, of so many parts each, are one of the nearest to the amount,
\* whichever way the doubles err.
Nearest(amount, multiplier, part) ==
    \A short \in {0, 1} :
        LET parsed == part * ParseBolt11Amount(amount, multiplier, short)
        IN  2 * (parsed - amount) \in -part .. part

\* The satoshis taken from an invoice are nearest to its amount, with an exact
\* half up or down: an invoice for less than half a satoshi is refused as one
\* without an amount, and none for more.
InvoiceAmountIsNearest ==
    /\ Nearest(sats, "n", 10)
    /\ \A off \in {-1, 0, 1} :
        sats > 0 => Nearest(1250 * sats + off, "p", 10000)

\* The strings an amount can be written as without losing anything.
Strings(amount) ==
    {InSats(amount)} \cup
    {InBtc(amount, digits) : digits \in
        {d \in 1 .. Decimals + 2 :
            d < Decimals =>
                (amount % SatsPerBtc) % 10 ^ (Decimals - d) = 0}}

\* handle_pay_lightning withdraws the fewest units that cover the swap,
\* however the quote is written: its own rounding to ten satoshis and the
\* rounding to units do not add up, and no digit of the quote is lost.
WithdrawalIsTheLeastCover ==
    sats > 0 => \A str \in Strings(sats) :
        LET units == WithdrawnUnits(str) IN
            /\ TongoUnitsToSats(units) >= sats
            /\ TongoUnitsToSats(units - 1) < sats

=============================================================================
