----------------------------- MODULE SwapAmounts -----------------------------
(***************************************************************************)
(* Amounts on their way through a Lightning payment: the invoice states    *)
(* one in bitcoin with a multiplier, index.ts turns it into satoshis, the  *)
(* SDK quotes the wBTC it needs as a decimal string of bitcoin, and        *)
(* handle_pay_lightning withdraws that much in whole Tongo units.          *)
(***************************************************************************)
EXTENDS Denomination

CONSTANT Decimals  \* digits after the point of a bitcoin amount

ASSUME DecimalsAssumption == Decimals \in Nat

SatsPerBtc == 10 ^ Decimals

-----------------------------------------------------------------------------
(* The amount of an invoice *)

\* Mutant: fractions of a satoshi are cut off.
MutantTruncates(amount, part, short) == amount \div part

\* Math.round of a product of doubles, of which each part makes a satoshi.  The
\* product may be a little off, which matters at an exact half only: short is 1
\* when it came out below the half, as for 15000p, and is rounded down.
RoundedSats(amount, part, short) == (amount + (part \div 2) - short) \div part

\* "n" stands for a tenth of a satoshi, "p" for a ten-thousandth.  The others
\* are whole satoshis, which the rounding finds again.
ParseBolt11Amount(amount, multiplier, short) ==
    CASE multiplier = "" -> amount * 100000000
      [] multiplier = "m" -> amount * 100000
      [] multiplier = "u" -> amount * 100
      [] multiplier = "n" -> RoundedSats(amount, 10, short)
      [] multiplier = "p" -> RoundedSats(amount, 10000, short)

-----------------------------------------------------------------------------
(* The amount of a quote *)

\* An amount as a string: of satoshis, or of bitcoin with so many digits after
\* the point, the last of which may be zeros.
InSats(sats) == [point |-> FALSE, whole |-> sats]

InBtc(sats, digits) ==
    LET frac == sats % SatsPerBtc
    IN  [point |-> TRUE, whole |-> sats \div SatsPerBtc, digits |-> digits,
         frac |-> IF digits < Decimals THEN frac \div 10 ^ (Decimals - digits)
                                       ELSE frac * 10 ^ (digits - Decimals)]

\* The fraction padded with zeros, or cut, to all the digits of a satoshi.
FracSats(frac, digits) ==
    IF digits < Decimals THEN frac * 10 ^ (Decimals - digits)
                         ELSE frac \div 10 ^ (digits - Decimals)

\* A whole number is one of satoshis already.
BtcStrToSats(str) ==
    IF str.point THEN str.whole * SatsPerBtc + FracSats(str.frac, str.digits)
                 ELSE str.whole

\* Mutant: down to the next multiple of ten.
MutantTensBelow(sats) == (sats \div 10) * 10

\* Up to the next multiple of ten, which is the denomination written out.
RoundedToTens(sats) == ((sats + 9) \div 10) * 10

\* What is withdrawn for a quote: execute_withdraw rounds again, to units.
WithdrawnUnits(str) == SatsToTongoUnits(RoundedToTens(BtcStrToSats(str)))

=============================================================================
