---------------------------- MODULE Denomination ----------------------------
(***************************************************************************)
(* Amounts in oubli-wallet: satoshis (the smallest wBTC unit) are what the *)
(* user types and sees, Tongo units are what proofs are made about; one    *)
(* unit is Rate satoshis.  Translated from denomination.rs and from the    *)
(* fee helpers of operations.rs.  An error result is the value Invalid,    *)
(* which is no number of units.                                            *)
(***************************************************************************)
EXTENDS Integers

CONSTANTS Rate,         \* RATE: satoshis per Tongo unit
          Word,         \* 2^64: satoshi amounts are u64 and the sum in the
                        \* rounding wraps in a release build
          FeePercent,   \* config.fee_percent, a whole number of percents
          HasCollector  \* config.fee_collector_pubkey.is_some()

ASSUME RateAssumption == Rate \in Nat \ {0}
ASSUME WordAssumption == Word \in Nat /\ Word > Rate
ASSUME FeeAssumption  == FeePercent \in Int /\ HasCollector \in BOOLEAN

\* WalletError::Denomination
Invalid == -1

\* Round n up to a whole number of parts of size d.
CeilDiv(n, d) == (n + (d - 1)) \div d

\* Mutants of the rounding below: down instead of up, and one satoshi too much.
MutantRoundsDown(sats) == IF sats = 0 THEN Invalid ELSE sats \div Rate
MutantRoundsOver(sats) ==
    IF sats = 0 THEN Invalid ELSE ((sats + Rate) % Word) \div Rate

\* A u64 satoshi amount becomes units, rounded up so that the user never
\* sees a denomination error.
SatsToTongoUnits(sats) ==
    IF sats = 0 THEN Invalid ELSE ((sats + (Rate - 1)) % Word) \div Rate

TongoUnitsToSats(units) == units * Rate

\* Mutant: the percentage is truncated.
MutantFeeTruncated(sats) ==
    IF FeePercent <= 0 \/ sats = 0
      THEN 0
      ELSE CeilDiv((sats * FeePercent) \div 100, Rate) * Rate

\* The service fee for an amount, a whole number of units.
CalculateFeeSats(sats) ==
    IF FeePercent <= 0 \/ sats = 0
      THEN 0
      ELSE CeilDiv(CeilDiv(sats * FeePercent, 100), Rate) * Rate

FeeEnabled == HasCollector /\ FeePercent > 0

ComputeFeeUnits(sats) ==
    IF FeeEnabled THEN CalculateFeeSats(sats) \div Rate ELSE 0

\* No fee when the wallet withdraws to its own Starknet address.
ComputeWithdrawFeeUnits(sats, toSelf) ==
    IF toSelf THEN 0 ELSE ComputeFeeUnits(sats)

=============================================================================
