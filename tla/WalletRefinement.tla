-------------------------- MODULE WalletRefinement --------------------------
(***************************************************************************)
(* WalletOps implements PrivatePurse: the order of a request is written    *)
(* when its handler starts, sent when a transaction carrying it reaches    *)
(* the paymaster, whatever answer the wallet gets, and paid or bounced     *)
(* when that transaction executes or does not.                             *)
(***************************************************************************)
EXTENDS WalletOps

SpendKinds == {"transfer", "withdraw", "ragequit", "token"}

NoOrder == [kind |-> "none"]

\* What a request orders, at the price denomination.rs gives it.
OrderFor(kind, sats, toSelf) ==
    [kind |-> kind, amount |-> UnitsFor(kind, sats),
     fee |-> FeeFor(kind, sats, toSelf), toSelf |-> toSelf]

Orders == {OrderFor(kind, sats, toSelf) :
               kind \in SpendKinds, sats \in RequestSats \cup {0},
               toSelf \in BOOLEAN}

Draft == IF op.kind \in SpendKinds THEN OrderFor(op.kind, op.sats, op.toSelf)
                                   ELSE NoOrder

\* The order a transaction in flight carries.
OrderOf(t) == [kind |-> t.call.kind, amount |-> t.call.amount,
               fee |-> t.fee.amount, toSelf |-> t.call.toSelf]

Sent == {[id |-> t.id, order |-> OrderOf(t)] :
             t \in {u \in mempool : u.call.kind \in SpendKinds}}

Purse == INSTANCE PrivatePurse
             WITH Ids <- TxIds,
                  pub <- ledger.pub, bal <- ledger.bal, pend <- ledger.pend,
                  draft <- Draft, sent <- Sent

\* Every behaviour of the wallet is one of the purse: no order is paid twice
\* or at another price, an answer that is lost loses no order, and what the
\* wallet does on its own account never costs the owner anything.
ImplementsPurse == Purse!Spec

=============================================================================
