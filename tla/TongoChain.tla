----------------------------- MODULE TongoChain -----------------------------
(***************************************************************************)
(* The part of Starknet one Oubli wallet sees, modelled from the way       *)
(* oubli-wallet uses it: the wallet's public wBTC (satoshis), its Tongo    *)
(* account (spendable and pending units and a nonce), whether its account  *)
(* contract is deployed, and the transactions that were accepted by the    *)
(* paymaster and have not executed.                                        *)
(*                                                                         *)
(* A Tongo balance is stored encrypted.  What a proof depends on is which  *)
(* ciphertext it was made against: a cipher is a version, the nonce at     *)
(* which the contract stored it, and the value it encrypts.  The contract *)
(* rate, get_rate(), is the wallet's RATE, as denomination.rs says.        *)
(***************************************************************************)
EXTENDS Denomination

CONSTANTS TxIds,          \* bound: transactions in flight at once
          Arrivals,       \* amounts (satoshis) others send to the public address
          Receipts,       \* amounts (units) others send to the Tongo account
          MaxIncoming,    \* bound: arrivals and receipts in a behaviour
          MaxEvictions,   \* bound: accepted transactions that never execute
          StartsDeployed  \* whether the account contract exists at the start

ASSUME ChainAssumption ==
    /\ Arrivals \subseteq Nat \ {0}
    /\ Receipts \subseteq Nat \ {0}
    /\ MaxIncoming \in Nat
    /\ MaxEvictions \in Nat
    /\ StartsDeployed \in BOOLEAN

VARIABLES ledger,     \* what the latest block says of this wallet
          mempool,    \* transactions submitted and not yet executed
          incoming,   \* payments received so far
          evictions   \* transactions dropped so far

chainVars == <<ledger, mempool, incoming, evictions>>

Ledger == [pub : Nat, bal : Nat, pend : Nat, nonce : Nat, deployed : BOOLEAN]

Cipher == [ver : Int, val : Int]

\* The ciphertext the contract holds for a ledger.
CipherOf(l) == [ver |-> l.nonce, val |-> l.bal]

\* The calls a transaction carries.  A call that spends is a proof about one
\* ciphertext; a rollover is a proof about the nonce alone; "approve" is the
\* harmless call deploy_account adds and "token" an ERC-20 transfer.
CipherKinds == {"fund", "transfer", "withdraw", "ragequit"}
TongoKinds  == CipherKinds \cup {"rollover"}
Kinds       == TongoKinds \cup {"token", "approve"}

Call == [kind : Kinds, amount : Nat, nonce : Nat, cipher : Cipher,
         toSelf : BOOLEAN]

\* fee is a second call of the same transaction, none when its amount is 0.
Tx == [id : TxIds, deploy : BOOLEAN, call : Call, fee : Call]

\* The contract accepts call c in ledger l.
CallOk(l, c) ==
    /\ c.kind \in TongoKinds => c.nonce = l.nonce
    /\ c.kind \in CipherKinds => c.cipher = CipherOf(l)
    /\ c.kind = "fund" => c.amount * Rate <= l.pub
    /\ c.kind \in {"transfer", "withdraw"} => c.amount <= l.bal
    /\ c.kind = "token" => c.amount <= l.pub

\* The ledger after an operation of the Tongo account; the nonce counts them.
Operated(l, pub, bal, pend) ==
    [pub |-> pub, bal |-> bal, pend |-> pend, nonce |-> l.nonce + 1,
     deployed |-> l.deployed]

\* What call c does to ledger l; toSelf says the recipient is this wallet.
Apply(l, c) ==
    CASE c.kind = "fund" ->
           Operated(l, l.pub - c.amount * Rate, l.bal + c.amount, l.pend)
      [] c.kind = "rollover" -> Operated(l, l.pub, l.bal + l.pend, 0)
      [] c.kind = "transfer" -> Operated(l, l.pub, l.bal - c.amount, l.pend)
      [] c.kind = "withdraw" ->
           Operated(l, l.pub + (IF c.toSelf THEN c.amount * Rate ELSE 0),
                    l.bal - c.amount, l.pend)
      [] c.kind = "ragequit" ->
           Operated(l, l.pub + (IF c.toSelf THEN l.bal * Rate ELSE 0), 0, l.pend)
      [] c.kind = "token" -> [l EXCEPT !.pub = @ - c.amount]
      [] OTHER -> l

\* A transaction executes all its calls, in order, or none.
TxOk(l, t) ==
    /\ t.deploy = ~l.deployed
    /\ CallOk(l, t.call)
    /\ t.fee.amount > 0 => CallOk(Apply(l, t.call), t.fee)

TxApply(l, t) ==
    LET called == Apply([l EXCEPT !.deployed = TRUE], t.call)
    IN  IF t.fee.amount > 0 THEN Apply(called, t.fee) ELSE called

-----------------------------------------------------------------------------
ChainInit ==
    /\ ledger = [pub |-> 0, bal |-> 0, pend |-> 0, nonce |-> 0,
                 deployed |-> StartsDeployed]
    /\ mempool = {}
    /\ incoming = 0
    /\ evictions = 0

\* A transaction in flight executes; the order is the sequencer's.
Execute(t) ==
    /\ TxOk(ledger, t)
    /\ ledger' = TxApply(ledger, t)
    /\ mempool' = mempool \ {t}
    /\ UNCHANGED <<incoming, evictions>>

\* A transaction whose proofs no longer fit the account is reverted.
Revert(t) ==
    /\ ~TxOk(ledger, t)
    /\ mempool' = mempool \ {t}
    /\ UNCHANGED <<ledger, incoming, evictions>>

\* An accepted transaction is lost.
Evict(t) ==
    /\ evictions < MaxEvictions
    /\ evictions' = evictions + 1
    /\ mempool' = mempool \ {t}
    /\ UNCHANGED <<ledger, incoming>>

\* Someone, or a finished swap, sends wBTC to the public address.
ArrivePublic ==
    /\ incoming < MaxIncoming
    /\ incoming' = incoming + 1
    /\ \E sats \in Arrivals : ledger' = [ledger EXCEPT !.pub = @ + sats]
    /\ UNCHANGED <<mempool, evictions>>

\* Another Tongo account transfers to this one: the units are pending until
\* a rollover, and the nonce and the stored ciphertext do not change.
ReceiveTransfer ==
    /\ incoming < MaxIncoming
    /\ incoming' = incoming + 1
    /\ \E units \in Receipts : ledger' = [ledger EXCEPT !.pend = @ + units]
    /\ UNCHANGED <<mempool, evictions>>

ChainNext ==
    \/ \E t \in mempool : Execute(t) \/ Revert(t) \/ Evict(t)
    \/ ArrivePublic
    \/ ReceiveTransfer

=============================================================================
