------------------------------ MODULE WalletOps ------------------------------
(***************************************************************************)
(* The money-moving operations of oubli-wallet's WalletCore (core.rs and   *)
(* operations.rs) against the chain of TongoChain.  The bridge runs every  *)
(* handler under the core mutex, so one handler is active at a time; pc    *)
(* is where it waits for an answer, and between two of its steps the chain *)
(* moves: transactions execute in any order, revert or are lost, payments  *)
(* come in.  The process may die at any step; what was submitted stays     *)
(* submitted.                                                              *)
(***************************************************************************)
EXTENDS TongoChain

CONSTANTS RequestKinds,   \* operations the user may ask for in this instance
          RequestSats,    \* amounts (satoshis) the user may type
          MaxRequests     \* bound: requests in a behaviour

ASSUME RequestAssumption ==
    /\ RequestKinds \subseteq (TongoKinds \cup {"token"})
    /\ RequestSats \subseteq Nat
    /\ MaxRequests \in Nat

VARIABLES acct,       \* active_account, the in-memory copy of the Tongo account
          wstate,     \* wallet_state, with the balances it displays
          pc,         \* where the running handler is, "idle" when none runs
          op,         \* what the running handler was asked to do
          seen,       \* the public balance handle_auto_fund has read
          requests    \* user requests so far

walletVars == <<acct, wstate, pc, op, seen, requests>>
vars == <<chainVars, walletVars>>

NoCipher == [ver |-> -1, val |-> 0]

Account == [loaded : BOOLEAN, balance : Nat, pending : Nat, nonce : Nat,
            cipher : Cipher]

NoAccount == [loaded |-> FALSE, balance |-> 0, pending |-> 0, nonce |-> 0,
              cipher |-> NoCipher]

\* derive_active_account: nothing is known of the chain yet.
FreshAccount == [loaded |-> TRUE, balance |-> 0, pending |-> 0, nonce |-> 0,
                 cipher |-> NoCipher]

State(label) == [label |-> label, balance |-> 0, pending |-> 0]
Ready(a) == [label |-> "Ready", balance |-> a.balance, pending |-> a.pending]

Op(kind) == [kind |-> kind, sats |-> 0, toSelf |-> FALSE]
NoOp == Op("none")

\* The two handlers that fetch and then sweep and claim.
SweepKinds == {"refresh", "unlock"}

-----------------------------------------------------------------------------
(* What goes into a transaction. *)

\* A call proved against the in-memory nonce and, for a spend, ciphertext.
MainCall(kind, amount, toSelf) ==
    [kind |-> kind, amount |-> amount, toSelf |-> toSelf,
     nonce  |-> IF kind \in TongoKinds THEN acct.nonce ELSE 0,
     cipher |-> IF kind \in CipherKinds THEN acct.cipher ELSE NoCipher]

NoCall == [kind |-> "approve", amount |-> 0, toSelf |-> FALSE,
           nonce |-> 0, cipher |-> NoCipher]

\* Mutant: the fee is proved against the ciphertext before the withdrawal.
MutantFeeCallStale(amount, fee) ==
    IF fee = 0 THEN NoCall
    ELSE [kind |-> "transfer", amount |-> fee, toSelf |-> FALSE,
          nonce  |-> acct.nonce + 1, cipher |-> acct.cipher]

\* build_fee_call on post_withdraw_cipher: the fee is a transfer from the
\* account as the withdrawal of amount, in the same transaction, leaves it.
FeeCall(amount, fee) ==
    IF fee = 0 THEN NoCall
    ELSE [kind |-> "transfer", amount |-> fee, toSelf |-> FALSE,
          nonce  |-> acct.nonce + 1,
          cipher |-> [ver |-> acct.cipher.ver + 1,
                      val |-> acct.cipher.val - amount]]

\* is_account_deployed: a request that got an error body back, whatever the
\* error, counts as "not deployed".  The answer TRUE makes submit deploy too.
DeployAnswers == {~ledger.deployed, TRUE}

\* A submission waits while every slot of TxIds is taken.
FreeIds == TxIds \ {t.id : t \in mempool}

\* The paymaster takes a transaction of these calls.
Enqueue(deploys, call, fee) ==
    \E id \in FreeIds, deploy \in deploys :
        mempool' = mempool \cup
            {[id |-> id, deploy |-> deploy, call |-> call, fee |-> fee]}

\* ensure_deployed and submit
Accepted(call, fee) == Enqueue(DeployAnswers, call, fee)

\* deploy_account finding no account
Deploying == Enqueue({TRUE}, NoCall, NoCall)

\* The submission fails: it never arrived, or only its answer was lost.
Failed(call, fee) ==
    /\ FreeIds # {}
    /\ UNCHANGED mempool \/ Accepted(call, fee)

UnchangedChain == UNCHANGED <<ledger, incoming, evictions>>

-----------------------------------------------------------------------------
(* The in-memory account. *)

\* fetch_and_decrypt_balance
Snapshot == [loaded |-> TRUE, balance |-> ledger.bal, pending |-> ledger.pend,
             nonce |-> ledger.nonce, cipher |-> CipherOf(ledger)]

\* Mutant: the optimistic update predicts the ciphertext as well.
MutantOptimisticCipher(a, balance, pending, calls) ==
    [loaded |-> a.loaded, balance |-> balance, pending |-> pending,
     nonce |-> a.nonce + calls,
     cipher |-> [ver |-> a.nonce + calls, val |-> balance]]

\* The optimistic updates at the end of each execute_ function: the balances
\* and the nonce move as if the transaction had executed, the ciphertext stays.
Optimistic(a, balance, pending, calls) ==
    [loaded |-> a.loaded, balance |-> balance, pending |-> pending,
     nonce |-> a.nonce + calls, cipher |-> a.cipher]

AfterFund(a, amount) == Optimistic(a, a.balance + amount, a.pending, 1)

AfterRollover(a) == Optimistic(a, a.balance + a.pending, 0, 1)

AfterSpend(a, amount, fee) ==
    Optimistic(a, IF a.balance > amount + fee THEN a.balance - (amount + fee) ELSE 0,
               a.pending, IF fee > 0 THEN 2 ELSE 1)

AfterRagequit(a) == Optimistic(a, 0, 0, 1)

-----------------------------------------------------------------------------
(* The request being served. *)

\* The units a request is for; send_token takes satoshis as they are.
UnitsFor(kind, sats) ==
    CASE kind \in {"fund", "transfer", "withdraw"} -> SatsToTongoUnits(sats)
      [] kind = "token" -> sats
      [] OTHER -> 0

\* Only a withdrawal pays the service fee.
FeeFor(kind, sats, toSelf) ==
    IF kind = "withdraw" THEN ComputeWithdrawFeeUnits(sats, toSelf) ELSE 0

OpUnits == UnitsFor(op.kind, op.sats)
OpFee == FeeFor(op.kind, op.sats, op.toSelf)

\* Mutant: the balance check forgets the fee.
MutantAllowedWithoutFee ==
    /\ OpUnits # Invalid
    /\ op.kind \in {"transfer", "withdraw"} => acct.balance >= OpUnits
    /\ op.kind = "rollover" => acct.pending > 0
    /\ op.kind \in CipherKinds => acct.cipher # NoCipher

\* The early returns of execute_fund, _rollover, _transfer, _withdraw and
\* _ragequit; send_token has none.
OpAllowed ==
    /\ OpUnits # Invalid
    /\ op.kind \in {"transfer", "withdraw"} => acct.balance >= OpUnits + OpFee
    /\ op.kind = "rollover" => acct.pending > 0
    /\ op.kind \in CipherKinds => acct.cipher # NoCipher

OpCall == MainCall(op.kind, OpUnits, op.toSelf)
OpFeeCall == FeeCall(OpUnits, OpFee)

OpAfter ==
    CASE op.kind = "fund" -> AfterFund(acct, OpUnits)
      [] op.kind = "rollover" -> AfterRollover(acct)
      [] op.kind \in {"transfer", "withdraw"} -> AfterSpend(acct, OpUnits, OpFee)
      [] op.kind = "ragequit" -> AfterRagequit(acct)
      [] OTHER -> acct

\* The handler returns; send_token is the one that leaves wallet_state alone.
Return(state) ==
    /\ pc' = "idle"
    /\ op' = NoOp
    /\ wstate' = IF op.kind = "token" THEN wstate ELSE state
    /\ UNCHANGED <<seen, requests>>

\* handle_fund, handle_transfer_op, handle_withdraw_op and handle_ragequit_op
\* re-sync before they prove; handle_rollover_op and send_token do not.
StartRequest(kind, sats, toSelf) ==
    /\ pc = "idle"
    /\ acct.loaded
    /\ requests < MaxRequests
    /\ toSelf => kind \in {"withdraw", "ragequit"}
    /\ requests' = requests + 1
    /\ op' = [kind |-> kind, toSelf |-> toSelf,
              sats |-> IF kind \in {"rollover", "ragequit"} THEN 0 ELSE sats]
    /\ pc' = IF kind \in CipherKinds THEN "sync" ELSE "submit"
    /\ wstate' = IF kind = "token" THEN wstate ELSE State("Processing")
    /\ UNCHANGED <<chainVars, acct, seen>>

\* The proof is made and the paymaster answers with a transaction hash.
SubmitRequest ==
    /\ pc = "submit"
    /\ OpAllowed
    /\ Accepted(OpCall, OpFeeCall)
    /\ acct' = OpAfter
    /\ Return(Ready(acct'))
    /\ UnchangedChain

\* A check refuses the request.
RefuseRequest ==
    /\ pc = "submit"
    /\ ~OpAllowed
    /\ Return(State("Error"))
    /\ UNCHANGED <<chainVars, acct>>

\* Mutant: a failed submission is tried again, as section 11.3 of
\* the architecture document plans.
MutantFailRetries ==
    /\ pc = "submit"
    /\ OpAllowed
    /\ Failed(OpCall, OpFeeCall)
    /\ UnchangedChain
    /\ UNCHANGED walletVars

\* A remote call of the handler fails after the checks.
FailRequest ==
    /\ pc = "submit"
    /\ OpAllowed
    /\ Failed(OpCall, OpFeeCall)
    /\ Return(State("Error"))
    /\ UnchangedChain
    /\ UNCHANGED acct

-----------------------------------------------------------------------------
(* Refresh and unlock: fetch, sweep public wBTC, claim pending units. *)

\* handle_refresh_balance, by the user or by the bridge's poll thread.
StartRefresh ==
    /\ pc = "idle"
    /\ acct.loaded
    /\ pc' = "sync"
    /\ op' = Op("refresh")
    /\ UNCHANGED <<chainVars, acct, wstate, seen, requests>>

\* handle_unlock_biometric, or the tail of handle_onboarding.
Unlock ==
    /\ pc = "idle"
    /\ ~acct.loaded
    /\ acct' = FreshAccount
    /\ pc' = "sync"
    /\ op' = Op("unlock")
    /\ UNCHANGED <<chainVars, wstate, seen, requests>>

Goto(step) ==
    /\ pc' = step
    /\ UNCHANGED <<ledger, incoming, evictions, op, wstate, requests>>

\* The fetch every handler but rollover and send_token begins with.
Sync ==
    /\ pc = "sync"
    /\ acct' = Snapshot
    /\ Goto(IF op.kind \in SweepKinds THEN "readPublic" ELSE "submit")
    /\ UNCHANGED <<mempool, seen>>

\* Mutant: an operation ignores the failed sync and proves with what it has.
MutantSyncFailIgnored ==
    /\ pc = "sync"
    /\ UNCHANGED <<chainVars, acct, wstate, op, seen, requests>>
    /\ pc' = IF op.kind \in SweepKinds THEN "readPublic" ELSE "submit"

\* It fails: a refresh returns the error and changes nothing, an unlock goes
\* on without, and a request returns with wallet_state left at Processing.
SyncFails ==
    /\ pc = "sync"
    /\ UNCHANGED <<chainVars, acct, wstate, seen, requests>>
    /\ IF op.kind = "unlock"
         THEN pc' = "readPublic" /\ UNCHANGED op
         ELSE pc' = "idle" /\ op' = NoOp

\* handle_auto_fund reads the public balance; a malformed answer reads as 0.
ReadPublic(answer) ==
    /\ pc = "readPublic"
    /\ seen' = answer
    /\ Goto(IF answer = 0 THEN "rollover" ELSE "deploy")
    /\ UNCHANGED <<mempool, acct>>

\* deploy_account finds the account deployed, or its deployment is accepted
\* and the fund waits for the next refresh.
DeployFirst ==
    /\ pc = "deploy"
    /\ \/ /\ ledger.deployed
          /\ UNCHANGED mempool
          /\ Goto(IF seen < Rate THEN "rollover" ELSE "fund")
       \/ Deploying /\ Goto("rollover")
    /\ UNCHANGED <<acct, seen>>

\* All the whole units read are funded.
SweepUnits == SatsToTongoUnits(TongoUnitsToSats(seen \div Rate))

AutoFund ==
    /\ pc = "fund"
    /\ acct.cipher # NoCipher
    /\ Accepted(MainCall("fund", SweepUnits, FALSE), NoCall)
    /\ acct' = AfterFund(acct, SweepUnits)
    /\ Goto("afterFund")
    /\ UNCHANGED seen

\* handle_auto_fund swallows its errors and the handler goes on.
AutoFundFails ==
    /\ \/ pc \in {"readPublic", "deploy"} /\ UNCHANGED mempool
       \/ pc = "deploy" /\ Deploying
       \/ pc = "fund" /\ acct.cipher = NoCipher /\ UNCHANGED mempool
       \/ pc = "fund" /\ acct.cipher # NoCipher
                      /\ Failed(MainCall("fund", SweepUnits, FALSE), NoCall)
    /\ Goto("rollover")
    /\ UNCHANGED <<acct, seen>>

\* wait_for_tx ends, confirmed or after 30 s, and the account is fetched
\* again; the result of the wait is only logged, and a failed fetch leaves
\* the optimistic account in place.
Refetch ==
    /\ pc \in {"afterFund", "afterRollover"}
    /\ acct' \in {Snapshot, acct}
    /\ Goto(IF pc = "afterFund" THEN "rollover" ELSE "finish")
    /\ UNCHANGED <<mempool, seen>>

\* Mutant: a single pending unit is not worth a rollover.
MutantRolloverDust ==
    /\ pc = "rollover"
    /\ acct.pending > 1
    /\ Accepted(MainCall("rollover", 0, FALSE), NoCall)
    /\ acct' = AfterRollover(acct)
    /\ Goto("afterRollover")
    /\ UNCHANGED seen

AutoRollover ==
    /\ pc = "rollover"
    /\ acct.pending > 0
    /\ Accepted(MainCall("rollover", 0, FALSE), NoCall)
    /\ acct' = AfterRollover(acct)
    /\ Goto("afterRollover")
    /\ UNCHANGED seen

SkipRollover ==
    /\ pc = "rollover"
    /\ IF acct.pending > 0 THEN Failed(MainCall("rollover", 0, FALSE), NoCall)
                           ELSE UNCHANGED mempool
    /\ Goto("finish")
    /\ UNCHANGED <<acct, seen>>

Finish ==
    /\ pc = "finish"
    /\ wstate' = Ready(acct)
    /\ pc' = "idle"
    /\ op' = NoOp
    /\ seen' = 0
    /\ UNCHANGED <<chainVars, acct, requests>>

-----------------------------------------------------------------------------
\* handle_ensure_deployed, called ahead of a Lightning receive: the wait for
\* the deployment only keeps the core mutex.
EnsureDeployed ==
    /\ pc = "idle"
    /\ acct.loaded
    /\ requests < MaxRequests
    /\ requests' = requests + 1
    /\ Deploying
    /\ UnchangedChain
    /\ UNCHANGED <<acct, wstate, pc, op, seen>>

\* handle_lock
Lock ==
    /\ pc = "idle"
    /\ acct.loaded
    /\ acct' = NoAccount
    /\ wstate' = State("Locked")
    /\ UNCHANGED <<chainVars, pc, op, seen, requests>>

\* The process dies at any step and starts again locked.
Crash ==
    /\ acct' = NoAccount
    /\ wstate' = State("Locked")
    /\ pc' = "idle"
    /\ op' = NoOp
    /\ seen' = 0
    /\ UNCHANGED <<chainVars, requests>>

WalletInit ==
    /\ acct = NoAccount
    /\ wstate = State("Locked")
    /\ pc = "idle"
    /\ op = NoOp
    /\ seen = 0
    /\ requests = 0

Init == ChainInit /\ WalletInit

SomeRequest ==
    \E kind \in RequestKinds, sats \in RequestSats, toSelf \in BOOLEAN :
        StartRequest(kind, sats, toSelf)

WalletNext ==
    \/ SomeRequest \/ SubmitRequest \/ RefuseRequest \/ FailRequest
    \/ StartRefresh \/ Unlock \/ Sync \/ SyncFails
    \/ ReadPublic(ledger.pub) \/ ReadPublic(0)
    \/ DeployFirst \/ AutoFund \/ AutoFundFails \/ Refetch
    \/ AutoRollover \/ SkipRollover \/ Finish
    \/ EnsureDeployed \/ Lock \/ Crash

Next == \/ ChainNext /\ UNCHANGED walletVars
        \/ WalletNext

Spec == Init /\ [][Next]_vars

-----------------------------------------------------------------------------
(* Properties. *)

TypeOK ==
    /\ ledger \in Ledger
    /\ mempool \subseteq Tx
    /\ incoming \in 0 .. MaxIncoming
    /\ evictions \in 0 .. MaxEvictions
    /\ acct \in Account
    /\ wstate \in [label : {"Locked", "Ready", "Processing", "Error"},
                   balance : Nat, pending : Nat]
    /\ pc \in {"idle", "sync", "submit", "readPublic", "deploy", "fund",
               "afterFund", "rollover", "afterRollover", "finish"}
    /\ op \in [kind : TongoKinds \cup SweepKinds \cup {"none", "token"},
               sats : Nat, toSelf : BOOLEAN]
    /\ seen \in Nat
    /\ requests \in 0 .. MaxRequests

Spends == {t \in mempool : t.call.kind \in CipherKinds}

\* What the wallet knows of the ledger is the past or the present: every
\* ciphertext it holds or has proved against carries a nonce the account has
\* had, and when that nonce is the current one, the current balance.
CipherTrue(c) ==
    /\ c.ver <= ledger.nonce
    /\ c.ver = ledger.nonce => c.val = ledger.bal

CiphersTrue ==
    /\ CipherTrue(acct.cipher)
    /\ \A t \in Spends : CipherTrue(t.call.cipher)

\* A spend was proved with the nonce its ciphertext was stored at, for no
\* more than the ciphertext holds, and its fee call against exactly what its
\* first call leaves behind.
Coherent(t) ==
    /\ t.call.cipher.ver = t.call.nonce
    /\ t.call.kind \in {"transfer", "withdraw"} =>
           t.call.amount + t.fee.amount <= t.call.cipher.val
    /\ t.fee.amount > 0 =>
           /\ t.fee.nonce = t.call.nonce + 1
           /\ t.fee.cipher = [ver |-> t.fee.nonce,
                              val |-> t.call.cipher.val - t.call.amount]

\* core.rs:943-945: the re-sync before a proof makes ciphertext and nonce
\* match, also after an auto-fund or auto-rollover has changed both.
SpendProofsCoherent == \A t \in Spends : Coherent(t)

\* A spend the paymaster accepted can only fail because another transaction
\* of this wallet consumed its nonce, spent its public wBTC or deployed the
\* account first: as long as the nonce is the one it was proved with, it
\* executes, fee included, whatever payments came in, whatever was lost and
\* however often the wallet was restarted.
CurrentSpendLands ==
    \A t \in Spends :
        (/\ t.call.nonce = ledger.nonce
         /\ t.deploy = ~ledger.deployed
         /\ t.call.kind = "fund" => t.call.amount * Rate <= ledger.pub)
            => TxOk(ledger, t)

-----------------------------------------------------------------------------
(* The inductive invariant behind them. *)

\* Only a withdrawal to someone else carries a fee, and the fee is a transfer.
FeeShape(t) ==
    t.fee.amount > 0 => /\ t.call.kind = "withdraw" /\ ~t.call.toSelf
                        /\ t.fee.kind = "transfer" /\ ~t.fee.toSelf

MempoolInv ==
    \A t \in mempool :
        /\ FeeShape(t)
        /\ t.call.kind \in CipherKinds => CipherTrue(t.call.cipher) /\ Coherent(t)

SweepSteps == {"readPublic", "deploy", "fund", "afterFund", "rollover",
               "afterRollover", "finish"}

\* What a handler relies on at each of its steps: at the proof of a requested
\* spend the account is a snapshot, and until a sweep has funded, ciphertext
\* and nonce belong together whenever there is a ciphertext at all.
HandlerInv ==
    /\ CipherTrue(acct.cipher)
    /\ (pc = "submit" /\ op.kind \in CipherKinds) =>
           /\ acct.cipher.ver = acct.nonce
           /\ acct.cipher.val = acct.balance
    /\ (pc \in {"readPublic", "deploy", "fund"} /\ acct.cipher # NoCipher) =>
           acct.cipher.ver = acct.nonce
    /\ pc = "fund" => seen >= Rate
    /\ pc = "idle" => op = NoOp
    /\ pc = "sync" => op.kind \in CipherKinds \cup SweepKinds
    /\ (pc = "sync" /\ op.kind = "unlock") => acct.cipher = NoCipher
    /\ pc = "submit" => op.kind \in TongoKinds \cup {"token"}
    /\ pc \in SweepSteps => op.kind \in SweepKinds

IInv == TypeOK /\ MempoolInv /\ HandlerInv

-----------------------------------------------------------------------------
(* Fairness: the handler goes on, the poll thread refreshes, transactions  *)
(* execute, and a remote call that is tried for ever is answered truthfully *)
(* in the end.                                                             *)

Truthful == \A t \in mempool' \ mempool : t.deploy = ~ledger.deployed

Continue ==
    \/ SubmitRequest \/ RefuseRequest \/ FailRequest \/ SyncFails
    \/ ReadPublic(0) \/ AutoFundFails \/ Refetch \/ SkipRollover \/ Finish

Fairness ==
    /\ \A id \in TxIds :
           WF_vars(\E t \in mempool : t.id = id /\ UNCHANGED walletVars
                                       /\ (Execute(t) \/ Revert(t)))
    /\ WF_vars(StartRefresh)
    /\ WF_vars(Continue)
    /\ SF_vars(Sync)
    /\ SF_vars(ReadPublic(ledger.pub))
    /\ SF_vars(DeployFirst /\ Truthful)
    /\ SF_vars(AutoFund /\ Truthful)
    /\ SF_vars(AutoRollover /\ Truthful)

FairSpec == Spec /\ Fairness

\* Every payment becomes spendable: a wallet that stays unlocked ends, after
\* the last payment and request, with less than a unit of public wBTC, nothing
\* pending, and the chain's balance on display, whatever failed on the way.
Settles ==
    <>[]acct.loaded =>
        <>[](/\ ledger.pub < Rate
             /\ ledger.pend = 0
             /\ wstate = [label |-> "Ready", balance |-> ledger.bal,
                          pending |-> 0])

=============================================================================
