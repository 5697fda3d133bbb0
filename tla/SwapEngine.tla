------------------------------ MODULE SwapEngine ------------------------------
(***************************************************************************)
(* Lightning payments and other swaps of an Oubli wallet: the entry points *)
(* of oubli-swap-js (index.ts, signer.ts) as WalletCore and SwapEngine     *)
(* call them, the Atomiq SDK they drive, and Starknet, the provider and    *)
(* the Lightning network around them.                                      *)
(*                                                                         *)
(* A call of the bridge holds the core mutex from start to end, so at most *)
(* one call runs; the chain, the provider, the payer and the SDK's event   *)
(* listener act between any two of its steps, every remote step may fail   *)
(* and the process may die anywhere.  The SDK keeps its swaps in the       *)
(* runtime's in-memory IndexedDB, so they live as long as the engine.      *)
(***************************************************************************)
EXTENDS Integers, FiniteSets

CONSTANTS Pays,      \* quotes for paying an invoice or a bitcoin address
          Receives,  \* quotes for receiving over Lightning
          OnRamps,   \* quotes for buying wBTC with bitcoin
          NoSwap,    \* the swap of no call
          MaxQuotes, \* bound: quotes asked for
          MaxDrops   \* bound: process deaths and locks

Swaps == Pays \cup Receives \cup OnRamps

ASSUME EngineAssumption ==
    /\ Pays \cap Receives = {}
    /\ OnRamps \cap (Pays \cup Receives) = {}
    /\ NoSwap \notin Swaps
    /\ MaxQuotes \in Nat
    /\ MaxDrops \in Nat

VARIABLES engine,  \* whether WalletCore has an initialised swap_engine
          tracked, \* activeSwaps: with the signer wrapped around it, or raw
          sdk,     \* state of the SDK's swap object
          stored,  \* swaps in the SDK's store, those it calls initiated
          call,    \* the call of the bridge that runs
          answer,  \* history: the last definite answer about a swap
          escrow,  \* the escrow contract's entry for a swap
          invoice, \* the payment outside Starknet
          tx,      \* swaps whose commit or claim has been sent and not mined
          drops    \* process deaths and locks so far

engineVars == <<engine, tracked, sdk, stored>>
worldVars == <<escrow, invoice, tx>>
vars == <<engineVars, call, answer, worldVars, drops>>

PayStates == {"CREATED", "COMMITED", "SOFT_CLAIMED", "CLAIMED", "REFUNDABLE"}
ReceiveStates == {"PR_CREATED", "PR_PAID", "CLAIM_COMMITED", "CLAIM_CLAIMED",
                  "EXPIRED", "QUOTE_EXPIRED", "FAILED"}
Steps == {"withdraw", "confirm", "commit", "mined", "payment", "poll", "claim",
          "claimed"}

Idle == [op |-> "none", swap |-> NoSwap, step |-> "idle"]

At(s, step) == call.swap = s /\ call.step = step
Goto(step) == call' = [call EXCEPT !.step = step]
Return(s, a) ==
    /\ call' = Idle
    /\ answer' = IF a = "error" THEN answer ELSE [answer EXCEPT ![s] = a]

\* A quote the caller may name: it has been given out.
Quoted(s) == invoice[s] # "unborn"
Quotes == {s \in Swaps : Quoted(s)}

Put(f, s, x) == [f EXCEPT ![s] = x]

TypeOK ==
    /\ engine \in BOOLEAN
    /\ tracked \in [Swaps -> {"no", "wrapped", "raw"}]
    /\ sdk \in [Swaps -> {"none"} \cup PayStates \cup ReceiveStates]
    /\ stored \subseteq Swaps
    /\ call \in {Idle} \cup [op : {"execute", "pay", "wait"}, swap : Swaps,
                             step : Steps]
    /\ answer \in [Swaps -> {"nothing", "ok", "refundable", "expired"}]
    /\ escrow \in [Swaps -> {"none", "locked", "claimed", "refunded"}]
    /\ invoice \in [Swaps -> {"unborn", "open", "held", "settled", "failed"}]
    /\ tx \subseteq Swaps
    /\ drops \in Nat

Init ==
    /\ engine = FALSE
    /\ tracked = [s \in Swaps |-> "no"]
    /\ sdk = [s \in Swaps |-> "none"]
    /\ stored = {}
    /\ call = Idle
    /\ answer = [s \in Swaps |-> "nothing"]
    /\ escrow = [s \in Swaps |-> "none"]
    /\ invoice = [s \in Swaps |-> "unborn"]
    /\ tx = {}
    /\ drops = 0

-----------------------------------------------------------------------------
(* The engine and the quotes *)

\* ensure_swap_engine builds a JavaScript context and runs init in it; when
\* any step of that fails there is still no engine.
InitEngine ==
    /\ ~engine
    /\ call = Idle
    /\ engine' = TRUE
    /\ UNCHANGED <<tracked, sdk, stored, call, answer, worldVars, drops>>

\* The SDK negotiates a quote and returns it with the signer wrapped around it.
CreateSwap(s, state) ==
    /\ engine
    /\ call = Idle
    /\ ~Quoted(s)
    /\ Cardinality(Quotes) < MaxQuotes
    /\ sdk' = Put(sdk, s, state)
    /\ tracked' = Put(tracked, s, "wrapped")
    /\ invoice' = Put(invoice, s, "open")
    /\ UNCHANGED <<engine, stored, answer, escrow, tx, drops>>

createBtcToWbtcSwap(s) ==
    s \in OnRamps /\ CreateSwap(s, "CREATED") /\ UNCHANGED call

createWbtcToBtcSwap(s) ==
    s \in Pays /\ CreateSwap(s, "CREATED") /\ UNCHANGED call

createLnToWbtcSwap(s) ==
    s \in Receives /\ CreateSwap(s, "PR_CREATED") /\ UNCHANGED call

\* The only caller of createWbtcToBtcLnSwap is handle_pay_lightning, which
\* goes on with the withdrawal.
createWbtcToBtcLnSwap(s) ==
    /\ s \in Pays
    /\ CreateSwap(s, "CREATED")
    /\ call' = [op |-> "pay", swap |-> s, step |-> "withdraw"]

\* getTrackedSwap falls back on the SDK, whose getSwapById returns the swap
\* without the signer.
Known(s) == tracked[s] # "no" \/ s \in stored
Track(s) ==
    tracked' = IF tracked[s] = "no" THEN Put(tracked, s, "raw") ELSE tracked

\* getAllSwaps replaces what is tracked by what the SDK's store returns.
getAllSwaps ==
    /\ engine
    /\ call = Idle
    /\ tracked' = [s \in Swaps |-> IF s \in stored THEN "raw" ELSE tracked[s]]
    /\ UNCHANGED <<engine, sdk, stored, call, answer, worldVars, drops>>

getSwapStatus(s) ==
    /\ engine
    /\ call = Idle
    /\ Known(s)
    /\ Track(s)
    /\ UNCHANGED <<engine, sdk, stored, call, answer, worldVars, drops>>

\* handle_lock drops the engine, a death of the process drops all of it.
Forget ==
    /\ drops < MaxDrops
    /\ drops' = drops + 1
    /\ engine' = FALSE
    /\ tracked' = [s \in Swaps |-> "no"]
    /\ sdk' = [s \in Swaps |-> "none"]
    /\ stored' = {}
    /\ call' = Idle
    /\ UNCHANGED <<answer, worldVars>>

-----------------------------------------------------------------------------
(* handle_pay_lightning before it executes the swap *)

\* The withdrawal is sent, and its receipt is waited for; is_tx_confirmed does
\* not look at whether it was reverted.
Withdraw(s) ==
    /\ At(s, "withdraw")
    /\ Goto("confirm")
    /\ UNCHANGED <<engineVars, answer, worldVars, drops>>

Confirm(s) ==
    /\ At(s, "confirm")
    /\ Goto("commit")
    /\ UNCHANGED <<engineVars, answer, worldVars, drops>>

\* The balance does not cover it, the submission fails, or three minutes pass.
PayFails(s) ==
    /\ At(s, "withdraw") \/ At(s, "confirm")
    /\ Return(s, "error")
    /\ UNCHANGED <<engineVars, worldVars, drops>>

-----------------------------------------------------------------------------
(* executeSwap *)

Execute(s) ==
    /\ engine
    /\ call = Idle
    /\ s \in Pays
    /\ Known(s)
    /\ Track(s)
    /\ call' = [op |-> "execute", swap |-> s, step |-> "commit"]
    /\ UNCHANGED <<engine, sdk, stored, answer, worldVars, drops>>

\* An on-ramp has neither commit nor waitForPayment: there is nothing to do.
ExecuteNothing(s) ==
    /\ engine
    /\ call = Idle
    /\ s \in OnRamps
    /\ Known(s)
    /\ Track(s)
    /\ answer' = Put(answer, s, "ok")
    /\ UNCHANGED <<engine, sdk, stored, call, worldVars, drops>>

\* commit() needs a signer and a swap that is CREATED.
MayCommit(s) == tracked[s] = "wrapped" /\ sdk[s] = "CREATED"

\* The swap is marked initiated and stored before the transaction is built.
Initiate(s) == stored' = stored \cup {s}

CommitOver(s) ==
    /\ At(s, "commit")
    /\ ~MayCommit(s)
    /\ Return(s, "error")
    /\ UNCHANGED <<engineVars, worldVars, drops>>

\* Nothing reaches the chain: the quote has expired or the paymaster refuses.
CommitRefused(s) ==
    /\ At(s, "commit")
    /\ MayCommit(s)
    /\ Initiate(s)
    /\ Return(s, "error")
    /\ UNCHANGED <<engine, tracked, sdk, worldVars, drops>>

\* The paymaster sends what it executes whether or not its answer arrives.
PaymasterSends(s) == tx' = tx \cup {s}

CommitAnswered(s) ==
    /\ At(s, "commit")
    /\ MayCommit(s)
    /\ Initiate(s)
    /\ PaymasterSends(s)
    /\ Goto("mined")
    /\ UNCHANGED <<engine, tracked, sdk, answer, escrow, invoice, drops>>

CommitUnanswered(s) ==
    /\ At(s, "commit")
    /\ MayCommit(s)
    /\ Initiate(s)
    /\ PaymasterSends(s)
    /\ Return(s, "error")
    /\ UNCHANGED <<engine, tracked, sdk, escrow, invoice, drops>>

\* Mutant: the answer of the paymaster is taken for the transaction's success.
MutantCommitUnconfirmed(s) ==
    /\ At(s, "mined")
    /\ sdk' = IF sdk[s] = "CREATED" THEN Put(sdk, s, "COMMITED") ELSE sdk
    /\ Goto("payment")
    /\ UNCHANGED <<engine, tracked, stored, answer, worldVars, drops>>

\* sendAndConfirm has waited for the transaction.
CommitMined(s) ==
    /\ At(s, "mined")
    /\ escrow[s] # "none"
    /\ sdk' = IF sdk[s] = "CREATED" THEN Put(sdk, s, "COMMITED") ELSE sdk
    /\ Goto("payment")
    /\ UNCHANGED <<engine, tracked, stored, answer, worldVars, drops>>

CommitReverted(s) ==
    /\ At(s, "mined")
    /\ s \notin tx
    /\ escrow[s] = "none"
    /\ Return(s, "error")
    /\ UNCHANGED <<engineVars, worldVars, drops>>

\* waitForPayment(120, 5): the provider shows the preimage, which the SDK
\* checks, or the claim of the escrow has been seen.
PaymentDone(s) ==
    /\ At(s, "payment")
    /\ invoice[s] = "settled"
    /\ sdk' = IF sdk[s] = "CLAIMED" THEN sdk ELSE Put(sdk, s, "SOFT_CLAIMED")
    /\ tracked' = Put(tracked, s, "no")
    /\ Return(s, "ok")
    /\ UNCHANGED <<engine, stored, worldVars, drops>>

\* Mutant: what waitForPayment returns is not looked at.
MutantPaymentUnchecked(s) ==
    /\ At(s, "payment")
    /\ invoice[s] = "failed"
    /\ sdk' = Put(sdk, s, "REFUNDABLE")
    /\ Return(s, "ok")
    /\ UNCHANGED <<engine, tracked, stored, worldVars, drops>>

\* The provider has given up and signs that the escrow may be refunded.
PaymentRefused(s) ==
    /\ At(s, "payment")
    /\ invoice[s] = "failed"
    /\ sdk' = Put(sdk, s, "REFUNDABLE")
    /\ Return(s, "refundable")
    /\ UNCHANGED <<engine, tracked, stored, worldVars, drops>>

-----------------------------------------------------------------------------
(* waitForIncomingSwap *)

\* Mutant: only a fresh quote may be waited for.
MutantWaitOnce(s) ==
    /\ engine
    /\ call = Idle
    /\ s \in Receives
    /\ Known(s)
    /\ sdk[s] = "PR_CREATED"
    /\ Track(s)
    /\ Initiate(s)
    /\ call' = [op |-> "wait", swap |-> s, step |-> "poll"]
    /\ UNCHANGED <<engine, sdk, answer, worldVars, drops>>

\* waitForPayment marks a fresh swap initiated and stores it.
Wait(s) ==
    /\ engine
    /\ call = Idle
    /\ s \in Receives
    /\ Known(s)
    /\ Track(s)
    /\ IF sdk[s] = "PR_CREATED" THEN Initiate(s) ELSE UNCHANGED stored
    /\ call' = [op |-> "wait", swap |-> s, step |-> "poll"]
    /\ UNCHANGED <<engine, sdk, answer, worldVars, drops>>

\* The provider has the payer's money on hold.
PollPaid(s) ==
    /\ At(s, "poll")
    /\ sdk[s] = "PR_CREATED"
    /\ invoice[s] = "held"
    /\ sdk' = Put(sdk, s, "PR_PAID")
    /\ UNCHANGED <<engine, tracked, stored, call, answer, worldVars, drops>>

\* The provider's lock has been seen on the chain: on to the claim, ten
\* seconds later.
PollLocked(s) ==
    /\ At(s, "poll")
    /\ sdk[s] \in {"CLAIM_COMMITED", "CLAIM_CLAIMED"}
    /\ Goto("claim")
    /\ UNCHANGED <<engineVars, answer, worldVars, drops>>

\* Mutant: only an invoice nobody has paid can expire.
MutantExpiresUnpaidOnly(s) ==
    /\ At(s, "poll")
    /\ invoice[s] = "failed"
    /\ escrow[s] = "none"
    /\ sdk[s] = "PR_CREATED"
    /\ sdk' = Put(sdk, s, "QUOTE_EXPIRED")
    /\ stored' = stored \ {s}
    /\ tracked' = Put(tracked, s, "no")
    /\ Return(s, "expired")
    /\ UNCHANGED <<engine, worldVars, drops>>

\* waitForPayment returns false: the invoice has expired unpaid, or what the
\* payer had on hold has gone back before the provider locked anything.
PollExpired(s) ==
    /\ At(s, "poll")
    /\ invoice[s] = "failed"
    /\ escrow[s] = "none"
    /\ \/ /\ sdk[s] = "PR_CREATED"
          /\ sdk' = Put(sdk, s, "QUOTE_EXPIRED")
          /\ stored' = stored \ {s}
       \/ /\ sdk[s] = "PR_PAID"
          /\ sdk' = Put(sdk, s, "EXPIRED")
          /\ UNCHANGED stored
    /\ tracked' = Put(tracked, s, "no")
    /\ Return(s, "expired")
    /\ UNCHANGED <<engine, worldVars, drops>>

\* waitForPayment throws for a swap in any other state.
PollOver(s) ==
    /\ At(s, "poll")
    /\ sdk[s] \in {"EXPIRED", "QUOTE_EXPIRED", "FAILED"}
    /\ Return(s, "error")
    /\ UNCHANGED <<engineVars, worldVars, drops>>

\* claim() needs the lock and refuses one that has expired.
MayClaim(s) == sdk[s] = "CLAIM_COMMITED" /\ escrow[s] = "locked"

\* The loop around claim() tries again after an error that says "not
\* committed", but claim() throws no such error: the call ends.
ClaimOver(s) ==
    /\ At(s, "claim")
    /\ ~MayClaim(s)
    /\ Return(s, "error")
    /\ UNCHANGED <<engineVars, worldVars, drops>>

ClaimRefused(s) ==
    /\ At(s, "claim")
    /\ MayClaim(s)
    /\ Return(s, "error")
    /\ UNCHANGED <<engineVars, worldVars, drops>>

ClaimAnswered(s) ==
    /\ At(s, "claim")
    /\ MayClaim(s)
    /\ PaymasterSends(s)
    /\ Goto("claimed")
    /\ UNCHANGED <<engineVars, answer, escrow, invoice, drops>>

ClaimUnanswered(s) ==
    /\ At(s, "claim")
    /\ MayClaim(s)
    /\ PaymasterSends(s)
    /\ Return(s, "error")
    /\ UNCHANGED <<engineVars, escrow, invoice, drops>>

ClaimMined(s) ==
    /\ At(s, "claimed")
    /\ escrow[s] = "claimed"
    /\ sdk' = Put(sdk, s, "CLAIM_CLAIMED")
    /\ tracked' = Put(tracked, s, "no")
    /\ Return(s, "ok")
    /\ UNCHANGED <<engine, stored, worldVars, drops>>

ClaimReverted(s) ==
    /\ At(s, "claimed")
    /\ s \notin tx
    /\ escrow[s] # "claimed"
    /\ Return(s, "error")
    /\ UNCHANGED <<engineVars, worldVars, drops>>

\* A request to a node or to the provider fails for good, or, in executeSwap,
\* the two minutes for the payment have passed.
WaitFails(s) ==
    /\ call.swap = s
    /\ call.step \in {"mined", "payment", "poll", "claimed"}
    /\ Return(s, "error")
    /\ UNCHANGED <<engineVars, worldVars, drops>>

-----------------------------------------------------------------------------
(* The SDK's event listener, which runs while a call drives the runtime *)

Observed(s) ==
    CASE escrow[s] # "none" /\ sdk[s] = "CREATED" -> "COMMITED"
      [] escrow[s] = "claimed" /\ sdk[s] \in PayStates -> "CLAIMED"
      [] escrow[s] = "locked" /\ sdk[s] \in {"PR_CREATED", "PR_PAID"} ->
            "CLAIM_COMMITED"
      [] escrow[s] = "claimed" /\ sdk[s] \in ReceiveStates -> "CLAIM_CLAIMED"
      [] escrow[s] = "refunded" /\ sdk[s] \in ReceiveStates -> "FAILED"
      [] OTHER -> sdk[s]

ObserveChain(s) ==
    /\ call # Idle
    /\ s \in stored
    /\ Observed(s) # sdk[s]
    /\ sdk' = Put(sdk, s, Observed(s))
    /\ UNCHANGED <<engine, tracked, stored, call, answer, worldVars, drops>>

-----------------------------------------------------------------------------
(* Starknet, the provider and the Lightning network *)

UnchangedByWorld == UNCHANGED <<engineVars, call, answer, drops>>

\* The escrow contract opens an entry once and while the quote is good, and
\* hands out what is locked once.
Mine(s) ==
    /\ s \in tx
    /\ tx' = tx \ {s}
    /\ \/ /\ s \in Pays /\ escrow[s] = "none" /\ invoice[s] = "open"
          /\ escrow' = Put(escrow, s, "locked")
          /\ UNCHANGED invoice
       \/ /\ s \in Receives /\ escrow[s] = "locked"
          /\ escrow' = Put(escrow, s, "claimed")
          /\ invoice' = Put(invoice, s, "settled")
    /\ UnchangedByWorld

\* The transaction is dropped or reverts.
Fizzle(s) ==
    /\ s \in tx
    /\ tx' = tx \ {s}
    /\ UNCHANGED <<escrow, invoice>>
    /\ UnchangedByWorld

\* The provider pays what is locked, or fails to, and takes it for a payment.
LpPays(s) ==
    /\ s \in Pays
    /\ escrow[s] = "locked"
    /\ invoice[s] = "open"
    /\ invoice' = Put(invoice, s, "settled")
    /\ UNCHANGED <<escrow, tx>>
    /\ UnchangedByWorld

LpClaims(s) ==
    /\ s \in Pays
    /\ escrow[s] = "locked"
    /\ invoice[s] = "settled"
    /\ escrow' = Put(escrow, s, "claimed")
    /\ UNCHANGED <<invoice, tx>>
    /\ UnchangedByWorld

PayerPays(s) ==
    /\ s \in Receives
    /\ invoice[s] = "open"
    /\ invoice' = Put(invoice, s, "held")
    /\ UNCHANGED <<escrow, tx>>
    /\ UnchangedByWorld

LpLocks(s) ==
    /\ s \in Receives
    /\ invoice[s] = "held"
    /\ escrow[s] = "none"
    /\ escrow' = Put(escrow, s, "locked")
    /\ UNCHANGED <<invoice, tx>>
    /\ UnchangedByWorld

\* A quote runs out, the provider gives up on a payment, or what the payer has
\* on hold goes back because the provider locked nothing.
Expire(s) ==
    /\ s \in Pays \cup Receives
    /\ invoice[s] \in {"open", "held"}
    /\ invoice[s] = "held" => escrow[s] = "none"
    /\ invoice' = Put(invoice, s, "failed")
    /\ UNCHANGED <<escrow, tx>>
    /\ UnchangedByWorld

\* The provider takes an expired lock back; the SDK leaves a margin before the
\* expiry within which no claim is sent.
LpRefunds(s) ==
    /\ s \in Receives
    /\ escrow[s] = "locked"
    /\ s \notin tx
    /\ escrow' = Put(escrow, s, "refunded")
    /\ invoice' = Put(invoice, s, "failed")
    /\ UNCHANGED tx
    /\ UnchangedByWorld

-----------------------------------------------------------------------------
Bridge(s) ==
    \/ createBtcToWbtcSwap(s)
    \/ createWbtcToBtcSwap(s)
    \/ createLnToWbtcSwap(s)
    \/ createWbtcToBtcLnSwap(s)
    \/ getSwapStatus(s)
    \/ Execute(s)
    \/ ExecuteNothing(s)
    \/ Wait(s)

\* Steps that do not depend on anything failing.
Progress(s) ==
    \/ Withdraw(s)
    \/ Confirm(s)
    \/ CommitOver(s)
    \/ CommitAnswered(s)
    \/ CommitMined(s)
    \/ CommitReverted(s)
    \/ PaymentDone(s)
    \/ PaymentRefused(s)
    \/ PollPaid(s)
    \/ PollLocked(s)
    \/ PollExpired(s)
    \/ PollOver(s)
    \/ ClaimOver(s)
    \/ ClaimAnswered(s)
    \/ ClaimMined(s)
    \/ ClaimReverted(s)

Failure(s) ==
    \/ PayFails(s)
    \/ CommitRefused(s)
    \/ CommitUnanswered(s)
    \/ ClaimRefused(s)
    \/ ClaimUnanswered(s)
    \/ WaitFails(s)

World(s) ==
    \/ Mine(s)
    \/ Fizzle(s)
    \/ LpPays(s)
    \/ LpClaims(s)
    \/ PayerPays(s)
    \/ LpLocks(s)
    \/ Expire(s)
    \/ LpRefunds(s)

Next ==
    \/ InitEngine
    \/ getAllSwaps
    \/ Forget
    \/ \E s \in Swaps :
        Bridge(s) \/ Progress(s) \/ Failure(s) \/ ObserveChain(s) \/ World(s)

Spec == Init /\ [][Next]_vars

\* Requests are answered in the end and transactions mined or dropped.  A user
\* who has been charged retries the wait; not every retry fails.
Fairness ==
    /\ WF_vars(\E s \in Swaps : Progress(s))
    /\ \A s \in Pays \cup Receives :
        /\ WF_vars(Mine(s) \/ Fizzle(s))
        /\ WF_vars(Expire(s))
    /\ \A s \in Receives :
        /\ SF_vars(Wait(s))
        /\ SF_vars(ObserveChain(s))
        /\ SF_vars(PollLocked(s))
        /\ SF_vars(ClaimAnswered(s))
        /\ SF_vars(Mine(s))

FairSpec == Spec /\ Fairness

-----------------------------------------------------------------------------
(* Properties *)

Tracked == Pays \cup Receives

\* A swap as SwapPromise sees it: on-ramps have no part in it, and a quote not
\* yet given out or a payment on hold is as open as an unpaid one.
Payment(s) == IF invoice[s] \in {"unborn", "held"} THEN "open" ELSE invoice[s]

LockOf == [s \in Tracked |-> escrow[s]]
PaymentOf == [s \in Tracked |-> Payment(s)]
AnswerOf == [s \in Tracked |-> answer[s]]

Promise == INSTANCE SwapPromise WITH
    lock <- LockOf, payment <- PaymentOf, answer <- AnswerOf

\* The calls, with lost answers, retries, restarts and a chain that moves on
\* between any two of their steps, keep what a swap promises: executeSwap
\* answers ok only for a payment that was made, refundable only for one that
\* never will be, waitForIncomingSwap ok only when the wBTC has been claimed.
ImplementsPromise == Promise!Spec

\* The state of the SDK's swap object may lag behind the chain and the
\* provider, and is never ahead of them.
NeverAhead(s) ==
    /\ sdk[s] \in {"COMMITED", "SOFT_CLAIMED", "CLAIMED", "REFUNDABLE",
                   "CLAIM_COMMITED"} => escrow[s] # "none"
    /\ sdk[s] \in {"SOFT_CLAIMED", "CLAIMED"} => invoice[s] = "settled"
    /\ sdk[s] = "CLAIM_CLAIMED" => escrow[s] = "claimed"
    /\ sdk[s] \in {"REFUNDABLE", "EXPIRED", "QUOTE_EXPIRED", "FAILED"} =>
            invoice[s] = "failed"

SdkNeverAhead == \A s \in Tracked : NeverAhead(s)

\* What makes it inductive: the states a swap of either kind can have,
KindInv ==
    \A s \in Tracked :
        sdk[s] \in {"none"} \cup (IF s \in Pays THEN PayStates
                                               ELSE ReceiveStates)

\* what the chain and the provider owe each other,
WorldInv ==
    \A s \in Tracked :
        /\ escrow[s] = "claimed" => invoice[s] = "settled"
        /\ escrow[s] = "refunded" => invoice[s] = "failed"
        /\ invoice[s] = "unborn" => escrow[s] = "none"
        /\ s \in Receives => (escrow[s] = "locked" => invoice[s] = "held")

\* and how far a call has come.
CallInv ==
    /\ call.op = "wait" =>
            call.swap \in Receives /\ call.step \in {"poll", "claim", "claimed"}
    /\ call.op \in {"execute", "pay"} =>
            /\ call.swap \in Pays
            /\ call.step \in {"withdraw", "confirm", "commit", "mined",
                              "payment"}
    /\ call.step = "payment" => escrow[call.swap] # "none"

EngineInv == TypeOK /\ SdkNeverAhead /\ KindInv /\ WorldInv /\ CallInv

\* Every call of the bridge, which keeps the core mutex while it waits for the
\* chain, the provider or the payer, returns.
CallReturns == (call # Idle) ~> (call = Idle)

\* What a provider has locked for a user who has started to wait is claimed,
\* whatever goes wrong on the way, unless the engine is dropped or the lock
\* expires first.
LockedIsClaimed ==
    \A s \in Receives :
        (s \in stored /\ escrow[s] = "locked")
            ~> (escrow[s] \in {"claimed", "refunded"} \/ ~engine)

\* "Swap state is persisted through the Rust host so it survives app
\* restarts" (storage.ts:12): a swap the SDK has saved, and the user's wBTC is
\* locked for, is known to the engine that the next session builds.
SwapsSurviveRestart ==
    engine => \A s \in Pays : escrow[s] = "locked" => Known(s)

=============================================================================
