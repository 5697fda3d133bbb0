-------------------------- MODULE SwapEngineProofs --------------------------
(***************************************************************************)
(* Proofs about SwapEngine: for any set of quotes and any number of        *)
(* process deaths, whatever fails, the SDK is never ahead of the chain and *)
(* the provider, and the calls of the bridge keep what SwapPromise says.   *)
(***************************************************************************)
EXTENDS SwapEngine, TLAPS

-----------------------------------------------------------------------------
(* The invariant *)

LEMMA InitEngineInv == Init => EngineInv
  <1> SUFFICES ASSUME Init PROVE EngineInv
    OBVIOUS
  <1>1. TypeOK
    BY EngineAssumption DEF Init, TypeOK
  <1>2. \A s \in Tracked :
            sdk[s] = "none" /\ escrow[s] = "none" /\ invoice[s] = "unborn"
    BY DEF Init, Tracked, Swaps
  <1>3. call.op = "none" /\ call.step = "idle"
    BY DEF Init, Idle
  <1> QED
    BY <1>1, <1>2, <1>3
       DEF EngineInv, SdkNeverAhead, NeverAhead, KindInv, WorldInv, CallInv

\* The bridge gives out a quote, or starts a call about one.
LEMMA BridgeStep ==
    ASSUME EngineInv, NEW s \in Swaps, Bridge(s)
    PROVE  EngineInv'
  <1> USE EngineAssumption
      DEF EngineInv, TypeOK, SdkNeverAhead, NeverAhead, KindInv, WorldInv,
          CallInv, Tracked, Swaps, Steps, Idle, PayStates, ReceiveStates,
          engineVars, worldVars
  <1>1. CASE createBtcToWbtcSwap(s)
    BY <1>1 DEF createBtcToWbtcSwap, CreateSwap, Quoted, Put
  <1>2. CASE createWbtcToBtcSwap(s)
    BY <1>2 DEF createWbtcToBtcSwap, CreateSwap, Quoted, Put
  <1>3. CASE createLnToWbtcSwap(s)
    BY <1>3 DEF createLnToWbtcSwap, CreateSwap, Quoted, Put
  <1>4. CASE createWbtcToBtcLnSwap(s)
    BY <1>4 DEF createWbtcToBtcLnSwap, CreateSwap, Quoted, Put
  <1>5. CASE getSwapStatus(s)
    BY <1>5 DEF getSwapStatus, Track, Put
  <1>6. CASE Execute(s)
    BY <1>6 DEF Execute, Track, Put
  <1>7. CASE ExecuteNothing(s)
    BY <1>7 DEF ExecuteNothing, Track, Put
  <1>8. CASE Wait(s)
    BY <1>8 DEF Wait, Track, Initiate, Put
  <1> QED
    BY <1>1, <1>2, <1>3, <1>4, <1>5, <1>6, <1>7, <1>8 DEF Bridge

\* A call goes on.
LEMMA ProgressStep ==
    ASSUME EngineInv, NEW s \in Swaps, Progress(s)
    PROVE  EngineInv'
  <1> USE EngineAssumption
      DEF EngineInv, TypeOK, SdkNeverAhead, NeverAhead, KindInv, WorldInv,
          CallInv, Tracked, Swaps, Steps, Idle, PayStates, ReceiveStates,
          engineVars, worldVars
  <1>1. CASE Withdraw(s)
    BY <1>1 DEF Withdraw, At, Goto
  <1>2. CASE Confirm(s)
    BY <1>2 DEF Confirm, At, Goto
  <1>3. CASE CommitOver(s)
    BY <1>3 DEF CommitOver, At, Return
  <1>4. CASE CommitAnswered(s)
    BY <1>4 DEF CommitAnswered, Initiate, PaymasterSends, At, Goto
  <1>5. CASE CommitMined(s)
    BY <1>5 DEF CommitMined, At, Goto, Put
  <1>6. CASE CommitReverted(s)
    BY <1>6 DEF CommitReverted, At, Return
  <1>7. CASE PaymentDone(s)
    BY <1>7 DEF PaymentDone, At, Return, Put
  <1>8. CASE PaymentRefused(s)
    BY <1>8 DEF PaymentRefused, At, Return, Put
  <1>9. CASE PollPaid(s)
    BY <1>9 DEF PollPaid, At, Put
  <1>10. CASE PollLocked(s)
    BY <1>10 DEF PollLocked, At, Goto
  <1>11. CASE PollExpired(s)
    BY <1>11 DEF PollExpired, At, Return, Put
  <1>12. CASE PollOver(s)
    BY <1>12 DEF PollOver, At, Return
  <1>13. CASE ClaimOver(s)
    BY <1>13 DEF ClaimOver, At, Return
  <1>14. CASE ClaimAnswered(s)
    BY <1>14 DEF ClaimAnswered, PaymasterSends, At, Goto
  <1>15. CASE ClaimMined(s)
    BY <1>15 DEF ClaimMined, At, Return, Put
  <1>16. CASE ClaimReverted(s)
    BY <1>16 DEF ClaimReverted, At, Return
  <1> QED
    BY <1>1, <1>2, <1>3, <1>4, <1>5, <1>6, <1>7, <1>8, <1>9, <1>10, <1>11,
       <1>12, <1>13, <1>14, <1>15, <1>16 DEF Progress

\* A call ends because something outside fails.
LEMMA FailureStep ==
    ASSUME EngineInv, NEW s \in Swaps, Failure(s)
    PROVE  EngineInv'
  <1> USE EngineAssumption
      DEF EngineInv, TypeOK, SdkNeverAhead, NeverAhead, KindInv, WorldInv,
          CallInv, Tracked, Swaps, Steps, Idle, PayStates, ReceiveStates,
          engineVars, worldVars
  <1>1. CASE PayFails(s)
    BY <1>1 DEF PayFails, At, Return
  <1>2. CASE CommitRefused(s)
    BY <1>2 DEF CommitRefused, Initiate, At, Return
  <1>3. CASE CommitUnanswered(s)
    BY <1>3 DEF CommitUnanswered, Initiate, PaymasterSends, At, Return
  <1>4. CASE ClaimRefused(s)
    BY <1>4 DEF ClaimRefused, At, Return
  <1>5. CASE ClaimUnanswered(s)
    BY <1>5 DEF ClaimUnanswered, PaymasterSends, At, Return
  <1>6. CASE WaitFails(s)
    BY <1>6 DEF WaitFails, Return
  <1> QED
    BY <1>1, <1>2, <1>3, <1>4, <1>5, <1>6 DEF Failure

\* The chain, the provider and the payer move on.
LEMMA WorldStep ==
    ASSUME EngineInv, NEW s \in Swaps, World(s)
    PROVE  EngineInv'
  <1> USE EngineAssumption
      DEF EngineInv, TypeOK, SdkNeverAhead, NeverAhead, KindInv, WorldInv,
          CallInv, Tracked, Swaps, Steps, Idle, PayStates, ReceiveStates,
          engineVars, worldVars, UnchangedByWorld
  <1>1. CASE Mine(s)
    BY <1>1 DEF Mine, Put
  <1>2. CASE Fizzle(s)
    BY <1>2 DEF Fizzle
  <1>3. CASE LpPays(s)
    BY <1>3 DEF LpPays, Put
  <1>4. CASE LpClaims(s)
    BY <1>4 DEF LpClaims, Put
  <1>5. CASE PayerPays(s)
    BY <1>5 DEF PayerPays, Put
  <1>6. CASE LpLocks(s)
    BY <1>6 DEF LpLocks, Put
  <1>7. CASE Expire(s)
    BY <1>7 DEF Expire, Put
  <1>8. CASE LpRefunds(s)
    BY <1>8 DEF LpRefunds, Put
  <1> QED
    BY <1>1, <1>2, <1>3, <1>4, <1>5, <1>6, <1>7, <1>8 DEF World

\* The SDK's listener catches up with the chain.
LEMMA ObserveStep ==
    ASSUME EngineInv, NEW s \in Swaps, ObserveChain(s)
    PROVE  EngineInv'
  <1>1. /\ sdk' = [sdk EXCEPT ![s] = Observed(s)]
        /\ UNCHANGED <<engine, tracked, stored, call, answer, worldVars, drops>>
    BY DEF ObserveChain, Put
  <1>2. Observed(s) \in {"none"} \cup PayStates \cup ReceiveStates
    BY DEF Observed, EngineInv, TypeOK, PayStates, ReceiveStates
  <1>3. TypeOK'
    BY <1>1, <1>2 DEF EngineInv, TypeOK, worldVars
  <1>4. ASSUME NEW t \in Tracked
        PROVE  /\ NeverAhead(t)'
               /\ sdk'[t] \in {"none"} \cup (IF t \in Pays THEN PayStates
                                                         ELSE ReceiveStates)
    BY <1>1, <1>4, EngineAssumption
       DEF Observed, EngineInv, TypeOK, SdkNeverAhead, NeverAhead, KindInv,
           WorldInv, Tracked, Swaps, PayStates, ReceiveStates, worldVars
  <1>5. WorldInv' /\ CallInv'
    BY <1>1 DEF EngineInv, WorldInv, CallInv, worldVars
  <1> QED
    BY <1>3, <1>4, <1>5 DEF EngineInv, SdkNeverAhead, KindInv

LEMMA EngineStep == EngineInv /\ [Next]_vars => EngineInv'
  <1> SUFFICES ASSUME EngineInv, [Next]_vars PROVE EngineInv'
    OBVIOUS
  <1> USE DEF EngineInv, TypeOK, SdkNeverAhead, NeverAhead, KindInv, WorldInv,
              CallInv, Tracked, Idle, worldVars
  <1>1. CASE InitEngine
    BY <1>1 DEF InitEngine
  <1>2. CASE getAllSwaps
    BY <1>2 DEF getAllSwaps
  <1>3. CASE Forget
    <2>1. TypeOK'
      <3>1. /\ engine' = FALSE /\ stored' = {} /\ call' = Idle
            /\ drops' \in Nat
            /\ UNCHANGED <<answer, escrow, invoice, tx>>
        BY <1>3 DEF Forget
      <3>2. /\ tracked' \in [Swaps -> {"no", "wrapped", "raw"}]
            /\ sdk' \in [Swaps -> {"none"} \cup PayStates \cup ReceiveStates]
        BY <1>3 DEF Forget
      <3> QED
        BY <3>1, <3>2
    <2>2. \A s \in Tracked : sdk'[s] = "none"
      BY <1>3 DEF Forget, Swaps
    <2>3. UNCHANGED <<escrow, invoice>> /\ call' = Idle
      BY <1>3 DEF Forget
    <2> QED
      BY <2>1, <2>2, <2>3
  <1>4. CASE UNCHANGED vars
    BY <1>4 DEF vars, engineVars
  <1> QED
    BY <1>1, <1>2, <1>3, <1>4, BridgeStep, ProgressStep, FailureStep,
       ObserveStep, WorldStep DEF Next

\* What a swap, a call and the world around them can be in at the same time:
\* the invariant behind the theorems below.
THEOREM EngineInvariance == Spec => []EngineInv
  <1> QED
    BY InitEngineInv, EngineStep, PTL DEF Spec

\* What the SDK's swap object says, which is all that executeSwap and
\* waitForIncomingSwap look at, never runs ahead of the chain.
THEOREM SdkIsNeverAhead == Spec => []SdkNeverAhead
  <1>1. EngineInv => SdkNeverAhead
    BY DEF EngineInv
  <1> QED
    BY <1>1, EngineInvariance, PTL

-----------------------------------------------------------------------------
(* The calls keep what SwapPromise says *)

LEMMA PromiseSwaps == Promise!Swaps = Tracked
  BY DEF Promise!Swaps, Tracked

LEMMA InitPromise == Init => Promise!Init
  BY DEF Init, Promise!Init, Promise!Swaps, LockOf, PaymentOf, AnswerOf,
         Payment, Tracked, Swaps

\* A step that changes nothing of what a swap promises.
LEMMA Stutter ==
    ASSUME \A t \in Tracked : escrow'[t] = escrow[t],
           \A t \in Tracked : Payment(t)' = Payment(t),
           \A t \in Tracked : answer'[t] = answer[t]
    PROVE  UNCHANGED Promise!promiseVars
  BY DEF Promise!promiseVars, LockOf, PaymentOf, AnswerOf

\* A definite answer that is true is one that SwapPromise allows.
LEMMA AnswerRefines ==
    ASSUME EngineInv, NEW s \in Tracked, NEW a \in Promise!TrueAnswers(s),
           a # "error", Return(s, a), UNCHANGED <<escrow, invoice>>
    PROVE  Promise!Next
  <1>1. answer' = [answer EXCEPT ![s] = a]
    BY DEF Return
  <1>2. AnswerOf' = [AnswerOf EXCEPT ![s] = a]
    BY <1>1 DEF AnswerOf, EngineInv, TypeOK, Tracked, Swaps
  <1>3. LockOf' = LockOf /\ PaymentOf' = PaymentOf
    BY DEF LockOf, PaymentOf, Payment
  <1>4. Promise!Answer(s)
    BY <1>2, <1>3 DEF Promise!Answer
  <1> QED
    BY <1>4, PromiseSwaps DEF Promise!Next

LEMMA ErrorStutters ==
    ASSUME NEW s, Return(s, "error"), UNCHANGED <<escrow, invoice>>
    PROVE  UNCHANGED Promise!promiseVars
  BY Stutter DEF Return, Payment

\* Where a call is tells what kind of swap it is about.
LEMMA CallKind ==
    ASSUME EngineInv, NEW s \in Swaps
    PROVE  /\ At(s, "payment") => s \in Pays /\ s \in Tracked
           /\ At(s, "poll") \/ At(s, "claimed") => s \in Receives /\ s \in Tracked
  BY DEF EngineInv, TypeOK, CallInv, At, Idle, Tracked

LEMMA ProgressRefines ==
    ASSUME EngineInv, NEW s \in Swaps, Progress(s)
    PROVE  [Promise!Next]_(Promise!promiseVars)
  <1>1. CASE PaymentDone(s)
    <2>1. "ok" \in Promise!TrueAnswers(s)
      BY <1>1, CallKind DEF PaymentDone, Promise!TrueAnswers, PaymentOf, Payment
    <2> QED
      BY <1>1, <2>1, CallKind, AnswerRefines DEF PaymentDone, worldVars
  <1>2. CASE PaymentRefused(s)
    <2>1. "refundable" \in Promise!TrueAnswers(s)
      BY <1>2, CallKind DEF PaymentRefused, Promise!TrueAnswers, PaymentOf, Payment
    <2> QED
      BY <1>2, <2>1, CallKind, AnswerRefines DEF PaymentRefused, worldVars
  <1>3. CASE PollExpired(s)
    <2>1. "expired" \in Promise!TrueAnswers(s)
      BY <1>3, CallKind DEF PollExpired, Promise!TrueAnswers, PaymentOf, Payment
    <2> QED
      BY <1>3, <2>1, CallKind, AnswerRefines DEF PollExpired, worldVars
  <1>4. CASE ClaimMined(s)
    <2>1. s \in Tracked /\ invoice[s] = "settled"
      BY <1>4, CallKind DEF ClaimMined, EngineInv, WorldInv
    <2>2. "ok" \in Promise!TrueAnswers(s)
      BY <2>1 DEF Promise!TrueAnswers, PaymentOf, Payment
    <2> QED
      BY <1>4, <2>1, <2>2, AnswerRefines DEF ClaimMined, worldVars
  <1>5. CASE \/ CommitOver(s)
             \/ CommitReverted(s)
             \/ PollOver(s)
             \/ ClaimOver(s)
             \/ ClaimReverted(s)
    BY <1>5, ErrorStutters
       DEF CommitOver, CommitReverted, PollOver, ClaimOver, ClaimReverted,
           worldVars
  <1>6. CASE \/ Withdraw(s)
             \/ Confirm(s)
             \/ CommitAnswered(s)
             \/ CommitMined(s)
             \/ PollPaid(s)
             \/ PollLocked(s)
             \/ ClaimAnswered(s)
    BY <1>6, Stutter
       DEF Withdraw, Confirm, CommitAnswered, CommitMined, PollPaid, PollLocked,
           ClaimAnswered, worldVars, Payment
  <1> QED
    BY <1>1, <1>2, <1>3, <1>4, <1>5, <1>6 DEF Progress

LEMMA FailureRefines ==
    ASSUME NEW s \in Swaps, Failure(s)
    PROVE  UNCHANGED Promise!promiseVars
  BY ErrorStutters
     DEF Failure, PayFails, CommitRefused, CommitUnanswered, ClaimRefused,
         ClaimUnanswered, WaitFails, worldVars

LEMMA BridgeRefines ==
    ASSUME EngineInv, NEW s \in Swaps, Bridge(s)
    PROVE  UNCHANGED Promise!promiseVars
  <1>1. ASSUME NEW state, CreateSwap(s, state)
        PROVE  UNCHANGED Promise!promiseVars
    <2>1. \A t \in Tracked : Payment(t)' = Payment(t)
      BY <1>1 DEF CreateSwap, Quoted, Put, Payment, EngineInv, TypeOK, Tracked,
                  Swaps
    <2> QED
      BY <1>1, <2>1, Stutter DEF CreateSwap
  <1>2. CASE ExecuteNothing(s)
    <2>1. \A t \in Tracked : answer'[t] = answer[t]
      BY <1>2, EngineAssumption
         DEF ExecuteNothing, Put, EngineInv, TypeOK, Tracked, Swaps
    <2> QED
      BY <1>2, <2>1, Stutter DEF ExecuteNothing, worldVars, Payment
  <1>3. CASE getSwapStatus(s) \/ Execute(s) \/ Wait(s)
    BY <1>3, Stutter DEF getSwapStatus, Execute, Wait, worldVars, Payment
  <1> QED
    BY <1>1, <1>2, <1>3
       DEF Bridge, createBtcToWbtcSwap, createWbtcToBtcSwap,
           createLnToWbtcSwap, createWbtcToBtcLnSwap

\* What the chain, the provider and the payer do is what SwapPromise is about.
LEMMA WorldRefines ==
    ASSUME EngineInv, NEW s \in Swaps, World(s)
    PROVE  [Promise!Next]_(Promise!promiseVars)
  <1>1. UNCHANGED answer
    BY DEF World, Mine, Fizzle, LpPays, LpClaims, PayerPays, LpLocks, Expire,
           LpRefunds, UnchangedByWorld
  <1>2. ASSUME NEW t \in Tracked
        PROVE  LockOf[t] = escrow[t] /\ PaymentOf[t] = Payment(t)
    BY DEF LockOf, PaymentOf
  <1>3. CASE s \notin Tracked
    BY <1>1, <1>3, Stutter
       DEF World, Mine, Fizzle, LpPays, LpClaims, PayerPays, LpLocks, Expire,
           LpRefunds, Payment, Tracked
  <1>4. CASE s \in Tracked
    <2>1. ASSUME NEW l, escrow' = Put(escrow, s, l), invoice' = invoice
          PROVE  /\ LockOf' = [LockOf EXCEPT ![s] = l]
                 /\ PaymentOf' = PaymentOf
                 /\ AnswerOf' = AnswerOf
      BY <1>1, <1>4, <2>1
         DEF LockOf, PaymentOf, AnswerOf, Payment, Put, EngineInv, TypeOK,
             Tracked, Swaps
    <2>2. ASSUME NEW p \in {"settled", "failed"},
                 invoice' = Put(invoice, s, p), escrow' = escrow
          PROVE  /\ LockOf' = LockOf
                 /\ PaymentOf' = [PaymentOf EXCEPT ![s] = p]
                 /\ AnswerOf' = AnswerOf
      BY <1>1, <1>4, <2>2
         DEF LockOf, PaymentOf, AnswerOf, Payment, Put, EngineInv, TypeOK,
             Tracked, Swaps
    <2>3. ASSUME NEW l, escrow' = Put(escrow, s, l),
                 NEW p \in {"settled", "failed"}, invoice' = Put(invoice, s, p)
          PROVE  /\ LockOf' = [LockOf EXCEPT ![s] = l]
                 /\ PaymentOf' = [PaymentOf EXCEPT ![s] = p]
                 /\ AnswerOf' = AnswerOf
      BY <1>1, <1>4, <2>3
         DEF LockOf, PaymentOf, AnswerOf, Payment, Put, EngineInv, TypeOK,
             Tracked, Swaps
    <2>4. CASE Mine(s)
      <3>1. CASE s \in Pays
        <4>1. /\ escrow[s] = "none" /\ invoice[s] = "open"
              /\ escrow' = Put(escrow, s, "locked") /\ invoice' = invoice
          BY <2>4, <3>1, EngineAssumption DEF Mine
        <4>2. Promise!Lock(s)
          BY <1>2, <1>4, <2>1, <4>1 DEF Promise!Lock, Payment
        <4> QED
          BY <1>4, <4>2, PromiseSwaps DEF Promise!Next
      <3>2. CASE s \in Receives
        <4>1. /\ escrow[s] = "locked"
              /\ escrow' = Put(escrow, s, "claimed")
              /\ invoice' = Put(invoice, s, "settled")
          BY <2>4, <3>2, EngineAssumption DEF Mine
        <4>2. Payment(s) = "open"
          BY <1>4, <3>2, <4>1 DEF EngineInv, WorldInv, Payment
        <4>3. Promise!Receive(s)
          BY <1>2, <1>4, <2>3, <3>2, <4>1, <4>2 DEF Promise!Receive
        <4> QED
          BY <1>4, <4>3, PromiseSwaps DEF Promise!Next
      <3> QED
        BY <1>4, <3>1, <3>2 DEF Tracked
    <2>5. CASE Fizzle(s)
      BY <1>1, <2>5, Stutter DEF Fizzle, Payment
    <2>6. CASE LpPays(s)
      <3>1. Promise!Deliver(s)
        BY <1>2, <1>4, <2>2, <2>6 DEF LpPays, Promise!Deliver, Payment
      <3> QED
        BY <1>4, <3>1, PromiseSwaps DEF Promise!Next
    <2>7. CASE LpClaims(s)
      <3>1. Promise!Take(s)
        BY <1>2, <1>4, <2>1, <2>7 DEF LpClaims, Promise!Take, Payment
      <3> QED
        BY <1>4, <3>1, PromiseSwaps DEF Promise!Next
    <2>8. CASE PayerPays(s)
      <3>1. \A t \in Tracked : Payment(t)' = Payment(t)
        BY <2>8 DEF PayerPays, Payment, Put, EngineInv, TypeOK, Tracked, Swaps
      <3> QED
        BY <1>1, <2>8, <3>1, Stutter DEF PayerPays
    <2>9. CASE LpLocks(s)
      <3>1. Promise!Lock(s)
        BY <1>2, <1>4, <2>1, <2>9 DEF LpLocks, Promise!Lock, Payment
      <3> QED
        BY <1>4, <3>1, PromiseSwaps DEF Promise!Next
    <2>10. CASE Expire(s)
      <3>1. s \in Receives => escrow[s] = "none"
        BY <1>4, <2>10, EngineAssumption
           DEF Expire, EngineInv, TypeOK, WorldInv, Tracked, Swaps
      <3>2. Promise!GiveUp(s)
        BY <1>2, <1>4, <2>2, <2>10, <3>1 DEF Expire, Promise!GiveUp, Payment
      <3> QED
        BY <1>4, <3>2, PromiseSwaps DEF Promise!Next
    <2>11. CASE LpRefunds(s)
      <3>1. Payment(s) = "open"
        BY <1>4, <2>11 DEF LpRefunds, EngineInv, WorldInv, Payment
      <3>2. Promise!GiveUp(s)
        BY <1>2, <1>4, <2>3, <2>11, <3>1 DEF LpRefunds, Promise!GiveUp
      <3> QED
        BY <1>4, <3>2, PromiseSwaps DEF Promise!Next
    <2> QED
      BY <2>4, <2>5, <2>6, <2>7, <2>8, <2>9, <2>10, <2>11 DEF World
  <1> QED
    BY <1>3, <1>4

LEMMA EngineStepRefines ==
    EngineInv /\ [Next]_vars => [Promise!Next]_(Promise!promiseVars)
  <1> SUFFICES ASSUME EngineInv, [Next]_vars
               PROVE  [Promise!Next]_(Promise!promiseVars)
    OBVIOUS
  <1>1. CASE InitEngine \/ getAllSwaps \/ Forget
    BY <1>1, Stutter DEF InitEngine, getAllSwaps, Forget, worldVars, Payment
  <1>2. ASSUME NEW s \in Swaps, ObserveChain(s)
        PROVE  UNCHANGED Promise!promiseVars
    BY <1>2, Stutter DEF ObserveChain, worldVars, Payment
  <1>3. CASE UNCHANGED vars
    BY <1>3, Stutter DEF vars, worldVars, Payment
  <1> QED
    BY <1>1, <1>2, <1>3, BridgeRefines, ProgressRefines, FailureRefines,
       WorldRefines DEF Next

\* executeSwap and waitForIncomingSwap, whatever fails and whenever the
\* process dies, answer only what is true and stays true, and what is locked
\* for a swap moves only as SwapPromise lets it.
THEOREM EngineImplementsPromise == Spec => ImplementsPromise
  <1> QED
    BY InitPromise, EngineStepRefines, EngineInvariance, PTL
       DEF Spec, ImplementsPromise, Promise!Spec

=============================================================================
