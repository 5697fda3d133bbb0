----------------------- MODULE WalletRefinementProofs -----------------------
(***************************************************************************)
(* WalletOps implements PrivatePurse for every rate, fee, set of amounts   *)
(* and number of transactions, payments and requests: each step of a       *)
(* handler or of the chain is a step of the purse or none.                 *)
(***************************************************************************)
EXTENDS WalletRefinement, WalletOpsProofs

-----------------------------------------------------------------------------
(* Two more facts the refinement needs of every state. *)

OneTxEach == \A t, u \in mempool : t.id = u.id => t = u

\* Only a withdrawal or a ragequit can be to the wallet's own address.
SelfKind(toSelf, kind) == toSelf => kind \in {"withdraw", "ragequit"}

ToSelfOnly ==
    /\ SelfKind(op.toSelf, op.kind)
    /\ \A t \in mempool : SelfKind(t.call.toSelf, t.call.kind)

PurseInv == IInv /\ OneTxEach /\ ToSelfOnly

-----------------------------------------------------------------------------
(* What a step of a handler does to the mempool and to the draft. *)

Adds(call, fee) ==
    \E id \in TxIds, deploy \in BOOLEAN :
        /\ \A t \in mempool : t.id # id
        /\ mempool' = mempool \cup
               {[id |-> id, deploy |-> deploy, call |-> call, fee |-> fee]}

LEMMA EnqueueAdds ==
    ASSUME NEW call, NEW fee, NEW deploys \in SUBSET BOOLEAN,
           Enqueue(deploys, call, fee)
    PROVE  Adds(call, fee)
  BY DEF Enqueue, FreeIds, Adds

LEMMA AcceptedAdds ==
    ASSUME NEW call, NEW fee
    PROVE  /\ Accepted(call, fee) => Adds(call, fee)
           /\ Failed(call, fee) => UNCHANGED mempool \/ Adds(call, fee)
           /\ Deploying => Adds(NoCall, NoCall)
  BY EnqueueAdds, DeployAnswersType DEF Accepted, Failed, Deploying

\* A call of the wallet's own accord, which orders nothing.
Unordered(call) == call.kind \notin SpendKinds /\ call.toSelf = FALSE

LEMMA SweepCalls ==
    /\ Unordered(NoCall)
    /\ Unordered(MainCall("rollover", 0, FALSE))
    /\ Unordered(MainCall("fund", SweepUnits, FALSE))
  BY DEF Unordered, NoCall, MainCall, SpendKinds

LEMMA NoDraft ==
    /\ op.kind \notin SpendKinds => Draft = NoOrder
    /\ op'.kind \notin SpendKinds => Draft' = NoOrder
  BY DEF Draft

LEMMA SmallOps ==
    \A kind \in SweepKinds \cup {"none"} :
        /\ Op(kind).kind \notin SpendKinds
        /\ Op(kind).toSelf = FALSE
  BY DEF Op, SpendKinds, SweepKinds

\* Nothing is sent; the draft stays or goes.
Quiet == UNCHANGED mempool /\ Draft' \in {Draft, NoOrder}

\* A handler starts on an order.
Drafts == UNCHANGED mempool /\ Draft = NoOrder
              /\ \E order \in Orders : Draft' = order

\* The wallet sends something of its own accord, or what it was asked for that
\* is no spend.
Sweeps == \E call, fee : Adds(call, fee) /\ Unordered(call)
                             /\ Draft' \in {Draft, NoOrder}

\* It sends what it was asked for.
Sends == op.kind \in SpendKinds /\ Adds(OpCall, OpFeeCall) /\ Draft' = NoOrder

LEMMA SubmissionMoves ==
    ASSUME PurseInv, pc = "submit", OpAllowed, op' = NoOp,
           UNCHANGED mempool \/ Adds(OpCall, OpFeeCall)
    PROVE  Quiet \/ Sweeps \/ Sends
  <1>1. Draft' = NoOrder
    BY SmallOps, NoDraft DEF NoOp
  <1>2. CASE UNCHANGED mempool
    BY <1>1, <1>2 DEF Quiet
  <1>3. CASE Adds(OpCall, OpFeeCall) /\ op.kind \in SpendKinds
    BY <1>1, <1>3 DEF Sends
  <1>4. CASE Adds(OpCall, OpFeeCall) /\ op.kind \notin SpendKinds
    <2>1. op.toSelf = FALSE
      BY <1>4 DEF PurseInv, ToSelfOnly, SelfKind, SpendKinds, IInv, TypeOK
    <2>2. Unordered(OpCall)
      BY <1>4, <2>1 DEF Unordered, OpCall, MainCall
    <2> QED
      BY <1>1, <1>4, <2>2 DEF Sweeps
  <1> QED
    BY <1>2, <1>3, <1>4

LEMMA WalletMoves ==
    ASSUME PurseInv, WalletNext
    PROVE  /\ ledger' = ledger
           /\ Quiet \/ Drafts \/ Sweeps \/ Sends
           /\ SelfKind(op'.toSelf, op'.kind)
  <1> DEFINE Moves == /\ ledger' = ledger
                      /\ Quiet \/ Drafts \/ Sweeps \/ Sends
                      /\ SelfKind(op'.toSelf, op'.kind)
  <1>0. /\ SelfKind(op.toSelf, op.kind)
        /\ pc = "idle" => op = NoOp
        /\ op.kind \notin SpendKinds => Draft = NoOrder
    BY NoDraft DEF PurseInv, ToSelfOnly, IInv, HandlerInv
  <1>01. op' = op => Draft' = Draft
    BY DEF Draft, OrderFor
  <1>02. /\ SelfKind(NoOp.toSelf, NoOp.kind)
         /\ op' = NoOp => Draft' = NoOrder
    BY SmallOps, NoDraft DEF NoOp, SelfKind
  <1>1. ASSUME SomeRequest PROVE Moves
    <2>1. PICK kind \in RequestKinds, sats \in RequestSats, toSelf \in BOOLEAN :
              StartRequest(kind, sats, toSelf)
      BY <1>1 DEF SomeRequest
    <2> DEFINE asked == IF kind \in {"rollover", "ragequit"} THEN 0 ELSE sats
    <2>2. /\ op' = [kind |-> kind, toSelf |-> toSelf, sats |-> asked]
          /\ ledger' = ledger /\ UNCHANGED mempool /\ pc = "idle"
          /\ SelfKind(toSelf, kind)
      BY <2>1 DEF StartRequest, chainVars, SelfKind
    <2>3. Draft = NoOrder
      BY <1>0, <2>2, SmallOps DEF NoOp
    <2>4. CASE kind \in SpendKinds
      <3>1. Draft' = OrderFor(kind, asked, toSelf)
        BY <2>2, <2>4 DEF Draft, OrderFor
      <3>2. asked \in RequestSats \cup {0}
        OBVIOUS
      <3> QED
        BY <2>2, <2>3, <2>4, <3>1, <3>2 DEF Orders, Drafts
    <2>5. CASE kind \notin SpendKinds
      BY <2>2, <2>3, <2>5, NoDraft DEF Quiet
    <2> QED
      BY <2>2, <2>4, <2>5
  <1>2. ASSUME SubmitRequest \/ FailRequest PROVE Moves
    <2>1. /\ pc = "submit" /\ OpAllowed /\ op' = NoOp /\ ledger' = ledger
          /\ UNCHANGED mempool \/ Adds(OpCall, OpFeeCall)
      BY <1>2, AcceptedAdds
         DEF SubmitRequest, FailRequest, Return, UnchangedChain
    <2> QED
      BY <1>02, <2>1, SubmissionMoves
  <1>3. ASSUME RefuseRequest \/ Crash \/ Finish \/ SyncFails PROVE Moves
    <2>1. ledger' = ledger /\ UNCHANGED mempool /\ op' \in {op, NoOp}
      BY <1>3 DEF RefuseRequest, Crash, Finish, SyncFails, Return, chainVars
    <2> QED
      BY <1>0, <1>01, <1>02, <2>1 DEF Quiet
  <1>4. ASSUME StartRefresh \/ Unlock PROVE Moves
    <2>1. /\ ledger' = ledger /\ UNCHANGED mempool /\ pc = "idle"
          /\ op' \in {Op("refresh"), Op("unlock")}
      BY <1>4 DEF StartRefresh, Unlock, chainVars
    <2> QED
      BY <1>0, <2>1, SmallOps, NoDraft DEF Quiet, SelfKind, SweepKinds
  <1>5. ASSUME \/ Sync \/ ReadPublic(ledger.pub) \/ ReadPublic(0) \/ Refetch
               \/ Lock
        PROVE  Moves
    <2>1. ledger' = ledger /\ UNCHANGED mempool /\ op' = op
      BY <1>5 DEF Sync, ReadPublic, Refetch, Lock, Goto, chainVars
    <2> QED
      BY <1>0, <1>01, <2>1 DEF Quiet
  <1>6. ASSUME \/ DeployFirst \/ AutoFund \/ AutoFundFails \/ AutoRollover
               \/ SkipRollover \/ EnsureDeployed
        PROVE  Moves
    <2>1. /\ ledger' = ledger /\ op' = op
          /\ \/ UNCHANGED mempool
             \/ Adds(NoCall, NoCall)
             \/ Adds(MainCall("fund", SweepUnits, FALSE), NoCall)
             \/ Adds(MainCall("rollover", 0, FALSE), NoCall)
      BY <1>6, AcceptedAdds
         DEF DeployFirst, AutoFund, AutoFundFails, AutoRollover, SkipRollover,
             EnsureDeployed, Goto, UnchangedChain
    <2> QED
      BY <1>0, <1>01, <2>1, SweepCalls DEF Quiet, Sweeps
  <1> QED
    BY <1>1, <1>2, <1>3, <1>4, <1>5, <1>6 DEF WalletNext

-----------------------------------------------------------------------------
(* The invariant. *)

LEMMA InitPurseInv == Init => PurseInv
  <1>1. Init => OneTxEach /\ ToSelfOnly
    BY DEF Init, ChainInit, WalletInit, OneTxEach, ToSelfOnly, SelfKind, NoOp, Op
  <1> QED
    BY <1>1, InitIInv DEF PurseInv

\* A step of the chain only takes transactions out of the mempool.
LEMMA ChainKeeps ==
    ASSUME PurseInv, ChainNext, UNCHANGED walletVars
    PROVE  PurseInv'
  <1>1. mempool' \subseteq mempool /\ op' = op
    BY DEF ChainNext, Execute, Revert, Evict, ArrivePublic, ReceiveTransfer,
           walletVars
  <1>2. OneTxEach' /\ ToSelfOnly'
    BY <1>1 DEF PurseInv, OneTxEach, ToSelfOnly
  <1> QED
    BY <1>2, ChainStep DEF PurseInv

LEMMA AddsKeeps ==
    ASSUME PurseInv, NEW call, NEW fee, Adds(call, fee),
           SelfKind(call.toSelf, call.kind), SelfKind(op'.toSelf, op'.kind)
    PROVE  OneTxEach' /\ ToSelfOnly'
  <1>1. PICK id \in TxIds, deploy \in BOOLEAN :
            /\ \A t \in mempool : t.id # id
            /\ mempool' = mempool \cup
                   {[id |-> id, deploy |-> deploy, call |-> call, fee |-> fee]}
    BY DEF Adds
  <1>2. OneTxEach'
    BY <1>1 DEF PurseInv, OneTxEach
  <1>3. ToSelfOnly'
    BY <1>1 DEF PurseInv, ToSelfOnly
  <1> QED
    BY <1>2, <1>3

LEMMA WalletKeeps ==
    ASSUME PurseInv, WalletNext
    PROVE  PurseInv'
  <1>1. SelfKind(op'.toSelf, op'.kind) /\ (Quiet \/ Drafts \/ Sweeps \/ Sends)
    BY WalletMoves
  <1>2. OneTxEach' /\ ToSelfOnly'
    <2>1. CASE Quiet \/ Drafts
      BY <1>1, <2>1 DEF PurseInv, OneTxEach, ToSelfOnly, Quiet, Drafts
    <2>2. CASE Sweeps
      <3>1. PICK call, fee : Adds(call, fee) /\ Unordered(call)
        BY <2>2 DEF Sweeps
      <3>2. SelfKind(call.toSelf, call.kind)
        BY <3>1 DEF Unordered, SelfKind
      <3> QED
        BY <1>1, <3>1, <3>2, AddsKeeps
    <2>3. CASE Sends
      <3>1. SelfKind(OpCall.toSelf, OpCall.kind)
        BY DEF PurseInv, ToSelfOnly, OpCall, MainCall
      <3> QED
        BY <1>1, <2>3, <3>1, AddsKeeps DEF Sends
    <2> QED
      BY <1>1, <2>1, <2>2, <2>3
  <1>3. IInv'
    BY WalletStep DEF PurseInv
  <1> QED
    BY <1>2, <1>3 DEF PurseInv

LEMMA PurseInvariance == Spec => []PurseInv
  <1>1. PurseInv /\ [Next]_vars => PurseInv'
    <2> SUFFICES ASSUME PurseInv, [Next]_vars PROVE PurseInv'
      OBVIOUS
    <2>1. CASE ChainNext /\ UNCHANGED walletVars
      BY <2>1, ChainKeeps
    <2>2. CASE WalletNext
      BY <2>2, WalletKeeps
    <2>3. CASE UNCHANGED vars
      <3>1. IInv'
        BY <2>3 DEF PurseInv, vars, chainVars, walletVars, IInv, TypeOK,
                    MempoolInv, HandlerInv, CipherTrue
      <3> QED
        BY <2>3, <3>1 DEF PurseInv, vars, chainVars, walletVars, OneTxEach,
                          ToSelfOnly
    <2> QED
      BY <2>1, <2>2, <2>3 DEF Next
  <1> QED
    BY <1>1, InitPurseInv, PTL DEF Spec

-----------------------------------------------------------------------------
(* What a transaction does to the orders sent and to the money. *)

LEMMA SentSweeps ==
    ASSUME NEW call, NEW fee, Adds(call, fee), Unordered(call)
    PROVE  Sent' = Sent
  BY DEF Adds, Unordered, Sent

LEMMA SentSends ==
    ASSUME NEW call, NEW fee, Adds(call, fee), call.kind \in SpendKinds,
           NEW order, order = [kind |-> call.kind, amount |-> call.amount,
                               fee |-> fee.amount, toSelf |-> call.toSelf]
    PROVE  \E id \in TxIds :
               /\ \A s \in Sent : s.id # id
               /\ Sent' = Sent \cup {[id |-> id, order |-> order]}
  <1>1. PICK id \in TxIds, deploy \in BOOLEAN :
            /\ \A t \in mempool : t.id # id
            /\ mempool' = mempool \cup
                   {[id |-> id, deploy |-> deploy, call |-> call, fee |-> fee]}
    BY DEF Adds
  <1> DEFINE tx == [id |-> id, deploy |-> deploy, call |-> call, fee |-> fee]
  <1>2. tx.id = id /\ tx.call = call /\ OrderOf(tx) = order
    BY DEF OrderOf
  <1>3. \A s \in Sent : s.id # id
    BY <1>1 DEF Sent
  <1>4. Sent' = {[id |-> t.id, order |-> OrderOf(t)] :
                     t \in {u \in mempool \cup {tx} : u.call.kind \in SpendKinds}}
    BY <1>1 DEF Sent, OrderOf
  <1>5. Sent' = Sent \cup {[id |-> tx.id, order |-> OrderOf(tx)]}
    BY <1>2, <1>4 DEF Sent
  <1> QED
    BY <1>2, <1>3, <1>5

LEMMA SentLeaves ==
    ASSUME PurseInv, NEW t \in mempool, mempool' = mempool \ {t}
    PROVE  IF t.call.kind \in SpendKinds
             THEN /\ [id |-> t.id, order |-> OrderOf(t)] \in Sent
                  /\ Sent' = Sent \ {[id |-> t.id, order |-> OrderOf(t)]}
             ELSE Sent' = Sent
  <1>1. Sent' = {[id |-> u.id, order |-> OrderOf(u)] :
                     u \in {v \in mempool \ {t} : v.call.kind \in SpendKinds}}
    BY DEF Sent, OrderOf
  <1>2. \A u \in mempool \ {t} : u.id # t.id
    BY DEF PurseInv, OneTxEach
  <1>3. CASE t.call.kind \in SpendKinds
    BY <1>1, <1>2, <1>3 DEF Sent
  <1>4. CASE t.call.kind \notin SpendKinds
    BY <1>1, <1>4 DEF Sent
  <1> QED
    BY <1>3, <1>4

\* The purse's view of a transaction that executes.
LEMMA TxMoney ==
    ASSUME NEW l \in Ledger, NEW t \in Tx, TxOk(l, t), FeeShape(t)
    PROVE  LET after == TxApply(l, t)
               units == t.call.amount
               fee   == t.fee.amount
           IN  /\ t.call.kind = "fund" =>
                      /\ after.pub = l.pub - units * Rate
                      /\ after.bal = l.bal + units /\ after.pend = l.pend
               /\ t.call.kind = "rollover" =>
                      /\ after.pub = l.pub
                      /\ after.bal = l.bal + l.pend /\ after.pend = 0
               /\ t.call.kind \in {"transfer", "withdraw"} =>
                      /\ units + fee <= l.bal
                      /\ after.bal = l.bal - (units + fee)
                      /\ after.pend = l.pend
                      /\ after.pub = l.pub +
                             (IF t.call.kind = "withdraw" /\ t.call.toSelf
                                THEN units * Rate ELSE 0)
               /\ t.call.kind = "ragequit" =>
                      /\ after.bal = 0 /\ after.pend = l.pend
                      /\ after.pub = l.pub +
                             (IF t.call.toSelf THEN l.bal * Rate ELSE 0)
               /\ t.call.kind = "token" =>
                      /\ units <= l.pub
                      /\ after.pub = l.pub - units
                      /\ after.bal = l.bal /\ after.pend = l.pend
               /\ t.call.kind = "approve" =>
                      /\ after.pub = l.pub
                      /\ after.bal = l.bal /\ after.pend = l.pend
  <1> DEFINE c == t.call
             units == c.amount
             fee == t.fee.amount
  <1>0. PICK up, called, after :
            /\ up = [l EXCEPT !.deployed = TRUE]
            /\ called = Apply(up, c)
            /\ after = TxApply(l, t)
    OBVIOUS
  <1>1. /\ up.pub = l.pub /\ up.bal = l.bal /\ up.pend = l.pend
        /\ up.pub \in Nat /\ up.bal \in Nat /\ up.pend \in Nat
        /\ units \in Nat /\ fee \in Nat /\ c.kind \in Kinds /\ c \in Call
    BY <1>0 DEF Ledger, Tx, Call
  <1>2. PICK money \in Nat, all \in Nat : money = units * Rate /\ all = l.bal * Rate
    BY <1>0, <1>1, RateAssumption
  <1>3. CallOk(l, c)
    BY DEF TxOk
  <1>4. CASE fee = 0
    <2>1. after = called
      BY <1>0, <1>4 DEF TxApply
    <2>2. CASE c.kind = "fund"
      BY <1>0, <1>1, <1>2, <2>1, <2>2 DEF Apply, Operated
    <2>3. CASE c.kind = "rollover"
      BY <1>0, <1>1, <2>1, <2>3 DEF Apply, Operated
    <2>4. CASE c.kind = "transfer"
      BY <1>0, <1>1, <1>3, <1>4, <2>1, <2>4 DEF Apply, Operated, CallOk
    <2>5. CASE c.kind = "withdraw"
      BY <1>0, <1>1, <1>2, <1>3, <1>4, <2>1, <2>5 DEF Apply, Operated, CallOk
    <2>6. CASE c.kind = "ragequit"
      BY <1>0, <1>1, <1>2, <2>1, <2>6 DEF Apply, Operated
    <2>7. CASE c.kind = "token"
      <3>1. called = [up EXCEPT !.pub = @ - units]
        BY <1>0, <2>7 DEF Apply
      <3>2. called.pub = l.pub - units /\ called.bal = l.bal /\ called.pend = l.pend
        BY <1>0, <1>1, <3>1 DEF Ledger
      <3> QED
        BY <1>0, <1>1, <1>3, <2>1, <2>7, <3>2 DEF CallOk
    <2>8. CASE c.kind = "approve"
      BY <1>0, <1>1, <2>1, <2>8 DEF Apply
    <2> QED
      BY <1>0, <1>1, <2>2, <2>3, <2>4, <2>5, <2>6, <2>7, <2>8
         DEF Kinds, TongoKinds, CipherKinds
  <1>5. CASE fee > 0
    <2>1. /\ c.kind = "withdraw" /\ ~c.toSelf
          /\ t.fee.kind = "transfer" /\ ~t.fee.toSelf
      BY <1>5 DEF FeeShape
    <2>2. called = Operated(up, l.pub, l.bal - units, l.pend)
      BY <1>0, <1>1, <2>1 DEF Apply
    <2>3. after = Operated(called, called.pub, called.bal - fee, called.pend)
      BY <1>0, <1>5, <2>1 DEF TxApply, Apply
    <2>4. fee <= l.bal - units
      <3>1. CallOk(Apply(l, c), t.fee)
        BY <1>5 DEF TxOk
      <3>2. Apply(l, c) = Operated(l, l.pub, l.bal - units, l.pend)
        BY <1>1, <2>1 DEF Apply
      <3> QED
        BY <2>1, <3>1, <3>2 DEF CallOk, Operated
    <2>5. /\ after.pub = l.pub /\ after.pend = l.pend
          /\ after.bal = (l.bal - units) - fee
      BY <2>2, <2>3 DEF Operated
    <2> QED
      BY <1>0, <1>1, <2>1, <2>4, <2>5
  <1> QED
    BY <1>1, <1>4, <1>5

-----------------------------------------------------------------------------
(* Every step is a step of the purse or none. *)

LEMMA InitPurse == Init => Purse!Init
  <1>1. Init => Draft = NoOrder
    BY DEF Init, WalletInit, NoOp, Op, Draft, SpendKinds
  <1>2. Init => Sent = {}
    BY DEF Init, ChainInit, Sent
  <1> QED
    BY <1>1, <1>2 DEF Init, ChainInit, Purse!Init

LEMMA WalletRefines ==
    ASSUME PurseInv, WalletNext
    PROVE  [Purse!Next]_(Purse!purseVars)
  <1>1. ledger' = ledger /\ (Quiet \/ Drafts \/ Sweeps \/ Sends)
    BY WalletMoves
  <1>2. UNCHANGED mempool => Sent' = Sent
    BY DEF Sent, OrderOf
  <1>3. ASSUME Sent' = Sent, Draft' \in {Draft, NoOrder}
        PROVE  [Purse!Next]_(Purse!purseVars)
    <2>1. CASE Draft' = Draft
      BY <1>1, <1>3, <2>1 DEF Purse!purseVars
    <2>2. CASE Draft' = NoOrder
      <3>1. Purse!Discard
        BY <1>1, <1>3, <2>2 DEF Purse!Discard
      <3> QED
        BY <3>1 DEF Purse!Next
    <2> QED
      BY <1>3, <2>1, <2>2
  <1>4. CASE Quiet
    BY <1>2, <1>3, <1>4 DEF Quiet
  <1>5. CASE Sweeps
    BY <1>3, <1>5, SentSweeps DEF Sweeps
  <1>6. CASE Drafts
    <2>1. PICK order \in Orders : Draft' = order
      BY <1>6 DEF Drafts
    <2>2. Purse!Write(order)
      BY <1>1, <1>2, <1>6, <2>1 DEF Drafts, Purse!Write
    <2> QED
      BY <2>2 DEF Purse!Next
  <1>7. CASE Sends
    <2>1. /\ OpCall.kind = op.kind /\ OpCall.amount = OpUnits
          /\ OpCall.toSelf = op.toSelf
      BY DEF OpCall, MainCall
    <2>2. OpFeeCall.amount = OpFee
      BY DEF OpFeeCall, FeeCall, NoCall
    <2>3. Draft = [kind |-> OpCall.kind, amount |-> OpCall.amount,
                   fee |-> OpFeeCall.amount, toSelf |-> OpCall.toSelf]
      BY <1>7, <2>1, <2>2 DEF Sends, Draft, OrderFor, OpUnits, OpFee
    <2>4. PICK id \in TxIds :
              /\ \A s \in Sent : s.id # id
              /\ Sent' = Sent \cup {[id |-> id, order |-> Draft]}
      BY <1>7, <2>1, <2>3, SentSends DEF Sends
    <2>5. Draft # NoOrder
      BY <1>7, <2>1, <2>3 DEF Sends, NoOrder, SpendKinds
    <2>6. Purse!Send(id)
      BY <1>1, <1>7, <2>4, <2>5 DEF Sends, Purse!Send
    <2> QED
      BY <2>6 DEF Purse!Next
  <1> QED
    BY <1>1, <1>4, <1>5, <1>6, <1>7

LEMMA WholeUnits ==
    ASSUME NEW pub \in Nat, NEW units \in Nat, units * Rate <= pub
    PROVE  units \in 0 .. pub \div Rate
  <1>1. /\ Rate \in Nat \ {0} /\ pub \div Rate \in Nat
        /\ pub % Rate \in 0 .. (Rate - 1)
        /\ pub = Rate * (pub \div Rate) + (pub % Rate)
    BY RateAssumption, DivisionNat
  <1>2. PICK q \in Nat, r \in 0 .. (Rate - 1) :
            q = pub \div Rate /\ pub = Rate * q + r
    BY <1>1
  <1>3. ASSUME units >= q + 1 PROVE FALSE
    <2>1. Rate * units >= Rate * (q + 1)
      BY <1>1, <1>3
    <2>2. /\ Rate * (q + 1) = Rate * q + Rate
          /\ Rate * units = units * Rate
          /\ Rate * q \in Nat /\ Rate * units \in Nat
      BY <1>1
    <2> QED
      BY <1>1, <1>2, <2>1, <2>2
  <1> QED
    BY <1>2, <1>3

\* A transaction that executes pays the order it carries, or shields or claims.
LEMMA ExecuteRefines ==
    ASSUME PurseInv, NEW t \in mempool, Execute(t), UNCHANGED walletVars
    PROVE  [Purse!Next]_(Purse!purseVars)
  <1> DEFINE s == [id |-> t.id, order |-> OrderOf(t)]
             kind == t.call.kind
             units == t.call.amount
             fee == t.fee.amount
  <1>1. /\ t \in Tx /\ ledger \in Ledger /\ TxOk(ledger, t) /\ FeeShape(t)
        /\ ledger' = TxApply(ledger, t) /\ mempool' = mempool \ {t}
    BY DEF PurseInv, IInv, TypeOK, MempoolInv, Execute
  <1>2. Draft' = Draft
    BY DEF walletVars, Draft, OrderFor
  <1>3. IF kind \in SpendKinds THEN s \in Sent /\ Sent' = Sent \ {s}
                               ELSE Sent' = Sent
    BY <1>1, SentLeaves
  <1>4. /\ ledger.pub \in Nat /\ ledger.bal \in Nat /\ ledger.pend \in Nat
        /\ units \in Nat /\ fee \in Nat /\ kind \in Kinds
        /\ kind # "withdraw" => fee = 0
        /\ t.call.toSelf => kind \in {"withdraw", "ragequit"} /\ fee = 0
    BY <1>1 DEF Ledger, Tx, Call, FeeShape, PurseInv, ToSelfOnly, SelfKind
  <1>5. /\ s.order.kind = kind /\ s.order.amount = units
        /\ s.order.fee = fee /\ s.order.toSelf = t.call.toSelf
    BY DEF OrderOf
  <1>6. ASSUME kind \in SpendKinds, Purse!Pay(s)
        PROVE  [Purse!Next]_(Purse!purseVars)
    BY <1>3, <1>6 DEF Purse!Next
  <1>7. PICK money \in Nat, all \in Nat :
            money = units * Rate /\ all = ledger.bal * Rate
    BY <1>4, RateAssumption
  <1> HIDE DEF s
  <1>8. CASE kind = "fund"
    <2>1. money <= ledger.pub
      BY <1>1, <1>7, <1>8 DEF TxOk, CallOk
    <2>2. Sent' = Sent
      BY <1>3, <1>8 DEF SpendKinds
    <2>3. Purse!Shield(units)
      BY <1>1, <1>2, <1>7, <1>8, <2>1, <2>2, TxMoney DEF Purse!Shield
    <2>4. units \in 0 .. ledger.pub \div Rate
      BY <1>4, <1>7, <2>1, WholeUnits
    <2> QED
      BY <2>3, <2>4 DEF Purse!Next
  <1>9. CASE kind = "rollover"
    <2>1. Sent' = Sent
      BY <1>3, <1>9 DEF SpendKinds
    <2>2. Purse!Claim
      BY <1>1, <1>2, <1>9, <2>1, TxMoney DEF Purse!Claim
    <2> QED
      BY <2>2 DEF Purse!Next
  <1>10. CASE kind = "approve"
    BY <1>1, <1>2, <1>3, <1>10, TxMoney DEF SpendKinds, Purse!purseVars
  <1>11. CASE kind \in {"transfer", "withdraw"}
    <2>1. /\ Purse!Cost(s.order) = units + fee
          /\ units + fee <= ledger.bal
          /\ ledger'.bal = ledger.bal - (units + fee)
          /\ ledger'.pend = ledger.pend
      BY <1>1, <1>5, <1>11, TxMoney DEF Purse!Cost
    <2>2. (units + fee) - fee = units
      BY <1>4
    <2>3. Purse!PublicChange(s.order) = IF t.call.toSelf THEN money ELSE 0
      BY <1>5, <1>7, <1>11, <2>1, <2>2 DEF Purse!PublicChange
    <2>4. ledger'.pub = ledger.pub + (IF t.call.toSelf THEN money ELSE 0)
      BY <1>1, <1>4, <1>7, <1>11, TxMoney
    <2>5. Purse!Pay(s)
      BY <1>2, <1>3, <1>4, <1>11, <2>1, <2>3, <2>4 DEF Purse!Pay, SpendKinds
    <2> QED
      BY <1>6, <1>11, <2>5 DEF SpendKinds
  <1>12. CASE kind = "ragequit"
    <2>1. Purse!Cost(s.order) = ledger.bal
      BY <1>5, <1>12 DEF Purse!Cost
    <2>2. ledger.bal - fee = ledger.bal
      BY <1>4, <1>12
    <2>3. Purse!PublicChange(s.order) = IF t.call.toSelf THEN all ELSE 0
      BY <1>5, <1>7, <1>12, <2>1, <2>2 DEF Purse!PublicChange
    <2>4. /\ ledger'.pub = ledger.pub + (IF t.call.toSelf THEN all ELSE 0)
          /\ ledger'.bal = 0 /\ ledger'.pend = ledger.pend
      BY <1>1, <1>7, <1>12, TxMoney
    <2>5. Purse!Pay(s)
      BY <1>2, <1>3, <1>4, <1>12, <2>1, <2>3, <2>4 DEF Purse!Pay, SpendKinds
    <2> QED
      BY <1>6, <1>12, <2>5 DEF SpendKinds
  <1>13. CASE kind = "token"
    <2>1. /\ units <= ledger.pub /\ ledger'.pub = ledger.pub - units
          /\ ledger'.bal = ledger.bal /\ ledger'.pend = ledger.pend
      BY <1>1, <1>13, TxMoney
    <2>2. Purse!Cost(s.order) = 0 /\ Purse!PublicChange(s.order) = -units
      BY <1>5, <1>13 DEF Purse!Cost, Purse!PublicChange
    <2>3. Purse!Pay(s)
      BY <1>2, <1>3, <1>4, <1>13, <2>1, <2>2 DEF Purse!Pay, SpendKinds
    <2> QED
      BY <1>6, <1>13, <2>3 DEF SpendKinds
  <1> QED
    BY <1>4, <1>8, <1>9, <1>10, <1>11, <1>12, <1>13
       DEF Kinds, TongoKinds, CipherKinds

LEMMA ChainRefines ==
    ASSUME PurseInv, ChainNext, UNCHANGED walletVars
    PROVE  [Purse!Next]_(Purse!purseVars)
  <1>1. Draft' = Draft
    BY DEF walletVars, Draft, OrderFor
  <1>2. ASSUME NEW t \in mempool, Revert(t) \/ Evict(t)
        PROVE  [Purse!Next]_(Purse!purseVars)
    <2>1. ledger' = ledger /\ mempool' = mempool \ {t}
      BY <1>2 DEF Revert, Evict
    <2>2. CASE t.call.kind \in SpendKinds
      <3>1. PICK s \in Sent : Sent' = Sent \ {s}
        BY <2>1, <2>2, SentLeaves
      <3>2. Purse!Bounce(s)
        BY <1>1, <2>1, <3>1 DEF Purse!Bounce
      <3> QED
        BY <3>2 DEF Purse!Next
    <2>3. CASE t.call.kind \notin SpendKinds
      BY <1>1, <2>1, <2>3, SentLeaves DEF Purse!purseVars
    <2> QED
      BY <2>2, <2>3
  <1>3. ASSUME mempool' = mempool PROVE Sent' = Sent
    BY <1>3 DEF Sent, OrderOf
  <1>4. ledger \in Ledger
    BY DEF PurseInv, IInv, TypeOK
  <1>5. CASE ArrivePublic
    <2>1. PICK sats \in Arrivals : ledger' = [ledger EXCEPT !.pub = @ + sats]
      BY <1>5 DEF ArrivePublic
    <2>2. Purse!Arrive(sats)
      BY <1>1, <1>3, <1>4, <1>5, <2>1 DEF ArrivePublic, Ledger, Purse!Arrive
    <2> QED
      BY <2>2 DEF Purse!Next
  <1>6. CASE ReceiveTransfer
    <2>1. PICK units \in Receipts : ledger' = [ledger EXCEPT !.pend = @ + units]
      BY <1>6 DEF ReceiveTransfer
    <2>2. Purse!Receive(units)
      BY <1>1, <1>3, <1>4, <1>6, <2>1 DEF ReceiveTransfer, Ledger, Purse!Receive
    <2> QED
      BY <2>2 DEF Purse!Next
  <1> QED
    BY <1>2, <1>5, <1>6, ExecuteRefines DEF ChainNext

\* Whatever the amounts, the price, the answers that are lost, the restarts
\* and the order in which transactions execute, WalletCore's operations move
\* the owner's money only as PrivatePurse lets them: each order is paid at
\* most once and as it was given, and a sweep or a claim loses nothing.
THEOREM WalletImplementsPurse == Spec => ImplementsPurse
  <1>1. PurseInv /\ [Next]_vars => [Purse!Next]_(Purse!purseVars)
    <2> SUFFICES ASSUME PurseInv, [Next]_vars
                 PROVE  [Purse!Next]_(Purse!purseVars)
      OBVIOUS
    <2>1. CASE UNCHANGED vars
      BY <2>1 DEF vars, chainVars, walletVars, Draft, OrderFor, Sent, OrderOf,
                  Purse!purseVars
    <2> QED
      BY <2>1, WalletRefines, ChainRefines DEF Next
  <1> QED
    BY <1>1, InitPurse, PurseInvariance, PTL
       DEF Spec, ImplementsPurse, Purse!Spec

=============================================================================
