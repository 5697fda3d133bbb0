--------------------------- MODULE WalletOpsProofs ---------------------------
(***************************************************************************)
(* The invariants of WalletOps, for every rate, fee, set of amounts and    *)
(* number of transactions, payments and requests.                          *)
(***************************************************************************)
EXTENDS WalletOps, DenominationProofs

USE DEF Invalid

-----------------------------------------------------------------------------
(* Calls and what they do. *)

\* A call the contract accepts leads to a ledger, and the nonce versions the
\* balance: no call changes the balance and not the nonce.
LEMMA ApplyLedger ==
    ASSUME NEW l \in Ledger, NEW c \in Call, CallOk(l, c)
    PROVE  /\ Apply(l, c) \in Ledger
           /\ \/ Apply(l, c).nonce = l.nonce + 1
              \/ Apply(l, c).nonce = l.nonce /\ Apply(l, c).bal = l.bal
  <1>1. PICK units \in Nat, all \in Nat :
            units = c.amount * Rate /\ all = l.bal * Rate
    BY RateAssumption DEF Ledger, Call
  <1>2. l.pub \in Nat /\ l.bal \in Nat /\ l.pend \in Nat /\ c.amount \in Nat
    BY DEF Ledger, Call
  <1>3. CASE c.kind = "fund"
    <2>1. units <= l.pub
      BY <1>1, <1>3 DEF CallOk
    <2>2. Apply(l, c) = Operated(l, l.pub - units, l.bal + c.amount, l.pend)
      BY <1>1, <1>3 DEF Apply
    <2>3. l.pub - units \in Nat /\ l.bal + c.amount \in Nat
      BY <1>1, <1>2, <2>1
    <2> QED
      BY <1>2, <2>2, <2>3 DEF Operated, Ledger
  <1>4. CASE c.kind = "rollover"
    <2>1. Apply(l, c) = Operated(l, l.pub, l.bal + l.pend, 0)
      BY <1>4 DEF Apply
    <2>2. l.bal + l.pend \in Nat /\ 0 \in Nat
      BY <1>2
    <2> QED
      BY <1>2, <2>1, <2>2 DEF Operated, Ledger
  <1>5. CASE c.kind = "transfer"
    <2>1. Apply(l, c) = Operated(l, l.pub, l.bal - c.amount, l.pend)
      BY <1>5 DEF Apply
    <2>2. l.bal - c.amount \in Nat
      BY <1>2, <1>5 DEF CallOk
    <2> QED
      BY <1>2, <2>1, <2>2 DEF Operated, Ledger
  <1>6. CASE c.kind = "withdraw"
    <2>1. PICK back \in {0, units} :
              Apply(l, c) = Operated(l, l.pub + back, l.bal - c.amount, l.pend)
      BY <1>1, <1>6 DEF Apply
    <2>2. l.bal - c.amount \in Nat /\ l.pub + back \in Nat
      BY <1>1, <1>2, <1>6 DEF CallOk
    <2> QED
      BY <1>2, <2>1, <2>2 DEF Operated, Ledger
  <1>7. CASE c.kind = "ragequit"
    <2>1. PICK back \in {0, all} :
              Apply(l, c) = Operated(l, l.pub + back, 0, l.pend)
      BY <1>1, <1>7 DEF Apply
    <2>2. l.pub + back \in Nat /\ 0 \in Nat
      BY <1>1, <1>2
    <2> QED
      BY <1>2, <2>1, <2>2 DEF Operated, Ledger
  <1>8. CASE c.kind = "token"
    <2>1. Apply(l, c) = [l EXCEPT !.pub = @ - c.amount] /\ c.amount <= l.pub
      BY <1>8 DEF Apply, CallOk
    <2> QED
      BY <2>1 DEF Ledger, Call
  <1>9. CASE c.kind = "approve"
    BY <1>9 DEF Apply
  <1> QED
    BY <1>3, <1>4, <1>5, <1>6, <1>7, <1>8, <1>9
       DEF Call, Kinds, TongoKinds, CipherKinds

\* Deploying first makes no difference to what a call does to the money.
LEMMA ApplyDeployed ==
    ASSUME NEW l \in Ledger, NEW c \in Call
    PROVE  LET up == [l EXCEPT !.deployed = TRUE] IN
           /\ Apply(up, c).pub = Apply(l, c).pub
           /\ Apply(up, c).bal = Apply(l, c).bal
           /\ Apply(up, c).nonce = Apply(l, c).nonce
  <1> DEFINE up == [l EXCEPT !.deployed = TRUE]
  <1>1. /\ up.pub = l.pub /\ up.bal = l.bal /\ up.pend = l.pend
        /\ up.nonce = l.nonce
    BY DEF Ledger
  <1>2. CASE c.kind \in TongoKinds
    <2> HIDE DEF up
    <2> QED
      BY <1>1, <1>2 DEF Apply, Operated, TongoKinds, CipherKinds
  <1>3. CASE c.kind = "token"
    <2>1. Apply(l, c) = [l EXCEPT !.pub = @ - c.amount]
          /\ Apply(up, c) = [up EXCEPT !.pub = @ - c.amount]
      BY <1>3 DEF Apply
    <2> QED
      BY <1>1, <2>1 DEF Ledger
  <1>4. CASE c.kind = "approve"
    <2>1. Apply(l, c) = l /\ Apply(up, c) = up
      BY <1>4 DEF Apply
    <2> QED
      BY <1>1, <2>1
  <1> QED
    BY <1>2, <1>3, <1>4 DEF Call, Kinds

LEMMA TxApplyVersions ==
    ASSUME NEW l \in Ledger, NEW t \in Tx, TxOk(l, t)
    PROVE  /\ TxApply(l, t) \in Ledger
           /\ \/ TxApply(l, t).nonce > l.nonce
              \/ TxApply(l, t).nonce = l.nonce /\ TxApply(l, t).bal = l.bal
  <1> DEFINE up == [l EXCEPT !.deployed = TRUE]
             called == Apply(up, t.call)
  <1>1. up \in Ledger /\ up.nonce = l.nonce /\ up.bal = l.bal /\ up.pub = l.pub
    BY DEF Ledger
  <1>2. t.call \in Call /\ t.fee \in Call
    BY DEF Tx
  <1>3. CallOk(up, t.call)
    BY <1>1 DEF TxOk, CallOk, CipherOf
  <1>4. /\ called \in Ledger
        /\ \/ called.nonce = l.nonce + 1
           \/ called.nonce = l.nonce /\ called.bal = l.bal
    <2> HIDE DEF up
    <2> QED
      BY <1>1, <1>2, <1>3, ApplyLedger
  <1>6. CASE t.fee.amount > 0
    <2> DEFINE plain == Apply(l, t.call)
    <2>1. plain.nonce = called.nonce /\ plain.bal = called.bal
          /\ plain.pub = called.pub
      BY <1>2, ApplyDeployed
    <2>2. CallOk(called, t.fee)
      BY <1>6, <2>1 DEF TxOk, CallOk, CipherOf
    <2>3. TxApply(l, t) = Apply(called, t.fee)
      BY <1>6 DEF TxApply
    <2> HIDE DEF called
    <2>5. /\ Apply(called, t.fee) \in Ledger
          /\ \/ Apply(called, t.fee).nonce = called.nonce + 1
             \/ /\ Apply(called, t.fee).nonce = called.nonce
                /\ Apply(called, t.fee).bal = called.bal
      BY <1>2, <1>4, <2>2, ApplyLedger
    <2>6. called.nonce \in Nat /\ l.nonce \in Nat
      BY <1>4 DEF Ledger
    <2> QED
      BY <1>4, <2>3, <2>5, <2>6
  <1>7. CASE ~(t.fee.amount > 0)
    <2>1. TxApply(l, t) = called
      BY <1>7 DEF TxApply
    <2> HIDE DEF called
    <2>2. called.nonce \in Nat /\ l.nonce \in Nat
      BY <1>4 DEF Ledger
    <2> QED
      BY <1>4, <2>1, <2>2
  <1> QED
    BY <1>6, <1>7

-----------------------------------------------------------------------------
(* Submissions. *)

\* What every transaction of this wallet must satisfy when it is submitted.
Sound(call, fee) ==
    \A t \in Tx : (t.call = call /\ t.fee = fee) =>
        /\ FeeShape(t)
        /\ t.call.kind \in CipherKinds => CipherTrue(t.call.cipher) /\ Coherent(t)

LEMMA SoundSubmission ==
    ASSUME IInv, ledger' = ledger, NEW call \in Call, NEW fee \in Call,
           NEW deploys \in SUBSET BOOLEAN, Sound(call, fee),
           Enqueue(deploys, call, fee)
    PROVE  mempool' \subseteq Tx /\ MempoolInv'
  <1>1. PICK id \in TxIds, deploy \in BOOLEAN :
            mempool' = mempool \cup
                {[id |-> id, deploy |-> deploy, call |-> call, fee |-> fee]}
    BY DEF Enqueue, FreeIds
  <1> DEFINE t == [id |-> id, deploy |-> deploy, call |-> call, fee |-> fee]
  <1>2. t \in Tx /\ t.call = call /\ t.fee = fee
    BY DEF Tx
  <1> HIDE DEF t
  <1>3. mempool' = mempool \cup {t}
    BY <1>1 DEF t
  <1>4. mempool \subseteq Tx /\ MempoolInv
    BY DEF IInv, TypeOK
  <1>5. /\ FeeShape(t)
        /\ t.call.kind \in CipherKinds => CipherTrue(t.call.cipher) /\ Coherent(t)
    BY <1>2 DEF Sound
  <1> QED
    BY <1>2, <1>3, <1>4, <1>5 DEF MempoolInv, CipherTrue

LEMMA MempoolKept ==
    ASSUME IInv, ledger' = ledger, UNCHANGED mempool
    PROVE  mempool' \subseteq Tx /\ MempoolInv'
  BY DEF IInv, TypeOK, MempoolInv, CipherTrue

LEMMA DeployAnswersType == DeployAnswers \in SUBSET BOOLEAN
  BY DEF DeployAnswers

LEMMA NoCallSound == NoCall \in Call /\ Sound(NoCall, NoCall)
  BY DEF NoCall, NoCipher, Call, Cipher, Kinds, Sound, FeeShape, CipherKinds

LEMMA SoundDeploying ==
    ASSUME IInv, ledger' = ledger, Deploying
    PROVE  mempool' \subseteq Tx /\ MempoolInv'
  <1>1. {TRUE} \in SUBSET BOOLEAN
    OBVIOUS
  <1> QED
    BY <1>1, NoCallSound, SoundSubmission DEF Deploying

LEMMA SoundAccepted ==
    ASSUME IInv, ledger' = ledger, NEW call \in Call, NEW fee \in Call,
           Sound(call, fee), Accepted(call, fee) \/ Failed(call, fee)
    PROVE  mempool' \subseteq Tx /\ MempoolInv'
  BY SoundSubmission, MempoolKept, DeployAnswersType DEF Accepted, Failed

\* The calls WalletOps makes are calls.
LEMMA MainCallType ==
    ASSUME TypeOK, NEW kind \in Kinds, NEW amount \in Nat, NEW toSelf \in BOOLEAN
    PROVE  MainCall(kind, amount, toSelf) \in Call
  BY DEF TypeOK, Account, MainCall, Call, NoCipher, Cipher

LEMMA FeeCallType ==
    ASSUME TypeOK, NEW amount \in Nat, NEW fee \in Nat
    PROVE  FeeCall(amount, fee) \in Call
  <1>1. acct.cipher.ver \in Int /\ acct.cipher.val \in Int /\ acct.nonce \in Nat
    BY DEF TypeOK, Account, Cipher
  <1> QED
    BY <1>1, NoCallSound DEF FeeCall, Call, Cipher, Kinds, TongoKinds, CipherKinds

LEMMA OpUnitsType ==
    ASSUME TypeOK
    PROVE  OpUnits \in Nat \cup {Invalid} /\ OpFee \in Nat
  <1>1. op.sats \in Nat /\ op.toSelf \in BOOLEAN
    BY DEF TypeOK
  <1> QED
    BY <1>1, UnitsType, FeeUnitsType DEF OpUnits, OpFee, UnitsFor, FeeFor

LEMMA OpSound ==
    ASSUME IInv, pc = "submit", OpAllowed
    PROVE  OpCall \in Call /\ OpFeeCall \in Call /\ Sound(OpCall, OpFeeCall)
  <1>1. op.kind \in TongoKinds \cup {"token"} /\ op.toSelf \in BOOLEAN
    BY DEF IInv, HandlerInv, TypeOK
  <1>2. OpUnits \in Nat /\ OpFee \in Nat
    BY OpUnitsType DEF IInv, OpAllowed
  <1>3. OpCall \in Call /\ OpFeeCall \in Call
    BY <1>1, <1>2, MainCallType, FeeCallType DEF OpCall, OpFeeCall, IInv, Kinds
  <1> SUFFICES ASSUME NEW t \in Tx, t.call = OpCall, t.fee = OpFeeCall
               PROVE  /\ FeeShape(t)
                      /\ t.call.kind \in CipherKinds =>
                             CipherTrue(t.call.cipher) /\ Coherent(t)
    BY <1>3 DEF Sound
  <1>4. t.call.kind = op.kind /\ t.call.toSelf = op.toSelf
        /\ t.call.amount = OpUnits
    BY DEF OpCall, MainCall
  <1>5. OpFee = 0 => t.fee.amount = 0
    BY DEF OpFeeCall, FeeCall, NoCall
  <1>6. OpFee # 0 =>
            /\ t.fee.amount = OpFee /\ t.fee.kind = "transfer" /\ ~t.fee.toSelf
            /\ t.fee.nonce = acct.nonce + 1
            /\ t.fee.cipher = [ver |-> acct.cipher.ver + 1,
                               val |-> acct.cipher.val - OpUnits]
    BY DEF OpFeeCall, FeeCall
  <1>7. OpFee # 0 => op.kind = "withdraw" /\ ~op.toSelf
    BY DEF OpFee, FeeFor, ComputeWithdrawFeeUnits
  <1>8. FeeShape(t)
    BY <1>2, <1>4, <1>5, <1>6, <1>7 DEF FeeShape
  <1>9. ASSUME op.kind \in CipherKinds
        PROVE  CipherTrue(t.call.cipher) /\ Coherent(t)
    <2>1. t.call.cipher = acct.cipher /\ t.call.nonce = acct.nonce
      BY <1>9 DEF OpCall, MainCall, TongoKinds
    <2>2. CipherTrue(acct.cipher) /\ acct.cipher.ver = acct.nonce
          /\ acct.cipher.val = acct.balance
      BY <1>9 DEF IInv, HandlerInv
    <2>3. op.kind \in {"transfer", "withdraw"} => acct.balance >= OpUnits + OpFee
      BY DEF OpAllowed
    <2>4. t.fee.amount = OpFee
      BY <1>5, <1>6
    <2> QED
      BY <1>2, <1>4, <1>5, <1>6, <2>1, <2>2, <2>3, <2>4 DEF Coherent
  <1> QED
    BY <1>4, <1>8, <1>9

LEMMA SweepUnitsType ==
    ASSUME IInv, pc = "fund"
    PROVE  SweepUnits \in Nat
  <1>1. seen \in Nat /\ seen >= Rate
    BY DEF IInv, TypeOK, HandlerInv
  <1>2. /\ seen \div Rate \in Nat /\ seen % Rate \in 0 .. (Rate - 1)
        /\ seen = Rate * (seen \div Rate) + (seen % Rate)
    BY <1>1, DivisionNat, RateAssumption
  <1>3. PICK units \in Nat : units = seen \div Rate
    BY <1>2
  <1>4. units # 0
    <2>1. ASSUME units = 0 PROVE FALSE
      <3>1. Rate * units = 0
        BY <2>1, RateAssumption
      <3> QED
        BY <1>1, <1>2, <1>3, <3>1, RateAssumption
    <2> QED
      BY <2>1
  <1>5. units * Rate \in Nat \ {0}
    BY <1>4, RateAssumption
  <1>6. SatsToTongoUnits(units * Rate) # Invalid
    <2>1. (units * Rate + (Rate - 1)) % Word \in Nat
      BY <1>5, RateAssumption, WordAssumption, Division
    <2>2. ((units * Rate + (Rate - 1)) % Word) \div Rate \in Nat
      BY <2>1, DivisionNat, RateAssumption
    <2> QED
      BY <1>5, <2>2 DEF SatsToTongoUnits
  <1> QED
    BY <1>3, <1>5, <1>6, UnitsType DEF SweepUnits, TongoUnitsToSats

LEMMA FundSound ==
    ASSUME IInv, pc = "fund", acct.cipher # NoCipher
    PROVE  /\ MainCall("fund", SweepUnits, FALSE) \in Call
           /\ Sound(MainCall("fund", SweepUnits, FALSE), NoCall)
  <1>1. SweepUnits \in Nat
    BY SweepUnitsType
  <1>2. MainCall("fund", SweepUnits, FALSE) \in Call
    BY <1>1, MainCallType DEF IInv, Kinds, TongoKinds, CipherKinds
  <1>3. CipherTrue(acct.cipher) /\ acct.cipher.ver = acct.nonce
    BY DEF IInv, HandlerInv
  <1> QED
    BY <1>2, <1>3
       DEF Sound, MainCall, NoCall, FeeShape, Coherent, TongoKinds, CipherKinds

LEMMA RolloverSound ==
    ASSUME IInv
    PROVE  /\ MainCall("rollover", 0, FALSE) \in Call
           /\ Sound(MainCall("rollover", 0, FALSE), NoCall)
  <1>1. MainCall("rollover", 0, FALSE) \in Call
    BY MainCallType DEF IInv, Kinds, TongoKinds
  <1> QED
    BY <1>1 DEF Sound, MainCall, NoCall, FeeShape, CipherKinds

-----------------------------------------------------------------------------
(* The invariant is inductive. *)

LEMMA InitIInv == Init => IInv
  <1> SUFFICES ASSUME Init PROVE IInv
    OBVIOUS
  <1> USE DEF Init, ChainInit, WalletInit
  <1>1. TypeOK
    BY ChainAssumption, RequestAssumption
       DEF TypeOK, Ledger, Account, NoAccount, NoCipher, Cipher, State, NoOp, Op
  <1>2. MempoolInv
    BY DEF MempoolInv
  <1>3. HandlerInv
    BY DEF HandlerInv, CipherTrue, NoAccount, NoCipher, SweepSteps
  <1> QED
    BY <1>1, <1>2, <1>3 DEF IInv

\* A step of the chain: what the wallet knows stays true, because the balance
\* only changes together with the nonce.
LEMMA ChainStep ==
    ASSUME IInv, ChainNext, UNCHANGED walletVars
    PROVE  IInv'
  <1>1. TypeOK /\ MempoolInv /\ HandlerInv
    BY DEF IInv
  <1>2. \/ \E t \in mempool : Execute(t)
        \/ \E t \in mempool : Revert(t) \/ Evict(t)
        \/ ArrivePublic \/ ReceiveTransfer
    BY DEF ChainNext
  <1>3. /\ ledger' \in Ledger
        /\ \/ ledger'.nonce > ledger.nonce
           \/ ledger'.nonce = ledger.nonce /\ ledger'.bal = ledger.bal
    <2>1. CASE \E t \in mempool : Execute(t)
      BY <1>1, <2>1, TxApplyVersions DEF Execute, TypeOK
    <2>2. CASE \E t \in mempool : Revert(t) \/ Evict(t)
      BY <1>1, <2>2 DEF Revert, Evict, TypeOK
    <2>3. CASE ArrivePublic
      <3>1. PICK sats \in Arrivals : ledger' = [ledger EXCEPT !.pub = @ + sats]
        BY <2>3 DEF ArrivePublic
      <3> QED
        BY <1>1, <3>1, ChainAssumption DEF TypeOK, Ledger
    <2>4. CASE ReceiveTransfer
      <3>1. PICK units \in Receipts : ledger' = [ledger EXCEPT !.pend = @ + units]
        BY <2>4 DEF ReceiveTransfer
      <3> QED
        BY <1>1, <3>1, ChainAssumption DEF TypeOK, Ledger
    <2> QED
      BY <1>2, <2>1, <2>2, <2>3, <2>4
  <1>4. mempool' \subseteq mempool
    BY <1>2 DEF Execute, Revert, Evict, ArrivePublic, ReceiveTransfer
  <1>5. incoming' \in 0 .. MaxIncoming /\ evictions' \in 0 .. MaxEvictions
    BY <1>1, <1>2, ChainAssumption
       DEF Execute, Revert, Evict, ArrivePublic, ReceiveTransfer, TypeOK
  <1>6. TypeOK'
    BY <1>1, <1>3, <1>4, <1>5 DEF TypeOK, walletVars
  <1>7. ASSUME NEW c \in Cipher, CipherTrue(c)
        PROVE  CipherTrue(c)'
    <2>1. ledger.nonce \in Nat /\ ledger'.nonce \in Nat /\ c.ver \in Int
      BY <1>1, <1>3, <1>7 DEF TypeOK, Ledger, Cipher
    <2> QED
      BY <1>3, <1>7, <2>1 DEF CipherTrue
  <1>8. MempoolInv'
    <2> SUFFICES ASSUME NEW t \in mempool
                 PROVE  /\ FeeShape(t)
                        /\ t.call.kind \in CipherKinds =>
                               CipherTrue(t.call.cipher)' /\ Coherent(t)
      BY <1>4 DEF MempoolInv, CipherTrue
    <2>1. t.call.cipher \in Cipher
      BY <1>1 DEF TypeOK, Tx, Call
    <2> QED
      BY <1>1, <1>7, <2>1 DEF MempoolInv
  <1>9. HandlerInv'
    <2>1. acct.cipher \in Cipher /\ CipherTrue(acct.cipher)
      BY <1>1 DEF TypeOK, Account, HandlerInv
    <2>2. CipherTrue(acct.cipher)'
      BY <1>7, <2>1 DEF walletVars, CipherTrue
    <2> QED
      BY <1>1, <2>2 DEF HandlerInv, walletVars
  <1> QED
    BY <1>6, <1>8, <1>9 DEF IInv

\* A step of a handler that leaves the chain's own state alone keeps the type
\* invariant if what it assigns has its type.
LEMMA HandlerType ==
    ASSUME TypeOK, UNCHANGED <<ledger, incoming, evictions>>,
           mempool' \subseteq Tx, acct' \in Account,
           wstate' \in [label : {"Locked", "Ready", "Processing", "Error"},
                        balance : Nat, pending : Nat],
           pc' \in SweepSteps \cup {"idle", "sync", "submit"},
           op' \in [kind : TongoKinds \cup SweepKinds \cup {"none", "token"},
                    sats : Nat, toSelf : BOOLEAN],
           seen' \in Nat, requests' \in 0 .. MaxRequests
    PROVE  TypeOK'
  BY DEF TypeOK, SweepSteps

LEMMA SmallTypes ==
    /\ NoAccount \in Account /\ FreshAccount \in Account
    /\ \A kind \in SweepKinds \cup {"none"} :
           Op(kind) \in [kind : TongoKinds \cup SweepKinds \cup {"none", "token"},
                         sats : Nat, toSelf : BOOLEAN]
    /\ \A label \in {"Locked", "Ready", "Processing", "Error"} :
           State(label) \in [label : {"Locked", "Ready", "Processing", "Error"},
                             balance : Nat, pending : Nat]
    /\ \A a \in Account :
           Ready(a) \in [label : {"Locked", "Ready", "Processing", "Error"},
                         balance : Nat, pending : Nat]
    /\ NoAccount.cipher = NoCipher /\ FreshAccount.cipher = NoCipher
  BY DEF NoAccount, FreshAccount, Account, NoCipher, Cipher, Op, State, Ready

LEMMA NoCipherTrue == IInv => CipherTrue(NoCipher)
  BY DEF IInv, TypeOK, Ledger, CipherTrue, NoCipher

\* What fetch_and_decrypt_balance leaves in memory.
LEMMA SnapshotFresh ==
    ASSUME IInv
    PROVE  /\ Snapshot \in Account
           /\ CipherTrue(Snapshot.cipher)
           /\ Snapshot.cipher.ver = Snapshot.nonce
           /\ Snapshot.cipher.val = Snapshot.balance
  BY DEF IInv, TypeOK, Ledger, Account, Cipher, Snapshot, CipherOf, CipherTrue

\* The optimistic updates keep the ciphertext.
LEMMA OptimisticType ==
    ASSUME NEW a \in Account, NEW amount \in Nat, NEW fee \in Nat
    PROVE  /\ AfterFund(a, amount) \in Account
           /\ AfterFund(a, amount).cipher = a.cipher
           /\ AfterRollover(a) \in Account
           /\ AfterRollover(a).cipher = a.cipher
           /\ AfterSpend(a, amount, fee) \in Account
           /\ AfterSpend(a, amount, fee).cipher = a.cipher
           /\ AfterRagequit(a) \in Account
           /\ AfterRagequit(a).cipher = a.cipher
  <1>1. /\ a.balance + amount \in Nat /\ a.balance + a.pending \in Nat
        /\ (IF a.balance > amount + fee THEN a.balance - (amount + fee) ELSE 0) \in Nat
        /\ a.pending \in Nat /\ a.nonce \in Nat
    BY DEF Account
  <1>2. AfterFund(a, amount) \in Account /\ AfterFund(a, amount).cipher = a.cipher
    BY <1>1 DEF AfterFund, Optimistic, Account
  <1>3. AfterRollover(a) \in Account /\ AfterRollover(a).cipher = a.cipher
    BY <1>1 DEF AfterRollover, Optimistic, Account
  <1>4. AfterSpend(a, amount, fee) \in Account
        /\ AfterSpend(a, amount, fee).cipher = a.cipher
    <2>1. PICK left \in Nat, up \in {1, 2} :
              AfterSpend(a, amount, fee) = Optimistic(a, left, a.pending, up)
      BY <1>1 DEF AfterSpend
    <2> QED
      BY <1>1, <2>1 DEF Optimistic, Account
  <1>5. AfterRagequit(a) \in Account /\ AfterRagequit(a).cipher = a.cipher
    BY <1>1 DEF AfterRagequit, Optimistic, Account
  <1> QED
    BY <1>2, <1>3, <1>4, <1>5

LEMMA OpAfterType ==
    ASSUME IInv, OpAllowed
    PROVE  OpAfter \in Account /\ OpAfter.cipher = acct.cipher
  <1>1. OpUnits \in Nat /\ OpFee \in Nat /\ acct \in Account
    BY OpUnitsType DEF IInv, TypeOK, OpAllowed
  <1> QED
    BY <1>1, OptimisticType DEF OpAfter

\* Reading the invariants of a handler step off its assignments.
LEMMA WalletStep ==
    ASSUME IInv, WalletNext
    PROVE  IInv'
  <1>1. TypeOK /\ MempoolInv /\ HandlerInv /\ acct \in Account
    BY DEF IInv, TypeOK
  <1>2. ASSUME SomeRequest PROVE IInv'
    <2>1. PICK kind \in RequestKinds, sats \in RequestSats, toSelf \in BOOLEAN :
              StartRequest(kind, sats, toSelf)
      BY <1>2 DEF SomeRequest
    <2>2. kind \in TongoKinds \cup {"token"} /\ sats \in Nat
      BY RequestAssumption
    <2>3. mempool' \subseteq Tx /\ MempoolInv'
      BY <2>1, MempoolKept DEF StartRequest, chainVars
    <2>4. TypeOK'
      <3>1. op'.kind = kind /\ op' \in [kind : TongoKinds \cup SweepKinds
                \cup {"none", "token"}, sats : Nat, toSelf : BOOLEAN]
        BY <2>1, <2>2 DEF StartRequest
      <3>2. wstate' \in [label : {"Locked", "Ready", "Processing", "Error"},
                         balance : Nat, pending : Nat]
        BY <1>1, <2>1, SmallTypes DEF StartRequest, TypeOK
      <3>3. pc' \in SweepSteps \cup {"idle", "sync", "submit"}
        BY <2>1 DEF StartRequest
      <3>4. seen' \in Nat /\ requests' \in 0 .. MaxRequests /\ acct' \in Account
        BY <1>1, <2>1, RequestAssumption DEF StartRequest, TypeOK
      <3> QED
        BY <1>1, <2>1, <2>3, <3>1, <3>2, <3>3, <3>4, HandlerType
           DEF StartRequest, chainVars
    <2>5. HandlerInv'
      BY <1>1, <2>1, <2>2
         DEF StartRequest, HandlerInv, CipherTrue, chainVars, SweepSteps,
             TongoKinds, CipherKinds
    <2> QED
      BY <2>3, <2>4, <2>5 DEF IInv
  <1>3. ASSUME SubmitRequest PROVE IInv'
    <2>1. mempool' \subseteq Tx /\ MempoolInv'
      BY <1>3, OpSound, SoundAccepted DEF SubmitRequest, UnchangedChain
    <2>2. acct' \in Account /\ acct'.cipher = acct.cipher
      BY <1>3, OpAfterType DEF SubmitRequest
    <2>3. TypeOK'
      BY <1>1, <1>3, <2>1, <2>2, SmallTypes, HandlerType
         DEF SubmitRequest, Return, UnchangedChain, TypeOK, NoOp
    <2>4. HandlerInv'
      BY <1>1, <1>3, <2>2
         DEF SubmitRequest, Return, UnchangedChain, HandlerInv, CipherTrue, SweepSteps
    <2> QED
      BY <2>1, <2>3, <2>4 DEF IInv
  <1>4. ASSUME RefuseRequest PROVE IInv'
    <2>1. mempool' \subseteq Tx /\ MempoolInv'
      BY <1>4, MempoolKept DEF RefuseRequest, chainVars
    <2>2. TypeOK'
      BY <1>1, <1>4, <2>1, SmallTypes, HandlerType
         DEF RefuseRequest, Return, chainVars, TypeOK, NoOp
    <2>3. HandlerInv'
      BY <1>1, <1>4
         DEF RefuseRequest, Return, chainVars, HandlerInv, CipherTrue, SweepSteps
    <2> QED
      BY <2>1, <2>2, <2>3 DEF IInv
  <1>5. ASSUME FailRequest PROVE IInv'
    <2>1. mempool' \subseteq Tx /\ MempoolInv'
      BY <1>5, OpSound, SoundAccepted DEF FailRequest, UnchangedChain
    <2>2. TypeOK'
      BY <1>1, <1>5, <2>1, SmallTypes, HandlerType
         DEF FailRequest, Return, UnchangedChain, TypeOK, NoOp
    <2>3. HandlerInv'
      BY <1>1, <1>5
         DEF FailRequest, Return, UnchangedChain, HandlerInv, CipherTrue, SweepSteps
    <2> QED
      BY <2>1, <2>2, <2>3 DEF IInv
  <1>6. ASSUME StartRefresh PROVE IInv'
    <2>1. mempool' \subseteq Tx /\ MempoolInv'
      BY <1>6, MempoolKept DEF StartRefresh, chainVars
    <2>2. TypeOK'
      BY <1>1, <1>6, <2>1, SmallTypes, HandlerType
         DEF StartRefresh, chainVars, TypeOK, SweepKinds
    <2>3. HandlerInv'
      BY <1>1, <1>6
         DEF StartRefresh, chainVars, HandlerInv, CipherTrue, SweepSteps, SweepKinds, Op
    <2> QED
      BY <2>1, <2>2, <2>3 DEF IInv
  <1>7. ASSUME Unlock PROVE IInv'
    <2>1. mempool' \subseteq Tx /\ MempoolInv'
      BY <1>7, MempoolKept DEF Unlock, chainVars
    <2>2. TypeOK'
      BY <1>1, <1>7, <2>1, SmallTypes, HandlerType
         DEF Unlock, chainVars, TypeOK, SweepKinds
    <2>3. CipherTrue(acct.cipher)'
      BY <1>7, SmallTypes, NoCipherTrue DEF Unlock, chainVars, CipherTrue
    <2>4. HandlerInv'
      BY <1>7, <2>3
         DEF Unlock, HandlerInv, SweepSteps, SweepKinds, Op, FreshAccount
    <2> QED
      BY <2>1, <2>2, <2>4 DEF IInv
  <1>8. ASSUME Sync PROVE IInv'
    <2>1. mempool' \subseteq Tx /\ MempoolInv'
      BY <1>8, MempoolKept DEF Sync, Goto
    <2>2. acct' = Snapshot /\ Snapshot \in Account
      BY <1>8, SnapshotFresh DEF Sync
    <2>3. TypeOK'
      BY <1>1, <1>8, <2>1, <2>2, HandlerType DEF Sync, Goto, TypeOK, SweepSteps
    <2>4. /\ CipherTrue(acct.cipher)'
          /\ acct'.cipher.ver = acct'.nonce /\ acct'.cipher.val = acct'.balance
      BY <1>8, <2>2, SnapshotFresh DEF Sync, Goto, CipherTrue
    <2>5. op' = op /\ pc' \in {"readPublic", "submit"} /\ pc = "sync"
          /\ (pc' = "readPublic" <=> op.kind \in SweepKinds)
      BY <1>8 DEF Sync, Goto
    <2>6. HandlerInv'
      BY <1>1, <2>4, <2>5 DEF HandlerInv, SweepSteps, TongoKinds
    <2> QED
      BY <2>1, <2>3, <2>6 DEF IInv
  <1>9. ASSUME SyncFails PROVE IInv'
    <2>1. mempool' \subseteq Tx /\ MempoolInv'
      BY <1>9, MempoolKept DEF SyncFails, chainVars
    <2>2. TypeOK'
      <3>1. op' \in {op, NoOp} /\ pc' \in {"readPublic", "idle"}
        BY <1>9 DEF SyncFails
      <3> QED
        BY <1>1, <1>9, <2>1, <3>1, SmallTypes, HandlerType
           DEF SyncFails, chainVars, TypeOK, NoOp, SweepSteps
    <2>3. CipherTrue(acct.cipher)' /\ acct' = acct
      BY <1>1, <1>9 DEF SyncFails, chainVars, HandlerInv, CipherTrue
    <2>4. CASE op.kind = "unlock"
      <3>1. pc' = "readPublic" /\ op' = op
        BY <1>9, <2>4 DEF SyncFails
      <3>2. acct.cipher # NoCipher => acct.cipher.ver = acct.nonce
        BY <1>1, <1>9, <2>4 DEF HandlerInv, SyncFails
      <3> QED
        BY <2>1, <2>2, <2>3, <2>4, <3>1, <3>2
           DEF IInv, HandlerInv, SweepSteps, SweepKinds
    <2>5. CASE op.kind # "unlock"
      <3>1. pc' = "idle" /\ op' = NoOp
        BY <1>9, <2>5 DEF SyncFails
      <3> QED
        BY <2>1, <2>2, <2>3, <3>1 DEF IInv, HandlerInv, SweepSteps
    <2> QED
      BY <2>4, <2>5
  <1>10. ASSUME NEW answer \in {ledger.pub, 0}, ReadPublic(answer) PROVE IInv'
    <2>1. mempool' \subseteq Tx /\ MempoolInv'
      BY <1>10, MempoolKept DEF ReadPublic, Goto
    <2>2. answer \in Nat
      BY <1>1 DEF TypeOK, Ledger
    <2>3. TypeOK'
      BY <1>1, <1>10, <2>1, <2>2, HandlerType DEF ReadPublic, Goto, TypeOK, SweepSteps
    <2>4. HandlerInv'
      BY <1>1, <1>10 DEF ReadPublic, Goto, HandlerInv, CipherTrue, SweepSteps
    <2> QED
      BY <2>1, <2>3, <2>4 DEF IInv
  <1>11. ASSUME DeployFirst PROVE IInv'
    <2>1. mempool' \subseteq Tx /\ MempoolInv'
      BY <1>11, MempoolKept, SoundDeploying DEF DeployFirst, Goto
    <2>2. /\ acct' = acct /\ seen' = seen /\ op' = op /\ wstate' = wstate
          /\ requests' = requests /\ UNCHANGED <<ledger, incoming, evictions>>
          /\ pc = "deploy" /\ pc' \in {"rollover", "fund"}
          /\ pc' = "fund" => ~(seen < Rate)
      BY <1>11 DEF DeployFirst, Goto
    <2>3. TypeOK'
      BY <1>1, <2>1, <2>2, HandlerType DEF TypeOK, SweepSteps
    <2>4. pc' = "fund" => seen >= Rate
      BY <1>1, <2>2, RateAssumption DEF TypeOK
    <2>5. HandlerInv'
      BY <1>1, <2>2, <2>4 DEF HandlerInv, CipherTrue, SweepSteps
    <2> QED
      BY <2>1, <2>3, <2>5 DEF IInv
  <1>12. ASSUME AutoFund PROVE IInv'
    <2>1. mempool' \subseteq Tx /\ MempoolInv'
      BY <1>12, FundSound, NoCallSound, SoundAccepted DEF AutoFund, Goto
    <2>2. acct' \in Account /\ acct'.cipher = acct.cipher
      <3>1. SweepUnits \in Nat /\ 0 \in Nat
        BY <1>12, SweepUnitsType DEF AutoFund
      <3> QED
        BY <1>1, <1>12, <3>1, OptimisticType DEF AutoFund
    <2>3. TypeOK'
      BY <1>1, <1>12, <2>1, <2>2, HandlerType DEF AutoFund, Goto, TypeOK, SweepSteps
    <2>4. HandlerInv'
      BY <1>1, <1>12, <2>2 DEF AutoFund, Goto, HandlerInv, CipherTrue, SweepSteps
    <2> QED
      BY <2>1, <2>3, <2>4 DEF IInv
  <1>13. ASSUME AutoFundFails PROVE IInv'
    <2>1. mempool' \subseteq Tx /\ MempoolInv'
      BY <1>13, FundSound, NoCallSound, SoundAccepted, MempoolKept, SoundDeploying
         DEF AutoFundFails, Goto
    <2>2. TypeOK'
      BY <1>1, <1>13, <2>1, HandlerType DEF AutoFundFails, Goto, TypeOK, SweepSteps
    <2>3. HandlerInv'
      BY <1>1, <1>13 DEF AutoFundFails, Goto, HandlerInv, CipherTrue, SweepSteps
    <2> QED
      BY <2>1, <2>2, <2>3 DEF IInv
  <1>14. ASSUME Refetch PROVE IInv'
    <2>1. mempool' \subseteq Tx /\ MempoolInv'
      BY <1>14, MempoolKept DEF Refetch, Goto
    <2>2. acct' \in Account /\ CipherTrue(acct.cipher)'
      BY <1>1, <1>14, SnapshotFresh DEF Refetch, Goto, HandlerInv, CipherTrue
    <2>3. TypeOK'
      BY <1>1, <1>14, <2>1, <2>2, HandlerType DEF Refetch, Goto, TypeOK, SweepSteps
    <2>4. HandlerInv'
      BY <1>1, <1>14, <2>2 DEF Refetch, Goto, HandlerInv, SweepSteps
    <2> QED
      BY <2>1, <2>3, <2>4 DEF IInv
  <1>15. ASSUME AutoRollover PROVE IInv'
    <2>1. mempool' \subseteq Tx /\ MempoolInv'
      BY <1>15, RolloverSound, NoCallSound, SoundAccepted DEF AutoRollover, Goto
    <2>2. acct' \in Account /\ acct'.cipher = acct.cipher
      <3>1. 0 \in Nat
        OBVIOUS
      <3> QED
        BY <1>1, <1>15, <3>1, OptimisticType DEF AutoRollover
    <2>3. TypeOK'
      BY <1>1, <1>15, <2>1, <2>2, HandlerType
         DEF AutoRollover, Goto, TypeOK, SweepSteps
    <2>4. HandlerInv'
      BY <1>1, <1>15, <2>2 DEF AutoRollover, Goto, HandlerInv, CipherTrue, SweepSteps
    <2> QED
      BY <2>1, <2>3, <2>4 DEF IInv
  <1>16. ASSUME SkipRollover PROVE IInv'
    <2>1. mempool' \subseteq Tx /\ MempoolInv'
      BY <1>16, RolloverSound, NoCallSound, SoundAccepted, MempoolKept
         DEF SkipRollover, Goto
    <2>2. TypeOK'
      BY <1>1, <1>16, <2>1, HandlerType DEF SkipRollover, Goto, TypeOK, SweepSteps
    <2>3. HandlerInv'
      BY <1>1, <1>16 DEF SkipRollover, Goto, HandlerInv, CipherTrue, SweepSteps
    <2> QED
      BY <2>1, <2>2, <2>3 DEF IInv
  <1>17. ASSUME Finish PROVE IInv'
    <2>1. mempool' \subseteq Tx /\ MempoolInv'
      BY <1>17, MempoolKept DEF Finish, chainVars
    <2>2. TypeOK'
      BY <1>1, <1>17, <2>1, SmallTypes, HandlerType DEF Finish, chainVars, TypeOK, NoOp
    <2>3. HandlerInv'
      BY <1>1, <1>17 DEF Finish, chainVars, HandlerInv, CipherTrue, SweepSteps
    <2> QED
      BY <2>1, <2>2, <2>3 DEF IInv
  <1>18. ASSUME EnsureDeployed PROVE IInv'
    <2>1. mempool' \subseteq Tx /\ MempoolInv'
      BY <1>18, SoundDeploying DEF EnsureDeployed, UnchangedChain
    <2>2. TypeOK'
      BY <1>1, <1>18, <2>1, HandlerType, RequestAssumption
         DEF EnsureDeployed, UnchangedChain, TypeOK, SweepSteps
    <2>3. HandlerInv'
      BY <1>1, <1>18 DEF EnsureDeployed, UnchangedChain, HandlerInv, CipherTrue
    <2> QED
      BY <2>1, <2>2, <2>3 DEF IInv
  <1>19. ASSUME Lock \/ Crash PROVE IInv'
    <2>1. mempool' \subseteq Tx /\ MempoolInv'
      BY <1>19, MempoolKept DEF Lock, Crash, chainVars
    <2>2. acct' = NoAccount /\ pc' = "idle" /\ op' = NoOp
      BY <1>1, <1>19 DEF Lock, Crash, HandlerInv
    <2>3. TypeOK'
      BY <1>1, <1>19, <2>1, <2>2, SmallTypes, HandlerType
         DEF Lock, Crash, chainVars, TypeOK, NoOp
    <2>4. CipherTrue(acct.cipher)'
      BY <1>19, <2>2, SmallTypes, NoCipherTrue DEF Lock, Crash, chainVars, CipherTrue
    <2>5. HandlerInv'
      BY <2>2, <2>4 DEF HandlerInv, SweepSteps
    <2> QED
      BY <2>1, <2>3, <2>5 DEF IInv
  <1> QED
    BY <1>2, <1>3, <1>4, <1>5, <1>6, <1>7, <1>8, <1>9, <1>10, <1>11, <1>12,
       <1>13, <1>14, <1>15, <1>16, <1>17, <1>18, <1>19
       DEF WalletNext

-----------------------------------------------------------------------------
(* The theorems. *)

THEOREM Invariance == Spec => []IInv
  <1>1. Init => IInv
    BY InitIInv
  <1>2. IInv /\ [Next]_vars => IInv'
    <2> SUFFICES ASSUME IInv, [Next]_vars PROVE IInv'
      OBVIOUS
    <2>1. CASE ChainNext /\ UNCHANGED walletVars
      BY <2>1, ChainStep
    <2>2. CASE WalletNext
      BY <2>2, WalletStep
    <2>3. CASE UNCHANGED vars
      BY <2>3 DEF vars, chainVars, walletVars, IInv, TypeOK, MempoolInv,
                  HandlerInv, CipherTrue
    <2> QED
      BY <2>1, <2>2, <2>3 DEF Next
  <1> QED
    BY <1>1, <1>2, PTL DEF Spec

\* The variables of the wallet and of the chain keep their types: no balance,
\* in memory or on chain, ever goes below zero.
THEOREM TypeCorrect == Spec => []TypeOK
  <1>1. IInv => TypeOK
    BY DEF IInv
  <1> QED
    BY <1>1, Invariance, PTL

\* Every ciphertext the wallet holds or has proved against is the account's,
\* now or before.
THEOREM CiphersAreTrue == Spec => []CiphersTrue
  <1>1. IInv => CiphersTrue
    BY DEF IInv, MempoolInv, HandlerInv, CiphersTrue, Spends
  <1> QED
    BY <1>1, Invariance, PTL

\* The re-sync before a proof does what its comment promises, in every
\* interleaving with the chain, lost answers and restarts.
THEOREM ProofsAreCoherent == Spec => []SpendProofsCoherent
  <1>1. IInv => SpendProofsCoherent
    BY DEF IInv, MempoolInv, SpendProofsCoherent, Spends
  <1> QED
    BY <1>1, Invariance, PTL

LEMMA SoundSpendLands ==
    ASSUME IInv, NEW t \in Spends,
           t.call.nonce = ledger.nonce,
           t.deploy = ~ledger.deployed,
           t.call.kind = "fund" => t.call.amount * Rate <= ledger.pub
    PROVE  TxOk(ledger, t)
  <1>1. /\ t \in Tx /\ ledger \in Ledger /\ t.call.kind \in CipherKinds
        /\ FeeShape(t) /\ CipherTrue(t.call.cipher) /\ Coherent(t)
    BY DEF IInv, TypeOK, MempoolInv, Spends
  <1>2. /\ t.call \in Call /\ t.fee \in Call
        /\ t.call.cipher \in Cipher /\ t.call.amount \in Nat
        /\ t.fee.amount \in Nat /\ t.fee.nonce \in Nat
        /\ ledger.nonce \in Nat /\ ledger.bal \in Nat
    BY <1>1 DEF Tx, Call, Ledger
  <1>3. t.call.cipher.ver = ledger.nonce /\ t.call.cipher.val = ledger.bal
    BY <1>1 DEF Coherent, CipherTrue
  <1>4. t.call.cipher = CipherOf(ledger)
    BY <1>2, <1>3 DEF Cipher, CipherOf
  <1>5. t.call.kind \in {"transfer", "withdraw"} =>
            t.call.amount + t.fee.amount <= ledger.bal
    BY <1>1, <1>3 DEF Coherent
  <1>6. CallOk(ledger, t.call)
    BY <1>1, <1>2, <1>4, <1>5 DEF CallOk, CipherKinds
  <1>7. ASSUME t.fee.amount > 0 PROVE CallOk(Apply(ledger, t.call), t.fee)
    <2>1. t.call.kind = "withdraw" /\ ~t.call.toSelf /\ t.fee.kind = "transfer"
      BY <1>1, <1>7 DEF FeeShape
    <2>2. /\ Apply(ledger, t.call).nonce = ledger.nonce + 1
          /\ Apply(ledger, t.call).bal = ledger.bal - t.call.amount
      BY <2>1 DEF Apply, Operated
    <2>3. /\ t.fee.nonce = ledger.nonce + 1
          /\ t.fee.cipher = [ver |-> ledger.nonce + 1,
                             val |-> ledger.bal - t.call.amount]
      BY <1>1, <1>3, <1>7 DEF Coherent
    <2>4. t.fee.cipher = CipherOf(Apply(ledger, t.call))
      BY <2>2, <2>3 DEF CipherOf
    <2>5. t.fee.amount <= ledger.bal - t.call.amount
      BY <1>2, <1>5, <2>1
    <2> QED
      BY <2>1, <2>2, <2>3, <2>4, <2>5 DEF CallOk
  <1> QED
    BY <1>6, <1>7 DEF TxOk

\* An accepted spend whose nonce is the account's executes, fee included,
\* unless its deployment or its public wBTC was overtaken.
THEOREM SpendsLand == Spec => []CurrentSpendLands
  <1>1. IInv => CurrentSpendLands
    BY SoundSpendLands DEF CurrentSpendLands
  <1> QED
    BY <1>1, Invariance, PTL

=============================================================================
