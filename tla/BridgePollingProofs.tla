------------------------- MODULE BridgePollingProofs -------------------------
(***************************************************************************)
(* For any number of payments, withdrawals and blocks, and any limit: what *)
(* the activity list shows is true, and complete unless a fetch was        *)
(* overtaken by a block, whatever fails; and each payment is reported once *)
(* at most, where storage works and the list is not crowded.               *)
(***************************************************************************)
EXTENDS BridgePolling, FiniteSetTheorems, TLAPS

\* A payment is in a block or it is nowhere.
LEMMA PaymentPlace ==
    ASSUME TypeOK, NEW p \in Payments
    PROVE  Place(p) = mined[p] /\ p \notin reverted
  BY ActivityAssumption DEF TypeOK, Place

ChainStep == MineBlock \/ \E t \in Withdrawals : PreConfirm(t) \/ Reject(t)

\* What the sequencer has done with a transaction it does not undo: one that is
\* in a block or in the block under way stays there, with its effect or without.
LEMMA ChainMoves ==
    ASSUME TypeOK, ChainInv, ChainStep
    PROVE  /\ UNCHANGED <<submitted, list, step, scan>>
           /\ head \in Nat /\ head' \in head .. MaxBlocks
           /\ mined' \in [Txs -> 0 .. MaxBlocks]
           /\ underway' \subseteq Withdrawals
           /\ reverted \subseteq reverted' /\ reverted' \subseteq Withdrawals
           /\ rejected \subseteq rejected' /\ rejected' \subseteq Withdrawals
           /\ ChainInv'
           /\ \A t \in Txs :
                 /\ mined[t] > 0 => mined'[t] = mined[t]
                 /\ mined[t] = 0 => mined'[t] = 0 \/ mined'[t] > head
                 /\ Place(t) > 0 =>
                       Place(t)' = Place(t) /\ (t \in reverted' => t \in reverted)
                 /\ t \in Withdrawals /\ mined'[t] > 0 =>
                       mined[t] > 0 \/ t \in submitted
<1>0. /\ head \in Nat /\ MaxBlocks \in Nat /\ Withdrawals \subseteq Txs
      /\ \A t \in Txs : mined[t] \in 0 .. MaxBlocks
  BY ActivityAssumption DEF TypeOK, Txs
<1>1. CASE MineBlock
  <2>1. PICK late \in SUBSET {t \in Payments \cup submitted : Waiting(t)} :
            /\ mined' = [t \in Txs |-> IF t \in late \cup underway
                                       THEN head' ELSE mined[t]]
            /\ \E failing \in SUBSET (late \cap Withdrawals) :
                   reverted' = reverted \cup failing
    BY <1>1 DEF MineBlock
  <2>2. PICK failing \in SUBSET (late \cap Withdrawals) :
            reverted' = reverted \cup failing
    BY <2>1
  <2>3. /\ head' = head + 1 /\ head < MaxBlocks /\ underway' = {}
        /\ UNCHANGED <<rejected, submitted, list, step, scan>>
    BY <1>1 DEF MineBlock
  <2>4. \A t \in late : mined[t] = 0 /\ t \notin underway /\ t \notin rejected
    BY <2>1 DEF Waiting
  <2>5. /\ late \subseteq Txs /\ underway \subseteq Txs
        /\ late \cap Withdrawals \subseteq submitted
    BY <2>1, ActivityAssumption DEF TypeOK, Txs
  <2>6. \A t \in underway : mined[t] = 0 /\ t \in submitted \ rejected
    BY DEF ChainInv
  <2>7. /\ \A t \in late \cup underway : mined'[t] = head + 1
        /\ \A t \in Txs \ (late \cup underway) : mined'[t] = mined[t]
    BY <2>1, <2>3, <2>5
  <2>8. mined' \in [Txs -> 0 .. MaxBlocks]
    BY <1>0, <2>1, <2>3
  <2>9. ChainInv'
    <3>1. \A t \in Txs : mined'[t] <= head'
      BY <1>0, <2>3, <2>7 DEF ChainInv
    <3>2. \A t \in reverted' : mined'[t] > 0
      <4> SUFFICES ASSUME NEW t \in reverted' PROVE mined'[t] > 0
        OBVIOUS
      <4>1. CASE t \in late \cup underway
        BY <1>0, <2>7, <4>1
      <4>2. CASE t \notin late \cup underway
        BY <1>0, <2>2, <2>7, <4>2 DEF ChainInv, TypeOK
      <4> QED
        BY <4>1, <4>2
    <3>3. \A t \in rejected : mined'[t] = 0
      BY <1>0, <2>4, <2>6, <2>7 DEF ChainInv, TypeOK
    <3> QED
      BY <2>3, <3>1, <3>2, <3>3 DEF ChainInv
  <2>10. ASSUME NEW t \in Txs
         PROVE  /\ mined[t] > 0 => mined'[t] = mined[t]
                /\ mined[t] = 0 => mined'[t] = 0 \/ mined'[t] > head
                /\ Place(t) > 0 =>
                      Place(t)' = Place(t) /\ (t \in reverted' => t \in reverted)
                /\ t \in Withdrawals /\ mined'[t] > 0 =>
                      mined[t] > 0 \/ t \in submitted
    <3>1. CASE t \in underway
      BY <1>0, <2>2, <2>3, <2>4, <2>6, <2>7, <3>1 DEF Place
    <3>2. CASE t \in late
      BY <1>0, <2>3, <2>4, <2>5, <2>7, <3>2 DEF Place
    <3>3. CASE t \notin late \cup underway
      BY <1>0, <2>2, <2>3, <2>7, <3>3 DEF Place
    <3> QED
      BY <3>1, <3>2, <3>3
  <2>11. reverted' \subseteq Withdrawals /\ reverted \subseteq reverted'
    BY <2>2 DEF TypeOK
  <2> QED
    BY <1>0, <2>3, <2>8, <2>9, <2>10, <2>11 DEF TypeOK
<1>2. ASSUME NEW t \in Withdrawals, PreConfirm(t) \/ Reject(t)
      PROVE  /\ UNCHANGED <<submitted, list, step, scan, head, mined>>
             /\ t \in submitted /\ Waiting(t)
             /\ underway' \subseteq underway \cup {t} /\ underway \subseteq underway'
             /\ reverted' \subseteq reverted \cup {t} /\ reverted \subseteq reverted'
             /\ rejected' \subseteq rejected \cup {t} /\ rejected \subseteq rejected'
             /\ underway' # underway => head < MaxBlocks /\ rejected' = rejected
             /\ reverted' # reverted => t \in underway'
             /\ rejected' # rejected => underway' = underway
  BY <1>2 DEF PreConfirm, Reject
<1>3. ASSUME NEW t \in Withdrawals, PreConfirm(t) \/ Reject(t)
      PROVE  /\ ChainInv'
             /\ \A u \in Txs : Place(u) > 0 =>
                   Place(u)' = Place(u) /\ (u \in reverted' => u \in reverted)
  <2>1. mined[t] = 0 /\ t \notin underway /\ t \notin rejected /\ t \in submitted
    BY <1>2, <1>3 DEF Waiting
  <2>2. ChainInv'
    BY <1>2, <1>3, <2>1 DEF ChainInv
  <2>3. Place(t) = 0
    BY <2>1 DEF Place
  <2>4. \A u \in Txs \ {t} : /\ u \in underway' <=> u \in underway
                            /\ u \in reverted' <=> u \in reverted
    BY <1>2, <1>3
  <2> QED
    BY <1>2, <1>3, <2>2, <2>3, <2>4 DEF Place
<1>4. CASE \E t \in Withdrawals : PreConfirm(t) \/ Reject(t)
  <2> PICK t \in Withdrawals : PreConfirm(t) \/ Reject(t)
    BY <1>4
  <2>1. \A u \in Txs : Place(u) > 0 =>
            Place(u)' = Place(u) /\ (u \in reverted' => u \in reverted)
    BY <1>3
  <2>2. ChainInv'
    BY <1>3
  <2>3. /\ UNCHANGED <<submitted, list, step, scan, head, mined>>
        /\ underway' \subseteq Withdrawals
        /\ reverted' \subseteq Withdrawals /\ reverted \subseteq reverted'
        /\ rejected' \subseteq Withdrawals /\ rejected \subseteq rejected'
    BY <1>2 DEF TypeOK
  <2>4. mined \in [Txs -> 0 .. MaxBlocks] /\ head \in 0 .. MaxBlocks
    BY DEF TypeOK
  <2> QED
    BY <1>0, <2>1, <2>2, <2>3, <2>4
<1> QED
  BY <1>1, <1>4 DEF ChainStep

\* What an entry says stays so.
LEMMA EntryStays ==
    ASSUME TypeOK, ChainInv, ChainStep,
           NEW e \in Entry, EntryTrue(e)
    PROVE  EntryTrue(e)'
<1>1. e.tx \in Txs /\ e.block \in Nat
  BY ActivityAssumption DEF Entry
<1>2. Place(e.tx) > 0 => /\ Place(e.tx)' = Place(e.tx)
                         /\ e.tx \in reverted' => e.tx \in reverted
  BY <1>1, ChainMoves
<1>3. reverted \subseteq reverted' /\ rejected \subseteq rejected'
  BY ChainMoves
<1> QED
  BY <1>1, <1>2, <1>3 DEF EntryTrue

\* The place of an event is its block.
LEMMA MinedPlace ==
    ASSUME TypeOK, ChainInv, NEW t \in Txs, mined[t] > 0
    PROVE  Place(t) = mined[t]
  BY DEF TypeOK, ChainInv, Place

\* What a query finds is true.
LEMMA EventsTrue ==
    ASSUME TypeOK, ChainInv,
           NEW type \in {"TransferIn", "Withdraw", "TransferOut"},
           NEW cached, NEW e \in Events(type, cached)
    PROVE  e \in Entry /\ EntryTrue(e)
<1>1. PICK t \in Txs : /\ e = Event(t, type)
                       /\ mined[t] > 0
                       /\ type \in EventTypes(t)
  BY DEF Events
<1>2. t \notin reverted
  BY <1>1 DEF EventTypes
<1>3. Place(t) = mined[t]
  BY <1>1, MinedPlace
<1> QED
  BY <1>1, <1>2, <1>3 DEF Event, Entry, EntryTrue, TypeOK

\* What is made of a receipt, final or not, is true of the transaction.
LEMMA StatusTrue ==
    ASSUME TypeOK, ChainInv, NEW t \in Txs, NEW answer \in TxStatus(t)
    PROVE  /\ answer.status \in {"Pending", "Confirmed", "Failed"}
           /\ answer.block \in 0 .. MaxBlocks
           /\ answer.block > 0 => answer.block = Place(t)
           /\ answer.status = "Confirmed" => Place(t) > 0 /\ t \notin reverted
           /\ answer.status = "Failed" => t \in reverted \cup rejected
<1>0. /\ mined[t] \in 0 .. MaxBlocks /\ head \in 0 .. MaxBlocks
      /\ MaxBlocks \in Nat
  BY ActivityAssumption DEF TypeOK
<1>1. CASE mined[t] > 0
  <2>1. answer.status = Outcome(t) /\ answer.block = mined[t]
    BY <1>1 DEF TxStatus, Answer
  <2> QED
    BY <1>0, <1>1, <2>1, MinedPlace DEF Outcome
<1>2. CASE ~(mined[t] > 0)
  <2>1. CASE answer.status = "Pending" /\ answer.block = 0
    BY <1>0, <2>1
  <2>2. CASE t \in rejected /\ answer.status = "Failed" /\ answer.block = 0
    BY <1>0, <2>2
  <2>3. CASE /\ t \in underway /\ answer.block \in {0, head + 1}
             /\ answer.status \in IF t \in reverted THEN {"Failed"}
                                                  ELSE {"Pending", "Confirmed"}
    <3>1. head < MaxBlocks
      BY <2>3 DEF ChainInv
    <3>2. Place(t) = head + 1
      BY <2>3 DEF Place
    <3> QED
      BY <1>0, <2>3, <3>1, <3>2
  <2>4. \/ answer \in NotFound
        \/ t \in rejected /\ answer \in Answer({"Failed"}, {0})
        \/ t \in underway /\ answer \in Answer(IF t \in reverted THEN {"Failed"}
                                                ELSE {"Pending", "Confirmed"},
                                              {0, head + 1})
    BY <1>2 DEF TxStatus
  <2> QED
    BY <2>1, <2>2, <2>3, <2>4 DEF NotFound, Answer
<1> QED
  BY <1>1, <1>2

\* A receipt makes an entry say what has become of its transaction.
LEMMA ReceiptTrue ==
    ASSUME TypeOK, ChainInv, NEW e \in Entry, EntryTrue(e),
           NEW answer \in TxStatus(e.tx)
    PROVE  WithReceipt(e, answer) \in Entry /\ EntryTrue(WithReceipt(e, answer))
<1> DEFINE block == IF e.block = 0 THEN answer.block ELSE e.block
<1>1. e.tx \in Txs /\ e.block \in 0 .. MaxBlocks
  BY DEF Entry
<1>2. /\ answer.status \in {"Pending", "Confirmed", "Failed"}
      /\ answer.block \in 0 .. MaxBlocks
      /\ answer.block > 0 => answer.block = Place(e.tx)
      /\ answer.status = "Confirmed" => Place(e.tx) > 0 /\ e.tx \notin reverted
      /\ answer.status = "Failed" => e.tx \in reverted \cup rejected
  BY <1>1, StatusTrue
<1>3. WithReceipt(e, answer) = [e EXCEPT !.status = answer.status, !.block = block]
  BY DEF WithReceipt
<1>4. block \in 0 .. MaxBlocks /\ (block > 0 => block = Place(e.tx))
  BY <1>1, <1>2 DEF EntryTrue
<1> HIDE DEF block
<1> QED
  BY <1>1, <1>2, <1>3, <1>4 DEF Entry, EntryTrue

\* A fetch that goes on: the merged entries and the receipts.
LEMMA FetchingKeeps ==
    ASSUME FeedInv, Fetching, UNCHANGED bridgeVars
    PROVE  FeedInv'
<1> USE DEF FeedInv
<1>0. /\ scan \in Scan
      /\ \A e \in InHand(scan) : e \in Entry /\ EntryTrue(e)
  BY DEF TypeOK, Scan, ScanTrue, InHand
<1>1. UNCHANGED <<chainVars, list>>
  BY DEF Fetching, Query1, Query2, Receipts, Receipt, AskOrStore, Goto
<1>2. ASSUME NEW e \in Entry, EntryTrue(e)
      PROVE  EntryTrue(e)'
  BY <1>1, <1>2 DEF EntryTrue, Place, chainVars
<1>3. scan' \in Scan /\ \A e \in InHand(scan') : EntryTrue(e)
  <2>1. CASE Query1
    <3> DEFINE found == Events("TransferIn", scan.cached)
                          \cup Events("Withdraw", scan.cached)
    <3>1. scan' = [scan EXCEPT !.head = head, !.new = found]
      BY <2>1 DEF Query1
    <3>2. \A e \in found : e \in Entry /\ EntryTrue(e)
      BY EventsTrue
    <3>3. head \in 0 .. MaxBlocks
      BY DEF TypeOK
    <3> HIDE DEF found
    <3> QED
      BY <1>0, <3>1, <3>2, <3>3 DEF Scan, InHand
  <2>2. CASE Query2
    <3> DEFINE found == scan.new \cup Events("TransferOut", scan.cached)
               merged == Merge(MergeFees(found), scan.cached)
               todo == {e \in merged : Open(e)}
    <3>1. scan' = [scan EXCEPT !.new = merged, !.todo = todo]
      BY <2>2 DEF Query2
    <3>2. \A e \in found : e \in Entry /\ EntryTrue(e)
      BY <1>0, EventsTrue DEF InHand
    <3>3. merged \subseteq found \cup scan.cached
      BY DEF Merge, MergeFees
    <3>4. todo \subseteq merged
      OBVIOUS
    <3> HIDE DEF found, merged, todo
    <3> QED
      BY <1>0, <3>1, <3>2, <3>3, <3>4 DEF Scan, InHand
  <2>3. CASE Receipts
    <3>1. PICK e \in scan.todo :
              \/ \E a \in TxStatus(e.tx) : Receipt(e, WithReceipt(e, a))
              \/ Receipt(e, e)
      BY <2>3 DEF Receipts
    <3> PICK answer : /\ Receipt(e, answer)
                      /\ \/ \E a \in TxStatus(e.tx) : answer = WithReceipt(e, a)
                         \/ answer = e
      BY <3>1
    <3>2. e \in Entry /\ EntryTrue(e)
      BY <1>0 DEF InHand
    <3>3. answer \in Entry /\ EntryTrue(answer)
      BY <3>2, ReceiptTrue
    <3>4. scan' = [scan EXCEPT !.new = (@ \ {e}) \cup {answer}, !.todo = @ \ {e}]
      BY DEF Receipt
    <3> QED
      BY <1>0, <3>3, <3>4 DEF Scan, InHand
  <2> QED
    BY <2>1, <2>2, <2>3 DEF Fetching
<1>4. TypeOK'
  <2>1. step' \in {"query2", "receipts", "store"}
    BY DEF Fetching, Query1, Query2, Receipts, Receipt, AskOrStore, Goto
  <2> QED
    BY <1>1, <1>3, <2>1 DEF TypeOK, chainVars, bridgeVars
<1>5. ChainInv'
  BY <1>1 DEF ChainInv, chainVars
<1>6. ListTrue'
  BY <1>1, <1>2 DEF ListTrue, TypeOK
<1>7. ScanTrue'
  BY <1>2, <1>3 DEF ScanTrue, Scan, InHand
<1> QED
  BY <1>4, <1>5, <1>6, <1>7

\* A step of the chain: nothing that is known of it changes.
LEMMA ChainStepKeeps ==
    ASSUME FeedInv, ChainStep, UNCHANGED bridgeVars
    PROVE  FeedInv'
<1> USE DEF FeedInv
<1>1. UNCHANGED <<submitted, list, step, scan>> /\ ChainInv'
  BY ChainMoves
<1>2. TypeOK'
  <2>1. /\ head' \in 0 .. MaxBlocks
        /\ mined' \in [Txs -> 0 .. MaxBlocks]
        /\ underway' \subseteq Withdrawals
        /\ reverted' \subseteq Withdrawals
        /\ rejected' \subseteq Withdrawals
    BY ChainMoves, ActivityAssumption
  <2> QED
    BY <1>1, <2>1 DEF TypeOK, bridgeVars
<1>3. \A e \in Entry : EntryTrue(e) => EntryTrue(e)'
  BY EntryStays
<1>4. ListTrue'
  BY <1>1, <1>3 DEF ListTrue, TypeOK
<1>5. ScanTrue'
  BY <1>1, <1>3 DEF ScanTrue, TypeOK, Scan, InHand
<1> QED
  BY <1>1, <1>2, <1>4, <1>5

\* What is kept of a list is in it.
LEMMA NewestAreEntries ==
    ASSUME NEW entries
    PROVE  Newest(entries) \subseteq entries
  BY DEF Newest

\* A stored list is the new one, the old one or none.
LEMMA StoredIsTrue ==
    ASSUME ListTrue, list \subseteq Entry,
           NEW entries \in SUBSET Entry, \A e \in entries : EntryTrue(e),
           Stored(entries)
    PROVE  list' \subseteq Entry /\ \A e \in list' : EntryTrue(e)
  BY DEF Stored, ListTrue

\* Steps that change neither the chain nor the list keep all of it when what
\* the fetch has in hand is true.
LEMMA QuietStepKeeps ==
    ASSUME FeedInv, TypeOK', UNCHANGED <<chainVars, list>>,
           \A e \in InHand(scan') : EntryTrue(e)
    PROVE  FeedInv'
<1>1. \A e : EntryTrue(e)' <=> EntryTrue(e)
  BY DEF EntryTrue, Place, chainVars
<1>2. ChainInv' /\ ListTrue'
  BY <1>1 DEF FeedInv, ChainInv, ListTrue, chainVars
<1>3. ScanTrue'
  BY <1>1 DEF ScanTrue
<1> QED
  BY <1>2, <1>3 DEF FeedInv

\* A fetch begins with what the storage holds, or with nothing.
LEMMA StartFetchLoads ==
    ASSUME FeedInv, StartFetch
    PROVE  /\ scan' \in Scan
           /\ \A e \in InHand(scan') : EntryTrue(e)
           /\ step' = "query1"
           /\ UNCHANGED <<chainVars, list>>
<1>1. PICK cached \in Loaded : scan' = [NoScan EXCEPT !.cached = cached]
  BY DEF StartFetch
<1>2. cached = list \/ cached = {}
  BY DEF Loaded
<1>3. scan' = [cached |-> cached, new |-> {}, todo |-> {}, head |-> 0]
  BY <1>1 DEF NoScan
<1>4. list \subseteq Entry /\ \A e \in list : EntryTrue(e)
  BY DEF FeedInv, TypeOK, ListTrue
<1>5. 0 \in 0 .. MaxBlocks
  BY ActivityAssumption
<1> QED
  BY <1>2, <1>3, <1>4, <1>5 DEF StartFetch, Goto, Scan, InHand

\* The bridge's steps that leave the chain and the list alone.
LEMMA BridgeStepKeeps ==
    ASSUME FeedInv,
           \/ Unlock \/ StartPolling \/ StartLock \/ Lock
           \/ PollIdle \/ PollStart \/ AfterRefresh \/ AppFetch \/ Report
    PROVE  FeedInv'
<1>0. \A e \in InHand(scan) : EntryTrue(e)
  BY DEF FeedInv, ScanTrue
<1>1. CASE Unlock \/ StartPolling \/ StartLock \/ Lock \/ PollIdle
  <2>1. TypeOK' /\ UNCHANGED <<chainVars, list, scan>>
    BY <1>1 DEF FeedInv, TypeOK, Unlock, StartPolling, StartLock, Lock, PollIdle,
                Goto, Histories, cacheVars, chainVars
  <2> QED
    BY <1>0, <2>1, QuietStepKeeps
<1>2. CASE PollStart
  <2>1. known' \subseteq Txs
    BY <1>2 DEF PollStart, Loaded, FeedInv, TypeOK, Entry
  <2>2. TypeOK' /\ UNCHANGED <<chainVars, list, scan>>
    BY <1>2, <2>1 DEF FeedInv, TypeOK, PollStart, Goto, Histories, chainVars
  <2> QED
    BY <1>0, <2>2, QuietStepKeeps
<1>3. CASE AfterRefresh
  <2>1. CASE first \/ ~unlocked
    <3>1. TypeOK' /\ UNCHANGED <<chainVars, list, scan>>
      BY <1>3, <2>1 DEF FeedInv, TypeOK, AfterRefresh, Goto, Histories, chainVars
    <3> QED
      BY <1>0, <3>1, QuietStepKeeps
  <2>2. CASE ~(first \/ ~unlocked)
    <3>1. StartFetch
      BY <1>3, <2>2 DEF AfterRefresh
    <3>2. TypeOK'
      BY <1>3, <3>1, StartFetchLoads DEF FeedInv, TypeOK, AfterRefresh, Histories, chainVars
    <3> QED
      BY <3>1, <3>2, StartFetchLoads, QuietStepKeeps
  <2> QED
    BY <2>1, <2>2
<1>4. CASE AppFetch
  <2>1. StartFetch
    BY <1>4 DEF AppFetch
  <2>2. TypeOK'
    BY <1>4, <2>1, StartFetchLoads DEF FeedInv, TypeOK, AppFetch, Histories, chainVars
  <2> QED
    BY <2>1, <2>2, StartFetchLoads, QuietStepKeeps
<1>5. CASE Report
  <2>1. notified' \in [Payments -> Nat]
    BY <1>5 DEF Report, FeedInv, TypeOK
  <2>2. TypeOK' /\ UNCHANGED <<chainVars, list, scan>>
    BY <1>5, <2>1 DEF FeedInv, TypeOK, Report, Goto, chainVars
  <2> QED
    BY <1>0, <2>2, QuietStepKeeps
<1> QED
  BY <1>1, <1>2, <1>3, <1>4, <1>5

\* What get_activity returns is true, and the poll thread keeps part of it.
LEMMA ReturnKeeps ==
    ASSUME FeedInv, Return(Returned), overtaken' \in BOOLEAN,
           list' \subseteq Entry, \A e \in list' : EntryTrue(e)
    PROVE  FeedInv'
<1>1. scan.new \subseteq Entry /\ scan.cached \subseteq Entry
  BY DEF FeedInv, TypeOK, Scan
<1>2. Returned \subseteq Entry
  BY <1>1, NewestAreEntries DEF Returned
<1>3. fresh' \subseteq Entry
  BY <1>2 DEF Return, Unseen, FeedInv, TypeOK
<1>4. scan' = [cached |-> {}, new |-> {}, todo |-> {}, head |-> 0] /\ scan' \in Scan
  BY ActivityAssumption DEF Return, NoScan, Scan
<1>5. step' \in {"report", "free"}
  BY DEF Return
<1>6. TypeOK'
  BY <1>3, <1>4, <1>5 DEF FeedInv, TypeOK, Return, chainVars
<1>7. UNCHANGED chainVars
  BY DEF Return
<1>8. ListTrue'
  BY <1>7 DEF ListTrue, EntryTrue, Place, chainVars
<1>9. ScanTrue'
  BY <1>4 DEF ScanTrue, InHand
<1>10. ChainInv'
  BY <1>7 DEF FeedInv, ChainInv, chainVars
<1> QED
  BY <1>6, <1>8, <1>9, <1>10 DEF FeedInv

\* The end of a fetch, however it ends.
LEMMA EndOfFetchKeeps ==
    ASSUME FeedInv, Store \/ FetchFails
    PROVE  FeedInv'
<1>0. /\ list \subseteq Entry /\ \A e \in list : EntryTrue(e)
      /\ scan.new \subseteq Entry /\ \A e \in scan.new : EntryTrue(e)
  BY DEF FeedInv, TypeOK, Scan, ListTrue, ScanTrue, InHand
<1>1. CASE Store
  <2>1. Newest(scan.new) \subseteq scan.new
    BY NewestAreEntries
  <2>2. list' \subseteq Entry /\ \A e \in list' : EntryTrue(e)
    BY <1>0, <1>1, <2>1 DEF Store, Stored
  <2>3. overtaken' \in BOOLEAN
    BY <1>1 DEF Store, FeedInv, TypeOK
  <2> QED
    BY <1>1, <2>2, <2>3, ReturnKeeps DEF Store
<1>2. CASE FetchFails
  <2>1. list' \subseteq Entry /\ \A e \in list' : EntryTrue(e)
    BY <1>0, <1>2 DEF FetchFails
  <2>2. overtaken' \in BOOLEAN
    BY <1>2 DEF FetchFails, FeedInv, TypeOK
  <2> QED
    BY <1>2, <2>1, <2>2, ReturnKeeps DEF FetchFails
<1> QED
  BY <1>1, <1>2

\* The entry a withdrawal adds before it is mined claims nothing.
LEMMA WithdrawKeeps ==
    ASSUME FeedInv, NEW t \in Withdrawals, Withdraw(t), UNCHANGED bridgeVars
    PROVE  FeedInv'
<1>0. list \subseteq Entry /\ \A e \in list : EntryTrue(e)
  BY DEF FeedInv, TypeOK, ListTrue
<1> DEFINE entry == [tx |-> t, type |-> "Withdraw", block |-> 0,
                     status |-> "Pending"]
<1>1. entry \in Entry /\ EntryTrue(entry)
  BY ActivityAssumption DEF Entry, EntryTrue, Txs
<1>2. list' \subseteq Entry /\ \A e \in list' : EntryTrue(e)
  <2>1. CASE UNCHANGED list
    BY <1>0, <2>1
  <2>2. CASE \E cached \in Loaded : Stored(Newest(cached \cup {entry}))
    <3>1. PICK cached \in Loaded : Stored(Newest(cached \cup {entry}))
      BY <2>2
    <3>2. cached \in {list, {}}
      BY DEF Loaded
    <3>3. Newest(cached \cup {entry}) \subseteq cached \cup {entry}
      BY NewestAreEntries
    <3> QED
      BY <1>0, <1>1, <3>1, <3>2, <3>3 DEF Stored
  <2> QED
    BY <2>1, <2>2 DEF Withdraw, Submit
<1>3. /\ UNCHANGED <<head, mined, underway, reverted, rejected, step, scan>>
      /\ submitted' \subseteq Withdrawals /\ submitted \subseteq submitted'
  BY DEF Withdraw, Submit, FeedInv, TypeOK
<1>4. TypeOK'
  BY <1>2, <1>3 DEF FeedInv, TypeOK, bridgeVars
<1>5. ChainInv' /\ ListTrue' /\ ScanTrue'
  BY <1>2, <1>3 DEF FeedInv, ChainInv, ListTrue, ScanTrue, EntryTrue, Place
<1> QED
  BY <1>4, <1>5 DEF FeedInv

\* A process that dies leaves the list true, wherever it was.
LEMMA CrashKeeps ==
    ASSUME FeedInv, Crash
    PROVE  FeedInv'
<1>1. list' \in {list, {}} /\ UNCHANGED chainVars
  BY DEF Crash, AfterFailedStore
<1>2. scan' = [cached |-> {}, new |-> {}, todo |-> {}, head |-> 0] /\ scan' \in Scan
  BY ActivityAssumption DEF Crash, NoScan, Scan
<1>3. crashes' \in 0 .. MaxCrashes
  BY PollingAssumption DEF Crash, FeedInv, TypeOK
<1>4. TypeOK'
  BY <1>1, <1>2, <1>3 DEF Crash, FeedInv, TypeOK, chainVars
<1>5. ChainInv' /\ ListTrue' /\ ScanTrue'
  BY <1>1, <1>2 DEF FeedInv, ChainInv, ListTrue, ScanTrue, EntryTrue, Place, chainVars,
                    InHand
<1> QED
  BY <1>4, <1>5 DEF FeedInv

\* A wallet that starts with an empty list shows nothing false.
LEMMA FeedInit == Init => FeedInv
<1> SUFFICES ASSUME Init PROVE FeedInv
  OBVIOUS
<1>1. scan = [cached |-> {}, new |-> {}, todo |-> {}, head |-> 0] /\ scan \in Scan
  BY ActivityAssumption DEF Init, CacheInit, NoScan, Scan
<1>2. TypeOK
  <2>1. 0 \in 0 .. MaxBlocks /\ 0 \in 0 .. MaxCrashes
    BY ActivityAssumption, PollingAssumption
  <2>2. mined \in [Txs -> 0 .. MaxBlocks] /\ notified \in [Payments -> Nat]
    BY <2>1 DEF Init, CacheInit
  <2> QED
    BY <1>1, <2>1, <2>2 DEF Init, CacheInit, TypeOK
<1>3. ChainInv /\ ListTrue /\ ScanTrue
  BY <1>1 DEF Init, CacheInit, ChainInv, ListTrue, ScanTrue, InHand
<1> QED
  BY <1>2, <1>3 DEF FeedInv

\* Every step of the bridge, the wallet and the chain keeps the invariant.
LEMMA FeedStep == FeedInv /\ [Next]_vars => FeedInv'
<1> SUFFICES ASSUME FeedInv, [Next]_vars PROVE FeedInv'
  OBVIOUS
<1>1. CASE ChainStep /\ UNCHANGED bridgeVars
  BY <1>1, ChainStepKeeps
<1>2. CASE Fetching /\ UNCHANGED bridgeVars
  BY <1>2, FetchingKeeps
<1>3. CASE (\E t \in Withdrawals : Withdraw(t)) /\ UNCHANGED bridgeVars
  BY <1>3, WithdrawKeeps
<1>4. CASE \/ Unlock \/ StartPolling \/ StartLock \/ Lock
           \/ PollIdle \/ PollStart \/ AfterRefresh \/ AppFetch \/ Report
  BY <1>4, BridgeStepKeeps
<1>5. CASE Store \/ FetchFails
  BY <1>5, EndOfFetchKeeps
<1>6. CASE Crash
  BY <1>6, CrashKeeps
<1>7. CASE UNCHANGED vars
  <2>1. UNCHANGED <<chainVars, list, scan>> /\ TypeOK'
    BY <1>7 DEF FeedInv, TypeOK, vars, cacheVars, chainVars, bridgeVars
  <2> QED
    BY <2>1, QuietStepKeeps DEF FeedInv, ScanTrue
<1> QED
  BY <1>1, <1>2, <1>3, <1>4, <1>5, <1>6, <1>7 DEF Next, ChainStep

\* The list, and what a fetch under way has in hand, agree with the chain in
\* every state: the inductive invariant of the poll thread and get_activity.
THEOREM FeedInvariance == Spec => []FeedInv
  BY FeedInit, FeedStep, PTL DEF Spec

\* An entry the activity list shows as confirmed has had its effect and is in
\* the block it names, if it names one, or will be; one it shows as failed
\* reverted or was rejected: get_activity's queries and receipts read the chain at
\* different heads, before a block is final and after, and fail, and are overtaken
\* by locks and process deaths, without ever making it lie.
THEOREM ListIsTrue == Spec => []ListTrue
<1>1. FeedInv => ListTrue
  BY DEF FeedInv
<1> QED
  BY <1>1, FeedInvariance, PTL

-----------------------------------------------------------------------------
(* The order of the list and its truncation *)

\* A finite set that a transitive and irreflexive relation orders has a minimal
\* element.
LEMMA MinimalElement ==
    ASSUME NEW S, IsFiniteSet(S), S # {}, NEW R,
           \A x \in S : <<x, x>> \notin R,
           \A x, y, z \in S : <<x, y>> \in R /\ <<y, z>> \in R => <<x, z>> \in R
    PROVE  \E x \in S : \A y \in S : <<y, x>> \notin R
<1> DEFINE below(x) == {y \in S : <<y, x>> \in R}
           lower == {below(x) : x \in S}
<1>1. IsWellFoundedOn(StrictSubsetOrdering(S), SUBSET S)
  BY FS_StrictSubsetOrderingWellFounded, FS_FiniteSubsetsOfFinite
<1>2. lower \subseteq SUBSET S /\ lower # {}
  <2>1. PICK s \in S : TRUE
    OBVIOUS
  <2>2. below(s) \in lower
    OBVIOUS
  <2>3. lower \subseteq SUBSET S
    OBVIOUS
  <2> QED
    BY <2>2, <2>3
<1>3. PICK low \in lower : \A s \in lower : <<s, low>> \notin StrictSubsetOrdering(S)
  <2> HIDE DEF lower
  <2> QED
    BY <1>1, <1>2, WFMin
<1>4. PICK x \in S : low = below(x)
  BY <1>3
<1>5. ASSUME NEW y \in S, <<y, x>> \in R
      PROVE  FALSE
  <2>1. below(y) \in lower
    OBVIOUS
  <2>2. below(y) \subseteq below(x)
    BY <1>5
  <2>3. y \in below(x) /\ y \notin below(y)
    BY <1>5
  <2>4. <<below(y), below(x)>> \in StrictSubsetOrdering(S)
    BY <2>2, <2>3 DEF StrictSubsetOrdering
  <2> QED
    BY <1>3, <1>4, <2>1, <2>4
<1> QED
  BY <1>5

\* Of two entries of S one comes before the other.
TotalOn(S) == \A d, e \in S : d = e \/ Before(d, e) \/ Before(e, d)

\* The order of the list is a strict one.
LEMMA BeforeIsAnOrder ==
    /\ \A a \in Entry : ~Before(a, a)
    /\ \A a, b, c \in Entry : Before(a, b) /\ Before(b, c) => Before(a, c)
<1>1. ASSUME NEW e \in Entry
      PROVE  /\ e.tx \in Nat /\ e.block \in Nat
             /\ Height(e) \in Nat
             /\ e.block # 0 => Height(e) = e.block /\ e.block <= MaxBlocks
             /\ e.block = 0 => Height(e) = MaxBlocks + 1
  <2>1. e.tx \in Txs /\ e.block \in 0 .. MaxBlocks
    BY DEF Entry
  <2>2. e.tx \in Nat /\ MaxBlocks \in Nat
    BY <2>1, ActivityAssumption
  <2> QED
    BY <2>1, <2>2 DEF Height
<1>2. \A a \in Entry : ~Before(a, a)
  BY <1>1 DEF Before
<1>3. ASSUME NEW a \in Entry, NEW b \in Entry, NEW c \in Entry, Before(a, b), Before(b, c)
      PROVE  Before(a, c)
  <2>1. CASE Height(a) > Height(b) \/ Height(b) > Height(c)
    <3>1. Height(a) > Height(c)
      BY <1>1, <1>3, <2>1 DEF Before
    <3> QED
      BY <3>1 DEF Before
  <2>2. CASE Height(a) = Height(b) /\ Height(b) = Height(c)
    <3>1. a.block = b.block /\ b.block = c.block
      BY <1>1, <2>2, ActivityAssumption
    <3> QED
      BY <1>1, <1>3, <2>2, <3>1 DEF Before
  <2> QED
    BY <1>1, <1>3, <2>1, <2>2 DEF Before
<1> QED
  BY <1>2, <1>3

\* Some entries have a first and a last among them.
LEMMA FirstAndLast ==
    ASSUME NEW S \in SUBSET Entry, IsFiniteSet(S), S # {}
    PROVE  /\ \E x \in S : \A y \in S : ~Before(y, x)
           /\ \E x \in S : \A y \in S : ~Before(x, y)
<1> DEFINE R == {p \in S \X S : Before(p[1], p[2])}
           Q == {p \in S \X S : Before(p[2], p[1])}
<1>1. \A x, y \in S : /\ <<x, y>> \in R <=> Before(x, y)
                      /\ <<x, y>> \in Q <=> Before(y, x)
  OBVIOUS
<1> HIDE DEF R, Q
<1>2. /\ \A x \in S : ~Before(x, x)
      /\ \A x, y, z \in S : Before(x, y) /\ Before(y, z) => Before(x, z)
  BY BeforeIsAnOrder
<1>3. \E x \in S : \A y \in S : <<y, x>> \notin R
  <2>1. \A x, y, z \in S : <<x, y>> \in R /\ <<y, z>> \in R => <<x, z>> \in R
    BY <1>1, <1>2
  <2>2. \A x \in S : <<x, x>> \notin R
    BY <1>1, <1>2
  <2> QED
    BY <2>1, <2>2, MinimalElement
<1>4. \E x \in S : \A y \in S : <<y, x>> \notin Q
  <2>1. \A x, y, z \in S : <<x, y>> \in Q /\ <<y, z>> \in Q => <<x, z>> \in Q
    BY <1>1, <1>2
  <2>2. \A x \in S : <<x, x>> \notin Q
    BY <1>1, <1>2
  <2> QED
    BY <2>1, <2>2, MinimalElement
<1> QED
  BY <1>1, <1>3, <1>4

\* What truncation keeps comes before what it drops.
LEMMA NewestIsASegment ==
    ASSUME NEW S \in SUBSET Entry, IsFiniteSet(S), TotalOn(S)
    PROVE  \A e \in Newest(S) : \A x \in S \ Newest(S) : Before(e, x)
<1> SUFFICES ASSUME NEW e \in Newest(S), NEW x \in S \ Newest(S), Before(x, e)
             PROVE  FALSE
  BY DEF TotalOn, Newest
<1> DEFINE before(y) == {d \in S : Before(d, y)}
<1>1. before(x) \subseteq before(e)
  BY BeforeIsAnOrder DEF Newest
<1>2. IsFiniteSet(before(e)) /\ IsFiniteSet(before(x))
  BY FS_Subset
<1>3. Cardinality(before(x)) <= Cardinality(before(e))
  BY <1>1, <1>2, FS_Subset
<1>4. Cardinality(before(e)) \in Nat /\ Cardinality(before(x)) \in Nat
  BY <1>2, FS_CardinalityType
<1>5. Cardinality(before(e)) < Limit /\ ~(Cardinality(before(x)) < Limit)
  BY DEF Newest
<1> QED
  BY <1>3, <1>4, <1>5, ActivityAssumption

\* Truncation keeps everything or exactly Limit entries.
LEMMA NewestCount ==
    ASSUME NEW S \in SUBSET Entry, IsFiniteSet(S), TotalOn(S)
    PROVE  /\ IsFiniteSet(Newest(S))
           /\ Cardinality(Newest(S)) \in Nat
           /\ Cardinality(Newest(S)) <= Limit
           /\ Newest(S) = S \/ Cardinality(Newest(S)) = Limit
<1> DEFINE before(y) == {d \in S : Before(d, y)}
<1>1. \A y \in S : IsFiniteSet(before(y)) /\ Cardinality(before(y)) \in Nat
  BY FS_Subset, FS_CardinalityType
<1>2. \A y \in S : y \in Newest(S) <=> Cardinality(before(y)) < Limit
  BY DEF Newest
<1>3. Newest(S) \subseteq S /\ Limit \in Nat \ {0}
  BY ActivityAssumption DEF Newest
<1> DEFINE kept == Newest(S)
<1>4. IsFiniteSet(kept) /\ Cardinality(kept) \in Nat
  BY <1>3, FS_Subset, FS_CardinalityType
<1>5. \A e \in kept : \A x \in S \ kept : Before(e, x)
  BY NewestIsASegment
<1> HIDE DEF before, kept
<1>6. Cardinality(kept) <= Limit
  <2>1. CASE kept = {}
    BY <1>3, <2>1, FS_EmptySet
  <2>2. CASE kept # {}
    <3>1. PICK last \in kept : \A y \in kept : ~Before(last, y)
      BY <1>3, <1>4, <2>2, FirstAndLast DEF kept
    <3>2. kept \subseteq before(last) \cup {last}
      BY <1>3, <3>1 DEF TotalOn, before, kept
    <3>3. last \in S /\ last \in Newest(S)
      BY <1>3 DEF kept
    <3>4. /\ IsFiniteSet(before(last) \cup {last})
          /\ Cardinality(before(last) \cup {last}) <= Cardinality(before(last)) + 1
          /\ Cardinality(before(last) \cup {last}) \in Nat
      <4>1. IsFiniteSet(before(last)) /\ Cardinality(before(last)) \in Nat
        BY <1>1, <3>3
      <4>2. /\ IsFiniteSet(before(last) \cup {last})
            /\ Cardinality(before(last) \cup {last}) =
                 IF last \in before(last) THEN Cardinality(before(last))
                                          ELSE Cardinality(before(last)) + 1
        BY <4>1, FS_AddElement
      <4> QED
        BY <4>1, <4>2
    <3>5. Cardinality(kept) <= Cardinality(before(last) \cup {last})
      BY <3>2, <3>4, FS_Subset
    <3>6. Cardinality(before(last)) < Limit
      BY <1>2, <3>3
    <3> QED
      BY <1>1, <1>3, <1>4, <3>3, <3>4, <3>5, <3>6
  <2> QED
    BY <2>1, <2>2
<1>7. ASSUME kept # S
      PROVE  Cardinality(kept) >= Limit
  <2>1. S \ kept # {} /\ S \ kept \in SUBSET Entry /\ IsFiniteSet(S \ kept)
    BY <1>3, <1>7, FS_Difference DEF kept
  <2>2. PICK next \in S \ kept : \A y \in S \ kept : ~Before(y, next)
    BY <2>1, FirstAndLast
  <2>3. before(next) \subseteq kept
    BY <2>2 DEF before
  <2>4. Cardinality(before(next)) <= Cardinality(kept)
    BY <1>4, <2>3, FS_Subset
  <2>5. ~(Cardinality(before(next)) < Limit)
    BY <1>2, <2>2 DEF kept
  <2> QED
    BY <1>1, <1>3, <1>4, <2>2, <2>4, <2>5
<1> QED
  BY <1>3, <1>4, <1>6, <1>7 DEF kept


\* There are finitely many entries.
LEMMA EntriesFinite == IsFiniteSet(Entry)
<1> DEFINE types == {"TransferIn", "Withdraw", "TransferOut"}
           states == {"Pending", "Confirmed", "Failed"}
           blocks == 0 .. MaxBlocks
           tuples == Txs \X (types \X (blocks \X states))
           entry == [q \in tuples |->
                        [tx |-> q[1], type |-> q[2][1], block |-> q[2][2][1],
                         status |-> q[2][2][2]]]
<1>1. IsFiniteSet(types) /\ IsFiniteSet(states)
  <2>1. /\ IsFiniteSet({"TransferIn"}) /\ IsFiniteSet({"Pending"})
    BY FS_Singleton
  <2>2. /\ IsFiniteSet({"TransferIn"} \cup {"Withdraw"})
        /\ IsFiniteSet({"Pending"} \cup {"Confirmed"})
    BY <2>1, FS_AddElement
  <2>3. /\ IsFiniteSet(({"TransferIn"} \cup {"Withdraw"}) \cup {"TransferOut"})
        /\ IsFiniteSet(({"Pending"} \cup {"Confirmed"}) \cup {"Failed"})
    BY <2>2, FS_AddElement
  <2>4. /\ types = ({"TransferIn"} \cup {"Withdraw"}) \cup {"TransferOut"}
        /\ states = ({"Pending"} \cup {"Confirmed"}) \cup {"Failed"}
    OBVIOUS
  <2> QED
    BY <2>3, <2>4
<1>2. IsFiniteSet(blocks) /\ IsFiniteSet(Txs)
  BY ActivityAssumption, FS_Interval
<1> HIDE DEF types, states, blocks
<1>3. IsFiniteSet(blocks \X states)
  BY <1>1, <1>2, FS_Product
<1>4. IsFiniteSet(types \X (blocks \X states))
  BY <1>1, <1>3, FS_Product
<1>5. IsFiniteSet(tuples)
  BY <1>2, <1>4, FS_Product
<1>6. entry \in [tuples -> Entry]
  <2>1. Entry = [tx : Txs, type : types, block : blocks, status : states]
    BY DEF Entry, types, blocks, states
  <2> QED
    BY <2>1
<1>7. \A e \in Entry : \E q \in tuples : entry[q] = e
  <2>1. SUFFICES ASSUME NEW e \in Entry PROVE \E q \in tuples : entry[q] = e
    OBVIOUS
  <2>2. /\ e.tx \in Txs /\ e.type \in types /\ e.block \in blocks /\ e.status \in states
        /\ e = [tx |-> e.tx, type |-> e.type, block |-> e.block, status |-> e.status]
    BY DEF Entry, types, blocks, states
  <2>3. <<e.tx, <<e.type, <<e.block, e.status>>>>>> \in tuples
    BY <2>2
  <2>4. entry[<<e.tx, <<e.type, <<e.block, e.status>>>>>>] = e
    BY <2>2, <2>3
  <2> QED
    BY <2>3, <2>4
<1>8. entry \in Surjection(tuples, Entry)
  BY <1>6, <1>7 DEF Surjection
<1> QED
  BY <1>5, <1>8, FS_Surjection

\* The two facts of truncation, for the sets of entries that the wallet sorts:
\* no two of the same transaction and type.
LEMMA Truncated ==
    ASSUME NEW S \in SUBSET Entry, UniqueKeys(S),
           \A e \in S : e.tx \in Payments <=> e.type = "TransferIn"
    PROVE  /\ Newest(S) \subseteq S
           /\ Cardinality(Newest(S)) <= Limit
           /\ Newest(S) = S \/ Cardinality(Newest(S)) = Limit
           /\ \A e \in Newest(S) : \A x \in S \ Newest(S) : Before(e, x)
<1>1. IsFiniteSet(S)
  BY EntriesFinite, FS_Subset
<1>2. TotalOn(S)
  <2> SUFFICES ASSUME NEW d \in S, NEW e \in S, d # e
               PROVE  Before(d, e) \/ Before(e, d)
    BY DEF TotalOn
  <2>1. /\ d.tx \in Nat /\ e.tx \in Nat /\ Height(d) \in Nat /\ Height(e) \in Nat
        /\ Height(d) = Height(e) => d.block = e.block
    <3>1. /\ d.tx \in Txs /\ d.block \in 0 .. MaxBlocks
          /\ e.tx \in Txs /\ e.block \in 0 .. MaxBlocks
      BY DEF Entry
    <3>2. d.tx \in Nat /\ e.tx \in Nat /\ MaxBlocks \in Nat
      BY <3>1, ActivityAssumption
    <3> QED
      BY <3>1, <3>2 DEF Height
  <2>2. CASE d.tx # e.tx \/ Height(d) # Height(e)
    BY <2>1, <2>2 DEF Before
  <2>3. CASE d.tx = e.tx /\ Height(d) = Height(e)
    <3>1. d.type # e.type
      BY <2>3 DEF UniqueKeys, SameKey
    <3>2. d.type # "TransferIn" /\ e.type # "TransferIn"
      BY <2>3, <3>1
    <3>3. d.type \in {"Withdraw", "TransferOut"} /\ e.type \in {"Withdraw", "TransferOut"}
      BY <3>2 DEF Entry
    <3> QED
      BY <2>3, <3>1, <3>3 DEF Before
  <2> QED
    BY <2>2, <2>3
<1> QED
  BY <1>1, <1>2, NewestCount, NewestIsASegment DEF Newest

\* A list with room for the entries of a full one is full.
LEMMA LargerIsFull ==
    ASSUME NEW S \in SUBSET Entry, NEW T \in SUBSET Entry,
           Cardinality(T) = Limit, Cardinality(S) <= Limit,
           NEW f \in [T -> S], \A d, e \in T : f[d] = f[e] => d = e
    PROVE  Cardinality(S) = Limit
<1>1. IsFiniteSet(S) /\ IsFiniteSet(T)
  BY EntriesFinite, FS_Subset
<1>2. f \in Injection(T, S)
  BY DEF Injection, IsInjective
<1>3. Cardinality(T) <= Cardinality(S)
  BY <1>1, <1>2, FS_Injection
<1> QED
  BY <1>1, <1>3, FS_CardinalityType, ActivityAssumption

-----------------------------------------------------------------------------
(* The list is complete: one lemma for each kind of step *)

\* The types and the shapes that the steps below need.
LEMMA CoverFacts ==
    ASSUME FeedInv, CoverInv
    PROVE  /\ list \subseteq Entry /\ scan \in Scan
           /\ scan.cached \subseteq Entry /\ scan.new \subseteq Entry
           /\ scan.todo \subseteq Entry
           /\ \A t \in Txs : mined[t] \in 0 .. head /\ mined[t] \in Nat
           /\ \A e \in list \cup InHand(scan) : EntryTrue(e) /\ EntryShaped(e)
           /\ \A e \in list : e.block <= head + 1
           /\ head \in Nat
           /\ \A e \in Entry : e.tx \in Txs /\ e.block \in Nat
<1>1. list \subseteq Entry /\ scan \in Scan
  BY DEF FeedInv, TypeOK
<1>2. /\ scan.cached \subseteq Entry /\ scan.new \subseteq Entry
      /\ scan.todo \subseteq Entry
  BY <1>1 DEF Scan
<1>3. \A t \in Txs : mined[t] \in 0 .. head /\ mined[t] \in Nat
  BY ActivityAssumption DEF FeedInv, TypeOK, ChainInv
<1>4. \A e \in list \cup InHand(scan) : EntryTrue(e) /\ EntryShaped(e)
  BY DEF FeedInv, ListTrue, ScanTrue, CoverInv, ShapeInv
<1>5. head \in Nat
  BY ActivityAssumption DEF FeedInv, TypeOK
<1>6. \A e \in Entry : e.tx \in Txs /\ e.block \in Nat
  BY ActivityAssumption DEF Entry
<1>7. \A e \in list : e.block <= head + 1
  BY <1>1, <1>3, <1>4, <1>5, <1>6 DEF EntryTrue, Place
<1> QED
  BY <1>1, <1>2, <1>3, <1>4, <1>5, <1>6, <1>7

\* A new block is not below what the list has, and above what the fetch has found.
LEMMA ChainStepCovers ==
    ASSUME FeedInv, CoverInv, ChainStep, UNCHANGED bridgeVars
    PROVE  CoverInv'
<1>0. TypeOK /\ ChainInv
  BY DEF FeedInv
<1>1. /\ reverted \subseteq reverted'
      /\ \A t \in Txs : /\ mined[t] > 0 => mined'[t] = mined[t]
                        /\ mined[t] = 0 => mined'[t] = 0 \/ mined'[t] > head
                        /\ t \in Withdrawals /\ mined'[t] > 0 =>
                              mined[t] > 0 \/ t \in submitted
      /\ \A t \in Txs : mined'[t] \in Nat
  BY <1>0, ChainMoves, ActivityAssumption
<1>2. /\ head' \in Nat /\ head <= head'
      /\ UNCHANGED <<submitted, list, step, scan>>
  BY <1>0, ChainMoves, ActivityAssumption
<1>3. head \in Nat /\ \A t \in Txs : mined[t] \in 0 .. head
  BY CoverFacts
<1>4. ASSUME NEW t \in Txs, Effective(t)', mined'[t] <= head
      PROVE  Effective(t) /\ mined'[t] = mined[t]
  BY <1>1, <1>3, <1>4 DEF Effective
<1>5. ShapeInv'
  <2>1. \A t \in Withdrawals : mined'[t] > 0 => t \in submitted
    <3> SUFFICES ASSUME NEW t \in Withdrawals, mined'[t] > 0 PROVE t \in submitted
      OBVIOUS
    <3>1. mined[t] > 0 \/ t \in submitted
      BY <1>1 DEF Txs
    <3> QED
      BY <3>1 DEF CoverInv, ShapeInv
  <2> QED
    BY <1>2, <2>1 DEF CoverInv, ShapeInv, EntryShaped, UniqueKeys, SameKey
<1>6. step \in FetchSteps => scan.cached \in Loaded /\ scan.head <= head
  BY DEF CoverInv, FetchInv
<1>7. ASSUME step \in FetchSteps, FoundAll PROVE FoundAll'
  <2> SUFFICES ASSUME NEW t \in Txs, Effective(t)', mined'[t] <= scan.head,
                      Scanned(mined'[t], scan.cached)
               PROVE  \E e \in scan.new : e.tx = t
    BY <1>2 DEF FoundAll, Scanned
  <2>1. mined'[t] <= head
    <3>1. scan.head \in Nat
      BY CoverFacts, ActivityAssumption DEF Scan
    <3>2. mined'[t] \in Nat
      BY <1>1, <1>2, <1>3
    <3> QED
      BY <1>3, <1>6, <1>7, <3>1, <3>2
  <2> QED
    BY <1>4, <1>7, <2>1 DEF FoundAll
<1>8. FetchInv'
  <2>1. (step \in FetchSteps => scan.cached \in Loaded /\ scan.head <= head)'
    <3>1. Loaded' = Loaded
      BY <1>2 DEF Loaded
    <3>2. step \in FetchSteps => scan.head \in Nat
      BY CoverFacts, ActivityAssumption DEF Scan
    <3> QED
      BY <1>2, <1>3, <1>6, <3>1, <3>2
  <2>2. QueriedInv'
    BY <1>2, <1>7 DEF CoverInv, FetchInv, QueriedInv, Scanned, FetchSteps
  <2>3. MergedInv'
    BY <1>2, <1>7 DEF CoverInv, FetchInv, MergedInv, Scanned, FetchSteps, SameKey
  <2> QED
    BY <2>1, <2>2, <2>3 DEF FetchInv
<1>9. Covered => Covered'
  <2> SUFFICES ASSUME Covered, NEW t \in Txs, Effective(t)',
                      NEW d \in list, mined'[t] < d.block
               PROVE  (\E e \in list : e.tx = t) \/ Cardinality(list) = Limit
    BY <1>2 DEF Covered
  <2>1. d.block \in Nat /\ d.block <= head + 1
    BY CoverFacts
  <2>2. mined'[t] \in Nat /\ mined'[t] <= head
    BY <1>1, <1>3, <2>1
  <2> QED
    BY <1>4, <2>2 DEF Covered
<1> QED
  BY <1>5, <1>8, <1>9 DEF CoverInv, bridgeVars

\* Steps that leave the chain and the list alone need only look at the fetch.
LEMMA QuietCover ==
    ASSUME FeedInv, CoverInv, UNCHANGED <<chainVars, list, overtaken>>,
           \A e \in InHand(scan') : EntryShaped(e),
           UniqueKeys(scan'.new), FetchInv'
    PROVE  CoverInv'
<1>1. \A e : EntryShaped(e)' <=> EntryShaped(e)
  BY DEF EntryShaped, chainVars
<1>2. UniqueKeys(list)' /\ UniqueKeys(scan.new)'
  BY DEF CoverInv, ShapeInv, UniqueKeys, SameKey
<1>3. ShapeInv'
  <2>1. \A e \in list' \cup InHand(scan') : EntryShaped(e)
    BY CoverFacts
  <2>2. \A t \in Withdrawals : mined'[t] > 0 => t \in submitted'
    BY DEF CoverInv, ShapeInv, chainVars
  <2>3. \A e \in (list \cup InHand(scan))' : EntryShaped(e)'
    BY <1>1, <2>1 DEF InHand
  <2> QED
    BY <1>2, <2>2, <2>3 DEF ShapeInv
<1>4. Covered => Covered'
  BY DEF Covered, Effective, chainVars
<1> QED
  BY <1>3, <1>4 DEF CoverInv

\* The fetch invariant of a step that changes nothing it looks at.
LEMMA FetchUntouched ==
    ASSUME CoverInv, UNCHANGED <<chainVars, list, scan>>,
           step' = step \/ step' \notin FetchSteps
    PROVE  FetchInv'
<1>1. Loaded' = Loaded
  BY DEF Loaded
<1>2. FoundAll' <=> FoundAll
  BY DEF FoundAll, Effective, Scanned, chainVars
<1>3. CASE step' = step
  <2>1. (step \in FetchSteps => scan.cached \in Loaded /\ scan.head <= head)'
    BY <1>1, <1>3 DEF CoverInv, FetchInv, chainVars
  <2>2. QueriedInv'
    BY <1>2, <1>3 DEF CoverInv, FetchInv, QueriedInv, Scanned
  <2>3. MergedInv'
    BY <1>2, <1>3 DEF CoverInv, FetchInv, MergedInv, Scanned, SameKey
  <2> QED
    BY <2>1, <2>2, <2>3 DEF FetchInv
<1>4. CASE step' \notin FetchSteps
  BY <1>4 DEF FetchInv, QueriedInv, MergedInv, FetchSteps
<1> QED
  BY <1>3, <1>4

\* A fetch begins with the stored list, or with nothing.
LEMMA StartFetchCovers ==
    ASSUME FeedInv, CoverInv, StartFetch, overtaken' = overtaken
    PROVE  CoverInv'
<1>1. PICK cached \in Loaded : scan' = [NoScan EXCEPT !.cached = cached]
  BY DEF StartFetch
<1>2. scan' = [cached |-> cached, new |-> {}, todo |-> {}, head |-> 0]
  BY <1>1 DEF NoScan
<1>3. cached \subseteq list
  BY DEF Loaded
<1>4. step' = "query1" /\ UNCHANGED <<chainVars, list>>
  BY DEF StartFetch, Goto
<1>5. \A e \in InHand(scan') : EntryShaped(e)
  BY <1>2, <1>3, CoverFacts DEF InHand
<1>6. UniqueKeys(scan'.new)
  BY <1>2 DEF UniqueKeys
<1>7. FetchInv'
  <2>1. Loaded' = Loaded
    BY <1>4 DEF Loaded
  <2>2. head' \in Nat
    BY <1>4, CoverFacts DEF chainVars
  <2> QED
    BY <1>2, <1>4, <2>1, <2>2 DEF FetchInv, QueriedInv, MergedInv
<1> QED
  BY <1>4, <1>5, <1>6, <1>7, QuietCover

\* The bridge's steps that leave the chain and the list alone.
LEMMA BridgeStepCovers ==
    ASSUME FeedInv, CoverInv,
           \/ Unlock \/ StartPolling \/ StartLock \/ Lock
           \/ PollIdle \/ PollStart \/ AfterRefresh \/ AppFetch \/ Report
    PROVE  CoverInv'
<1>0. /\ \A e \in InHand(scan) : EntryShaped(e)
      /\ UniqueKeys(scan.new)
  BY CoverFacts DEF CoverInv, ShapeInv
<1>1. ASSUME UNCHANGED <<chainVars, list, scan, overtaken>>,
             step' = step \/ step' \notin FetchSteps
      PROVE  CoverInv'
  BY <1>0, <1>1, FetchUntouched, QuietCover
<1>2. CASE Unlock \/ StartPolling \/ StartLock \/ Lock \/ PollIdle \/ PollStart \/ Report
  <2>1. UNCHANGED <<chainVars, list, scan, overtaken>>
    BY <1>2 DEF Unlock, StartPolling, StartLock, Lock, PollIdle, PollStart, Report,
                Goto, Histories, cacheVars, chainVars
  <2>2. step' = step \/ step' \in {"unlocking", "free", "refresh"}
    BY <1>2 DEF Unlock, StartPolling, StartLock, Lock, PollIdle, PollStart, Report,
                Goto, cacheVars
  <2> QED
    BY <1>1, <2>1, <2>2 DEF FetchSteps
<1>3. CASE AfterRefresh
  <2>1. CASE first \/ ~unlocked
    <3>1. UNCHANGED <<chainVars, list, scan, overtaken>> /\ step' = "free"
      BY <1>3, <2>1 DEF AfterRefresh, Goto, Histories
    <3> QED
      BY <1>1, <3>1 DEF FetchSteps
  <2>2. CASE ~(first \/ ~unlocked)
    BY <1>3, <2>2, StartFetchCovers DEF AfterRefresh, Histories
  <2> QED
    BY <2>1, <2>2
<1>4. CASE AppFetch
  BY <1>4, StartFetchCovers DEF AppFetch, Histories
<1> QED
  BY <1>2, <1>3, <1>4


\* What a query finds: an effective transaction in its block.
LEMMA EventFacts ==
    ASSUME FeedInv, CoverInv, NEW cached,
           NEW type \in {"TransferIn", "Withdraw", "TransferOut"},
           NEW e \in Events(type, cached)
    PROVE  /\ EntryShaped(e)
           /\ e.tx \in Txs /\ e.type = type
           /\ Effective(e.tx) /\ e.block = mined[e.tx]
           /\ e.block > 0 /\ Scanned(e.block, cached)
           /\ e = Event(e.tx, type)
           /\ type \in EventTypes(e.tx)
<1>1. PICK t \in Txs : /\ e = Event(t, type)
                       /\ mined[t] > 0
                       /\ Scanned(mined[t], cached)
                       /\ type \in EventTypes(t)
  BY DEF Events
<1>2. e.tx = t /\ e.type = type /\ e.block = mined[t] /\ t \notin reverted
  BY <1>1 DEF Event, EventTypes
<1>3. t \in Payments <=> type = "TransferIn"
  BY <1>1 DEF EventTypes
<1>4. t \in Withdrawals => t \in submitted
  BY <1>1 DEF CoverInv, ShapeInv
<1>5. mined[t] # 0
  BY <1>1
<1> QED
  BY <1>1, <1>2, <1>3, <1>4, <1>5 DEF EntryShaped, Effective

\* The first query finds every payment and withdrawal up to the head it sees.
LEMMA Query1Covers ==
    ASSUME FeedInv, CoverInv, Query1, UNCHANGED bridgeVars
    PROVE  CoverInv'
<1> DEFINE ins == Events("TransferIn", scan.cached)
           outs == Events("Withdraw", scan.cached)
<1>1. /\ scan' = [scan EXCEPT !.head = head, !.new = ins \cup outs]
      /\ step = "query1" /\ step' = "query2" /\ UNCHANGED <<chainVars, list>>
  BY DEF Query1, Goto
<1>2. /\ scan'.cached = scan.cached /\ scan'.new = ins \cup outs
      /\ scan'.todo = scan.todo /\ scan'.head = head
  BY <1>1, CoverFacts DEF Scan
<1>3. \A e \in ins : EntryShaped(e) /\ e.type = "TransferIn" /\ e.block > 0
                     /\ Scanned(e.block, scan.cached) /\ e = Event(e.tx, "TransferIn")
  BY EventFacts
<1>4. \A e \in outs : EntryShaped(e) /\ e.type = "Withdraw" /\ e.block > 0
                      /\ Scanned(e.block, scan.cached) /\ e = Event(e.tx, "Withdraw")
  BY EventFacts
<1>5. FoundAll'
  <2> SUFFICES ASSUME NEW t \in Txs, Effective(t), Scanned(mined[t], scan.cached)
               PROVE  \E e \in ins \cup outs : e.tx = t
    BY <1>1, <1>2 DEF FoundAll, Effective, Scanned, chainVars
  <2>1. CASE t \in Payments
    <3>1. Event(t, "TransferIn") \in ins
      BY <2>1 DEF Events, EventTypes, Effective
    <3> QED
      BY <3>1 DEF Event
  <2>2. CASE t \notin Payments
    <3>1. Event(t, "Withdraw") \in outs
      BY <2>2 DEF Events, EventTypes, Effective
    <3> QED
      BY <3>1 DEF Event
  <2> QED
    BY <2>1, <2>2
<1> HIDE DEF ins, outs
<1>6. \A e \in InHand(scan') : EntryShaped(e)
  BY <1>2, <1>3, <1>4, CoverFacts DEF InHand
<1>7. UniqueKeys(scan'.new)
  BY <1>2, <1>3, <1>4 DEF UniqueKeys, SameKey
<1>8. FetchInv'
  <2>1. (step \in FetchSteps => scan.cached \in Loaded /\ scan.head <= head)'
    BY <1>1, <1>2, CoverFacts DEF CoverInv, FetchInv, FetchSteps, Loaded, chainVars
  <2>2. QueriedInv'
    BY <1>1, <1>2, <1>3, <1>4, <1>5 DEF QueriedInv, Scanned
  <2>3. MergedInv'
    BY <1>1 DEF MergedInv
  <2> QED
    BY <2>1, <2>2, <2>3 DEF FetchInv
<1> QED
  BY <1>1, <1>6, <1>7, <1>8, QuietCover DEF bridgeVars

\* What a fetch has loaded is still the stored list, or nothing.
LEMMA LoadedFacts ==
    ASSUME CoverInv, step \in FetchSteps
    PROVE  /\ scan.cached \in {list, {}} /\ scan.head <= head
           /\ UniqueKeys(scan.cached)
  BY DEF CoverInv, ShapeInv, FetchInv, Loaded, UniqueKeys

\* The second query adds the fees; those whose withdrawal the first one has seen
\* are merged into it, and no cached entry is lost.
LEMMA Query2Covers ==
    ASSUME FeedInv, CoverInv, Query2, UNCHANGED bridgeVars
    PROVE  CoverInv'
<1> DEFINE fees == Events("TransferOut", scan.cached)
<1>1. PICK found, fresher, merged, todo :
          /\ found = scan.new \cup fees
          /\ fresher = MergeFees(found)
          /\ merged = Merge(fresher, scan.cached)
          /\ todo = {e \in merged : Open(e)}
          /\ scan' = [scan EXCEPT !.new = merged, !.todo = todo]
          /\ AskOrStore(todo)
  BY DEF Query2
<1>2. /\ step = "query2" /\ step' \in {"store", "receipts"}
      /\ UNCHANGED <<chainVars, list>>
  BY <1>1 DEF Query2, AskOrStore, Goto
<1>3. /\ scan'.cached = scan.cached /\ scan'.new = merged
      /\ scan'.todo = todo /\ scan'.head = scan.head
  BY <1>1, CoverFacts DEF Scan
<1>4. /\ FoundAll
      /\ \A e \in scan.new : /\ EntryShaped(e) /\ EntryTrue(e)
                             /\ e.type # "TransferOut"
                             /\ e.block > 0 /\ Scanned(e.block, scan.cached)
  BY <1>2, CoverFacts DEF CoverInv, FetchInv, QueriedInv, InHand
<1>5. \A e \in fees : /\ EntryShaped(e) /\ e.tx \in Txs /\ e.type = "TransferOut"
                      /\ e.block = mined[e.tx] /\ Effective(e.tx)
                      /\ e.block > 0 /\ Scanned(e.block, scan.cached)
                      /\ e = Event(e.tx, "TransferOut")
  BY EventFacts
<1> HIDE DEF fees
<1>6. fresher \subseteq found /\ merged \subseteq fresher \cup scan.cached
  BY <1>1 DEF MergeFees, Merge
<1>7. \A c \in scan.cached : EntryShaped(c) /\ EntryTrue(c)
  BY CoverFacts DEF InHand
<1>8. \A e \in InHand(scan') : EntryShaped(e)
  BY <1>1, <1>3, <1>4, <1>5, <1>6, <1>7 DEF InHand
<1>9. UniqueKeys(merged)
  <2>1. UniqueKeys(found)
    BY <1>1, <1>4, <1>5 DEF CoverInv, ShapeInv, UniqueKeys, SameKey
  <2>2. UniqueKeys(fresher)
    BY <1>6, <2>1 DEF UniqueKeys
  <2>3. UniqueKeys(scan.cached)
    BY <1>2, LoadedFacts DEF FetchSteps
  <2>4. \A d \in fresher : \A e \in merged : SameKey(d, e) => e \in fresher
    BY <1>1 DEF Merge, SameKey
  <2> QED
    BY <1>6, <2>2, <2>3, <2>4 DEF UniqueKeys, SameKey
<1>10. scan.new \subseteq merged
  BY <1>1, <1>4 DEF MergeFees, Merge
<1>11. FoundAll'
  BY <1>2, <1>3, <1>4, <1>10 DEF FoundAll, Effective, Scanned, chainVars
<1>12. ASSUME NEW c \in scan.cached
       PROVE  \E e \in merged : SameKey(c, e) /\ (c.block > 0 => e.block = c.block)
  <2>1. CASE \A n \in fresher : n.tx # c.tx \/ n.type # c.type
    BY <1>1, <2>1 DEF Merge, SameKey
  <2>2. CASE \E n \in fresher : n.tx = c.tx /\ n.type = c.type
    <3>1. PICK n \in fresher : n.tx = c.tx /\ n.type = c.type
      BY <2>2
    <3>2. n.block = Place(n.tx)
      <4>1. \A e \in fees : mined[e.tx] > 0 /\ Place(e.tx) = mined[e.tx]
        BY <1>5, MinedPlace DEF FeedInv, Effective
      <4> QED
        BY <1>1, <1>4, <1>5, <1>6, <4>1 DEF EntryTrue
    <3>3. c.block > 0 => c.block = Place(c.tx)
      BY <1>7 DEF EntryTrue
    <3>4. n \in merged
      BY <1>1 DEF Merge
    <3> QED
      BY <3>1, <3>2, <3>3, <3>4 DEF SameKey
  <2> QED
    BY <2>1, <2>2
<1>13. ASSUME NEW e \in merged
       PROVE  \/ \E c \in scan.cached : SameKey(c, e)
              \/ /\ e.block > 0
                 /\ Scanned(e.block, scan.cached)
                 /\ e.type = "TransferOut" => e.block > scan.head
  <2>1. CASE e \in scan.cached
    BY <2>1 DEF SameKey
  <2>2. CASE e \in scan.new
    BY <1>4, <2>2
  <2>3. CASE e \in fees /\ e \in fresher
    <3>1. ~ \E w \in found : w.type = "Withdraw" /\ w.tx = e.tx
      BY <1>1, <1>5, <2>3 DEF MergeFees
    <3>2. \A n \in scan.new : n.tx # e.tx
      <4> SUFFICES ASSUME NEW n \in scan.new, n.tx = e.tx PROVE FALSE
        OBVIOUS
      <4>1. e.tx \notin Payments
        BY <1>5, <2>3 DEF EntryShaped
      <4>2. n.type # "TransferIn" /\ n.type # "TransferOut"
        BY <1>4, <4>1 DEF EntryShaped
      <4>3. n.type = "Withdraw"
        BY <4>2, CoverFacts DEF Entry
      <4> QED
        BY <1>1, <3>1, <4>3
    <3>3. ~(mined[e.tx] <= scan.head)
      BY <1>4, <1>5, <2>3, <3>2 DEF FoundAll
    <3>4. mined[e.tx] \in Nat /\ scan.head \in Nat
      <4>1. scan.head \in 0 .. MaxBlocks
        BY CoverFacts DEF Scan
      <4>2. e.tx \in Txs
        BY <1>5, <2>3
      <4>3. mined[e.tx] \in Nat
        BY <4>2, CoverFacts
      <4> QED
        BY <4>1, <4>3
    <3> QED
      BY <1>5, <2>3, <3>3, <3>4
  <2> QED
    BY <1>1, <1>6, <2>1, <2>2, <2>3
<1>14. FetchInv'
  <2>1. (step \in FetchSteps => scan.cached \in Loaded /\ scan.head <= head)'
    BY <1>2, <1>3 DEF CoverInv, FetchInv, FetchSteps, Loaded, chainVars
  <2>2. QueriedInv'
    BY <1>2 DEF QueriedInv
  <2>3. todo \subseteq merged
    BY <1>1
  <2>4. MergedInv'
    BY <1>3, <1>11, <1>12, <1>13, <2>3 DEF MergedInv, Scanned, SameKey
  <2> QED
    BY <2>1, <2>2, <2>4 DEF FetchInv
<1> QED
  BY <1>2, <1>3, <1>8, <1>9, <1>14, QuietCover DEF bridgeVars

\* A receipt replaces an entry by one of the same transaction and type.
LEMMA ReceiptCovers ==
    ASSUME FeedInv, CoverInv, UNCHANGED bridgeVars, Receipts
    PROVE  CoverInv'
<1>1. PICK e \in scan.todo :
          \/ \E a \in TxStatus(e.tx) : Receipt(e, WithReceipt(e, a))
          \/ Receipt(e, e)
  BY DEF Receipts
<1> PICK answer : /\ Receipt(e, answer)
                  /\ \/ \E a \in TxStatus(e.tx) : answer = WithReceipt(e, a)
                     \/ answer = e
  BY <1>1
<1>2. /\ scan' = [scan EXCEPT !.new = (@ \ {e}) \cup {answer}, !.todo = @ \ {e}]
      /\ step = "receipts" /\ step' \in {"store", "receipts"}
      /\ UNCHANGED <<chainVars, list>>
  BY DEF Receipt, AskOrStore, Goto
<1>3. /\ scan'.cached = scan.cached /\ scan'.new = (scan.new \ {e}) \cup {answer}
      /\ scan'.todo = scan.todo \ {e} /\ scan'.head = scan.head
  BY <1>2, CoverFacts DEF Scan
<1>4. e \in Entry /\ EntryShaped(e) /\ EntryTrue(e)
  BY CoverFacts DEF InHand
<1>5. /\ FoundAll /\ scan.todo \subseteq scan.new
      /\ \A c \in scan.cached :
             \E n \in scan.new :
                 SameKey(c, n) /\ (c.block > 0 => n.block = c.block)
      /\ \A n \in scan.new :
             \/ \E c \in scan.cached : SameKey(c, n)
             \/ /\ n.block > 0
                /\ Scanned(n.block, scan.cached)
                /\ n.type = "TransferOut" => n.block > scan.head
  BY <1>2 DEF CoverInv, FetchInv, MergedInv
<1>6. /\ answer.tx = e.tx /\ answer.type = e.type
      /\ e.block > 0 => answer.block = e.block
      /\ answer.block = 0 => e.block = 0
  <2>1. CASE answer = e
    BY <2>1
  <2>2. ASSUME NEW a \in TxStatus(e.tx), answer = WithReceipt(e, a)
        PROVE  /\ answer.tx = e.tx /\ answer.type = e.type
               /\ e.block > 0 => answer.block = e.block
               /\ answer.block = 0 => e.block = 0
    <3>1. PICK b : answer = [e EXCEPT !.status = a.status, !.block = b]
                   /\ (e.block # 0 => b = e.block)
      BY <2>2 DEF WithReceipt
    <3>2. /\ answer.tx = e.tx /\ answer.type = e.type /\ answer.block = b
          /\ e.block \in Nat
      BY <1>4, <3>1, CoverFacts DEF Entry
    <3> QED
      BY <3>1, <3>2
  <2> QED
    BY <2>1, <2>2
<1>7. EntryShaped(answer)
  BY <1>4, <1>6 DEF EntryShaped
<1>8. \A n \in InHand(scan') : EntryShaped(n)
  BY <1>3, <1>7, CoverFacts DEF InHand
<1>9. UniqueKeys(scan'.new)
  BY <1>1, <1>3, <1>5, <1>6 DEF CoverInv, ShapeInv, UniqueKeys, SameKey
<1>10. FoundAll'
  <2> SUFFICES ASSUME NEW t \in Txs, Effective(t), mined[t] <= scan.head,
                      Scanned(mined[t], scan.cached)
               PROVE  \E n \in scan'.new : n.tx = t
    BY <1>2, <1>3 DEF FoundAll, Effective, Scanned, chainVars
  <2>1. PICK n \in scan.new : n.tx = t
    BY <1>5 DEF FoundAll
  <2> QED
    BY <1>3, <1>6, <2>1
<1>11. ASSUME NEW c \in scan.cached
       PROVE  \E n \in scan'.new : SameKey(c, n) /\ (c.block > 0 => n.block = c.block)
  <2>1. PICK n \in scan.new : SameKey(c, n) /\ (c.block > 0 => n.block = c.block)
    BY <1>5
  <2> QED
    BY <1>3, <1>6, <2>1 DEF SameKey
<1>12. ASSUME NEW n \in scan'.new
       PROVE  \/ \E c \in scan.cached : SameKey(c, n)
              \/ /\ n.block > 0
                 /\ Scanned(n.block, scan.cached)
                 /\ n.type = "TransferOut" => n.block > scan.head
  BY <1>1, <1>3, <1>5, <1>6 DEF SameKey
<1>13. FetchInv'
  <2>1. (step \in FetchSteps => scan.cached \in Loaded /\ scan.head <= head)'
    BY <1>2, <1>3 DEF CoverInv, FetchInv, FetchSteps, Loaded, chainVars
  <2>2. QueriedInv'
    BY <1>2 DEF QueriedInv
  <2>3. scan'.todo \subseteq scan'.new
    BY <1>3, <1>5
  <2>4. MergedInv'
    BY <1>3, <1>10, <1>11, <1>12, <2>3 DEF MergedInv, Scanned, SameKey
  <2> QED
    BY <2>1, <2>2, <2>4 DEF FetchInv
<1> QED
  BY <1>2, <1>8, <1>9, <1>13, QuietCover DEF bridgeVars

\* A stored result that no block overtook has every transaction below its
\* highest block, from the cache below the block the scan began with and from
\* the queries above, or it is full.
LEMMA StoreCovers ==
    ASSUME FeedInv, CoverInv, Store
    PROVE  CoverInv'
<1> DEFINE kept == Newest(scan.new)
<1>1. /\ step = "store" /\ UNCHANGED chainVars
      /\ list' \in {kept, list, {}}
      /\ overtaken' = (overtaken \/ Overtaken(list'))
      /\ step' \in {"report", "free"}
      /\ scan' = NoScan
  BY DEF Store, Stored, Return
<1>2. /\ FoundAll
      /\ \A c \in scan.cached :
             \E e \in scan.new :
                 SameKey(c, e) /\ (c.block > 0 => e.block = c.block)
      /\ \A e \in scan.new :
             \/ \E c \in scan.cached : SameKey(c, e)
             \/ /\ e.block > 0
                /\ Scanned(e.block, scan.cached)
                /\ e.type = "TransferOut" => e.block > scan.head
  BY <1>1 DEF CoverInv, FetchInv, MergedInv
<1>3. scan.cached \in {list, {}} /\ UniqueKeys(scan.cached) /\ scan.head <= head
  BY <1>1, LoadedFacts DEF FetchSteps
<1>4. /\ scan.new \subseteq Entry /\ UniqueKeys(scan.new)
      /\ \A e \in scan.new : EntryShaped(e)
  BY CoverFacts DEF CoverInv, ShapeInv, InHand
<1>5. /\ kept \subseteq scan.new
      /\ Cardinality(kept) <= Limit
      /\ kept = scan.new \/ Cardinality(kept) = Limit
  BY <1>4, Truncated DEF EntryShaped
<1> HIDE DEF kept
<1>6. scan'.new = {} /\ InHand(scan') = {}
  BY <1>1 DEF NoScan, InHand
<1>7. ShapeInv'
  <2>1. \A e \in list' : EntryShaped(e)
    BY <1>1, <1>4, <1>5, CoverFacts
  <2>2. UniqueKeys(list')
    BY <1>1, <1>4, <1>5 DEF CoverInv, ShapeInv, UniqueKeys
  <2>3. \A e : EntryShaped(e)' <=> EntryShaped(e)
    BY <1>1 DEF EntryShaped, chainVars
  <2>4. \A t \in Withdrawals : mined'[t] > 0 => t \in submitted'
    BY <1>1 DEF CoverInv, ShapeInv, chainVars
  <2> QED
    BY <1>6, <2>1, <2>2, <2>3, <2>4 DEF ShapeInv, UniqueKeys, InHand, SameKey
<1>8. FetchInv'
  BY <1>1 DEF FetchInv, QueriedInv, MergedInv, FetchSteps
<1>9. ASSUME ~overtaken', list' = kept
      PROVE  Covered'
  <2>1. /\ Covered
        /\ \A e \in kept : ~(e.block > scan.head + 1)
        /\ \A e \in kept : e.type = "TransferOut" => ~(e.block > scan.head)
    BY <1>1, <1>9 DEF CoverInv, Overtaken
  <2>2. \A e \in kept : e.block \in Nat
    BY <1>4, <1>5, CoverFacts
  <2>3. scan.head \in Nat
    BY CoverFacts, ActivityAssumption DEF Scan
  <2>4. ASSUME NEW e \in kept
        PROVE  e.type # "TransferOut"
    <3>1. CASE \E c \in scan.cached : SameKey(c, e)
      <4>1. PICK c \in scan.cached : c.type = e.type
        BY <3>1 DEF SameKey
      <4> QED
        BY <1>3, <2>1, <4>1 DEF Covered
    <3>2. CASE e.type = "TransferOut" => e.block > scan.head
      BY <2>1, <3>2
    <3> QED
      BY <1>2, <1>5, <3>1, <3>2
  <2>5. ASSUME NEW t \in Txs, Effective(t), NEW d \in kept, mined[t] < d.block,
               Cardinality(kept) # Limit
        PROVE  \E e \in kept : e.tx = t
    <3>1. kept = scan.new
      BY <1>5, <2>5
    <3>2. mined[t] <= scan.head
      <4>1. mined[t] \in Nat /\ d.block \in Nat
        BY <2>2, <2>5, CoverFacts
      <4>2. ~(d.block > scan.head + 1)
        BY <2>1, <2>5
      <4> QED
        BY <2>3, <2>5, <4>1, <4>2
    <3>3. CASE Scanned(mined[t], scan.cached)
      BY <1>2, <2>5, <3>1, <3>2, <3>3 DEF FoundAll
    <3>4. CASE ~Scanned(mined[t], scan.cached)
      <4>1. PICK c \in scan.cached : ~(c.block <= mined[t])
        BY <3>4 DEF Scanned
      <4>2. scan.cached = list /\ c \in list
        BY <1>3, <4>1
      <4>3. mined[t] < c.block
        <5>1. mined[t] \in Nat /\ c.block \in Nat
          BY <2>5, <4>2, CoverFacts
        <5> QED
          BY <4>1, <5>1
      <4>4. CASE \E e \in list : e.tx = t
        BY <1>2, <3>1, <4>2, <4>4 DEF SameKey
      <4>5. CASE Cardinality(list) = Limit
        <5> DEFINE same(c1) == CHOOSE e \in scan.new : SameKey(c1, e)
                   f == [c1 \in list |-> same(c1)]
        <5>1. \A c1 \in list : same(c1) \in scan.new /\ SameKey(c1, same(c1))
          BY <1>2, <4>2
        <5>2. f \in [list -> kept]
          BY <3>1, <5>1
        <5>3. \A c1, c2 \in list : f[c1] = f[c2] => c1 = c2
          <6>1. \A c1, c2 \in list : same(c1) = same(c2) => SameKey(c1, c2)
            BY <5>1 DEF SameKey
          <6> QED
            BY <6>1 DEF CoverInv, ShapeInv, UniqueKeys
        <5> HIDE DEF f
        <5>4. kept \in SUBSET Entry /\ list \in SUBSET Entry
          BY <1>4, <1>5, CoverFacts
        <5>5. Cardinality(kept) = Limit
          BY <1>5, <4>5, <5>2, <5>3, <5>4, LargerIsFull
        <5> QED
          BY <2>5, <5>5
      <4> QED
        BY <2>1, <2>5, <4>2, <4>3, <4>4, <4>5 DEF Covered
    <3> QED
      BY <3>3, <3>4
  <2>6. \A t \in Txs : (Effective(t) /\ \E e \in kept : mined[t] < e.block) =>
            (\E e \in kept : e.tx = t) \/ Cardinality(kept) = Limit
    BY <2>5
  <2> QED
    BY <1>1, <1>9, <2>4, <2>6 DEF Covered, Effective, chainVars
<1>10. ASSUME Covered, list' = list \/ list' = {}
       PROVE  Covered'
  BY <1>1, <1>10 DEF Covered, Effective, chainVars
<1>11. overtaken' \/ Covered'
  BY <1>1, <1>9, <1>10 DEF CoverInv
<1> QED
  BY <1>7, <1>8, <1>11 DEF CoverInv

\* A fetch that fails changes nothing.
LEMMA FetchFailsCovers ==
    ASSUME FeedInv, CoverInv, FetchFails
    PROVE  CoverInv'
<1>1. /\ UNCHANGED <<chainVars, list, overtaken>>
      /\ step' \in {"report", "free"} /\ scan' = NoScan
  BY DEF FetchFails, Return
<1>2. scan'.new = {} /\ InHand(scan') = {}
  BY <1>1 DEF NoScan, InHand
<1>3. FetchInv'
  BY <1>1 DEF FetchInv, QueriedInv, MergedInv, FetchSteps
<1> QED
  BY <1>1, <1>2, <1>3, QuietCover DEF UniqueKeys

\* A process that dies leaves the list, or none.
LEMMA CrashCovers ==
    ASSUME FeedInv, CoverInv, Crash
    PROVE  CoverInv'
<1>1. /\ UNCHANGED <<chainVars, overtaken>> /\ list' \in {list, {}}
      /\ step' = "free" /\ scan' = NoScan
  BY DEF Crash, AfterFailedStore
<1>2. scan'.new = {} /\ InHand(scan') = {}
  BY <1>1 DEF NoScan, InHand
<1>3. FetchInv'
  BY <1>1 DEF FetchInv, QueriedInv, MergedInv, FetchSteps
<1>4. ShapeInv'
  <2>1. \A e \in list' : EntryShaped(e)
    BY <1>1, CoverFacts
  <2>2. UniqueKeys(list')
    BY <1>1 DEF CoverInv, ShapeInv, UniqueKeys
  <2>3. \A e : EntryShaped(e)' <=> EntryShaped(e)
    BY <1>1 DEF EntryShaped, chainVars
  <2>4. \A t \in Withdrawals : mined'[t] > 0 => t \in submitted'
    BY <1>1 DEF CoverInv, ShapeInv, chainVars
  <2> QED
    BY <1>2, <2>1, <2>2, <2>3, <2>4 DEF ShapeInv, UniqueKeys, InHand, SameKey
<1>5. Covered => Covered'
  BY <1>1 DEF Covered, Effective, chainVars
<1> QED
  BY <1>1, <1>3, <1>4, <1>5 DEF CoverInv

\* A withdrawal's first entry is the only one of its transaction.
LEMMA WithdrawCovers ==
    ASSUME FeedInv, CoverInv, NEW t \in Withdrawals, Withdraw(t), UNCHANGED bridgeVars
    PROVE  CoverInv'
<1> DEFINE entry == [tx |-> t, type |-> "Withdraw", block |-> 0, status |-> "Pending"]
<1>1. /\ step = "free" /\ t \notin submitted /\ submitted' = submitted \cup {t}
      /\ UNCHANGED <<head, mined, underway, reverted, rejected, step, scan>>
      /\ \/ \E cached \in {list, {}} : list' \in {Newest(cached \cup {entry}), list, {}}
         \/ UNCHANGED list
  BY DEF Withdraw, Submit, Loaded, Stored
<1>2. PICK cached \in {list, {}} : list' \in {Newest(cached \cup {entry}), list, {}}
  BY <1>1
<1> DEFINE added == cached \cup {entry}
           kept == Newest(added)
<1>3. entry \in Entry
  BY ActivityAssumption DEF Entry, Txs
<1>4. added \in SUBSET Entry
  BY <1>3, CoverFacts
<1>5. \A e : EntryShaped(e) => EntryShaped(e)'
  BY <1>1 DEF EntryShaped
<1>6. EntryShaped(entry)'
  BY <1>1, ActivityAssumption DEF EntryShaped
<1>7. UniqueKeys(added)
  <2>1. \A e \in list : e.tx # t
    BY <1>1, CoverFacts DEF EntryShaped
  <2> QED
    BY <1>2, <2>1 DEF CoverInv, ShapeInv, UniqueKeys, SameKey
<1>8. /\ kept \subseteq added
      /\ Cardinality(kept) <= Limit
      /\ kept = added \/ Cardinality(kept) = Limit
  <2>1. \A e \in added : e.tx \in Payments <=> e.type = "TransferIn"
    <3>1. \A e \in list : e.tx \in Payments <=> e.type = "TransferIn"
      BY CoverFacts DEF EntryShaped
    <3>2. t \notin Payments
      BY ActivityAssumption
    <3> QED
      BY <3>1, <3>2
  <2> QED
    BY <1>4, <1>7, <2>1, Truncated
<1> HIDE DEF kept
<1>9. ShapeInv'
  <2>1. \A e \in list' : EntryShaped(e)'
    BY <1>2, <1>5, <1>6, <1>8, CoverFacts DEF kept
  <2>2. UniqueKeys(list')
    BY <1>2, <1>7, <1>8 DEF CoverInv, ShapeInv, UniqueKeys, kept
  <2>3. \A e \in InHand(scan) : EntryShaped(e)'
    BY <1>5, CoverFacts
  <2>4. \A w \in Withdrawals : mined'[w] > 0 => w \in submitted'
    BY <1>1 DEF CoverInv, ShapeInv
  <2>5. UniqueKeys(scan.new)
    BY DEF CoverInv, ShapeInv
  <2> QED
    BY <1>1, <2>1, <2>2, <2>3, <2>4, <2>5 DEF ShapeInv, UniqueKeys, InHand, SameKey
<1>10. FetchInv'
  BY <1>1 DEF FetchInv, QueriedInv, MergedInv, FetchSteps
<1>11. Covered => Covered'
  <2>1. CASE list' \in {list, {}}
    BY <1>1, <2>1 DEF Covered, Effective
  <2>2. CASE list' = kept
    <3> SUFFICES ASSUME Covered PROVE Covered'
      OBVIOUS
    <3>1. \A e \in kept : e.type # "TransferOut"
      BY <1>8 DEF Covered
    <3>2. ASSUME NEW u \in Txs, Effective(u), NEW d \in kept, mined[u] < d.block,
                 Cardinality(kept) # Limit
          PROVE  \E e \in kept : e.tx = u
      <4>1. kept = added
        BY <1>8, <3>2
      <4>2. mined[u] \in Nat /\ mined[u] > 0 /\ entry.block = 0
        BY <3>2, CoverFacts DEF Effective
      <4>3. d # entry
        BY <3>2, <4>2
      <4>4. cached = list /\ d \in list
        BY <3>2, <4>1, <4>3
      <4>5. CASE \E e \in list : e.tx = u
        BY <4>1, <4>4, <4>5
      <4>6. CASE Cardinality(list) = Limit
        <5> DEFINE f == [c \in list |-> c]
        <5>1. f \in [list -> kept]
          BY <4>1, <4>4
        <5>2. \A c, e \in list : f[c] = f[e] => c = e
          OBVIOUS
        <5>3. kept \in SUBSET Entry /\ list \in SUBSET Entry
          BY <1>4, <1>8, CoverFacts
        <5> HIDE DEF f
        <5>4. Cardinality(kept) = Limit
          BY <1>8, <4>6, <5>1, <5>2, <5>3, LargerIsFull
        <5> QED
          BY <3>2, <5>4
      <4> QED
        BY <3>2, <4>4, <4>5, <4>6 DEF Covered
    <3> QED
      BY <1>1, <2>2, <3>1, <3>2 DEF Covered, Effective
  <2> QED
    BY <1>2, <2>1, <2>2 DEF kept
<1> QED
  BY <1>9, <1>10, <1>11 DEF CoverInv, bridgeVars

\* An empty list covers a chain without blocks.
LEMMA CoverInit == Init => CoverInv
<1> SUFFICES ASSUME Init PROVE CoverInv
  OBVIOUS
<1>1. list = {} /\ InHand(scan) = {} /\ scan.new = {} /\ step = "free"
  BY DEF Init, CacheInit, NoScan, InHand
<1>2. \A t \in Withdrawals : ~(mined[t] > 0)
  BY DEF Init, CacheInit, Txs
<1> QED
  BY <1>1, <1>2 DEF CoverInv, ShapeInv, UniqueKeys, FetchInv, FetchSteps,
                    QueriedInv, MergedInv, Covered

\* Every step keeps the list complete.
LEMMA CoverStep == FeedInv /\ CoverInv /\ [Next]_vars => CoverInv'
<1> SUFFICES ASSUME FeedInv, CoverInv, [Next]_vars PROVE CoverInv'
  OBVIOUS
<1>1. CASE ChainStep /\ UNCHANGED bridgeVars
  BY <1>1, ChainStepCovers
<1>2. CASE Fetching /\ UNCHANGED bridgeVars
  BY <1>2, Query1Covers, Query2Covers, ReceiptCovers DEF Fetching
<1>3. CASE (\E t \in Withdrawals : Withdraw(t)) /\ UNCHANGED bridgeVars
  BY <1>3, WithdrawCovers
<1>4. CASE \/ Unlock \/ StartPolling \/ StartLock \/ Lock
           \/ PollIdle \/ PollStart \/ AfterRefresh \/ AppFetch \/ Report
  BY <1>4, BridgeStepCovers
<1>5. CASE Store
  BY <1>5, StoreCovers
<1>6. CASE FetchFails
  BY <1>6, FetchFailsCovers
<1>7. CASE Crash
  BY <1>7, CrashCovers
<1>8. CASE UNCHANGED vars
  <2>1. UNCHANGED <<chainVars, list, scan, overtaken>> /\ step' = step
    BY <1>8 DEF vars, cacheVars, bridgeVars
  <2> QED
    BY <2>1, FetchUntouched, QuietCover, CoverFacts DEF CoverInv, ShapeInv
<1> QED
  BY <1>1, <1>2, <1>3, <1>4, <1>5, <1>6, <1>7, <1>8 DEF Next, ChainStep

\* What each step of a fetch has found and merged covers the chain from the
\* block its scan began with, and so does the list: the inductive invariant behind
\* get_activity's incremental scan.
THEOREM CoverInvariance == Spec => []CoverInv
<1>1. FeedInv /\ CoverInv /\ [Next]_vars => (FeedInv /\ CoverInv)'
  BY FeedStep, CoverStep
<1>2. Init => FeedInv /\ CoverInv
  BY FeedInit, CoverInit
<1> QED
  BY <1>1, <1>2, PTL DEF Spec

\* Unless a fetch was overtaken by a block between its two queries, the scan that
\* begins at the highest cached block (rpc.rs) misses nothing the list has room
\* for, and a withdrawal and its fee are one entry: for every number of payments,
\* withdrawals and blocks, any limit, and whatever fails.
THEOREM ListIsComplete == Spec => []CompleteUnlessOvertaken
<1>1. FeedInv /\ CoverInv => CompleteUnlessOvertaken
  <2> SUFFICES ASSUME FeedInv, CoverInv, ~overtaken
               PROVE  NothingSkipped /\ OneEntryEach
    BY DEF CompleteUnlessOvertaken
  <2>1. Covered
    BY DEF CoverInv
  <2>2. ASSUME NEW t \in Txs, mined[t] > 0, ~Scanned(mined[t], list), t \notin reverted
        PROVE  (\E e \in list : e.tx = t) \/ Cardinality(list) = Limit
    <3>1. PICK e \in list : ~(e.block <= mined[t])
      BY <2>2 DEF Scanned
    <3>2. mined[t] < e.block
      <4>1. mined[t] \in Nat /\ e.block \in Nat
        BY CoverFacts
      <4> QED
        BY <3>1, <4>1
    <3> QED
      BY <2>1, <2>2, <3>2 DEF Covered, Effective
  <2>3. ASSUME NEW d \in list, NEW e \in list, d.tx = e.tx
        PROVE  d = e
    <3>1. /\ d.type \in {"TransferIn", "Withdraw"} /\ e.type \in {"TransferIn", "Withdraw"}
      BY <2>1, CoverFacts DEF Covered, Entry
    <3>2. d.type = e.type
      BY <2>3, <3>1, CoverFacts DEF EntryShaped
    <3> QED
      BY <2>3, <3>2 DEF CoverInv, ShapeInv, UniqueKeys, SameKey
  <2> QED
    BY <2>2, <2>3 DEF NothingSkipped, OneEntryEach
<1> QED
  BY <1>1, FeedInvariance, CoverInvariance, PTL

-----------------------------------------------------------------------------
(* What is reported is true *)

\* The poll thread keeps part of what get_activity returns, which is true.
LEMMA ReturnReportsTrue ==
    ASSUME FeedInv, CoverInv, ReportTrue, Return(Returned)
    PROVE  ReportTrue'
<1>1. UNCHANGED <<chainVars, notified>> /\ (fresh' = fresh \/ fresh' = Unseen(Returned))
  BY DEF Return
<1>2. Returned \subseteq scan.new \cup scan.cached
  BY NewestAreEntries DEF Returned
<1>3. ASSUME NEW e \in Unseen(Returned)
      PROVE  e.tx \in Payments /\ e.block > 0 /\ EntryTrue(e)
  <2>1. /\ e \in Entry /\ EntryTrue(e) /\ EntryShaped(e)
        /\ e.type \in {"TransferIn", "Fund"}
    BY <1>2, CoverFacts DEF Unseen, Incoming, InHand
  <2>2. e.type = "TransferIn" /\ e.block \in Nat
    BY <2>1, CoverFacts DEF Entry
  <2>3. e.tx \in Payments /\ e.block # 0
    BY <2>1, <2>2 DEF EntryShaped
  <2> QED
    BY <2>1, <2>2, <2>3
<1>4. \A e \in fresh' : e.tx \in Payments /\ e.block > 0 /\ EntryTrue(e)
  BY <1>1, <1>3 DEF ReportTrue
<1> QED
  BY <1>1, <1>4 DEF ReportTrue, EntryTrue, Place, chainVars

\* Every step keeps what is to be reported, and what was, true.
LEMMA ReportTrueStep ==
    ASSUME FeedInv, CoverInv, ReportTrue, [Next]_vars
    PROVE  ReportTrue'
<1>0. fresh \subseteq Entry
  BY DEF FeedInv, TypeOK
<1>1. CASE ChainStep /\ UNCHANGED bridgeVars
  <2>2. \A p \in Payments : mined[p] > 0 => mined'[p] = mined[p]
    BY <1>1, ChainMoves DEF Txs, FeedInv
  <2>3. \A e \in fresh : EntryTrue(e)'
    BY <1>0, <1>1, EntryStays DEF FeedInv, ReportTrue
  <2> QED
    BY <1>1, <2>2, <2>3 DEF ReportTrue, bridgeVars
<1>2. CASE (Fetching \/ \E t \in Withdrawals : Withdraw(t)) /\ UNCHANGED bridgeVars
  <2>1. UNCHANGED <<head, mined, underway, reverted, rejected, fresh, notified>>
    BY <1>2 DEF Fetching, Query1, Query2, Receipts, Receipt, AskOrStore, Goto,
                Withdraw, Submit, bridgeVars, chainVars
  <2> QED
    BY <2>1 DEF ReportTrue, EntryTrue, Place
<1>3. CASE \/ Unlock \/ StartPolling \/ StartLock \/ Lock
           \/ PollIdle \/ PollStart \/ AfterRefresh \/ AppFetch \/ UNCHANGED vars
  <2>1. UNCHANGED <<chainVars, fresh, notified>>
    BY <1>3 DEF Unlock, StartPolling, StartLock, Lock, PollIdle, PollStart,
                AfterRefresh, AppFetch, StartFetch, Goto, Histories, cacheVars,
                vars, bridgeVars
  <2> QED
    BY <2>1 DEF ReportTrue, EntryTrue, Place, chainVars
<1>4. CASE Store \/ FetchFails
  BY <1>4, ReturnReportsTrue DEF Store, FetchFails
<1>5. CASE Report
  <2>1. /\ UNCHANGED chainVars /\ fresh' = {}
        /\ notified' = [p \in Payments |->
                           IF \E e \in fresh : e.tx = p THEN notified[p] + 1
                                                      ELSE notified[p]]
    BY <1>5 DEF Report, Goto
  <2>2. ASSUME NEW p \in Payments, notified'[p] > 0
        PROVE  mined[p] > 0
    <3>1. CASE \E e \in fresh : e.tx = p
      BY <3>1, PaymentPlace DEF ReportTrue, EntryTrue, FeedInv
    <3>2. CASE ~ \E e \in fresh : e.tx = p
      BY <2>1, <2>2, <3>2 DEF ReportTrue
    <3> QED
      BY <3>1, <3>2
  <2> QED
    BY <2>1, <2>2 DEF ReportTrue, chainVars
<1>6. CASE Crash
  BY <1>6 DEF Crash, ReportTrue, chainVars
<1> QED
  BY <1>1, <1>2, <1>3, <1>4, <1>5, <1>6 DEF Next, ChainStep

\* The poll thread reports incoming payments only, and only those that are in
\* the block they name: neither an entry of the wallet's own nor one that a
\* failed fetch returns from the cache is ever taken for a new payment that
\* the chain does not have.
THEOREM ReportsAreTrue == Spec => []ReportTrue
<1>1. Init => ReportTrue
  <2> SUFFICES ASSUME Init PROVE ReportTrue
    OBVIOUS
  <2>1. fresh = {} /\ \A p \in Payments : notified[p] = 0
    BY DEF Init
  <2> QED
    BY <2>1 DEF ReportTrue
<1>2. FeedInv /\ CoverInv /\ ReportTrue /\ [Next]_vars => ReportTrue'
  BY ReportTrueStep
<1> QED
  BY <1>1, <1>2, FeedInvariance, CoverInvariance, PTL DEF Spec

-----------------------------------------------------------------------------
(* A payment is reported once *)

\* No load and no store fails.
StorageWorks == Fallible \subseteq {"rpc"}

\* Storage that works reads and writes the list as it is.
LEMMA NothingFails ==
    ASSUME StorageWorks
    PROVE  /\ Loaded = {list}
           /\ \A entries : Stored(entries) <=> list' = entries
           /\ AfterFailedStore = {list}
  BY DEF StorageWorks, Loaded, Stored, AfterFailedStore, MayFail

\* What keeps a payment from coming back survives the truncation of a roomy list.
LEMMA RoomyTruncation ==
    ASSUME NEW S \in SUBSET Entry, UniqueKeys(S),
           \A e \in S : EntryTrue(e) /\ (e.tx \in Payments <=> e.type = "TransferIn"),
           NEW h \in Nat, NEW x \in S,
           NEW p, x.tx = p /\ x.block > 0 => x.block = h,
           x.tx = p \/ x.block > h,
           \/ Cardinality(Newest(S)) < Limit
           \/ \E d, e \in Newest(S) : 0 < d.block /\ d.block < e.block
    PROVE  \E e \in Newest(S) : e.tx = p \/ e.block > h
<1> DEFINE kept == Newest(S)
<1>1. /\ kept \subseteq S
      /\ kept = S \/ Cardinality(kept) = Limit
      /\ \A e \in kept : \A y \in S \ kept : Before(e, y)
  BY Truncated
<1>2. \A e \in Entry : e.block \in 0 .. MaxBlocks /\ e.block \in Nat
  BY DEF Entry
<1>3. MaxBlocks \in Nat /\ Limit \in Nat
  BY ActivityAssumption
<1>4. CASE x \in kept
  BY <1>4
<1>5. CASE x \notin kept
  <2>1. ~(Cardinality(kept) < Limit)
    BY <1>1, <1>3, <1>5
  <2>2. PICK d \in kept, e \in kept : 0 < d.block /\ d.block < e.block
    BY <2>1
  <2>3. Before(d, x)
    BY <1>1, <1>5
  <2>4. /\ d.block \in 0 .. MaxBlocks /\ e.block \in 0 .. MaxBlocks
        /\ x.block \in 0 .. MaxBlocks
    BY <1>1, <1>2
  <2>5. Height(d) >= Height(x)
    <3>1. Height(d) \in Nat /\ Height(x) \in Nat
      BY <1>3, <2>4 DEF Height
    <3> QED
      BY <2>3, <3>1 DEF Before
  <2>6. Height(d) = d.block
    BY <2>2, <2>4 DEF Height
  <2>7. x.block > 0 /\ d.block >= x.block
    BY <1>3, <2>4, <2>5, <2>6 DEF Height
  <2>8. x.block >= h
    BY <2>4, <2>7
  <2> QED
    BY <2>2, <2>4, <2>7, <2>8
<1> QED
  BY <1>4, <1>5

\* The same steps, for what has been reported.
LEMMA ReportQuiet ==
    ASSUME FeedInv, CoverInv, ReportInv,
           UNCHANGED <<list, notified, fresh>>,
           \A p \in Payments : notified[p] > 0 => mined'[p] = mined[p],
           step' = "report" => step = "report",
           (caller = "poll" /\ step \in {"refresh"} \cup FetchSteps)' =>
               \A e \in list : e.tx \in known'
    PROVE  ReportInv'
<1>1. \A p \in Payments : notified[p] > 0 => mined'[p] > 0 /\ Remembered(p)'
  BY DEF ReportInv, Remembered
<1>2. (step = "report" => \A e \in fresh : e \in list /\ notified[e.tx] = 0)'
  BY DEF ReportInv
<1>3. NotifiedAtMostOnce'
  BY DEF ReportInv, NotifiedAtMostOnce
<1> QED
  BY <1>1, <1>2, <1>3 DEF ReportInv

\* The counts of reports are numbers.
LEMMA NotifiedNat ==
    ASSUME FeedInv
    PROVE  /\ \A p \in Payments : notified[p] \in Nat
           /\ Payments \subseteq Txs
  BY DEF FeedInv, TypeOK, Txs

\* The steps that store nothing and report nothing.
LEMMA BridgeStepReports ==
    ASSUME StorageWorks, FeedInv, CoverInv, ReportInv,
           \/ ChainStep /\ UNCHANGED bridgeVars
           \/ Fetching /\ UNCHANGED bridgeVars
           \/ Unlock \/ StartPolling \/ StartLock \/ Lock
           \/ PollIdle \/ PollStart \/ AfterRefresh \/ AppFetch
           \/ Crash \/ UNCHANGED vars
    PROVE  ReportInv'
<1>1. CASE ChainStep /\ UNCHANGED bridgeVars
  <2>2. \A p \in Payments : notified[p] > 0 => mined'[p] = mined[p]
    BY <1>1, ChainMoves, NotifiedNat DEF ReportInv, FeedInv
  <2>3. UNCHANGED <<list, notified, fresh, step, caller, known>>
    BY <1>1, ChainMoves DEF FeedInv, bridgeVars
  <2> QED
    BY <2>2, <2>3, ReportQuiet DEF ReportInv
<1>2. CASE Fetching /\ UNCHANGED bridgeVars
  <2>1. /\ UNCHANGED <<list, mined, notified, fresh, caller, known>>
        /\ step \in FetchSteps /\ step' \in {"query2", "receipts", "store"}
    BY <1>2 DEF Fetching, Query1, Query2, Receipts, Receipt, AskOrStore, Goto,
                bridgeVars, chainVars, FetchSteps
  <2> QED
    BY <2>1, ReportQuiet DEF ReportInv
<1>3. CASE Unlock \/ StartPolling \/ StartLock \/ Lock \/ PollIdle \/ UNCHANGED vars
  <2>1. /\ UNCHANGED <<list, mined, notified, fresh, caller, known>>
        /\ step' = step \/ step' \in {"unlocking", "free"}
    BY <1>3 DEF Unlock, StartPolling, StartLock, Lock, PollIdle, Goto, Histories,
                cacheVars, chainVars, vars, bridgeVars
  <2> QED
    BY <2>1, ReportQuiet DEF ReportInv, FetchSteps
<1>4. CASE PollStart
  <2>1. /\ UNCHANGED <<list, mined, notified, fresh>> /\ step' = "refresh"
        /\ known' = {e.tx : e \in list}
    BY <1>4, NothingFails DEF PollStart, Goto, Histories, chainVars
  <2> QED
    BY <2>1, ReportQuiet
<1>5. CASE AfterRefresh
  <2>1. /\ UNCHANGED <<list, mined, notified, fresh, caller, known>>
        /\ step = "refresh" /\ step' \in {"free", "query1"}
    BY <1>5 DEF AfterRefresh, StartFetch, Goto, Histories, chainVars
  <2> QED
    BY <2>1, ReportQuiet DEF ReportInv, FetchSteps
<1>6. CASE AppFetch
  <2>1. /\ UNCHANGED <<list, mined, notified, fresh>>
        /\ caller' = "app" /\ step' = "query1"
    BY <1>6 DEF AppFetch, StartFetch, Goto, Histories, chainVars
  <2> QED
    BY <2>1, ReportQuiet
<1>7. CASE Crash
  <2>1. /\ UNCHANGED <<list, mined, notified>> /\ fresh' = {}
        /\ caller' = "app" /\ step' = "free"
    BY <1>7, NothingFails DEF Crash, chainVars
  <2> QED
    BY <2>1 DEF ReportInv, Remembered, NotifiedAtMostOnce
<1> QED
  BY <1>1, <1>2, <1>3, <1>4, <1>5, <1>6, <1>7

\* The entry of a withdrawal may push a payment out of a list that is full, but
\* not below its highest block.
LEMMA WithdrawReports ==
    ASSUME StorageWorks, FeedInv, CoverInv, ReportInv, Roomy',
           NEW t \in Withdrawals, Withdraw(t), UNCHANGED bridgeVars
    PROVE  ReportInv'
<1> DEFINE entry == [tx |-> t, type |-> "Withdraw", block |-> 0, status |-> "Pending"]
           added == list \cup {entry}
<1>1. /\ step = "free" /\ t \notin submitted
      /\ UNCHANGED <<mined, step, notified, fresh, caller, known>>
      /\ list' \in {Newest(added), list}
  BY NothingFails DEF Withdraw, Submit, bridgeVars
<1>2. entry \in Entry /\ EntryTrue(entry)
  BY ActivityAssumption DEF Entry, Txs, EntryTrue
<1>3. added \in SUBSET Entry /\ UniqueKeys(added)
  <2>1. \A e \in list : e.tx # t
    BY <1>1, CoverFacts DEF EntryShaped
  <2> QED
    BY <1>2, <2>1, CoverFacts DEF CoverInv, ShapeInv, UniqueKeys, SameKey
<1>4. \A e \in added : EntryTrue(e) /\ (e.tx \in Payments <=> e.type = "TransferIn")
  <2>1. t \notin Payments
    BY ActivityAssumption
  <2> QED
    BY <1>2, <2>1, CoverFacts DEF EntryShaped
<1>5. ASSUME NEW p \in Payments, notified[p] > 0
      PROVE  \E e \in list' : e.tx = p \/ e.block > mined[p]
  <2>1. PICK x \in list : x.tx = p \/ x.block > mined[p]
    BY <1>5 DEF ReportInv, Remembered
  <2>2. CASE list' = list
    BY <2>1, <2>2
  <2>3. CASE list' = Newest(added)
    <3>1. x.tx = p /\ x.block > 0 => x.block = mined[p]
      BY CoverFacts, PaymentPlace DEF EntryTrue, FeedInv
    <3>2. mined[p] \in Nat /\ x \in added
      BY CoverFacts, NotifiedNat
    <3> HIDE DEF added
    <3> QED
      BY <1>3, <1>4, <2>1, <2>3, <3>1, <3>2, RoomyTruncation DEF Roomy
  <2> QED
    BY <1>1, <2>2, <2>3
<1> QED
  BY <1>1, <1>5 DEF ReportInv, Remembered, FetchSteps, NotifiedAtMostOnce

\* A fetch that stores its result finds no reported payment again.
LEMMA StoreReports ==
    ASSUME StorageWorks, FeedInv, CoverInv, ReportInv, Roomy', Store
    PROVE  ReportInv'
<1>1. /\ step = "store" /\ UNCHANGED <<mined, caller, known, notified>>
      /\ list' = Newest(scan.new)
      /\ Return(Newest(scan.new))
  BY NothingFails DEF Store, Return, Returned, chainVars
<1>2. scan.cached = list
  BY <1>1, NothingFails DEF CoverInv, FetchInv, FetchSteps
<1>3. /\ \A c \in list :
             \E e \in scan.new : SameKey(c, e) /\ (c.block > 0 => e.block = c.block)
      /\ \A e \in scan.new : \/ \E c \in list : SameKey(c, e)
                             \/ e.block > 0 /\ Scanned(e.block, list)
  BY <1>1, <1>2 DEF CoverInv, FetchInv, MergedInv
<1>4. /\ scan.new \in SUBSET Entry /\ UniqueKeys(scan.new)
      /\ \A e \in scan.new : EntryTrue(e) /\ (e.tx \in Payments <=> e.type = "TransferIn")
  BY CoverFacts DEF CoverInv, ShapeInv, EntryShaped, InHand
<1>5. ASSUME NEW p \in Payments, notified[p] > 0
      PROVE  \E e \in list' : e.tx = p \/ e.block > mined[p]
  <2>1. PICK c \in list : c.tx = p \/ c.block > mined[p]
    BY <1>5 DEF ReportInv, Remembered
  <2>2. PICK x \in scan.new : SameKey(c, x) /\ (c.block > 0 => x.block = c.block)
    BY <1>3
  <2>3. mined[p] \in Nat /\ c.block \in Nat
    BY CoverFacts, NotifiedNat
  <2>4. x.tx = p \/ x.block > mined[p]
    BY <2>1, <2>2, <2>3 DEF SameKey
  <2>5. x.tx = p /\ x.block > 0 => x.block = mined[p]
    BY <1>4, PaymentPlace DEF EntryTrue, FeedInv
  <2> QED
    BY <1>1, <1>4, <2>3, <2>4, <2>5, RoomyTruncation DEF Roomy
<1>6. ASSUME step' = "report", NEW e \in fresh'
      PROVE  e \in list' /\ notified[e.tx] = 0
  <2>1. /\ caller = "poll" /\ e \in Newest(scan.new)
        /\ e.type \in Incoming /\ e.tx \notin known
    BY <1>1, <1>6 DEF Return, Unseen
  <2>2. e \in scan.new /\ e \in Entry
    BY <1>4, <2>1 DEF Newest
  <2>3. e.tx \in Payments
    BY <1>4, <2>1, <2>2 DEF Incoming, Entry
  <2>4. \A c \in list : c.tx \in known
    BY <1>1, <2>1 DEF ReportInv, FetchSteps
  <2>5. e.block > 0 /\ Scanned(e.block, list)
    BY <1>3, <2>1, <2>2, <2>4 DEF SameKey
  <2>6. ASSUME notified[e.tx] > 0 PROVE FALSE
    <3>1. PICK c \in list : c.tx = e.tx \/ c.block > mined[e.tx]
      BY <2>3, <2>6 DEF ReportInv, Remembered
    <3>2. e.block = mined[e.tx]
      BY <1>4, <2>2, <2>3, <2>5, PaymentPlace DEF EntryTrue, FeedInv
    <3>3. c.block \in Nat /\ e.block \in Nat
      BY <2>2, CoverFacts
    <3>4. c.block <= e.block
      BY <2>5 DEF Scanned
    <3> QED
      BY <2>1, <2>4, <3>1, <3>2, <3>3, <3>4
  <2> QED
    BY <1>1, <2>1, <2>3, <2>6, NotifiedNat
<1>7. step' \in {"report", "free"}
  BY <1>1 DEF Return
<1> QED
  BY <1>1, <1>5, <1>6, <1>7 DEF ReportInv, Remembered, FetchSteps, NotifiedAtMostOnce

\* A fetch that fails returns what the poll thread already knows.
LEMMA FetchFailsReports ==
    ASSUME StorageWorks, FeedInv, CoverInv, ReportInv, FetchFails
    PROVE  ReportInv'
<1>1. /\ step \in {"query1", "query2"}
      /\ UNCHANGED <<list, mined, caller, known, notified>>
      /\ Return(scan.cached)
  BY DEF FetchFails, Return, Returned, chainVars
<1>2. scan.cached = list
  BY <1>1, NothingFails DEF CoverInv, FetchInv, FetchSteps
<1>3. caller = "poll" => Unseen(list) = {}
  BY <1>1 DEF ReportInv, FetchSteps, Unseen
<1>4. step' = "free" /\ UNCHANGED fresh
  BY <1>1, <1>2, <1>3 DEF Return
<1> QED
  BY <1>1, <1>4, ReportQuiet DEF FetchSteps

\* A report is the first of each of its payments, and each is in the list.
LEMMA ReportReports ==
    ASSUME StorageWorks, FeedInv, CoverInv, ReportInv, Report
    PROVE  ReportInv'
<1>1. /\ step = "report" /\ step' = "free" /\ UNCHANGED <<list, mined>>
      /\ notified' = [p \in Payments |->
                         IF \E e \in fresh : e.tx = p THEN notified[p] + 1
                                                    ELSE notified[p]]
  BY DEF Report, Goto, chainVars
<1>2. ASSUME NEW p \in Payments, NEW e \in fresh, e.tx = p
      PROVE  notified'[p] = 1 /\ mined[p] > 0 /\ Remembered(p)
  <2>1. e \in list /\ notified[p] = 0
    BY <1>1, <1>2 DEF ReportInv
  <2>2. e.type = "TransferIn" /\ EntryTrue(e) /\ e.block # 0 /\ e.block \in Nat
    BY <1>2, <2>1, CoverFacts DEF EntryShaped
  <2>3. e.block = mined[p] /\ mined[p] > 0
    BY <1>2, <2>2, PaymentPlace DEF EntryTrue, FeedInv
  <2> QED
    BY <1>1, <1>2, <2>1, <2>3 DEF Remembered
<1>3. ASSUME NEW p \in Payments
      PROVE  /\ notified'[p] > 0 => mined[p] > 0 /\ Remembered(p)
             /\ notified'[p] <= 1
  <2>1. CASE \E e \in fresh : e.tx = p
    BY <1>2, <2>1
  <2>2. CASE ~ \E e \in fresh : e.tx = p
    BY <1>1, <2>2 DEF ReportInv, NotifiedAtMostOnce
  <2> QED
    BY <2>1, <2>2
<1> QED
  BY <1>1, <1>3 DEF ReportInv, Remembered, FetchSteps, NotifiedAtMostOnce

\* Every step that leaves the list roomy keeps what was reported.
LEMMA ReportStep ==
    ASSUME StorageWorks, FeedInv, CoverInv, ReportInv, Roomy', [Next]_vars
    PROVE  ReportInv'
<1>1. CASE (\E t \in Withdrawals : Withdraw(t)) /\ UNCHANGED bridgeVars
  BY <1>1, WithdrawReports
<1>2. CASE Store
  BY <1>2, StoreReports
<1>3. CASE FetchFails
  BY <1>3, FetchFailsReports
<1>4. CASE Report
  BY <1>4, ReportReports
<1> QED
  BY <1>1, <1>2, <1>3, <1>4, BridgeStepReports DEF Next, ChainStep

\* Nothing is reported at first.
LEMMA ReportInit == Init => ReportInv
<1> SUFFICES ASSUME Init PROVE ReportInv
  OBVIOUS
<1>1. \A p \in Payments : notified[p] = 0
  BY DEF Init
<1>2. step = "free"
  BY DEF Init, CacheInit
<1> QED
  BY <1>1, <1>2 DEF ReportInv, FetchSteps, NotifiedAtMostOnce

\* Where storage works, no step that leaves the list roomy forgets a report: the
\* inductive step behind the poll thread's notifications.
THEOREM ReportsStay == StorageWorks => (Spec => ReportsRemembered)
<1> SUFFICES ASSUME StorageWorks PROVE Spec => ReportsRemembered
  OBVIOUS
<1>1. FeedInv /\ CoverInv /\ [Next]_vars => [ReportInv /\ Roomy' => ReportInv']_vars
  BY ReportStep
<1> QED
  BY <1>1, FeedInvariance, CoverInvariance, PTL DEF Spec, ReportsRemembered

\* Where storage works and the list stays roomy, the poll thread notifies each
\* incoming payment once at most: the app's own fetches, locks, failed requests,
\* truncation, withdrawals and process deaths do not bring a payment back.
THEOREM ReportedOnce == StorageWorks => (Spec /\ []Roomy => []NotifiedAtMostOnce)
<1> SUFFICES ASSUME StorageWorks PROVE Spec /\ []Roomy => []NotifiedAtMostOnce
  OBVIOUS
<1>1. FeedInv /\ CoverInv /\ ReportInv /\ Roomy' /\ [Next]_vars => ReportInv'
  BY ReportStep
<1>2. ReportInv => NotifiedAtMostOnce
  BY DEF ReportInv
<1> QED
  BY <1>1, <1>2, ReportInit, FeedInvariance, CoverInvariance, PTL DEF Spec

=============================================================================
