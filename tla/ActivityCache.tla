---------------------------- MODULE ActivityCache ----------------------------
(***************************************************************************)
(* The activity list of the wallet: the cache in the platform storage, the *)
(* entries the wallet adds for its own transactions before they are mined, *)
(* and get_activity, which brings the cache up to date by two event        *)
(* queries and the receipts of the entries that are still open (core.rs    *)
(* and rpc.rs).  Every one of these requests is answered at the head the   *)
(* chain has by then.                                                      *)
(*                                                                         *)
(* A transaction is a number, its place among those of one block.  An      *)
(* incoming payment emits one event; a withdrawal to someone else emits    *)
(* its own and, for the service fee, a transfer.                           *)
(***************************************************************************)
EXTENDS Integers, FiniteSets

CONSTANTS Payments,     \* transactions of others that pay this wallet
          Withdrawals,  \* transactions of this wallet
          Limit,        \* entries the list keeps, 20 in the code
          Fallible,     \* what may fail in this instance
          MaxBlocks     \* bound: blocks in a behaviour

Txs == Payments \cup Withdrawals

ASSUME ActivityAssumption ==
    /\ Txs \subseteq Nat
    /\ IsFiniteSet(Txs)
    /\ Payments \cap Withdrawals = {}
    /\ Limit \in Nat \ {0}
    /\ Fallible \subseteq {"rpc", "store", "load"}
    /\ MaxBlocks \in Nat

VARIABLES head,       \* the latest block
          mined,      \* the block of a transaction, 0 before it has one
          underway,   \* withdrawals executed in the block that is not final
          reverted,   \* transactions executed without effect
          rejected,   \* withdrawals the sequencer has refused
          submitted,  \* withdrawals the paymaster has accepted
          list,       \* ACTIVITY_CACHE_KEY in the platform storage
          step,       \* where the holder of the core mutex is, or "free"
          scan        \* locals of get_activity

chainVars == <<head, mined, underway, reverted, rejected, submitted>>
cacheVars == <<chainVars, list, step, scan>>

MayFail(call) == call \in Fallible

Entry == [tx : Txs, type : {"TransferIn", "Withdraw", "TransferOut"},
          block : 0 .. MaxBlocks, status : {"Pending", "Confirmed", "Failed"}]

\* The cache it has loaded, the entries it has merged, those of them whose
\* receipt it has to ask for, and, for the properties, the head it saw first.
Scan == [cached : SUBSET Entry, new : SUBSET Entry, todo : SUBSET Entry,
         head : 0 .. MaxBlocks]

NoScan == [cached |-> {}, new |-> {}, todo |-> {}, head |-> 0]

-----------------------------------------------------------------------------
(* The chain *)

EventTypes(t) ==
    IF t \in reverted THEN {}
    ELSE IF t \in Payments THEN {"TransferIn"} ELSE {"Withdraw", "TransferOut"}

Waiting(t) == mined[t] = 0 /\ t \notin underway \cup rejected

\* A withdrawal is executed in the block under way, with an effect or without.
PreConfirm(t) ==
    /\ head < MaxBlocks
    /\ t \in submitted
    /\ Waiting(t)
    /\ underway' = underway \cup {t}
    /\ reverted' \in {reverted, reverted \cup {t}}
    /\ UNCHANGED <<head, mined, rejected, submitted, list, step, scan>>

\* A withdrawal is refused and will be in no block.
Reject(t) ==
    /\ t \in submitted
    /\ Waiting(t)
    /\ rejected' = rejected \cup {t}
    /\ UNCHANGED <<head, mined, underway, reverted, submitted, list, step, scan>>

\* The block under way becomes final, with what has been executed in it and
\* with more payments and withdrawals, some of which revert.
MineBlock ==
    /\ head < MaxBlocks
    /\ head' = head + 1
    /\ \E late \in SUBSET {t \in Payments \cup submitted : Waiting(t)} :
           /\ late \cup underway # {}
           /\ mined' = [t \in Txs |-> IF t \in late \cup underway
                                       THEN head' ELSE mined[t]]
           /\ \E failing \in SUBSET (late \cap Withdrawals) :
                  reverted' = reverted \cup failing
    /\ underway' = {}
    /\ UNCHANGED <<rejected, submitted, list, step, scan>>

\* from_block: the scan begins at the highest block in the cache, or, when the
\* cache is empty, at the wallet's birthday, before all blocks of the model.
Scanned(block, cached) == \A e \in cached : e.block <= block

Event(t, type) ==
    [tx |-> t, type |-> type, block |-> mined[t], status |-> "Confirmed"]

\* fetch_raw_events: the events of a type from there to the head.
Events(type, cached) ==
    {Event(t, type) : t \in {u \in Txs : /\ mined[u] > 0
                                         /\ Scanned(mined[u], cached)
                                         /\ type \in EventTypes(u)}}

-----------------------------------------------------------------------------
(* The list *)

\* Open entries come before settled ones, then the higher block; within a
\* block and among open entries the order is that of the transactions.
Height(e) == IF e.block = 0 THEN MaxBlocks + 1 ELSE e.block

Before(a, b) ==
    \/ Height(a) > Height(b)
    \/ Height(a) = Height(b) /\ a.block = 0 /\ a.tx > b.tx
    \/ Height(a) = Height(b) /\ a.block # 0 /\ a.tx < b.tx
    \/ Height(a) = Height(b) /\ a.tx = b.tx
         /\ a.type = "Withdraw" /\ b.type = "TransferOut"

\* Sorted newest first and truncated.
Newest(entries) ==
    {e \in entries : Cardinality({d \in entries : Before(d, e)}) < Limit}

\* get_cached_activity: a storage error reads as an empty list.
Loaded == {list} \cup (IF MayFail("load") THEN {{}} ELSE {})

\* A store that fails, or dies, leaves the old list or, where the platform
\* deletes before it adds, none; get_activity ignores its result.
AfterFailedStore == IF MayFail("store") THEN {list, {}} ELSE {list}

Stored(entries) ==
    list' \in {entries} \cup (IF MayFail("store") THEN {list, {}} ELSE {})

\* Mutant: a fee stays in the list beside its withdrawal.
MutantFeeStays(new) == new

\* The transfer that pays the fee of a withdrawal is part of that withdrawal.
MergeFees(new) ==
    {e \in new : ~ (e.type = "TransferOut" /\
                    \E w \in new : w.type = "Withdraw" /\ w.tx = e.tx)}

\* Mutant: fresh entries replace the cache.
MutantForgetsCached(new, cached) == new

\* Fresh entries replace cached ones.
Merge(new, cached) ==
    new \cup {c \in cached : \A n \in new : n.tx # c.tx \/ n.type # c.type}

Open(e) == e.block = 0 \/ e.status = "Pending"

Outcome(t) == IF t \in reverted THEN "Failed" ELSE "Confirmed"

Answer(statuses, blocks) == [status : statuses, block : blocks]

NotFound == Answer({"Pending"}, {0})

\* Mutants: a transaction that is not found has failed, the execution status
\* of a receipt is not looked at, and only a successful receipt closes an entry.
MutantMissingIsFailed(t) ==
    IF mined[t] > 0 THEN Answer({Outcome(t)}, {mined[t]})
                    ELSE Answer({"Failed"}, {0})

MutantIncludedIsConfirmed(t) ==
    IF mined[t] > 0 THEN Answer({"Confirmed"}, {mined[t]}) ELSE NotFound

MutantRevertedStaysOpen(t) ==
    IF mined[t] > 0 /\ t \notin reverted THEN Answer({"Confirmed"}, {mined[t]})
                                         ELSE NotFound

\* fetch_tx_activity_status: what it makes of a receipt.  In the block under
\* way a transaction may not be found, and if it is, a node calls it
\* ACCEPTED_ON_L2 or not yet, with the number of the block or without.
TxStatus(t) ==
    IF mined[t] > 0 THEN Answer({Outcome(t)}, {mined[t]})
    ELSE NotFound \cup
        (IF t \in rejected THEN Answer({"Failed"}, {0})
         ELSE IF t \notin underway THEN {}
         ELSE Answer(IF t \in reverted THEN {"Failed"}
                                       ELSE {"Pending", "Confirmed"},
                     {0, head + 1}))

\* The status is taken over, the block only by an entry that has none.
WithReceipt(e, answer) ==
    [e EXCEPT !.status = answer.status,
              !.block = IF @ = 0 THEN answer.block ELSE @]

-----------------------------------------------------------------------------
(* get_activity, under the core mutex *)

Goto(next) == step' = next /\ UNCHANGED <<chainVars, list>>

\* The cache is loaded.
StartFetch ==
    /\ \E cached \in Loaded :
           scan' = [NoScan EXCEPT !.cached = cached]
    /\ Goto("query1")

\* Funds, withdrawals and incoming transfers.
Query1 ==
    /\ step = "query1"
    /\ scan' = [scan EXCEPT !.head = head,
                           !.new = Events("TransferIn", scan.cached)
                                     \cup Events("Withdraw", scan.cached)]
    /\ Goto("query2")

AskOrStore(todo) == Goto(IF todo = {} THEN "store" ELSE "receipts")

\* Outgoing transfers, then both results and the cache are merged.
Query2 ==
    /\ step = "query2"
    /\ LET found  == scan.new \cup Events("TransferOut", scan.cached)
           merged == Merge(MergeFees(found), scan.cached)
           todo   == {e \in merged : Open(e)}
       IN  /\ scan' = [scan EXCEPT !.new = merged, !.todo = todo]
           /\ AskOrStore(todo)

\* The entry that takes the place of an open one.
Receipt(e, answer) ==
    /\ step = "receipts"
    /\ scan' = [scan EXCEPT !.new = (@ \ {e}) \cup {answer}, !.todo = @ \ {e}]
    /\ AskOrStore(scan.todo \ {e})

\* One receipt; one that cannot be fetched changes nothing.
Receipts ==
    \E e \in scan.todo :
        \/ \E answer \in TxStatus(e.tx) : Receipt(e, WithReceipt(e, answer))
        \/ MayFail("rpc") /\ Receipt(e, e)

\* What get_activity returns, Ok or Err, when a query fails: the cache.
Returned == IF step = "store" THEN Newest(scan.new) ELSE scan.cached

CacheInit ==
    /\ head = 0
    /\ mined = [t \in Txs |-> 0]
    /\ underway = {}
    /\ reverted = {}
    /\ rejected = {}
    /\ submitted = {}
    /\ list = {}
    /\ step = "free"
    /\ scan = NoScan

-----------------------------------------------------------------------------
(* add_optimistic_activity *)

\* A withdrawal is accepted, and the list shows it before the chain does;
\* after a lost answer it is accepted and the list does not know.
Submit(t) ==
    /\ t \notin submitted
    /\ \A w \in Withdrawals \ submitted : t <= w
    /\ submitted' = submitted \cup {t}
    /\ \/ \E cached \in Loaded :
              Stored(Newest(cached \cup
                  {[tx |-> t, type |-> "Withdraw", block |-> 0,
                    status |-> "Pending"]}))
       \/ MayFail("rpc") /\ UNCHANGED list
    /\ UNCHANGED <<head, mined, underway, reverted, rejected, step, scan>>

=============================================================================
