---------------------------- MODULE BridgePolling ----------------------------
(***************************************************************************)
(* The bridge's poll thread and the calls it competes with for the core    *)
(* mutex (oubli-bridge lib.rs): it refreshes the balance, fetches the      *)
(* activity and reports the incoming payments it has not seen; the app     *)
(* fetches the activity as well, and locks and unlocks the wallet.  step   *)
(* is where the holder of the mutex is; polling is an atomic flag that the *)
(* mutex does not guard.                                                   *)
(***************************************************************************)
EXTENDS ActivityCache

CONSTANT MaxCrashes  \* bound: process deaths

ASSUME PollingAssumption == MaxCrashes \in Nat

VARIABLES polling,    \* polling_active
          first,      \* the poll thread's first_poll
          unlocked,   \* active_account and rpc are present
          locking,    \* a lock has cleared the flag and waits for the mutex
          caller,     \* who fetches the activity, "poll" or "app"
          known,      \* the transactions the poll thread saw before its fetch
          fresh,      \* the entries it is about to report
          notified,   \* history: reports of each payment
          overtaken,  \* history: a fetch has stored what came a block or
                      \* more after its first query, see Overtaken
          crashes     \* process deaths so far

bridgeVars == <<polling, first, unlocked, locking, caller, known, fresh,
                notified, overtaken, crashes>>
vars == <<cacheVars, bridgeVars>>

\* Mutant: every activity is reported as a payment.
MutantIncoming == {"TransferIn", "Fund", "Withdraw", "TransferOut"}

\* What the poll thread reports.
Incoming == {"TransferIn", "Fund"}

Init ==
    /\ CacheInit
    /\ polling = FALSE
    /\ first = TRUE
    /\ unlocked = FALSE
    /\ locking = FALSE
    /\ caller = "app"
    /\ known = {}
    /\ fresh = {}
    /\ notified = [p \in Payments |-> 0]
    /\ overtaken = FALSE
    /\ crashes = 0

Histories == UNCHANGED <<notified, overtaken, crashes>>

-----------------------------------------------------------------------------
(* Lock and unlock *)

\* handle_unlock_biometric and handle_complete_onboarding: the flag is set
\* before the mutex is released.
Unlock ==
    /\ step = "free"
    /\ ~unlocked
    /\ unlocked' = TRUE
    /\ Goto("unlocking")
    /\ UNCHANGED <<scan, polling, first, locking, caller, known, fresh>>
    /\ Histories

StartPolling ==
    /\ step = "unlocking"
    /\ polling' = TRUE
    /\ Goto("free")
    /\ UNCHANGED <<scan, first, unlocked, locking, caller, known, fresh>>
    /\ Histories

\* handle_lock clears the flag without the mutex, then waits for the mutex.
StartLock ==
    /\ ~locking
    /\ polling' = FALSE
    /\ locking' = TRUE
    /\ UNCHANGED <<cacheVars, first, unlocked, caller, known, fresh>>
    /\ Histories

Lock ==
    /\ step = "free"
    /\ locking
    /\ locking' = FALSE
    /\ unlocked' = FALSE
    /\ UNCHANGED <<cacheVars, polling, first, caller, known, fresh>>
    /\ Histories

-----------------------------------------------------------------------------
(* The poll thread *)

\* A tick without the flag.
PollIdle ==
    /\ ~polling
    /\ ~first
    /\ caller = "poll" => step = "free"
    /\ first' = TRUE
    /\ UNCHANGED <<cacheVars, polling, unlocked, locking, caller, known, fresh>>
    /\ Histories

\* A tick that gets the mutex: the cached transactions are known, whatever
\* the wallet's state, and handle_refresh_balance runs.
PollStart ==
    /\ polling
    /\ step = "free"
    /\ caller' = "poll"
    /\ \E cached \in Loaded : known' = {e.tx : e \in cached}
    /\ Goto("refresh")
    /\ UNCHANGED <<scan, polling, first, unlocked, locking, fresh>>
    /\ Histories

\* The first poll ends here, and so does any poll of a locked wallet.
AfterRefresh ==
    /\ step = "refresh"
    /\ first' = FALSE
    /\ IF first \/ ~unlocked THEN Goto("free") /\ UNCHANGED scan
                             ELSE StartFetch
    /\ UNCHANGED <<polling, unlocked, locking, caller, known, fresh>>
    /\ Histories

\* The app asks for the activity.
AppFetch ==
    /\ step = "free"
    /\ unlocked
    /\ caller' = "app"
    /\ StartFetch
    /\ UNCHANGED <<polling, first, unlocked, locking, known, fresh>>
    /\ Histories

\* Mutant: every incoming payment in the list is reported.
MutantUnseen(events) == {e \in events : e.type \in Incoming}

\* The entries to report.
Unseen(events) == {e \in events : e.type \in Incoming /\ e.tx \notin known}

\* get_activity returns; the poll thread goes on with what it has not seen.
Return(events) ==
    /\ scan' = NoScan
    /\ IF caller = "poll" /\ Unseen(events) # {}
         THEN step' = "report" /\ fresh' = Unseen(events)
         ELSE step' = "free" /\ UNCHANGED fresh
    /\ UNCHANGED <<chainVars, polling, first, unlocked, locking, caller, known,
                   notified, crashes>>

\* A block above the one that follows the head the first query saw, or, from
\* there on, a fee without its withdrawal.
Overtaken(entries) ==
    \E e \in entries : \/ e.block > scan.head + 1
                       \/ e.block > scan.head /\ e.type = "TransferOut"

Store ==
    /\ step = "store"
    /\ Stored(Newest(scan.new))
    /\ overtaken' = (overtaken \/ Overtaken(list'))
    /\ Return(Returned)

FetchFails ==
    /\ step \in {"query1", "query2"}
    /\ MayFail("rpc")
    /\ UNCHANGED <<list, overtaken>>
    /\ Return(Returned)

Report ==
    /\ step = "report"
    /\ notified' = [p \in Payments |->
                       IF \E e \in fresh : e.tx = p THEN notified[p] + 1
                                                  ELSE notified[p]]
    /\ fresh' = {}
    /\ Goto("free")
    /\ UNCHANGED <<scan, polling, first, unlocked, locking, caller, known,
                   overtaken, crashes>>

-----------------------------------------------------------------------------
\* The process dies and starts again.
Crash ==
    /\ crashes < MaxCrashes
    /\ crashes' = crashes + 1
    /\ list' \in IF step = "store" THEN AfterFailedStore ELSE {list}
    /\ step' = "free"
    /\ scan' = NoScan
    /\ polling' = FALSE
    /\ first' = TRUE
    /\ unlocked' = FALSE
    /\ locking' = FALSE
    /\ caller' = "app"
    /\ known' = {}
    /\ fresh' = {}
    /\ UNCHANGED <<chainVars, notified, overtaken>>

Fetching == Query1 \/ Query2 \/ Receipts

Withdraw(t) == step = "free" /\ unlocked /\ Submit(t)

Next ==
    \/ /\ \/ MineBlock \/ Fetching
          \/ \E t \in Withdrawals : Withdraw(t) \/ PreConfirm(t) \/ Reject(t)
       /\ UNCHANGED bridgeVars
    \/ Unlock \/ StartPolling \/ StartLock \/ Lock
    \/ PollIdle \/ PollStart \/ AfterRefresh \/ AppFetch
    \/ Store \/ FetchFails \/ Report
    \/ Crash

Spec == Init /\ [][Next]_vars

-----------------------------------------------------------------------------
(* Properties *)

TypeOK ==
    /\ head \in 0 .. MaxBlocks
    /\ mined \in [Txs -> 0 .. MaxBlocks]
    /\ underway \subseteq Withdrawals
    /\ reverted \subseteq Withdrawals
    /\ rejected \subseteq Withdrawals
    /\ submitted \subseteq Withdrawals
    /\ list \subseteq Entry
    /\ scan \in Scan
    /\ step \in {"free", "unlocking", "refresh", "query1", "query2",
                 "receipts", "store", "report"}
    /\ polling \in BOOLEAN /\ first \in BOOLEAN
    /\ unlocked \in BOOLEAN /\ locking \in BOOLEAN
    /\ caller \in {"poll", "app"}
    /\ known \subseteq Txs
    /\ fresh \subseteq Entry
    /\ notified \in [Payments -> Nat]
    /\ overtaken \in BOOLEAN
    /\ crashes \in 0 .. MaxCrashes

\* The block a transaction is or will be in, 0 before it is executed.
Place(t) == IF t \in underway THEN head + 1 ELSE mined[t]

\* What an entry says of its transaction is so and stays so, though it may say
\* it before the block is final: the block it is in, that it had its effect, or
\* that it never will.
EntryTrue(e) ==
    /\ e.block > 0 => e.block = Place(e.tx)
    /\ e.status = "Confirmed" => Place(e.tx) > 0 /\ e.tx \notin reverted
    /\ e.status = "Failed" => e.tx \in reverted \cup rejected

ListTrue == \A e \in list : EntryTrue(e)

\* The inductive invariant behind it: what a fetch under way has in hand is
\* true as well, however long ago it was read.
ChainInv ==
    /\ \A t \in Txs : mined[t] <= head
    /\ \A t \in underway : mined[t] = 0 /\ t \in submitted \ rejected
    /\ \A t \in reverted : mined[t] > 0 \/ t \in underway
    /\ \A t \in rejected : mined[t] = 0
    /\ underway # {} => head < MaxBlocks

InHand(s) == s.cached \cup s.new \cup s.todo

ScanTrue == \A e \in InHand(scan) : EntryTrue(e)

FeedInv == TypeOK /\ ChainInv /\ ListTrue /\ ScanTrue

\* What the poll thread is about to report is an incoming payment in the block
\* it names, and nothing else has ever been reported, whatever fails.
ReportTrue ==
    /\ \A e \in fresh : e.tx \in Payments /\ e.block > 0 /\ EntryTrue(e)
    /\ \A p \in Payments : notified[p] > 0 => mined[p] > 0

\* As long as storage works and the list is roomy, a payment is reported once
\* at most, however the poll thread, the app's own fetches, locks, truncation
\* and process deaths interleave.  A payment that leaves the list because it is
\* full must not come back: the list has to hold a higher block by then.
NotifiedAtMostOnce == \A p \in Payments : notified[p] <= 1

\* The list has room, or what it dropped is below the highest block it holds.
\* It is not roomy only when it is full of open entries and the entries of a
\* single block.
Roomy ==
    \/ Cardinality(list) < Limit
    \/ \E d, e \in list : 0 < d.block /\ d.block < e.block

\* rpc.rs:337-339: the next scan may begin at the highest cached block since
\* everything below it is in the cache, unless the list has been full.
NothingSkipped ==
    \A t \in Txs :
        (mined[t] > 0 /\ ~Scanned(mined[t], list)) =>
            \/ t \in reverted
            \/ \E e \in list : e.tx = t
            \/ Cardinality(list) = Limit

\* rpc.rs:387-389: a withdrawal and its fee are one entry.
OneEntryEach == \A d, e \in list : d.tx = e.tx => d = e

\* Both hold as long as no fetch was overtaken by new blocks.
CompleteUnlessOvertaken == overtaken \/ (NothingSkipped /\ OneEntryEach)

-----------------------------------------------------------------------------
(* The inductive invariant behind CompleteUnlessOvertaken: what a fetch has  *)
(* found and merged at each of its steps.                                    *)

FetchSteps == {"query1", "query2", "receipts", "store"}

SameKey(d, e) == d.tx = e.tx /\ d.type = e.type

UniqueKeys(entries) == \A d, e \in entries : SameKey(d, e) => d = e

EntryShaped(e) ==
    /\ e.tx \in Payments <=> e.type = "TransferIn"
    /\ e.block = 0 => e.type = "Withdraw"
    /\ e.tx \in Withdrawals => e.tx \in submitted

ShapeInv ==
    /\ \A t \in Withdrawals : mined[t] > 0 => t \in submitted
    /\ \A e \in list \cup InHand(scan) : EntryShaped(e)
    /\ UniqueKeys(list)
    /\ UniqueKeys(scan.new)

\* A transaction that had its effect.
Effective(t) == mined[t] > 0 /\ t \notin reverted

\* The fetch has an entry for all that was there at its first query, from the
\* block its scan began with.
FoundAll ==
    \A t \in Txs :
        (Effective(t) /\ mined[t] <= scan.head /\ Scanned(mined[t], scan.cached))
            => \E e \in scan.new : e.tx = t

\* Between the queries: incoming payments and withdrawals, settled.
QueriedInv ==
    step = "query2" =>
        /\ FoundAll
        /\ \A e \in scan.new : /\ e.type # "TransferOut"
                               /\ e.block > 0
                               /\ Scanned(e.block, scan.cached)

\* After the merge: every cached entry is still there and keeps its block, the
\* others were found, and a fee without its withdrawal is newer than the first
\* query.
MergedInv ==
    step \in {"receipts", "store"} =>
        /\ FoundAll
        /\ scan.todo \subseteq scan.new
        /\ \A c \in scan.cached :
               \E e \in scan.new :
                   SameKey(c, e) /\ (c.block > 0 => e.block = c.block)
        /\ \A e \in scan.new :
               \/ \E c \in scan.cached : SameKey(c, e)
               \/ /\ e.block > 0
                  /\ Scanned(e.block, scan.cached)
                  /\ e.type = "TransferOut" => e.block > scan.head

FetchInv ==
    /\ step \in FetchSteps => scan.cached \in Loaded /\ scan.head <= head
    /\ QueriedInv
    /\ MergedInv

\* The list has no fee of its own, and, below its highest block, it has every
\* transaction or is full.
Covered ==
    /\ \A e \in list : e.type # "TransferOut"
    /\ \A t \in Txs :
           (Effective(t) /\ \E e \in list : mined[t] < e.block) =>
               (\E e \in list : e.tx = t) \/ Cardinality(list) = Limit

CoverInv == ShapeInv /\ FetchInv /\ (overtaken \/ Covered)

-----------------------------------------------------------------------------
(* The inductive invariant behind NotifiedAtMostOnce, for a list that stays  *)
(* roomy.                                                                    *)

\* What keeps a payment from being found again as a new one.
Remembered(p) == \E e \in list : e.tx = p \/ e.block > mined[p]

ReportInv ==
    /\ \A p \in Payments : notified[p] > 0 => mined[p] > 0 /\ Remembered(p)
    /\ (caller = "poll" /\ step \in {"refresh"} \cup FetchSteps) =>
           \A e \in list : e.tx \in known
    /\ step = "report" => \A e \in fresh : e \in list /\ notified[e.tx] = 0
    /\ NotifiedAtMostOnce

\* A step that leaves the list roomy forgets no report: what was reported stays
\* in the list or below its highest block, the poll thread knows all that is in
\* the list while it fetches, and what it is about to report was never reported.
ReportsRemembered == [][ReportInv /\ Roomy' => ReportInv']_vars

-----------------------------------------------------------------------------
(* Fairness: the mutex holder goes on, the poll thread ticks, and a query  *)
(* tried for ever is answered.                                             *)

Answered(t) ==
    \E e \in scan.todo, answer \in TxStatus(t) :
        e.tx = t /\ Receipt(e, WithReceipt(e, answer))

Fairness ==
    /\ WF_vars(StartPolling \/ AfterRefresh \/ Store \/ FetchFails \/ Report
                 \/ (Receipts /\ UNCHANGED bridgeVars))
    /\ WF_vars(Lock)
    /\ WF_vars(PollStart)
    /\ SF_vars(Query1 /\ UNCHANGED bridgeVars)
    /\ SF_vars(Query2 /\ UNCHANGED bridgeVars)
    /\ \A t \in Withdrawals : SF_vars(Answered(t) /\ UNCHANGED bridgeVars)

FairSpec == Spec /\ Fairness

\* While the wallet stays unlocked an entry does not stay open once its
\* transaction has been included.
IncludedEntriesSettle ==
    <>[]unlocked =>
        \A t \in Withdrawals :
            [](mined[t] > 0 => <>(\A e \in list : e.tx = t => ~Open(e)))

=============================================================================
