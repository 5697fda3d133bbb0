--------------------------- MODULE WalletLifecycle ---------------------------
(***************************************************************************)
(* The life of an Oubli wallet: onboarding writes the keys to the platform *)
(* storage one by one, unlocking reads them back behind a biometric        *)
(* prompt, locking forgets them, and a new process starts from what the    *)
(* storage holds.  Translated from core.rs, oubli-auth's tier.rs and       *)
(* oubli-store.  A handler holds the core mutex from its first step to its *)
(* last, so pc is the step of the one handler that runs; any platform call *)
(* may fail and the process may die between any two of them.               *)
(*                                                                         *)
(* A seed stands for everything derived from it: its public key and its    *)
(* Starknet address are the seed again.  A key (KEK) is derived from a salt*)
(* alone, so a blob opens under exactly the salt it was wrapped with.      *)
(***************************************************************************)
EXTENDS Integers

CONSTANTS Seeds,      \* mnemonics a user may create or restore
          NoSeed,     \* nothing stored, or nothing in memory
          Fallible,   \* the platform calls that may fail in this instance
          Calls,      \* optional entry points of the bridge that are called
          MaxSalts,   \* bound: onboarding attempts, each draws a fresh salt
          MaxCrashes  \* bound: process deaths

ASSUME LifecycleAssumption ==
    /\ NoSeed \notin Seeds
    /\ Fallible \subseteq {"store", "load", "rpc", "biometric"}
    /\ Calls \subseteq {"lock", "updateRpc"}
    /\ MaxSalts \in Nat
    /\ MaxCrashes \in Nat

VARIABLES disk,     \* what the platform storage holds
          salts,    \* salts generated so far
          tier,     \* auth_state.tier
          account,  \* active_account, the seed it was derived from
          rpc,      \* whether there is an RPC client
          owner,    \* owner_public_key_hex
          address,  \* starknet_address_hex
          wstate,   \* wallet_state and the address it shows
          pc,       \* the step of the running handler, "idle" when none runs
          job,      \* the onboarding under way
          readied,  \* history: seeds whose wallet has been Ready
          crashes   \* process deaths so far

memory == <<tier, account, rpc, owner, address, wstate>>
vars == <<disk, salts, memory, pc, job, readied, crashes>>

MaybeSeed == Seeds \cup {NoSeed}
Blob == [salt : Nat, seed : MaybeSeed]
NoBlob == [salt |-> 0, seed |-> NoSeed]
Disk == [salt : Nat, blob : Blob, pubkey : MaybeSeed, address : MaybeSeed,
         birthday : BOOLEAN]

\* The keys handle_onboarding stores; pc is the one it stores next.
StoreSteps == {"salt", "blob", "pubkey", "address"}
OnboardingSteps == StoreSteps \cup {"connect", "birthday"}

\* What the stored blob decrypts to, which needs the salt it was wrapped with.
StoredSeed ==
    IF disk.blob.salt = disk.salt THEN disk.blob.seed ELSE NoSeed

MayFail(call) == call \in Fallible

\* The initial state of a process and the state after a lock.
StateOf(key) ==
    [label |-> IF key = NoSeed THEN "Onboarding" ELSE "Locked",
     address |-> NoSeed]

Showing(label) == [label |-> label, address |-> address]

Return == pc' = "idle"

-----------------------------------------------------------------------------
(* handle_onboarding *)

\* Mutant: onboarding is possible in every state.
MutantOnboardAnywhere(seed) ==
    /\ pc = "idle"
    /\ salts < MaxSalts
    /\ salts' = salts + 1
    /\ job' = [seed |-> seed, salt |-> salts + 1]
    /\ pc' = "salt"
    /\ UNCHANGED <<disk, memory, readied, crashes>>

\* The mnemonic is validated and the salt generated.  The apps show the
\* onboarding screens in this state only.
StartOnboarding(seed) ==
    /\ pc = "idle"
    /\ wstate.label = "Onboarding"
    /\ salts < MaxSalts
    /\ salts' = salts + 1
    /\ job' = [seed |-> seed, salt |-> salts + 1]
    /\ pc' = "salt"
    /\ UNCHANGED <<disk, memory, readied, crashes>>

UnchangedByStore == UNCHANGED <<salts, tier, account, rpc, wstate, job,
                                readied, crashes>>

StoreSalt ==
    /\ pc = "salt"
    /\ disk' = [disk EXCEPT !.salt = job.salt]
    /\ pc' = "blob"
    /\ UNCHANGED <<owner, address>>
    /\ UnchangedByStore

\* The display data is set in memory before it is stored.
StoreBlob ==
    /\ pc = "blob"
    /\ disk' = [disk EXCEPT !.blob = [salt |-> job.salt, seed |-> job.seed]]
    /\ pc' = "pubkey"
    /\ owner' = job.seed
    /\ address' = job.seed
    /\ UnchangedByStore

\* Mutant: the public key stays in memory.
MutantPubkeyNotStored ==
    /\ pc = "pubkey"
    /\ pc' = "address"
    /\ UNCHANGED <<disk, owner, address>>
    /\ UnchangedByStore

StorePubkey ==
    /\ pc = "pubkey"
    /\ disk' = [disk EXCEPT !.pubkey = job.seed]
    /\ pc' = "address"
    /\ UNCHANGED <<owner, address>>
    /\ UnchangedByStore

StoreAddress ==
    /\ pc = "address"
    /\ disk' = [disk EXCEPT !.address = job.seed]
    /\ pc' = "connect"
    /\ UNCHANGED <<owner, address>>
    /\ UnchangedByStore

\* The iOS keychain deletes the old item before it adds the new one, so a
\* store that fails, or dies, may leave the key without a value.
AfterFailedStore ==
    {disk} \cup CASE pc = "salt" -> {[disk EXCEPT !.salt = 0]}
                  [] pc = "blob" -> {[disk EXCEPT !.blob = NoBlob]}
                  [] pc = "pubkey" -> {[disk EXCEPT !.pubkey = NoSeed]}
                  [] pc = "address" -> {[disk EXCEPT !.address = NoSeed]}
                  [] OTHER -> {disk}

\* Mutant: the error of a store is dropped.
MutantStoreErrorIgnored ==
    /\ pc \in StoreSteps
    /\ MayFail("store")
    /\ disk' \in AfterFailedStore
    /\ pc' = CASE pc = "salt" -> "blob" [] pc = "blob" -> "pubkey"
               [] pc = "pubkey" -> "address" [] OTHER -> "connect"
    /\ UNCHANGED <<owner, address>>
    /\ UnchangedByStore

StoreFails ==
    /\ pc \in StoreSteps
    /\ MayFail("store")
    /\ disk' \in AfterFailedStore
    /\ Return
    /\ UNCHANGED <<owner, address>>
    /\ UnchangedByStore

Connect ==
    /\ pc = "connect"
    /\ rpc' = TRUE
    /\ account' = job.seed
    /\ pc' = "birthday"
    /\ UNCHANGED <<disk, salts, tier, owner, address, wstate, job, readied,
                   crashes>>

\* init_rpc keeps a client it already has; in onboarding and in unlocking it
\* fails before the handler goes on.
ConnectFails ==
    /\ pc \in {"connect", "reconnect"}
    /\ ~rpc /\ MayFail("rpc")
    /\ Return
    /\ UNCHANGED <<disk, salts, memory, job, readied, crashes>>

\* The birthday block is stored once; failures are ignored.
StoreBirthday ==
    /\ pc = "birthday"
    /\ \E known \in {disk.birthday, TRUE} :
           disk' = [disk EXCEPT !.birthday = known]
    /\ pc' = "finish"
    /\ UNCHANGED <<salts, memory, job, readied, crashes>>

\* The last step of onboarding and unlocking: after the sweeps the wallet is
\* Ready, and BiometricSuccess leaves T2 whether it applies or is denied.
Finish ==
    /\ pc = "finish"
    /\ tier' = "T2"
    /\ wstate' = Showing("Ready")
    /\ readied' = readied \cup {account}
    /\ Return
    /\ UNCHANGED <<disk, salts, account, rpc, owner, address, job, crashes>>

-----------------------------------------------------------------------------
(* handle_unlock_biometric *)

\* The apps never call it from the onboarding screens.
StartUnlock ==
    /\ pc = "idle"
    /\ wstate.label # "Onboarding"
    /\ pc' = "prompt"
    /\ UNCHANGED <<disk, salts, memory, job, readied, crashes>>

\* The prompt is cancelled, fails or is not available.
PromptFails ==
    /\ pc = "prompt"
    /\ MayFail("biometric")
    /\ Return
    /\ UNCHANGED <<disk, salts, memory, job, readied, crashes>>

\* Mutant: the success is reported before the tier is changed.
MutantTierNotRaised ==
    /\ pc = "prompt"
    /\ tier = "T0"
    /\ pc' = "open"
    /\ UNCHANGED <<disk, salts, memory, job, readied, crashes>>

PromptPasses ==
    /\ pc = "prompt"
    /\ tier = "T0"
    /\ tier' = "T2"
    /\ pc' = "open"
    /\ UNCHANGED <<disk, salts, account, rpc, owner, address, wstate, job,
                   readied, crashes>>

\* AuthState::apply denies BiometricSuccess in every other tier.
RejectUnlock ==
    /\ pc = "prompt"
    /\ tier # "T0"
    /\ Return
    /\ UNCHANGED <<disk, salts, memory, job, readied, crashes>>

\* Salt and blob are loaded, the blob opens, the account is derived.
OpenBlob ==
    /\ pc = "open"
    /\ StoredSeed # NoSeed
    /\ account' = StoredSeed
    /\ pc' = "reconnect"
    /\ UNCHANGED <<disk, salts, tier, rpc, owner, address, wstate, job,
                   readied, crashes>>

\* A key is missing or cannot be loaded, or the blob does not open.
OpenFails ==
    /\ pc = "open"
    /\ StoredSeed = NoSeed \/ MayFail("load")
    /\ Return
    /\ UNCHANGED <<disk, salts, memory, job, readied, crashes>>

Reconnect ==
    /\ pc = "reconnect"
    /\ rpc' = TRUE
    /\ pc' = "finish"
    /\ UNCHANGED <<disk, salts, tier, account, owner, address, wstate, job,
                   readied, crashes>>

-----------------------------------------------------------------------------
(* Between handlers *)

\* Mutants: the lock keeps the account, and the lock keeps the tier.
MutantLockKeepsAccount ==
    /\ "lock" \in Calls
    /\ pc = "idle"
    /\ rpc' = FALSE
    /\ tier' = "T0"
    /\ wstate' = StateOf(owner)
    /\ UNCHANGED <<disk, salts, account, owner, address, pc, job, readied,
                   crashes>>

MutantLockKeepsTier ==
    /\ "lock" \in Calls
    /\ pc = "idle"
    /\ account' = NoSeed
    /\ rpc' = FALSE
    /\ wstate' = StateOf(owner)
    /\ UNCHANGED <<disk, salts, tier, owner, address, pc, job, readied, crashes>>

\* handle_lock
Lock ==
    /\ "lock" \in Calls
    /\ pc = "idle"
    /\ account' = NoSeed
    /\ rpc' = FALSE
    /\ tier' = "T0"
    /\ wstate' = StateOf(owner)
    /\ UNCHANGED <<disk, salts, owner, address, pc, job, readied, crashes>>

\* update_rpc_url with an address the configuration accepts.
UpdateRpc ==
    /\ "updateRpc" \in Calls
    /\ pc = "idle"
    /\ rpc' \in {TRUE} \cup (IF MayFail("rpc") THEN {FALSE} ELSE {})
    /\ UNCHANGED <<disk, salts, tier, account, owner, address, wstate, pc, job,
                   readied, crashes>>

\* Mutant: a refresh does not ask for an account.
MutantRefreshWithoutAccount ==
    /\ pc = "idle"
    /\ rpc
    /\ wstate' = Showing("Ready")
    /\ readied' = readied \cup {account}
    /\ UNCHANGED <<disk, salts, tier, account, rpc, owner, address, pc, job,
                   crashes>>

\* handle_refresh_balance, by the user or the poll thread, or an operation:
\* when it succeeds it shows the account's balances.
Refresh ==
    /\ pc = "idle"
    /\ rpc
    /\ account # NoSeed
    /\ wstate' = Showing("Ready")
    /\ readied' = readied \cup {account}
    /\ UNCHANGED <<disk, salts, tier, account, rpc, owner, address, pc, job,
                   crashes>>

\* An operation that require_t2 lets in and that does not succeed.
OperationFails ==
    /\ pc = "idle"
    /\ tier = "T2"
    /\ account # NoSeed
    /\ wstate' \in {Showing("Processing"), [label |-> "Error", address |-> NoSeed]}
    /\ UNCHANGED <<disk, salts, tier, account, rpc, owner, address, pc, job,
                   readied, crashes>>

\* A key as the constructor reads it: an error counts as "not stored".
Read(stored) == {stored} \cup (IF MayFail("load") THEN {NoSeed} ELSE {})

\* The process dies, in the middle of a store perhaps, and starts again.
Restart ==
    /\ crashes < MaxCrashes
    /\ crashes' = crashes + 1
    /\ disk' \in AfterFailedStore
    /\ owner' \in Read(disk'.pubkey)
    /\ address' \in Read(disk'.address)
    /\ wstate' = StateOf(owner')
    /\ tier' = "T0"
    /\ account' = NoSeed
    /\ rpc' = FALSE
    /\ Return
    /\ UNCHANGED <<salts, job, readied>>

Init ==
    /\ disk = [salt |-> 0, blob |-> NoBlob, pubkey |-> NoSeed,
               address |-> NoSeed, birthday |-> FALSE]
    /\ salts = 0
    /\ tier = "T0"
    /\ account = NoSeed
    /\ rpc = FALSE
    /\ owner = NoSeed
    /\ address = NoSeed
    /\ wstate = StateOf(NoSeed)
    /\ pc = "idle"
    /\ job = NoBlob
    /\ readied = {}
    /\ crashes = 0

Onboarding ==
    \/ \E seed \in Seeds : StartOnboarding(seed)
    \/ StoreSalt \/ StoreBlob \/ StorePubkey \/ StoreAddress \/ StoreFails
    \/ Connect \/ ConnectFails \/ StoreBirthday \/ Finish

Unlocking ==
    \/ StartUnlock \/ PromptFails \/ PromptPasses \/ RejectUnlock
    \/ OpenBlob \/ OpenFails \/ Reconnect

Next ==
    \/ Onboarding \/ Unlocking
    \/ Lock \/ UpdateRpc \/ Refresh \/ OperationFails \/ Restart

Spec == Init /\ [][Next]_vars

-----------------------------------------------------------------------------
(* Properties *)

TypeOK ==
    /\ disk \in Disk
    /\ salts \in 0 .. MaxSalts
    /\ tier \in {"T0", "T2"}
    /\ account \in MaybeSeed
    /\ rpc \in BOOLEAN
    /\ owner \in MaybeSeed
    /\ address \in MaybeSeed
    /\ wstate \in [label : {"Onboarding", "Locked", "Ready", "Processing",
                            "Error"}, address : MaybeSeed]
    /\ pc \in OnboardingSteps \cup {"idle", "finish", "prompt", "open",
                                    "reconnect"}
    /\ job \in Blob
    /\ readied \subseteq Seeds
    /\ crashes \in 0 .. MaxCrashes

\* The account that signs and proves is always the one whose seed the storage
\* opens to: no step of an onboarding that failed or died half way, of a
\* second attempt after it, or of an unlock leaves the wallet working with
\* keys that would be gone after a restart.
AccountIsStored == account # NoSeed => StoredSeed = account

\* Between handlers the keys are in memory only behind a biometric success
\* (or the onboarding that made them), and a wallet that presents itself as
\* unlocked has them: require_t2 never fails in Ready.
KeysMatchTier ==
    /\ (pc = "idle" /\ account # NoSeed) => tier = "T2"
    /\ wstate.label \in {"Ready", "Processing", "Error"} =>
           tier = "T2" /\ account # NoSeed

\* A wallet that has once been Ready, so that its address may have received
\* money, can be opened from the storage for ever, and a restart finds it
\* Locked instead of asking for an onboarding that would overwrite it.
ReadySeedsKept ==
    \A seed \in readied : StoredSeed = seed /\ disk.pubkey # NoSeed

-----------------------------------------------------------------------------
(* The inductive invariants behind them *)

\* Where an onboarding is, and what it has stored by then.
OnboardingInv ==
    /\ wstate.label = "Onboarding" \/ pc \notin OnboardingSteps
    /\ pc \in OnboardingSteps => job.seed \in Seeds
    /\ pc \in StoreSteps \cup {"connect"} => account = NoSeed
    /\ pc = "blob" => disk.salt = job.salt
    /\ pc \in {"pubkey", "address", "connect"} => StoredSeed = job.seed
    /\ pc \in {"birthday", "reconnect", "finish"} => account # NoSeed
    /\ (wstate.label = "Onboarding" /\ pc \notin {"birthday", "finish"}) =>
           account = NoSeed

\* Which tier a handler and a state stand for.
TierInv ==
    /\ pc \in {"open", "reconnect"} => tier = "T2"
    /\ (account # NoSeed /\ pc \notin {"birthday", "finish"}) => tier = "T2"
    /\ pc \in {"prompt", "open", "reconnect"} => wstate.label # "Onboarding"
    /\ wstate.label = "Locked" => pc \notin OnboardingSteps
    /\ pc = "open" => account = NoSeed

LifecycleInv ==
    TypeOK /\ AccountIsStored /\ KeysMatchTier /\ OnboardingInv /\ TierInv

\* Once Ready a wallet stays known as long as loads answer and nobody locks
\* a wallet whose public key was not stored.
KeptInv ==
    /\ ReadySeedsKept
    /\ readied # {} => wstate.label # "Onboarding"
    /\ wstate.label # "Onboarding" => disk.pubkey # NoSeed
    /\ pc \in {"address", "connect", "birthday", "finish"} => disk.pubkey # NoSeed

-----------------------------------------------------------------------------
(* Fairness: a handler that runs goes on, and a user who wants in tries    *)
(* again until a prompt succeeds.                                          *)

Continue ==
    StoreSalt \/ StoreBlob \/ StorePubkey \/ StoreAddress \/ Connect
        \/ StoreBirthday \/ Finish \/ OpenBlob \/ OpenFails \/ Reconnect
        \/ RejectUnlock

FairSpec ==
    /\ Spec
    /\ WF_vars(Continue)
    /\ WF_vars(StartUnlock /\ wstate.label = "Locked")
    /\ SF_vars(PromptPasses)

\* A locked wallet whose storage opens can be unlocked, however often the
\* prompt was refused, the wallet locked or the process killed before.
UnlockSucceeds ==
    (wstate.label = "Locked" /\ StoredSeed # NoSeed) ~> wstate.label = "Ready"

-----------------------------------------------------------------------------
(* What the documentation says, and the code does not keep *)

\* docs/architecture-deep-dive.md:248: a kill in the middle of creating a
\* wallet leaves no part of one behind, so that a wallet a restart presents
\* as existing is whole: it opens, and key and address are its own.
LockedIsWhole ==
    (wstate.label = "Locked" /\ pc = "idle") =>
        /\ StoredSeed # NoSeed
        /\ owner = StoredSeed
        /\ address = StoredSeed

=============================================================================
