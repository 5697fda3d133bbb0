----------------------- MODULE WalletLifecycleProofs -----------------------
(***************************************************************************)
(* Proofs about WalletLifecycle: for any number of seeds, onboarding       *)
(* attempts and process deaths, whatever fails, the account in memory is   *)
(* the stored one and the authentication tier fits it; and when loads      *)
(* answer and nobody locks half-made wallets, a wallet that was Ready can  *)
(* be opened for ever.                                                     *)
(***************************************************************************)
EXTENDS WalletLifecycle, TLAPS

LEMMA InitLifecycle == Init => LifecycleInv
  <1> SUFFICES ASSUME Init PROVE LifecycleInv
    OBVIOUS
  <1>1. NoBlob \in Blob /\ NoSeed \in MaybeSeed
    BY DEF NoBlob, Blob, MaybeSeed
  <1>2. disk \in Disk
    BY <1>1 DEF Init, Disk
  <1>3. /\ wstate = [label |-> "Onboarding", address |-> NoSeed]
        /\ account = NoSeed /\ pc = "idle"
    BY DEF Init, StateOf
  <1>4. TypeOK
    <2>1. salts \in 0 .. MaxSalts /\ crashes \in 0 .. MaxCrashes
      BY LifecycleAssumption DEF Init
    <2>2. tier \in {"T0", "T2"} /\ rpc \in BOOLEAN /\ readied \subseteq Seeds
          /\ account \in MaybeSeed /\ owner \in MaybeSeed /\ address \in MaybeSeed
          /\ job \in Blob
      BY <1>1 DEF Init
    <2>3. wstate \in [label : {"Onboarding", "Locked", "Ready", "Processing",
                               "Error"}, address : MaybeSeed]
      BY <1>1, <1>3
    <2> QED
      BY <1>2, <1>3, <2>1, <2>2, <2>3 DEF TypeOK
  <1> QED
    BY <1>3, <1>4 DEF LifecycleInv, AccountIsStored, KeysMatchTier,
       OnboardingInv, TierInv, OnboardingSteps, StoreSteps

\* A store that fails changes at most the key it was about to write.
LEMMA FailedStore ==
    ASSUME LifecycleInv, NEW d \in AfterFailedStore
    PROVE  /\ d \in Disk
           /\ pc \notin StoreSteps => d = disk
           /\ pc = "pubkey" \/ d.pubkey = disk.pubkey
           /\ pc \in StoreSteps \/ (d.salt = disk.salt /\ d.blob = disk.blob)
  BY DEF AfterFailedStore, LifecycleInv, TypeOK, Disk, Blob, NoBlob,
         MaybeSeed, StoreSteps

LEMMA LifecycleStep == LifecycleInv /\ [Next]_vars => LifecycleInv'
  <1> SUFFICES ASSUME LifecycleInv, [Next]_vars PROVE LifecycleInv'
    OBVIOUS
  <1> USE DEF LifecycleInv, TypeOK, AccountIsStored, KeysMatchTier,
              OnboardingInv, TierInv, memory, StoreSteps, OnboardingSteps,
              MaybeSeed
  <1>1. ASSUME NEW seed \in Seeds, StartOnboarding(seed) PROVE LifecycleInv'
    BY <1>1, LifecycleAssumption DEF StartOnboarding, StoredSeed, Blob
  <1>2. CASE StoreSalt
    BY <1>2, LifecycleAssumption DEF StoreSalt, UnchangedByStore, Disk, Blob, StoredSeed
  <1>3. CASE StoreBlob
    BY <1>3, LifecycleAssumption DEF StoreBlob, UnchangedByStore, Disk, Blob, StoredSeed
  <1>4. CASE StorePubkey
    BY <1>4, LifecycleAssumption DEF StorePubkey, UnchangedByStore, Disk, Blob, StoredSeed
  <1>5. CASE StoreAddress
    BY <1>5, LifecycleAssumption DEF StoreAddress, UnchangedByStore, Disk, Blob, StoredSeed
  <1>6. CASE StoreFails
    BY <1>6, FailedStore DEF StoreFails, UnchangedByStore, StoredSeed, Return
  <1>7. CASE Connect
    BY <1>7, LifecycleAssumption DEF Connect, StoredSeed
  <1>8. CASE ConnectFails
    BY <1>8 DEF ConnectFails, StoredSeed, Return
  <1>9. CASE StoreBirthday
    BY <1>9 DEF StoreBirthday, StoredSeed, Disk
  <1>10. CASE Finish
    BY <1>10 DEF Finish, StoredSeed, Return, Showing
  <1>11. CASE StartUnlock
    BY <1>11 DEF StartUnlock, StoredSeed
  <1>12. CASE PromptFails \/ RejectUnlock
    BY <1>12 DEF PromptFails, RejectUnlock, StoredSeed, Return
  <1>13. CASE PromptPasses
    BY <1>13 DEF PromptPasses, StoredSeed
  <1>14. CASE OpenBlob
    BY <1>14 DEF OpenBlob, StoredSeed, Disk, Blob
  <1>15. CASE OpenFails
    BY <1>15 DEF OpenFails, StoredSeed, Return
  <1>16. CASE Reconnect
    BY <1>16 DEF Reconnect, StoredSeed
  <1>17. CASE Lock
    BY <1>17 DEF Lock, StoredSeed, StateOf
  <1>18. CASE UpdateRpc
    BY <1>18 DEF UpdateRpc, StoredSeed
  <1>19. CASE Refresh
    BY <1>19 DEF Refresh, StoredSeed, Showing
  <1>20. CASE OperationFails
    BY <1>20 DEF OperationFails, StoredSeed, Showing
  <1>21. CASE Restart
    <2>1. disk' \in Disk
      BY <1>21, FailedStore DEF Restart
    <2>2. owner' \in MaybeSeed /\ address' \in MaybeSeed
      BY <1>21, <2>1 DEF Restart, Read, Disk
    <2>3. crashes' \in 0 .. MaxCrashes
      BY <1>21, LifecycleAssumption DEF Restart
    <2> QED
      BY <1>21, <2>1, <2>2, <2>3 DEF Restart, Return, StateOf
  <1>22. CASE UNCHANGED vars
    BY <1>22 DEF vars, StoredSeed
  <1> QED
    BY <1>1, <1>2, <1>3, <1>4, <1>5, <1>6, <1>7, <1>8, <1>9, <1>10, <1>11,
       <1>12, <1>13, <1>14, <1>15, <1>16, <1>17, <1>18, <1>19, <1>20, <1>21,
       <1>22 DEF Next, Onboarding, Unlocking

THEOREM LifecycleInvariance == Spec => []LifecycleInv
  BY InitLifecycle, LifecycleStep, PTL DEF Spec

\* The account in memory is the one the storage opens to, whatever failed.
THEOREM AccountStored == Spec => []AccountIsStored
  <1>1. LifecycleInv => AccountIsStored
    BY DEF LifecycleInv
  <1> QED
    BY <1>1, LifecycleInvariance, PTL

\* What the disk, the memory and the handlers hold is of its type.
THEOREM TypesAreKept == Spec => []TypeOK
  <1>1. LifecycleInv => TypeOK
    BY DEF LifecycleInv
  <1> QED
    BY <1>1, LifecycleInvariance, PTL

\* Keys are in memory only in T2, and an unlocked wallet has both.
THEOREM KeysAndTier == Spec => []KeysMatchTier
  <1>1. LifecycleInv => KeysMatchTier
    BY DEF LifecycleInv
  <1> QED
    BY <1>1, LifecycleInvariance, PTL

-----------------------------------------------------------------------------
LEMMA KeptStep ==
    ASSUME "load" \notin Fallible, "lock" \notin Calls
    PROVE  LifecycleInv /\ KeptInv /\ [Next]_vars => KeptInv'
  <1> SUFFICES ASSUME LifecycleInv, KeptInv, [Next]_vars PROVE KeptInv'
    OBVIOUS
  <1> USE DEF LifecycleInv, TypeOK, AccountIsStored, KeysMatchTier,
              OnboardingInv, TierInv, memory, StoreSteps, OnboardingSteps,
              MaybeSeed, KeptInv, ReadySeedsKept
  <1>1. ASSUME NEW seed \in Seeds, StartOnboarding(seed) PROVE KeptInv'
    BY <1>1 DEF StartOnboarding, StoredSeed
  <1>2. CASE StoreSalt
    BY <1>2 DEF StoreSalt, UnchangedByStore, Disk, StoredSeed
  <1>3. CASE StoreBlob
    BY <1>3 DEF StoreBlob, UnchangedByStore, Disk, StoredSeed
  <1>4. CASE StorePubkey
    BY <1>4, LifecycleAssumption DEF StorePubkey, UnchangedByStore, Disk, StoredSeed
  <1>5. CASE StoreAddress
    BY <1>5 DEF StoreAddress, UnchangedByStore, Disk, StoredSeed
  <1>6. CASE StoreFails
    BY <1>6, FailedStore DEF StoreFails, UnchangedByStore, StoredSeed, Return
  <1>7. CASE Connect \/ ConnectFails \/ StartUnlock \/ PromptFails
             \/ RejectUnlock \/ PromptPasses \/ OpenBlob \/ OpenFails \/ UpdateRpc
    BY <1>7 DEF Connect, ConnectFails, StartUnlock, PromptFails, RejectUnlock,
                PromptPasses, OpenBlob, OpenFails, UpdateRpc, StoredSeed, Return
  <1>8. CASE Reconnect
    BY <1>8 DEF Reconnect, StoredSeed
  <1>9. CASE StoreBirthday
    BY <1>9 DEF StoreBirthday, StoredSeed, Disk
  <1>10. CASE Finish
    BY <1>10 DEF Finish, StoredSeed, Return, Showing
  <1>11. CASE Refresh
    BY <1>11 DEF Refresh, StoredSeed, Showing
  <1>12. CASE OperationFails
    BY <1>12 DEF OperationFails, StoredSeed, Showing
  <1>13. CASE Lock
    BY <1>13 DEF Lock
  <1>14. CASE Restart
    <2>1. disk' \in AfterFailedStore /\ owner' = disk'.pubkey /\ readied' = readied
          /\ wstate'.label = (IF owner' = NoSeed THEN "Onboarding" ELSE "Locked")
          /\ pc' = "idle"
      BY <1>14 DEF Restart, Read, MayFail, StateOf, Return
    <2>2. readied # {} => disk' = disk
      BY <2>1, FailedStore
    <2> QED
      BY <2>1, <2>2 DEF StoredSeed
  <1>15. CASE UNCHANGED vars
    BY <1>15 DEF vars, StoredSeed
  <1> QED
    BY <1>1, <1>2, <1>3, <1>4, <1>5, <1>6, <1>7, <1>8, <1>9, <1>10, <1>11,
       <1>12, <1>13, <1>14, <1>15 DEF Next, Onboarding, Unlocking

\* While loads answer and nothing locks the wallet (the apps never do), a
\* wallet that was Ready is known and can be opened: the inductive form.
THEOREM KeptInvariance ==
    ASSUME "load" \notin Fallible, "lock" \notin Calls
    PROVE  Spec => []KeptInv
  <1>1. Init => KeptInv
    BY DEF Init, KeptInv, ReadySeedsKept, StateOf
  <1>2. LifecycleInv /\ KeptInv /\ [Next]_vars => KeptInv'
    BY KeptStep
  <1> QED
    BY <1>1, <1>2, LifecycleInvariance, PTL DEF Spec

\* Under the same conditions a seed that was Ready stays in the storage,
\* whatever other call fails and whenever the process dies.
THEOREM ReadySeedsStay ==
    ASSUME "load" \notin Fallible, "lock" \notin Calls
    PROVE  Spec => []ReadySeedsKept
  <1>1. Spec => []KeptInv
    BY KeptInvariance
  <1>2. KeptInv => ReadySeedsKept
    BY DEF KeptInv
  <1> QED
    BY <1>1, <1>2, PTL

=============================================================================
