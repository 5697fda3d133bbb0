-------------------------- MODULE SwapStorageProofs --------------------------
(***************************************************************************)
(* Proofs about SwapStorage: for any number of managers, keys and objects, *)
(* whatever the platform's storage does and wherever the process dies, an  *)
(* entry that no failed call has touched is what the next session finds,   *)
(* and the storage implements DurableMap.                                  *)
(***************************************************************************)
EXTENDS SwapStorage, TLAPS

-----------------------------------------------------------------------------
(* What the next session finds of one entry *)

LEMMA LoadableType ==
    ASSUME StorageInv, NEW e \in Entries
    PROVE  Loadable(e) \in Objects \cup {Nothing}
  BY DEF StorageInv, TypeOK, Maps, Loadable

\* An operation under way is about an entry of an open manager.
LEMMA OpEntry ==
    ASSUME StorageInv, op # NoOp
    PROVE  /\ op.entry \in Entries
           /\ op.entry[1] \in opened
           /\ op.step \in {"value", "index"}
           /\ op.clean \in BOOLEAN
           /\ op = [entry |-> op.entry, step |-> op.step, clean |-> op.clean]
  BY DEF StorageInv, TypeOK, OpCoherent

LEMMA NoOpStep == NoOp.step = "none" /\ NoOp.entry = NoEntry
  BY DEF NoOp

\* Writing the index makes it list what is in memory, for this manager.
LEMMA IndexWritten ==
    ASSUME StorageInv, op # NoOp, NEW e \in Entries, index' = IndexIn(index)
    PROVE  /\ e[1] = op.entry[1] => (e \in index' <=> data[e] # Nothing)
           /\ e[1] # op.entry[1] => (e \in index' <=> e \in index)
  BY DEF IndexIn, IndexOfMemory, OfManager

-----------------------------------------------------------------------------
(* The invariant *)

LEMMA InitStorage == Init => StorageInv
  BY StorageAssumption
     DEF Init, StorageInv, TypeOK, SettledIsKept, Settled, OpCoherent, Maps,
         EmptyMap, NoOp

\* An entry a step does not write, in memory or on the disk, stays settled.
LEMMA SettledStays ==
    ASSUME StorageInv, NEW e \in Entries, e # op.entry,
           data'[e] = data[e], Loadable(e)' = Loadable(e),
           e \notin damaged' => e \notin damaged, opened' = opened
    PROVE  Settled(e)'
  BY DEF StorageInv, SettledIsKept, Settled

LEMMA InitManagerStep ==
    ASSUME StorageInv, NEW n \in Names, InitManager(n)
    PROVE  StorageInv'
  <1>1. PICK got \in SUBSET {e \in index : e[1] = n /\ value[e] # Nothing} :
            /\ data' = [e \in Entries |->
                          IF e[1] # n THEN data[e]
                          ELSE IF e \in got THEN value[e] ELSE Nothing]
            /\ damaged' = (damaged \ OfManager(n))
                            \cup {e \in OfManager(n) \ got :
                                      Loadable(e) # Nothing}
    BY DEF InitManager
  <1>2. op = NoOp /\ op' = op /\ value' = value /\ index' = index
        /\ n \notin opened /\ opened' = opened \cup {n}
    BY DEF InitManager, itemVars
  <1>3. TypeOK'
    <2>1. data' \in Maps
      BY <1>1 DEF StorageInv, TypeOK, Maps
    <2>2. damaged' \subseteq Entries
      BY <1>1 DEF StorageInv, TypeOK, OfManager
    <2> QED
      BY <1>2, <2>1, <2>2 DEF StorageInv, TypeOK
  <1>4. ASSUME NEW e \in Entries PROVE Settled(e)'
    <2>1. Loadable(e)' = Loadable(e)
      BY <1>2 DEF Loadable
    <2>2. CASE e[1] = n
      BY <1>1, <2>1, <2>2 DEF Settled, OfManager, Loadable
    <2>3. CASE e[1] # n
      BY <1>1, <1>2, <2>1, <2>3
         DEF Settled, OfManager, StorageInv, SettledIsKept
    <2> QED
      BY <2>2, <2>3
  <1>5. OpCoherent'
    BY <1>2, NoOpStep DEF OpCoherent
  <1> QED
    BY <1>3, <1>4, <1>5 DEF StorageInv, SettledIsKept

LEMMA BeginStep ==
    ASSUME StorageInv, NEW e \in Entries, NEW x \in Objects \cup {Nothing},
           Begin(e, x)
    PROVE  StorageInv'
  <1>1. /\ op = NoOp /\ e[1] \in opened
        /\ data' = [data EXCEPT ![e] = x]
        /\ op' = [entry |-> e, step |-> "value", clean |-> TRUE]
        /\ opened' = opened /\ value' = value /\ index' = index
        /\ damaged' = damaged
    BY DEF Begin, itemVars
  <1>2. TypeOK'
    <2>1. data' \in Maps
      BY <1>1 DEF StorageInv, TypeOK, Maps
    <2> QED
      BY <1>1, <2>1 DEF StorageInv, TypeOK
  <1>3. ASSUME NEW f \in Entries PROVE Settled(f)'
    <2>1. CASE f = e
      BY <1>1, <2>1 DEF Settled
    <2>2. CASE f # e
      <3>1. data'[f] = data[f]
        BY <1>1, <2>2 DEF StorageInv, TypeOK, Maps
      <3>2. Loadable(f)' = Loadable(f)
        BY <1>1 DEF Loadable
      <3>3. f # op.entry
        BY <1>1, NoOpStep, StorageAssumption
      <3> QED
        BY <1>1, <3>1, <3>2, <3>3, SettledStays
    <2> QED
      BY <2>1, <2>2
  <1>4. OpCoherent'
    BY <1>1 DEF OpCoherent
  <1> QED
    BY <1>2, <1>3, <1>4 DEF StorageInv, SettledIsKept

LEMMA WriteValueStep ==
    ASSUME StorageInv, WriteValue
    PROVE  StorageInv'
  <1>1. op # NoOp /\ op.step = "value"
    BY NoOpStep DEF WriteValue
  <1>2. /\ op' = [op EXCEPT !.step = "index"]
        /\ value' = [value EXCEPT ![op.entry] = data[op.entry]]
        /\ data' = data /\ opened' = opened /\ index' = index
        /\ damaged' = damaged
    BY DEF WriteValue, ValueIn
  <1>3. op' = [entry |-> op.entry, step |-> "index", clean |-> op.clean]
    BY <1>1, <1>2, OpEntry
  <1>4. value' \in Maps /\ value'[op.entry] = data[op.entry]
    BY <1>1, <1>2, OpEntry DEF StorageInv, TypeOK, Maps
  <1>5. TypeOK'
    BY <1>1, <1>2, <1>3, <1>4, OpEntry DEF StorageInv, TypeOK
  <1>6. ASSUME NEW e \in Entries PROVE Settled(e)'
    <2>1. CASE e = op.entry
      BY <1>3, <2>1 DEF Settled
    <2>2. CASE e # op.entry
      <3>1. Loadable(e)' = Loadable(e)
        BY <1>2, <2>2 DEF Loadable, StorageInv, TypeOK, Maps
      <3> QED
        BY <1>2, <2>2, <3>1, SettledStays
    <2> QED
      BY <2>1, <2>2
  <1>7. OpCoherent'
    BY <1>1, <1>2, <1>3, <1>4, OpEntry DEF OpCoherent, StorageInv
  <1> QED
    BY <1>5, <1>6, <1>7 DEF StorageInv, SettledIsKept

LEMMA WriteIndexStep ==
    ASSUME StorageInv, WriteIndex
    PROVE  /\ StorageInv'
           /\ \A e \in Entries : Settled(e)'
           /\ \A e \in Entries : (e # op.entry /\ e \notin damaged) =>
                  Loadable(e)' = Loadable(e)
           /\ \A e \in Entries :
                  (e = op.entry /\ op.clean) => Loadable(e)' = data[e]
  <1>1. op # NoOp /\ op.step = "index"
    BY NoOpStep DEF WriteIndex
  <1>2. /\ op' = NoOp /\ index' = IndexIn(index)
        /\ damaged' = IF op.clean THEN damaged \ {op.entry} ELSE damaged
        /\ data' = data /\ opened' = opened /\ value' = value
    BY DEF WriteIndex
  <1>3. TypeOK'
    <2>1. index' \subseteq Entries
      BY <1>2 DEF IndexIn, IndexOfMemory, OfManager, StorageInv, TypeOK
    <2> QED
      BY <1>2, <2>1 DEF StorageInv, TypeOK
  <1>4. ASSUME NEW e \in Entries, e = op.entry, op.clean
        PROVE  Loadable(e)' = data[e]
    <2>1. value[e] = data[e]
      BY <1>1, <1>4 DEF StorageInv, OpCoherent
    <2>2. e \in index' <=> data[e] # Nothing
      BY <1>1, <1>2, <1>4, IndexWritten
    <2> QED
      BY <1>2, <2>1, <2>2 DEF Loadable
  <1>5. ASSUME NEW e \in Entries, e # op.entry, e \notin damaged
        PROVE  Loadable(e)' = Loadable(e)
    <2>1. CASE e[1] # op.entry[1]
      BY <1>1, <1>2, <2>1, IndexWritten DEF Loadable
    <2>2. CASE e[1] = op.entry[1]
      <3>1. Loadable(e) = data[e]
        BY <1>1, <1>5, <2>2, OpEntry DEF StorageInv, SettledIsKept, Settled
      <3>2. e \in index' <=> data[e] # Nothing
        BY <1>1, <1>2, <2>2, IndexWritten
      <3> QED
        BY <1>2, <3>1, <3>2 DEF Loadable
    <2> QED
      BY <2>1, <2>2
  <1>6. ASSUME NEW e \in Entries PROVE Settled(e)'
    <2>1. CASE e = op.entry /\ op.clean
      BY <1>2, <1>4, <2>1 DEF Settled
    <2>2. CASE e = op.entry /\ ~op.clean
      BY <1>1, <1>2, <2>2, OpEntry DEF Settled, StorageInv, OpCoherent
    <2>3. CASE e # op.entry
      <3>1. e \notin damaged' => e \notin damaged
        BY <1>2, <2>3
      <3>2. CASE e \in damaged'
        BY <3>2 DEF Settled
      <3>3. CASE e \notin damaged'
        <4>1. Loadable(e)' = Loadable(e)
          BY <1>5, <2>3, <3>1, <3>3
        <4> QED
          BY <1>2, <2>3, <3>1, <4>1, SettledStays
      <3> QED
        BY <3>2, <3>3
    <2> QED
      BY <2>1, <2>2, <2>3
  <1>7. OpCoherent'
    BY <1>2, NoOpStep DEF OpCoherent
  <1> QED
    BY <1>3, <1>4, <1>5, <1>6, <1>7 DEF StorageInv, SettledIsKept

\* After a write that failed the operation goes on, marked.
LEMMA GoOnStep ==
    ASSUME StorageInv, op # NoOp, GoOn,
           value' \in Maps, index' \subseteq Entries, damaged' \subseteq Entries,
           data' = data, opened' = opened, op.entry \in damaged',
           \A e \in Entries : e \notin damaged' =>
               e \notin damaged /\ Loadable(e)' = Loadable(e)
    PROVE  StorageInv'
  <1>1. \/ op' = [entry |-> op.entry, step |-> "index", clean |-> FALSE]
        \/ op' = NoOp
    BY OpEntry DEF GoOn
  <1>2. TypeOK'
    <2>1. op' \in {NoOp} \cup [entry : Entries, step : {"value", "index"},
                              clean : BOOLEAN]
      <3>1. op.entry \in Entries
        BY OpEntry
      <3>2. [entry |-> op.entry, step |-> "index", clean |-> FALSE]
                \in [entry : Entries, step : {"value", "index"},
                     clean : BOOLEAN]
        BY <3>1
      <3> QED
        BY <1>1, <3>2
    <2> QED
      BY <2>1 DEF StorageInv, TypeOK
  <1>3. ASSUME NEW e \in Entries PROVE Settled(e)'
    <2>1. CASE e \in damaged'
      BY <2>1 DEF Settled
    <2>2. CASE e \notin damaged'
      BY <2>2, SettledStays
    <2> QED
      BY <2>1, <2>2
  <1>4. OpCoherent'
    BY <1>1, NoOpStep, OpEntry DEF OpCoherent
  <1> QED
    BY <1>2, <1>3, <1>4 DEF StorageInv, SettledIsKept

LEMMA FailureStep ==
    ASSUME StorageInv, WriteOverUnread \/ StoreFails
    PROVE  StorageInv'
  <1>1. op # NoOp /\ GoOn /\ data' = data /\ opened' = opened
    BY DEF WriteOverUnread, StoreFails
  <1>2. op.entry \in Entries
    BY <1>1, OpEntry
  <1>3. EmptyMap \in Maps
    BY DEF EmptyMap, Maps
  <1>4. CASE WriteOverUnread
    <2>1. value' \in Maps
      BY <1>2, <1>3, <1>4 DEF WriteOverUnread, ValueIn, StorageInv, TypeOK, Maps
    <2>2. index' \subseteq Entries
      BY <1>4 DEF WriteOverUnread, IndexIn, IndexOfMemory, OfManager
    <2>3. damaged' = Entries
      BY <1>4 DEF WriteOverUnread
    <2> QED
      BY <1>1, <1>2, <2>1, <2>2, <2>3, GoOnStep
  <1>5. CASE StoreFails
    <2>1. CASE damaged' = damaged \cup {op.entry} /\ value' = value
               /\ index' = index
      <3>1. \A e \in Entries : Loadable(e)' = Loadable(e)
        BY <2>1 DEF Loadable
      <3> QED
        BY <1>1, <1>2, <2>1, <3>1, GoOnStep DEF StorageInv, TypeOK
    <2>2. CASE damaged' = Entries /\ value' = EmptyMap /\ index' = {}
      BY <1>1, <1>2, <1>3, <2>2, GoOnStep
    <2> QED
      BY <1>5, <2>1, <2>2 DEF StoreFails, itemVars
  <1> QED
    BY <1>4, <1>5

LEMMA EndSessionStep ==
    ASSUME StorageInv, EndSession
    PROVE  StorageInv'
  BY NoOpStep
     DEF EndSession, itemVars, StorageInv, TypeOK, SettledIsKept, Settled,
         OpCoherent, Maps, EmptyMap

LEMMA StorageStep == StorageInv /\ [Next]_vars => StorageInv'
  <1> SUFFICES ASSUME StorageInv, [Next]_vars PROVE StorageInv'
    OBVIOUS
  <1>1. ASSUME NEW n \in Names, InitManager(n) PROVE StorageInv'
    BY <1>1, InitManagerStep
  <1>2. ASSUME NEW e \in Entries, NEW x \in Objects, saveData(e, x)
        PROVE  StorageInv'
    BY <1>2, BeginStep DEF saveData
  <1>3. ASSUME NEW e \in Entries, removeData(e) PROVE StorageInv'
    BY <1>3, BeginStep DEF removeData
  <1>4. CASE UNCHANGED vars
    BY <1>4 DEF vars, itemVars, StorageInv, TypeOK, SettledIsKept, Settled,
                OpCoherent, Loadable
  <1> QED
    BY <1>1, <1>2, <1>3, <1>4, WriteValueStep, WriteIndexStep, FailureStep,
       EndSessionStep DEF Next

\* The types, what is settled and what an operation under way has done: the
\* invariant of storage.ts and swap.rs that the theorems below rest on.
THEOREM StorageInvariance == Spec => []StorageInv
  <1> QED
    BY InitStorage, StorageStep, PTL DEF Spec

\* What saveData and removeData of storage.ts have settled is what the init of
\* the next session finds, unless a platform call that failed has touched it.
THEOREM WhatIsSavedIsKept == Spec => []SettledIsKept
  <1>1. StorageInv => SettledIsKept
    BY DEF StorageInv
  <1> QED
    BY <1>1, StorageInvariance, PTL

-----------------------------------------------------------------------------
(* The storage implements the durable map *)

LEMMA InitRefines == Init => Promise!Init
  BY DEF Init, EmptyMap, Kept, Loadable, Promise!Init, Entries,
         Promise!Entries

LEMMA KeptAt == \A e \in Entries : Kept[e] = Loadable(e)
  BY DEF Kept

\* The same for the state after a step.
LEMMA KeptAfter ==
    /\ \A e \in Entries : Kept'[e] = Loadable(e)'
    /\ (\A e \in Entries : Loadable(e)' = Loadable(e)) => Kept' = Kept
  BY DEF Kept

LEMMA KeptType ==
    ASSUME StorageInv'
    PROVE  Kept' \in Promise!Maps
  BY DEF Kept, Promise!Maps, Promise!Entries, Entries, StorageInv, TypeOK,
         Maps, Loadable

LEMMA OpenRefines ==
    ASSUME StorageInv, StorageInv', NEW n \in Names, InitManager(n)
    PROVE  Promise!Open(n)
  <1>1. PICK got \in SUBSET {e \in index : e[1] = n /\ value[e] # Nothing} :
            /\ data' = [e \in Entries |->
                          IF e[1] # n THEN data[e]
                          ELSE IF e \in got THEN value[e] ELSE Nothing]
            /\ damaged' = (damaged \ OfManager(n))
                            \cup {e \in OfManager(n) \ got :
                                      Loadable(e) # Nothing}
    BY DEF InitManager
  <1>2. /\ n \notin opened /\ opened' = opened \cup {n}
        /\ value' = value /\ index' = index
    BY DEF InitManager, itemVars
  <1>3. Kept' = Kept
    BY <1>2 DEF Kept, Loadable
  <1>4. data' \in Promise!Maps /\ damaged' \subseteq Promise!Entries
    BY DEF StorageInv, TypeOK, Maps, Entries, Promise!Maps, Promise!Entries
  <1>5. \A e \in Entries : e[1] # n =>
            data'[e] = data[e] /\ (e \in damaged' <=> e \in damaged)
    BY <1>1 DEF OfManager
  <1>6. ASSUME NEW e \in Entries, e[1] = n, e \notin damaged'
        PROVE  data'[e] = Kept[e]
    BY <1>1, <1>6, KeptAt DEF OfManager, Loadable
  <1> QED
    BY <1>2, <1>3, <1>4, <1>5, <1>6
       DEF Promise!Open, Promise!Entries, Entries

LEMMA WriteValueRefines ==
    ASSUME StorageInv, StorageInv', WriteValue
    PROVE  \/ \E e \in Entries : Promise!Settle(e)
           \/ Promise!Damage
           \/ UNCHANGED Promise!mapVars
  <1>1. op # NoOp /\ op.entry \in Entries
    BY NoOpStep, OpEntry DEF WriteValue
  <1>2. /\ value' = [value EXCEPT ![op.entry] = data[op.entry]]
        /\ data' = data /\ opened' = opened /\ index' = index
        /\ damaged' = damaged
    BY DEF WriteValue, ValueIn
  <1>3. \A e \in Entries : e # op.entry => Loadable(e)' = Loadable(e)
    BY <1>2 DEF Loadable, StorageInv, TypeOK, Maps
  <1>4. CASE op.entry \notin index
    <2>1. \A e \in Entries : e = op.entry => Loadable(e)' = Loadable(e)
      BY <1>2, <1>4 DEF Loadable
    <2>2. Kept' = Kept
      BY <1>3, <2>1, KeptAfter
    <2> QED
      BY <1>2, <2>2 DEF Promise!mapVars
  <1>5. CASE op.entry \in index /\ op.entry \in damaged
    <2>1. \A e \in Entries \ damaged' : Kept'[e] = Kept[e]
      BY <1>2, <1>3, <1>5, KeptAt, KeptAfter
    <2> QED
      BY <1>2, <2>1, KeptType
         DEF Promise!Damage, Promise!KeptOutside, Promise!Entries, Entries,
             StorageInv, TypeOK
  <1>6. CASE op.entry \in index /\ op.entry \notin damaged
    <2>1. \A e \in Entries : e = op.entry => Loadable(e)' = data[e]
      BY <1>2, <1>6 DEF Loadable, StorageInv, TypeOK, Maps
    <2>2. Kept'[op.entry] = data[op.entry]
      BY <1>1, <2>1, KeptAfter
    <2>3. \A e \in Entries : e # op.entry => Kept'[e] = Kept[e]
      BY <1>3, KeptAt, KeptAfter
    <2>4. damaged' = damaged \ {op.entry}
      BY <1>2, <1>6
    <2>5. Promise!Settle(op.entry)
      BY <1>2, <2>2, <2>3, <2>4, KeptType
         DEF Promise!Settle, Promise!KeptOutside, Promise!Entries, Entries
    <2> QED
      BY <1>1, <2>5
  <1> QED
    BY <1>4, <1>5, <1>6

LEMMA WriteIndexRefines ==
    ASSUME StorageInv, StorageInv', WriteIndex
    PROVE  (\E e \in Entries : Promise!Settle(e)) \/ Promise!Damage
  <1>1. op # NoOp /\ op.entry \in Entries /\ op.step = "index"
    BY NoOpStep, OpEntry DEF WriteIndex
  <1>2. /\ damaged' = IF op.clean THEN damaged \ {op.entry} ELSE damaged
        /\ data' = data /\ opened' = opened
    BY DEF WriteIndex
  <1>3. \A e \in Entries : (e # op.entry /\ e \notin damaged) =>
                               Kept'[e] = Kept[e]
    BY WriteIndexStep, KeptAt, KeptAfter
  <1>4. CASE op.clean
    <2>1. Kept'[op.entry] = data[op.entry]
      BY <1>1, <1>4, WriteIndexStep, KeptAfter
    <2>2. Promise!Settle(op.entry)
      BY <1>2, <1>3, <1>4, <2>1, KeptType
         DEF Promise!Settle, Promise!KeptOutside, Promise!Entries, Entries
    <2> QED
      BY <1>1, <2>2
  <1>5. CASE ~op.clean
    <2>1. op.entry \in damaged
      BY <1>1, <1>5 DEF StorageInv, OpCoherent
    <2> QED
      BY <1>2, <1>3, <1>5, <2>1, KeptType
         DEF Promise!Damage, Promise!KeptOutside, Promise!Entries, Entries,
             StorageInv, TypeOK
  <1> QED
    BY <1>4, <1>5

LEMMA FailureRefines ==
    ASSUME StorageInv, StorageInv', WriteOverUnread \/ StoreFails
    PROVE  Promise!Damage
  <1>1. op # NoOp /\ data' = data /\ opened' = opened
    BY DEF WriteOverUnread, StoreFails
  <1>2. CASE damaged' = Entries
    BY <1>1, <1>2, KeptType
       DEF Promise!Damage, Promise!KeptOutside, Promise!Entries, Entries,
           StorageInv, TypeOK
  <1>3. CASE damaged' = damaged \cup {op.entry} /\ UNCHANGED itemVars
    <2>1. Kept' = Kept
      BY <1>3 DEF Kept, Loadable, itemVars
    <2>2. damaged \subseteq damaged' /\ damaged' \subseteq Promise!Entries
      BY <1>1, <1>3, OpEntry
         DEF Promise!Entries, Entries, StorageInv, TypeOK
    <2> QED
      BY <1>1, <2>1, <2>2, KeptType
         DEF Promise!Damage, Promise!KeptOutside
  <1> QED
    BY <1>2, <1>3 DEF WriteOverUnread, StoreFails

LEMMA StorageStepRefines ==
    StorageInv /\ StorageInv' /\ [Next]_vars => [Promise!Next]_(Promise!mapVars)
  <1> SUFFICES ASSUME StorageInv, StorageInv', [Next]_vars
               PROVE  [Promise!Next]_(Promise!mapVars)
    OBVIOUS
  <1>1. Promise!Entries = Entries
    BY DEF Promise!Entries, Entries
  <1>2. ASSUME NEW n \in Names, InitManager(n) PROVE Promise!Next
    BY <1>2, OpenRefines DEF Promise!Next
  <1>3. ASSUME NEW e \in Entries, NEW x \in Objects \cup {Nothing}, Begin(e, x)
        PROVE  Promise!Next
    <2>1. Kept' = Kept
      BY <1>3 DEF Begin, itemVars, Kept, Loadable
    <2>2. Promise!Change(e, x)
      BY <1>3, <2>1 DEF Begin, Promise!Change
    <2> QED
      BY <1>1, <2>2 DEF Promise!Next
  <1>4. CASE WriteValue
    BY <1>1, <1>4, WriteValueRefines DEF Promise!Next
  <1>5. CASE WriteIndex
    BY <1>1, <1>5, WriteIndexRefines DEF Promise!Next
  <1>6. CASE WriteOverUnread \/ StoreFails
    BY <1>6, FailureRefines DEF Promise!Next
  <1>7. CASE EndSession
    <2>1. Kept' = Kept
      BY <1>7 DEF EndSession, itemVars, Kept, Loadable
    <2>2. Promise!Close
      BY <1>1, <1>7, <2>1 DEF EndSession, EmptyMap, Promise!Close
    <2> QED
      BY <2>2 DEF Promise!Next
  <1>8. CASE UNCHANGED vars
    BY <1>8 DEF vars, itemVars, Promise!mapVars, Kept, Loadable
  <1> QED
    BY <1>2, <1>3, <1>4, <1>5, <1>6, <1>7, <1>8 DEF Next, saveData, removeData

\* storage.ts and swap.rs together are a durable map: the two writes of an
\* operation are one change to the next session, wherever the process dies,
\* and only what a failed call may have touched can be otherwise.
THEOREM StorageImplementsDurableMap == Spec => ImplementsDurableMap
  <1> QED
    BY InitRefines, StorageStepRefines, StorageInvariance, PTL
       DEF Spec, ImplementsDurableMap, Promise!Spec

=============================================================================
