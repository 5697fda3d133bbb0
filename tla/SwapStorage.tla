----------------------------- MODULE SwapStorage -----------------------------
(***************************************************************************)
(* The storage the swap bundle gives the Atomiq SDK: storage.ts keeps each *)
(* manager's objects in memory, writes an object through to the Rust host  *)
(* and after it the index of the manager's keys; swap.rs keeps all of them *)
(* in one item of the platform's storage, which every write of the host    *)
(* reads, changes and stores again under a lock.                           *)
(*                                                                         *)
(* JavaScript runs an operation of a manager to its end, so only the death *)
(* of the process comes between the two writes.  Loads and stores of the   *)
(* platform fail, which the host only logs.  A store that has returned is  *)
(* taken to be on the disk.                                                *)
(***************************************************************************)
EXTENDS Integers

CONSTANTS Names,   \* the managers, one for each prefix
          Keys,    \* the hashes they store objects under
          Objects,
          Nothing, \* no object
          NoEntry  \* the entry of no operation

Entries == Names \X Keys

ASSUME StorageAssumption == Nothing \notin Objects /\ NoEntry \notin Entries

VARIABLES data,   \* the managers' objects in memory
          opened, \* the managers whose init has run in this session
          value,  \* the objects in the platform's item
          index,  \* the entries that the indexes in the item list
          op,     \* the operation under way: what it writes next
          damaged \* history: entries that failed calls may have changed

itemVars == <<value, index>>
vars == <<data, opened, itemVars, op, damaged>>

Maps == [Entries -> Objects \cup {Nothing}]
EmptyMap == [e \in Entries |-> Nothing]
NoOp == [entry |-> NoEntry, step |-> "none", clean |-> TRUE]
OfManager(n) == {e \in Entries : e[1] = n}

TypeOK ==
    /\ data \in Maps
    /\ opened \subseteq Names
    /\ value \in Maps
    /\ index \subseteq Entries
    /\ op \in {NoOp} \cup [entry : Entries, step : {"value", "index"},
                           clean : BOOLEAN]
    /\ damaged \subseteq Entries

Init ==
    /\ data = EmptyMap
    /\ opened = {}
    /\ value = EmptyMap
    /\ index = {}
    /\ op = NoOp
    /\ damaged = {}

\* What init finds when no load fails: listed, and with an object.
Loadable(e) == IF e \in index THEN value[e] ELSE Nothing

-----------------------------------------------------------------------------
(* storage.ts *)

\* init reads the index and every object it lists; a load that fails looks
\* like an object that is not there.
InitManager(n) ==
    /\ op = NoOp
    /\ n \notin opened
    /\ opened' = opened \cup {n}
    /\ \E got \in SUBSET {e \in index : e[1] = n /\ value[e] # Nothing} :
        /\ data' = [e \in Entries |->
                      IF e[1] # n THEN data[e]
                      ELSE IF e \in got THEN value[e] ELSE Nothing]
        /\ damaged' = (damaged \ OfManager(n))
                        \cup {e \in OfManager(n) \ got : Loadable(e) # Nothing}
    /\ UNCHANGED <<itemVars, op>>

Begin(e, x) ==
    /\ op = NoOp
    /\ e[1] \in opened
    /\ data' = [data EXCEPT ![e] = x]
    /\ op' = [entry |-> e, step |-> "value", clean |-> TRUE]
    /\ UNCHANGED <<opened, itemVars, damaged>>

saveData(e, x) == x \in Objects /\ Begin(e, x)

removeData(e) == Begin(e, Nothing)

\* Mutant: the index is taken before the object is in memory.
MutantIndexTooEarly == {e \in OfManager(op.entry[1]) :
                            data[e] # Nothing /\ e # op.entry}

\* _saveIndex lists the keys of what is in memory.
IndexOfMemory == {e \in OfManager(op.entry[1]) : data[e] # Nothing}

-----------------------------------------------------------------------------
(* swap.rs: set and remove read the item, change it and store it *)

ValueIn(map) == [map EXCEPT ![op.entry] = data[op.entry]]
IndexIn(listed) == (listed \ OfManager(op.entry[1])) \cup IndexOfMemory

\* Mutant: the object is written and the index is not.
MutantNoIndex ==
    /\ op.step = "value"
    /\ value' = ValueIn(value)
    /\ op' = NoOp
    /\ UNCHANGED <<data, opened, index, damaged>>

WriteValue ==
    /\ op.step = "value"
    /\ value' = ValueIn(value)
    /\ op' = [op EXCEPT !.step = "index"]
    /\ UNCHANGED <<data, opened, index, damaged>>

\* The entry is sound again when both of its writes have succeeded.
WriteIndex ==
    /\ op.step = "index"
    /\ index' = IndexIn(index)
    /\ op' = NoOp
    /\ damaged' = IF op.clean THEN damaged \ {op.entry} ELSE damaged
    /\ UNCHANGED <<data, opened, value>>

\* The operation goes on after a write that failed, and does not know.
GoOn == op' = IF op.step = "value"
                THEN [op EXCEPT !.step = "index", !.clean = FALSE]
                ELSE NoOp

\* load_map takes an item it cannot read for an empty one, and the write that
\* follows replaces everything that was in it.
WriteOverUnread ==
    /\ op # NoOp
    /\ IF op.step = "value"
         THEN value' = ValueIn(EmptyMap) /\ index' = {}
         ELSE value' = EmptyMap /\ index' = IndexIn({})
    /\ damaged' = Entries
    /\ GoOn
    /\ UNCHANGED <<data, opened>>

\* store_map fails and leaves the item as it was, or, as the iOS keychain
\* deletes before it adds, no item.  A process that dies in between leaves
\* none either.
StoreFails ==
    /\ op # NoOp
    /\ \/ /\ damaged' = damaged \cup {op.entry}
          /\ UNCHANGED itemVars
       \/ /\ value' = EmptyMap
          /\ index' = {}
          /\ damaged' = Entries
    /\ GoOn
    /\ UNCHANGED <<data, opened>>

\* The process dies, or the wallet is locked and drops the engine.
EndSession ==
    /\ data' = EmptyMap
    /\ opened' = {}
    /\ op' = NoOp
    /\ UNCHANGED <<itemVars, damaged>>

-----------------------------------------------------------------------------
Next ==
    \/ \E n \in Names : InitManager(n)
    \/ \E e \in Entries, x \in Objects : saveData(e, x)
    \/ \E e \in Entries : removeData(e)
    \/ WriteValue
    \/ WriteIndex
    \/ WriteOverUnread
    \/ StoreFails
    \/ EndSession

Spec == Init /\ [][Next]_vars

-----------------------------------------------------------------------------
(* Properties *)

\* Between operations, an entry of an open manager that no failed call has
\* touched is what the next session will find: nothing that was saved is
\* missing from the index or stale, and nothing that was removed comes back.
Settled(e) ==
    (e[1] \in opened /\ e \notin damaged /\ e # op.entry)
        => Loadable(e) = data[e]

SettledIsKept == \A e \in Entries : Settled(e)

\* An operation that has lost nothing on its way will have settled its entry
\* when the index is written; one that has, knows it as damaged.
OpCoherent ==
    /\ op # NoOp => op.entry[1] \in opened
    /\ op.step = "value" => op.clean
    /\ op.step = "index" =>
            IF op.clean THEN value[op.entry] = data[op.entry]
                        ELSE op.entry \in damaged

StorageInv == TypeOK /\ SettledIsKept /\ OpCoherent

\* What the next session will find.
Kept == [e \in Entries |-> Loadable(e)]

\* The two writes of an operation are one step for the next session: a crash
\* between them leaves the entry as it was or as it was meant to be, and all
\* other entries alone.
Promise == INSTANCE DurableMap WITH
    kept <- Kept,
    view <- data,
    open <- opened

ImplementsDurableMap == Promise!Spec

=============================================================================
