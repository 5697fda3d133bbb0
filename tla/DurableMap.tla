----------------------------- MODULE DurableMap -----------------------------
(***************************************************************************)
(* What the swap storage promises the SDK: for every manager a map whose   *)
(* changes are seen at once in the session that makes them and outlive it. *)
(* A change settles in one step, so that a crash finds it done or not done *)
(* at all.  Calls of the platform that fail may damage entries: a damaged  *)
(* entry may be lost or fall back to an old object, until it is saved      *)
(* again or a new session has looked at it.                                *)
(***************************************************************************)
CONSTANTS Names,   \* the managers
          Keys,    \* hashes of the objects
          Objects, \* what is stored under them
          Nothing  \* the object of no entry

VARIABLES kept,   \* what the next session will find
          view,   \* what this session sees
          open,   \* the managers in use in this session
          damaged \* entries that a failed call may have changed

mapVars == <<kept, view, open, damaged>>

Entries == Names \X Keys
Maps == [Entries -> Objects \cup {Nothing}]

Init ==
    /\ kept = [e \in Entries |-> Nothing]
    /\ view = kept
    /\ open = {}
    /\ damaged = {}

-----------------------------------------------------------------------------
\* Nothing happens to the entries outside S.
KeptOutside(S) == \A e \in Entries \ S : kept'[e] = kept[e]

\* A session looks at a map: from here on it sees what is kept, and what it
\* fails to see counts as damaged.
Open(n) ==
    /\ n \notin open
    /\ open' = open \cup {n}
    /\ view' \in Maps
    /\ \A e \in Entries : e[1] # n => view'[e] = view[e]
    /\ damaged' \subseteq Entries
    /\ \A e \in Entries : e[1] = n /\ e \notin damaged' => view'[e] = kept[e]
    /\ \A e \in Entries : e[1] # n => (e \in damaged' <=> e \in damaged)
    /\ UNCHANGED kept

Change(e, x) ==
    /\ e[1] \in open
    /\ view' = [view EXCEPT ![e] = x]
    /\ UNCHANGED <<kept, open, damaged>>

\* The change of an entry outlives the session from here on.
Settle(e) ==
    /\ kept' \in Maps
    /\ KeptOutside(damaged \cup {e})
    /\ kept'[e] = view[e]
    /\ damaged' = damaged \ {e}
    /\ UNCHANGED <<view, open>>

\* A call that fails adds to the damaged entries; damaged entries may change
\* at any time.
Damage ==
    /\ kept' \in Maps
    /\ damaged \subseteq damaged'
    /\ damaged' \subseteq Entries
    /\ KeptOutside(damaged')
    /\ UNCHANGED <<view, open>>

\* The session ends, at any moment.
Close ==
    /\ view' = [e \in Entries |-> Nothing]
    /\ open' = {}
    /\ UNCHANGED <<kept, damaged>>

Next ==
    \/ \E n \in Names : Open(n)
    \/ \E e \in Entries, x \in Objects \cup {Nothing} : Change(e, x)
    \/ \E e \in Entries : Settle(e)
    \/ Damage
    \/ Close

Spec == Init /\ [][Next]_mapVars

=============================================================================
