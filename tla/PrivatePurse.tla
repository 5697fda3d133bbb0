---------------------------- MODULE PrivatePurse ----------------------------
(***************************************************************************)
(* What the Oubli wallet promises its owner about the money, with nothing  *)
(* of nonces, ciphertexts, handlers or transactions in it.                 *)
(*                                                                         *)
(* The owner has public wBTC (satoshis), spendable units and pending       *)
(* units.  Money only leaves when an order of the owner's is paid, exactly *)
(* as ordered and at most once; an order that has been sent may be paid or *)
(* may bounce at any later time.  The purse itself only ever shields       *)
(* public wBTC and claims pending units, neither of which loses any.       *)
(***************************************************************************)
EXTENDS Integers

CONSTANTS Rate,     \* satoshis per unit
          Ids,      \* names for the orders sent
          Orders,   \* what the owner may order, at its price
          NoOrder,  \* no order is being written
          Arrivals, \* amounts (satoshis) that may arrive
          Receipts  \* amounts (units) that may be received

VARIABLES pub,      \* public satoshis
          bal,      \* spendable units
          pend,     \* units received and not yet claimed
          draft,    \* the order the owner has given and the purse has not sent
          sent      \* orders sent and neither paid nor bounced

purseVars == <<pub, bal, pend, draft, sent>>

Init ==
    /\ pub = 0 /\ bal = 0 /\ pend = 0
    /\ draft = NoOrder
    /\ sent = {}

-----------------------------------------------------------------------------
Write(order) ==
    /\ draft = NoOrder
    /\ draft' = order
    /\ UNCHANGED <<pub, bal, pend, sent>>

Discard ==
    /\ draft' = NoOrder
    /\ UNCHANGED <<pub, bal, pend, sent>>

Send(id) ==
    /\ draft # NoOrder
    /\ \A s \in sent : s.id # id
    /\ sent' = sent \cup {[id |-> id, order |-> draft]}
    /\ draft' = NoOrder
    /\ UNCHANGED <<pub, bal, pend>>

\* The units an order takes out of the purse; ragequit empties it.
Cost(order) ==
    IF order.kind = "ragequit" THEN bal
    ELSE IF order.kind = "token" THEN 0 ELSE order.amount + order.fee

\* What comes back as public wBTC when the recipient is the owner, less what
\* a token order takes.
PublicChange(order) ==
    IF order.kind = "token" THEN -order.amount
    ELSE IF order.toSelf THEN (Cost(order) - order.fee) * Rate ELSE 0

Pay(s) ==
    /\ Cost(s.order) <= bal
    /\ pub + PublicChange(s.order) >= 0
    /\ bal' = bal - Cost(s.order)
    /\ pub' = pub + PublicChange(s.order)
    /\ sent' = sent \ {s}
    /\ UNCHANGED <<pend, draft>>

Bounce(s) ==
    /\ sent' = sent \ {s}
    /\ UNCHANGED <<pub, bal, pend, draft>>

-----------------------------------------------------------------------------
Shield(units) ==
    /\ units * Rate <= pub
    /\ pub' = pub - units * Rate
    /\ bal' = bal + units
    /\ UNCHANGED <<pend, draft, sent>>

Claim ==
    /\ bal' = bal + pend
    /\ pend' = 0
    /\ UNCHANGED <<pub, draft, sent>>

Arrive(sats) ==
    /\ pub' = pub + sats
    /\ UNCHANGED <<bal, pend, draft, sent>>

Receive(units) ==
    /\ pend' = pend + units
    /\ UNCHANGED <<pub, bal, draft, sent>>

-----------------------------------------------------------------------------
Next ==
    \/ \E order \in Orders : Write(order)
    \/ Discard
    \/ \E id \in Ids : Send(id)
    \/ \E s \in sent : Pay(s) \/ Bounce(s)
    \/ \E units \in 0 .. pub \div Rate : Shield(units)
    \/ Claim
    \/ \E sats \in Arrivals : Arrive(sats)
    \/ \E units \in Receipts : Receive(units)

Spec == Init /\ [][Next]_purseVars

=============================================================================
