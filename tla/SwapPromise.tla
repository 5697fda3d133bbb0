----------------------------- MODULE SwapPromise -----------------------------
(***************************************************************************)
(* What a swap promises the user of an Oubli wallet, with nothing in it of *)
(* calls, engines, quotes or transactions in flight.                       *)
(*                                                                         *)
(* Paying out, the user's wBTC is locked for the provider, who may take it *)
(* only once the payment has been delivered.  Receiving, the provider's    *)
(* wBTC is locked for the user, and the payer is charged exactly when the  *)
(* user takes it.  An answer about a swap is final and true: ok means that *)
(* the other side has its money, refundable and expired mean that it will  *)
(* never have it.                                                          *)
(***************************************************************************)
CONSTANTS Pays,     \* swaps that pay out
          Receives  \* swaps that bring wBTC in

VARIABLES lock,     \* the locked wBTC of a swap
          payment,  \* what has become of the payment outside Starknet
          answer    \* the last answer about a swap

Swaps == Pays \cup Receives

promiseVars == <<lock, payment, answer>>

Init ==
    /\ lock = [s \in Swaps |-> "none"]
    /\ payment = [s \in Swaps |-> "open"]
    /\ answer = [s \in Swaps |-> "nothing"]

-----------------------------------------------------------------------------
Lock(s) ==
    /\ lock[s] = "none"
    /\ payment[s] = "open"
    /\ lock' = [lock EXCEPT ![s] = "locked"]
    /\ UNCHANGED <<payment, answer>>

\* The provider pays for what is locked, and takes it afterwards.
Deliver(s) ==
    /\ s \in Pays
    /\ lock[s] = "locked"
    /\ payment[s] = "open"
    /\ payment' = [payment EXCEPT ![s] = "settled"]
    /\ UNCHANGED <<lock, answer>>

Take(s) ==
    /\ s \in Pays
    /\ lock[s] = "locked"
    /\ payment[s] = "settled"
    /\ lock' = [lock EXCEPT ![s] = "claimed"]
    /\ UNCHANGED <<payment, answer>>

\* The user takes what the provider locked, and only then the payer is charged.
Receive(s) ==
    /\ s \in Receives
    /\ lock[s] = "locked"
    /\ payment[s] = "open"
    /\ lock' = [lock EXCEPT ![s] = "claimed"]
    /\ payment' = [payment EXCEPT ![s] = "settled"]
    /\ UNCHANGED answer

\* The payment will never be made; a provider's lock goes back to it.
GiveUp(s) ==
    /\ payment[s] = "open"
    /\ payment' = [payment EXCEPT ![s] = "failed"]
    /\ \/ lock' = lock /\ (s \in Receives => lock[s] = "none")
       \/ /\ s \in Receives
          /\ lock[s] = "locked"
          /\ lock' = [lock EXCEPT ![s] = "refunded"]
    /\ UNCHANGED answer

TrueAnswers(s) ==
    {"error"} \cup (IF payment[s] = "settled" THEN {"ok"} ELSE {})
              \cup (IF payment[s] = "failed" THEN {"refundable", "expired"}
                    ELSE {})

Answer(s) ==
    /\ \E a \in TrueAnswers(s) : answer' = [answer EXCEPT ![s] = a]
    /\ UNCHANGED <<lock, payment>>

-----------------------------------------------------------------------------
Next ==
    \E s \in Swaps :
        \/ Lock(s)
        \/ Deliver(s)
        \/ Take(s)
        \/ Receive(s)
        \/ GiveUp(s)
        \/ Answer(s)

Spec == Init /\ [][Next]_promiseVars

=============================================================================
