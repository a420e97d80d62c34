----------------------------- MODULE Inventory -----------------------------
(***************************************************************************)
(* What the product API promises about the stock, whatever the lock, the   *)
(* retries and the failures around it do: a unit is handed to a request at *)
(* most once, comes back at most once, and comes back only from the        *)
(* request that holds it.  UseItem implements this specification.          *)
(***************************************************************************)
EXTENDS Integers

CONSTANTS
    Requests,      \* the POST /product/use-item requests
    InitialStock   \* the stock a reset restores

VARIABLES
    stock,   \* units that can still be taken
    held     \* the requests that own a unit

ledger == <<stock, held>>

Init ==
    /\ stock = InitialStock
    /\ held = {}

\* A request is given one unit, which leaves the stock.
Take(r) ==
    /\ stock > 0
    /\ r \notin held
    /\ stock' = stock - 1
    /\ held' = held \union {r}

\* The unit of a request that could not use it goes back.
Return(r) ==
    /\ r \in held
    /\ stock' = stock + 1
    /\ held' = held \ {r}

\* A unit leaves the stock and no request ever hears of it.
Lose ==
    /\ stock > 0
    /\ stock' = stock - 1
    /\ UNCHANGED held

\* An administrator sets the stock, whatever is still held.
Restock ==
    /\ stock' = InitialStock
    /\ UNCHANGED held

Next ==
    \/ \E r \in Requests : Take(r) \/ Return(r)
    \/ Lose
    \/ Restock

Spec == Init /\ [][Next]_ledger
=============================================================================
