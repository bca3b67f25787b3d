------------------------------- MODULE Escrow -------------------------------
(***************************************************************************)
(* What the billing ledger promises, with nothing said of sessions,        *)
(* transactions, retries or crashes.  A request puts an amount in escrow   *)
(* against a set of accounts (the user's wallet, the access token); later  *)
(* the escrow is either charged, for an amount that may differ from the    *)
(* one held, or released.  All accounts of a request move in one step.  A  *)
(* request that is not charged may incur a penalty, one account at a time. *)
(***************************************************************************)
EXTENDS Integers

CONSTANTS
    Requests,
    Accounts,
    Amounts,    \* the amounts a request may hold or cost
    Penalties   \* the penalties a request may incur

VARIABLES
    balance,    \* balance[a]: what account a still has
    escrow      \* escrow[r]: the state of request r's reservation

vars == <<balance, escrow>>

NoEscrow == [state |-> "none", amount |-> 0, accounts |-> {}]

\* Every account of A moves by the same amount, the others do not move.
Moved(A, delta) ==
    [a \in Accounts |-> IF a \in A THEN balance[a] + delta ELSE balance[a]]

Init ==
    /\ balance \in [Accounts -> Nat]
    /\ escrow = [r \in Requests |-> NoEscrow]

Hold(r, q, A) ==
    /\ escrow[r].state = "none"
    /\ balance' = Moved(A, -q)
    /\ escrow' = [escrow EXCEPT
          ![r] = [state |-> "held", amount |-> q, accounts |-> A]]

Charge(r, n) ==
    /\ escrow[r].state = "held"
    /\ balance' = Moved(escrow[r].accounts, escrow[r].amount - n)
    /\ escrow' = [escrow EXCEPT
          ![r] = [state |-> "charged", amount |-> n,
                  accounts |-> escrow[r].accounts]]

Release(r) ==
    /\ escrow[r].state = "held"
    /\ balance' = Moved(escrow[r].accounts, escrow[r].amount)
    /\ escrow' = [escrow EXCEPT
          ![r] = [state |-> "released", amount |-> escrow[r].amount,
                  accounts |-> escrow[r].accounts]]

Penalize(r, q, a) ==
    /\ escrow[r].state \in {"held", "released"}
    /\ a \in escrow[r].accounts
    /\ balance' = Moved({a}, -q)
    /\ UNCHANGED escrow

Next == \E r \in Requests :
    \/ \E q \in Amounts \ {0}, A \in SUBSET Accounts : Hold(r, q, A)
    \/ \E n \in Amounts : Charge(r, n)
    \/ Release(r)
    \/ \E q \in Penalties, a \in Accounts : Penalize(r, q, a)

Spec == Init /\ [][Next]_vars

=============================================================================
