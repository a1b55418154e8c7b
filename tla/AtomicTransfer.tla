---------------------------- MODULE AtomicTransfer ----------------------------
(***************************************************************************)
(* What the bridge promises of each transfer, without chains, messages,     *)
(* secrets or clocks: a transfer takes its units out of circulation and then*)
(* either delivers them at the other end, once, or returns them, never both.*)
(* CrossChain is checked to implement this specification.                   *)
(***************************************************************************)
EXTENDS Integers

CONSTANTS Transfer, Total

VARIABLES
    phase,      \* [Transfer -> PhaseSet]
    amount,     \* [Transfer -> units escrowed, 0 before]
    spendable   \* units their holders can spend, on either chain

atomicVars == <<phase, amount, spendable>>

PhaseSet == {"idle", "escrowed", "delivered", "burned", "completed", "returned"}

AtomicTypeOK ==
    /\ phase \in [Transfer -> PhaseSet]
    /\ amount \in [Transfer -> 0..Total]
    /\ spendable \in 0..Total

AtomicInit ==
    /\ phase = [tr \in Transfer |-> "idle"]
    /\ amount = [tr \in Transfer |-> 0]
    /\ spendable = Total

Become(tr, from, to) == phase[tr] = from /\ phase' = [phase EXCEPT ![tr] = to]

Escrow(tr, n) ==
    /\ n <= spendable
    /\ Become(tr, "idle", "escrowed")
    /\ amount' = [amount EXCEPT ![tr] = n]
    /\ spendable' = spendable - n

\* The destination mints, before its source burned the escrow or after.
Deliver(tr) ==
    /\ Become(tr, "escrowed", "delivered") \/ Become(tr, "burned", "completed")
    /\ spendable' = spendable + amount[tr]
    /\ UNCHANGED amount

\* The source burns the escrow, after the mint or (a sender giving its secret away)
\* before it.
Settle(tr) ==
    /\ Become(tr, "delivered", "completed") \/ Become(tr, "escrowed", "burned")
    /\ UNCHANGED <<amount, spendable>>

Return(tr) ==
    /\ Become(tr, "escrowed", "returned")
    /\ spendable' = spendable + amount[tr]
    /\ UNCHANGED amount

AtomicNext ==
    \E tr \in Transfer :
        \/ \E n \in 1..Total : Escrow(tr, n)
        \/ Deliver(tr)
        \/ Settle(tr)
        \/ Return(tr)

AtomicSpec == AtomicInit /\ [][AtomicNext]_atomicVars
=============================================================================
