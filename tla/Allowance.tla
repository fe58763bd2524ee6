----------------------------- MODULE Allowance -----------------------------
(* What a rate limit promises: in every window a holder is granted at most *)
(* its quota, one grant at a time, and a grant is never taken back.        *)
EXTENDS Naturals

CONSTANTS
    Holders, Windows,
    Quota     \* [Holders -> Nat]

VARIABLE granted  \* [Holders \X Windows -> Nat]

Init == granted = [g \in Holders \X Windows |-> 0]

Grant(h, n) ==
    /\ granted[<<h, n>>] < Quota[h]
    /\ granted' = [granted EXCEPT ![<<h, n>>] = @ + 1]

Next == \E h \in Holders, n \in Windows : Grant(h, n)

Spec == Init /\ [][Next]_granted
=============================================================================
