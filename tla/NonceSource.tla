------------------------------ MODULE NonceSource ------------------------------
(***************************************************************************)
(* What docs/risk/RISK_INVARIANTS.md asks of the agent signer: "Nonce       *)
(* generation must be monotonic per managed agent."                         *)
(***************************************************************************)
EXTENDS Naturals

CONSTANT Agents

VARIABLE given   \* agent -> the nonces its signatures carry so far

Init == given = [a \in Agents |-> {}]

\* Agent a signs with one more nonce, larger than every earlier one of its own.
Give(a) ==
  /\ given' = [given EXCEPT ![a] = given'[a]]
  /\ \E n \in given'[a] : /\ given'[a] = given[a] \cup {n}
                          /\ n \in Nat /\ \A m \in given[a] : m < n

Next == \E a \in Agents : Give(a)

Spec == Init /\ [][Next]_given
===============================================================================
