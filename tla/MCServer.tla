------------------------------ MODULE MCServer ------------------------------
EXTENDS Server, TLC

CONSTANTS w1, w2, w3
Identities == Permutations(Client)

\* What can matter to later steps as long as main neither joins nor runs past
\* the array: all but the counter, the array and the index of the join loop.
ButThreads == <<mainVars, nspawn, fdtab, listVars, fault, sent, connVars,
                [k \in Handler |-> [h[k] EXCEPT !.cnt = 0]]>>
=============================================================================
