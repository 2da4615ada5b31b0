------------------------------ MODULE Registry ------------------------------
(***************************************************************************)
(* What a list of clients promises, whatever holds it: an ordered          *)
(* collection of distinct entries.  A new entry goes to the end, an entry  *)
(* that leaves takes no other with it and keeps the order of the rest, and *)
(* the whole is thrown away once, when the program exits.  TupleList, the  *)
(* linked list of tupleList.c, is shown to implement this specification.   *)
(***************************************************************************)
EXTENDS Naturals, Sequences

CONSTANT Entry              \* what identifies a client: an <IP, port> pair

VARIABLES entries,          \* the entries, oldest first
          open              \* FALSE once the list has been thrown away

vars == <<entries, open>>

Listed(e) == \E i \in DOMAIN entries : entries[i] = e

\* s without its i-th element.
Without(s, i) == [j \in 1..(Len(s) - 1) |-> IF j < i THEN s[j] ELSE s[j + 1]]

-----------------------------------------------------------------------------

Init == entries = <<>> /\ open = TRUE

\* A client the registry does not hold goes to the end.
Enroll(e) == /\ open
             /\ ~Listed(e)
             /\ entries' = Append(entries, e)
             /\ UNCHANGED open

\* The entry of one client leaves.
Strike(e) == /\ open
             /\ \E i \in DOMAIN entries : /\ entries[i] = e
                                          /\ entries' = Without(entries, i)
             /\ UNCHANGED open

\* The registry is thrown away.
Close == open /\ open' = FALSE /\ entries' = <<>>

Next == \/ \E e \in Entry : Enroll(e) \/ Strike(e)
        \/ Close

Spec == Init /\ [][Next]_vars
=============================================================================
