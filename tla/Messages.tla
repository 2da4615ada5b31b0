------------------------------ MODULE Messages ------------------------------
(***************************************************************************)
(* The messages of the server to its clients, and what a client's list of  *)
(* the others becomes by one of them.  Each carries tuples: USER_ON and    *)
(* USER_OFF one, CLIENT_LIST those of the server's list, behind the number *)
(* the server announces for them.                                          *)
(***************************************************************************)
EXTENDS Naturals, Sequences

UserOn(t) == [type |-> "USER_ON", count |-> 1, tuples |-> <<t>>]
UserOff(t) == [type |-> "USER_OFF", count |-> 1, tuples |-> <<t>>]
ClientList(n, ts) == [type |-> "CLIENT_LIST", count |-> n, tuples |-> ts]

\* The tuples a client takes from a message: as many as are announced.
Named(m) == {m.tuples[i] : i \in {j \in DOMAIN m.tuples : j <= m.count}}

\* The loop over CLIENT_LIST runs past the tuples, or there is not even the
\* one tuple that is looked for before the kind of message is.
Misleads(m) == m.tuples = <<>> \/ m.count > Len(m.tuples)

\* The list v of client `self` after message m.  Only the tuples of CLIENT_LIST
\* are compared with the client's own.
Effect(self, v, m) == CASE m.type = "USER_ON" -> v \cup Named(m)
                        [] m.type = "USER_OFF" -> v \ Named(m)
                        [] m.type = "CLIENT_LIST" -> v \cup (Named(m) \ {self})
=============================================================================
