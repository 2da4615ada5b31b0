------------------------------ MODULE Follower ------------------------------
(***************************************************************************)
(* What a client promises of its list of the other clients: the list is    *)
(* what the messages of the server make of an empty one, each applied as a *)
(* whole, at most once, and in the order in which they were sent.  A       *)
(* client that stops applies no more of them, and throws the list away; a  *)
(* client short of memory may miss tuples of the message it is applying.   *)
(* Client, the program of dropbox_client with its worker threads, is shown *)
(* to implement this specification.                                        *)
(***************************************************************************)
EXTENDS Messages

CONSTANTS Message,          \* the messages the server may send
          Self              \* the <IP, port> of this client

VARIABLES stream,           \* messages sent to the client and not yet applied
          view,             \* the clients it lists
          fresh,            \* those of the last message that are not yet stored
          running,          \* FALSE once the client has begun to stop
          short             \* TRUE once its memory has run short

vars == <<stream, view, fresh, running, short>>

-----------------------------------------------------------------------------

Init == stream = <<>> /\ view = {} /\ fresh = {} /\ running = TRUE /\ short = FALSE

\* The server sends a message.
Arrive(m) == stream' = Append(stream, m) /\ UNCHANGED <<view, fresh, running, short>>

\* The oldest one is applied, or, once the client stops, dropped.
Take == /\ stream # <<>>
        /\ view' = IF running THEN Effect(Self, view, Head(stream)) ELSE view
        /\ fresh' \in SUBSET (view' \ view)
        /\ stream' = Tail(stream)
        /\ UNCHANGED <<running, short>>

\* Tuples of the message just taken are stored, or missed for want of memory.
Store == \E missed \in SUBSET fresh :
            /\ missed # {} => short
            /\ view' = view \ missed
            /\ fresh' \in SUBSET (fresh \ missed)
            /\ UNCHANGED <<stream, running, short>>

\* A reset of the connection takes with it the newest ones.
Lose == /\ \E n \in 0..Len(stream) : stream' = SubSeq(stream, 1, n)
        /\ UNCHANGED <<view, fresh, running, short>>

RunShort == short' = TRUE /\ UNCHANGED <<stream, view, fresh, running>>

Stop == running' = FALSE /\ UNCHANGED <<stream, view, fresh, short>>

\* The list is thrown away.
Forget == ~running /\ view' = {} /\ fresh' = {} /\ UNCHANGED <<stream, running, short>>

Next == \/ \E m \in Message : Arrive(m)
        \/ Take \/ Store \/ Lose \/ RunShort \/ Stop \/ Forget

Spec == Init /\ [][Next]_vars
=============================================================================
