---------------------------- MODULE DropboxSync ----------------------------
(***************************************************************************)
(* The server together with its clients: Server, the messages on their way *)
(* to each client, and the list of the others that each client keeps by    *)
(* them (what its workers do with one is Client, here it is Effect).       *)
(***************************************************************************)
EXTENDS Server, Messages

VARIABLES
    reply,          \* handler: the number announced and the tuples in sendBuffer
    inbox,          \* connection: the messages on their way to the client, in order
    view,           \* connection: the client's list of the others
    misled          \* a client took a message whose tuples it runs past

clientVars == <<view, misled>>
syncVars == <<vars, reply, inbox, clientVars>>

NoReply == [count |-> 0, tuples |-> <<>>]
Tuple(n) == conn[n].who

SyncInit == /\ Init
            /\ reply = [k \in Handler |-> NoReply]
            /\ inbox = [c \in Conn |-> <<>>]
            /\ view = [c \in Conn |-> {}]
            /\ misled = FALSE

-----------------------------------------------------------------------------

Asking(k) == h[k].msg.type = "GET_CLIENTS"

\* GET_CLIENTS: the size is written into sendBuffer before the walk begins; each
\* node of the walk adds its tuple; the buffers are cleared after the reply.
Compose(k) ==
    CASE Asking(k) /\ h[k].pc = "head" -> [reply EXCEPT ![k].count = Len(list)]
      [] Asking(k) /\ h[k].pc = "walk" /\ shouldRun ->
            [reply EXCEPT ![k].tuples = Append(@, Tuple(h[k].it))]
      [] h[k].pc = "reply" -> [reply EXCEPT ![k] = NoReply]
      [] OTHER -> reply

\* What handler k has in sendBuffer when it sends.
Text(k, kind) == CASE kind = "USER_ON" -> UserOn(Tuple(h[k].msg.from))
                   [] kind = "USER_OFF" -> UserOff(Tuple(h[k].msg.from))
                   [] kind = "CLIENT_LIST" -> ClientList(reply[k].count, reply[k].tuples)

\* A message that is sent goes into the connection it is sent to.
Served(k) ==
    /\ HandlerStep(k)
    /\ reply' = IF fault' = "none" THEN Compose(k) ELSE reply
    /\ inbox' = IF sent' = NoSend \/ fault' # "none" THEN inbox
                ELSE [inbox EXCEPT ![sent'.conn] = Append(@, Text(k, sent'.kind))]
    /\ UNCHANGED clientVars

\* A worker of the client takes the next message.
Take(c) == /\ inbox[c] # <<>> /\ conn[c].st \in {"on", "asked"}
           /\ inbox' = [inbox EXCEPT ![c] = Tail(@)]
           /\ view' = [view EXCEPT ![c] = Effect(Tuple(c), @, Head(inbox[c]))]
           /\ misled' = (misled \/ Misleads(Head(inbox[c])))
           /\ UNCHANGED <<vars, reply>>

\* The requests of the clients, CTRL + C, main, and standard input.
Elsewise == UNCHANGED <<reply, inbox, clientVars>>

SyncNext ==
    \/ Elsewise /\ \E w \in Client : Connect(w)
    \/ Elsewise /\ \E c \in Conn : Ask(c) \/ LogOff(c) \/ Finish(c) \/ Die(c)
    \/ Elsewise /\ (Sigint \/ MainStep \/ \E k \in Handler : ReadStdin(k))
    \/ \E k \in Handler : Served(k)
    \/ \E c \in Conn : Take(c)

-----------------------------------------------------------------------------

\* The server has dealt with everything that was sent: main waits for the next
\* client, the handlers wait in read or have returned.
Idle == /\ mpc = "select" /\ naccd = nconn
        /\ \A k \in Handler : h[k].pc \in {"none", "blocked", "done"}
        /\ \A c \in 1..nconn : conn[c].reqs = <<>>

\* A step by which a client comes or logs off.
ComesOrLeaves ==
    \/ nconn' # nconn
    \/ \E c \in 1..nconn : conn[c].st # "off" /\ conn'[c].st = "off"

\* The clients asked before, as each one does right after its LOG_ON.
AllAsked == \A c \in 1..nconn : conn[c].st # "on"

SyncSpec == SyncInit /\ [][SyncNext]_syncVars

\* The clients come and leave one at a time, each when the server is done with
\* the one before.  How fast the clients take their messages is left open.  With
\* "twins" not in EnvFaults no two live clients have the same <IP, port> (InUse of
\* Server), an assumption on the clients' hosts that the program does not check.
PacedNext == SyncNext /\ (ComesOrLeaves => Idle /\ AllAsked)

\* The threads take their steps, and a client that sees its connection closed
\* ends.
PacedSpec == /\ SyncInit /\ [][PacedNext]_syncVars
             /\ WF_syncVars(MainStep /\ Elsewise)
             /\ \A k \in Handler : WF_syncVars(Served(k))
             /\ \A c \in Conn : WF_syncVars(Finish(c) /\ Elsewise)

-----------------------------------------------------------------------------

\* What message m does to client c's having t in its list.
Adds(c, m, t) == t \in Effect(Tuple(c), {}, m)
Removes(c, m, t) == t \notin Effect(Tuple(c), {t}, m)

\* The list of client c once it has taken everything that is on its way to it:
\* what the list has, or a message adds, and no later message removes.
Foreseen(c) ==
    {t \in Client :
        \/ /\ t \in view[c]
           /\ \A j \in DOMAIN inbox[c] : ~Removes(c, inbox[c][j], t)
        \/ \E i \in DOMAIN inbox[c] :
              /\ Adds(c, inbox[c][i], t)
              /\ \A j \in DOMAIN inbox[c] : j > i => ~Removes(c, inbox[c][j], t)}

ListedTuples == {Tuple(list[i].from) : i \in DOMAIN list}

\* If the clients come and leave one at a time, and no two that live share an
\* identity, then whenever the server is done each client's list is, or is by the
\* messages under way becoming, the server's without the client itself, and no
\* message makes a client run past its tuples.
ClientsAgree ==
    /\ ~misled
    /\ Idle => \A c \in 1..nconn :
                  conn[c].st = "asked" => Foreseen(c) = ListedTuples \ {Tuple(c)}

\* And nothing goes wrong in the server, with the same two assumptions.
OneAtATimeIsSafe == fault = "none"

\* And, with the same, each client that logs off has its connection closed, which
\* is what its workers, and exitProgram in join, wait for (Client,
\* WorkersEndWithServer).
LeaverIsReleased == \A c \in Conn : conn[c].st = "off" ~> conn[c].st = "gone"
=============================================================================
