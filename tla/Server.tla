------------------------------- MODULE Server -------------------------------
(***************************************************************************)
(* The server: the accept loop of main.c, one connectionHandler thread per *)
(* accepted connection, the descriptor table of the process, the list of   *)
(* clients the threads share, and the connections of the clients.          *)
(*                                                                         *)
(* Connections are numbered in the order the server accepts them (the      *)
(* backlog is first in, first out), handlers in the order of their         *)
(* creation.  The handlers read the descriptor to serve through a pointer  *)
(* to main's variable acceptedClient (main.c:163): that one variable is    *)
(* `accepted`, and a handler looks at it when it starts and again after    *)
(* every message (serverUtils.c:212 and 252).                              *)
(*                                                                         *)
(* A step whose outcome the C program leaves undefined, or which kills it, *)
(* sets `fault` and nothing moves after it; the other variables keep the   *)
(* values the program had when it happened.                                *)
(***************************************************************************)
EXTENDS Integers, Sequences

CONSTANTS Client,             \* the <IP, port> identities
          MaxConn,            \* bound: connections the clients make in all
          MaxThread,          \* bound: handlers created in all
          Askers, Leavers,    \* bound: the connections that ask, that log off
          MaxFd,              \* descriptors left to the process for clients
          MAX_CLIENTS_SIZE,   \* the length of the array serverThreads
          EnvFaults           \* what the surroundings may do, see below

ASSUME BoundsAssumption == /\ MaxConn \in Nat /\ MaxThread \in Nat
                           /\ MaxFd \in Nat /\ MAX_CLIENTS_SIZE \in Nat
                           /\ Askers \subseteq 1..MaxConn
                           /\ Leavers \subseteq 1..MaxConn

\* "sigint": CTRL + C;  "die": a client is killed;  "accept": accept fails;
\* "lookup": gethostbyaddr fails;  "thread": pthread_create fails;  "memory":
\* malloc fails;  "twins": two live clients have the same <IP, port>.
ASSUME EnvFaultsAssumption ==
    EnvFaults \subseteq {"sigint", "die", "accept", "lookup", "thread", "memory",
                        "twins"}

Conn == 1..MaxConn
Handler == 1..MaxThread
Fd == 1..MaxFd
None == 0                     \* no connection, no handler, no node
Bad == -1                     \* what accept returns when it fails
Stdin == 0                    \* what acceptConnectionRequest returns to stop main

Requests == {"LOG_ON", "GET_CLIENTS", "LOG_OFF"}
NoMsg == [type |-> "none", from |-> None]
NoSend == [kind |-> "none", conn |-> None, to |-> None]

VARIABLES
    mpc,            \* where main is
    shouldRun,
    accepted,       \* acceptedClient, the variable every handler points at
    naccd,          \* connections accepted so far
    nspawn,         \* handlers created so far
    threadCounter,
    slots,          \* serverThreads: the handler whose id each element holds
    joined,         \* the index of the join loop
    fdtab,          \* descriptor table: the connection behind a descriptor
    list,           \* clientsList: nodes [from, fd], head first
    destroyed,      \* the list and the threadData have been freed
    fault,          \* "none", or what went wrong
    sent,           \* the message written in the last step, if one was
    nconn,          \* connections made by the clients so far
    conn,           \* the connections, see NewConn
    h               \* the locals of the handlers, see NewHandler

mainVars == <<mpc, shouldRun, accepted, naccd>>
threadVars == <<nspawn, threadCounter, slots, joined>>
listVars == <<list, destroyed>>
connVars == <<nconn, conn>>
vars == <<mainVars, threadVars, fdtab, listVars, fault, sent, connVars, h>>

\* st: "none", "on", "asked", "off" (LOG_OFF is sent), "gone";  who: the client;
\* reqs: the requests sent and not yet taken, oldest first;  hdr: the handler
\* that has read the length of the oldest one, but not its text.
NewConn == [st |-> "none", who |-> None, reqs |-> <<>>, hdr |-> None]

\* fd: acceptedClient of connectionHandler;  conn: what its read() reads from;
\* msg: the request in receiveBuffer;  it: iteratableTupleNode (a node is named
\* by its `from`);  buf: the nodes put into sendBuffer;  cnt: the value that
\* threadCounter++ loaded.
NewHandler == [pc |-> "none", fd |-> Bad, conn |-> None, msg |-> NoMsg,
               it |-> None, buf |-> {}, cnt |-> 0]

Running == fault = "none" /\ mpc # "exited"

\* The connection behind a descriptor, None for a closed or invalid one.
Target(f) == IF f \in Fd THEN fdtab[f] ELSE None

\* Slip: the search for a client begins behind the head.
PositionsPastHead(c) == {i \in 2..Len(list) : conn[list[i].from].who = conn[c].who}

\* The nodes of the list that hold the client of connection c.
Positions(c) == {i \in DOMAIN list : conn[list[i].from].who = conn[c].who}
Listed(c) == Positions(c) # {}
First(S) == CHOOSE i \in S : \A j \in S : i <= j
PositionOf(n) == {i \in DOMAIN list : list[i].from = n}

Quiet == sent' = NoSend

\* An undefined or deadly step.
Fail(what) == /\ fault' = what
              /\ UNCHANGED <<mainVars, threadVars, fdtab, listVars, sent, connVars, h>>

-----------------------------------------------------------------------------

Init ==
    /\ mpc = "check" /\ shouldRun = TRUE /\ accepted = Bad
    /\ naccd = 0 /\ nspawn = 0 /\ threadCounter = 0 /\ joined = 0
    /\ slots = [i \in 0..(MAX_CLIENTS_SIZE - 1) |-> None]
    /\ fdtab = [f \in Fd |-> None]
    /\ list = <<>> /\ destroyed = FALSE /\ fault = "none" /\ sent = NoSend
    /\ nconn = 0
    /\ conn = [c \in Conn |-> NewConn]
    /\ h = [k \in Handler |-> NewHandler]

-----------------------------------------------------------------------------
(* The clients and the surroundings.  A client connects and sends LOG_ON,  *)
(* then GET_CLIENTS, later LOG_OFF; then it waits for the server to close. *)

Outside == /\ Running /\ Quiet
           /\ UNCHANGED <<mainVars, threadVars, fdtab, listVars, fault, h>>

\* A live client has its identity alone, or so the server takes it.  In fact two
\* hosts may give themselves one address (127.0.1.1), and SO_REUSEPORT lets two
\* clients of one host bind one port: that is "twins".
InUse(w) == \E c \in 1..nconn : conn[c].who = w /\ conn[c].st # "gone"

Connect(w) == /\ Outside /\ nconn < MaxConn
              /\ ~InUse(w) \/ "twins" \in EnvFaults
              /\ nconn' = nconn + 1
              /\ conn' = [conn EXCEPT ![nconn'] =
                            [NewConn EXCEPT !.st = "on", !.who = w, !.reqs = <<"LOG_ON">>]]

Request(c, from, to, type) ==
    /\ Outside /\ conn[c].st \in from
    /\ conn' = [conn EXCEPT ![c].st = to, ![c].reqs = Append(@, type)]
    /\ UNCHANGED nconn

Ask(c) == c \in Askers /\ Request(c, {"on"}, "asked", "GET_CLIENTS")
LogOff(c) == c \in Leavers /\ Request(c, {"on", "asked"}, "off", "LOG_OFF")

\* Nothing in the server keeps c open: no descriptor, no read under way.
Released(c) == /\ \A f \in Fd : fdtab[f] # c
               /\ \A k \in Handler : h[k].conn # c

\* The client that logged off sees its connection closed and ends.
Finish(c) == /\ Outside /\ conn[c].st = "off" /\ c <= naccd /\ Released(c)
             /\ conn' = [conn EXCEPT ![c].st = "gone"]
             /\ UNCHANGED nconn

\* The client is killed.  What it sent may still be read, or be lost with a
\* reset of the connection.
Die(c) == /\ Outside /\ "die" \in EnvFaults
          /\ conn[c].st \in {"on", "asked", "off"}
          /\ \E rest \in {conn[c].reqs, IF conn[c].hdr = None THEN <<>> ELSE conn[c].reqs} :
                conn' = [conn EXCEPT ![c].st = "gone", ![c].reqs = rest]
          /\ UNCHANGED nconn

\* CTRL + C.  The handler clears shouldRun; the kernel delivers the signal to
\* the main thread, and if that sits in select, select returns with EINTR and
\* acceptConnectionRequest, its set unchanged, returns 0, which main stores in
\* acceptedClient.  A second CTRL + C does nothing but that.
Sigint == /\ Running /\ Quiet /\ "sigint" \in EnvFaults
          /\ shouldRun \/ mpc = "select"
          /\ shouldRun' = FALSE
          /\ IF mpc = "select" THEN mpc' = "exit" /\ accepted' = Stdin
                               ELSE UNCHANGED <<mpc, accepted>>
          /\ UNCHANGED <<naccd, threadVars, fdtab, listVars, fault, connVars, h>>

-----------------------------------------------------------------------------
(* main.                                                                   *)

InMain(label) == /\ Running /\ Quiet /\ mpc = label
                 /\ UNCHANGED <<naccd, fault, connVars>>

\* A step of main that moves on and does nothing else.
MainGoes(label, next) == /\ InMain(label)
                         /\ mpc' = next
                         /\ UNCHANGED <<shouldRun, accepted, threadVars, fdtab, listVars, h>>

\* acceptConnectionRequest returns 0 because shouldRun is cleared; the handlers
\* that look at acceptedClient from now on find descriptor 0, standard input.
MainStops(label) == /\ InMain(label) /\ ~shouldRun
                    /\ mpc' = "exit" /\ accepted' = Stdin
                    /\ UNCHANGED <<shouldRun, threadVars, fdtab, listVars, h>>

\* Look at shouldRun before waiting (serverUtils.c:47).
CheckRun == MainStops("check") \/ (shouldRun /\ MainGoes("check", "enter"))

\* Enter select: a signal before this point does not interrupt it.
EnterSelect == MainGoes("enter", "select")

Pending == naccd < nconn
FreeFds == {f \in Fd : fdtab[f] = None}

\* select returns for a new connection after shouldRun has been cleared.
WakeToExit == Pending /\ MainStops("select")

\* accept: the oldest pending connection gets the lowest free descriptor, and
\* acceptedClient, which every handler looks at, is overwritten.
Accept == /\ Running /\ Quiet /\ mpc = "select" /\ Pending /\ shouldRun
          /\ FreeFds # {}
          /\ accepted' = First(FreeFds)
          /\ fdtab' = [fdtab EXCEPT ![accepted'] = naccd + 1]
          /\ naccd' = naccd + 1
          /\ mpc' = "spawn"
          /\ UNCHANGED <<shouldRun, threadVars, listVars, fault, connVars, h>>

\* accept fails: its -1 is not 0, so main takes it for a client.
AcceptFails == /\ InMain("select") /\ Pending /\ shouldRun
               /\ "accept" \in EnvFaults \/ FreeFds = {}
               /\ accepted' = Bad
               /\ mpc' = "spawn"
               /\ UNCHANGED <<shouldRun, threadVars, fdtab, listVars, h>>

\* The loop condition sees shouldRun cleared, or the lookup fails: either way
\* exitProgram, which clears shouldRun first.
GiveUp == /\ InMain("spawn")
          /\ ~shouldRun \/ "lookup" \in EnvFaults
          /\ mpc' = "exit" /\ shouldRun' = FALSE
          /\ UNCHANGED <<accepted, threadVars, fdtab, listVars, h>>

\* pthread_create stores the id at serverThreads[threadCounter]; whether the
\* new thread has counted itself yet is a matter of timing.
Spawn == /\ InMain("spawn") /\ shouldRun /\ nspawn < MaxThread
         /\ threadCounter \in DOMAIN slots
         /\ nspawn' = nspawn + 1
         /\ slots' = [slots EXCEPT ![threadCounter] = nspawn']
         /\ h' = [h EXCEPT ![nspawn'].pc = "start"]
         /\ mpc' = "check"
         /\ UNCHANGED <<shouldRun, accepted, threadCounter, joined, fdtab, listVars>>

\* pthread_create fails with a positive error, which the test of main.c:167 takes
\* for success: the client just accepted has no handler, and POSIX leaves open
\* what the element holds.
SpawnFails == /\ InMain("spawn") /\ shouldRun /\ "thread" \in EnvFaults
              /\ threadCounter \in DOMAIN slots
              /\ slots' \in {slots, [slots EXCEPT ![threadCounter] = None]}
              /\ mpc' = "check"
              /\ UNCHANGED <<shouldRun, accepted, nspawn, threadCounter, joined,
                             fdtab, listVars, h>>

\* The array has no such element: the test of main.c:167 cannot fail.
SpawnPastTheEnd == /\ Running /\ mpc = "spawn" /\ shouldRun
                   /\ threadCounter \notin DOMAIN slots
                   /\ Fail("overflow")

\* exitProgram frees the list and the threadData, then joins.
Release == /\ InMain("exit")
           /\ list' = <<>> /\ destroyed' = TRUE
           /\ mpc' = "join"
           /\ UNCHANGED <<shouldRun, accepted, threadVars, fdtab, h>>

\* The element the join loop is at holds the id of a thread.
Joinable == joined \in DOMAIN slots /\ slots[joined] # None

\* Slip: main does not wait for the thread.
JoinUnended == /\ InMain("join") /\ joined < threadCounter /\ Joinable
               /\ joined' = joined + 1
               /\ UNCHANGED <<mpc, shouldRun, accepted, nspawn, threadCounter, slots,
                              fdtab, listVars, h>>

\* pthread_join waits for one thread at a time.
Join == /\ InMain("join") /\ joined < threadCounter /\ Joinable
        /\ h[slots[joined]].pc = "done"
        /\ joined' = joined + 1
        /\ UNCHANGED <<mpc, shouldRun, accepted, nspawn, threadCounter, slots,
                       fdtab, listVars, h>>

\* pthread_join of an element no thread's id was stored in.
JoinGarbage == /\ Running /\ mpc = "join" /\ joined < threadCounter /\ ~Joinable
               /\ Fail("join")

\* exit: every descriptor is closed, every thread is gone.
Exit == /\ InMain("join") /\ joined >= threadCounter
        /\ mpc' = "exited"
        /\ fdtab' = [f \in Fd |-> None]
        /\ UNCHANGED <<shouldRun, accepted, threadVars, listVars, h>>

MainStep == \/ CheckRun \/ EnterSelect \/ WakeToExit \/ Accept \/ AcceptFails
            \/ GiveUp \/ Spawn \/ SpawnFails \/ SpawnPastTheEnd \/ Release
            \/ Join \/ JoinGarbage \/ Exit

-----------------------------------------------------------------------------
(* connectionHandler.                                                      *)

In(k, labels) == Running /\ h[k].pc \in labels

\* What a handler's step leaves alone unless it says otherwise.
Elsewhere == UNCHANGED <<mainVars, nspawn, slots, joined, fault>>
Private == Elsewhere /\ UNCHANGED <<threadCounter, fdtab, listVars, connVars>>

\* A step of handler k at label that changes nothing but its locals.
Local(k, label, locals) == /\ In(k, {label}) /\ Private /\ Quiet
                           /\ h' = [h EXCEPT ![k] = locals]

Returned == [NewHandler EXCEPT !.pc = "done"]

\* The request is dealt with, the buffers are cleared, on to the next read.
NextRequest(k) == [h[k] EXCEPT !.pc = "read", !.msg = NoMsg, !.it = None, !.buf = {}]

\* Slip: the counter is decremented.
StartDecrements(k) ==
    Local(k, "start", [h[k] EXCEPT !.pc = "count", !.cnt = threadCounter - 2])

\* threadCounter++ is a load ...
Start(k) == Local(k, "start", [h[k] EXCEPT !.pc = "count", !.cnt = threadCounter])

\* Slip: the handler takes the descriptor numbered like its thread.
CountOwnSlot(k) ==
    /\ In(k, {"count"}) /\ ~destroyed
    /\ threadCounter' = h[k].cnt + 1
    /\ h' = [h EXCEPT ![k].pc = "read", ![k].cnt = 0,
                      ![k].fd = IF k \in Fd THEN k ELSE Bad]
    /\ Quiet /\ Elsewhere /\ UNCHANGED <<fdtab, listVars, connVars>>

\* ... and a store; then the handler looks at main's acceptedClient.
Count(k) == /\ In(k, {"count"}) /\ ~destroyed
            /\ threadCounter' = h[k].cnt + 1
            /\ h' = [h EXCEPT ![k].pc = "read", ![k].cnt = 0, ![k].fd = accepted]
            /\ Quiet /\ Elsewhere /\ UNCHANGED <<fdtab, listVars, connVars>>

\* receiveData begins to read: from now on the read holds the connection, even
\* if another thread closes the descriptor.
Read(k) == LET c == Target(h[k].fd)
           IN  /\ h[k].fd # Stdin
               /\ Local(k, "read", IF c = None THEN Returned
                                   ELSE [h[k] EXCEPT !.pc = "blocked", !.conn = c])

\* The length of the next request arrives.
ReadLength(k) == LET c == h[k].conn
                 IN  /\ In(k, {"blocked"})
                     /\ conn[c].hdr = None /\ conn[c].reqs # <<>>
                     /\ conn' = [conn EXCEPT ![c].hdr = k]
                     /\ h' = [h EXCEPT ![k].pc = "body"]
                     /\ Quiet /\ Elsewhere
                     /\ UNCHANGED <<threadCounter, fdtab, listVars, nconn>>

\* The other end is closed and everything it sent is taken: the length stays 0.
\* The descriptor is not closed and the client stays in the list.
ReadEof(k) == /\ Local(k, "blocked", Returned)
              /\ conn[h[k].conn].reqs = <<>> /\ conn[h[k].conn].st = "gone"

\* Another handler has the length of that request: its text is taken for one.
ReadTextAsLength(k) == /\ In(k, {"blocked"}) /\ conn[h[k].conn].hdr # None
                       /\ Fail("misframed")

\* The text of the request arrives.  The loop of connectionHandler looks at
\* shouldRun only after it.
ReadText(k) ==
    LET c == h[k].conn
        r == [type |-> Head(conn[c].reqs), from |-> c]
    IN  /\ In(k, {"body"}) /\ Target(h[k].fd) = c
        /\ conn' = [conn EXCEPT ![c].reqs = Tail(@), ![c].hdr = None]
        /\ h' = [h EXCEPT ![k] = IF shouldRun
                                 THEN [@ EXCEPT !.pc = "got", !.conn = None, !.msg = r]
                                 ELSE Returned]
        /\ Quiet /\ Elsewhere /\ UNCHANGED <<threadCounter, fdtab, listVars, nconn>>

\* The descriptor was closed between the two reads: the text stays behind.
ReadTextClosed(k) == Local(k, "body", Returned) /\ Target(h[k].fd) = None

\* Closed and given to a newer connection: the text is read from there.
ReadTextElsewhere(k) == /\ In(k, {"body"})
                        /\ Target(h[k].fd) \notin {None, h[k].conn}
                        /\ Fail("misframed")

\* Whoever reads standard input waits until something is typed there, or it ends;
\* what is typed is taken for a length and a text.  No thread brings that about.
ReadStdin(k) == /\ h[k].fd = Stdin
                /\ \/ Local(k, "read", Returned)
                   \/ In(k, {"read"}) /\ Fail("misframed")

\* shouldRun is cleared (serverUtils.c:231) before acceptedClient is looked at.
Skip(k) == ~shouldRun /\ Local(k, "got", NextRequest(k))

\* A request is about to be handled with descriptor fd; once shouldRun is
\* cleared none is.
Handled(k, fd) ==
    IF shouldRun
    THEN [h[k] EXCEPT !.pc = IF h[k].msg.type = "LOG_ON" THEN "add" ELSE "head",
                      !.fd = fd]
    ELSE [NextRequest(k) EXCEPT !.fd = fd]

\* Slip: the handler goes on with the descriptor registered first.
DispatchToHead(k) ==
    /\ ~destroyed
    /\ Local(k, "got", Handled(k, IF list = <<>> THEN accepted ELSE list[1].fd))

\* Before the request is looked at, the handler looks again at main's
\* acceptedClient, and serves that descriptor from now on.
Dispatch(k) == ~destroyed /\ Local(k, "got", Handled(k, accepted))

\* addToTupleList.  The new node gets the descriptor just looked up.  Whoever
\* is added is announced, provided the program still runs, and so is a client
\* for whom malloc failed (the result is then 1, not -1).
Add(k) ==
    /\ In(k, {"add"}) /\ ~destroyed
    /\ \/ Listed(h[k].msg.from) /\ UNCHANGED list
       \/ /\ ~Listed(h[k].msg.from)
          /\ list' = Append(list, [from |-> h[k].msg.from, fd |-> h[k].fd])
       \/ ~Listed(h[k].msg.from) /\ "memory" \in EnvFaults /\ UNCHANGED list
    /\ h' = [h EXCEPT ![k] = IF Listed(@.msg.from) \/ ~shouldRun
                             THEN NextRequest(k)
                             ELSE [@ EXCEPT !.pc = "head"]]
    /\ Quiet /\ Elsewhere /\ UNCHANGED <<threadCounter, fdtab, destroyed, connVars>>

\* Slip: the handler returns after an announced LOG_ON.
AfterWalkReturns(k) ==
    CASE h[k].msg.type = "LOG_ON" -> Returned
      [] h[k].msg.type = "LOG_OFF" -> [h[k] EXCEPT !.pc = "close", !.it = None]
      [] h[k].msg.type = "GET_CLIENTS" -> [h[k] EXCEPT !.pc = "reply", !.it = None]

\* What follows the walk over the list that each request begins.
AfterWalk(k) ==
    CASE h[k].msg.type = "LOG_ON" -> NextRequest(k)
      [] h[k].msg.type = "LOG_OFF" -> [h[k] EXCEPT !.pc = "close", !.it = None]
      [] h[k].msg.type = "GET_CLIENTS" -> [h[k] EXCEPT !.pc = "reply", !.it = None]

\* Slip: the walk moves two nodes on.
MoveToSkipping(k, i) == IF i + 1 > Len(list) THEN AfterWalk(k)
                ELSE [h[k] EXCEPT !.pc = "walk", !.it = list[i + 1].from]

\* The walk moves to the i-th node, or ends behind the last one.
MoveTo(k, i) == IF i > Len(list) THEN AfterWalk(k)
                ELSE [h[k] EXCEPT !.pc = "walk", !.it = list[i].from]

\* The walk begins at headTupleNode.
BeginWalk(k) == /\ ~destroyed
                /\ Local(k, "head", IF shouldRun THEN MoveTo(k, 1) ELSE AfterWalk(k))

StopWalk(k) == ~shouldRun /\ Local(k, "walk", AfterWalk(k))

\* Slip: everything is written to the descriptor at the head of the list.
SendToHead(f, kind, to) ==
    LET c == IF list = <<>> THEN None ELSE Target(list[1].fd)
    IN  sent' = IF c = None \/ conn[c].st = "gone" THEN NoSend
                ELSE [kind |-> kind, conn |-> c, to |-> to]

\* sendData: nothing comes of a closed descriptor, and a killed client's end
\* may swallow the message.
Send(f, kind, to) ==
    LET c == Target(f)
    IN  sent' = IF c = None \/ conn[c].st = "gone" THEN NoSend
                ELSE [kind |-> kind, conn |-> c, to |-> to]

\* One node of the walk for LOG_ON or LOG_OFF: every client is told but the
\* one that logs on or off.
Announce(k) ==
    /\ In(k, {"walk"}) /\ shouldRun /\ h[k].msg.type # "GET_CLIENTS"
    /\ \E i \in PositionOf(h[k].it) :
          /\ IF i \in Positions(h[k].msg.from) THEN Quiet
             ELSE Send(list[i].fd,
                       IF h[k].msg.type = "LOG_ON" THEN "USER_ON" ELSE "USER_OFF",
                       list[i].from)
          /\ h' = [h EXCEPT ![k] = MoveTo(k, i + 1)]
    /\ Private

\* One node of the walk for GET_CLIENTS: its tuple goes into the reply.
Collect(k) ==
    /\ In(k, {"walk"}) /\ shouldRun /\ h[k].msg.type = "GET_CLIENTS"
    /\ \E i \in PositionOf(h[k].it) :
          h' = [h EXCEPT ![k] = [MoveTo(k, i + 1) EXCEPT !.buf = @ \cup {h[k].it}]]
    /\ Private /\ Quiet

\* The node was freed while the walk stood on it.
WalkFreed(k) == /\ In(k, {"walk"}) /\ shouldRun /\ PositionOf(h[k].it) = {}
                /\ Fail("freed")

\* The reply goes to the descriptor the handler now has for its own.
Reply(k) == /\ In(k, {"reply"})
            /\ Send(h[k].fd, "CLIENT_LIST", h[k].msg.from)
            /\ h' = [h EXCEPT ![k] = NextRequest(k)]
            /\ Private

\* The descriptors a message may be written to in the next step.
WritesTo(k) ==
    CASE h[k].pc = "reply" -> {h[k].fd}
      [] h[k].pc = "walk" /\ shouldRun /\ h[k].msg.type # "GET_CLIENTS" ->
            {list[i].fd : i \in PositionOf(h[k].it) \ Positions(h[k].msg.from)}
      [] OTHER -> {}

\* Nobody handles SIGPIPE: a write to a connection whose client was killed may
\* end the server.
BrokenPipe(k) == /\ Running
                 /\ \E f \in WritesTo(k) : /\ Target(f) # None
                                           /\ conn[Target(f)].st = "gone"
                 /\ Fail("sigpipe")

\* Slip: the handler closes the descriptor it has for its own.
CloseOwn(k) ==
    /\ In(k, {"close"}) /\ ~destroyed /\ Listed(h[k].msg.from)
    /\ fdtab' = [f \in Fd |-> IF f = h[k].fd THEN None ELSE fdtab[f]]
    /\ h' = [h EXCEPT ![k].pc = "remove"]
    /\ Quiet /\ Elsewhere /\ UNCHANGED <<threadCounter, listVars, connVars>>

\* LOG_OFF, after the announcement: the descriptor registered for the client is
\* closed, whatever connection is behind it by now.
Close(k) ==
    /\ In(k, {"close"}) /\ ~destroyed /\ Listed(h[k].msg.from)
    /\ fdtab' = [f \in Fd |-> IF f = list[First(Positions(h[k].msg.from))].fd
                              THEN None ELSE fdtab[f]]
    /\ h' = [h EXCEPT ![k].pc = "remove"]
    /\ Quiet /\ Elsewhere /\ UNCHANGED <<threadCounter, listVars, connVars>>

\* findTupleNode returned NULL, which close's argument dereferences.
CloseUnlisted(k) == /\ In(k, {"close"}) /\ ~destroyed /\ ~Listed(h[k].msg.from)
                    /\ Fail("null")

Unlink(i) == [j \in 1..(Len(list) - 1) |-> IF j < i THEN list[j] ELSE list[j + 1]]

\* Then the client is removed from the list, and the thread returns.
Remove(k) ==
    /\ In(k, {"remove"}) /\ ~destroyed /\ list # <<>>
    /\ list' = IF Listed(h[k].msg.from)
               THEN Unlink(First(Positions(h[k].msg.from))) ELSE list
    /\ h' = [h EXCEPT ![k] = Returned]
    /\ Quiet /\ Elsewhere /\ UNCHANGED <<threadCounter, fdtab, destroyed, connVars>>

\* removeFromTupleList dereferences headTupleNode without a check.
RemoveFromEmpty(k) == /\ In(k, {"remove"}) /\ ~destroyed /\ list = <<>>
                      /\ Fail("null")

\* A step that goes through the threadData or the list after exitProgram has
\* freed them.
UseFreed(k) == /\ In(k, {"count", "got", "add", "head", "close", "remove"})
               /\ destroyed
               /\ Fail("freed")

\* The list has no lock.  When a thread changes it while another one is inside
\* a list function, the pointers may end up in any state.
Race(k) == /\ In(k, {"add", "remove"}) /\ ~destroyed
           /\ \E j \in Handler \ {k} : h[j].pc \in {"add", "close", "remove"}
           /\ Fail("race")

HandlerStep(k) ==
    \/ Start(k) \/ Count(k) \/ Read(k) \/ ReadLength(k) \/ ReadEof(k)
    \/ ReadTextAsLength(k) \/ ReadText(k) \/ ReadTextClosed(k)
    \/ ReadTextElsewhere(k) \/ Skip(k) \/ Dispatch(k) \/ Add(k)
    \/ BeginWalk(k) \/ StopWalk(k) \/ Announce(k) \/ Collect(k) \/ WalkFreed(k)
    \/ Reply(k) \/ BrokenPipe(k) \/ Close(k) \/ CloseUnlisted(k) \/ Remove(k)
    \/ RemoveFromEmpty(k) \/ UseFreed(k) \/ Race(k)

-----------------------------------------------------------------------------

Next == \/ \E w \in Client : Connect(w)
        \/ \E c \in Conn : Ask(c) \/ LogOff(c) \/ Finish(c) \/ Die(c)
        \/ Sigint
        \/ MainStep
        \/ \E k \in Handler : HandlerStep(k) \/ ReadStdin(k)

Spec == Init /\ [][Next]_vars

\* Every thread that can take a step gets to take it; nothing is asked of the
\* clients or of CTRL + C.
FairSpec == /\ Spec
            /\ WF_vars(MainStep)
            /\ \A k \in Handler : WF_vars(HandlerStep(k))

\* The same where standard input keeps nobody waiting, as when it is at its end.
NoStdinSpec == FairSpec /\ \A k \in Handler : WF_vars(ReadStdin(k))

-----------------------------------------------------------------------------
(* What the server guarantees.                                             *)

Messages == [type : Requests, from : Conn] \cup {NoMsg}
Nodes == [from : Conn, fd : Fd \cup {Bad}]
Connections == [st : {"none", "on", "asked", "off", "gone"},
                who : Client \cup {None}, reqs : Seq(Requests),
                hdr : Handler \cup {None}]
Locals == [pc : {"none", "start", "count", "read", "blocked", "body", "got", "add",
                 "head", "walk", "reply", "close", "remove", "done"},
           fd : Fd \cup {Bad, Stdin}, conn : Conn \cup {None}, msg : Messages,
           it : Conn \cup {None}, buf : SUBSET Conn, cnt : Nat]

\* Every variable holds a value of its kind.  main and the handlers may come to
\* hold descriptor 0 when the server stops; no node of the list ever does.
TypeOK ==
    /\ mpc \in {"check", "enter", "select", "spawn", "exit", "join", "exited"}
    /\ shouldRun \in BOOLEAN /\ destroyed \in BOOLEAN
    /\ accepted \in Fd \cup {Bad, Stdin}
    /\ nconn \in 0..MaxConn /\ naccd \in 0..nconn /\ nspawn \in 0..MaxThread
    /\ threadCounter \in Nat /\ joined \in Nat
    /\ slots \in [0..(MAX_CLIENTS_SIZE - 1) -> Handler \cup {None}]
    /\ fdtab \in [Fd -> Conn \cup {None}]
    /\ list \in Seq(Nodes)
    /\ fault \in {"none", "misframed", "freed", "null", "race", "sigpipe",
                  "overflow", "join"}
    /\ sent \in [kind : {"USER_ON", "USER_OFF", "CLIENT_LIST"},
                 conn : Conn, to : Conn] \cup {NoSend}
    /\ conn \in [Conn -> Connections]
    /\ h \in [Handler -> Locals]

\* Whatever the timing, no message goes to a connection older than the one it
\* is meant for: an announcement is meant for the connection its addressee
\* logged on from, a reply for the connection the question came from.  With
\* the shared acceptedClient (serverUtils.c:212, 252) and descriptors closed
\* and reused under the list's nodes, newer is the best there is.
NeverBackwards == sent.conn >= sent.to

\* Descriptor f leads to no connection older than c.
NotBefore(f, c) == Target(f) = None \/ Target(f) >= c

\* Why NeverBackwards holds: acceptedClient stands for the newest connection or
\* none; a handler past line 252, and a node of the list, hold a descriptor that
\* leads no further back than the request, or the LOG_ON, they stem from.
Forward ==
    /\ Target(accepted) \in {None, naccd}
    /\ \A f \in Fd : fdtab[f] <= naccd
    /\ \A k \in Handler : h[k].conn <= naccd /\ h[k].msg.from <= naccd
    /\ \A i \in DOMAIN list : /\ list[i].from <= naccd
                              /\ NotBefore(list[i].fd, list[i].from)
    /\ \A k \in Handler : h[k].pc \in {"add", "head", "walk", "reply"} =>
                             NotBefore(h[k].fd, h[k].msg.from)
    /\ NeverBackwards

\* Some handler reads from connection c, or will when it gets there.
Attended(c) == \E k \in Handler : \/ h[k].conn = c
                                  \/ Target(h[k].fd) = c

\* Once a newer client is accepted and no handler is left with an older
\* connection, none ever comes back to it: whatever that client asks from then
\* on, its LOG_OFF included, stays unread.
NoWayBack == [][\A c \in Conn : c < naccd /\ ~Attended(c) => ~Attended(c)']_vars

\* The walk for GET_CLIENTS, which other threads' additions and removals
\* overtake, leaves out no client that stays listed: every node before the one
\* it stands on is in the reply (new nodes come in behind it).
WalkMissesNobody ==
    \A k \in Handler :
       h[k].pc = "walk" /\ h[k].msg.type = "GET_CLIENTS" =>
          \A p \in PositionOf(h[k].it) : \A i \in 1..(p - 1) :
             list[i].from \in h[k].buf

\* The NULL dereferences of LOG_OFF (serverUtils.c:326, tupleList.c:176) take
\* more than one handler: the LOG_ON of that very connection is still in the
\* hands of another one, or the same <IP, port> connected a second time.
NullOnlyWhenOvertaken ==
    fault = "null" /\ shouldRun =>
       \E k \in Handler :
          /\ h[k].pc \in {"close", "remove"}
          /\ \/ \E j \in Handler \ {k} :
                   h[j].msg = [type |-> "LOG_ON", from |-> h[k].msg.from]
             \/ \E c \in 1..nconn : /\ c # h[k].msg.from
                                    /\ conn[c].who = conn[h[k].msg.from].who

\* Whatever goes wrong takes two handlers: a lone one, whichever requests its
\* clients send it and in whatever order, can do nothing that goes wrong.  (The
\* requests are those a client writes; a text without "<" is not among them.)
LoneHandlerIsSafe == nspawn <= 1 /\ shouldRun => fault = "none"

\* The join loop finds its threads by numbers that the threads themselves count:
\* an id may have been overwritten by the next one, or an increment lost.  But
\* when the server exits and the counter is right, it has waited for them all.
CountedAreAwaited ==
    mpc = "exited" /\ threadCounter = nspawn =>
       \A k \in 1..nspawn : h[k].pc = "done"

\* The newest client is served: each request it sends is taken, unless a newer
\* one is accepted, its descriptor is closed or replaced, or the program stops.
\* That takes a handler: with "thread" in EnvFaults it is not so.
NewestServed ==
    \A c \in Conn : naccd = c ~> \/ conn[c].reqs = <<>> \/ naccd # c
                                 \/ Target(accepted) # c
                                 \/ ~shouldRun \/ fault # "none"

-----------------------------------------------------------------------------
(* What its comments and its README say of it, and what is not so.         *)

\* serverUtils.c:335: the list goes "to the one who requested".
ReplyToRequester == sent.kind = "CLIENT_LIST" => sent.conn = sent.to

\* main.c:218: exitProgram waits "for every thread to complete".
ExitWaitsForThreads ==
    mpc = "exited" => \A k \in Handler : h[k].pc \in {"none", "done"}

\* README.md:7: a client that disconnects sends LOG_OFF and "the server updates
\* its clients list".
LoggedOffIsRemoved ==
    \A c \in Conn : conn[c].st = "off" /\ (\E i \in DOMAIN list : list[i].from = c)
                    ~> \/ \A i \in DOMAIN list : list[i].from # c
                       \/ ~shouldRun \/ fault # "none"

\* main.c:186: "Terminate the program if the user typed CTRL + C."  Once main has
\* left its loop and waits for the threads, the program ends.
InterruptTerminates == mpc = "join" ~> mpc = "exited" \/ fault # "none"
=============================================================================
