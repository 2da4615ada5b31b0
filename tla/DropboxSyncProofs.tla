------------------------- MODULE DropboxSyncProofs -------------------------
(***************************************************************************)
(* That the server together with its clients is still the server: what is  *)
(* proved of Server holds of DropboxSync, and no message that reaches a    *)
(* client comes from behind.  And what it is worth that the clients come   *)
(* and leave one at a time: then nothing goes wrong in the server, and the *)
(* clients' lists agree with the server's.                                 *)
(***************************************************************************)
EXTENDS DropboxSync, ServerFaultProofs, FiniteSetTheorems

\* Every step of the whole is a step of the server, or leaves it as it is.
LEMMA StepOfServer ==
  ASSUME [SyncNext]_syncVars
  PROVE  [Next]_vars
<1>1. CASE Elsewise /\ \E w \in Client : Connect(w)
  BY <1>1 DEF Next
<1>2. CASE Elsewise /\ \E c \in Conn : Ask(c) \/ LogOff(c) \/ Finish(c) \/ Die(c)
  BY <1>2 DEF Next
<1>3. CASE Elsewise /\ (Sigint \/ MainStep \/ \E k \in Handler : ReadStdin(k))
  BY <1>3 DEF Next
<1>4. CASE \E k \in Handler : Served(k)
  BY <1>4 DEF Served, Next
<1>5. CASE \E c \in Conn : Take(c)
  BY <1>5 DEF Take
<1>6. CASE UNCHANGED syncVars
  BY <1>6 DEF syncVars
<1> QED
  BY <1>1, <1>2, <1>3, <1>4, <1>5, <1>6 DEF SyncNext

\* The server behaves as if the clients' lists and the messages on their way
\* were not there (DropboxSync adds to Server and takes nothing from it).
THEOREM SyncImplementsServer == SyncSpec => Spec
<1>1. SyncInit => Init
  BY DEF SyncInit
<1>2. [SyncNext]_syncVars => [Next]_vars
  BY StepOfServer
<1> QED
  BY <1>1, <1>2, PTL DEF SyncSpec, Spec

\* What reaches a client's socket was written for it or for an older connection
\* (the descriptors of serverUtils.c:287, 319 and 361), also with the clients
\* taking their messages as they like.
THEOREM SyncGoesForward == SyncSpec => []NeverBackwards
BY SyncImplementsServer, MessagesGoForward, PTL

-----------------------------------------------------------------------------
(* The clients come and leave one at a time.                                 *)

\* The server has still something to do for connection c; or it waits for the
\* client, that has just come, to ask for the others.
Busy(c) == c > nspawn \/ conn[c].reqs # <<>> \/ h[c].pc \notin {"blocked", "done"}
Turn(c) == Busy(c) \/ conn[c].st = "on"

\* The descriptor of connection c is closed, or about to be.
Ended(c) == c <= nspawn /\ h[c].pc \in {"remove", "done"}
OnList(c) == \E i \in DOMAIN list : list[i].from = c

\* A handler with locals l will read from its descriptor, or answer there.
Takes(l) == \/ l.pc \in {"read", "blocked", "body", "add", "reply"}
            \/ l.pc \in {"head", "walk"} /\ l.msg.type # "LOG_OFF"

TurnOK == \A c, d \in 1..nconn : Turn(c) /\ Turn(d) => c = d
NewOK == \A c \in Conn : c > nconn => conn[c] = NewConn

\* main has a thread for every connection, and the threads have counted right.
Counting == \E k \in 1..nspawn : h[k].pc \in {"start", "count"}
MainPaced ==
    /\ shouldRun /\ fault = "none" /\ mpc \in {"check", "enter", "select", "spawn"}
    /\ naccd = IF mpc = "spawn" THEN nspawn + 1 ELSE nspawn
    /\ threadCounter = IF Counting THEN nspawn - 1 ELSE nspawn

\* The k-th handler serves the k-th connection.
HandlerPaced(k) ==
    /\ h[k].pc # "none" /\ h[k].conn \in {None, k} /\ h[k].msg.from \in {None, k}
    /\ Takes(h[k]) => Target(h[k].fd) = k
    /\ h[k].pc \in Handling /\ h[k].msg.type # "LOG_OFF" => conn[k].st \in {"on", "asked"}
    /\ h[k].pc = "count" => h[k].cnt = threadCounter
    /\ h[k].pc = "walk" => PositionOf(h[k].it) # {}
    /\ h[k].pc = "done" => conn[k].reqs = <<>> /\ conn[k].st \in {"off", "gone"}

\* A connection is open, and its client in the list, from its LOG_ON to its
\* LOG_OFF; acceptedClient leads to it as long as its handler looks there.
ConnPaced(c) ==
    /\ conn[c].hdr # None => c <= nspawn /\ h[c].pc = "body"
    /\ conn[c].st # "none"
    /\ conn[c].st \in {"off", "gone"} => /\ c <= nspawn /\ h[c].pc \notin {"start", "count"}
                                         /\ conn[c].reqs \in {<<>>, <<"LOG_OFF">>}
    /\ conn[c].st = "gone" => Ended(c)
    /\ c <= naccd /\ (conn[c].st = "on" \/ (conn[c].st = "asked" /\ Busy(c))) =>
          Target(accepted) = c
    /\ \/ Unread(c) \/ OnList(c)
       \/ c <= nspawn /\ (LoggingOn(h[c], c) \/ h[c].pc = "done")
    /\ c <= naccd /\ ~Ended(c) => \E f \in Fd : fdtab[f] = c

\* The list holds a client once, with the descriptor of its connection.
NodePaced(n) == /\ n.from <= nspawn /\ h[n.from].pc # "done"
                /\ Target(n.fd) = n.from \/ h[n.from].pc = "remove"
ListPaced ==
    /\ \A i \in DOMAIN list : NodePaced(list[i])
    /\ \A i, j \in DOMAIN list : conn[list[i].from].who = conn[list[j].from].who => i = j

\* No connection has two descriptors.
FdsPaced == \A f, g \in Fd : fdtab[f] # None /\ fdtab[f] = fdtab[g] => f = g

\* A client that is not killed ends when the server has closed its connection,
\* and connects again only after that.
GoneOK == \A c \in Conn : conn[c].st = "gone" =>
             c <= naccd /\ \A f \in Fd : fdtab[f] # c
OwnersOK == \A c, d \in 1..nconn : c # d /\ conn[c].who = conn[d].who =>
               conn[c].st = "gone" \/ conn[d].st = "gone"

HandlersPaced == \A k \in 1..nspawn : HandlerPaced(k)
ConnsPaced == \A c \in 1..nconn : ConnPaced(c)

Paced == /\ NewOK /\ TurnOK /\ MainPaced /\ HandlersPaced /\ ConnsPaced
         /\ ListPaced /\ FdsPaced
PacedInv == OffInv /\ GoneOK /\ OwnersOK /\ Paced

\* What the clients' coming and leaving one at a time means for the server.
PacedStep == [Next /\ (ComesOrLeaves => Idle /\ AllAsked)]_vars

\* Nothing fails around the server, and it has the descriptors, and the elements
\* of serverThreads, that so many connections take.
Calm == EnvFaults = {} /\ MaxFd >= MaxConn /\ MAX_CLIENTS_SIZE >= MaxConn

-----------------------------------------------------------------------------
(* Connections that have ended.                                              *)

\* Steps that end no connection and open no descriptor to an old one.
LEMMA GoneKeeps ==
  ASSUME Inv, GoneOK, OwnersOK, nconn' = nconn, naccd' \in {naccd, naccd + 1},
         \A c \in Conn : /\ conn'[c].who = conn[c].who
                         /\ conn'[c].st = "gone" <=> conn[c].st = "gone",
         \A f \in Fd : fdtab'[f] \in {fdtab[f], None, naccd + 1}
  PROVE  GoneOK' /\ OwnersOK'
<1>1. naccd \in Nat /\ 1..nconn \subseteq Conn
  BY BoundsAssumption DEF Inv, MainOK, Conn
<1>2. GoneOK'
  <2> SUFFICES ASSUME NEW c \in Conn, conn'[c].st = "gone"
               PROVE  c <= naccd' /\ \A f \in Fd : fdtab'[f] # c
    BY DEF GoneOK
  <2>1. c <= naccd /\ \A f \in Fd : fdtab[f] # c
    BY DEF GoneOK
  <2>2. c \in Nat /\ c # None /\ c # naccd + 1 /\ c <= naccd'
    BY <1>1, <2>1 DEF Conn, None
  <2> QED
    BY <2>1, <2>2
<1>3. OwnersOK'
  BY <1>1 DEF OwnersOK
<1> QED
  BY <1>2, <1>3

LEMMA GoneStep ==
  ASSUME Inv, GoneOK, OwnersOK, "die" \notin EnvFaults, "twins" \notin EnvFaults,
         [Next]_vars
  PROVE  GoneOK' /\ OwnersOK'
<1>1. /\ conn \in [Conn -> Connections] /\ fdtab \in [Fd -> Conn \cup {None}]
      /\ nconn \in Nat /\ naccd \in Nat /\ naccd <= nconn /\ nconn <= MaxConn
      /\ MaxConn \in Nat
  BY BoundsAssumption DEF Inv, MainOK, ConnsOK, FdsOK
<1>2. ASSUME NEW w \in Client, Connect(w)
      PROVE  GoneOK' /\ OwnersOK'
  <2> PICK n \in Conn : n = nconn + 1
    BY <1>1, <1>2 DEF Connect, Conn
  <2>1. /\ UNCHANGED <<naccd, fdtab>> /\ nconn' = n /\ ~InUse(w)
        /\ conn'[n].st = "on" /\ conn'[n].who = w
        /\ \A d \in Conn \ {n} : conn'[d] = conn[d]
    BY <1>1, <1>2 DEF Connect, Outside, mainVars, NewConn
  <2>2. 1..nconn \subseteq Conn \ {n} /\ 1..n = (1..nconn) \cup {n}
    BY <1>1 DEF Conn
  <2>3. GoneOK'
    BY <2>1 DEF GoneOK
  <2>4. \A c \in 1..nconn : conn[c].who = w => conn[c].st = "gone"
    BY <2>1 DEF InUse
  <2>5. OwnersOK'
    BY <2>1, <2>2, <2>4 DEF OwnersOK
  <2> QED
    BY <2>3, <2>5
<1>3. ASSUME NEW c \in Conn, Ask(c) \/ LogOff(c)
      PROVE  GoneOK' /\ OwnersOK'
  <2>1. /\ UNCHANGED <<naccd, nconn, fdtab>> /\ \A d \in Conn \ {c} : conn'[d] = conn[d]
        /\ conn'[c].who = conn[c].who /\ conn'[c].st # "gone" /\ conn[c].st # "gone"
    BY <1>1, <1>3 DEF Ask, LogOff, Request, Outside, mainVars, Connections
  <2> QED
    BY <2>1, GoneKeeps
<1>4. ASSUME NEW c \in Conn, Finish(c)
      PROVE  GoneOK' /\ OwnersOK'
  <2>1. /\ UNCHANGED <<naccd, nconn, fdtab>> /\ \A d \in Conn \ {c} : conn'[d] = conn[d]
        /\ conn'[c].who = conn[c].who /\ conn'[c].st = "gone"
        /\ c <= naccd /\ \A f \in Fd : fdtab[f] # c
    BY <1>1, <1>4 DEF Finish, Released, Outside, mainVars, Connections
  <2>2. 1..nconn \subseteq Conn
    BY <1>1 DEF Conn
  <2> QED
    BY <2>1, <2>2 DEF GoneOK, OwnersOK
<1>5. CASE MainStep \/ Sigint \/ UNCHANGED vars
  <2>1. UNCHANGED <<nconn, conn>>
    BY <1>5 DEF MainStep, Sigint, vars, CheckRun, EnterSelect, WakeToExit, MainGoes,
                MainStops, Accept, AcceptFails, GiveUp, Spawn, SpawnFails,
                SpawnPastTheEnd, Release, Join, JoinGarbage, Exit, InMain, Fail,
                connVars
  <2>2. /\ naccd' \in {naccd, naccd + 1}
        /\ \A f \in Fd : fdtab'[f] \in {fdtab[f], None, naccd + 1}
    <3>1. CASE Accept
      BY <1>1, <3>1 DEF Accept
    <3>2. CASE ~Accept
      BY <1>5, <3>2 DEF MainStep, Sigint, vars, CheckRun, EnterSelect, WakeToExit,
                        MainGoes, MainStops, AcceptFails, GiveUp, Spawn, SpawnFails,
                        SpawnPastTheEnd, Release, Join, JoinGarbage, Exit, InMain,
                        Fail, mainVars
    <3> QED
      BY <3>1, <3>2
  <2> QED
    BY <2>1, <2>2, GoneKeeps
<1>6. ASSUME NEW k \in Handler, HandlerStep(k) \/ ReadStdin(k)
      PROVE  GoneOK' /\ OwnersOK'
  <2>1. \A f \in Fd : fdtab'[f] \in {fdtab[f], None}
    BY <1>6, HandlerHolds DEF Target
  <2> QED
    BY <1>6, <2>1, HandlerLeaves, GoneKeeps
<1> QED
  BY <1>2, <1>3, <1>4, <1>5, <1>6 DEF Next, Die

-----------------------------------------------------------------------------
(* Whose turn it is.                                                         *)

LEMMA PacedTypes ==
  ASSUME PacedInv
  PROVE  /\ Inv /\ nconn \in Nat /\ naccd \in Nat /\ nspawn \in Nat /\ threadCounter \in Nat
         /\ naccd <= nconn /\ nconn <= MaxConn /\ nspawn <= naccd /\ naccd <= nspawn + 1
         /\ nspawn <= MaxThread /\ MaxConn \in Nat /\ MaxThread \in Nat
         /\ conn \in [Conn -> Connections] /\ fdtab \in [Fd -> Conn \cup {None}]
         /\ h \in [Handler -> Locals]
         /\ list \in Seq(Nodes) /\ Len(list) \in Nat /\ DOMAIN list = 1..Len(list)
         /\ 1..nspawn \subseteq 1..naccd /\ 1..naccd \subseteq 1..nconn
         /\ 1..nspawn \subseteq Handler /\ 1..nconn \subseteq Conn
         /\ shouldRun /\ fault = "none" /\ ~destroyed
<1>1. /\ Inv /\ nconn \in Nat /\ naccd \in Nat /\ nspawn \in Nat /\ threadCounter \in Nat
      /\ naccd <= nconn /\ nconn <= MaxConn /\ nspawn <= MaxThread
      /\ MaxConn \in Nat /\ MaxThread \in Nat
      /\ conn \in [Conn -> Connections] /\ fdtab \in [Fd -> Conn \cup {None}]
      /\ h \in [Handler -> Locals] /\ list \in Seq(Nodes)
  BY BoundsAssumption
     DEF PacedInv, OffInv, WalkInv, Inv, MainOK, ConnsOK, FdsOK, HandlersOK, ListOK
<1>2. Len(list) \in Nat /\ DOMAIN list = 1..Len(list)
  BY <1>1, LenProperties
<1>3. nspawn <= naccd /\ naccd <= nspawn + 1 /\ shouldRun /\ fault = "none" /\ ~destroyed
  BY <1>1 DEF PacedInv, Paced, MainPaced, OffInv, RunOK, FreedOK
<1> QED
  BY <1>1, <1>2, <1>3 DEF Conn, Handler

\* What can be said of the others when connection k has its turn.
Waits(d) == /\ conn[d].reqs = <<>> /\ h[d].pc \in {"blocked", "done"} /\ ~Turn(d)

LEMMA OthersWait ==
  ASSUME PacedInv, NEW k \in 1..nspawn, Turn(k)
  PROVE  /\ nconn = nspawn /\ naccd = nspawn /\ mpc # "spawn"
         /\ \A d \in 1..nspawn : d # k => Waits(d)
<1>1. PacedInv => Inv
  BY PacedTypes
<1>2. \A d \in 1..nconn : d # k => ~Turn(d)
  BY PacedTypes DEF PacedInv, Paced, TurnOK
<1>3. nconn = nspawn
  <2>1. nconn > nspawn => Turn(nconn)
    BY DEF Turn, Busy
  <2>2. nconn \in 1..nconn
    BY PacedTypes
  <2> QED
    BY <1>2, <2>1, <2>2, PacedTypes
<1>4. naccd = nspawn /\ mpc # "spawn"
  BY <1>3, PacedTypes DEF PacedInv, Paced, MainPaced
<1>5. \A d \in 1..nspawn : d # k => Waits(d)
  <2>1. \A d \in 1..nspawn : d # k => ~Turn(d)
    BY <1>2, <1>3
  <2> QED
    BY <2>1 DEF Waits, Turn, Busy
<1> QED
  BY <1>3, <1>4, <1>5

\* A handler that can take a step is the one whose turn it is.
LEMMA HandlerTurn ==
  ASSUME PacedInv, NEW k \in Handler, HandlerStep(k)
  PROVE  k \in 1..nspawn /\ Turn(k)
<1>1. h[k].pc # "none"
  BY DEF HandlerStep, Skip, Start, Count, Read, ReadLength, ReadEof, ReadTextAsLength,
         ReadText, ReadTextClosed, ReadTextElsewhere, Dispatch, Add, BeginWalk,
         StopWalk, Announce, Collect, WalkFreed, Reply, BrokenPipe, WritesTo, Close,
         CloseUnlisted, Remove, RemoveFromEmpty, UseFreed, Race, Local, In
<1>2. k \in 1..nspawn
  <2>1. NewHandler.pc = "none"
    BY DEF NewHandler
  <2>2. ~(k > nspawn)
    BY <1>1, <2>1 DEF PacedInv, OffInv, SpawnedOK
  <2> QED
    BY <2>2, PacedTypes DEF Handler
<1>3. k \in 1..nconn /\ HandlerPaced(k) /\ ConnPaced(k)
  <2>1. 1..nspawn \subseteq 1..naccd /\ 1..naccd \subseteq 1..nconn
    BY PacedTypes
  <2>2. k \in 1..nconn
    BY <1>2, <2>1
  <2> QED
    BY <1>2, <2>2 DEF PacedInv, Paced, HandlersPaced, ConnsPaced
<1>4. h[k].pc # "done"
  BY <1>1 DEF HandlerStep, Skip, Start, Count, Read, ReadLength, ReadEof,
              ReadTextAsLength, ReadText, ReadTextClosed, ReadTextElsewhere, Dispatch,
              Add, BeginWalk, StopWalk, Announce, Collect, WalkFreed, Reply,
              BrokenPipe, WritesTo, Close, CloseUnlisted, Remove, RemoveFromEmpty,
              UseFreed, Race, Local, In
<1>5. CASE h[k].pc = "blocked"
  <2>1. h[k].conn = k
    BY <1>3, <1>5, LocalsFacts, PacedTypes DEF HandlerPaced, HandlerOK, Inv, None, Conn
  <2>2. ReadLength(k) \/ ReadEof(k) \/ ReadTextAsLength(k)
    BY <1>5 DEF HandlerStep, Skip, Start, Count, ReadText, ReadTextClosed,
         Read, ReadTextElsewhere, Dispatch, Add, BeginWalk,
         StopWalk, Announce, Collect, WalkFreed, Reply, BrokenPipe, WritesTo, Close,
         CloseUnlisted, Remove, RemoveFromEmpty, UseFreed, Race, Local, In
  <2>3. ~ReadEof(k) /\ ~ReadTextAsLength(k)
    BY <1>3, <1>5, <2>1 DEF ReadEof, ReadTextAsLength, ConnPaced, Ended
  <2>4. conn[k].reqs # <<>>
    BY <2>1, <2>2, <2>3 DEF ReadLength
  <2> QED
    BY <1>2, <2>4 DEF Turn, Busy
<1>6. CASE h[k].pc # "blocked"
  <2>1. Turn(k)
    BY <1>4, <1>6 DEF Turn, Busy
  <2> QED
    BY <1>2, <2>1
<1> QED
  BY <1>2, <1>5, <1>6

-----------------------------------------------------------------------------
(* The steps of the handler whose turn it is.                                *)

\* Nobody is to read standard input.
LEMMA NoStdin ==
  ASSUME PacedInv, NEW k \in Handler
  PROVE  ~ReadStdin(k)
BY PacedTypes DEF ReadStdin, PacedInv, OffInv, RunOK, StdinOK

\* Nothing goes wrong in it.
LEMMA TurnGoesRight ==
  ASSUME PacedInv, NEW k \in Handler, HandlerStep(k)
  PROVE  ~Wrong(k) /\ ~ReadEof(k) /\ ~ReadTextClosed(k) /\ ~StopWalk(k) /\ ~Skip(k)
<1>1. k \in 1..nspawn /\ Turn(k)
  BY HandlerTurn
<1>2. /\ HandlerPaced(k) /\ ConnPaced(k) /\ k \in Conn /\ k # None /\ Inv
      /\ HandlerOK(k, h[k]) /\ ~destroyed /\ shouldRun
  BY <1>1, LocalsFacts, PacedTypes
     DEF PacedInv, Paced, HandlersPaced, ConnsPaced, Inv, None, Conn
<1>3. \A d \in Handler \ {k} : h[d].pc \in {"none", "blocked", "done"}
  <2>1. \A d \in 1..nspawn : d # k => Waits(d)
    BY <1>1, OthersWait
  <2>2. \A d \in Handler : d \in 1..nspawn \/ d > nspawn
    BY PacedTypes DEF Handler
  <2>3. NewHandler.pc = "none"
    BY DEF NewHandler
  <2> QED
    BY <2>1, <2>2, <2>3 DEF Waits, PacedInv, OffInv, SpawnedOK
<1>4. h[k].pc \in {"blocked", "body"} => h[k].conn = k
  BY <1>2 DEF HandlerPaced, HandlerOK, None, Conn
<1>5. h[k].pc \in {"close", "remove"} => h[k].msg.from = k /\ Listed(k)
  <2> SUFFICES ASSUME h[k].pc \in {"close", "remove"}
               PROVE  h[k].msg.from = k /\ Listed(k)
    OBVIOUS
  <2>1. h[k].msg.from = k
    <3>1. h[k].msg.from \in Conn
      BY <1>2, LocalsFacts DEF Inv, Handling
    <3> QED
      BY <1>2, <3>1 DEF HandlerPaced, None, Conn
  <2>2. ~Unread(k)
    BY <1>2, <2>1 DEF PacedInv, OffInv, TakenOK
  <2>3. OnList(k)
    BY <1>2, <2>2 DEF ConnPaced, LoggingOn
  <2> QED
    BY <2>1, <2>3 DEF OnList, Listed, Positions
<1>6. ~ReadTextAsLength(k) /\ ~ReadEof(k)
  BY <1>2, <1>4 DEF ReadTextAsLength, ReadEof, Local, In, ConnPaced, Ended
<1>7. ~ReadTextElsewhere(k) /\ ~ReadTextClosed(k)
  BY <1>2, <1>4 DEF ReadTextElsewhere, ReadTextClosed, Local, In, HandlerPaced, Takes
<1>8. ~WalkFreed(k) /\ ~UseFreed(k) /\ ~StopWalk(k)
  BY <1>2 DEF HandlerPaced, WalkFreed, UseFreed, StopWalk, In
<1>9. ~BrokenPipe(k)
  <2> SUFFICES ASSUME NEW f, Target(f) # None, conn[Target(f)].st = "gone"
               PROVE  FALSE
    BY DEF BrokenPipe
  <2>1. f \in Fd /\ fdtab[f] = Target(f) /\ Target(f) \in Conn
    BY PacedTypes DEF Target
  <2> QED
    BY <2>1 DEF PacedInv, GoneOK
<1>10. ~CloseUnlisted(k) /\ ~RemoveFromEmpty(k)
  BY <1>5, EmptySeq DEF CloseUnlisted, RemoveFromEmpty, In, Listed, Positions
<1>11. ~Race(k)
  BY <1>3 DEF Race, In
<1>12. ~Skip(k) /\ ~ReadStdin(k)
  BY <1>2, NoStdin DEF Skip
<1> QED
  BY <1>6, <1>7, <1>8, <1>9, <1>10, <1>11, <1>12 DEF Wrong

\* What such a step leaves alone, and what it may do to descriptors.
LEMMA OneTurn ==
  ASSUME PacedInv, NEW k \in 1..nspawn, Turn(k),
         UNCHANGED <<mainVars, nspawn, nconn, fault>>,
         \A d \in Handler \ {k} : h'[d] = h[d],
         \A c \in Conn \ {k} : conn'[c] = conn[c],
         threadCounter' = IF h'[k].pc \in {"start", "count"} THEN nspawn - 1 ELSE nspawn,
         \A f \in Fd : fdtab'[f] = fdtab[f] \/ (fdtab[f] = k /\ fdtab'[f] = None),
         \A c \in Conn \ {k} : OnList(c) => OnList(c)',
         HandlerPaced(k)', ConnPaced(k)', ListPaced'
  PROVE  Paced'
<1>1. /\ nconn = nspawn /\ naccd = nspawn /\ mpc # "spawn"
      /\ \A d \in 1..nspawn : d # k => Waits(d)
  BY OthersWait
<1>2. /\ nconn' = nconn /\ naccd' = naccd /\ nspawn' = nspawn /\ accepted' = accepted
      /\ mpc' = mpc /\ shouldRun' = shouldRun /\ fault' = fault
  BY DEF mainVars
<1>3. \A d \in 1..nspawn : d # k => /\ h'[d] = h[d] /\ conn'[d] = conn[d]
                                    /\ d \in Conn /\ d \in Handler
  BY <1>1, PacedTypes
<1>4. \A f, c : Target(f) = c /\ c # k /\ c # None => Target(f)' = c
  BY DEF Target
<1>5. None \notin 1..nspawn
  BY PacedTypes DEF None
<1>6. NewOK'
  BY <1>1, <1>2, PacedTypes DEF PacedInv, Paced, NewOK
<1>7. TurnOK'
  <2>1. \A d \in 1..nconn : d # k => ~Turn(d)'
    BY <1>1, <1>2, <1>3 DEF Waits, Turn, Busy
  <2> QED
    BY <1>2, <2>1 DEF TurnOK
<1>8. MainPaced'
  <2>1. Counting' <=> h'[k].pc \in {"start", "count"}
    BY <1>1, <1>2, <1>3 DEF Counting, Waits
  <2> QED
    BY <1>2, <2>1 DEF PacedInv, Paced, MainPaced
<1>9. HandlersPaced'
  <2> SUFFICES ASSUME NEW d \in 1..nspawn, d # k
               PROVE  HandlerPaced(d)'
    BY <1>2 DEF HandlersPaced
  <2>1. HandlerPaced(d) /\ Waits(d)
    BY <1>1 DEF PacedInv, Paced, HandlersPaced
  <2>2. Takes(h[d]) => Target(h[d].fd)' = d
    BY <1>3, <1>4, <1>5, <2>1 DEF HandlerPaced
  <2> QED
    BY <1>3, <2>1, <2>2 DEF HandlerPaced, Waits, Takes, Handling
<1>10. ConnsPaced'
  <2> SUFFICES ASSUME NEW d \in 1..nspawn, d # k
               PROVE  ConnPaced(d)'
    BY <1>1, <1>2 DEF ConnsPaced
  <2>1. ConnPaced(d) /\ Waits(d)
    BY <1>1 DEF PacedInv, Paced, ConnsPaced
  <2>2. ~Ended(d) /\ d <= naccd => \E f \in Fd : fdtab'[f] = d
    <3> SUFFICES ASSUME NEW f \in Fd, fdtab[f] = d
                 PROVE  fdtab'[f] = d
      BY <2>1 DEF ConnPaced
    <3> QED
      OBVIOUS
  <2>3. conn[d].st # "on" /\ ~Busy(d)'
    BY <1>2, <1>3, <2>1 DEF Waits, Turn, Busy
  <2>4. Unread(d)' \/ OnList(d)' \/ h[d].pc = "done"
    BY <1>3, <2>1 DEF ConnPaced, Unread, LoggingOn, Waits
  <2> QED
    BY <1>2, <1>3, <2>1, <2>2, <2>3, <2>4 DEF ConnPaced, Ended
<1>11. FdsPaced'
  BY PacedTypes DEF PacedInv, Paced, FdsPaced
<1> QED
  BY <1>6, <1>7, <1>8, <1>9, <1>10, <1>11 DEF Paced

\* Where its client is in the list, or on the way there.
LEMMA ListedIfLoggedOn ==
  ASSUME PacedInv, NEW k \in 1..nspawn, h[k].pc \in {"close", "remove"}
  PROVE  /\ h[k].msg.from = k /\ OnList(k) /\ conn[k].st \in {"off", "gone"}
         /\ conn[k].reqs = <<>>
         /\ h[k].pc = "close" => conn[k].st = "off"
<1>1. /\ HandlerPaced(k) /\ ConnPaced(k) /\ k \in Conn /\ k \in Handler /\ Inv
  BY PacedTypes DEF PacedInv, Paced, HandlersPaced, ConnsPaced
<1>2. h[k].msg.from = k
  <2>1. h[k].msg.from \in Conn
    BY <1>1, LocalsFacts DEF Inv, Handling
  <2> QED
    BY <1>1, <2>1 DEF HandlerPaced, None, Conn
<1>3. OnList(k)
  <2>1. ~Unread(k)
    BY <1>1, <1>2 DEF PacedInv, OffInv, TakenOK
  <2> QED
    BY <1>1, <2>1 DEF ConnPaced, LoggingOn
<1>4. conn[k].st \in {"off", "gone"} /\ ~Leaving(k)
  <2>1. LoggingOff(k, k)
    BY <1>1, <1>2 DEF LoggingOff, PacedInv, OffInv, LabelsOK, LabelOK
  <2> QED
    BY <1>1, <2>1 DEF PacedInv, OffInv, OffOK
<1>5. conn[k].reqs = <<>>
  <2>1. <<"LOG_OFF">>[1] = "LOG_OFF" /\ 1 \in DOMAIN <<"LOG_OFF">>
    OBVIOUS
  <2> QED
    BY <1>1, <1>4, <2>1 DEF ConnPaced, Leaving
<1> QED
  BY <1>1, <1>2, <1>3, <1>4, <1>5 DEF ConnPaced, Ended

\* The list stays as it is, and nobody it tells of ends.
LEMMA ListStays ==
  ASSUME PacedInv, list' = list, nspawn' \in {nspawn, nspawn + 1},
         \A c \in 1..nspawn : \/ h'[c].pc = h[c].pc
                              \/ h'[c].pc # "done" /\ h[c].pc # "remove",
         \A c \in 1..nspawn : conn'[c].who = conn[c].who,
         \A f \in Fd : fdtab[f] # None => fdtab'[f] = fdtab[f]
  PROVE  ListPaced'
<1>1. \A i \in DOMAIN list : list[i].from \in 1..nspawn /\ list[i].from # None
  BY NodesOfConns, PacedTypes DEF PacedInv, Paced, ListPaced, NodePaced, Conn, None
<1>2. \A f, c : Target(f) = c /\ c # None => Target(f)' = c
  BY DEF Target
<1>3. ASSUME NEW i \in DOMAIN list PROVE NodePaced(list[i])'
  <2>1. NodePaced(list[i])
    BY DEF PacedInv, Paced, ListPaced
  <2> QED
    BY <1>1, <1>2, <2>1, PacedTypes DEF NodePaced
<1> QED
  BY <1>1, <1>3 DEF PacedInv, Paced, ListPaced

\* Where a walk leads, from its i-th node on.
LEMMA WalkLeads ==
  ASSUME Inv, NEW k \in Handler, h[k].pc \in {"head", "walk"}, NEW i \in Nat \ {0}
  PROVE  /\ MoveTo(k, i).pc = "walk" => /\ MoveTo(k, i).msg = h[k].msg
                                        /\ PositionOf(MoveTo(k, i).it) # {}
         /\ MoveTo(k, i).pc \in {"walk", "read", "close", "reply"}
         /\ MoveTo(k, i).pc \in {"read", "reply"} => h[k].msg.type # "LOG_OFF"
         /\ MoveTo(k, i).conn = h[k].conn /\ MoveTo(k, i).fd = h[k].fd
<1>1. /\ h[k] \in Locals /\ h[k].msg.type \in {"LOG_ON", "GET_CLIENTS", "LOG_OFF"}
      /\ Len(list) \in Nat /\ DOMAIN list = 1..Len(list)
  BY LocalsFacts, LenProperties DEF Inv, ListOK, Handling, Requests
<1>2. CASE i > Len(list)
  <2>1. MoveTo(k, i) = AfterWalk(k)
    BY <1>2 DEF MoveTo
  <2>2. CASE h[k].msg.type = "LOG_ON"
    BY <1>1, <2>1, <2>2 DEF AfterWalk, NextRequest, Locals
  <2>3. CASE h[k].msg.type = "LOG_OFF"
    BY <1>1, <2>1, <2>3 DEF AfterWalk, Locals
  <2>4. CASE h[k].msg.type = "GET_CLIENTS"
    BY <1>1, <2>1, <2>4 DEF AfterWalk, Locals
  <2> QED
    BY <1>1, <2>2, <2>3, <2>4
<1>3. CASE ~(i > Len(list))
  <2>1. MoveTo(k, i) = [h[k] EXCEPT !.pc = "walk", !.it = list[i].from]
    BY <1>3 DEF MoveTo
  <2>2. /\ MoveTo(k, i).pc = "walk" /\ MoveTo(k, i).it = list[i].from
        /\ MoveTo(k, i).msg = h[k].msg /\ MoveTo(k, i).conn = h[k].conn
        /\ MoveTo(k, i).fd = h[k].fd
    BY <1>1, <2>1 DEF Locals
  <2>3. i \in PositionOf(list[i].from)
    BY <1>1, <1>3 DEF PositionOf
  <2> QED
    BY <2>2, <2>3
<1> QED
  BY <1>2, <1>3

\* Steps that change nothing but the locals of the handler, and the counter.
LEMMA TurnLocals ==
  ASSUME PacedInv, OffInv', NEW k \in 1..nspawn, Turn(k),
         \/ Start(k) \/ Count(k) \/ Read(k) \/ Dispatch(k) \/ BeginWalk(k)
         \/ Announce(k) \/ Collect(k) \/ Reply(k)
  PROVE  Paced'
<1>1. /\ HandlerPaced(k) /\ ConnPaced(k) /\ k \in Conn /\ k \in Handler /\ Inv /\ LabelsOK
      /\ h[k] \in Locals /\ h \in [Handler -> Locals] /\ shouldRun /\ k <= nspawn
      /\ Plain(k) /\ Len(list) \in Nat /\ DOMAIN list = 1..Len(list) /\ k # None
      /\ threadCounter \in Nat /\ threadCounter = IF Counting THEN nspawn - 1 ELSE nspawn
  <2>1. /\ Inv /\ k \in Conn /\ k \in Handler /\ k \in 1..nconn /\ k <= nspawn /\ k # None
        /\ h[k] \in Locals /\ h \in [Handler -> Locals] /\ shouldRun
        /\ Len(list) \in Nat /\ DOMAIN list = 1..Len(list) /\ threadCounter \in Nat
    BY PacedTypes DEF None
  <2>2. HandlerPaced(k) /\ ConnPaced(k) /\ LabelsOK
    BY <2>1 DEF PacedInv, Paced, HandlersPaced, ConnsPaced, OffInv
  <2>3. threadCounter = IF Counting THEN nspawn - 1 ELSE nspawn
    BY DEF PacedInv, Paced, MainPaced
  <2>4. Plain(k)
    BY DEF Plain
  <2> QED
    BY <2>1, <2>2, <2>3, <2>4
<1>2. /\ UNCHANGED <<list, nconn, nspawn, mainVars, fault, conn, fdtab>>
      /\ \A j \in Handler \ {k} : h'[j] = h[j]
      /\ h'[k].msg \in {h[k].msg, NoMsg}
      /\ LoggingOn(h[k], k) => LoggingOn(h'[k], k)
  BY <1>1, PlainMoves DEF Start, Count, Read, Dispatch, BeginWalk, Announce, Collect,
                          Reply, Local, Private, Elsewhere, connVars
<1>3. \A d \in 1..nspawn : d # k => h[d].pc \in {"blocked", "done"}
  BY OthersWait DEF Waits
<1>4. conn[k].st \in {"on", "asked"} => Target(accepted) = k \/ ~Busy(k)
  BY <1>1, OthersWait DEF ConnPaced
<1> DEFINE Moves(l) ==
             /\ l.pc \notin {"none", "body", "done"} /\ l.conn \in {None, k}
             /\ Takes(l) => Target(l.fd) = k
             /\ l.pc \in Handling => h[k].pc \in Handling
             /\ l.pc = "walk" => PositionOf(l.it) # {}
             /\ l.pc # "start"
             /\ l.pc = "count" => h[k].pc = "start" /\ l.cnt = threadCounter'
           Counts == threadCounter' = IF h'[k].pc \in {"start", "count"}
                                      THEN nspawn - 1 ELSE nspawn
<1>5. /\ h[k].pc \notin {"none", "blocked", "body", "remove", "done"} /\ Moves(h'[k]) /\ Counts
  <2>1. CASE Start(k)
    <3>1. /\ h'[k] = [h[k] EXCEPT !.pc = "count", !.cnt = threadCounter]
          /\ h[k].pc = "start" /\ threadCounter' = threadCounter
      BY <1>1, <2>1 DEF Start, Local, In, Private
    <3>2. Counting
      BY <3>1 DEF Counting
    <3> QED
      BY <1>1, <3>1, <3>2 DEF Locals, HandlerPaced, Takes, Handling
  <2>2. CASE Count(k)
    <3>1. /\ h'[k] = [h[k] EXCEPT !.pc = "read", !.cnt = 0, !.fd = accepted]
          /\ h[k].pc = "count" /\ threadCounter' = h[k].cnt + 1
      BY <1>1, <2>2 DEF Count, In
    <3>2. Counting
      BY <3>1 DEF Counting
    <3>3. Target(accepted) = k
      BY <1>1, <1>4, <3>1 DEF ConnPaced, Busy, Connections, ConnsOK, Inv
    <3>4. threadCounter' = nspawn
      BY <1>1, <3>1, <3>2, PacedTypes DEF HandlerPaced
    <3>5. h'[k].pc = "read" /\ h'[k].fd = accepted /\ h'[k].conn = h[k].conn
      BY <1>1, <3>1 DEF Locals
    <3> QED
      BY <1>1, <3>1, <3>3, <3>4, <3>5 DEF HandlerPaced, Takes, Handling
  <2>3. ~Start(k) /\ ~Count(k) => threadCounter' = threadCounter
    BY DEF Read, Dispatch, BeginWalk, Announce, Collect, Reply, Local, Private
  <2>4. CASE Read(k)
    <3>1. Target(h[k].fd) = k /\ h[k].pc = "read"
      BY <1>1, <2>4 DEF Read, Local, In, HandlerPaced, Takes
    <3>2. h'[k] = [h[k] EXCEPT !.pc = "blocked", !.conn = k]
      BY <1>1, <2>4, <3>1 DEF Read, Local
    <3>3. ~Counting
      BY <1>3, <3>1 DEF Counting
    <3> QED
      BY <1>1, <2>3, <2>4, <3>1, <3>2, <3>3 DEF Locals, Takes, Handling, Start, Count,
         Local, In
  <2>5. ~Start(k) /\ ~Count(k) /\ h[k].pc \notin {"start", "count"} => threadCounter' = nspawn
    BY <1>1, <1>3, <2>3 DEF Counting
  <2>6. CASE Dispatch(k)
    <3>1. h[k].pc = "got" /\ h'[k] = Handled(k, accepted)
      BY <1>1, <2>6 DEF Dispatch, Local, In
    <3> DEFINE label == IF h[k].msg.type = "LOG_ON" THEN "add" ELSE "head"
    <3>2. h'[k] = [h[k] EXCEPT !.pc = label, !.fd = accepted] /\ label \in {"add", "head"}
      BY <1>1, <3>1 DEF Handled
    <3> HIDE DEF label
    <3>3. /\ h'[k].pc \in {"add", "head"} /\ h'[k].fd = accepted
          /\ h'[k].conn = h[k].conn /\ h'[k].msg = h[k].msg
      BY <1>1, <3>2 DEF Locals
    <3>4. h[k].msg.type # "LOG_OFF" => Target(accepted) = k
      BY <1>1, <1>4, <3>1 DEF HandlerPaced, Handling, Busy
    <3>5. h'[k].msg.type = "LOG_OFF" => h'[k].pc = "head"
      BY <3>3, <1>1, PlainMoves DEF LabelOK
    <3> QED
      BY <1>1, <2>5, <2>6, <3>1, <3>3, <3>4, <3>5
         DEF HandlerPaced, Takes, Handling, Start, Count, Local, In
  <2>7. \/ h[k].pc = "reply"
        \/ h[k].pc \in {"head", "walk"} /\ h[k].msg.type # "LOG_OFF"
        => Target(h[k].fd) = k
    BY <1>1 DEF HandlerPaced, Takes
  <2>8. CASE Reply(k)
    <3>1. h[k].pc = "reply" /\ h'[k] = NextRequest(k)
      BY <1>1, <2>8 DEF Reply, In
    <3>2. /\ h'[k].pc = "read" /\ h'[k].fd = h[k].fd /\ h'[k].conn = h[k].conn
      BY <1>1, <3>1 DEF NextRequest, Locals
    <3> QED
      BY <1>1, <2>5, <2>7, <2>8, <3>1, <3>2
         DEF HandlerPaced, Takes, Handling, Start, Count, Local, In
  <2>9. CASE BeginWalk(k) \/ Announce(k) \/ Collect(k)
    <3>1. PICK i \in Nat \ {0} : /\ h[k].pc \in {"head", "walk"}
                                /\ h'[k].pc = MoveTo(k, i).pc /\ h'[k].fd = MoveTo(k, i).fd
                                /\ h'[k].it = MoveTo(k, i).it
                                /\ h'[k].conn = MoveTo(k, i).conn
                                /\ h'[k].msg = MoveTo(k, i).msg
      <4>1. CASE BeginWalk(k)
        <5>1. h[k].pc = "head" /\ h'[k] = MoveTo(k, 1)
          BY <1>1, <4>1 DEF BeginWalk, Local, In
        <5> QED
          BY <5>1
      <4>2. CASE Announce(k) \/ Collect(k)
        <5>1. h[k].pc = "walk"
          BY <4>2 DEF Announce, Collect, In
        <5>2. \A i \in DOMAIN list : i + 1 \in Nat \ {0}
          BY <1>1
        <5>3. CASE Announce(k)
          <6>1. PICK i \in DOMAIN list : h'[k] = MoveTo(k, i + 1)
            BY <1>1, <5>3 DEF Announce, PositionOf
          <6> QED
            BY <5>1, <5>2, <6>1
        <5>4. CASE Collect(k)
          <6>1. PICK i \in DOMAIN list :
                   h'[k] = [MoveTo(k, i + 1) EXCEPT !.buf = @ \cup {h[k].it}]
            BY <1>1, <5>4 DEF Collect, PositionOf
          <6>2. MoveTo(k, i + 1) \in Locals
            BY <1>1, <5>1, <5>2, MoveToOK
          <6>3. /\ h'[k].pc = MoveTo(k, i + 1).pc /\ h'[k].fd = MoveTo(k, i + 1).fd
                /\ h'[k].it = MoveTo(k, i + 1).it /\ h'[k].conn = MoveTo(k, i + 1).conn
                /\ h'[k].msg = MoveTo(k, i + 1).msg
            BY <6>1, <6>2 DEF Locals
          <6> QED
            BY <5>1, <5>2, <6>3
        <5> QED
          BY <4>2, <5>3, <5>4
      <4> QED
        BY <2>9, <4>1, <4>2
    <3>2. /\ MoveTo(k, i).pc = "walk" => /\ MoveTo(k, i).msg = h[k].msg
                                         /\ PositionOf(MoveTo(k, i).it) # {}
          /\ MoveTo(k, i).pc \in {"walk", "read", "close", "reply"}
          /\ MoveTo(k, i).pc \in {"read", "reply"} => h[k].msg.type # "LOG_OFF"
          /\ MoveTo(k, i).conn = h[k].conn /\ MoveTo(k, i).fd = h[k].fd
      BY <1>1, <3>1, WalkLeads
    <3> QED
      BY <1>1, <2>5, <2>7, <2>9, <3>1, <3>2
         DEF HandlerPaced, Takes, Handling, Start, Count, Local, In
  <2> QED
    BY <2>1, <2>2, <2>4, <2>6, <2>8, <2>9
<1>6. HandlerPaced(k)'
  <2>1. h'[k].pc \in Handling => h'[k].msg = h[k].msg
    BY <1>1, <1>2, LocalsFacts DEF OffInv, WalkInv, Inv, HandlersOK, HandlerOK
  <2>2. NoMsg.from = None
    BY DEF NoMsg
  <2>3. \A f : Target(f)' = Target(f)
    BY <1>2 DEF Target
  <2>4. \A n : PositionOf(n)' = PositionOf(n)
    BY <1>2 DEF PositionOf
  <2> QED
    BY <1>1, <1>2, <1>5, <2>1, <2>2, <2>3, <2>4 DEF HandlerPaced
<1>7. ConnPaced(k)'
  <2>1. OnList(k)' = OnList(k) /\ Unread(k)' = Unread(k) /\ Target(accepted)' = Target(accepted)
    BY <1>2 DEF OnList, Unread, Target, mainVars
  <2>2. conn[k].hdr = None /\ conn[k].st # "gone" /\ Busy(k)
    BY <1>1, <1>5 DEF ConnPaced, Ended, Busy
  <2> QED
    BY <1>1, <1>2, <1>5, <2>1, <2>2 DEF ConnPaced, Ended, LoggingOn, mainVars
<1>8. ListPaced'
  <2>1. \A d \in 1..nspawn : \/ h'[d].pc = h[d].pc
                             \/ h'[d].pc # "done" /\ h[d].pc # "remove"
    <3>1. h'[k].pc # "done" /\ h[k].pc # "remove"
      BY <1>5
    <3>2. ASSUME NEW d \in 1..nspawn, d # k
          PROVE  h'[d] = h[d]
      BY <1>2, <3>2, PacedTypes
    <3> QED
      BY <3>1, <3>2
  <2>2. \A c \in 1..nspawn : conn'[c].who = conn[c].who
    BY <1>2
  <2>3. list' = list /\ nspawn' \in {nspawn, nspawn + 1} /\ fdtab' = fdtab
    BY <1>2
  <2> QED
    BY <2>1, <2>2, <2>3, ListStays
<1> QED
  BY <1>1, <1>2, <1>5, <1>6, <1>7, <1>8, OneTurn DEF OnList

\* Steps that take a request.
LEMMA TurnReads ==
  ASSUME PacedInv, NEW k \in 1..nspawn, Turn(k), ReadLength(k) \/ ReadText(k)
  PROVE  Paced'
<1>1. /\ HandlerPaced(k) /\ ConnPaced(k) /\ k \in Conn /\ k \in Handler /\ Inv
      /\ HandlerOK(k, h[k]) /\ RequestsOK
      /\ h[k] \in Locals /\ h \in [Handler -> Locals] /\ conn \in [Conn -> Connections]
      /\ shouldRun /\ k <= nspawn /\ k # None
      /\ threadCounter = IF Counting THEN nspawn - 1 ELSE nspawn
  <2>1. HandlerPaced(k) /\ ConnPaced(k) /\ RequestsOK
    BY PacedTypes DEF PacedInv, Paced, HandlersPaced, ConnsPaced, OffInv, WalkInv
  <2>2. k \in Conn /\ k \in Handler /\ k <= nspawn /\ k # None
    BY PacedTypes DEF None
  <2>3. HandlerOK(k, h[k]) /\ h[k] \in Locals
    BY <2>2, PacedTypes, LocalsFacts DEF Inv
  <2>4. threadCounter = IF Counting THEN nspawn - 1 ELSE nspawn
    BY DEF PacedInv, Paced, MainPaced
  <2> QED
    BY <2>1, <2>2, <2>3, <2>4, PacedTypes
<1>2. /\ h[k].pc \in {"blocked", "body"} /\ h[k].conn = k
      /\ UNCHANGED <<list, nconn, nspawn, mainVars, fault, threadCounter, fdtab>>
      /\ \A j \in Handler \ {k} : h'[j] = h[j]
      /\ \A c \in Conn \ {k} : conn'[c] = conn[c]
      /\ conn'[k].st = conn[k].st /\ conn'[k].who = conn[k].who
  <2>1. h[k].pc \in {"blocked", "body"} /\ h[k].conn = k
    BY <1>1 DEF ReadLength, ReadText, In, HandlerPaced, HandlerOK, Conn, None
  <2>2. UNCHANGED <<list, nconn, nspawn, mainVars, fault, threadCounter, fdtab>>
    BY DEF ReadLength, ReadText, Elsewhere, listVars
  <2>3. /\ \A j \in Handler \ {k} : h'[j] = h[j]
        /\ \A c \in Conn \ {k} : conn'[c] = conn[c]
        /\ conn'[k].st = conn[k].st /\ conn'[k].who = conn[k].who
    BY <1>1, <2>1 DEF ReadLength, ReadText, Connections
  <2> QED
    BY <2>1, <2>2, <2>3
<1>3. threadCounter' = nspawn /\ conn[k].st # "gone"
  <2>1. \A d \in 1..nspawn : d # k => h[d].pc \in {"blocked", "done"}
    BY OthersWait DEF Waits
  <2>2. ~Counting
    BY <1>2, <2>1 DEF Counting
  <2> QED
    BY <1>1, <1>2, <2>2 DEF ConnPaced, Ended
<1>4. /\ \A f : Target(f)' = Target(f)
      /\ Target(accepted)' = Target(accepted) /\ OnList(k)' = OnList(k)
  BY <1>2 DEF Target, mainVars, OnList
<1>5. /\ h'[k].pc \in {"body", "got"} /\ HandlerPaced(k)' /\ ConnPaced(k)'
  <2>1. CASE ReadLength(k)
    <3>1. /\ h'[k].pc = "body" /\ h'[k].fd = h[k].fd /\ h'[k].conn = k
          /\ h'[k].msg = h[k].msg /\ h[k].pc = "blocked"
          /\ conn'[k].reqs = conn[k].reqs /\ conn[k].reqs # <<>>
      BY <1>1, <1>2, <2>1 DEF ReadLength, In, Locals, Connections
    <3>2. HandlerPaced(k)'
      BY <1>1, <1>2, <1>4, <3>1 DEF HandlerPaced, Takes, Handling
    <3>3. Unread(k)' = Unread(k) /\ Busy(k)
      BY <3>1 DEF Unread, Busy
    <3> QED
      BY <1>1, <1>2, <1>3, <1>4, <3>1, <3>2, <3>3 DEF ConnPaced, Ended, LoggingOn,
         mainVars
  <2>2. CASE ReadText(k)
    <3> DEFINE r == [type |-> Head(conn[k].reqs), from |-> k]
    <3>1. /\ h'[k].pc = "got" /\ h'[k].conn = None /\ h'[k].msg = r /\ h[k].pc = "body"
          /\ conn'[k].reqs = Tail(conn[k].reqs) /\ conn'[k].hdr = None
      BY <1>1, <1>2, <2>2 DEF ReadText, In, Locals, Connections
    <3>2. conn[k].reqs # <<>> /\ conn[k].reqs \in Seq(Requests) /\ Busy(k)
      BY <1>1, <1>2, <3>1 DEF HandlerOK, Connections, Busy
    <3>3. conn[k].st \in {"off", "gone"} =>
             Head(conn[k].reqs) = "LOG_OFF" /\ Tail(conn[k].reqs) = <<>>
      <4>1. /\ <<"LOG_OFF">> # <<>> /\ Head(<<"LOG_OFF">>) = "LOG_OFF"
            /\ Tail(<<"LOG_OFF">>) = <<>>
        OBVIOUS
      <4> QED
        BY <1>1, <3>2, <4>1 DEF ConnPaced
    <3>4. HandlerPaced(k)'
      BY <1>1, <1>2, <3>1, <3>3 DEF HandlerPaced, Takes, Handling, ConnPaced,
         Connections
    <3>5. Unread(k) => h'[k].msg.type = "LOG_ON"
      <4>1. Unread(k) => conn[k].reqs[1] = "LOG_ON"
        BY <1>1 DEF RequestsOK, Unread
      <4> QED
        BY <3>1, <3>2, <4>1
    <3> QED
      BY <1>1, <1>2, <1>3, <1>4, <3>1, <3>2, <3>3, <3>4, <3>5
         DEF ConnPaced, Ended, LoggingOn, mainVars
  <2> QED
    BY <2>1, <2>2
<1>6. ListPaced'
  <2>1. ASSUME NEW d \in 1..nspawn
        PROVE  /\ conn'[d].who = conn[d].who
               /\ \/ h'[d].pc = h[d].pc
                  \/ h'[d].pc # "done" /\ h[d].pc # "remove"
    <3>1. d = k \/ (h'[d] = h[d] /\ conn'[d] = conn[d])
      BY <1>2, PacedTypes
    <3> QED
      BY <1>2, <1>5, <3>1
  <2> QED
    BY <1>2, <2>1, ListStays
<1> QED
  BY <1>2, <1>3, <1>4, <1>5, <1>6, OneTurn DEF OnList

\* LOG_ON: the client is new to the list.
LEMMA NewNode ==
  ASSUME PacedInv, NEW k \in 1..nspawn, Turn(k), Add(k), Calm
  PROVE  /\ h[k].msg.from = k /\ h[k].msg.type = "LOG_ON" /\ h[k].pc = "add"
         /\ Target(h[k].fd) = k
         /\ \A i \in DOMAIN list : conn[list[i].from].who # conn[k].who /\ list[i].from # k
         /\ h'[k].pc = "head" /\ h'[k].fd = h[k].fd /\ h'[k].conn = h[k].conn
         /\ h'[k].msg = h[k].msg
         /\ \E n \in Nat : /\ n = Len(list) + 1 /\ n \in DOMAIN list'
                           /\ list'[n] = [from |-> k, fd |-> h[k].fd]
                           /\ \A i \in DOMAIN list : i \in DOMAIN list' /\ list'[i] = list[i]
                           /\ \A i \in DOMAIN list' : i \in DOMAIN list \/ i = n
<1>1. /\ HandlerPaced(k) /\ ConnPaced(k) /\ k \in Conn /\ k \in Handler /\ Inv
      /\ h[k].msg \in [type : Requests, from : Conn] /\ h[k].msg.type = "LOG_ON"
      /\ h[k].pc = "add"
      /\ h[k] \in Locals /\ h \in [Handler -> Locals] /\ k # None
      /\ shouldRun
  <2>1. HandlerPaced(k) /\ ConnPaced(k)
    BY PacedTypes DEF PacedInv, Paced, HandlersPaced, ConnsPaced
  <2>2. k \in Conn /\ k \in Handler /\ k # None
    BY PacedTypes DEF None
  <2>3. h[k].pc = "add" /\ h[k].msg.type = "LOG_ON"
    BY <2>2 DEF Add, In, PacedInv, OffInv, LabelsOK, LabelOK
  <2>4. h[k].msg \in [type : Requests, from : Conn] /\ h[k] \in Locals
    BY <2>2, <2>3, PacedTypes, LocalsFacts DEF Inv, Handling
  <2> QED
    BY <2>1, <2>2, <2>3, <2>4, PacedTypes
<1>2. h[k].msg.from = k /\ Target(h[k].fd) = k
  BY <1>1 DEF HandlerPaced, Takes, None, Conn
<1>3. \A d \in 1..nspawn : d # k => h[d].pc \in {"blocked", "done"}
  BY OthersWait DEF Waits
<1>4. ~Listed(k)
  <2> SUFFICES ASSUME NEW i \in DOMAIN list, conn[list[i].from].who = conn[k].who
               PROVE  FALSE
    BY DEF Listed, Positions
  <2> PICK d \in Conn : d = list[i].from
    BY <1>1, NodesOfConns
  <2>1. d \in 1..nspawn /\ h[d].pc # "done"
    BY PacedTypes DEF PacedInv, Paced, ListPaced, NodePaced, Conn
  <2>2. d # k
    <3>1. LoggingOn(h[k], k)
      BY <1>1, <1>2 DEF LoggingOn
    <3> QED
      BY <1>1, <3>1 DEF PacedInv, OffInv, WalkInv, PointedOK, Pointed
  <2>3. conn[d].st # "gone" /\ conn[k].st # "gone"
    <3>1. ConnPaced(d)
      BY <2>1, PacedTypes DEF PacedInv, Paced, ConnsPaced
    <3> QED
      BY <1>1, <1>3, <2>1, <2>2, <3>1 DEF ConnPaced, Ended
  <2> QED
    BY <2>1, <2>2, <2>3, PacedTypes DEF PacedInv, OwnersOK
<1>5. /\ list' = Append(list, [from |-> k, fd |-> h[k].fd])
      /\ h'[k] = [h[k] EXCEPT !.pc = "head"]
  BY <1>1, <1>2, <1>4 DEF Add, Calm
<1> PICK n \in Nat : n = Len(list) + 1
  BY PacedTypes
<1>6. /\ \A i \in DOMAIN list : i \in DOMAIN list' /\ list'[i] = list[i]
      /\ n \in DOMAIN list' /\ list'[n] = [from |-> k, fd |-> h[k].fd]
      /\ \A i \in DOMAIN list' : i \in DOMAIN list \/ i = n
  <2>1. Len(list) \in Nat /\ DOMAIN list = 1..Len(list) /\ list \in Seq(Nodes)
    BY PacedTypes
  <2>2. [from |-> k, fd |-> h[k].fd] \in Nodes
    <3>1. HandlerOK(k, h[k])
      BY <1>1, LocalsFacts DEF Inv
    <3> QED
      BY <1>1, <3>1 DEF Nodes, Locals, HandlerOK, Serving
  <2> QED
    BY <1>5, <2>1, <2>2
<1>7. /\ h'[k].pc = "head" /\ h'[k].fd = h[k].fd /\ h'[k].conn = h[k].conn
      /\ h'[k].msg = h[k].msg
  BY <1>1, <1>5 DEF Locals
<1> QED
  BY <1>1, <1>2, <1>4, <1>6, <1>7 DEF Listed, Positions

LEMMA TurnAdds ==
  ASSUME PacedInv, OffInv', NEW k \in 1..nspawn, Turn(k), Add(k), Calm
  PROVE  Paced'
<1>1. /\ HandlerPaced(k) /\ ConnPaced(k) /\ k \in Conn /\ k \in Handler /\ Inv
      /\ h[k].msg \in [type : Requests, from : Conn] /\ h[k].msg.type = "LOG_ON"
      /\ h[k].pc = "add"
      /\ h[k] \in Locals /\ h \in [Handler -> Locals] /\ k # None
      /\ threadCounter = IF Counting THEN nspawn - 1 ELSE nspawn
      /\ shouldRun /\ k <= nspawn
  <2>1. HandlerPaced(k) /\ ConnPaced(k)
    BY PacedTypes DEF PacedInv, Paced, HandlersPaced, ConnsPaced
  <2>2. k \in Conn /\ k \in Handler /\ k <= nspawn /\ k # None
    BY PacedTypes DEF None
  <2>3. h[k].pc = "add" /\ h[k].msg.type = "LOG_ON"
    BY <2>2 DEF Add, In, PacedInv, OffInv, LabelsOK, LabelOK
  <2>4. h[k].msg \in [type : Requests, from : Conn] /\ h[k] \in Locals
    BY <2>2, <2>3, PacedTypes, LocalsFacts DEF Inv, Handling
  <2>5. threadCounter = IF Counting THEN nspawn - 1 ELSE nspawn
    BY DEF PacedInv, Paced, MainPaced
  <2> QED
    BY <2>1, <2>2, <2>3, <2>4, <2>5, PacedTypes
<1>2. /\ UNCHANGED <<nconn, conn, nspawn, mainVars, fault, threadCounter, fdtab>>
      /\ \A j \in Handler \ {k} : h'[j] = h[j]
  BY <1>1 DEF Add, Elsewhere, connVars
<1>3. h[k].msg.from = k /\ Target(h[k].fd) = k
  BY <1>1 DEF HandlerPaced, Takes, None, Conn
<1>4. \A d \in 1..nspawn : d # k => h[d].pc \in {"blocked", "done"}
  BY OthersWait DEF Waits
<1> PICK n \in Nat : /\ n = Len(list) + 1 /\ n \in DOMAIN list'
                     /\ list'[n] = [from |-> k, fd |-> h[k].fd]
                     /\ \A i \in DOMAIN list : i \in DOMAIN list' /\ list'[i] = list[i]
                     /\ \A i \in DOMAIN list' : i \in DOMAIN list \/ i = n
  BY NewNode
<1>5. /\ h'[k].pc = "head" /\ h'[k].fd = h[k].fd /\ h'[k].conn = h[k].conn
      /\ h'[k].msg = h[k].msg
  BY NewNode
<1>6. /\ \A f : Target(f)' = Target(f)
      /\ Target(accepted)' = Target(accepted)
      /\ \A c : OnList(c) => OnList(c)'
      /\ OnList(k)'
  <2>1. \A f : Target(f)' = Target(f)
    BY <1>2 DEF Target
  <2>2. Target(accepted)' = Target(accepted)
    BY <1>2 DEF Target, mainVars
  <2>3. \A c : OnList(c) => OnList(c)'
    BY DEF OnList
  <2>4. OnList(k)'
    BY DEF OnList
  <2> QED
    BY <2>1, <2>2, <2>3, <2>4
<1>7. HandlerPaced(k)'
  BY <1>1, <1>2, <1>3, <1>5, <1>6 DEF HandlerPaced, Takes, Handling
<1>8. ConnPaced(k)'
  <2>1. conn[k].hdr = None /\ conn[k].st # "gone" /\ Busy(k)
    BY <1>1 DEF ConnPaced, Ended, Busy
  <2> QED
    BY <1>1, <1>2, <1>5, <1>6, <2>1 DEF ConnPaced, Ended, mainVars
<1>9. threadCounter' = nspawn
  BY <1>1, <1>2, <1>4 DEF Counting
<1>10. ListPaced'
  <2>1. \A d \in 1..nspawn : d # k => h'[d] = h[d]
    BY <1>2, PacedTypes
  <2>2. ASSUME NEW i \in DOMAIN list
        PROVE  NodePaced(list[i])' /\ list'[i].from \in Conn
               /\ conn'[list'[i].from].who # conn'[k].who
    <3>1. NodePaced(list[i]) /\ list[i].from \in Conn
      BY <1>1, NodesOfConns DEF PacedInv, Paced, ListPaced
    <3>2. conn[list[i].from].who # conn[k].who /\ list[i].from # k
      BY NewNode
    <3> QED
      BY <1>2, <1>6, <2>1, <3>1, <3>2, PacedTypes DEF NodePaced, Conn
  <2>3. NodePaced(list[n])'
    BY <1>1, <1>2, <1>3, <1>5, <1>6 DEF NodePaced
  <2>4. \A i \in DOMAIN list' : NodePaced(list[i])'
    BY <2>2, <2>3
  <2>5. ASSUME NEW i \in DOMAIN list', NEW j \in DOMAIN list',
               conn'[list'[i].from].who = conn'[list'[j].from].who
        PROVE  i = j
    BY <1>2, <2>2, <2>5 DEF PacedInv, Paced, ListPaced
  <2> QED
    BY <2>4, <2>5 DEF ListPaced
<1> QED
  BY <1>2, <1>5, <1>6, <1>7, <1>8, <1>9, <1>10, OneTurn

\* LOG_OFF: the connection that is closed, and the node that is removed, are the
\* client's own.
LEMMA OwnNode ==
  ASSUME PacedInv, NEW k \in 1..nspawn, h[k].pc \in {"close", "remove"}
  PROVE  /\ h[k].msg.from = k /\ Listed(k) /\ First(Positions(k)) \in DOMAIN list
         /\ list[First(Positions(k))].from = k
<1>1. h[k].msg.from = k /\ OnList(k)
  BY ListedIfLoggedOn
<1>2. PICK i \in DOMAIN list : list[i].from = k
  BY <1>1 DEF OnList
<1>3. Positions(k) \in SUBSET Nat /\ Positions(k) # {} /\ i \in Positions(k)
  BY <1>2, PacedTypes DEF Positions
<1> PICK p \in DOMAIN list : p = First(Positions(k)) /\ p \in Positions(k)
  BY <1>3, FirstProperties DEF Positions
<1>4. conn[list[p].from].who = conn[list[i].from].who
  BY <1>2 DEF Positions
<1>5. p = i
  BY <1>4 DEF PacedInv, Paced, ListPaced
<1> QED
  BY <1>1, <1>2, <1>3, <1>5 DEF Listed

LEMMA TurnCloses ==
  ASSUME PacedInv, NEW k \in 1..nspawn, Turn(k), Close(k)
  PROVE  Paced'
<1>1. /\ HandlerPaced(k) /\ ConnPaced(k) /\ k \in Conn /\ k \in Handler /\ k # None
      /\ h[k].pc = "close" /\ h[k] \in Locals /\ h \in [Handler -> Locals] /\ k <= nspawn
      /\ threadCounter = IF Counting THEN nspawn - 1 ELSE nspawn
  <2>1. HandlerPaced(k) /\ ConnPaced(k)
    BY PacedTypes DEF PacedInv, Paced, HandlersPaced, ConnsPaced
  <2>2. k \in Conn /\ k \in Handler /\ k <= nspawn /\ k # None
    BY PacedTypes DEF None
  <2>3. h[k].pc = "close"
    BY DEF Close, In
  <2>4. threadCounter = IF Counting THEN nspawn - 1 ELSE nspawn
    BY DEF PacedInv, Paced, MainPaced
  <2> QED
    BY <2>1, <2>2, <2>3, <2>4, PacedTypes
<1>2. /\ UNCHANGED <<nconn, conn, nspawn, mainVars, fault, threadCounter, list>>
      /\ \A j \in Handler \ {k} : h'[j] = h[j]
      /\ h'[k].pc = "remove" /\ h'[k].conn = h[k].conn /\ h'[k].msg = h[k].msg
  BY <1>1 DEF Close, Elsewhere, connVars, listVars, Locals
<1>3. /\ h[k].msg.from = k /\ OnList(k) /\ conn[k].st = "off"
      /\ conn[k].reqs = <<>>
  BY <1>1, ListedIfLoggedOn
<1>4. PICK p \in DOMAIN list : p = First(Positions(k)) /\ list[p].from = k
  BY <1>1, OwnNode
<1>5. Target(list[p].fd) = k
  BY <1>1, <1>4 DEF PacedInv, Paced, ListPaced, NodePaced
<1>6. \A f \in Fd : fdtab'[f] = fdtab[f] \/ (fdtab[f] = k /\ fdtab'[f] = None)
  BY <1>1, <1>3, <1>4, <1>5 DEF Close, Target
<1>7. threadCounter' = nspawn
  <2>1. \A d \in 1..nspawn : d # k => h[d].pc \in {"blocked", "done"}
    BY OthersWait DEF Waits
  <2> QED
    BY <1>1, <1>2, <2>1 DEF Counting
<1>8. HandlerPaced(k)'
  BY <1>1, <1>2, <1>3, PacedTypes, LocalsFacts
     DEF HandlerPaced, Takes, Handling, PacedInv, OffInv, LabelsOK, LabelOK
<1>9. ConnPaced(k)'
  <2>1. OnList(k)' = OnList(k)
    BY <1>2 DEF OnList
  <2> QED
    BY <1>1, <1>2, <1>3, <2>1 DEF ConnPaced, Ended
<1>10. ListPaced'
  <2>1. \A i \in DOMAIN list : list[i].from \in 1..nspawn /\ list[i].from # None
    BY NodesOfConns, PacedTypes DEF PacedInv, Paced, ListPaced, NodePaced, Conn, None
  <2>2. \A f, c : Target(f) = c /\ c # None /\ c # k => Target(f)' = c
    BY <1>6 DEF Target
  <2>3. ASSUME NEW i \in DOMAIN list PROVE NodePaced(list[i])'
    <3>1. NodePaced(list[i])
      BY DEF PacedInv, Paced, ListPaced
    <3>2. list[i].from # k => h'[list[i].from] = h[list[i].from]
      BY <1>2, <2>1, PacedTypes
    <3> QED
      BY <1>1, <1>2, <2>1, <2>2, <3>1, <3>2 DEF NodePaced
  <2> QED
    BY <1>2, <2>3 DEF PacedInv, Paced, ListPaced
<1> QED
  BY <1>1, <1>2, <1>6, <1>7, <1>8, <1>9, <1>10, OneTurn DEF OnList

LEMMA TurnRemoves ==
  ASSUME PacedInv, NEW k \in 1..nspawn, Turn(k), Remove(k)
  PROVE  Paced'
<1>1. /\ ConnPaced(k) /\ k \in Conn /\ k \in Handler /\ k # None
      /\ h[k].pc = "remove" /\ h \in [Handler -> Locals] /\ k <= nspawn
      /\ threadCounter = IF Counting THEN nspawn - 1 ELSE nspawn
  <2>1. ConnPaced(k)
    BY PacedTypes DEF PacedInv, Paced, HandlersPaced, ConnsPaced
  <2>2. k \in Conn /\ k \in Handler /\ k <= nspawn /\ k # None
    BY PacedTypes DEF None
  <2>3. h[k].pc = "remove"
    BY DEF Remove, In
  <2>4. threadCounter = IF Counting THEN nspawn - 1 ELSE nspawn
    BY DEF PacedInv, Paced, MainPaced
  <2> QED
    BY <2>1, <2>2, <2>3, <2>4, PacedTypes
<1>2. /\ UNCHANGED <<nconn, conn, nspawn, mainVars, fault, threadCounter, fdtab>>
      /\ \A j \in Handler \ {k} : h'[j] = h[j]
      /\ h'[k].pc = "done" /\ h'[k].conn = None /\ h'[k].msg = NoMsg
  BY <1>1 DEF Remove, Elsewhere, connVars, Returned, NewHandler
<1>3. /\ OnList(k) /\ conn[k].st \in {"off", "gone"} /\ conn[k].reqs = <<>>
  BY <1>1, ListedIfLoggedOn
<1>4. PICK p \in DOMAIN list : list[p].from = k /\ list' = Unlink(p)
  BY <1>1, OwnNode DEF Remove
<1>5. /\ DOMAIN list' = 1..(Len(list) - 1)
      /\ \A i \in 1..(Len(list) - 1) : list'[i] = IF i < p THEN list[i] ELSE list[i + 1]
  BY <1>4 DEF Unlink
<1>6. Len(list) \in Nat /\ DOMAIN list = 1..Len(list)
  BY PacedTypes
<1> DEFINE Was(i) == IF i < p THEN i ELSE i + 1
<1>7. \A i \in DOMAIN list' : /\ Was(i) \in DOMAIN list /\ Was(i) # p
                              /\ list'[i] = list[Was(i)]
  BY <1>5, <1>6
<1>8. \A i, j \in DOMAIN list' : Was(i) = Was(j) => i = j
  BY <1>5, <1>6
<1>9. \A m \in DOMAIN list : m # p => \E i \in DOMAIN list' : list'[i] = list[m]
  <2> SUFFICES ASSUME NEW m \in DOMAIN list, m # p
               PROVE  \E i \in DOMAIN list' : list'[i] = list[m]
    OBVIOUS
  <2>1. CASE m < p
    BY <1>5, <1>6, <2>1
  <2>2. CASE m > p
    <3>1. m - 1 \in DOMAIN list' /\ ~(m - 1 < p) /\ (m - 1) + 1 = m
      BY <1>5, <1>6, <2>2
    <3> QED
      BY <1>5, <3>1
  <2> QED
    BY <1>6, <2>1, <2>2
<1> HIDE DEF Was
<1>10. \A c \in Conn \ {k} : OnList(c) => OnList(c)'
  BY <1>4, <1>9 DEF OnList
<1>11. threadCounter' = nspawn
  <2>1. \A d \in 1..nspawn : d # k => h[d].pc \in {"blocked", "done"}
    BY OthersWait DEF Waits
  <2> QED
    BY <1>1, <1>2, <2>1 DEF Counting
<1>12. HandlerPaced(k)'
  BY <1>2, <1>3 DEF HandlerPaced, Takes, Handling, NoMsg
<1>13. ConnPaced(k)'
  BY <1>1, <1>2, <1>3 DEF ConnPaced, Ended
<1>14. ListPaced'
  <2>1. ASSUME NEW i \in DOMAIN list', NEW j \in DOMAIN list',
               conn'[list'[i].from].who = conn'[list'[j].from].who
        PROVE  i = j
    <3>1. conn[list[Was(i)].from].who = conn[list[Was(j)].from].who
      BY <1>2, <1>7, <2>1
    <3>2. Was(i) = Was(j)
      BY <1>7, <3>1 DEF PacedInv, Paced, ListPaced
    <3> QED
      BY <1>8, <3>2
  <2>2. ASSUME NEW i \in DOMAIN list' PROVE NodePaced(list[i])'
    <3> PICK m \in DOMAIN list : m # p /\ list'[i] = list[m]
      BY <1>7
    <3>1. NodePaced(list[m]) /\ list[m].from \in 1..nspawn
      BY NodesOfConns, PacedTypes DEF PacedInv, Paced, ListPaced, NodePaced, Conn
    <3>2. list[m].from # k
      BY <1>4 DEF PacedInv, Paced, ListPaced
    <3>3. h'[list[m].from] = h[list[m].from]
      BY <1>2, <3>1, <3>2, PacedTypes
    <3>4. \A f : Target(f)' = Target(f)
      BY <1>2 DEF Target
    <3> QED
      BY <1>2, <3>1, <3>3, <3>4 DEF NodePaced
  <2> QED
    BY <2>1, <2>2 DEF ListPaced
<1> QED
  BY <1>1, <1>2, <1>10, <1>11, <1>12, <1>13, <1>14, OneTurn

LEMMA TurnMoves ==
  ASSUME PacedInv, OffInv', Calm, NEW k \in Handler, HandlerStep(k)
  PROVE  Paced'
<1>1. k \in 1..nspawn /\ Turn(k)
  BY HandlerTurn
<1>2. ~Wrong(k) /\ ~ReadEof(k) /\ ~ReadTextClosed(k) /\ ~StopWalk(k) /\ ~Skip(k)
  BY TurnGoesRight
<1>3. \/ Start(k) \/ Count(k) \/ Read(k) \/ Dispatch(k) \/ BeginWalk(k)
      \/ Announce(k) \/ Collect(k) \/ Reply(k)
      \/ ReadLength(k) \/ ReadText(k) \/ Add(k) \/ Close(k) \/ Remove(k)
  BY <1>2, HandlerCases, NoStdin DEF Plain
<1> QED
  BY <1>1, <1>3, TurnLocals, TurnReads, TurnAdds, TurnCloses, TurnRemoves

-----------------------------------------------------------------------------
(* The steps of main and of the clients.                                     *)

\* A handler, and a connection, that a step does not touch.
LEMMA HandlerStays ==
  ASSUME PacedInv, NEW d \in 1..nspawn, h'[d] = h[d], conn'[d] = conn[d],
         UNCHANGED <<list, threadCounter>>,
         \A f \in Fd : fdtab[f] # None => fdtab'[f] = fdtab[f]
  PROVE  HandlerPaced(d)'
<1>1. HandlerPaced(d) /\ d # None
  BY PacedTypes DEF PacedInv, Paced, HandlersPaced, None
<1>2. \A f : Target(f) = d => Target(f)' = d
  BY <1>1 DEF Target
<1>3. \A n : PositionOf(n)' = PositionOf(n)
  BY DEF PositionOf
<1> QED
  BY <1>1, <1>2, <1>3 DEF HandlerPaced

LEMMA ConnStays ==
  ASSUME PacedInv, NEW c \in 1..nconn, conn'[c] = conn[c], list' = list,
         c <= nspawn => h'[c] = h[c], nspawn' \in Nat, c <= nspawn' <=> c <= nspawn,
         c <= naccd' <=> c <= naccd, accepted' = accepted \/ ~Turn(c),
         \A f \in Fd : fdtab[f] # None => fdtab'[f] = fdtab[f]
  PROVE  ConnPaced(c)'
<1>1. ConnPaced(c) /\ c # None
  BY PacedTypes DEF PacedInv, Paced, ConnsPaced, None
<1>2. /\ Busy(c)' <=> Busy(c)
      /\ Ended(c)' <=> Ended(c)
  <2>1. c > nspawn' <=> c > nspawn
    BY PacedTypes
  <2> QED
    BY <2>1 DEF Busy, Ended
<1>3. Target(accepted) = c /\ accepted' = accepted => Target(accepted)' = c
  BY <1>1 DEF Target
<1>4. /\ OnList(c)' <=> OnList(c)
      /\ Unread(c)' <=> Unread(c)
      /\ c <= nspawn => (LoggingOn(h[c], c)' <=> LoggingOn(h[c], c))
  BY DEF OnList, Unread, LoggingOn
<1>5. (\E f \in Fd : fdtab[f] = c) => \E f \in Fd : fdtab'[f] = c
  BY <1>1
<1> QED
  BY <1>1, <1>2, <1>3, <1>4, <1>5 DEF ConnPaced, Turn

\* The two steps of main that only lead to the next one.
LEMMA MainWaits ==
  ASSUME PacedInv, CheckRun \/ EnterSelect \/ UNCHANGED vars
  PROVE  Paced'
<1>1. /\ UNCHANGED <<h, conn, nconn, nspawn, naccd, accepted, list, fdtab>>
      /\ UNCHANGED <<threadCounter, shouldRun, fault>>
      /\ mpc' = mpc \/ (mpc # "spawn" /\ mpc' \in {"enter", "select"})
  BY PacedTypes DEF CheckRun, EnterSelect, MainGoes, MainStops, InMain, vars, mainVars,
                    threadVars, listVars, connVars
<1>2. \A d \in 1..nspawn : h'[d] = h[d] /\ conn'[d] = conn[d]
  BY <1>1
<1>3. HandlersPaced'
  BY <1>1, <1>2, HandlerStays DEF HandlersPaced
<1>4. ConnsPaced'
  BY <1>1, ConnStays, PacedTypes DEF ConnsPaced
<1>5. ListPaced'
  BY <1>1, ListStays
<1>6. NewOK' /\ FdsPaced'
  BY <1>1 DEF PacedInv, Paced, NewOK, FdsPaced
<1>7. TurnOK'
  BY <1>1 DEF PacedInv, Paced, TurnOK, Turn, Busy
<1>8. MainPaced'
  BY <1>1 DEF PacedInv, Paced, MainPaced, Counting
<1> QED
  BY <1>3, <1>4, <1>5, <1>6, <1>7, <1>8 DEF Paced

\* There is a descriptor for every connection that is still to be accepted.
LEMMA DescriptorsLeft ==
  ASSUME PacedInv, Calm, naccd < nconn
  PROVE  FreeFds # {}
<1> SUFFICES ASSUME \A f \in Fd : fdtab[f] # None
             PROVE  FALSE
  BY DEF FreeFds
<1>1. naccd < MaxFd /\ MaxFd \in Nat /\ naccd \in Nat
  BY PacedTypes, BoundsAssumption DEF Calm
<1>2. fdtab \in [Fd -> 1..naccd]
  <2>1. \A f \in Fd : fdtab[f] \in Conn /\ fdtab[f] <= naccd
    BY PacedTypes DEF Inv, FdsOK
  <2> QED
    BY <2>1, PacedTypes DEF Conn
<1>3. /\ IsFiniteSet(Fd) /\ IsFiniteSet(1..naccd)
      /\ Cardinality(1..naccd) < Cardinality(Fd)
  <2>1. IsFiniteSet(1..MaxFd) /\ Cardinality(1..MaxFd) = IF 1 > MaxFd THEN 0 ELSE MaxFd - 1 + 1
    BY <1>1, FS_Interval
  <2>2. IsFiniteSet(1..naccd) /\ Cardinality(1..naccd) = IF 1 > naccd THEN 0 ELSE naccd - 1 + 1
    BY <1>1, FS_Interval
  <2> QED
    BY <1>1, <2>1, <2>2 DEF Fd
<1>4. PICK f \in Fd, g \in Fd : f # g /\ fdtab[f] = fdtab[g]
  BY <1>2, <1>3, FS_PigeonHole
<1> QED
  BY <1>4 DEF PacedInv, Paced, FdsPaced

LEMMA AcceptPaced ==
  ASSUME PacedInv, Accept
  PROVE  Paced'
<1>1. /\ naccd < nconn /\ mpc = "select" /\ mpc' = "spawn" /\ naccd = nspawn
      /\ UNCHANGED <<shouldRun, list, h, conn, nconn, nspawn, threadCounter, fault>>
  BY DEF Accept, Pending, PacedInv, Paced, MainPaced, threadVars, listVars, connVars
<1> PICK n \in Conn : n = naccd + 1
  BY <1>1, PacedTypes DEF Conn
<1>2. PICK f \in Fd : /\ fdtab[f] = None /\ accepted' = f /\ naccd' = n
                      /\ fdtab' = [fdtab EXCEPT ![f] = n]
  <2>1. FreeFds \in SUBSET Nat /\ FreeFds # {}
    BY DEF Accept, FreeFds, Fd
  <2>2. First(FreeFds) \in FreeFds
    BY <2>1, FirstProperties
  <2> QED
    BY <2>2 DEF Accept, FreeFds
<1>3. /\ \A g \in Fd : fdtab[g] # None => fdtab'[g] = fdtab[g]
      /\ Target(accepted)' = n /\ fdtab'[f] = n
  BY <1>2, PacedTypes DEF Target
<1>4. n \in 1..nconn /\ n > nspawn /\ Turn(n)
  BY <1>1, PacedTypes DEF Turn, Busy
<1>5. \A c \in 1..nconn : c # n => ~Turn(c) /\ c <= nspawn
  BY <1>4, PacedTypes DEF PacedInv, Paced, TurnOK, Turn, Busy
<1>6. HandlersPaced'
  BY <1>1, <1>3, HandlerStays DEF HandlersPaced
<1>7. ConnsPaced'
  <2>1. ASSUME NEW c \in 1..nconn, c # n PROVE ConnPaced(c)'
    <3>1. c <= naccd' <=> c <= naccd
      BY <1>1, <1>2, <1>5, <2>1, PacedTypes
    <3> QED
      BY <1>1, <1>3, <1>5, <2>1, <3>1, ConnStays, PacedTypes
  <2>2. ConnPaced(n)'
    <3>1. ConnPaced(n) /\ ~(n <= nspawn)
      BY <1>4, PacedTypes DEF PacedInv, Paced, ConnsPaced
    <3>2. OnList(n)' = OnList(n) /\ Unread(n)' = Unread(n)
      BY <1>1 DEF OnList, Unread
    <3> QED
      BY <1>1, <1>3, <3>1, <3>2 DEF ConnPaced, Ended
  <2> QED
    BY <1>1, <2>1, <2>2 DEF ConnsPaced
<1>8. ListPaced'
  BY <1>1, <1>3, ListStays
<1>9. NewOK' /\ TurnOK'
  BY <1>1 DEF PacedInv, Paced, NewOK, TurnOK, Turn, Busy
<1>10. MainPaced'
  BY <1>1, <1>2 DEF PacedInv, Paced, MainPaced, Counting
<1>11. FdsPaced'
  <2>1. \A g \in Fd : fdtab[g] # n
    BY <1>1, PacedTypes DEF Inv, FdsOK
  <2> QED
    BY <1>2, <2>1, PacedTypes DEF PacedInv, Paced, FdsPaced
<1> QED
  BY <1>6, <1>7, <1>8, <1>9, <1>10, <1>11 DEF Paced

LEMMA SpawnPaced ==
  ASSUME PacedInv, Spawn
  PROVE  Paced'
<1>1. /\ mpc = "spawn" /\ mpc' = "check" /\ naccd = nspawn + 1 /\ nspawn' = nspawn + 1
      /\ UNCHANGED <<shouldRun, list, conn, nconn, naccd, accepted, threadCounter>>
      /\ UNCHANGED <<fdtab, fault>> /\ nspawn < MaxThread
  BY DEF Spawn, InMain, PacedInv, Paced, MainPaced, listVars, connVars
<1> PICK n \in Conn : n = nspawn + 1
  BY <1>1, PacedTypes DEF Conn
<1>2. n \in Handler /\ n \in 1..nconn /\ n > nspawn /\ Turn(n) /\ ~(n <= nspawn) /\ n # None
  BY <1>1, PacedTypes DEF Turn, Busy, Handler, None
<1>3. /\ \A k \in Handler \ {n} : h'[k] = h[k]
      /\ h'[n].pc = "start" /\ h'[n].conn = None /\ h'[n].msg = NoMsg
  <2>1. h[n] = NewHandler
    BY <1>2 DEF PacedInv, OffInv, SpawnedOK
  <2>2. h' = [h EXCEPT ![n].pc = "start"]
    BY <1>1 DEF Spawn
  <2> QED
    BY <1>2, <2>1, <2>2, PacedTypes DEF NewHandler
<1>4. \A c \in 1..nspawn : c # n /\ h'[c] = h[c]
  BY <1>2, <1>3, PacedTypes
<1>5. \A c \in 1..nconn : c # n => ~Turn(c) /\ c <= nspawn
  BY <1>2, PacedTypes DEF PacedInv, Paced, TurnOK, Turn, Busy
<1>6. HandlersPaced'
  <2>1. HandlerPaced(n)'
    BY <1>3 DEF HandlerPaced, Takes, Handling, NoMsg
  <2>2. \A d \in 1..nspawn : HandlerPaced(d)'
    BY <1>1, <1>4, HandlerStays
  <2>3. \A d \in 1..nspawn' : d = n \/ d \in 1..nspawn
    BY <1>1, PacedTypes
  <2> QED
    BY <2>1, <2>2, <2>3 DEF HandlersPaced
<1>7. ConnsPaced'
  <2>1. ASSUME NEW c \in 1..nconn, c # n PROVE ConnPaced(c)'
    <3>1. c <= nspawn /\ c <= nspawn' /\ h'[c] = h[c] /\ (c <= naccd' <=> c <= naccd)
          /\ nspawn' \in Nat
      BY <1>1, <1>4, <1>5, <2>1, PacedTypes
    <3> QED
      BY <1>1, <2>1, <3>1, ConnStays
  <2>2. ConnPaced(n)'
    <3>1. ConnPaced(n) /\ Busy(n) /\ ~Ended(n)
      BY <1>2, PacedTypes DEF PacedInv, Paced, ConnsPaced, Busy, Ended
    <3>2. /\ OnList(n)' = OnList(n) /\ Unread(n)' = Unread(n)
          /\ Target(accepted)' = Target(accepted)
      BY <1>1 DEF OnList, Unread, Target
    <3> QED
      BY <1>1, <1>2, <3>1, <3>2 DEF ConnPaced
  <2> QED
    BY <1>1, <2>1, <2>2 DEF ConnsPaced
<1>8. ListPaced'
  BY <1>1, <1>4, ListStays
<1>9. NewOK' /\ FdsPaced'
  BY <1>1 DEF PacedInv, Paced, NewOK, FdsPaced
<1>10. TurnOK'
  <2>1. \A c \in 1..nconn : c # n => ~Turn(c)'
    BY <1>1, <1>4, <1>5, PacedTypes DEF Turn, Busy
  <2> QED
    BY <1>1, <2>1 DEF TurnOK
<1>11. MainPaced'
  <2>1. ~Counting
    BY <1>4, <1>5, PacedTypes DEF Counting, Turn, Busy
  <2>2. Counting'
    BY <1>1, <1>3, PacedTypes DEF Counting
  <2> QED
    BY <1>1, <2>1, <2>2, PacedTypes DEF PacedInv, Paced, MainPaced
<1> QED
  BY <1>6, <1>7, <1>8, <1>9, <1>10, <1>11 DEF Paced

\* Steps of the clients: what they leave alone.
LEMMA ClientLeaves ==
  ASSUME PacedInv, NEW n \in Conn, nconn' \in {nconn, nconn + 1},
         \A c \in Conn \ {n} : conn'[c] = conn[c],
         UNCHANGED <<mainVars, threadVars, fdtab, listVars, fault, h>>
  PROVE  /\ MainPaced' /\ FdsPaced'
         /\ \A d \in 1..nspawn : d # n => HandlerPaced(d)'
         /\ \A c \in 1..nconn : c # n => ConnPaced(c)'
         /\ (n \in 1..nspawn => conn'[n].who = conn[n].who) => ListPaced'
         /\ \A c \in Conn \ {n} : (Busy(c)' <=> Busy(c)) /\ (Turn(c)' <=> Turn(c))
         /\ OnList(n)' = OnList(n) /\ Target(accepted)' = Target(accepted)
<1>1. /\ UNCHANGED <<mpc, shouldRun, accepted, naccd, nspawn, threadCounter, fdtab, list>>
      /\ UNCHANGED <<fault, h>>
  BY DEF mainVars, threadVars, listVars
<1>2. MainPaced' /\ FdsPaced'
  BY <1>1 DEF PacedInv, Paced, MainPaced, FdsPaced, Counting
<1>3. \A d \in 1..nspawn : d # n => HandlerPaced(d)'
  BY <1>1, HandlerStays, PacedTypes
<1>4. \A c \in 1..nconn : c # n => ConnPaced(c)'
  BY <1>1, ConnStays, PacedTypes
<1>5. (n \in 1..nspawn => conn'[n].who = conn[n].who) => ListPaced'
  <2> SUFFICES ASSUME n \in 1..nspawn => conn'[n].who = conn[n].who
               PROVE  ListPaced'
    OBVIOUS
  <2>1. \A c \in 1..nspawn : conn'[c].who = conn[c].who
    BY PacedTypes
  <2> QED
    BY <1>1, <2>1, ListStays
<1>6. \A c \in Conn \ {n} : (Busy(c)' <=> Busy(c)) /\ (Turn(c)' <=> Turn(c))
  BY <1>1 DEF Turn, Busy
<1>7. OnList(n)' = OnList(n) /\ Target(accepted)' = Target(accepted)
  BY <1>1 DEF OnList, Target
<1> QED
  BY <1>2, <1>3, <1>4, <1>5, <1>6, <1>7

\* When the server is done with everyone, it is nobody's turn.
LEMMA NobodysTurn ==
  ASSUME PacedInv, Idle, AllAsked
  PROVE  nspawn = nconn /\ naccd = nconn /\ \A c \in 1..nconn : ~Turn(c)
<1>1. nspawn = nconn /\ naccd = nconn
  BY DEF Idle, PacedInv, Paced, MainPaced
<1>2. \A c \in 1..nconn : ~Turn(c)
  <2> SUFFICES ASSUME NEW c \in 1..nconn
               PROVE  ~Turn(c)
    OBVIOUS
  <2>1. c \in Handler /\ ~(c > nspawn) /\ HandlerPaced(c)
    BY <1>1, PacedTypes DEF PacedInv, Paced, HandlersPaced
  <2> QED
    BY <2>1 DEF Idle, AllAsked, Turn, Busy, HandlerPaced
<1> QED
  BY <1>1, <1>2

LEMMA ConnectPaced ==
  ASSUME PacedInv, NEW w \in Client, Connect(w), Idle, AllAsked
  PROVE  Paced'
<1>1. nconn < MaxConn /\ nconn' = nconn + 1
  BY DEF Connect
<1> PICK n \in Conn : n = nconn + 1
  BY <1>1, PacedTypes DEF Conn
<1>2. /\ UNCHANGED <<mainVars, threadVars, fdtab, listVars, fault, h>>
      /\ \A c \in Conn \ {n} : conn'[c] = conn[c]
      /\ conn'[n].st = "on" /\ conn'[n].reqs = <<"LOG_ON">> /\ conn'[n].hdr = None
  BY <1>1, PacedTypes DEF Connect, Outside, NewConn
<1>3. /\ nspawn = nconn /\ naccd = nconn /\ \A c \in 1..nconn : ~Turn(c)
      /\ nspawn' = nspawn /\ naccd' = naccd
  BY <1>2, NobodysTurn DEF mainVars, threadVars
<1>4. ~(n \in 1..nspawn) /\ ~(n <= naccd) /\ nconn' \in {nconn, nconn + 1}
  BY <1>1, <1>3, PacedTypes
<1>5. /\ MainPaced' /\ FdsPaced' /\ ListPaced'
      /\ \A d \in 1..nspawn : d # n => HandlerPaced(d)'
      /\ \A c \in 1..nconn : c # n => ConnPaced(c)'
      /\ \A c \in Conn \ {n} : Turn(c)' <=> Turn(c)
  BY <1>2, <1>4, ClientLeaves
<1>6. HandlersPaced'
  BY <1>3, <1>4, <1>5 DEF HandlersPaced
<1>7. ConnsPaced'
  <2>1. Unread(n)'
    BY <1>2 DEF Unread
  <2>2. ConnPaced(n)'
    BY <1>2, <1>3, <1>4, <2>1 DEF ConnPaced
  <2>3. \A c \in 1..nconn' : c = n \/ c \in 1..nconn
    BY <1>1, PacedTypes
  <2> QED
    BY <1>5, <2>2, <2>3 DEF ConnsPaced
<1>8. TurnOK'
  <2>1. ASSUME NEW c \in 1..nconn', c # n PROVE ~Turn(c)'
    <3>1. c \in 1..nconn /\ c \in Conn \ {n}
      BY <1>1, <2>1, PacedTypes
    <3> QED
      BY <1>3, <1>5, <3>1
  <2> QED
    BY <2>1 DEF TurnOK
<1>9. NewOK'
  <2>1. \A c \in Conn : c > nconn' => c # n /\ c > nconn
    BY <1>1, PacedTypes DEF Conn
  <2> QED
    BY <1>2, <2>1 DEF PacedInv, Paced, NewOK
<1> QED
  BY <1>5, <1>6, <1>7, <1>8, <1>9 DEF Paced

\* A connection on which its client has logged on is one that was made.
LEMMA MadeConn ==
  ASSUME PacedInv, NEW c \in Conn, conn[c].st # "none"
  PROVE  c \in 1..nconn /\ ConnPaced(c) /\ c # None
<1>1. c <= nconn
  BY PacedTypes DEF PacedInv, Paced, NewOK, NewConn, Conn
<1>2. c \in 1..nconn
  BY <1>1, PacedTypes DEF Conn
<1> QED
  BY <1>2 DEF PacedInv, Paced, ConnsPaced, Conn, None

\* What is left to show of a step of one client.
LEMMA ClientMoves ==
  ASSUME PacedInv, NEW n \in 1..nconn, nconn' = nconn,
         \A c \in Conn \ {n} : conn'[c] = conn[c], conn'[n].who = conn[n].who,
         UNCHANGED <<mainVars, threadVars, fdtab, listVars, fault, h>>,
         n <= nspawn => HandlerPaced(n)', ConnPaced(n)',
         \/ ~Turn(n)'
         \/ Turn(n)
         \/ \A c \in 1..nconn : ~Turn(c)
  PROVE  Paced'
<1>1. n \in Conn /\ nspawn' = nspawn /\ nconn' \in {nconn, nconn + 1}
  BY PacedTypes DEF threadVars
<1>2. /\ MainPaced' /\ FdsPaced' /\ ListPaced'
      /\ \A d \in 1..nspawn : d # n => HandlerPaced(d)'
      /\ \A c \in 1..nconn : c # n => ConnPaced(c)'
      /\ \A c \in Conn \ {n} : Turn(c)' <=> Turn(c)
  BY <1>1, ClientLeaves
<1>3. HandlersPaced' /\ ConnsPaced'
  BY <1>1, <1>2, PacedTypes DEF HandlersPaced, ConnsPaced
<1>4. TurnOK'
  <2>1. \A c \in 1..nconn : c # n => (Turn(c)' <=> Turn(c))
    BY <1>2, PacedTypes
  <2> QED
    BY <2>1 DEF PacedInv, Paced, TurnOK
<1>5. NewOK'
  BY PacedTypes DEF PacedInv, Paced, NewOK
<1> QED
  BY <1>2, <1>3, <1>4, <1>5 DEF Paced

LEMMA AskPaced ==
  ASSUME PacedInv, NEW n \in Conn, Ask(n)
  PROVE  Paced'
<1>1. /\ UNCHANGED <<mainVars, threadVars, fdtab, listVars, fault, h, nconn>>
      /\ \A c \in Conn \ {n} : conn'[c] = conn[c]
      /\ conn[n].st = "on" /\ conn'[n].st = "asked" /\ conn'[n].who = conn[n].who
      /\ conn'[n].hdr = conn[n].hdr
      /\ conn'[n].reqs = Append(conn[n].reqs, "GET_CLIENTS")
  BY PacedTypes DEF Ask, Request, Outside, Connections
<1>2. n \in 1..nconn /\ ConnPaced(n) /\ conn[n].reqs \in Seq(Requests) /\ Turn(n)
  BY <1>1, MadeConn, PacedTypes DEF Connections, Turn
<1>3. Unread(n) => Unread(n)'
  <2>1. "GET_CLIENTS" \in Requests
    BY DEF Requests
  <2>2. \A i \in DOMAIN conn[n].reqs : /\ i \in DOMAIN conn'[n].reqs
                                       /\ conn'[n].reqs[i] = conn[n].reqs[i]
    BY <1>1, <1>2, <2>1
  <2> QED
    BY <2>2 DEF Unread
<1>4. /\ OnList(n)' = OnList(n) /\ Target(accepted)' = Target(accepted)
  BY <1>1 DEF OnList, Target, mainVars, listVars
<1>5. ConnPaced(n)'
  BY <1>1, <1>2, <1>3, <1>4 DEF ConnPaced, Ended, LoggingOn, mainVars, threadVars
<1>6. n <= nspawn => HandlerPaced(n)'
  <2>1. n <= nspawn => HandlerPaced(n)
    BY <1>2, PacedTypes DEF PacedInv, Paced, HandlersPaced
  <2>2. \A m : PositionOf(m)' = PositionOf(m)
    BY <1>1 DEF PositionOf, listVars
  <2>3. \A f : Target(f)' = Target(f)
    BY <1>1 DEF Target
  <2> QED
    BY <1>1, <2>1, <2>2, <2>3 DEF HandlerPaced, threadVars
<1> QED
  BY <1>1, <1>2, <1>5, <1>6, ClientMoves

LEMMA LogOffPaced ==
  ASSUME PacedInv, NEW n \in Conn, LogOff(n), ComesOrLeaves => Idle /\ AllAsked
  PROVE  Paced'
<1>1. /\ UNCHANGED <<mainVars, threadVars, fdtab, listVars, fault, h, nconn>>
      /\ \A c \in Conn \ {n} : conn'[c] = conn[c]
      /\ conn[n].st \in {"on", "asked"} /\ conn'[n].st = "off" /\ conn'[n].who = conn[n].who
      /\ conn'[n].hdr = conn[n].hdr
      /\ conn'[n].reqs = Append(conn[n].reqs, "LOG_OFF")
  BY PacedTypes DEF LogOff, Request, Outside, Connections
<1>2. n \in 1..nconn /\ ConnPaced(n)
  BY <1>1, MadeConn
<1>3. nspawn = nconn /\ naccd = nconn /\ \A c \in 1..nconn : ~Turn(c)
  <2>1. ComesOrLeaves
    BY <1>1, <1>2 DEF ComesOrLeaves
  <2> QED
    BY <2>1, NobodysTurn
<1>4. /\ n \in 1..nspawn /\ HandlerPaced(n) /\ conn[n].reqs = <<>>
      /\ h[n].pc = "blocked"
  BY <1>1, <1>2, <1>3 DEF PacedInv, Paced, HandlersPaced, HandlerPaced, Turn, Busy
<1>5. conn'[n].reqs = <<"LOG_OFF">>
  BY <1>1, <1>4
<1>6. OnList(n) /\ OnList(n)' = OnList(n)
  <2>1. ~Unread(n)
    BY <1>4, EmptySeq DEF Unread
  <2> QED
    BY <1>1, <1>2, <1>4, <2>1 DEF ConnPaced, OnList, listVars, LoggingOn
<1>7. ConnPaced(n)'
  BY <1>1, <1>2, <1>4, <1>5, <1>6, PacedTypes DEF ConnPaced, Ended, mainVars, threadVars
<1>8. n <= nspawn => HandlerPaced(n)'
  <2>1. \A f : Target(f)' = Target(f)
    BY <1>1 DEF Target
  <2> QED
    BY <1>1, <1>4, <2>1 DEF HandlerPaced, Takes, Handling
<1> QED
  BY <1>1, <1>2, <1>3, <1>7, <1>8, ClientMoves

LEMMA FinishPaced ==
  ASSUME PacedInv, NEW n \in Conn, Finish(n)
  PROVE  Paced'
<1>1. /\ UNCHANGED <<mainVars, threadVars, fdtab, listVars, fault, h, nconn>>
      /\ \A c \in Conn \ {n} : conn'[c] = conn[c]
      /\ conn[n].st = "off" /\ conn'[n].st = "gone" /\ conn'[n].who = conn[n].who
      /\ conn'[n].hdr = conn[n].hdr /\ conn'[n].reqs = conn[n].reqs
      /\ n <= naccd /\ \A f \in Fd : fdtab[f] # n
  BY PacedTypes DEF Finish, Outside, Released, Connections
<1>2. n \in 1..nconn /\ ConnPaced(n)
  BY <1>1, MadeConn
<1>3. Ended(n)
  BY <1>1, <1>2 DEF ConnPaced
<1>4. OnList(n)' = OnList(n) /\ Unread(n)' = Unread(n)
  BY <1>1 DEF OnList, Unread, listVars
<1>5. ConnPaced(n)'
  BY <1>1, <1>2, <1>3, <1>4 DEF ConnPaced, Ended, LoggingOn, mainVars, threadVars
<1>6. n <= nspawn => HandlerPaced(n)'
  <2>1. n <= nspawn => HandlerPaced(n)
    BY <1>2, PacedTypes DEF PacedInv, Paced, HandlersPaced
  <2>2. \A m : PositionOf(m)' = PositionOf(m)
    BY <1>1 DEF PositionOf, listVars
  <2>3. \A f : Target(f)' = Target(f)
    BY <1>1 DEF Target
  <2> QED
    BY <1>1, <2>1, <2>2, <2>3 DEF HandlerPaced, threadVars
<1>7. Turn(n)' => Turn(n)
  BY <1>1 DEF Turn, Busy, threadVars
<1> QED
  BY <1>1, <1>2, <1>5, <1>6, <1>7, ClientMoves

-----------------------------------------------------------------------------
(* Together.                                                                 *)

LEMMA PacedKeeps ==
  ASSUME PacedInv, Calm, PacedStep
  PROVE  PacedInv'
<1>1. [Next]_vars /\ Inv
  BY PacedTypes DEF PacedStep
<1>2. OffInv'
  BY <1>1, OffStep DEF PacedInv, Calm
<1>3. GoneOK' /\ OwnersOK'
  BY <1>1, GoneStep DEF PacedInv, Calm
<1>4. Paced'
  <2>1. CASE UNCHANGED vars
    BY <2>1, MainWaits
  <2>2. CASE \E w \in Client : Connect(w)
    <3> PICK w \in Client : Connect(w)
      BY <2>2
    <3>1. nconn' # nconn
      BY PacedTypes DEF Connect
    <3>2. Idle /\ AllAsked
      BY <3>1 DEF PacedStep, ComesOrLeaves, vars, connVars
    <3> QED
      BY <3>2, ConnectPaced
  <2>3. ASSUME NEW c \in Conn, Ask(c) \/ LogOff(c) \/ Finish(c) \/ Die(c), ~UNCHANGED vars
        PROVE  Paced'
    <3>1. ComesOrLeaves => Idle /\ AllAsked
      BY <2>3 DEF PacedStep
    <3>2. ~Die(c)
      BY DEF Die, Calm
    <3> QED
      BY <2>3, <3>1, <3>2, AskPaced, LogOffPaced, FinishPaced
  <2>4. CASE Sigint \/ MainStep
    <3>1. shouldRun /\ mpc \in {"check", "enter", "select", "spawn"}
      BY DEF PacedInv, Paced, MainPaced
    <3>2. ~Sigint /\ ~WakeToExit /\ ~GiveUp /\ ~Release /\ ~Join /\ ~JoinGarbage /\ ~Exit
      BY <3>1 DEF Sigint, WakeToExit, MainStops, GiveUp, Release, Join, JoinGarbage,
                  Exit, InMain, Calm
    <3>5. ~SpawnFails
      BY DEF SpawnFails, Calm
    <3>3. ~AcceptFails
      BY DescriptorsLeft DEF AcceptFails, Pending, Calm
    <3>4. ~SpawnPastTheEnd
      <4>1. mpc = "spawn" => nspawn < MAX_CLIENTS_SIZE /\ threadCounter <= nspawn
        BY PacedTypes, BoundsAssumption DEF Calm, PacedInv, Paced, MainPaced
      <4>2. DOMAIN slots = 0..(MAX_CLIENTS_SIZE - 1)
        BY <1>1 DEF Inv, MainOK
      <4> QED
        BY <4>1, <4>2, PacedTypes, BoundsAssumption DEF SpawnPastTheEnd
    <3> QED
      BY <2>4, <3>2, <3>3, <3>4, <3>5, MainWaits, AcceptPaced, SpawnPaced DEF MainStep
  <2>5. CASE \E k \in Handler : HandlerStep(k)
    BY <1>2, <2>5, TurnMoves
  <2> QED
    BY <1>1, <2>1, <2>2, <2>3, <2>4, <2>5, NoStdin DEF Next
<1> QED
  BY <1>2, <1>3, <1>4 DEF PacedInv

LEMMA PacedInit ==
  ASSUME Init
  PROVE  PacedInv
<1>1. OffInv
  BY OffInit
<1>2. /\ nconn = 0 /\ naccd = 0 /\ nspawn = 0 /\ DOMAIN list = {} /\ 1..0 = {}
      /\ \A c \in Conn : conn[c] = NewConn
      /\ \A f \in Fd : fdtab[f] = None
  BY EmptySeq DEF Init
<1>3. GoneOK /\ OwnersOK
  BY <1>2 DEF GoneOK, OwnersOK, NewConn
<1>4. NewOK /\ TurnOK /\ HandlersPaced /\ ConnsPaced /\ ListPaced /\ FdsPaced
  BY <1>2 DEF NewOK, TurnOK, HandlersPaced, ConnsPaced, ListPaced, FdsPaced
<1>5. MainPaced
  BY <1>2 DEF Init, MainPaced, Counting
<1> QED
  BY <1>1, <1>3, <1>4, <1>5 DEF PacedInv, Paced

\* If the clients come and leave one at a time, nothing goes wrong in the server:
\* none of the undefined steps that the shared acceptedClient (main.c:163), the
\* list without a lock and the descriptors closed under a reader make possible
\* ever happens.  Nothing must fail around it (a killed client, or a malloc that
\* returns NULL, takes the server down by itself), and there must be descriptors,
\* and elements of serverThreads (main.c:25), for all the connections.
THEOREM PacedIsSafe == Calm => (PacedSpec => []OneAtATimeIsSafe)
<1> SUFFICES ASSUME Calm PROVE PacedSpec => []OneAtATimeIsSafe
  OBVIOUS
<1>1. SyncInit => PacedInv
  BY PacedInit DEF SyncInit
<1>2. ASSUME PacedInv, [PacedNext]_syncVars PROVE PacedInv'
  <2>1. [SyncNext]_syncVars
    BY <1>2 DEF PacedNext
  <2>2. [Next]_vars
    BY <2>1, StepOfServer
  <2>3. PacedStep
    BY <1>2, <2>2 DEF PacedNext, PacedStep, syncVars
  <2> QED
    BY <1>2, <2>3, PacedKeeps
<1>3. PacedInv => OneAtATimeIsSafe
  BY DEF PacedInv, Paced, MainPaced, OneAtATimeIsSafe
<1> QED
  BY <1>1, <1>2, <1>3, PTL DEF PacedSpec

-----------------------------------------------------------------------------
(* The lists of the clients.                                                 *)

\* The request of connection c that its handler has in its hands.
Hands(c) == IF c <= nspawn /\ h[c].pc \in Handling THEN h[c].msg.type ELSE "none"

\* How far a client is, and what of its requests is still to be dealt with.
Script(c) ==
    /\ conn[c].st = "on" =>
          \/ conn[c].reqs = <<"LOG_ON">> /\ Hands(c) = "none"
          \/ conn[c].reqs = <<>> /\ Hands(c) \in {"LOG_ON", "none"}
    /\ conn[c].st = "asked" =>
          \/ conn[c].reqs = <<"LOG_ON", "GET_CLIENTS">> /\ Hands(c) = "none"
          \/ conn[c].reqs = <<"GET_CLIENTS">> /\ Hands(c) \in {"LOG_ON", "none"}
          \/ conn[c].reqs = <<>> /\ Hands(c) \in {"GET_CLIENTS", "none"}

\* A client that has no answer yet.
Fresh(c) == \/ conn[c].st = "on"
            \/ conn[c].st = "asked" /\ (conn[c].reqs # <<>> \/ Hands(c) = "GET_CLIENTS")

\* The walk of a handler with locals l has still to come to the node of c.
Ahead(l, c) == \/ l.pc = "head"
               \/ /\ l.pc = "walk"
                  /\ \E p \in PositionOf(l.it) : \E i \in DOMAIN list :
                        p <= i /\ list[i].from = c

\* Handler k has put its client into the list, and not told c so; or has told c
\* that its client is leaving, and not taken it out of the list.
Without(k, c) ==
    \/ h[k].msg.type = "LOG_ON" /\ Ahead(h[k], c)
    \/ /\ h[k].msg.type = "LOG_OFF" /\ h[k].pc \in {"walk", "close", "remove"}
       /\ ~Ahead(h[k], c)

\* What the list of c is, or is becoming.
Agreed(c) == \A t \in Client :
    t \in Foreseen(c) <=> /\ t \in ListedTuples /\ t # Tuple(c)
                          /\ \A k \in 1..nspawn : Without(k, c) => t # Tuple(k)

\* The answer that handler k puts together: n nodes are in it.
Collected(k, n) == /\ reply[k].count = Len(list) /\ Len(reply[k].tuples) = n
                   /\ \A i \in 1..n : reply[k].tuples[i] = Tuple(list[i].from)
ReplyPaced(k) ==
    /\ h[k].pc = "walk" /\ Asking(k) => \E p \in PositionOf(h[k].it) : Collected(k, p - 1)
    /\ h[k].pc = "reply" => Asking(k) /\ Collected(k, Len(list))
    /\ ~(h[k].pc = "walk" /\ Asking(k)) /\ h[k].pc # "reply" => reply[k].tuples = <<>>

Letters == [type : {"USER_ON", "USER_OFF", "CLIENT_LIST"}, count : Nat,
            tuples : Seq(Client)]
SyncTypes ==
    /\ \A c \in 1..nconn : Tuple(c) \in Client
    /\ inbox \in [Conn -> Seq(Letters)]
    /\ view \in [Conn -> SUBSET Client]
    /\ reply \in [Handler -> [count : Nat, tuples : Seq(Client)]]

UnmadeOK == \A c \in Conn : c > nconn => inbox[c] = <<>> /\ view[c] = {}
SoundOK == ~misled /\ \A c \in Conn : \A i \in DOMAIN inbox[c] : ~Misleads(inbox[c][i])
ScriptOK == \A c \in 1..nconn : Script(c)
FreshOK == \A c \in 1..nconn : Fresh(c) => Foreseen(c) = {}
AgreedOK == \A c \in 1..nconn : conn[c].st = "asked" /\ ~Fresh(c) => Agreed(c)
RepliesOK == \A k \in Handler : ReplyPaced(k)

AgreeInv == /\ PacedInv /\ SyncTypes /\ UnmadeOK /\ SoundOK
            /\ ScriptOK /\ FreshOK /\ AgreedOK /\ RepliesOK

-----------------------------------------------------------------------------
(* What a message does to what a client will have listed.                    *)

LEMMA EffectIsPointwise ==
  ASSUME NEW c, NEW v, NEW t, NEW m, m.type \in {"USER_ON", "USER_OFF", "CLIENT_LIST"}
  PROVE  t \in Effect(Tuple(c), v, m) <=> Adds(c, m, t) \/ (t \in v /\ ~Removes(c, m, t))
BY DEF Effect, Adds, Removes

LEMMA AddedIsNotRemoved ==
  ASSUME NEW c, NEW t, NEW m, m.type \in {"USER_ON", "USER_OFF", "CLIENT_LIST"},
         Adds(c, m, t)
  PROVE  ~Removes(c, m, t)
BY DEF Effect, Adds, Removes

LEMMA OfOne ==
  ASSUME NEW c, NEW s \in Client, NEW t
  PROVE  /\ Adds(c, UserOn(s), t) <=> t = s
         /\ ~Removes(c, UserOn(s), t)
         /\ ~Adds(c, UserOff(s), t)
         /\ Removes(c, UserOff(s), t) <=> t = s
         /\ UserOn(s) \in Letters /\ ~Misleads(UserOn(s))
         /\ UserOff(s) \in Letters /\ ~Misleads(UserOff(s))
<1>1. /\ DOMAIN <<s>> = {1} /\ <<s>>[1] = s /\ Len(<<s>>) = 1 /\ <<s>> # <<>>
      /\ <<s>> \in Seq(Client)
  OBVIOUS
<1>2. Named(UserOn(s)) = {s} /\ Named(UserOff(s)) = {s}
  BY <1>1 DEF Named, UserOn, UserOff
<1> QED
  BY <1>1, <1>2 DEF Adds, Removes, Effect, UserOn, UserOff, Letters, Misleads

\* t is one of them.
Among(t, ts) == \E i \in 1..Len(ts) : ts[i] = t

LEMMA OfAll ==
  ASSUME NEW c, NEW ts \in Seq(Client), ts # <<>>, NEW t
  PROVE  /\ Adds(c, ClientList(Len(ts), ts), t) <=> Among(t, ts) /\ t # Tuple(c)
         /\ ~Removes(c, ClientList(Len(ts), ts), t)
         /\ ClientList(Len(ts), ts) \in Letters /\ ~Misleads(ClientList(Len(ts), ts))
<1>1. DOMAIN ts = 1..Len(ts) /\ Len(ts) \in Nat
  BY LenProperties
<1>2. Named(ClientList(Len(ts), ts)) = {ts[i] : i \in 1..Len(ts)}
  BY <1>1 DEF Named, ClientList
<1> QED
  BY <1>1, <1>2 DEF Adds, Removes, Effect, ClientList, Letters, Misleads, Among

\* Nothing on its way to a client, and nothing taken by it.
LEMMA ForeseenStays ==
  ASSUME NEW c, inbox'[c] = inbox[c], view'[c] = view[c], conn'[c].who = conn[c].who
  PROVE  Foreseen(c)' = Foreseen(c)
BY DEF Foreseen, Adds, Removes, Tuple

\* A message is sent to it.
LEMMA ForeseenSent ==
  ASSUME SyncTypes, NEW c \in Conn, NEW m \in Letters,
         inbox'[c] = Append(inbox[c], m), view'[c] = view[c], conn'[c].who = conn[c].who,
         NEW t \in Client
  PROVE  t \in Foreseen(c)' <=> Adds(c, m, t) \/ (t \in Foreseen(c) /\ ~Removes(c, m, t))
<1> PICK n \in Nat : n = Len(inbox[c]) + 1
  BY LenProperties DEF SyncTypes
<1>1. /\ DOMAIN inbox[c] = 1..(n - 1) /\ DOMAIN inbox'[c] = 1..n /\ inbox'[c][n] = m
      /\ \A i \in 1..(n - 1) : inbox'[c][i] = inbox[c][i]
      /\ n \in 1..n /\ 1..(n - 1) \subseteq 1..n
      /\ \A i \in 1..n : i = n \/ i \in 1..(n - 1)
      /\ \A i \in 1..(n - 1) : n > i
  <2>1. inbox[c] \in Seq(Letters)
    BY DEF SyncTypes
  <2> QED
    BY <2>1
<1>2. \A x, y : (Adds(c, x, y)' <=> Adds(c, x, y)) /\ (Removes(c, x, y)' <=> Removes(c, x, y))
  BY DEF Adds, Removes, Tuple
<1>3. m.type \in {"USER_ON", "USER_OFF", "CLIENT_LIST"}
  BY DEF Letters
<1>4. Adds(c, m, t) => ~Removes(c, m, t)
  BY <1>3, AddedIsNotRemoved
<1>5. t \in Foreseen(c)' <=>
         \/ /\ t \in view[c]
            /\ \A j \in 1..n : ~Removes(c, inbox'[c][j], t)
         \/ \E i \in 1..n : /\ Adds(c, inbox'[c][i], t)
                            /\ \A j \in 1..n : j > i => ~Removes(c, inbox'[c][j], t)
  BY <1>1, <1>2 DEF Foreseen, Adds, Removes, Tuple
<1>6. t \in Foreseen(c) <=>
         \/ /\ t \in view[c]
            /\ \A j \in 1..(n - 1) : ~Removes(c, inbox[c][j], t)
         \/ \E i \in 1..(n - 1) : /\ Adds(c, inbox[c][i], t)
                                  /\ \A j \in 1..(n - 1) :
                                        j > i => ~Removes(c, inbox[c][j], t)
  BY <1>1 DEF Foreseen
<1>7. CASE Adds(c, m, t)
  <2>1. \A j \in 1..n : j > n => FALSE
    OBVIOUS
  <2> QED
    BY <1>1, <1>5, <1>7, <2>1
<1>8. CASE ~Adds(c, m, t) /\ Removes(c, m, t)
  BY <1>1, <1>5, <1>8
<1>9. CASE ~Adds(c, m, t) /\ ~Removes(c, m, t)
  BY <1>1, <1>5, <1>6, <1>9
<1> QED
  BY <1>4, <1>7, <1>8, <1>9

\* It takes the message that is next.
LEMMA ForeseenTaken ==
  ASSUME SyncTypes, NEW c \in Conn, Take(c), NEW t \in Client
  PROVE  t \in Foreseen(c)' <=> t \in Foreseen(c)
<1> PICK n \in Nat : n = Len(inbox[c]) - 1
  <2>1. inbox[c] \in Seq(Letters) /\ inbox[c] # <<>>
    BY DEF SyncTypes, Take
  <2> QED
    BY <2>1
<1>1. /\ inbox[c] \in Seq(Letters) /\ inbox[c] # <<>> /\ inbox'[c] = Tail(inbox[c])
      /\ view'[c] = Effect(Tuple(c), view[c], inbox[c][1]) /\ conn' = conn
  BY DEF SyncTypes, Take, vars, connVars
<1>2. /\ DOMAIN inbox[c] = 1..(n + 1) /\ DOMAIN inbox'[c] = 1..n
      /\ \A i \in 1..n : inbox'[c][i] = inbox[c][i + 1]
      /\ \A i \in 1..n : i + 1 \in 1..(n + 1) /\ i + 1 # 1
      /\ \A i \in 1..(n + 1) : i = 1 \/ \E j \in 1..n : i = j + 1
      /\ 1 \in 1..(n + 1)
      /\ \A i, j \in 1..n : i > j <=> i + 1 > j + 1
      /\ \A i \in 1..n : i + 1 > 1 /\ ~(1 > i + 1)
  <2>1. \A i \in 1..(n + 1) : i = 1 \/ (i - 1 \in 1..n /\ i = (i - 1) + 1)
    OBVIOUS
  <2> QED
    BY <1>1, <2>1
<1>3. inbox[c][1] \in Letters /\ inbox[c][1].type \in {"USER_ON", "USER_OFF", "CLIENT_LIST"}
  <2>1. inbox[c][1] \in Letters
    BY <1>1, <1>2, ElementOfSeq
  <2> QED
    BY <2>1 DEF Letters
<1>4. t \in view'[c] <=> Adds(c, inbox[c][1], t) \/ (t \in view[c] /\ ~Removes(c, inbox[c][1], t))
  BY <1>1, <1>3, EffectIsPointwise
<1>5. \A x, y : (Adds(c, x, y)' <=> Adds(c, x, y)) /\ (Removes(c, x, y)' <=> Removes(c, x, y))
  BY <1>1 DEF Adds, Removes, Tuple
<1> DEFINE A0(i) == Adds(c, inbox[c][i], t)
           R0(i) == Removes(c, inbox[c][i], t)
           A1(i) == Adds(c, inbox'[c][i], t)
           R1(i) == Removes(c, inbox'[c][i], t)
<1>6. \A i \in 1..n : (A1(i) <=> A0(i + 1)) /\ (R1(i) <=> R0(i + 1))
  BY <1>2
<1>7. t \in Foreseen(c)' <=>
         \/ t \in view'[c] /\ \A j \in 1..n : ~R1(j)
         \/ \E i \in 1..n : A1(i) /\ \A j \in 1..n : j > i => ~R1(j)
  BY <1>2, <1>5 DEF Foreseen
<1>8. t \in Foreseen(c) <=>
         \/ t \in view[c] /\ \A j \in 1..(n + 1) : ~R0(j)
         \/ \E i \in 1..(n + 1) : A0(i) /\ \A j \in 1..(n + 1) : j > i => ~R0(j)
  BY <1>2 DEF Foreseen
<1>9. t \in view'[c] <=> A0(1) \/ (t \in view[c] /\ ~R0(1))
  BY <1>4
<1> HIDE DEF A0, R0, A1, R1
<1>0. /\ 1 \in 1..(n + 1) /\ ~(1 > 1)
      /\ \A i \in 1..n : i + 1 \in 1..(n + 1) /\ i + 1 > 1 /\ ~(1 > i + 1)
      /\ \A i \in 1..(n + 1) : i = 1 \/ \E j \in 1..n : i = j + 1
      /\ \A i, j \in 1..n : j > i <=> j + 1 > i + 1
  BY <1>2
<1> DEFINE Kept == \A j \in 1..n : ~R0(j + 1)
           From(i) == \A j \in 1..(n + 1) : j > i => ~R0(j)
<1>10. (\A j \in 1..(n + 1) : ~R0(j)) <=> ~R0(1) /\ Kept
  BY <1>0
<1>11. From(1) <=> Kept
  BY <1>0
<1>12. ASSUME NEW i \in 1..n
       PROVE  From(i + 1) <=> \A j \in 1..n : j > i => ~R1(j)
  <2>1. ASSUME From(i + 1), NEW j \in 1..n, j > i PROVE ~R1(j)
    <3>1. j + 1 \in 1..(n + 1) /\ j + 1 > i + 1
      BY <1>0, <2>1
    <3> QED
      BY <1>6, <2>1, <3>1
  <2>2. ASSUME \A j \in 1..n : j > i => ~R1(j), NEW m \in 1..(n + 1), m > i + 1
        PROVE  ~R0(m)
    <3>1. PICK j \in 1..n : m = j + 1
      BY <1>0, <2>2
    <3> QED
      BY <1>0, <1>6, <2>2, <3>1
  <2> QED
    BY <2>1, <2>2
<1>13. (\E i \in 1..(n + 1) : A0(i) /\ From(i)) <=>
          (A0(1) /\ From(1)) \/ \E i \in 1..n : A1(i) /\ From(i + 1)
  <2> HIDE DEF From
  <2>1. ASSUME NEW m \in 1..(n + 1), A0(m) /\ From(m)
        PROVE  (A0(1) /\ From(1)) \/ \E i \in 1..n : A1(i) /\ From(i + 1)
    <3>1. CASE m = 1
      BY <2>1, <3>1
    <3>2. ASSUME NEW i \in 1..n, m = i + 1
          PROVE  A1(i) /\ From(i + 1)
      <4>1. A0(i + 1) /\ From(i + 1)
        BY <2>1, <3>2, Zenon
      <4> QED
        BY <1>6, <4>1
    <3> QED
      BY <1>0, <3>1, <3>2
  <2>2. ASSUME NEW i \in 1..n, A1(i) /\ From(i + 1)
        PROVE  \E m \in 1..(n + 1) : A0(m) /\ From(m)
    BY <1>0, <1>6, <2>2
  <2> QED
    BY <1>0, <2>1, <2>2
<1>14. (\A j \in 1..n : ~R1(j)) <=> Kept
  BY <1>6
<1>15. t \in Foreseen(c) <=>
          \/ t \in view[c] /\ ~R0(1) /\ Kept
          \/ A0(1) /\ Kept
          \/ \E i \in 1..n : A1(i) /\ From(i + 1)
  BY <1>8, <1>10, <1>11, <1>13
<1>16. t \in Foreseen(c)' <=>
          \/ (A0(1) \/ (t \in view[c] /\ ~R0(1))) /\ Kept
          \/ \E i \in 1..n : A1(i) /\ From(i + 1)
  BY <1>7, <1>9, <1>12, <1>14
<1> QED
  BY <1>15, <1>16

-----------------------------------------------------------------------------
(* Who has been answered, and what keeps the lists apart.                    *)

\* The client of c has its answer, or the answer is on its way to it.
Settled(c) == conn[c].st = "asked" /\ ~Fresh(c)

LEMMA ListFacts ==
  ASSUME PacedInv, SyncTypes
  PROVE  /\ \A i \in DOMAIN list : /\ list[i].from \in 1..nspawn /\ list[i].from \in 1..nconn
                                   /\ list[i].from \in Conn
                                   /\ Tuple(list[i].from) \in Client
         /\ \A i, j \in DOMAIN list : Tuple(list[i].from) = Tuple(list[j].from) => i = j
         /\ ListedTuples \subseteq Client
<1>1. \A i \in DOMAIN list : list[i].from \in Conn /\ list[i].from <= nspawn
  BY NodesOfConns, PacedTypes DEF PacedInv, Paced, ListPaced, NodePaced
<1>2. \A i \in DOMAIN list : list[i].from \in 1..nspawn /\ list[i].from \in 1..nconn
  BY <1>1, PacedTypes DEF Conn
<1>3. \A i, j \in DOMAIN list : Tuple(list[i].from) = Tuple(list[j].from) => i = j
  BY DEF Tuple, PacedInv, Paced, ListPaced
<1>4. \A i \in DOMAIN list : Tuple(list[i].from) \in Client
  BY <1>2 DEF SyncTypes
<1> QED
  BY <1>1, <1>2, <1>3, <1>4 DEF ListedTuples

LEMMA SettledIsListed ==
  ASSUME PacedInv, SyncTypes, NEW c \in 1..nconn, Script(c), Settled(c)
  PROVE  conn[c].reqs = <<>> /\ Hands(c) = "none" /\ OnList(c) /\ c \in 1..nspawn
<1>1. conn[c].st = "asked" /\ conn[c].reqs = <<>> /\ Hands(c) # "GET_CLIENTS"
  BY DEF Settled, Fresh
<1>2. <<"LOG_ON", "GET_CLIENTS">> # <<>> /\ <<"GET_CLIENTS">> # <<>>
  OBVIOUS
<1>3. Hands(c) = "none"
  BY <1>1, <1>2 DEF Script
<1>4. ConnPaced(c) /\ ~Unread(c)
  BY <1>1, EmptySeq DEF PacedInv, Paced, ConnsPaced, Unread
<1>5. c <= nspawn => c \in Handler /\ HandlerPaced(c) /\ LabelOK(h[c])
  <2> HAVE c <= nspawn
  <2>1. c \in 1..nspawn /\ c \in Handler
    BY PacedTypes
  <2> QED
    BY <2>1 DEF PacedInv, Paced, HandlersPaced, OffInv, LabelsOK
<1>6. c <= nspawn => h[c].pc # "done" /\ ~LoggingOn(h[c], c)
  BY <1>1, <1>3, <1>5 DEF HandlerPaced, LoggingOn, LabelOK, Hands, Handling
<1>7. OnList(c)
  BY <1>4, <1>6 DEF ConnPaced
<1>8. c \in 1..nspawn
  BY <1>7, ListFacts DEF OnList
<1> QED
  BY <1>1, <1>3, <1>7, <1>8

\* The handlers that wait keep no lists apart, and their clients are answered
\* or leaving.
LEMMA WaitingOnes ==
  ASSUME PacedInv, NEW d, Waits(d)
  PROVE  /\ Hands(d) = "none" /\ ~Fresh(d)
         /\ \A c : ~Without(d, c)
<1>1. conn[d].reqs = <<>> /\ h[d].pc \in {"blocked", "done"} /\ conn[d].st # "on"
  BY DEF Waits, Turn
<1> QED
  BY <1>1 DEF Hands, Handling, Fresh, Without, Ahead

\* When the server is done, all the lists agree.
LEMMA IdleAgrees ==
  ASSUME AgreeInv
  PROVE  ClientsAgree
<1>1. ASSUME Idle, NEW c \in 1..nconn, conn[c].st = "asked"
      PROVE  Foreseen(c) = ListedTuples \ {Tuple(c)}
  <2>1. \A k \in 1..nspawn : h[k].pc \in {"none", "blocked", "done"}
    BY <1>1, PacedTypes DEF Idle, AgreeInv
  <2>2. \A k \in 1..nspawn : ~Without(k, c)
    BY <2>1 DEF Without, Ahead
  <2>3. ~Fresh(c)
    <3>1. c <= nspawn => c \in 1..nspawn
      BY PacedTypes DEF AgreeInv
    <3> QED
      BY <1>1, <2>1, <3>1 DEF Idle, Fresh, Hands, Handling
  <2>4. Agreed(c)
    BY <1>1, <2>3 DEF AgreeInv, AgreedOK
  <2>5. ListedTuples \subseteq Client /\ Foreseen(c) \subseteq Client
    BY ListFacts DEF AgreeInv, Foreseen
  <2> QED
    BY <2>2, <2>4, <2>5 DEF Agreed
<1> QED
  BY <1>1 DEF ClientsAgree, AgreeInv, SoundOK

-----------------------------------------------------------------------------
(* The steps of main and of the clients.                                     *)

\* At most one connection, n, changes; main may create a handler; nothing is
\* sent, nothing taken, and the list stays.
LEMMA OthersAgree ==
  ASSUME AgreeInv, PacedInv', NEW n,
         UNCHANGED <<list, reply, inbox, view, misled>>,
         \A c \in Conn \ {n} : conn'[c] = conn[c],
         nconn' = nconn \/ (nconn' = nconn + 1 /\ n = nconn' /\ n \in Conn),
         nspawn' \in Nat, nspawn <= nspawn', nspawn' <= MaxThread,
         \A k \in Handler : h'[k] = h[k] \/ (k > nspawn /\ h'[k].pc = "start"),
         n \in 1..nconn => /\ conn'[n].who = conn[n].who
                           /\ Fresh(n)' => Fresh(n)
                           /\ Settled(n)' => Settled(n),
         n \in 1..nconn' => /\ Tuple(n)' \in Client /\ Script(n)'
                            /\ n \notin 1..nconn => ~Settled(n)'
  PROVE  AgreeInv'
<1>1. /\ PacedInv /\ SyncTypes /\ UnmadeOK /\ SoundOK
      /\ ScriptOK /\ FreshOK /\ AgreedOK /\ RepliesOK
  BY DEF AgreeInv
<1>2. /\ nconn' \in Nat /\ nconn \in Nat /\ nspawn \in Nat /\ MaxThread \in Nat
      /\ nspawn <= MaxThread /\ 1..nconn \subseteq Conn
      /\ \A c \in 1..nconn' : c \in 1..nconn \/ c = n
  BY <1>1, PacedTypes
<1>2a. /\ 1..nspawn \subseteq Handler /\ 1..nspawn' \subseteq Handler
       /\ 1..nspawn \subseteq 1..nspawn'
  BY <1>2 DEF Handler
<1>3. \A k \in Handler : k > nspawn => h[k].pc = "none" /\ h[k].msg = NoMsg
  BY <1>1 DEF PacedInv, OffInv, SpawnedOK, NewHandler
<1>4. \A c \in 1..nconn : conn'[c].who = conn[c].who /\ Tuple(c)' = Tuple(c)
  BY <1>2 DEF Tuple
<1>5. \A c \in 1..nconn : Foreseen(c)' = Foreseen(c)
  BY <1>4, ForeseenStays
<1>6. ListedTuples' = ListedTuples
  BY <1>1, <1>4, ListFacts DEF ListedTuples
<1>7. ASSUME NEW c \in 1..nconn' PROVE Hands(c)' = Hands(c)
  <2>1. CASE c <= nspawn
    <3>1. c \in 1..nspawn /\ c \in Handler /\ c <= nspawn'
      BY <1>2, <1>2a, <2>1
    <3>2. h'[c] = h[c]
      BY <1>2, <2>1, <3>1
    <3> QED
      BY <2>1, <3>1, <3>2 DEF Hands
  <2>2. CASE c > nspawn
    <3>1. ~(c <= nspawn) /\ (c <= nspawn' => c \in Handler)
      BY <1>2, <1>2a, <2>2
    <3>2. c <= nspawn' => h'[c].pc \in {"none", "start"}
      BY <1>3, <2>2, <3>1
    <3> QED
      BY <3>1, <3>2 DEF Hands, Handling
  <2> QED
    BY <1>2, <2>1, <2>2
<1>8. ASSUME NEW k \in Handler, NEW c
      PROVE  /\ Ahead(h[k], c)' <=> Ahead(h[k], c)
             /\ Without(k, c)' <=> Without(k, c)
             /\ ReplyPaced(k)'
  <2>1. ReplyPaced(k)
    BY <1>1 DEF RepliesOK
  <2>2. CASE h'[k] = h[k]
    <3>1. \A p : PositionOf(p)' = PositionOf(p)
      BY DEF PositionOf
    <3>2. Ahead(h[k], c)' <=> Ahead(h[k], c)
      BY <2>2, <3>1 DEF Ahead
    <3>3. (Asking(k)' <=> Asking(k)) /\ PositionOf(h[k].it)' = PositionOf(h[k].it)
      BY <2>2 DEF Asking, PositionOf
    <3>4. \A p \in 0..Len(list) : Collected(k, p)' <=> Collected(k, p)
      <4>1. \A p \in 0..Len(list) : \A i \in 1..p : i \in DOMAIN list
        BY <1>1, PacedTypes
      <4>2. \A i \in DOMAIN list : Tuple(list[i].from)' = Tuple(list[i].from)
        BY <1>1, <1>4, ListFacts
      <4> QED
        BY <4>1, <4>2 DEF Collected
    <3>5. /\ Len(list) \in 0..Len(list)
          /\ \A p \in PositionOf(h[k].it) : p - 1 \in 0..Len(list)
      BY <1>1, PacedTypes DEF PositionOf
    <3> QED
      BY <2>1, <2>2, <3>2, <3>3, <3>4, <3>5 DEF Without, ReplyPaced
  <2>3. CASE k > nspawn /\ h'[k].pc = "start"
    <3>1. h[k].pc = "none"
      BY <1>3, <2>3
    <3> QED
      BY <2>1, <2>3, <3>1 DEF Ahead, Without, ReplyPaced
  <2> QED
    BY <2>2, <2>3
<1>9. SyncTypes'
  BY <1>1, <1>2, <1>4 DEF SyncTypes
<1>10. UnmadeOK'
  BY <1>1, <1>2, PacedTypes DEF UnmadeOK, Conn
<1>11. SoundOK'
  BY <1>1 DEF SoundOK
<1>12. ScriptOK'
  <2>1. ASSUME NEW c \in 1..nconn, c # n PROVE Script(c)'
    <3>1. c \in 1..nconn' /\ conn'[c] = conn[c] /\ Script(c)
      BY <1>1, <1>2, <2>1 DEF ScriptOK
    <3> QED
      BY <1>7, <3>1 DEF Script
  <2> QED
    BY <1>2, <2>1 DEF ScriptOK
<1>13. ASSUME NEW c \in 1..nconn, c # n
       PROVE  (Fresh(c)' <=> Fresh(c)) /\ (Settled(c)' <=> Settled(c))
  <2>1. c \in 1..nconn' /\ conn'[c] = conn[c]
    BY <1>2, <1>13
  <2> QED
    BY <1>7, <2>1 DEF Fresh, Settled
<1>14. FreshOK'
  <2>1. ASSUME n \in 1..nconn', n \notin 1..nconn PROVE Foreseen(n)' = {}
    <3>1. n \in Conn /\ n > nconn
      BY <1>1, <1>2, <2>1, PacedTypes DEF Conn
    <3>2. inbox[n] = <<>> /\ view[n] = {}
      BY <1>1, <3>1 DEF UnmadeOK
    <3> QED
      BY <3>2, EmptySeq DEF Foreseen
  <2> QED
    BY <1>1, <1>2, <1>5, <1>13, <2>1 DEF FreshOK
<1>15. AgreedOK'
  <2> SUFFICES ASSUME NEW c \in 1..nconn', Settled(c)'
               PROVE  Agreed(c)'
    BY DEF AgreedOK, Settled
  <2>1. c \in 1..nconn /\ Settled(c)
    BY <1>2, <1>13
  <2>2. Agreed(c)
    BY <1>1, <2>1 DEF AgreedOK, Settled
  <2>3. \A k \in 1..nspawn' : Without(k, c)' => k \in 1..nspawn /\ Without(k, c)
    <3>1. \A k \in Handler : k > nspawn => ~Without(k, c)
      BY <1>3 DEF Without, Ahead
    <3> QED
      BY <1>2, <1>2a, <1>8, <3>1
  <2>4. \A k \in 1..nspawn : (Without(k, c)' <=> Without(k, c)) /\ Tuple(k)' = Tuple(k)
                               /\ k \in 1..nspawn'
    BY <1>1, <1>2a, <1>4, <1>8, PacedTypes
  <2>5. Foreseen(c)' = Foreseen(c) /\ Tuple(c)' = Tuple(c)
    BY <1>4, <1>5, <2>1
  <2> QED
    BY <1>6, <2>2, <2>3, <2>4, <2>5 DEF Agreed
<1>16. RepliesOK'
  BY <1>8 DEF RepliesOK
<1> QED
  BY <1>9, <1>10, <1>11, <1>12, <1>14, <1>15, <1>16 DEF AgreeInv

LEMMA NoneIsNoConn ==
  ASSUME NEW m \in Nat
  PROVE  None \notin 1..m
BY DEF None

LEMMA MainAgrees ==
  ASSUME AgreeInv, PacedInv', MainStep, Elsewise
  PROVE  AgreeInv'
<1>1. /\ nspawn \in Nat /\ MaxThread \in Nat /\ nspawn <= MaxThread
      /\ h \in [Handler -> Locals]
  BY PacedTypes DEF AgreeInv
<1>2. ~Release
  BY DEF AgreeInv, PacedInv, Paced, MainPaced, Release, InMain
<1>3. UNCHANGED <<list, reply, inbox, view, misled, conn, nconn>>
  BY <1>2 DEF MainStep, CheckRun, EnterSelect, WakeToExit, Accept, AcceptFails, GiveUp,
              Spawn, SpawnFails, SpawnPastTheEnd, Join, JoinGarbage, Exit, MainGoes,
              MainStops, InMain, Fail, Elsewise, clientVars, listVars, connVars
<1>4. CASE Spawn
  <2>1. /\ nspawn' = nspawn + 1 /\ nspawn < MaxThread
        /\ h' = [h EXCEPT ![nspawn'].pc = "start"]
    BY <1>4 DEF Spawn
  <2> PICK n \in Handler : n = nspawn + 1
    BY <1>1, <2>1 DEF Handler
  <2>2. n > nspawn /\ h'[n].pc = "start" /\ \A k \in Handler : k # n => h'[k] = h[k]
    BY <1>1, <2>1 DEF Locals
  <2>3. nspawn' \in Nat /\ nspawn <= nspawn' /\ nspawn' <= MaxThread
    BY <1>1, <2>1
  <2>4. \A k \in Handler : h'[k] = h[k] \/ (k > nspawn /\ h'[k].pc = "start")
    BY <2>2
  <2> QED
    BY <1>3, <2>3, <2>4, NoneIsNoConn, OthersAgree
<1>5. CASE ~Spawn
  <2>1. UNCHANGED <<nspawn, h>>
    BY <1>2, <1>5 DEF MainStep, CheckRun, EnterSelect, WakeToExit, Accept, AcceptFails,
                      GiveUp, SpawnFails, SpawnPastTheEnd, Join, JoinGarbage, Exit,
                      MainGoes, MainStops, InMain, Fail, threadVars
  <2> QED
    BY <1>1, <1>3, <2>1, NoneIsNoConn, OthersAgree
<1> QED
  BY <1>4, <1>5

LEMMA ConnectAgrees ==
  ASSUME AgreeInv, PacedInv', NEW w \in Client, Connect(w), Elsewise
  PROVE  AgreeInv'
<1>1. PacedInv
  BY DEF AgreeInv
<1>2. nconn < MaxConn /\ nconn' = nconn + 1
  BY DEF Connect
<1> PICK n \in Conn : n = nconn + 1
  BY <1>1, <1>2, PacedTypes DEF Conn
<1>3. /\ UNCHANGED <<list, reply, inbox, view, misled, h, nspawn>>
      /\ \A c \in Conn \ {n} : conn'[c] = conn[c]
      /\ conn'[n].st = "on" /\ conn'[n].reqs = <<"LOG_ON">> /\ conn'[n].who = w
  BY <1>1, <1>2, PacedTypes DEF Connect, Outside, NewConn, Elsewise, clientVars,
     listVars, threadVars
<1>4. /\ n \notin 1..nconn /\ nconn' = n /\ nspawn \in Nat /\ nspawn <= MaxThread
      /\ ~(n <= nspawn)
  BY <1>1, <1>2, PacedTypes
<1>5. Tuple(n)' \in Client /\ Script(n)' /\ ~Settled(n)'
  BY <1>3, <1>4 DEF Tuple, Script, Settled, Hands
<1> QED
  BY <1>2, <1>3, <1>4, <1>5, OthersAgree

LEMMA AppendedToOne ==
  ASSUME NEW a, NEW b
  PROVE  Append(<<a>>, b) = <<a, b>>
<1> DEFINE S == {a, b}
<1>1. <<a>> \in Seq(S) /\ <<a, b>> \in Seq(S) /\ b \in S
  OBVIOUS
<1>2. /\ Len(<<a>>) = 1 /\ Len(<<a, b>>) = 2
      /\ <<a>>[1] = a /\ <<a, b>>[1] = a /\ <<a, b>>[2] = b
  OBVIOUS
<1> HIDE DEF S
<1>3. PICK s \in Seq(S) : s = <<a>>
  BY <1>1
<1>4. PICK t \in Seq(S) : t = <<a, b>>
  BY <1>1
<1>5. PICK u : u = Append(s, b)
  OBVIOUS
<1>6. u \in Seq(S) /\ Len(u) = 2 /\ u[1] = a /\ u[2] = b
  <2>1. Len(s) = 1 /\ s[1] = a
    BY <1>2, <1>3
  <2>2. /\ u \in Seq(S) /\ Len(u) = Len(s) + 1 /\ u[Len(s) + 1] = b
        /\ \A i \in 1..Len(s) : u[i] = s[i]
    BY <1>1, <1>5, AppendProperties
  <2> QED
    BY <2>1, <2>2
<1>7. Len(t) = 2 /\ t[1] = a /\ t[2] = b
  BY <1>2, <1>4
<1>8. \A i \in 1..Len(u) : u[i] = t[i]
  <2>1. \A i \in 1..2 : i = 1 \/ i = 2
    OBVIOUS
  <2> QED
    BY <1>6, <1>7, <2>1
<1>9. u = t
  BY <1>6, <1>7, <1>8, SeqEqual
<1> QED
  BY <1>3, <1>4, <1>5, <1>9, Zenon

\* A client asks, logs off, or ends.
LEMMA ClientAgrees ==
  ASSUME AgreeInv, PacedInv', NEW n \in Conn, Ask(n) \/ LogOff(n) \/ Finish(n), Elsewise
  PROVE  AgreeInv'
<1>1. PacedInv /\ ScriptOK /\ SyncTypes
  BY DEF AgreeInv
<1>2. conn \in [Conn -> Connections] /\ nspawn \in Nat /\ nspawn <= MaxThread
  BY <1>1, PacedTypes
<1>3. /\ UNCHANGED <<list, reply, inbox, view, misled, h, nspawn, nconn>>
      /\ \A c \in Conn \ {n} : conn'[c] = conn[c]
      /\ conn'[n].who = conn[n].who
  BY <1>2 DEF Ask, LogOff, Request, Finish, Outside, Elsewise, clientVars, listVars,
              threadVars, Connections
<1>4. conn[n].st # "none"
  BY DEF Ask, LogOff, Request, Finish
<1>5. n \in 1..nconn
  BY <1>1, <1>4, MadeConn
<1>6. Script(n) /\ Tuple(n)' \in Client
  BY <1>1, <1>3, <1>5 DEF ScriptOK, SyncTypes, Tuple
<1>7. Hands(n)' = Hands(n)
  BY <1>3 DEF Hands
<1>8. CASE Ask(n)
  <2>1. /\ conn[n].st = "on" /\ conn'[n].st = "asked"
        /\ conn'[n].reqs = Append(conn[n].reqs, "GET_CLIENTS")
    BY <1>2, <1>8 DEF Ask, Request, Connections
  <2>2. /\ Append(<<"LOG_ON">>, "GET_CLIENTS") = <<"LOG_ON", "GET_CLIENTS">>
        /\ Append(<<>>, "GET_CLIENTS") = <<"GET_CLIENTS">>
        /\ <<"LOG_ON", "GET_CLIENTS">> # <<>> /\ <<"GET_CLIENTS">> # <<>>
    <3>1. Append(<<"LOG_ON">>, "GET_CLIENTS") = <<"LOG_ON", "GET_CLIENTS">>
      BY AppendedToOne
    <3> QED
      BY <3>1
  <2>3. Script(n)' /\ Fresh(n) /\ Fresh(n)' /\ ~Settled(n)'
    BY <1>6, <1>7, <2>1, <2>2 DEF Script, Fresh, Settled
  <2> QED
    BY <1>2, <1>3, <1>5, <1>6, <2>3, OthersAgree
<1>9. CASE LogOff(n) \/ Finish(n)
  <2>1. conn'[n].st \in {"off", "gone"}
    BY <1>2, <1>9 DEF LogOff, Finish, Request, Connections
  <2>2. Script(n)' /\ ~Fresh(n)' /\ ~Settled(n)'
    BY <2>1 DEF Script, Fresh, Settled
  <2> QED
    BY <1>2, <1>3, <1>5, <1>6, <2>2, OthersAgree
<1> QED
  BY <1>8, <1>9

\* A client takes a message.
LEMMA TakeAgrees ==
  ASSUME AgreeInv, PacedInv', NEW c \in Conn, Take(c)
  PROVE  AgreeInv'
<1>1. /\ PacedInv /\ SyncTypes /\ UnmadeOK /\ SoundOK
      /\ ScriptOK /\ FreshOK /\ AgreedOK /\ RepliesOK
  BY DEF AgreeInv
<1>2. /\ UNCHANGED <<list, reply, h, conn, nspawn, nconn>>
      /\ inbox \in [Conn -> Seq(Letters)] /\ view \in [Conn -> SUBSET Client]
      /\ inbox[c] # <<>> /\ inbox'[c] = Tail(inbox[c])
      /\ view'[c] = Effect(Tuple(c), view[c], inbox[c][1])
      /\ misled' = (misled \/ Misleads(inbox[c][1]))
      /\ inbox' = [inbox EXCEPT ![c] = inbox'[c]] /\ view' = [view EXCEPT ![c] = view'[c]]
      /\ \A d \in Conn \ {c} : inbox'[d] = inbox[d] /\ view'[d] = view[d]
  BY <1>1 DEF Take, SyncTypes, vars, threadVars, listVars, connVars
<1>3. /\ inbox'[c] \in Seq(Letters)
      /\ \A i \in DOMAIN inbox'[c] : \E j \in DOMAIN inbox[c] : inbox'[c][i] = inbox[c][j]
      /\ 1 \in DOMAIN inbox[c] /\ inbox[c][1] \in Letters
  <2>1. inbox[c] \in Seq(Letters)
    BY <1>2
  <2> QED
    BY <1>2, <2>1
<1>4. \A d \in Conn : Foreseen(d)' = Foreseen(d)
  <2>1. \A d \in Conn \ {c} : Foreseen(d)' = Foreseen(d)
    BY <1>2, ForeseenStays
  <2>2. \A t \in Client : t \in Foreseen(c)' <=> t \in Foreseen(c)
    BY <1>1, ForeseenTaken
  <2>3. Foreseen(c) \subseteq Client /\ Foreseen(c)' \subseteq Client
    BY DEF Foreseen
  <2> QED
    BY <2>1, <2>2, <2>3
<1>5. view'[c] \in SUBSET Client
  <2>1. inbox[c][1].type \in {"USER_ON", "USER_OFF", "CLIENT_LIST"}
    BY <1>3 DEF Letters
  <2>2. Named(inbox[c][1]) \subseteq Client
    <3>1. inbox[c][1].tuples \in Seq(Client)
      BY <1>3 DEF Letters
    <3> QED
      BY <3>1, ElementOfSeq, LenProperties DEF Named
  <2> QED
    BY <1>2, <2>1, <2>2 DEF Effect
<1>6. SyncTypes'
  BY <1>1, <1>2, <1>3, <1>5 DEF SyncTypes, Tuple
<1>7. UnmadeOK'
  BY <1>1, <1>2 DEF UnmadeOK
<1>8. SoundOK'
  <2>1. ~misled'
    BY <1>1, <1>2, <1>3 DEF SoundOK
  <2>2. \A i \in DOMAIN inbox'[c] : ~Misleads(inbox'[c][i])
    BY <1>1, <1>3 DEF SoundOK
  <2>3. \A d \in Conn \ {c} : \A i \in DOMAIN inbox'[d] : ~Misleads(inbox'[d][i])
    BY <1>1, <1>2 DEF SoundOK
  <2> QED
    BY <2>1, <2>2, <2>3 DEF SoundOK
<1>9. \A d : Hands(d)' = Hands(d) /\ Tuple(d)' = Tuple(d)
  BY <1>2 DEF Hands, Tuple
<1>10. ScriptOK'
  BY <1>1, <1>2, <1>9 DEF ScriptOK, Script
<1>11. FreshOK'
  <2>1. 1..nconn \subseteq Conn
    BY <1>1, PacedTypes
  <2>2. \A d \in 1..nconn : Fresh(d)' <=> Fresh(d)
    BY <1>2, <1>9, <2>1 DEF Fresh
  <2> QED
    BY <1>1, <1>2, <1>4, <2>1, <2>2 DEF FreshOK
<1>12. AgreedOK'
  <2>1. \A k, d : Without(k, d)' <=> Without(k, d)
    BY <1>2 DEF Without, Ahead, PositionOf
  <2>2. ListedTuples' = ListedTuples
    BY <1>2, <1>9 DEF ListedTuples
  <2> SUFFICES ASSUME NEW d \in 1..nconn, conn[d].st = "asked", ~Fresh(d)
               PROVE  Agreed(d)'
    BY <1>2, <1>9 DEF AgreedOK, Fresh
  <2>3. Agreed(d) /\ Foreseen(d)' = Foreseen(d)
    BY <1>1, <1>4, PacedTypes DEF AgreedOK
  <2> QED
    BY <1>2, <1>9, <2>1, <2>2, <2>3 DEF Agreed
<1>13. RepliesOK'
  <2> SUFFICES ASSUME NEW k \in Handler
               PROVE  ReplyPaced(k)'
    BY DEF RepliesOK
  <2>1. ReplyPaced(k)
    BY <1>1 DEF RepliesOK
  <2>2. \A n : Collected(k, n)' <=> Collected(k, n)
    BY <1>2 DEF Collected, Tuple
  <2>3. (Asking(k)' <=> Asking(k)) /\ PositionOf(h[k].it)' = PositionOf(h[k].it)
    BY <1>2 DEF Asking, PositionOf
  <2> QED
    BY <1>2, <2>1, <2>2, <2>3 DEF ReplyPaced
<1> QED
  BY <1>6, <1>7, <1>8, <1>10, <1>11, <1>12, <1>13 DEF AgreeInv

-----------------------------------------------------------------------------
(* The steps of the handler whose turn it is.                                *)

\* What is left of a client's requests when the first is taken.
LEMMA RequestTaken ==
  /\ Tail(<<"LOG_ON">>) = <<>> /\ Tail(<<"GET_CLIENTS">>) = <<>>
  /\ Tail(<<"LOG_ON", "GET_CLIENTS">>) = <<"GET_CLIENTS">>
  /\ Head(<<"LOG_ON">>) = "LOG_ON" /\ Head(<<"GET_CLIENTS">>) = "GET_CLIENTS"
  /\ Head(<<"LOG_ON", "GET_CLIENTS">>) = "LOG_ON"
  /\ <<"LOG_ON">> # <<>> /\ <<"GET_CLIENTS">> # <<>>
  /\ <<"LOG_ON", "GET_CLIENTS">> # <<>>
<1>1. Tail(<<"LOG_ON", "GET_CLIENTS">>) = <<"GET_CLIENTS">>
  OBVIOUS
<1> QED
  BY <1>1

\* Only handler k keeps the lists apart.
AgreedBut(c, k) == \A t \in Client :
    t \in Foreseen(c) <=> /\ t \in ListedTuples /\ t # Tuple(c)
                          /\ Without(k, c) => t # Tuple(k)

LEMMA OneApart ==
  ASSUME NEW k \in 1..nspawn, \A d \in 1..nspawn : d # k => h[d].pc \in {"blocked", "done"},
         NEW c
  PROVE  Agreed(c) <=> AgreedBut(c, k)
<1>1. \A d \in 1..nspawn : d # k => ~Without(d, c)
  BY DEF Without, Ahead
<1> QED
  BY <1>1 DEF Agreed, AgreedBut

LEMMA OneApartNext ==
  ASSUME nspawn' = nspawn, NEW k \in 1..nspawn, NEW c,
         \A d \in 1..nspawn : d # k => h'[d].pc \in {"blocked", "done"}
  PROVE  Agreed(c)' <=> AgreedBut(c, k)'
<1>1. \A d \in 1..nspawn : d # k => ~Without(d, c)'
  BY DEF Without, Ahead
<1> QED
  BY <1>1 DEF Agreed, AgreedBut

\* What the handler has in its hands, and what its client's requests are, when
\* it takes none, takes one, or is done with one.
Goes(k) == Hands(k)' = Hands(k) /\ conn'[k].reqs = conn[k].reqs
TakesOne(k) == /\ Hands(k) = "none" /\ conn[k].reqs # <<>>
             /\ Hands(k)' = Head(conn[k].reqs) /\ conn'[k].reqs = Tail(conn[k].reqs)
Ends(k) == Hands(k)' = "none" /\ conn'[k].reqs = conn[k].reqs

LEMMA ScriptGoesOn ==
  ASSUME NEW k, Script(k), conn'[k].st = conn[k].st, Goes(k) \/ TakesOne(k) \/ Ends(k)
  PROVE  /\ Script(k)'
         /\ Fresh(k)' => Fresh(k)
         /\ Settled(k)' /\ (Goes(k) \/ TakesOne(k)) => Settled(k)
         /\ Settled(k)' => Settled(k) \/ Hands(k) = "GET_CLIENTS"
<1>1. CASE Goes(k)
  BY <1>1 DEF Goes, Script, Fresh, Settled
<1>2. CASE TakesOne(k)
  BY <1>2, RequestTaken DEF TakesOne, Script, Fresh, Settled
<1>3. ASSUME Ends(k)
      PROVE  /\ Script(k)'
             /\ Fresh(k)' => Fresh(k)
             /\ Settled(k)' => Settled(k) \/ Hands(k) = "GET_CLIENTS"
  BY <1>3, RequestTaken DEF Ends, Script, Fresh, Settled
<1> QED
  BY <1>1, <1>2, <1>3

LEMMA TurnAgrees ==
  ASSUME AgreeInv, PacedInv', NEW k \in 1..nspawn, Turn(k),
         UNCHANGED <<nspawn, nconn, view, misled>>,
         \A d \in Handler \ {k} : h'[d] = h[d] /\ reply'[d] = reply[d],
         \A c \in Conn \ {k} : conn'[c] = conn[c],
         conn'[k].st = conn[k].st /\ conn'[k].who = conn[k].who,
         Goes(k) \/ TakesOne(k) \/ Ends(k),
         inbox' \in [Conn -> Seq(Letters)],
         reply' \in [Handler -> [count : Nat, tuples : Seq(Client)]],
         \A c \in Conn : inbox'[c] # inbox[c] =>
            c \in 1..nconn /\ \E m \in Letters : ~Misleads(m) /\ inbox'[c] = Append(inbox[c], m),
         Fresh(k)' => inbox'[k] = inbox[k],
         ReplyPaced(k)',
         \A c \in 1..nconn : Settled(c)' => AgreedBut(c, k)'
  PROVE  AgreeInv'
<1>1. /\ PacedInv /\ SyncTypes /\ UnmadeOK /\ SoundOK
      /\ ScriptOK /\ FreshOK /\ AgreedOK /\ RepliesOK
  BY DEF AgreeInv
<1>2. /\ nconn = nspawn /\ k \in Handler /\ k \in Conn /\ 1..nspawn \subseteq Handler
      /\ 1..nspawn \subseteq Conn /\ 1..nspawn = 1..nconn
  BY <1>1, OthersWait, PacedTypes
<1>3. \A d \in 1..nspawn : d # k => Waits(d) /\ h'[d] = h[d] /\ conn'[d] = conn[d]
  BY <1>1, <1>2, OthersWait
<1>4. \A c \in Conn : Tuple(c)' = Tuple(c)
  BY DEF Tuple
<1>5. SyncTypes'
  BY <1>1, <1>2, <1>4 DEF SyncTypes
<1>6. UnmadeOK'
  <2> SUFFICES ASSUME NEW c \in Conn, c > nconn
               PROVE  inbox'[c] = <<>> /\ view[c] = {}
    BY DEF UnmadeOK
  <2>1. c \notin 1..nconn
    BY <1>1, PacedTypes
  <2> QED
    BY <1>1, <2>1 DEF UnmadeOK
<1>7. SoundOK'
  <2>1. ~misled'
    BY <1>1 DEF SoundOK
  <2>2. ASSUME NEW c \in Conn, NEW m \in Letters, ~Misleads(m), inbox'[c] = Append(inbox[c], m)
        PROVE  \A i \in DOMAIN inbox'[c] : ~Misleads(inbox'[c][i])
    <3>1. inbox[c] \in Seq(Letters) /\ \A i \in DOMAIN inbox[c] : ~Misleads(inbox[c][i])
      BY <1>1 DEF SyncTypes, SoundOK
    <3>2. \A i \in DOMAIN inbox'[c] : \/ inbox'[c][i] = m
                                      \/ i \in DOMAIN inbox[c] /\ inbox'[c][i] = inbox[c][i]
      <4> DEFINE s == inbox[c]
                 u == inbox'[c]
      <4> PICK n \in Nat : n = Len(s) + 1
        BY <3>1
      <4>1. /\ DOMAIN s = 1..(n - 1) /\ DOMAIN u = 1..n /\ u[n] = m
            /\ \A i \in 1..(n - 1) : u[i] = s[i]
        BY <2>2, <3>1
      <4>2. \A i \in 1..n : i = n \/ i \in 1..(n - 1)
        OBVIOUS
      <4> HIDE DEF s, u
      <4>3. \A i \in DOMAIN u : u[i] = m \/ (i \in DOMAIN s /\ u[i] = s[i])
        BY <4>1, <4>2
      <4> QED
        BY <4>3 DEF s, u
    <3> QED
      BY <2>2, <3>1, <3>2
  <2> QED
    BY <1>1, <2>1, <2>2 DEF SoundOK
<1>8. ASSUME NEW d \in 1..nspawn, d # k
      PROVE  Hands(d)' = Hands(d) /\ (Fresh(d)' <=> Fresh(d)) /\ ~Fresh(d)
  <2>1. Hands(d)' = Hands(d)
    BY <1>3, <1>8 DEF Hands
  <2> QED
    BY <1>1, <1>3, <1>8, <2>1, WaitingOnes DEF Fresh
<1>9. /\ Script(k)'
      /\ Fresh(k)' => Fresh(k)
  BY <1>1, <1>2, ScriptGoesOn DEF ScriptOK
<1>10. ScriptOK'
  <2>1. ASSUME NEW d \in 1..nspawn, d # k PROVE Script(d)'
    <3>1. Script(d) /\ Hands(d)' = Hands(d) /\ conn'[d] = conn[d]
      BY <1>1, <1>2, <1>3, <1>8, <2>1 DEF ScriptOK
    <3> QED
      BY <3>1 DEF Script
  <2> QED
    BY <1>2, <1>9, <2>1 DEF ScriptOK
<1>11. FreshOK'
  <2>1. Fresh(k)' => Foreseen(k)' = Foreseen(k)
    BY ForeseenStays
  <2> QED
    BY <1>1, <1>2, <1>8, <1>9, <2>1 DEF FreshOK
<1>12. AgreedOK'
  <2>1. \A d \in 1..nspawn : d # k => h'[d].pc \in {"blocked", "done"}
    BY <1>3 DEF Waits
  <2> SUFFICES ASSUME NEW c \in 1..nconn, Settled(c)'
               PROVE  Agreed(c)'
    BY DEF AgreedOK, Settled
  <2> QED
    BY <2>1, OneApartNext
<1>13. RepliesOK'
  <2> SUFFICES ASSUME NEW d \in Handler, d # k
               PROVE  ReplyPaced(d)'
    BY DEF RepliesOK
  <2>1. h[d].pc \in {"none", "blocked", "done"}
    <3>1. d \in 1..nspawn \/ d > nspawn
      BY <1>1, PacedTypes DEF Handler
    <3> QED
      BY <1>1, <1>3, <3>1 DEF Waits, PacedInv, OffInv, SpawnedOK, NewHandler
  <2>2. ReplyPaced(d)
    BY <1>1 DEF RepliesOK
  <2> QED
    BY <2>1, <2>2 DEF ReplyPaced
<1> QED
  BY <1>5, <1>6, <1>7, <1>10, <1>11, <1>12, <1>13 DEF AgreeInv

\* What every step of a handler leaves alone, and where what it sends goes.
LEMMA ServedFrame ==
  ASSUME AgreeInv, PacedInv', NEW k \in Handler, Served(k)
  PROVE  /\ k \in 1..nspawn /\ Turn(k)
         /\ \/ Start(k) \/ Count(k) \/ Read(k) \/ Dispatch(k) \/ BeginWalk(k)
            \/ Announce(k) \/ Collect(k) \/ Reply(k)
            \/ ReadLength(k) \/ ReadText(k) \/ Add(k) \/ Close(k) \/ Remove(k)
         /\ UNCHANGED <<nspawn, nconn, view, misled>>
         /\ \A d \in Handler \ {k} : h'[d] = h[d]
         /\ \A c \in Conn \ {k} : conn'[c] = conn[c]
         /\ \A c \in Conn : Tuple(c)' = Tuple(c)
         /\ conn'[k].st = conn[k].st /\ conn'[k].who = conn[k].who
         /\ reply' = Compose(k)
         /\ inbox' = IF sent' = NoSend THEN inbox
                     ELSE [inbox EXCEPT ![sent'.conn] = Append(@, Text(k, sent'.kind))]
<1>1. PacedInv /\ HandlerStep(k)
  BY DEF AgreeInv, Served
<1>2. k \in 1..nspawn /\ Turn(k)
  BY <1>1, HandlerTurn
<1>3. ~Wrong(k) /\ ~ReadEof(k) /\ ~ReadTextClosed(k) /\ ~StopWalk(k) /\ ~Skip(k)
  BY <1>1, TurnGoesRight
<1>4. \/ Start(k) \/ Count(k) \/ Read(k) \/ Dispatch(k) \/ BeginWalk(k)
      \/ Announce(k) \/ Collect(k) \/ Reply(k)
      \/ ReadLength(k) \/ ReadText(k) \/ Add(k) \/ Close(k) \/ Remove(k)
  BY <1>1, <1>3, HandlerCases, NoStdin DEF Plain
<1>5. HandlerPaced(k) /\ k \in Conn /\ k # None /\ HandlerOK(k, h[k])
      /\ conn \in [Conn -> Connections]
  BY <1>1, <1>2, LocalsFacts, PacedTypes DEF PacedInv, Paced, HandlersPaced, Inv, None
<1>6. h[k].pc \in {"blocked", "body"} => h[k].conn = k
  BY <1>5 DEF HandlerPaced, HandlerOK, None, Conn
<1>7. \A d \in Handler \ {k} : h'[d] = h[d]
  <2>1. h \in [Handler -> Locals]
    BY <1>1, PacedTypes
  <2>2. CASE ReadLength(k) \/ Close(k) \/ Count(k)
    BY <2>1, <2>2 DEF ReadLength, Close, Count
  <2>3. CASE ReadText(k) \/ Add(k) \/ Remove(k) \/ Announce(k) \/ Collect(k) \/ Reply(k)
    BY <2>1, <2>3 DEF ReadText, Add, Remove, Announce, Collect, Reply
  <2>4. CASE Start(k) \/ Read(k) \/ Dispatch(k) \/ BeginWalk(k)
    <3>1. \E l : h' = [h EXCEPT ![k] = l]
      <4>1. CASE Start(k)
        BY <4>1 DEF Start, Local
      <4>2. CASE Read(k)
        BY <4>2 DEF Read, Local
      <4>3. CASE Dispatch(k)
        BY <4>3 DEF Dispatch, Local
      <4>4. CASE BeginWalk(k)
        BY <4>4 DEF BeginWalk, Local
      <4> QED
        BY <2>4, <4>1, <4>2, <4>3, <4>4
    <3> QED
      BY <2>1, <3>1
  <2> QED
    BY <1>4, <2>2, <2>3, <2>4
<1>8. nspawn' = nspawn /\ nconn' = nconn /\ fault' = fault
  BY <1>4 DEF Start, Count, Read, Dispatch, BeginWalk, Announce, Collect, Reply,
              ReadLength, ReadText, Add, Close, Remove, Local, Private, Elsewhere,
              connVars
<1>9. /\ \A c \in Conn \ {k} : conn'[c] = conn[c]
      /\ conn'[k].st = conn[k].st /\ conn'[k].who = conn[k].who
  <2>1. CASE ReadLength(k) \/ ReadText(k)
    BY <1>5, <1>6, <2>1 DEF ReadLength, ReadText, In, Connections
  <2>2. CASE ~ReadLength(k) /\ ~ReadText(k)
    BY <1>4, <2>2 DEF Start, Count, Read, Dispatch, BeginWalk, Announce, Collect, Reply,
              Add, Close, Remove, Local, Private, connVars
  <2> QED
    BY <2>1, <2>2
<1>10. \A c \in Conn : Tuple(c)' = Tuple(c)
  BY <1>9 DEF Tuple
<1>11. /\ view' = view /\ misled' = misled
       /\ reply' = Compose(k)
       /\ inbox' = IF sent' = NoSend THEN inbox
                   ELSE [inbox EXCEPT ![sent'.conn] = Append(@, Text(k, sent'.kind))]
  <2>1. fault' = "none"
    BY <1>1, <1>8, PacedTypes
  <2> QED
    BY <2>1 DEF Served, clientVars
<1> QED
  BY <1>2, <1>4, <1>7, <1>8, <1>9, <1>10, <1>11

\* Of the clients that have their answer nothing changes in a step that takes or
\* sends none of their messages, and keeps the list as it is.
LEMMA AgreedStays ==
  ASSUME AgreeInv, NEW k \in 1..nspawn, Turn(k), NEW c \in 1..nconn, Settled(c),
         list' = list, \A d \in Conn : Tuple(d)' = Tuple(d),
         conn'[c].who = conn[c].who, inbox'[c] = inbox[c], view' = view,
         Without(k, c)' <=> Without(k, c)
  PROVE  AgreedBut(c, k)'
<1>1. PacedInv /\ SyncTypes /\ AgreedOK
  BY DEF AgreeInv
<1>2. \A d \in 1..nspawn : d # k => h[d].pc \in {"blocked", "done"}
  BY <1>1, OthersWait DEF Waits
<1>3. AgreedBut(c, k)
  BY <1>1, <1>2, OneApart DEF AgreedOK, Settled
<1>4. Foreseen(c)' = Foreseen(c)
  BY ForeseenStays
<1>5. ListedTuples' = ListedTuples
  BY <1>1, ListFacts DEF ListedTuples
<1>6. Tuple(c)' = Tuple(c) /\ Tuple(k)' = Tuple(k)
  BY <1>1, PacedTypes
<1> QED
  BY <1>3, <1>4, <1>5, <1>6 DEF AgreedBut

\* Steps outside the walks.
LEMMA PlainAgrees ==
  ASSUME AgreeInv, PacedInv', NEW k \in Handler, Served(k),
         \/ Start(k) \/ Count(k) \/ Read(k) \/ ReadLength(k) \/ ReadText(k)
         \/ Dispatch(k) \/ Close(k)
  PROVE  AgreeInv'
<1>1. /\ k \in 1..nspawn /\ Turn(k)
      /\ UNCHANGED <<nspawn, nconn, view, misled>>
      /\ \A d \in Handler \ {k} : h'[d] = h[d]
      /\ \A c \in Conn \ {k} : conn'[c] = conn[c]
      /\ \A c \in Conn : Tuple(c)' = Tuple(c)
      /\ conn'[k].st = conn[k].st /\ conn'[k].who = conn[k].who
      /\ reply' = Compose(k)
      /\ inbox' = IF sent' = NoSend THEN inbox
                  ELSE [inbox EXCEPT ![sent'.conn] = Append(@, Text(k, sent'.kind))]
  BY ServedFrame
<1>2. /\ PacedInv /\ SyncTypes /\ ScriptOK /\ RepliesOK
  BY DEF AgreeInv
<1>3. /\ HandlerPaced(k) /\ k \in Conn /\ HandlerOK(k, h[k]) /\ LabelOK(h[k])
      /\ h[k] \in Locals /\ h \in [Handler -> Locals] /\ conn \in [Conn -> Connections]
      /\ shouldRun /\ k # None
      /\ \A c \in 1..nconn : conn'[c].who = conn[c].who
  <2>1. k \in Conn /\ k # None /\ Inv /\ 1..nconn \subseteq Conn
    <3>1. Inv /\ 1..nconn \subseteq Conn /\ 1..nspawn \subseteq Conn
      BY <1>2, PacedTypes
    <3> QED
      BY <1>1, <3>1 DEF None
  <2>2. HandlerPaced(k) /\ LabelOK(h[k])
    BY <1>1, <1>2 DEF PacedInv, Paced, HandlersPaced, OffInv, LabelsOK
  <2>3. HandlerOK(k, h[k]) /\ h[k] \in Locals
    BY <2>1, LocalsFacts DEF Inv
  <2>4. \A c \in 1..nconn : conn'[c].who = conn[c].who
    <3>1. (\A c \in Conn \ {k} : conn'[c] = conn[c]) /\ conn'[k].who = conn[k].who
      BY <1>1
    <3> QED
      BY <2>1, <3>1
  <2> QED
    BY <1>2, <2>1, <2>2, <2>3, <2>4, PacedTypes
<1>4. list' = list /\ inbox' = inbox
  BY <1>1 DEF Start, Count, Read, ReadLength, ReadText, Dispatch, Close, Local, Private,
              Elsewhere, listVars, Quiet
<1>5. /\ h[k].pc \in {"start", "count", "read", "blocked", "body", "got", "close"}
      /\ reply' = reply
  <2>1. h[k].pc \in {"start", "count", "read", "blocked", "body", "got", "close"}
    BY DEF Start, Count, Read, ReadLength, ReadText, Dispatch, Close, Local, In
  <2>2. reply' = Compose(k)
    BY <1>1
  <2> QED
    BY <2>1, <2>2 DEF Compose
<1>6. h[k].pc \in {"blocked", "body"} => h[k].conn = k
  BY <1>3 DEF HandlerPaced, HandlerOK, None, Conn
<1>7. /\ h'[k].pc \in {"count", "read", "blocked", "body", "got", "add", "head", "remove"}
      /\ h'[k].pc = "head" => h'[k].msg.type # "LOG_ON"
      /\ h'[k].pc = "remove" <=> h[k].pc = "close"
      /\ h'[k].pc = "remove" => h'[k].msg = h[k].msg
      /\ Goes(k) \/ TakesOne(k)
  <2>1. k <= nspawn /\ k <= nspawn'
    BY <1>1
  <2>2. CASE Start(k) \/ Count(k) \/ Close(k)
    <3>1. /\ h[k].pc \in {"start", "count", "close"} /\ conn' = conn
          /\ h'[k].msg = h[k].msg
          /\ \/ h[k].pc = "start" /\ h'[k].pc = "count"
             \/ h[k].pc = "count" /\ h'[k].pc = "read"
             \/ h[k].pc = "close" /\ h'[k].pc = "remove"
      <4>1. CASE Start(k)
        BY <1>3, <4>1 DEF Start, Local, Private, In, connVars, Locals
      <4>2. CASE Count(k)
        BY <1>3, <4>2 DEF Count, In, connVars, Locals
      <4>3. CASE Close(k)
        BY <1>3, <4>3 DEF Close, In, connVars, Locals
      <4> QED
        BY <2>2, <4>1, <4>2, <4>3
    <3> QED
      BY <2>1, <3>1 DEF Goes, Hands, Handling
  <2>3. CASE Read(k)
    <3>1. Target(h[k].fd) = k /\ h[k].pc = "read"
      BY <1>3, <2>3 DEF Read, Local, In, HandlerPaced, Takes
    <3>2. h'[k].pc = "blocked" /\ conn' = conn
      BY <1>3, <2>3, <3>1 DEF Read, Local, Private, connVars, Locals
    <3> QED
      BY <2>1, <3>1, <3>2 DEF Goes, Hands, Handling
  <2>4. CASE ReadLength(k)
    <3>1. h[k].pc = "blocked" /\ h'[k].pc = "body" /\ conn'[k].reqs = conn[k].reqs
      BY <1>3, <1>6, <2>4 DEF ReadLength, In, Connections, Locals
    <3> QED
      BY <2>1, <3>1 DEF Goes, Hands, Handling
  <2>5. CASE ReadText(k)
    <3>1. /\ h[k].pc = "body" /\ h'[k].pc = "got"
          /\ h'[k].msg.type = Head(conn[k].reqs) /\ conn'[k].reqs = Tail(conn[k].reqs)
      BY <1>3, <1>6, <2>5 DEF ReadText, In, Connections, Locals
    <3>2. conn[k].reqs # <<>>
      BY <1>3, <1>6, <3>1 DEF HandlerOK
    <3> QED
      BY <2>1, <3>1, <3>2 DEF TakesOne, Hands, Handling
  <2>6. CASE Dispatch(k)
    <3> DEFINE label == IF h[k].msg.type = "LOG_ON" THEN "add" ELSE "head"
    <3>1. h[k].pc = "got" /\ h'[k] = [h[k] EXCEPT !.pc = label, !.fd = accepted] /\ conn' = conn
      BY <1>3, <2>6 DEF Dispatch, Handled, Local, Private, In, connVars
    <3>2. h'[k].pc = label /\ h'[k].msg = h[k].msg
      BY <1>3, <3>1 DEF Locals
    <3> QED
      BY <2>1, <3>1, <3>2 DEF Goes, Hands, Handling
  <2> QED
    BY <2>2, <2>3, <2>4, <2>5, <2>6
<1>8. ReplyPaced(k)'
  <2>1. reply[k].tuples = <<>>
    BY <1>5, <1>3 DEF AgreeInv, RepliesOK, ReplyPaced
  <2> QED
    BY <1>5, <1>7, <2>1 DEF ReplyPaced
<1>9. \A c : Without(k, c)' <=> Without(k, c)
  <2>1. h[k].pc = "close" => h[k].msg.type = "LOG_OFF"
    BY <1>3 DEF LabelOK
  <2> QED
    BY <1>5, <1>7, <2>1 DEF Without, Ahead
<1>10. ASSUME NEW c \in 1..nconn, Settled(c)'
       PROVE  AgreedBut(c, k)'
  <2>1. Settled(c)
    <3>1. CASE c = k
      BY <1>1, <1>2, <1>7, <1>10, <3>1, ScriptGoesOn DEF ScriptOK
    <3>2. CASE c # k
      BY <1>1, <1>2, <1>10, <3>2, PacedTypes DEF Settled, Fresh, Hands
    <3> QED
      BY <3>1, <3>2
  <2> QED
    BY <1>1, <1>3, <1>4, <1>9, <2>1, AgreedStays
<1> QED
  BY <1>1, <1>2, <1>4, <1>5, <1>7, <1>8, <1>10, TurnAgrees DEF SyncTypes

-----------------------------------------------------------------------------
(* The walks.                                                                *)

\* Where a walk is when it has come to the i-th node, or past the last one.
LEMMA WhereTo ==
  ASSUME Inv, NEW k \in Handler, h[k].pc \in {"head", "walk"}, NEW i \in Nat \ {0}
  PROVE  /\ i <= Len(list) => /\ MoveTo(k, i).pc = "walk" /\ MoveTo(k, i).msg = h[k].msg
                              /\ MoveTo(k, i).it = list[i].from
         /\ ~(i <= Len(list)) =>
               \/ h[k].msg.type = "LOG_ON" /\ MoveTo(k, i).pc = "read"
               \/ /\ h[k].msg.type = "LOG_OFF" /\ MoveTo(k, i).pc = "close"
                  /\ MoveTo(k, i).msg = h[k].msg
               \/ /\ h[k].msg.type = "GET_CLIENTS" /\ MoveTo(k, i).pc = "reply"
                  /\ MoveTo(k, i).msg = h[k].msg
<1>1. /\ h[k] \in Locals /\ h[k].msg.type \in {"LOG_ON", "GET_CLIENTS", "LOG_OFF"}
      /\ Len(list) \in Nat
  BY LocalsFacts, LenProperties DEF Inv, Handling, Requests, ListOK
<1>2. CASE i <= Len(list)
  <2>1. MoveTo(k, i) = [h[k] EXCEPT !.pc = "walk", !.it = list[i].from]
    BY <1>1, <1>2 DEF MoveTo
  <2> QED
    BY <1>1, <1>2, <2>1 DEF Locals
<1>3. CASE ~(i <= Len(list))
  <2>1. MoveTo(k, i) = AfterWalk(k)
    BY <1>1, <1>3 DEF MoveTo
  <2>2. CASE h[k].msg.type = "LOG_ON"
    BY <1>1, <1>3, <2>1, <2>2 DEF AfterWalk, NextRequest, Locals
  <2>3. CASE h[k].msg.type = "LOG_OFF"
    BY <1>1, <1>3, <2>1, <2>3 DEF AfterWalk, Locals
  <2>4. CASE h[k].msg.type = "GET_CLIENTS"
    BY <1>1, <1>3, <2>1, <2>4 DEF AfterWalk, Locals
  <2> QED
    BY <1>1, <2>2, <2>3, <2>4
<1> QED
  BY <1>2, <1>3

\* Which nodes are still to come.
LEMMA StillAhead ==
  ASSUME PacedInv, NEW k \in Handler, NEW m \in DOMAIN list
  PROVE  /\ \A i \in DOMAIN list : PositionOf(list[i].from) = {i}
         /\ h[k].pc = "head" => Ahead(h[k], list[m].from)
         /\ \A i \in DOMAIN list : h[k].pc = "walk" /\ h[k].it = list[i].from =>
               (Ahead(h[k], list[m].from) <=> i <= m)
<1>1. \A i, j \in DOMAIN list : list[i].from = list[j].from => i = j
  BY DEF PacedInv, Paced, ListPaced
<1>2. \A i \in DOMAIN list : PositionOf(list[i].from) = {i}
  BY <1>1 DEF PositionOf
<1>3. ASSUME NEW i \in DOMAIN list, h[k].pc = "walk", h[k].it = list[i].from
      PROVE  Ahead(h[k], list[m].from) <=> i <= m
  <2>1. Ahead(h[k], list[m].from) <=>
           \E p \in {i} : \E j \in DOMAIN list : p <= j /\ list[j].from = list[m].from
    BY <1>2, <1>3 DEF Ahead
  <2> QED
    BY <1>1, <2>1
<1> QED
  BY <1>2, <1>3 DEF Ahead

\* A step that moves a walk to the i-th node.
LEMMA AheadNext ==
  ASSUME PacedInv, NEW k \in Handler, list' = list, h[k].pc \in {"head", "walk"},
         NEW i \in Nat \ {0}, NEW m \in DOMAIN list,
         h'[k].pc = MoveTo(k, i).pc, h'[k].it = MoveTo(k, i).it
  PROVE  Ahead(h[k], list[m].from)' <=> i <= m
<1>1. Inv /\ Len(list) \in Nat /\ DOMAIN list = 1..Len(list)
  BY PacedTypes
<1>2. CASE i <= Len(list)
  <2>1. h'[k].pc = "walk" /\ h'[k].it = list[i].from /\ i \in DOMAIN list
    BY <1>1, <1>2, WhereTo
  <2>2. PositionOf(h[k].it)' = {i}
    BY <2>1, StillAhead DEF PositionOf
  <2>3. \A j \in DOMAIN list : list[j].from = list[m].from => j = m
    BY DEF PacedInv, Paced, ListPaced
  <2>4. Ahead(h[k], list[m].from)' <=>
           \E j \in DOMAIN list : i <= j /\ list[j].from = list[m].from
    BY <2>1, <2>2 DEF Ahead
  <2> QED
    BY <2>3, <2>4
<1>3. CASE ~(i <= Len(list))
  <2>1. h'[k].pc \in {"read", "close", "reply"}
    BY <1>1, <1>3, WhereTo
  <2>2. ~(i <= m)
    BY <1>1, <1>3
  <2> QED
    BY <2>1, <2>2 DEF Ahead
<1> QED
  BY <1>2, <1>3

\* What handler k has in its hands is its client's, who is in the list.
LEMMA InHand ==
  ASSUME PacedInv, NEW k \in 1..nspawn, h[k].pc \in Handling
  PROVE  /\ h[k].msg.from = k /\ h[k].msg.type \in Requests /\ Hands(k) = h[k].msg.type
         /\ h[k].pc \notin {"got", "add"} => OnList(k)
<1>1. /\ k \in Conn /\ k \in Handler /\ Inv /\ k <= nspawn
      /\ HandlerPaced(k) /\ ConnPaced(k)
  BY PacedTypes DEF PacedInv, Paced, HandlersPaced, ConnsPaced
<1>2. h[k].msg \in [type : Requests, from : Conn]
  BY <1>1, LocalsFacts DEF Inv
<1>3. h[k].msg.from = k
  BY <1>1, <1>2 DEF HandlerPaced, None, Conn
<1>4. ~Unread(k)
  BY <1>1, <1>3 DEF PacedInv, OffInv, TakenOK
<1>5. h[k].pc # "done"
  BY DEF Handling
<1> QED
  BY <1>1, <1>2, <1>3, <1>4, <1>5 DEF ConnPaced, LoggingOn, Hands

\* A handler that goes on with what it has in its hands, or is done with a
\* LOG_ON or a LOG_OFF, leaves its client without an answer.
LEMMA NotYetSettled ==
  ASSUME AgreeInv, NEW k \in 1..nspawn, h[k].pc \in Handling, conn'[k].st = conn[k].st,
         Goes(k) \/ (Ends(k) /\ h[k].msg.type # "GET_CLIENTS")
  PROVE  ~Settled(k)'
<1>1. PacedInv /\ SyncTypes /\ k \in 1..nconn /\ Script(k)
  BY PacedTypes DEF AgreeInv, ScriptOK
<1>2. Hands(k) = h[k].msg.type /\ Hands(k) # "none"
  BY <1>1, InHand DEF Requests
<1>3. ~Settled(k)
  BY <1>1, <1>2, SettledIsListed
<1> QED
  BY <1>1, <1>2, <1>3, ScriptGoesOn

\* The walk begins.
LEMMA BeginWalkAgrees ==
  ASSUME AgreeInv, PacedInv', NEW k \in Handler, Served(k), BeginWalk(k)
  PROVE  AgreeInv'
<1>1. /\ k \in 1..nspawn /\ Turn(k)
      /\ UNCHANGED <<nspawn, nconn, view, misled>>
      /\ \A d \in Handler \ {k} : h'[d] = h[d]
      /\ \A c \in Conn \ {k} : conn'[c] = conn[c]
      /\ \A c \in Conn : Tuple(c)' = Tuple(c)
      /\ conn'[k].st = conn[k].st /\ conn'[k].who = conn[k].who
      /\ reply' = Compose(k)
      /\ inbox' = IF sent' = NoSend THEN inbox
                  ELSE [inbox EXCEPT ![sent'.conn] = Append(@, Text(k, sent'.kind))]
  BY ServedFrame
<1>2. /\ PacedInv /\ SyncTypes /\ ScriptOK /\ RepliesOK /\ Inv /\ k \in Conn
      /\ h \in [Handler -> Locals] /\ shouldRun /\ Len(list) \in Nat
      /\ DOMAIN list = 1..Len(list) /\ 1..nconn \subseteq Conn
  BY <1>1, PacedTypes DEF AgreeInv
<1>3. /\ h[k].pc = "head" /\ h'[k] = MoveTo(k, 1) /\ list' = list /\ inbox' = inbox
      /\ conn' = conn
  BY <1>1, <1>2 DEF BeginWalk, Local, Private, In, listVars, connVars, Quiet
<1>4. /\ h[k].msg.from = k /\ h[k].msg.type \in Requests /\ Hands(k) = h[k].msg.type
      /\ h[k].pc \in Handling
  BY <1>1, <1>2, <1>3, InHand DEF Handling
<1>5. \/ h'[k].pc = "walk" /\ h'[k].msg = h[k].msg /\ h'[k].it = list[1].from /\ 1 \in DOMAIN list
      \/ DOMAIN list = {} /\ h[k].msg.type = "LOG_ON" /\ h'[k].pc = "read"
      \/ /\ DOMAIN list = {} /\ h[k].msg.type = "LOG_OFF" /\ h'[k].pc = "close"
         /\ h'[k].msg = h[k].msg
      \/ /\ Len(list) = 0 /\ h[k].msg.type = "GET_CLIENTS" /\ h'[k].pc = "reply"
         /\ h'[k].msg = h[k].msg
  <2>1. 1 <= Len(list) => 1 \in DOMAIN list
    BY <1>2
  <2>2. ~(1 <= Len(list)) => Len(list) = 0 /\ DOMAIN list = {}
    BY <1>2
  <2>3. 1 \in Nat \ {0}
    OBVIOUS
  <2> QED
    BY <1>2, <1>3, <2>1, <2>2, <2>3, WhereTo
<1>6. Goes(k) \/ (Ends(k) /\ h[k].msg.type = "LOG_ON")
  BY <1>1, <1>2, <1>3, <1>4, <1>5, PacedTypes DEF Goes, Ends, Hands, Handling
<1>7. reply[k].tuples = <<>>
  BY <1>2, <1>3 DEF RepliesOK, ReplyPaced
<1>8. reply' = IF Asking(k) THEN [reply EXCEPT ![k].count = Len(list)] ELSE reply
  BY <1>1, <1>3 DEF Compose
<1>9. /\ reply' \in [Handler -> [count : Nat, tuples : Seq(Client)]]
      /\ \A d \in Handler \ {k} : reply'[d] = reply[d]
      /\ reply'[k].tuples = <<>>
      /\ Asking(k) => reply'[k].count = Len(list)
  BY <1>2, <1>7, <1>8 DEF SyncTypes
<1>10. ReplyPaced(k)'
  <2>1. CASE ~Asking(k)
    <3>1. h'[k].pc # "reply" /\ ~(h'[k].pc = "walk" /\ Asking(k)')
      BY <1>5, <2>1 DEF Asking
    <3> QED
      BY <1>9, <3>1 DEF ReplyPaced
  <2>2. CASE Asking(k)
    <3>1. Collected(k, 0)'
      BY <1>3, <1>9, <2>2, EmptySeq DEF Collected
    <3>2. CASE h'[k].pc = "walk" /\ h'[k].it = list[1].from /\ 1 \in DOMAIN list
      <4>1. PICK p : p \in PositionOf(h[k].it)' /\ p - 1 = 0
        BY <1>3, <3>2 DEF PositionOf
      <4> QED
        BY <1>3, <3>1, <3>2, <4>1 DEF ReplyPaced, Collected
    <3>3. CASE Len(list) = 0 /\ h'[k].pc = "reply" /\ h'[k].msg = h[k].msg
      BY <1>3, <2>2, <3>1, <3>3 DEF ReplyPaced, Asking
    <3> QED
      BY <1>5, <2>2, <3>2, <3>3 DEF Asking
  <2> QED
    BY <2>1, <2>2
<1>11. ASSUME NEW c \in 1..nconn, Settled(c)'
       PROVE  AgreedBut(c, k)'
  <2>1. c # k
    BY <1>1, <1>4, <1>6, <1>11, NotYetSettled
  <2>2. Settled(c)
    BY <1>1, <1>2, <1>11, <2>1, PacedTypes DEF Settled, Fresh, Hands
  <2>3. Script(c)
    BY <1>2 DEF ScriptOK
  <2>4. PICK m \in DOMAIN list : list[m].from = c
    BY <1>2, <2>2, <2>3, SettledIsListed DEF OnList
  <2>5. Ahead(h[k], c)
    BY <1>3, <2>4, StillAhead, <1>2
  <2>6. Ahead(h[k], c)'
    <3>1. 1 \in Nat \ {0} /\ 1 <= m
      BY <1>2, <2>4
    <3>2. Ahead(h[k], list[m].from)'
      BY <1>2, <1>3, <3>1, AheadNext
    <3> QED
      BY <1>3, <2>4, <3>2 DEF Ahead
  <2>7. Without(k, c)' <=> Without(k, c)
    BY <1>3, <1>5, <2>4, <2>5, <2>6 DEF Without
  <2> QED
    BY <1>1, <1>3, <2>2, <2>7, AgreedStays
<1> QED
  BY <1>1, <1>2, <1>3, <1>6, <1>9, <1>10, <1>11, TurnAgrees DEF SyncTypes

\* The walk has come to its i-th node, and moves on.
LEMMA WalkMoves ==
  ASSUME AgreeInv, PacedInv', NEW k \in Handler, Served(k), Announce(k) \/ Collect(k)
  PROVE  /\ h[k].pc = "walk" /\ shouldRun /\ list' = list /\ conn' = conn
         /\ h[k].msg.from = k /\ h[k].msg.type \in Requests /\ Hands(k) = h[k].msg.type
         /\ h[k].pc \in Handling /\ OnList(k)
         /\ Goes(k) \/ (Ends(k) /\ h[k].msg.type = "LOG_ON")
         /\ \E i \in DOMAIN list :
               /\ i \in Nat /\ i + 1 \in Nat \ {0} /\ h[k].it = list[i].from
               /\ PositionOf(h[k].it) = {i}
               /\ h'[k].pc = MoveTo(k, i + 1).pc /\ h'[k].it = MoveTo(k, i + 1).it
               /\ \/ /\ h'[k].pc = "walk" /\ h'[k].msg = h[k].msg
                     /\ h'[k].it = list[i + 1].from /\ i + 1 \in DOMAIN list
                  \/ i = Len(list) /\ h[k].msg.type = "LOG_ON" /\ h'[k].pc = "read"
                  \/ /\ i = Len(list) /\ h[k].msg.type = "LOG_OFF" /\ h'[k].pc = "close"
                     /\ h'[k].msg = h[k].msg
                  \/ /\ i = Len(list) /\ h[k].msg.type = "GET_CLIENTS" /\ h'[k].pc = "reply"
                     /\ h'[k].msg = h[k].msg
<1>1. PacedInv /\ k \in 1..nspawn /\ nspawn' = nspawn
  BY ServedFrame DEF AgreeInv
<1>2. /\ Inv /\ h \in [Handler -> Locals] /\ Len(list) \in Nat
      /\ DOMAIN list = 1..Len(list)
  BY <1>1, PacedTypes
<1>3. /\ h[k].pc = "walk" /\ shouldRun /\ list' = list /\ conn' = conn
  BY DEF Announce, Collect, In, Private, listVars, connVars
<1>4. /\ h[k].msg.from = k /\ h[k].msg.type \in Requests /\ Hands(k) = h[k].msg.type
      /\ h[k].pc \in Handling /\ OnList(k)
  BY <1>1, <1>3, InHand DEF Handling
<1>5. PICK i \in DOMAIN list :
         /\ h[k].it = list[i].from
         /\ \/ h'[k] = MoveTo(k, i + 1)
            \/ h'[k] = [MoveTo(k, i + 1) EXCEPT !.buf = @ \cup {h[k].it}]
  BY <1>2 DEF Announce, Collect, PositionOf
<1> PICK n \in Nat \ {0} : n = i + 1
  BY <1>2
<1>6. /\ h'[k].pc = MoveTo(k, n).pc /\ h'[k].it = MoveTo(k, n).it
      /\ h'[k].msg = MoveTo(k, n).msg
  <2>1. MoveTo(k, n) \in Locals
    BY <1>2, <1>3, MoveToOK
  <2> QED
    BY <1>5, <2>1 DEF Locals
<1>7. /\ i \in Nat /\ (n <= Len(list) => n \in DOMAIN list)
      /\ (~(n <= Len(list)) => i = Len(list))
  BY <1>2
<1>8. \/ /\ h'[k].pc = "walk" /\ h'[k].msg = h[k].msg
         /\ h'[k].it = list[n].from /\ n \in DOMAIN list
      \/ i = Len(list) /\ h[k].msg.type = "LOG_ON" /\ h'[k].pc = "read"
      \/ /\ i = Len(list) /\ h[k].msg.type = "LOG_OFF" /\ h'[k].pc = "close"
         /\ h'[k].msg = h[k].msg
      \/ /\ i = Len(list) /\ h[k].msg.type = "GET_CLIENTS" /\ h'[k].pc = "reply"
         /\ h'[k].msg = h[k].msg
  BY <1>2, <1>3, <1>6, <1>7, WhereTo
<1>9. Goes(k) \/ (Ends(k) /\ h[k].msg.type = "LOG_ON")
  <2>1. k <= nspawn /\ k <= nspawn'
    BY <1>1
  <2> QED
    BY <1>3, <1>4, <1>8, <2>1 DEF Goes, Ends, Hands, Handling
<1>10. PositionOf(h[k].it) = {i}
  BY <1>1, <1>5, StillAhead
<1> QED
  BY <1>3, <1>4, <1>5, <1>6, <1>7, <1>8, <1>9, <1>10

\* GET_CLIENTS: a node's tuple goes into the answer.
LEMMA CollectAgrees ==
  ASSUME AgreeInv, PacedInv', NEW k \in Handler, Served(k), Collect(k)
  PROVE  AgreeInv'
<1>1. /\ k \in 1..nspawn /\ Turn(k)
      /\ UNCHANGED <<nspawn, nconn, view, misled>>
      /\ \A d \in Handler \ {k} : h'[d] = h[d]
      /\ \A c \in Conn \ {k} : conn'[c] = conn[c]
      /\ \A c \in Conn : Tuple(c)' = Tuple(c)
      /\ conn'[k].st = conn[k].st /\ conn'[k].who = conn[k].who
      /\ reply' = Compose(k)
      /\ inbox' = IF sent' = NoSend THEN inbox
                  ELSE [inbox EXCEPT ![sent'.conn] = Append(@, Text(k, sent'.kind))]
  BY ServedFrame
<1>2. /\ PacedInv /\ SyncTypes /\ RepliesOK
      /\ Len(list) \in Nat /\ DOMAIN list = 1..Len(list) /\ 1..nconn \subseteq Conn
  BY <1>1, PacedTypes DEF AgreeInv
<1>3. /\ h[k].pc = "walk" /\ shouldRun /\ list' = list /\ conn' = conn
      /\ h[k].msg.from = k /\ Goes(k) /\ h[k].msg.type = "GET_CLIENTS" /\ Asking(k)
      /\ h[k].pc \in Handling /\ inbox' = inbox
  <2>1. h[k].msg.type = "GET_CLIENTS" /\ Quiet
    BY DEF Collect
  <2> QED
    BY <1>1, <2>1, WalkMoves DEF Asking, Quiet
<1>4. PICK i \in DOMAIN list :
         /\ h[k].it = list[i].from /\ PositionOf(h[k].it) = {i}
         /\ \/ /\ h'[k].pc = "walk" /\ h'[k].msg = h[k].msg
               /\ h'[k].it = list[i + 1].from /\ i + 1 \in DOMAIN list
            \/ i = Len(list) /\ h'[k].pc = "reply" /\ h'[k].msg = h[k].msg
  BY <1>3, WalkMoves
<1>5. Collected(k, i - 1)
  BY <1>2, <1>3, <1>4 DEF RepliesOK, ReplyPaced
<1>6. reply' = [reply EXCEPT ![k].tuples = Append(@, Tuple(h[k].it))]
  BY <1>1, <1>3 DEF Compose
<1>7. Tuple(h[k].it) \in Client /\ \A j \in DOMAIN list : Tuple(list[j].from)' = Tuple(list[j].from)
  <2>1. /\ Tuple(list[i].from) \in Client
        /\ \A j \in DOMAIN list : list[j].from \in Conn
    BY <1>2, ListFacts
  <2>2. Tuple(h[k].it) = Tuple(list[i].from)
    BY <1>4 DEF Tuple
  <2>3. \A j \in DOMAIN list : Tuple(list[j].from)' = Tuple(list[j].from)
    BY <1>3 DEF Tuple
  <2> QED
    BY <2>1, <2>2, <2>3
<1>8. /\ reply' \in [Handler -> [count : Nat, tuples : Seq(Client)]]
      /\ \A d \in Handler \ {k} : reply'[d] = reply[d]
      /\ reply'[k].count = reply[k].count
      /\ reply'[k].tuples = Append(reply[k].tuples, Tuple(h[k].it))
  <2> PICK t \in Client : t = Tuple(h[k].it)
    BY <1>7
  <2>1. /\ reply[k] \in [count : Nat, tuples : Seq(Client)]
        /\ Append(reply[k].tuples, t) \in Seq(Client)
    BY <1>2 DEF SyncTypes
  <2>2. /\ reply'[k] = [reply[k] EXCEPT !.tuples = Append(reply[k].tuples, Tuple(h[k].it))]
        /\ reply' = [reply EXCEPT ![k] = reply'[k]]
    BY <1>2, <1>6 DEF SyncTypes
  <2>3. /\ reply'[k].tuples = Append(reply[k].tuples, Tuple(h[k].it))
        /\ reply'[k].count = reply[k].count
        /\ reply'[k] \in [count : Nat, tuples : Seq(Client)]
    BY <2>1, <2>2
  <2> QED
    BY <1>2, <2>2, <2>3 DEF SyncTypes
<1>9. Collected(k, i)'
  <2>1. /\ reply[k].tuples \in Seq(Client) /\ Len(reply[k].tuples) = i - 1 /\ i \in Nat
        /\ reply[k].count = Len(list)
        /\ \A j \in 1..(i - 1) : reply[k].tuples[j] = Tuple(list[j].from)
    BY <1>2, <1>5 DEF SyncTypes, Collected
  <2>2. /\ Len(reply'[k].tuples) = i /\ reply'[k].tuples[i] = Tuple(list[i].from)
        /\ \A j \in 1..(i - 1) : reply'[k].tuples[j] = reply[k].tuples[j]
    BY <1>4, <1>7, <1>8, <2>1
  <2>3. \A j \in 1..i : j = i \/ j \in 1..(i - 1)
    BY <2>1
  <2>4. \A j \in 1..i : j \in DOMAIN list
    BY <1>2
  <2> QED
    BY <1>3, <1>7, <1>8, <2>1, <2>2, <2>3, <2>4 DEF Collected
<1>10. ReplyPaced(k)'
  <2>1. CASE h'[k].pc = "walk" /\ h'[k].it = list[i + 1].from /\ i + 1 \in DOMAIN list
    <3>1. PICK p : p \in PositionOf(h[k].it)' /\ p - 1 = i
      BY <1>2, <1>3, <2>1 DEF PositionOf
    <3>2. /\ reply'[k].count = Len(list') /\ Len(reply'[k].tuples) = p - 1
          /\ \A j \in 1..(p - 1) : reply'[k].tuples[j] = Tuple(list[j].from)'
      BY <1>9, <3>1 DEF Collected, Tuple
    <3>3. h'[k].pc = "walk" /\ Asking(k)'
      BY <1>3, <1>4, <2>1 DEF Asking
    <3> QED
      BY <3>1, <3>2, <3>3 DEF ReplyPaced, Collected, Tuple
  <2>2. CASE i = Len(list) /\ h'[k].pc = "reply" /\ h'[k].msg = h[k].msg
    <3>1. Collected(k, Len(list))'
      BY <1>3, <1>9, <2>2 DEF Collected
    <3> QED
      BY <1>3, <2>2, <3>1 DEF ReplyPaced, Asking
  <2> QED
    BY <1>4, <2>1, <2>2
<1>11. ASSUME NEW c \in 1..nconn, Settled(c)'
       PROVE  AgreedBut(c, k)'
  <2>1. c # k
    BY <1>1, <1>3, <1>11, NotYetSettled
  <2>2. Settled(c)
    BY <1>1, <1>2, <1>3, <1>11, <2>1, PacedTypes DEF Settled, Fresh, Hands
  <2>3. ~Without(k, c) /\ ~Without(k, c)'
    BY <1>3, <1>4 DEF Without
  <2> QED
    BY <1>1, <1>2, <1>3, <2>2, <2>3, AgreedStays
<1> QED
  BY <1>1, <1>2, <1>3, <1>8, <1>10, <1>11, TurnAgrees DEF SyncTypes

\* LOG_ON and LOG_OFF: a node is told of the client, unless it is the client's.
LEMMA Told ==
  ASSUME AgreeInv, PacedInv', NEW k \in Handler, Served(k), Announce(k)
  PROVE  \E i \in DOMAIN list :
            /\ h[k].it = list[i].from
            /\ IF list[i].from = k THEN inbox' = inbox
               ELSE inbox' = [inbox EXCEPT ![list[i].from] = Append(@,
                       IF h[k].msg.type = "LOG_ON" THEN UserOn(Tuple(k)) ELSE UserOff(Tuple(k)))]
<1>1. /\ k \in 1..nspawn /\ Turn(k)
      /\ inbox' = IF sent' = NoSend THEN inbox
                  ELSE [inbox EXCEPT ![sent'.conn] = Append(@, Text(k, sent'.kind))]
  BY ServedFrame
<1>2. PacedInv /\ SyncTypes /\ k \in Conn
  BY <1>1, PacedTypes DEF AgreeInv
<1>3. h[k].msg.from = k
  BY WalkMoves
<1> DEFINE kind == IF h[k].msg.type = "LOG_ON" THEN "USER_ON" ELSE "USER_OFF"
<1>4. PICK i \in DOMAIN list :
         /\ h[k].it = list[i].from
         /\ IF i \in Positions(k) THEN Quiet ELSE Send(list[i].fd, kind, list[i].from)
  BY <1>3 DEF Announce, PositionOf
<1> PICK d \in Conn : d = list[i].from
  BY <1>2, ListFacts
<1>5. CASE d = k
  <2>1. i \in Positions(k)
    BY <1>5 DEF Positions
  <2> QED
    BY <1>1, <1>4, <1>5, <2>1 DEF Quiet
<1>6. CASE d # k
  <2>1. d \in 1..nspawn /\ d \in 1..nconn /\ d # None
    BY <1>2, ListFacts, PacedTypes DEF None
  <2>2. i \notin Positions(k)
    <3>1. PICK j \in DOMAIN list : list[j].from = k
      BY WalkMoves DEF OnList
    <3>2. ASSUME conn[list[i].from].who = conn[list[j].from].who PROVE FALSE
      <4>1. i = j
        BY <1>2, <3>2 DEF PacedInv, Paced, ListPaced
      <4> QED
        BY <1>6, <3>1, <4>1
    <3> QED
      BY <3>1, <3>2 DEF Positions
  <2>3. Waits(d)
    BY <1>1, <1>2, <1>6, <2>1, OthersWait
  <2>4. NodePaced(list[i]) /\ ConnPaced(d)
    BY <1>2, <2>1 DEF PacedInv, Paced, ListPaced, ConnsPaced
  <2>5. Target(list[i].fd) = d /\ conn[d].st # "gone"
    BY <2>3, <2>4 DEF Waits, NodePaced, ConnPaced, Ended
  <2>6. sent' = [kind |-> kind, conn |-> d, to |-> d]
    BY <1>4, <2>1, <2>2, <2>5 DEF Send
  <2>7. sent'.conn = d /\ sent'.kind = kind /\ sent' # NoSend
    BY <2>6 DEF NoSend
  <2>8. Text(k, kind) = IF h[k].msg.type = "LOG_ON" THEN UserOn(Tuple(k)) ELSE UserOff(Tuple(k))
    BY <1>3 DEF Text
  <2>9. inbox' = [inbox EXCEPT ![d] = Append(@, Text(k, kind))]
    BY <1>1, <2>7
  <2> QED
    BY <1>4, <1>6, <2>8, <2>9
<1> QED
  BY <1>5, <1>6

LEMMA AnnounceAgrees ==
  ASSUME AgreeInv, PacedInv', NEW k \in Handler, Served(k), Announce(k)
  PROVE  AgreeInv'
<1>1. /\ k \in 1..nspawn /\ Turn(k)
      /\ UNCHANGED <<nspawn, nconn, view, misled>>
      /\ \A d \in Handler \ {k} : h'[d] = h[d]
      /\ \A c \in Conn \ {k} : conn'[c] = conn[c]
      /\ \A c \in Conn : Tuple(c)' = Tuple(c)
      /\ conn'[k].st = conn[k].st /\ conn'[k].who = conn[k].who
      /\ reply' = Compose(k)
  BY ServedFrame
<1>2. /\ PacedInv /\ SyncTypes /\ ScriptOK /\ AgreedOK /\ RepliesOK
      /\ Len(list) \in Nat /\ DOMAIN list = 1..Len(list) /\ 1..nconn \subseteq Conn
      /\ k \in 1..nconn /\ Tuple(k) \in Client
  <2>1. PacedInv /\ SyncTypes /\ ScriptOK /\ AgreedOK /\ RepliesOK /\ k \in 1..nconn
    BY <1>1, PacedTypes DEF AgreeInv
  <2> QED
    BY <2>1, PacedTypes DEF SyncTypes
<1>3. /\ h[k].pc = "walk" /\ shouldRun /\ list' = list /\ conn' = conn
      /\ h[k].msg.from = k /\ h[k].msg.type \in {"LOG_ON", "LOG_OFF"} /\ ~Asking(k)
      /\ h[k].pc \in Handling /\ OnList(k)
      /\ Goes(k) \/ (Ends(k) /\ h[k].msg.type = "LOG_ON")
  <2>1. h[k].msg.type # "GET_CLIENTS"
    BY DEF Announce
  <2> QED
    BY <2>1, WalkMoves DEF Requests, Asking
<1>4. PICK i \in DOMAIN list :
         /\ i \in Nat /\ i + 1 \in Nat \ {0} /\ h[k].it = list[i].from
         /\ PositionOf(h[k].it) = {i}
         /\ h'[k].pc = MoveTo(k, i + 1).pc /\ h'[k].it = MoveTo(k, i + 1).it
         /\ \/ h'[k].pc = "walk" /\ h'[k].msg = h[k].msg
            \/ h[k].msg.type = "LOG_ON" /\ h'[k].pc = "read"
            \/ h[k].msg.type = "LOG_OFF" /\ h'[k].pc = "close" /\ h'[k].msg = h[k].msg
  BY <1>3, WalkMoves
<1> PICK d \in 1..nconn : d = list[i].from
  BY <1>2, ListFacts
<1> DEFINE m == IF h[k].msg.type = "LOG_ON" THEN UserOn(Tuple(k)) ELSE UserOff(Tuple(k))
<1>5. IF d = k THEN inbox' = inbox ELSE inbox' = [inbox EXCEPT ![d] = Append(@, m)]
  <2>1. PICK j \in DOMAIN list :
            /\ h[k].it = list[j].from
            /\ IF list[j].from = k THEN inbox' = inbox
               ELSE inbox' = [inbox EXCEPT ![list[j].from] = Append(@, m)]
    BY Told
  <2>2. list[j].from = d
    BY <1>4, <2>1
  <2> QED
    BY <2>1, <2>2
<1>6. m \in Letters /\ ~Misleads(m)
  BY <1>2, OfOne
<1> HIDE DEF m
<1>7. reply' = reply
  BY <1>1, <1>3 DEF Compose
<1>8. ReplyPaced(k)'
  <2>1. reply[k].tuples = <<>>
    BY <1>2, <1>3 DEF RepliesOK, ReplyPaced
  <2>2. h'[k].pc # "reply" /\ ~(h'[k].pc = "walk" /\ Asking(k)')
    BY <1>3, <1>4 DEF Asking
  <2> QED
    BY <1>7, <2>1, <2>2 DEF ReplyPaced
<1>9. /\ inbox' \in [Conn -> Seq(Letters)]
      /\ inbox'[k] = inbox[k]
      /\ \A c \in Conn : inbox'[c] # inbox[c] => c = d /\ c # k
      /\ d # k => inbox'[d] = Append(inbox[d], m)
  <2>1. d \in Conn /\ inbox \in [Conn -> Seq(Letters)] /\ k \in Conn
    BY <1>2 DEF SyncTypes
  <2>2. Append(inbox[d], m) \in Seq(Letters)
    BY <1>6, <2>1
  <2> QED
    BY <1>5, <2>1, <2>2
<1>10. \A c \in Conn : inbox'[c] # inbox[c] =>
          c \in 1..nconn /\ \E x \in Letters : ~Misleads(x) /\ inbox'[c] = Append(inbox[c], x)
  BY <1>6, <1>9
<1>11. ASSUME NEW c \in 1..nconn, Settled(c)'
       PROVE  AgreedBut(c, k)'
  <2>1. c # k
    BY <1>1, <1>3, <1>11, NotYetSettled
  <2>2. Settled(c) /\ conn'[c].who = conn[c].who
    <3>1. c \in Conn \ {k} /\ conn' = conn /\ nspawn' = nspawn
      BY <1>1, <1>2, <1>3, <2>1
    <3>2. c <= nspawn => h'[c] = h[c]
      <4>1. c <= nspawn => c \in Handler \ {k}
        BY <1>2, <2>1, PacedTypes DEF Handler
      <4> QED
        BY <1>1, <4>1
    <3>3. Hands(c)' = Hands(c)
      BY <3>1, <3>2 DEF Hands
    <3> QED
      BY <1>11, <3>1, <3>3 DEF Settled, Fresh
  <2>3. PICK j \in DOMAIN list : list[j].from = c
    BY <1>2, <2>2, SettledIsListed DEF OnList, ScriptOK
  <2>4. (Ahead(h[k], c) <=> i <= j) /\ (Ahead(h[k], c)' <=> i + 1 <= j)
    <3> PICK n \in Nat \ {0} : n = i + 1
      BY <1>4
    <3>1. Ahead(h[k], list[j].from) <=> i <= j
      BY <1>2, <1>3, <1>4, StillAhead
    <3>2. Ahead(h[k], list[j].from)' <=> n <= j
      BY <1>2, <1>3, <1>4, AheadNext
    <3> QED
      BY <1>3, <2>3, <3>1, <3>2 DEF Ahead
  <2>5. /\ h[k].msg.type = "LOG_ON" => /\ Without(k, c) <=> i <= j
                                       /\ Without(k, c)' <=> i + 1 <= j
        /\ h[k].msg.type = "LOG_OFF" => /\ Without(k, c) <=> ~(i <= j)
                                        /\ Without(k, c)' <=> ~(i + 1 <= j)
    <3>1. h[k].msg.type = "LOG_ON" => (Without(k, c) <=> Ahead(h[k], c))
      BY <1>3 DEF Without
    <3>2. h[k].msg.type = "LOG_OFF" => (Without(k, c) <=> ~Ahead(h[k], c))
      BY <1>3 DEF Without
    <3>3. h[k].msg.type = "LOG_ON" => (Without(k, c)' <=> Ahead(h[k], c)')
      BY <1>4 DEF Without, Ahead
    <3>4. h[k].msg.type = "LOG_OFF" => (Without(k, c)' <=> ~Ahead(h[k], c)')
      BY <1>4 DEF Without
    <3> QED
      BY <2>4, <3>1, <3>2, <3>3, <3>4
  <2>6. CASE j # i \/ d = k
    <3>1. j # i /\ inbox'[c] = inbox[c]
      <4>1. j = i => c = d
        BY <2>3
      <4>2. d = c => j = i
        BY <1>2, <2>3 DEF PacedInv, Paced, ListPaced
      <4> QED
        BY <1>2, <1>9, <2>1, <2>6, <4>1, <4>2
    <3>2. i <= j <=> i + 1 <= j
      BY <1>2, <1>4, <3>1
    <3>3. Without(k, c)' <=> Without(k, c)
      BY <1>3, <2>5, <3>2
    <3> QED
      BY <1>1, <1>2, <1>3, <2>2, <3>1, <3>3, AgreedStays
  <2>7. CASE j = i /\ d # k
    <3>1. d = c /\ inbox'[c] = Append(inbox[c], m) /\ i <= j /\ ~(i + 1 <= j)
      <4>1. d = c /\ inbox'[c] = Append(inbox[c], m)
        BY <1>9, <2>3, <2>7
      <4> QED
        BY <1>4, <2>7, <4>1
    <3>2. AgreedBut(c, k)
      <4>1. \A x \in 1..nspawn : x # k => h[x].pc \in {"blocked", "done"}
        BY <1>1, <1>2, OthersWait DEF Waits
      <4> QED
        BY <1>1, <1>2, <2>2, <4>1, OneApart DEF AgreedOK, Settled
    <3>3. /\ Tuple(k) \in ListedTuples /\ Tuple(k) # Tuple(c)
          /\ ListedTuples' = ListedTuples /\ Tuple(k)' = Tuple(k) /\ Tuple(c)' = Tuple(c)
      <4>1. PICK n \in DOMAIN list : list[n].from = k
        BY <1>3 DEF OnList
      <4>2. Tuple(k) \in ListedTuples
        BY <4>1 DEF ListedTuples
      <4>3. n # j
        BY <2>1, <2>3, <4>1
      <4>4. Tuple(list[n].from) # Tuple(list[j].from)
        BY <1>2, <4>3, ListFacts
      <4>5. ListedTuples' = ListedTuples
        BY <1>3 DEF ListedTuples, Tuple
      <4> QED
        BY <1>3, <2>3, <4>1, <4>2, <4>4, <4>5 DEF Tuple
    <3>4. \A t \in Client :
             t \in Foreseen(c)' <=> Adds(c, m, t) \/ (t \in Foreseen(c) /\ ~Removes(c, m, t))
      BY <1>1, <1>2, <1>6, <2>2, <3>1, ForeseenSent
    <3>5. CASE h[k].msg.type = "LOG_ON"
      <4>1. \A t : Adds(c, m, t) <=> t = Tuple(k)
        BY <1>2, <3>5, OfOne DEF m
      <4>2. \A t : ~Removes(c, m, t)
        BY <1>2, <3>5, OfOne DEF m
      <4>3. Without(k, c) /\ ~Without(k, c)'
        BY <2>5, <3>1, <3>5
      <4> QED
        BY <3>2, <3>3, <3>4, <4>1, <4>2, <4>3 DEF AgreedBut
    <3>6. CASE h[k].msg.type = "LOG_OFF"
      <4>1. \A t : Removes(c, m, t) <=> t = Tuple(k)
        BY <1>2, <3>6, OfOne DEF m
      <4>2. \A t : ~Adds(c, m, t)
        BY <1>2, <3>6, OfOne DEF m
      <4>3. ~Without(k, c) /\ Without(k, c)'
        BY <2>5, <3>1, <3>6
      <4> QED
        BY <3>2, <3>3, <3>4, <4>1, <4>2, <4>3 DEF AgreedBut
    <3> QED
      BY <1>3, <3>5, <3>6
  <2> QED
    BY <2>6, <2>7
<1> QED
  BY <1>1, <1>2, <1>3, <1>7, <1>8, <1>9, <1>10, <1>11, TurnAgrees DEF SyncTypes

-----------------------------------------------------------------------------
(* The answer, and the changes of the list.                                  *)

\* GET_CLIENTS: the answer is sent.
LEMMA ReplyAgrees ==
  ASSUME AgreeInv, PacedInv', NEW k \in Handler, Served(k), Reply(k)
  PROVE  AgreeInv'
<1>1. /\ k \in 1..nspawn /\ Turn(k)
      /\ UNCHANGED <<nspawn, nconn, view, misled>>
      /\ \A d \in Handler \ {k} : h'[d] = h[d]
      /\ \A c \in Conn \ {k} : conn'[c] = conn[c]
      /\ \A c \in Conn : Tuple(c)' = Tuple(c)
      /\ conn'[k].st = conn[k].st /\ conn'[k].who = conn[k].who
      /\ reply' = Compose(k)
      /\ inbox' = IF sent' = NoSend THEN inbox
                  ELSE [inbox EXCEPT ![sent'.conn] = Append(@, Text(k, sent'.kind))]
  BY ServedFrame
<1>2. /\ PacedInv /\ SyncTypes /\ ScriptOK /\ FreshOK /\ AgreedOK /\ RepliesOK
      /\ Len(list) \in Nat /\ DOMAIN list = 1..Len(list) /\ 1..nconn \subseteq Conn
      /\ k \in 1..nconn /\ Tuple(k) \in Client /\ k \in Conn /\ k # None
      /\ k <= nspawn /\ k <= nspawn' /\ HandlerPaced(k) /\ Script(k)
      /\ h[k] \in Locals /\ h \in [Handler -> Locals]
  <2>1. /\ PacedInv /\ SyncTypes /\ ScriptOK /\ FreshOK /\ AgreedOK /\ RepliesOK
        /\ k \in 1..nconn
    BY <1>1, PacedTypes DEF AgreeInv
  <2>2. HandlerPaced(k) /\ Script(k) /\ Tuple(k) \in Client /\ k # None
    BY <1>1, <2>1, PacedTypes DEF PacedInv, Paced, HandlersPaced, ScriptOK, SyncTypes,
       None
  <2>3. k <= nspawn /\ k <= nspawn'
    BY <1>1
  <2> QED
    BY <2>1, <2>2, <2>3, PacedTypes
<1>3. /\ h[k].pc = "reply" /\ list' = list /\ conn' = conn /\ h[k].pc \in Handling
      /\ h'[k] = NextRequest(k) /\ Send(h[k].fd, "CLIENT_LIST", h[k].msg.from)
  BY <1>2 DEF Reply, In, Private, listVars, connVars, Handling
<1>4. h'[k].pc = "read"
  BY <1>2, <1>3 DEF NextRequest, Locals
<1>5. Asking(k) /\ Collected(k, Len(list))
  BY <1>2, <1>3 DEF RepliesOK, ReplyPaced
<1>6. Hands(k) = "GET_CLIENTS" /\ Ends(k)
  BY <1>2, <1>3, <1>4, <1>5 DEF Hands, Ends, Asking, Handling
<1>7. /\ conn[k].st = "asked" /\ conn[k].reqs = <<>> /\ Target(h[k].fd) = k
  <2>1. conn[k].st \in {"on", "asked"} /\ Target(h[k].fd) = k
    BY <1>2, <1>3, <1>5 DEF HandlerPaced, Takes, Asking
  <2>2. <<"LOG_ON", "GET_CLIENTS">> # <<>> /\ <<"GET_CLIENTS">> # <<>>
    OBVIOUS
  <2> QED
    BY <1>2, <1>6, <2>1, <2>2 DEF Script
<1>8. Fresh(k) /\ ~Fresh(k)' /\ Foreseen(k) = {}
  <2>1. Fresh(k)
    BY <1>6, <1>7 DEF Fresh
  <2>2. ~Fresh(k)'
    BY <1>3, <1>6, <1>7 DEF Fresh, Ends
  <2> QED
    BY <1>2, <2>1, <2>2 DEF FreshOK
<1> PICK ts \in Seq(Client) : ts = reply[k].tuples
  BY <1>2 DEF SyncTypes
<1>9. /\ reply[k].count = Len(ts) /\ Len(ts) = Len(list) /\ ts # <<>>
      /\ \A i \in 1..Len(ts) : ts[i] = Tuple(list[i].from)
  <2>1. Len(list) # 0
    BY <1>1, <1>2, <1>3, InHand DEF OnList
  <2> QED
    BY <1>5, <2>1, EmptySeq DEF Collected
<1> DEFINE m == ClientList(Len(ts), ts)
<1>10. m \in Letters /\ ~Misleads(m)
  BY <1>9, OfAll
<1>11. inbox' = [inbox EXCEPT ![k] = Append(@, m)]
  <2>1. sent' = [kind |-> "CLIENT_LIST", conn |-> k, to |-> h[k].msg.from]
    BY <1>2, <1>3, <1>7 DEF Send
  <2>2. sent'.conn = k /\ sent'.kind = "CLIENT_LIST" /\ sent' # NoSend
    BY <2>1 DEF NoSend
  <2>3. Text(k, "CLIENT_LIST") = m
    BY <1>9 DEF Text
  <2> QED
    BY <1>1, <2>2, <2>3
<1> HIDE DEF m
<1>12. /\ inbox' \in [Conn -> Seq(Letters)]
       /\ inbox'[k] = Append(inbox[k], m)
       /\ \A c \in Conn : c # k => inbox'[c] = inbox[c]
  <2>1. inbox \in [Conn -> Seq(Letters)]
    BY <1>2 DEF SyncTypes
  <2>2. Append(inbox[k], m) \in Seq(Letters)
    BY <1>2, <1>10, <2>1
  <2> QED
    BY <1>2, <1>11, <2>1, <2>2
<1>13. \A c \in Conn : inbox'[c] # inbox[c] =>
          c \in 1..nconn /\ \E x \in Letters : ~Misleads(x) /\ inbox'[c] = Append(inbox[c], x)
  BY <1>2, <1>10, <1>12
<1>14. /\ reply' = [reply EXCEPT ![k] = NoReply]
       /\ reply' \in [Handler -> [count : Nat, tuples : Seq(Client)]]
       /\ \A d \in Handler \ {k} : reply'[d] = reply[d]
       /\ reply'[k].tuples = <<>>
  <2>1. reply' = [reply EXCEPT ![k] = NoReply]
    BY <1>1, <1>3 DEF Compose
  <2>2. NoReply \in [count : Nat, tuples : Seq(Client)] /\ NoReply.tuples = <<>>
    BY DEF NoReply
  <2> QED
    BY <1>2, <2>1, <2>2 DEF SyncTypes
<1>15. ReplyPaced(k)'
  BY <1>4, <1>14 DEF ReplyPaced
<1>16. ASSUME NEW c \in 1..nconn, Settled(c)'
       PROVE  AgreedBut(c, k)'
  <2>1. ~Without(k, c) /\ ~Without(k, c)'
    BY <1>3, <1>4, <1>5 DEF Without, Ahead, Asking
  <2>2. CASE c # k
    <3>1. Settled(c)
      BY <1>1, <1>2, <1>3, <1>16, <2>2, PacedTypes DEF Settled, Fresh, Hands
    <3> QED
      BY <1>1, <1>2, <1>3, <1>12, <2>1, <2>2, <3>1, AgreedStays
  <2>3. CASE c = k
    <3>1. ASSUME NEW t \in Client
          PROVE  t \in Foreseen(k)' <=> t \in ListedTuples /\ t # Tuple(k)
      <4>1. t \in Foreseen(k)' <=> Adds(k, m, t) \/ (t \in Foreseen(k) /\ ~Removes(k, m, t))
        BY <1>1, <1>2, <1>10, <1>12, ForeseenSent
      <4>2. Adds(k, m, t) <=> Among(t, ts) /\ t # Tuple(k)
        BY <1>9, OfAll DEF m
      <4>3. Among(t, ts) <=> t \in ListedTuples
        BY <1>2, <1>9 DEF ListedTuples, Among
      <4> QED
        BY <1>8, <4>1, <4>2, <4>3
    <3>2. ListedTuples' = ListedTuples /\ Tuple(k)' = Tuple(k)
      BY <1>3 DEF ListedTuples, Tuple
    <3> QED
      BY <2>1, <2>3, <3>1, <3>2 DEF AgreedBut
  <2> QED
    BY <2>2, <2>3
<1> QED
  BY <1>1, <1>2, <1>3, <1>6, <1>8, <1>12, <1>13, <1>14, <1>15, <1>16, TurnAgrees

\* LOG_ON: the client is added to the list, and nobody is told yet.
LEMMA AddAgrees ==
  ASSUME AgreeInv, PacedInv', Calm, NEW k \in Handler, Served(k), Add(k)
  PROVE  AgreeInv'
<1>1. /\ k \in 1..nspawn /\ Turn(k)
      /\ UNCHANGED <<nspawn, nconn, view, misled>>
      /\ \A d \in Handler \ {k} : h'[d] = h[d]
      /\ \A c \in Conn \ {k} : conn'[c] = conn[c]
      /\ \A c \in Conn : Tuple(c)' = Tuple(c)
      /\ conn'[k].st = conn[k].st /\ conn'[k].who = conn[k].who
      /\ reply' = Compose(k)
      /\ inbox' = IF sent' = NoSend THEN inbox
                  ELSE [inbox EXCEPT ![sent'.conn] = Append(@, Text(k, sent'.kind))]
  BY ServedFrame
<1>2. /\ PacedInv /\ SyncTypes /\ AgreedOK /\ RepliesOK /\ k \in 1..nconn
      /\ 1..nconn \subseteq Conn /\ k <= nspawn /\ k <= nspawn'
  BY <1>1, PacedTypes DEF AgreeInv
<1>3. /\ h[k].msg.from = k /\ h[k].msg.type = "LOG_ON" /\ h[k].pc = "add"
      /\ \A i \in DOMAIN list : conn[list[i].from].who # conn[k].who
      /\ h'[k].pc = "head" /\ h'[k].msg = h[k].msg
      /\ \E n \in Nat : /\ n \in DOMAIN list' /\ list'[n] = [from |-> k, fd |-> h[k].fd]
                        /\ \A i \in DOMAIN list : i \in DOMAIN list' /\ list'[i] = list[i]
                        /\ \A i \in DOMAIN list' : i \in DOMAIN list \/ i = n
  BY <1>1, <1>2, NewNode
<1>4. conn' = conn /\ inbox' = inbox /\ reply' = reply
  BY <1>1, <1>3 DEF Add, Quiet, connVars, Compose, Asking
<1>5. h[k].pc \in Handling /\ h'[k].pc \in Handling
  BY <1>3 DEF Handling
<1>6. Goes(k)
  BY <1>2, <1>3, <1>4, <1>5 DEF Goes, Hands
<1>7. ReplyPaced(k)'
  BY <1>2, <1>3, <1>4 DEF ReplyPaced, RepliesOK
<1>8. \A t : t \in ListedTuples' <=> t \in ListedTuples \/ t = Tuple(k)
  BY <1>3, <1>4 DEF ListedTuples, Tuple
<1>9. Tuple(k) \notin ListedTuples
  BY <1>3 DEF ListedTuples, Tuple
<1>10. ASSUME NEW c \in 1..nconn, Settled(c)'
       PROVE  AgreedBut(c, k)'
  <2>1. c # k
    BY <1>1, <1>5, <1>6, <1>10, NotYetSettled
  <2>2. Settled(c)
    BY <1>1, <1>2, <1>4, <1>10, <2>1, PacedTypes DEF Settled, Fresh, Hands
  <2>3. AgreedBut(c, k)
    <3>1. \A x \in 1..nspawn : x # k => h[x].pc \in {"blocked", "done"}
      BY <1>1, <1>2, OthersWait DEF Waits
    <3> QED
      BY <1>1, <1>2, <2>2, <3>1, OneApart DEF AgreedOK, Settled
  <2>4. ~Without(k, c) /\ Without(k, c)'
    BY <1>3 DEF Without, Ahead
  <2>5. Foreseen(c)' = Foreseen(c)
    BY <1>1, <1>4, ForeseenStays
  <2>6. Tuple(k)' = Tuple(k) /\ Tuple(c)' = Tuple(c)
    BY <1>4 DEF Tuple
  <2> QED
    BY <1>8, <1>9, <2>3, <2>4, <2>5, <2>6 DEF AgreedBut
<1> QED
  BY <1>1, <1>2, <1>4, <1>6, <1>7, <1>10, TurnAgrees DEF SyncTypes

\* LOG_OFF: the client, of whose leaving all have been told, is taken out.
LEMMA RemoveAgrees ==
  ASSUME AgreeInv, PacedInv', NEW k \in Handler, Served(k), Remove(k)
  PROVE  AgreeInv'
<1>1. /\ k \in 1..nspawn /\ Turn(k)
      /\ UNCHANGED <<nspawn, nconn, view, misled>>
      /\ \A d \in Handler \ {k} : h'[d] = h[d]
      /\ \A c \in Conn \ {k} : conn'[c] = conn[c]
      /\ \A c \in Conn : Tuple(c)' = Tuple(c)
      /\ conn'[k].st = conn[k].st /\ conn'[k].who = conn[k].who
      /\ reply' = Compose(k)
      /\ inbox' = IF sent' = NoSend THEN inbox
                  ELSE [inbox EXCEPT ![sent'.conn] = Append(@, Text(k, sent'.kind))]
  BY ServedFrame
<1>2. /\ PacedInv /\ SyncTypes /\ AgreedOK /\ RepliesOK /\ k \in 1..nconn
      /\ 1..nconn \subseteq Conn /\ h \in [Handler -> Locals]
      /\ Len(list) \in Nat /\ DOMAIN list = 1..Len(list)
  BY <1>1, PacedTypes DEF AgreeInv
<1>3. /\ h[k].pc = "remove" /\ h[k].msg.type = "LOG_OFF" /\ ~Asking(k)
      /\ h'[k].pc = "done"
  <2>1. h[k].pc = "remove" /\ h'[k].pc = "done"
    BY <1>2 DEF Remove, In, Returned, NewHandler
  <2>2. h[k].msg.type = "LOG_OFF"
    BY <1>2, <2>1 DEF PacedInv, OffInv, LabelsOK, LabelOK
  <2> QED
    BY <2>1, <2>2 DEF Asking
<1>4. conn' = conn /\ inbox' = inbox /\ reply' = reply
  BY <1>1, <1>3 DEF Remove, Quiet, connVars, Compose
<1>5. PICK p \in DOMAIN list : list[p].from = k /\ list' = Unlink(p)
  BY <1>1, <1>2, <1>3, OwnNode DEF Remove
<1>6. Ends(k) /\ conn[k].st \in {"off", "gone"}
  BY <1>1, <1>2, <1>3, <1>4, ListedIfLoggedOn DEF Ends, Hands, Handling
<1>7. ReplyPaced(k)'
  BY <1>2, <1>3, <1>4 DEF ReplyPaced, RepliesOK
<1>8. \A t : t \in ListedTuples' <=> t \in ListedTuples /\ t # Tuple(k)
  <2>1. /\ DOMAIN list' = 1..(Len(list) - 1)
        /\ \A i \in 1..(Len(list) - 1) : list'[i] = IF i < p THEN list[i] ELSE list[i + 1]
    BY <1>5 DEF Unlink
  <2> DEFINE Was(i) == IF i < p THEN i ELSE i + 1
  <2>2. \A i \in DOMAIN list' : Was(i) \in DOMAIN list /\ Was(i) # p /\ list'[i] = list[Was(i)]
    BY <1>2, <2>1
  <2>3. \A j \in DOMAIN list : j # p => \E i \in DOMAIN list' : list'[i] = list[j]
    <3> SUFFICES ASSUME NEW j \in DOMAIN list, j # p
                 PROVE  \E i \in DOMAIN list' : list'[i] = list[j]
      OBVIOUS
    <3>1. CASE j < p
      BY <1>2, <2>1, <3>1
    <3>2. CASE j > p
      <4>1. j - 1 \in DOMAIN list' /\ ~(j - 1 < p) /\ (j - 1) + 1 = j
        BY <1>2, <2>1, <3>2
      <4> QED
        BY <2>1, <4>1
    <3> QED
      BY <1>2, <3>1, <3>2
  <2> HIDE DEF Was
  <2>4. \A j \in DOMAIN list : Tuple(list[j].from) = Tuple(list[p].from) => j = p
    BY <1>2, ListFacts
  <2>5. \A x : Tuple(x)' = Tuple(x)
    BY <1>4 DEF Tuple
  <2>6. ASSUME NEW t, t \in ListedTuples'
        PROVE  t \in ListedTuples /\ t # Tuple(k)
    <3> PICK i \in DOMAIN list' : t = Tuple(list[i].from)'
      BY <2>6 DEF ListedTuples
    <3> PICK j \in DOMAIN list : j # p /\ list'[i] = list[j]
      BY <2>2
    <3>1. t = Tuple(list[j].from)
      BY <1>4 DEF Tuple
    <3> QED
      BY <1>5, <2>4, <3>1 DEF ListedTuples
  <2>7. ASSUME NEW t, t \in ListedTuples, t # Tuple(k)
        PROVE  t \in ListedTuples'
    <3> PICK j \in DOMAIN list : t = Tuple(list[j].from)
      BY <2>7 DEF ListedTuples
    <3>1. j # p
      BY <1>5, <2>7
    <3> PICK i \in DOMAIN list' : list'[i] = list[j]
      BY <2>3, <3>1
    <3>2. t = Tuple(list[i].from)'
      BY <1>4 DEF Tuple
    <3> QED
      BY <3>2 DEF ListedTuples
  <2> QED
    BY <2>6, <2>7
<1>9. ASSUME NEW c \in 1..nconn, Settled(c)'
      PROVE  AgreedBut(c, k)'
  <2>1. c # k
    BY <1>4, <1>6, <1>9 DEF Settled
  <2>2. Settled(c)
    BY <1>1, <1>2, <1>4, <1>9, <2>1, PacedTypes DEF Settled, Fresh, Hands
  <2>3. AgreedBut(c, k)
    <3>1. \A x \in 1..nspawn : x # k => h[x].pc \in {"blocked", "done"}
      BY <1>1, <1>2, OthersWait DEF Waits
    <3> QED
      BY <1>1, <1>2, <2>2, <3>1, OneApart DEF AgreedOK, Settled
  <2>4. Without(k, c) /\ ~Without(k, c)'
    BY <1>3 DEF Without, Ahead
  <2>5. Foreseen(c)' = Foreseen(c)
    BY <1>1, <1>4, ForeseenStays
  <2>6. Tuple(k)' = Tuple(k) /\ Tuple(c)' = Tuple(c)
    BY <1>4 DEF Tuple
  <2> QED
    BY <1>8, <2>3, <2>4, <2>5, <2>6 DEF AgreedBut
<1> QED
  BY <1>1, <1>2, <1>4, <1>6, <1>7, <1>9, TurnAgrees DEF SyncTypes

-----------------------------------------------------------------------------
(* Together.                                                                 *)

LEMMA AgreeKeeps ==
  ASSUME AgreeInv, PacedInv', Calm, [SyncNext]_syncVars
  PROVE  AgreeInv'
<1>1. CASE Elsewise /\ \E w \in Client : Connect(w)
  BY <1>1, ConnectAgrees
<1>2. CASE Elsewise /\ \E c \in Conn : Ask(c) \/ LogOff(c) \/ Finish(c) \/ Die(c)
  BY <1>2, ClientAgrees DEF Die, Calm
<1>3. CASE Elsewise /\ (Sigint \/ MainStep \/ \E k \in Handler : ReadStdin(k))
  BY <1>3, MainAgrees, NoStdin DEF Sigint, Calm, AgreeInv
<1>4. ASSUME NEW k \in Handler, Served(k)
      PROVE  AgreeInv'
  BY <1>4, ServedFrame, PlainAgrees, BeginWalkAgrees, AnnounceAgrees, CollectAgrees,
     ReplyAgrees, AddAgrees, RemoveAgrees
<1>5. CASE \E c \in Conn : Take(c)
  BY <1>5, TakeAgrees
<1>6. CASE UNCHANGED syncVars
  <2>1. /\ UNCHANGED <<list, reply, inbox, view, misled, conn, nconn, nspawn, h>>
        /\ nspawn \in Nat /\ nspawn <= MaxThread
    BY <1>6, PacedTypes DEF syncVars, vars, clientVars, listVars, connVars, threadVars,
                            AgreeInv
  <2> QED
    BY <2>1, NoneIsNoConn, OthersAgree, PacedTypes DEF AgreeInv
<1> QED
  BY <1>1, <1>2, <1>3, <1>4, <1>5, <1>6 DEF SyncNext

LEMMA AgreeInit ==
  ASSUME SyncInit
  PROVE  AgreeInv
<1>0. PacedInv /\ 1..0 = {}
  BY PacedInit DEF SyncInit
<1>1. /\ PacedInv /\ nconn = 0 /\ nspawn = 0 /\ 1..0 = {} /\ ~misled
      /\ inbox = [c \in Conn |-> <<>>] /\ view = [c \in Conn |-> {}]
      /\ reply = [k \in Handler |-> NoReply]
      /\ \A k \in Handler : h[k].pc = "none"
  BY <1>0 DEF SyncInit, Init, NewHandler
<1>2. NoReply \in [count : Nat, tuples : Seq(Client)] /\ NoReply.tuples = <<>>
  BY DEF NoReply
<1>3. SyncTypes
  BY <1>1, <1>2 DEF SyncTypes
<1>4. UnmadeOK /\ SoundOK /\ ScriptOK /\ FreshOK /\ AgreedOK
  BY <1>1, EmptySeq DEF UnmadeOK, SoundOK, ScriptOK, FreshOK, AgreedOK
<1>5. RepliesOK
  BY <1>1, <1>2 DEF RepliesOK, ReplyPaced
<1> QED
  BY <1>1, <1>3, <1>4, <1>5 DEF AgreeInv

\* If the clients come and leave one at a time, then whenever the server is done
\* the list of every client that has asked (main.c:210 of the client) is, or is
\* by the messages still under way becoming, the server's without the client
\* itself, and no message makes a client run past its tuples: what serverUtils.c
\* announces (:287, :319) and answers (:361) adds up, however late the clients
\* take it, and however many they are.
THEOREM ListsAgree == Calm => (PacedSpec => []ClientsAgree)
<1> SUFFICES ASSUME Calm PROVE PacedSpec => []ClientsAgree
  OBVIOUS
<1>1. SyncInit => AgreeInv
  BY AgreeInit
<1>2. ASSUME AgreeInv, [PacedNext]_syncVars PROVE AgreeInv'
  <2>1. [SyncNext]_syncVars
    BY <1>2 DEF PacedNext
  <2>2. PacedInv'
    <3>1. PacedStep
      BY <1>2, <2>1, StepOfServer DEF PacedNext, PacedStep, syncVars
    <3> QED
      BY <1>2, <3>1, PacedKeeps DEF AgreeInv
  <2> QED
    BY <1>2, <2>1, <2>2, AgreeKeeps
<1>3. AgreeInv => ClientsAgree
  BY IdleAgrees
<1> QED
  BY <1>1, <1>2, <1>3, PTL DEF PacedSpec
=============================================================================
