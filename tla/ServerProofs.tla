---------------------------- MODULE ServerProofs ----------------------------
(***************************************************************************)
(* Proofs about Server, for every number of clients, connections, threads  *)
(* and descriptors, and whatever fails around it.                          *)
(***************************************************************************)
EXTENDS Server, SequenceTheorems, WellFoundedInduction, TLAPS

\* The labels at which a handler has a request in its hands, and those at which
\* it serves the descriptor it took from acceptedClient for that request.
Handling == {"got", "add", "head", "walk", "reply", "close", "remove"}
Serving == {"add", "head", "walk", "reply"}

\* What holds of a handler with locals l: it reads a connection where it should,
\* it alone has taken the length of a request whose text it will read, it has a
\* request where it should, and its descriptor leads no further back than that
\* and is not standard input.
HandlerOK(k, l) ==
    /\ l.pc \in {"blocked", "body"} => l.conn \in Conn
    /\ l.pc = "body" => conn[l.conn].hdr = k /\ conn[l.conn].reqs # <<>>
    /\ l.pc \in Handling => l.msg # NoMsg
    /\ l.conn <= naccd /\ l.msg.from <= naccd
    /\ l.pc \in Serving => l.fd # Stdin /\ NotBefore(l.fd, l.msg.from)

MainOK ==
    /\ mpc \in {"check", "enter", "select", "spawn", "exit", "join", "exited"}
    /\ shouldRun \in BOOLEAN /\ destroyed \in BOOLEAN
    /\ accepted \in Fd \cup {Bad, Stdin} /\ (shouldRun => accepted # Stdin)
    /\ nconn \in 0..MaxConn /\ naccd \in 0..nconn /\ nspawn \in 0..MaxThread
    /\ threadCounter \in Nat /\ joined \in Nat
    /\ slots \in [0..(MAX_CLIENTS_SIZE - 1) -> Handler \cup {None}]
    /\ fault \in {"none", "misframed", "freed", "null", "race", "sigpipe",
                  "overflow", "join"}

\* No descriptor leads to a connection not yet accepted, and acceptedClient to
\* the newest or to none.
FdsOK ==
    /\ fdtab \in [Fd -> Conn \cup {None}]
    /\ \A f \in Fd : fdtab[f] <= naccd
    /\ Target(accepted) \in {None, naccd}

ListOK ==
    /\ list \in Seq(Nodes)
    /\ \A i \in DOMAIN list : /\ list[i].from <= naccd
                              /\ NotBefore(list[i].fd, list[i].from)

SentOK ==
    /\ sent \in [kind : {"USER_ON", "USER_OFF", "CLIENT_LIST"},
                 conn : Conn, to : Conn] \cup {NoSend}
    /\ NeverBackwards

ConnsOK == conn \in [Conn -> Connections]

HandlersOK == /\ h \in [Handler -> Locals]
              /\ \A k \in Handler : HandlerOK(k, h[k])

\* The inductive invariant.
Inv == MainOK /\ FdsOK /\ ListOK /\ SentOK /\ ConnsOK /\ HandlersOK

\* It says all that TypeOK and Forward say, and two things more: a handler that
\* is to read a text is the one that took its length, so the text is still
\* there; and a handler that handles a request has one.
LEMMA InvImplies ==
  ASSUME Inv
  PROVE  TypeOK /\ Forward
<1>1. TypeOK
  BY DEF Inv, MainOK, FdsOK, ListOK, SentOK, ConnsOK, HandlersOK, TypeOK
<1>2. Forward
  BY DEF Inv, FdsOK, ListOK, SentOK, HandlersOK, HandlerOK, Serving, Forward
<1> QED
  BY <1>1, <1>2

-----------------------------------------------------------------------------
(* Facts about the operators of the model.                                 *)

\* The first of a set of positions is one of them.
LEMMA FirstProperties ==
  ASSUME NEW S \in SUBSET Nat, S # {}
  PROVE  First(S) \in S /\ \A j \in S : First(S) <= j
<1> DEFINE R == {p \in Nat \X Nat : p[1] < p[2]}
<1>1. IsWellFoundedOn(R, Nat)
  BY NatLessThanWellFounded DEF OpToRel
<1>2. PICK x \in S : \A y \in S : <<y, x>> \notin R
  <2> HIDE DEF R
  <2> QED
    BY <1>1, WFMin
<1>3. \A y \in S : x <= y
  <2> TAKE y \in S
  <2>1. x \in Nat /\ y \in Nat
    OBVIOUS
  <2>2. ~ (y < x)
    <3>1. <<y, x>> \in Nat \X Nat /\ <<y, x>>[1] = y /\ <<y, x>>[2] = x
      BY <2>1
    <3> QED
      BY <1>2, <3>1
  <2> QED
    BY <2>1, <2>2
<1> QED
  BY <1>3 DEF First

\* A descriptor leads to a connection or nowhere.
LEMMA TargetType ==
  ASSUME FdsOK, naccd \in Nat, NEW f
  PROVE  /\ Target(f) \in Conn \cup {None}
         /\ Target(f) <= naccd
BY DEF FdsOK, Target, None

\* What the unlinking of one node leaves: the other nodes.
LEMMA UnlinkProperties ==
  ASSUME list \in Seq(Nodes), NEW i \in DOMAIN list
  PROVE  /\ Unlink(i) \in Seq(Nodes)
         /\ \A j \in DOMAIN Unlink(i) : \E m \in DOMAIN list : Unlink(i)[j] = list[m]
<1> DEFINE n == Len(list) - 1
<1>1. list \in Seq(Nodes) /\ DOMAIN list = 1..Len(list) /\ Len(list) \in Nat
  BY LenProperties
<1>2. n \in Nat
  BY <1>1
<1>3. \A j \in 1..Len(list) : list[j] \in Nodes
  BY <1>1, ElementOfSeq
<1>4. Unlink(i) \in [1..n -> Nodes]
  BY <1>1, <1>2, <1>3 DEF Unlink
<1>5. Unlink(i) \in Seq(Nodes)
  BY <1>2, <1>4, SeqDef
<1> QED
  BY <1>1, <1>4, <1>5 DEF Unlink

-----------------------------------------------------------------------------
(* Parts of a step.                                                        *)

\* A step that writes no message leaves NeverBackwards as it should be.
LEMMA QuietOK == ASSUME Quiet PROVE SentOK'
BY DEF Quiet, SentOK, NoSend, NeverBackwards, None

\* What Send writes goes to a connection no older than c, if f leads there.
LEMMA SendOK ==
  ASSUME Inv, NEW f, NEW c \in Conn, NotBefore(f, c),
         NEW kind \in {"USER_ON", "USER_OFF", "CLIENT_LIST"}, Send(f, kind, c)
  PROVE  SentOK'
<1>1. Target(f) \in Conn \cup {None}
  BY TargetType DEF Inv, MainOK
<1>2. CASE Target(f) = None \/ conn[Target(f)].st = "gone"
  BY <1>2 DEF Send, SentOK, NoSend, NeverBackwards, None
<1>3. CASE ~(Target(f) = None \/ conn[Target(f)].st = "gone")
  BY <1>1, <1>3 DEF Send, SentOK, NeverBackwards, NotBefore
<1> QED
  BY <1>2, <1>3

\* An undefined or deadly step changes nothing but fault.
LEMMA FailOK ==
  ASSUME Inv,
         NEW what \in {"misframed", "freed", "null", "race", "sigpipe",
                       "overflow", "join"},
         Fail(what)
  PROVE  Inv'
<1> USE DEF Fail, mainVars, threadVars, listVars, connVars
<1>1. MainOK'
  BY DEF Inv, MainOK
<1>2. FdsOK' /\ ListOK' /\ SentOK' /\ ConnsOK'
  BY DEF Inv, FdsOK, ListOK, SentOK, ConnsOK, NeverBackwards, NotBefore, Target
<1>3. HandlersOK'
  BY DEF Inv, HandlersOK, HandlerOK, NotBefore, Target
<1> QED
  BY <1>1, <1>2, <1>3 DEF Inv

\* New locals of one handler, which must be sound, disturb no other handler.
LEMMA OneHandlerOK ==
  ASSUME HandlersOK, NEW k \in Handler, NEW l \in Locals, HandlerOK(k, l),
         h' = [h EXCEPT ![k] = l], UNCHANGED <<conn, naccd, fdtab>>
  PROVE  HandlersOK'
<1>1. h' \in [Handler -> Locals]
  BY DEF HandlersOK
<1>2. ASSUME NEW j \in Handler PROVE HandlerOK(j, h[j])'
  <2>1. CASE j = k
    <3>1. h'[j] = l
      BY <2>1 DEF HandlersOK
    <3> QED
      BY <2>1, <3>1 DEF HandlerOK, NotBefore, Target
  <2>2. CASE j # k
    <3>1. h'[j] = h[j] /\ HandlerOK(j, h[j])
      BY <2>2 DEF HandlersOK
    <3> QED
      BY <3>1 DEF HandlerOK, NotBefore, Target
  <2> QED
    BY <2>1, <2>2
<1> QED
  BY <1>1, <1>2 DEF HandlersOK

\* A step of a handler that changes its locals and perhaps writes a message.
LEMMA PrivateOK ==
  ASSUME Inv, NEW k \in Handler, NEW l \in Locals, HandlerOK(k, l),
         h' = [h EXCEPT ![k] = l], Private, SentOK'
  PROVE  Inv'
<1> USE DEF Private, Elsewhere, mainVars, threadVars, listVars, connVars
<1>1. MainOK'
  BY DEF Inv, MainOK
<1>2. FdsOK' /\ ListOK' /\ ConnsOK'
  BY DEF Inv, FdsOK, ListOK, ConnsOK, NotBefore, Target
<1>3. HandlersOK'
  BY OneHandlerOK DEF Inv
<1> QED
  BY <1>1, <1>2, <1>3 DEF Inv

\* The same for a step at one label that writes nothing.
LEMMA LocalOK ==
  ASSUME Inv, NEW k \in Handler, NEW label, NEW l \in Locals, HandlerOK(k, l),
         Local(k, label, l)
  PROVE  Inv'
BY PrivateOK, QuietOK DEF Local

-----------------------------------------------------------------------------
(* The locals the steps leave behind.                                      *)

\* What a handler's locals are made of.
LEMMA LocalsFacts ==
  ASSUME HandlersOK, NEW k \in Handler
  PROVE  /\ HandlerOK(k, h[k])
         /\ h[k] \in Locals
         /\ h[k].pc \in Handling => h[k].msg \in [type : Requests, from : Conn]
<1>1. HandlerOK(k, h[k]) /\ h[k] \in Locals
  BY DEF HandlersOK
<1>2. h[k].msg \in Messages
  BY <1>1 DEF Locals
<1>3. h[k].pc \in Handling => h[k].msg # NoMsg
  BY <1>1 DEF HandlerOK
<1> QED
  BY <1>1, <1>2, <1>3 DEF Messages

\* A thread that has returned holds nothing.
LEMMA ReturnedOK ==
  ASSUME Inv, NEW k \in Handler
  PROVE  Returned \in Locals /\ HandlerOK(k, Returned)
<1>1. Returned = [pc |-> "done", fd |-> Bad, conn |-> None, msg |-> NoMsg,
                  it |-> None, buf |-> {}, cnt |-> 0]
  BY DEF Returned, NewHandler
<1>2. Returned \in Locals
  BY <1>1 DEF Locals, Messages
<1>3. naccd \in Nat
  BY BoundsAssumption DEF Inv, MainOK
<1> QED
  BY <1>1, <1>2, <1>3 DEF HandlerOK, Handling, Serving, NoMsg, None

\* Nor does one that goes on to read have a request in its hands.
LEMMA NextRequestOK ==
  ASSUME Inv, NEW k \in Handler
  PROVE  NextRequest(k) \in Locals /\ HandlerOK(k, NextRequest(k))
<1>1. h[k] \in Locals /\ HandlerOK(k, h[k])
  BY LocalsFacts DEF Inv
<1>2. NextRequest(k) \in Locals
  BY <1>1 DEF NextRequest, Locals, Messages
<1>3. /\ NextRequest(k).pc = "read" /\ NextRequest(k).msg = NoMsg
      /\ NextRequest(k).conn = h[k].conn
  BY <1>1 DEF NextRequest, Locals
<1>4. naccd \in Nat
  BY BoundsAssumption DEF Inv, MainOK
<1> QED
  BY <1>1, <1>2, <1>3, <1>4 DEF HandlerOK, Handling, Serving, NoMsg, None

\* What follows a walk depends on the kind of the request.
LEMMA AfterWalkOK ==
  ASSUME Inv, NEW k \in Handler, h[k].pc \in {"head", "walk"}
  PROVE  AfterWalk(k) \in Locals /\ HandlerOK(k, AfterWalk(k))
<1>1. /\ h[k] \in Locals /\ HandlerOK(k, h[k])
      /\ h[k].msg \in [type : Requests, from : Conn]
  BY LocalsFacts DEF Inv, Handling
<1>2. h[k].msg.type \in {"LOG_ON", "GET_CLIENTS", "LOG_OFF"}
  BY <1>1 DEF Requests
<1>3. CASE h[k].msg.type = "LOG_ON"
  BY <1>3, NextRequestOK DEF AfterWalk
<1>4. CASE h[k].msg.type = "LOG_OFF"
  <2>1. AfterWalk(k) = [h[k] EXCEPT !.pc = "close", !.it = None]
    BY <1>4 DEF AfterWalk
  <2>2. AfterWalk(k) \in Locals
    BY <1>1, <2>1 DEF Locals
  <2> QED
    BY <1>1, <2>1, <2>2 DEF HandlerOK, Handling, Serving, Locals
<1>5. CASE h[k].msg.type = "GET_CLIENTS"
  <2>1. AfterWalk(k) = [h[k] EXCEPT !.pc = "reply", !.it = None]
    BY <1>5 DEF AfterWalk
  <2>2. AfterWalk(k) \in Locals
    BY <1>1, <2>1 DEF Locals
  <2> QED
    BY <1>1, <2>1, <2>2 DEF HandlerOK, Handling, Serving, Locals
<1> QED
  BY <1>2, <1>3, <1>4, <1>5

\* A walk goes on with a node of the list, or is over.
LEMMA MoveToOK ==
  ASSUME Inv, NEW k \in Handler, h[k].pc \in {"head", "walk"}, NEW i \in Nat \ {0}
  PROVE  MoveTo(k, i) \in Locals /\ HandlerOK(k, MoveTo(k, i))
<1>1. h[k] \in Locals /\ HandlerOK(k, h[k])
  BY LocalsFacts DEF Inv
<1>2. CASE i > Len(list)
  BY <1>2, AfterWalkOK DEF MoveTo
<1>3. CASE ~(i > Len(list))
  <2>1. MoveTo(k, i) = [h[k] EXCEPT !.pc = "walk", !.it = list[i].from]
    BY <1>3 DEF MoveTo
  <2>2. list[i] \in Nodes
    <3>1. list \in Seq(Nodes) /\ Len(list) \in Nat
      BY LenProperties DEF Inv, ListOK
    <3> QED
      BY <1>3, <3>1, ElementOfSeq
  <2>3. MoveTo(k, i) \in Locals
    BY <1>1, <2>1, <2>2 DEF Locals, Nodes
  <2> QED
    BY <1>1, <2>1, <2>3 DEF HandlerOK, Handling, Serving, Locals
<1> QED
  BY <1>2, <1>3

-----------------------------------------------------------------------------
(* The steps of a handler.                                                 *)

\* Threads that count themselves, and look at acceptedClient.
LEMMA StartKeeps ==
  ASSUME Inv, NEW k \in Handler, Start(k) \/ Count(k)
  PROVE  Inv'
<1>1. /\ h[k] \in Locals /\ HandlerOK(k, h[k])
      /\ threadCounter \in Nat /\ accepted \in Fd \cup {Bad, Stdin}
  BY LocalsFacts DEF Inv, MainOK
<1>2. CASE Start(k)
  <2> DEFINE l == [h[k] EXCEPT !.pc = "count", !.cnt = threadCounter]
  <2>1. l \in Locals
    BY <1>1 DEF Locals
  <2>2. HandlerOK(k, l)
    BY <1>1, <2>1 DEF HandlerOK, Handling, Serving, Locals
  <2> QED
    BY <1>2, <2>1, <2>2, LocalOK DEF Start
<1>3. CASE Count(k)
  <2> DEFINE l == [h[k] EXCEPT !.pc = "read", !.cnt = 0, !.fd = accepted]
  <2>1. l \in Locals
    BY <1>1 DEF Locals
  <2>2. HandlerOK(k, l)
    BY <1>1, <2>1 DEF HandlerOK, Handling, Serving, Locals
  <2>3. h' = [h EXCEPT ![k] = l]
    BY <1>1, <1>3 DEF Count, Inv, HandlersOK
  <2>4. HandlersOK'
    BY <1>3, <2>1, <2>2, <2>3, OneHandlerOK
       DEF Count, Inv, Elsewhere, mainVars, connVars
  <2>5. MainOK'
    BY <1>1, <1>3 DEF Count, Inv, MainOK, Locals, Elsewhere, mainVars, listVars, connVars
  <2>6. FdsOK' /\ ListOK' /\ ConnsOK'
    BY <1>3 DEF Count, Inv, FdsOK, ListOK, ConnsOK, NotBefore, Target,
                Elsewhere, mainVars, listVars, connVars
  <2>7. SentOK'
    BY <1>3, QuietOK DEF Count
  <2> QED
    BY <2>4, <2>5, <2>6, <2>7 DEF Inv
<1> QED
  BY <1>2, <1>3

\* Steps of receiveData that change nothing but the handler's locals.
LEMMA ReadKeeps ==
  ASSUME Inv, NEW k \in Handler, Read(k) \/ ReadEof(k) \/ ReadTextClosed(k)
  PROVE  Inv'
<1>1. h[k] \in Locals /\ HandlerOK(k, h[k]) /\ naccd \in Nat
  BY LocalsFacts, BoundsAssumption DEF Inv, MainOK
<1>2. CASE Read(k)
  <2> DEFINE c == Target(h[k].fd)
             l == [h[k] EXCEPT !.pc = "blocked", !.conn = c]
  <2>1. c \in Conn \cup {None} /\ c <= naccd
    BY <1>1, TargetType DEF Inv
  <2>2. CASE c = None
    BY <1>2, <2>2, ReturnedOK, LocalOK DEF Read
  <2>3. CASE c # None
    <3>1. l \in Locals
      BY <1>1, <2>1 DEF Locals
    <3>2. HandlerOK(k, l)
      <4> HIDE DEF c
      <4> QED
        BY <1>1, <2>1, <2>3 DEF HandlerOK, Handling, Serving, Locals
    <3> QED
      BY <1>2, <2>3, <3>1, <3>2, LocalOK DEF Read
  <2> QED
    BY <2>2, <2>3
<1>3. CASE ReadEof(k)
  BY <1>3, ReturnedOK, LocalOK DEF ReadEof
<1>4. CASE ReadTextClosed(k)
  BY <1>4, ReturnedOK, LocalOK DEF ReadTextClosed
<1> QED
  BY <1>2, <1>3, <1>4

\* Steps of a handler that change its connection: nobody else has the length of
\* a request from there.
LEMMA TakeOK ==
  ASSUME Inv, NEW k \in Handler, NEW l \in Locals, NEW c \in Conn, NEW r \in Connections,
         h' = [h EXCEPT ![k] = l], conn' = [conn EXCEPT ![c] = r],
         conn[c].hdr \in {None, k},
         l.pc = "body" => l.conn = c /\ r.hdr = k /\ r.reqs # <<>>,
         l.pc = "blocked" => l.conn \in Conn,
         l.pc \in Handling => l.msg # NoMsg,
         l.conn <= naccd, l.msg.from <= naccd, l.pc \notin Serving,
         Quiet, Elsewhere, UNCHANGED <<threadCounter, fdtab, listVars, nconn>>
  PROVE  Inv'
<1> USE DEF Elsewhere, mainVars, listVars
<1>1. MainOK' /\ FdsOK' /\ ListOK' /\ SentOK'
  BY QuietOK DEF Inv, MainOK, FdsOK, ListOK, NotBefore, Target
<1>2. ConnsOK'
  BY DEF Inv, ConnsOK
<1>3. h' \in [Handler -> Locals]
  BY DEF Inv, HandlersOK
<1>4. conn'[c] = r /\ \A d \in Conn \ {c} : conn'[d] = conn[d]
  BY DEF Inv, ConnsOK
<1>5. ASSUME NEW j \in Handler PROVE HandlerOK(j, h[j])'
  <2>1. CASE j = k
    <3>1. h'[j] = l
      BY <2>1 DEF Inv, HandlersOK
    <3> QED
      BY <1>4, <2>1, <3>1 DEF HandlerOK
  <2>2. CASE j # k
    <3>1. h'[j] = h[j] /\ HandlerOK(j, h[j])
      BY <2>2 DEF Inv, HandlersOK
    <3>2. h[j].pc = "body" => h[j].conn \in Conn \ {c}
      BY <2>2, <3>1 DEF HandlerOK, Handler, None
    <3>3. h[j].pc = "body" => conn'[h[j].conn] = conn[h[j].conn]
      BY <1>4, <3>2
    <3> QED
      BY <3>1, <3>3 DEF HandlerOK, NotBefore, Target
  <2> QED
    BY <2>1, <2>2
<1> QED
  BY <1>1, <1>2, <1>3, <1>5 DEF Inv, HandlersOK

\* The length of a request is taken.
LEMMA ReadLengthKeeps ==
  ASSUME Inv, NEW k \in Handler, ReadLength(k)
  PROVE  Inv'
<1> DEFINE c == h[k].conn
           r == [conn[c] EXCEPT !.hdr = k]
           l == [h[k] EXCEPT !.pc = "body"]
<1>1. /\ h[k] \in Locals /\ HandlerOK(k, h[k])
      /\ h[k].pc = "blocked" /\ conn[c].hdr = None /\ conn[c].reqs # <<>>
  BY LocalsFacts DEF Inv, ReadLength, In
<1>2. c \in Conn /\ conn[c] \in Connections
  BY <1>1 DEF HandlerOK, Inv, ConnsOK
<1>3. r \in Connections /\ r.hdr = k /\ r.reqs # <<>>
  BY <1>1, <1>2 DEF Connections
<1>4. /\ l \in Locals /\ l.pc = "body" /\ l.conn = c
      /\ l.conn <= naccd /\ l.msg.from <= naccd
  BY <1>1 DEF Locals, HandlerOK
<1>5. h' = [h EXCEPT ![k] = l] /\ conn' = [conn EXCEPT ![c] = r]
  BY <1>1, <1>2 DEF ReadLength, Inv, HandlersOK, ConnsOK
<1>6. Quiet /\ Elsewhere /\ UNCHANGED <<threadCounter, fdtab, listVars, nconn>>
  BY DEF ReadLength
<1> HIDE DEF c, r, l
<1> QED
  BY <1>1, <1>2, <1>3, <1>4, <1>5, <1>6, TakeOK DEF Handling, Serving

\* The text of a request is taken by the handler that took the length.
LEMMA ReadTextKeeps ==
  ASSUME Inv, NEW k \in Handler, ReadText(k)
  PROVE  Inv'
<1> DEFINE c == h[k].conn
           m == [type |-> Head(conn[c].reqs), from |-> c]
           r == [conn[c] EXCEPT !.reqs = Tail(@), !.hdr = None]
           l == IF shouldRun
                THEN [h[k] EXCEPT !.pc = "got", !.conn = None, !.msg = m]
                ELSE Returned
<1>1. h[k] \in Locals /\ HandlerOK(k, h[k]) /\ h[k].pc = "body"
  BY LocalsFacts DEF Inv, ReadText, In
<1>2. /\ c \in Conn /\ conn[c] \in Connections /\ c <= naccd
      /\ conn[c].hdr = k /\ conn[c].reqs # <<>>
  BY <1>1 DEF HandlerOK, Inv, ConnsOK
<1>3. /\ Head(conn[c].reqs) \in Requests /\ Tail(conn[c].reqs) \in Seq(Requests)
  BY <1>2, HeadTailProperties DEF Connections
<1>4. r \in Connections
  BY <1>2, <1>3 DEF Connections
<1>5. m \in Messages /\ m # NoMsg /\ m.from = c
  <2>1. m \in [type : Requests, from : Conn] /\ m.from = c /\ m.type \in Requests
    BY <1>2, <1>3
  <2> QED
    BY <2>1 DEF Messages, NoMsg, Requests
<1>6. naccd \in Nat /\ Returned \in Locals /\ HandlerOK(k, Returned)
  BY ReturnedOK, BoundsAssumption DEF Inv, MainOK
<1>7. CASE shouldRun
  <2>1. l = [h[k] EXCEPT !.pc = "got", !.conn = None, !.msg = m]
    BY <1>7
  <2> HIDE DEF l, m, c
  <2>2. l \in Locals
    BY <1>1, <1>5, <2>1 DEF Locals
  <2>3. l.pc = "got" /\ l.conn = None /\ l.msg = m
    BY <1>1, <2>1 DEF Locals
  <2> USE DEF l, m, c
  <2>4. h' = [h EXCEPT ![k] = l] /\ conn' = [conn EXCEPT ![c] = r]
    BY <1>1, <1>2, <1>7 DEF ReadText, Inv, HandlersOK, ConnsOK
  <2>5. Quiet /\ Elsewhere /\ UNCHANGED <<threadCounter, fdtab, listVars, nconn>>
    BY DEF ReadText
  <2> HIDE DEF c, r, l, m
  <2>6. /\ l.pc \notin {"blocked", "body"} /\ l.pc \notin Serving /\ l.msg # NoMsg
        /\ l.conn <= naccd /\ l.msg.from <= naccd
    BY <1>2, <1>5, <1>6, <2>3 DEF Serving, None
  <2> QED
    BY <1>2, <1>4, <2>2, <2>4, <2>5, <2>6, TakeOK
<1>8. CASE ~shouldRun
  <2>1. l = Returned /\ Returned.pc = "done" /\ Returned.conn = None
        /\ Returned.msg.from = None
    BY <1>8 DEF Returned, NewHandler, NoMsg
  <2>2. h' = [h EXCEPT ![k] = l] /\ conn' = [conn EXCEPT ![c] = r]
    BY <1>1, <1>2, <1>8 DEF ReadText, Inv, HandlersOK, ConnsOK
  <2>3. Quiet /\ Elsewhere /\ UNCHANGED <<threadCounter, fdtab, listVars, nconn>>
    BY DEF ReadText
  <2> HIDE DEF c, r, l, m
  <2>4. /\ l.pc \notin {"blocked", "body"} /\ l.pc \notin Handling
        /\ l.pc \notin Serving /\ l.conn <= naccd /\ l.msg.from <= naccd
    BY <1>6, <2>1 DEF Handling, Serving, None
  <2>5. l \in Locals
    BY <1>6, <2>1
  <2> QED
    BY <1>2, <1>4, <2>2, <2>3, <2>4, <2>5, TakeOK
<1> QED
  BY <1>7, <1>8

\* Nothing is looked at.
LEMMA SkipKeeps ==
  ASSUME Inv, NEW k \in Handler, Skip(k)
  PROVE  Inv'
BY NextRequestOK, LocalOK DEF Skip

\* A handler that reads standard input ends, or takes what is typed for a request.
LEMMA StdinKeeps ==
  ASSUME Inv, NEW k \in Handler, ReadStdin(k)
  PROVE  Inv'
<1>1. CASE Local(k, "read", Returned)
  BY <1>1, ReturnedOK, LocalOK
<1>2. CASE Fail("misframed")
  BY <1>2, FailOK
<1> QED
  BY <1>1, <1>2 DEF ReadStdin

\* The second look at acceptedClient: it leads to the newest connection, which
\* is no older than the one the request came from.
LEMMA DispatchKeeps ==
  ASSUME Inv, NEW k \in Handler, Dispatch(k)
  PROVE  Inv'
<1> DEFINE l == Handled(k, accepted)
<1>1. /\ h[k] \in Locals /\ HandlerOK(k, h[k]) /\ h[k].pc = "got"
      /\ naccd \in Nat /\ accepted \in Fd \cup {Bad, Stdin}
      /\ (shouldRun => accepted # Stdin)
      /\ h[k].msg \in [type : Requests, from : Conn]
  BY LocalsFacts, BoundsAssumption DEF Inv, MainOK, Dispatch, Local, In, Handling
<1>2. NotBefore(accepted, h[k].msg.from)
  BY <1>1 DEF Inv, FdsOK, NotBefore, HandlerOK
<1>3. CASE shouldRun
  <2> DEFINE label == IF h[k].msg.type = "LOG_ON" THEN "add" ELSE "head"
  <2>1. l = [h[k] EXCEPT !.pc = label, !.fd = accepted] /\ label \in {"add", "head"}
    BY <1>3 DEF Handled
  <2> HIDE DEF l, label
  <2>2. l \in Locals /\ l.pc = label /\ l.fd = accepted /\ l.msg = h[k].msg
        /\ l.conn = h[k].conn
    BY <1>1, <2>1 DEF Locals
  <2> QED
    BY <1>1, <1>2, <1>3, <2>1, <2>2, LocalOK DEF HandlerOK, Handling, Serving, Dispatch, l
<1>4. CASE ~shouldRun
  <2>1. l = [NextRequest(k) EXCEPT !.fd = accepted]
    BY <1>4 DEF Handled
  <2>2. NextRequest(k) \in Locals /\ HandlerOK(k, NextRequest(k))
        /\ NextRequest(k).pc = "read"
    BY <1>1, NextRequestOK DEF NextRequest, Locals
  <2> HIDE DEF l
  <2>3. l \in Locals /\ l.pc = "read" /\ l.msg = NextRequest(k).msg
        /\ l.conn = NextRequest(k).conn
    BY <1>1, <2>1, <2>2 DEF Locals
  <2> QED
    BY <2>2, <2>3, LocalOK DEF HandlerOK, Handling, Serving, Dispatch, l
<1> QED
  BY <1>3, <1>4

\* addToTupleList puts the descriptor of the handler into the new node.
LEMMA AddKeeps ==
  ASSUME Inv, NEW k \in Handler, Add(k)
  PROVE  Inv'
<1> DEFINE node == [from |-> h[k].msg.from, fd |-> h[k].fd]
           l == IF Listed(h[k].msg.from) \/ ~shouldRun
                THEN NextRequest(k) ELSE [h[k] EXCEPT !.pc = "head"]
<1>1. /\ h[k] \in Locals /\ HandlerOK(k, h[k]) /\ h[k].pc = "add"
      /\ h[k].msg \in [type : Requests, from : Conn]
  BY LocalsFacts DEF Inv, Add, In, Handling
<1>2. node \in Nodes /\ node.from <= naccd /\ NotBefore(node.fd, node.from)
  BY <1>1 DEF Nodes, Locals, HandlerOK, Serving
<1>3. list' = list \/ list' = Append(list, node)
  BY DEF Add
<1>4. ListOK'
  <2>1. CASE list' = list
    BY <2>1 DEF Inv, ListOK, Add, Elsewhere, mainVars, NotBefore, Target
  <2>2. CASE list' = Append(list, node)
    <3>1. list \in Seq(Nodes) /\ Len(list) \in Nat /\ DOMAIN list = 1..Len(list)
      BY LenProperties DEF Inv, ListOK
    <3> HIDE DEF node
    <3>2. /\ list' \in Seq(Nodes) /\ Len(list') = Len(list) + 1
          /\ \A i \in 1..Len(list) : list'[i] = list[i]
          /\ list'[Len(list) + 1] = node
      BY <1>2, <2>2, <3>1, AppendProperties
    <3>3. DOMAIN list' = 1..(Len(list) + 1)
      BY <3>2, LenProperties
    <3>4. UNCHANGED <<naccd, fdtab>>
      BY DEF Add, Elsewhere, mainVars
    <3>5. ASSUME NEW i \in DOMAIN list'
          PROVE  list'[i].from <= naccd /\ NotBefore(list'[i].fd, list'[i].from)
      <4>1. CASE i = Len(list) + 1
        BY <1>2, <3>2, <4>1
      <4>2. CASE i # Len(list) + 1
        <5>1. i \in DOMAIN list /\ list'[i] = list[i]
          BY <3>1, <3>2, <3>3, <4>2
        <5> QED
          BY <5>1 DEF Inv, ListOK
      <4> QED
        BY <4>1, <4>2
    <3> QED
      BY <3>2, <3>4, <3>5 DEF ListOK, NotBefore, Target
  <2> QED
    BY <1>3, <2>1, <2>2
<1>5. l \in Locals /\ HandlerOK(k, l)
  <2>1. CASE Listed(h[k].msg.from) \/ ~shouldRun
    BY <2>1, NextRequestOK
  <2>2. CASE ~(Listed(h[k].msg.from) \/ ~shouldRun)
    <3>1. l = [h[k] EXCEPT !.pc = "head"]
      BY <2>2
    <3> HIDE DEF l
    <3> QED
      BY <1>1, <3>1 DEF Locals, HandlerOK, Handling, Serving
  <2> QED
    BY <2>1, <2>2
<1>6. h' = [h EXCEPT ![k] = l] /\ UNCHANGED <<conn, naccd, fdtab>>
  BY DEF Add, Elsewhere, mainVars, connVars, Inv, HandlersOK
<1>7. HandlersOK'
  BY <1>5, <1>6, OneHandlerOK DEF Inv
<1>8. MainOK' /\ FdsOK' /\ ConnsOK' /\ SentOK'
  BY QuietOK DEF Add, Elsewhere, mainVars, connVars, Inv, MainOK, FdsOK, ConnsOK, Target
<1> QED
  BY <1>4, <1>7, <1>8 DEF Inv

\* The walk over the list: a message goes to the connection of the node's
\* descriptor, which is no older than the node's own.
LEMMA WalkKeeps ==
  ASSUME Inv, NEW k \in Handler,
         BeginWalk(k) \/ StopWalk(k) \/ Announce(k) \/ Collect(k)
  PROVE  Inv'
<1>1. /\ list \in Seq(Nodes) /\ Len(list) \in Nat /\ DOMAIN list = 1..Len(list)
      /\ \A i \in DOMAIN list : list[i] \in Nodes
  BY LenProperties, ElementOfSeq DEF Inv, ListOK
<1>2. CASE BeginWalk(k)
  <2> DEFINE l == IF shouldRun THEN MoveTo(k, 1) ELSE AfterWalk(k)
  <2>1. h[k].pc = "head" /\ Local(k, "head", l)
    BY <1>2 DEF BeginWalk, Local, In
  <2>2. l \in Locals /\ HandlerOK(k, l)
    BY <2>1, MoveToOK, AfterWalkOK
  <2> QED
    BY <2>1, <2>2, LocalOK
<1>3. CASE StopWalk(k)
  <2>1. h[k].pc = "walk" /\ Local(k, "walk", AfterWalk(k))
    BY <1>3 DEF StopWalk, Local, In
  <2> QED
    BY <2>1, AfterWalkOK, LocalOK
<1>4. CASE Announce(k)
  <2>1. h[k].pc = "walk" /\ Private
    BY <1>4 DEF Announce, In
  <2>2. PICK i \in PositionOf(h[k].it) :
          /\ IF i \in Positions(h[k].msg.from) THEN Quiet
             ELSE Send(list[i].fd,
                       IF h[k].msg.type = "LOG_ON" THEN "USER_ON" ELSE "USER_OFF",
                       list[i].from)
          /\ h' = [h EXCEPT ![k] = MoveTo(k, i + 1)]
    BY <1>4 DEF Announce
  <2>3. i \in DOMAIN list /\ i + 1 \in Nat \ {0}
    BY <1>1 DEF PositionOf
  <2>4. SentOK'
    <3>1. CASE i \in Positions(h[k].msg.from)
      BY <2>2, <3>1, QuietOK
    <3>2. CASE i \notin Positions(h[k].msg.from)
      <4> DEFINE kind == IF h[k].msg.type = "LOG_ON" THEN "USER_ON" ELSE "USER_OFF"
      <4>1. Send(list[i].fd, kind, list[i].from)
        BY <2>2, <3>2
      <4>2. kind \in {"USER_ON", "USER_OFF", "CLIENT_LIST"}
        OBVIOUS
      <4>3. list[i].from \in Conn /\ NotBefore(list[i].fd, list[i].from)
        BY <1>1, <2>3 DEF Nodes, Inv, ListOK
      <4> HIDE DEF kind
      <4> QED
        BY <4>1, <4>2, <4>3, SendOK
    <3> QED
      BY <3>1, <3>2
  <2>5. MoveTo(k, i + 1) \in Locals /\ HandlerOK(k, MoveTo(k, i + 1))
    BY <2>1, <2>3, MoveToOK
  <2> QED
    BY <2>1, <2>2, <2>4, <2>5, PrivateOK
<1>5. CASE Collect(k)
  <2>1. h[k].pc = "walk" /\ Private /\ Quiet
    BY <1>5 DEF Collect, In
  <2>2. PICK i \in PositionOf(h[k].it) :
          h' = [h EXCEPT ![k] = [MoveTo(k, i + 1) EXCEPT !.buf = @ \cup {h[k].it}]]
    BY <1>5 DEF Collect
  <2>3. i \in DOMAIN list /\ i + 1 \in Nat \ {0} /\ list[i].from = h[k].it
    BY <1>1 DEF PositionOf
  <2>4. h[k].it \in Conn
    BY <1>1, <2>3 DEF Nodes
  <2> DEFINE m == MoveTo(k, i + 1)
             l == [m EXCEPT !.buf = @ \cup {h[k].it}]
  <2>5. m \in Locals /\ HandlerOK(k, m)
    BY <2>1, <2>3, MoveToOK
  <2>6. h' = [h EXCEPT ![k] = l]
    BY <2>2
  <2> HIDE DEF m
  <2>7. l \in Locals /\ HandlerOK(k, l)
    BY <2>4, <2>5 DEF Locals, HandlerOK
  <2> HIDE DEF l
  <2> QED
    BY <2>1, <2>6, <2>7, PrivateOK, QuietOK
<1> QED
  BY <1>2, <1>3, <1>4, <1>5

\* The reply goes where the handler's descriptor leads.
LEMMA ReplyKeeps ==
  ASSUME Inv, NEW k \in Handler, Reply(k)
  PROVE  Inv'
<1>1. /\ h[k].pc = "reply" /\ HandlerOK(k, h[k])
      /\ h[k].msg \in [type : Requests, from : Conn]
  BY LocalsFacts DEF Inv, Reply, In, Handling
<1>2. h[k].msg.from \in Conn /\ NotBefore(h[k].fd, h[k].msg.from)
  BY <1>1 DEF HandlerOK, Serving
<1>3. SentOK'
  BY <1>2, SendOK DEF Reply
<1> QED
  BY <1>3, NextRequestOK, PrivateOK DEF Reply

\* A descriptor is closed: where it led, it leads nowhere.
LEMMA CloseKeeps ==
  ASSUME Inv, NEW k \in Handler, Close(k)
  PROVE  Inv'
<1> USE DEF Elsewhere, mainVars, listVars, connVars
<1> DEFINE l == [h[k] EXCEPT !.pc = "remove"]
<1>1. /\ h[k] \in Locals /\ HandlerOK(k, h[k]) /\ h[k].pc = "close"
      /\ naccd \in Nat
  BY LocalsFacts, BoundsAssumption DEF Inv, MainOK, Close, In
<1>2. fdtab' \in [Fd -> Conn \cup {None}] /\ \A f \in Fd : fdtab'[f] \in {fdtab[f], None}
  BY DEF Close, Inv, FdsOK
<1>3. /\ UNCHANGED <<accepted, naccd, conn, list>>
      /\ h' = [h EXCEPT ![k] = l]
  BY DEF Close, Inv, HandlersOK
<1>4. ASSUME NEW f PROVE (Target(f))' \in {Target(f), None}
  BY <1>2 DEF Target
<1>5. ASSUME NEW f, NEW c, NotBefore(f, c) PROVE NotBefore(f, c)'
  BY <1>4, <1>5 DEF NotBefore
<1>6. FdsOK'
  BY <1>1, <1>2, <1>3 DEF Inv, FdsOK, Target, None
<1>7. ListOK'
  BY <1>3, <1>5 DEF Inv, ListOK
<1>8. HandlersOK'
  <2>1. l \in Locals /\ HandlerOK(k, l)
    BY <1>1 DEF Locals, HandlerOK, Handling, Serving
  <2>2. h' \in [Handler -> Locals]
    BY <1>3, <2>1 DEF Inv, HandlersOK
  <2>3. ASSUME NEW j \in Handler PROVE HandlerOK(j, h[j])'
    <3>1. HandlerOK(j, h'[j])
      BY <1>3, <2>1 DEF Inv, HandlersOK
    <3> QED
      BY <1>3, <1>5, <3>1 DEF HandlerOK
  <2> QED
    BY <2>2, <2>3 DEF HandlersOK
<1>9. MainOK' /\ ConnsOK' /\ SentOK'
  BY QuietOK DEF Close, Inv, MainOK, ConnsOK
<1> QED
  BY <1>6, <1>7, <1>8, <1>9 DEF Inv

\* A node is unlinked, the others stay.
LEMMA RemoveKeeps ==
  ASSUME Inv, NEW k \in Handler, Remove(k)
  PROVE  Inv'
<1> USE DEF Elsewhere, mainVars, connVars
<1> DEFINE from == h[k].msg.from
<1>1. list \in Seq(Nodes) /\ Len(list) \in Nat /\ DOMAIN list = 1..Len(list)
  BY LenProperties DEF Inv, ListOK
<1>2. UNCHANGED <<naccd, conn, fdtab>> /\ h' = [h EXCEPT ![k] = Returned]
  BY DEF Remove
<1>3. ListOK'
  <2>1. CASE Listed(from)
    <3>1. First(Positions(from)) \in DOMAIN list
      <4>1. Positions(from) \in SUBSET Nat /\ Positions(from) # {}
        BY <1>1, <2>1 DEF Listed, Positions
      <4> QED
        BY <4>1, FirstProperties DEF Positions
    <3> DEFINE i == First(Positions(from))
    <3>2. list' = Unlink(i)
      BY <2>1 DEF Remove
    <3> HIDE DEF i
    <3>3. /\ list' \in Seq(Nodes)
          /\ \A j \in DOMAIN list' : \E m \in DOMAIN list : list'[j] = list[m]
      BY <1>1, <3>1, <3>2, UnlinkProperties DEF i
    <3> QED
      BY <1>2, <3>3 DEF Inv, ListOK, NotBefore, Target
  <2>2. CASE ~Listed(from)
    BY <1>2, <2>2 DEF Remove, Inv, ListOK, NotBefore, Target
  <2> QED
    BY <2>1, <2>2
<1>4. HandlersOK'
  BY <1>2, ReturnedOK, OneHandlerOK DEF Inv
<1>5. MainOK' /\ FdsOK' /\ ConnsOK' /\ SentOK'
  BY QuietOK DEF Remove, Inv, MainOK, FdsOK, ConnsOK, Target
<1> QED
  BY <1>3, <1>4, <1>5 DEF Inv

\* All steps of a handler.
LEMMA HandlerKeeps ==
  ASSUME Inv, NEW k \in Handler, HandlerStep(k)
  PROVE  Inv'
<1>1. CASE Start(k) \/ Count(k)
  BY <1>1, StartKeeps
<1>2. CASE Read(k) \/ ReadEof(k) \/ ReadTextClosed(k)
  BY <1>2, ReadKeeps
<1>3. CASE ReadLength(k) \/ ReadText(k) \/ Dispatch(k) \/ Add(k)
  BY <1>3, ReadLengthKeeps, ReadTextKeeps, DispatchKeeps, AddKeeps
<1>4. CASE BeginWalk(k) \/ StopWalk(k) \/ Announce(k) \/ Collect(k)
  BY <1>4, WalkKeeps
<1>5. CASE Skip(k) \/ Reply(k) \/ Close(k) \/ Remove(k)
  BY <1>5, SkipKeeps, ReplyKeeps, CloseKeeps, RemoveKeeps
<1>6. CASE \/ ReadTextAsLength(k) \/ ReadTextElsewhere(k) \/ WalkFreed(k)
           \/ BrokenPipe(k) \/ CloseUnlisted(k) \/ RemoveFromEmpty(k)
           \/ UseFreed(k) \/ Race(k)
  BY <1>6, FailOK DEF ReadTextAsLength, ReadTextElsewhere, WalkFreed, BrokenPipe,
                      CloseUnlisted, RemoveFromEmpty, UseFreed, Race
<1> QED
  BY <1>1, <1>2, <1>3, <1>4, <1>5, <1>6 DEF HandlerStep

-----------------------------------------------------------------------------
(* The steps of the clients and of the surroundings.                       *)

\* A step outside the server changes connections only, and takes away no text
\* whose length has been read.
LEMMA OutsideOK ==
  ASSUME Inv, Outside, nconn' \in nconn..MaxConn, conn' \in [Conn -> Connections],
         \A c \in 1..naccd : conn[c].hdr # None =>
            conn'[c].hdr = conn[c].hdr /\ (conn[c].reqs # <<>> => conn'[c].reqs # <<>>)
  PROVE  Inv'
<1> USE DEF Outside, mainVars, threadVars, listVars
<1>1. MainOK'
  BY BoundsAssumption DEF Inv, MainOK
<1>2. FdsOK' /\ ListOK' /\ SentOK' /\ ConnsOK'
  BY QuietOK DEF Inv, FdsOK, ListOK, ConnsOK, NotBefore, Target
<1>3. HandlersOK'
  <2>1. ASSUME NEW k \in Handler PROVE HandlerOK(k, h[k])'
    <3>1. HandlerOK(k, h[k]) /\ naccd \in Nat
      BY BoundsAssumption DEF Inv, HandlersOK, MainOK
    <3>2. h[k].pc = "body" => /\ h[k].conn \in 1..naccd
                              /\ conn[h[k].conn].hdr = k /\ k # None
                              /\ conn[h[k].conn].reqs # <<>>
      BY <3>1 DEF HandlerOK, Conn, Handler, None
    <3>3. h[k].pc = "body" => /\ conn'[h[k].conn].hdr = k
                              /\ conn'[h[k].conn].reqs # <<>>
      BY <3>2
    <3> QED
      BY <3>1, <3>3 DEF HandlerOK, NotBefore, Target
  <2> QED
    BY <2>1 DEF Inv, HandlersOK
<1> QED
  BY <1>1, <1>2, <1>3 DEF Inv

\* A new connection is none the server has accepted.
LEMMA ConnectKeeps ==
  ASSUME Inv, NEW w \in Client, Connect(w)
  PROVE  Inv'
<1> DEFINE r == [NewConn EXCEPT !.st = "on", !.who = w, !.reqs = <<"LOG_ON">>]
<1>1. /\ nconn \in 0..MaxConn /\ naccd \in 0..nconn /\ MaxConn \in Nat
      /\ nconn < MaxConn /\ nconn' = nconn + 1
  BY BoundsAssumption DEF Inv, MainOK, Connect
<1>2. r \in Connections
  <2>1. <<"LOG_ON">> \in Seq(Requests)
    BY DEF Requests
  <2>2. NewConn \in [st : {"none"}, who : {None}, reqs : {<<>>}, hdr : {None}]
    BY DEF NewConn
  <2> HIDE DEF r
  <2>3. r \in [st : {"on"}, who : {w}, reqs : {<<"LOG_ON">>}, hdr : {None}]
    BY <2>2 DEF r
  <2> QED
    BY <2>1, <2>3 DEF Connections
<1>3. conn' = [conn EXCEPT ![nconn + 1] = r] /\ conn \in [Conn -> Connections]
  BY <1>1 DEF Connect, Inv, ConnsOK
<1> HIDE DEF r
<1>4. conn' \in [Conn -> Connections] /\ \A c \in 1..naccd : conn'[c] = conn[c]
  BY <1>1, <1>2, <1>3 DEF Conn
<1> QED
  BY <1>1, <1>4, OutsideOK DEF Connect

\* Requests, the end of a client, and its death.
LEMMA ClientKeeps ==
  ASSUME Inv, NEW c \in Conn, Ask(c) \/ LogOff(c) \/ Finish(c) \/ Die(c)
  PROVE  Inv'
<1>1. /\ nconn \in 0..MaxConn /\ naccd \in 0..nconn /\ MaxConn \in Nat
      /\ conn \in [Conn -> Connections] /\ conn[c] \in Connections
  BY BoundsAssumption DEF Inv, MainOK, ConnsOK
<1>2. ASSUME NEW from, NEW to \in {"asked", "off"}, NEW type \in Requests,
             Request(c, from, to, type)
      PROVE  Inv'
  <2> DEFINE r == [conn[c] EXCEPT !.st = to, !.reqs = Append(@, type)]
  <2>1. conn' = [conn EXCEPT ![c] = r] /\ Outside /\ nconn' = nconn
    BY <1>1, <1>2 DEF Request
  <2>2. Append(conn[c].reqs, type) \in Seq(Requests) /\ Append(conn[c].reqs, type) # <<>>
    BY <1>1, AppendProperties DEF Connections
  <2>3. r \in Connections /\ r.hdr = conn[c].hdr /\ r.reqs # <<>>
    BY <1>1, <2>2 DEF Connections
  <2> HIDE DEF r
  <2>4. conn' \in [Conn -> Connections] /\ conn'[c] = r
        /\ \A d \in Conn \ {c} : conn'[d] = conn[d]
    BY <1>1, <2>1, <2>3
  <2>5. 1..naccd \subseteq Conn
    BY <1>1 DEF Conn
  <2> QED
    BY <1>1, <2>1, <2>3, <2>4, <2>5, OutsideOK
<1>3. CASE Ask(c)
  BY <1>2, <1>3 DEF Ask, Requests
<1>4. CASE LogOff(c)
  BY <1>2, <1>4 DEF LogOff, Requests
<1>5. CASE Finish(c) \/ Die(c)
  <2>1. PICK rest \in {conn[c].reqs, IF conn[c].hdr = None THEN <<>> ELSE conn[c].reqs} :
           conn' = [conn EXCEPT ![c].st = "gone", ![c].reqs = rest]
    <3>1. CASE Finish(c)
      <4>1. [conn EXCEPT ![c].st = "gone"]
               = [conn EXCEPT ![c].st = "gone", ![c].reqs = conn[c].reqs]
        BY <1>1 DEF Connections
      <4> QED
        BY <3>1, <4>1 DEF Finish
    <3>2. CASE Die(c)
      BY <3>2 DEF Die
    <3> QED
      BY <1>5, <3>1, <3>2
  <2> DEFINE r == [conn[c] EXCEPT !.st = "gone", !.reqs = rest]
  <2>2. conn' = [conn EXCEPT ![c] = r] /\ Outside /\ nconn' = nconn
    BY <1>1, <1>5, <2>1 DEF Finish, Die
  <2>3. rest \in Seq(Requests) /\ (conn[c].hdr # None => rest = conn[c].reqs)
    BY <1>1, <2>1 DEF Connections
  <2>4. r \in Connections /\ r.hdr = conn[c].hdr /\ r.reqs = rest
    BY <1>1, <2>3 DEF Connections
  <2> HIDE DEF r
  <2>5. conn' \in [Conn -> Connections] /\ conn'[c] = r
        /\ \A d \in Conn \ {c} : conn'[d] = conn[d]
    BY <1>1, <2>2, <2>4
  <2>6. 1..naccd \subseteq Conn
    BY <1>1 DEF Conn
  <2> QED
    BY <1>1, <2>2, <2>3, <2>4, <2>5, <2>6, OutsideOK
<1> QED
  BY <1>3, <1>4, <1>5

-----------------------------------------------------------------------------
(* The steps of main, and CTRL + C.                                        *)

\* A step of main that opens and closes nothing and starts no thread.
LEMMA MainPartOK ==
  ASSUME Inv, Quiet, MainOK', FdsOK', list' \in {list, <<>>},
         UNCHANGED <<naccd, fdtab, conn, h>>
  PROVE  Inv'
<1>1. ListOK'
  <2>1. CASE list' = list
    BY <2>1 DEF Inv, ListOK, NotBefore, Target
  <2>2. CASE list' = <<>>
    <3>1. list' \in Seq(Nodes) /\ DOMAIN list' = {}
      BY <2>2, EmptySeq
    <3> QED
      BY <3>1 DEF ListOK
  <2> QED
    BY <2>1, <2>2
<1>2. SentOK' /\ ConnsOK'
  BY QuietOK DEF Inv, ConnsOK
<1>3. HandlersOK'
  BY DEF Inv, HandlersOK, HandlerOK, NotBefore, Target
<1> QED
  BY <1>1, <1>2, <1>3 DEF Inv

\* Steps of main that touch neither descriptors nor threads, and CTRL + C.
LEMMA SmallMainKeeps ==
  ASSUME Inv, \/ CheckRun \/ EnterSelect \/ WakeToExit \/ AcceptFails \/ GiveUp
              \/ SpawnFails \/ Release \/ Join \/ Sigint
  PROVE  Inv'
<1> USE DEF InMain, mainVars, threadVars, listVars, connVars
<1>0. Target(Stdin) = None /\ Stdin # Bad
  BY BoundsAssumption DEF Target, Stdin, Bad, Fd
<1>1. CASE CheckRun \/ EnterSelect \/ WakeToExit
  <2>1. ASSUME NEW label, NEW next \in {"enter", "select"}, MainGoes(label, next)
        PROVE  Inv'
    <3>1. MainOK' /\ FdsOK' /\ Quiet /\ UNCHANGED <<list, naccd, fdtab, conn, h>>
      BY <2>1 DEF MainGoes, Inv, MainOK, FdsOK, Target
    <3> QED
      BY <3>1, MainPartOK
  <2>2. ASSUME NEW label, MainStops(label)
        PROVE  Inv'
    <3>1. MainOK' /\ FdsOK' /\ Quiet /\ UNCHANGED <<list, naccd, fdtab, conn, h>>
      BY <1>0, <2>2 DEF MainStops, Inv, MainOK, FdsOK, Target
    <3> QED
      BY <3>1, MainPartOK
  <2> QED
    BY <1>1, <2>1, <2>2 DEF CheckRun, EnterSelect, WakeToExit
<1>2. CASE AcceptFails
  <2>1. MainOK' /\ Quiet /\ UNCHANGED <<list, naccd, fdtab, conn, h>>
    BY <1>0, <1>2 DEF AcceptFails, Inv, MainOK
  <2>2. (Target(accepted))' = None
    BY <1>2, BoundsAssumption DEF AcceptFails, Target, Bad, Fd
  <2>3. FdsOK'
    BY <2>1, <2>2 DEF Inv, FdsOK
  <2> QED
    BY <2>1, <2>3, MainPartOK
<1>3. CASE GiveUp \/ Sigint
  <2>1. MainOK' /\ FdsOK' /\ Quiet /\ UNCHANGED <<list, naccd, fdtab, conn, h>>
    BY <1>0, <1>3 DEF GiveUp, Sigint, Inv, MainOK, FdsOK, Target
  <2> QED
    BY <2>1, MainPartOK
<1>5. CASE SpawnFails
  <2>1. slots' \in [0..(MAX_CLIENTS_SIZE - 1) -> Handler \cup {None}]
    BY <1>5 DEF SpawnFails, Inv, MainOK
  <2>2. MainOK' /\ FdsOK' /\ Quiet /\ UNCHANGED <<list, naccd, fdtab, conn, h>>
    BY <1>5, <2>1 DEF SpawnFails, Inv, MainOK, FdsOK, Target
  <2> QED
    BY <2>2, MainPartOK
<1>4. CASE Release \/ Join
  <2>1. FdsOK' /\ Quiet /\ UNCHANGED <<naccd, fdtab, conn, h>>
    BY <1>4 DEF Release, Join, Inv, FdsOK, Target
  <2>2. list' \in {list, <<>>}
    BY <1>4 DEF Release, Join
  <2>3. CASE Release
    BY <2>1, <2>2, <2>3, MainPartOK DEF Release, Inv, MainOK
  <2>4. CASE Join
    <3>1. MainOK'
      BY <2>4 DEF Join, Inv, MainOK
    <3> QED
      BY <2>1, <2>2, <3>1, MainPartOK
  <2> QED
    BY <1>4, <2>3, <2>4
<1> QED
  BY <1>1, <1>2, <1>3, <1>4, <1>5

\* acceptedClient leads to the connection just accepted, the newest.
LEMMA AcceptKeeps ==
  ASSUME Inv, Accept
  PROVE  Inv'
<1> USE DEF mainVars, threadVars, listVars, connVars
<1>1. /\ nconn \in 0..MaxConn /\ naccd \in 0..nconn /\ MaxConn \in Nat /\ naccd < nconn
      /\ naccd' = naccd + 1 /\ fdtab \in [Fd -> Conn \cup {None}]
  BY BoundsAssumption DEF Inv, MainOK, FdsOK, Accept, Pending
<1>2. accepted' \in Fd /\ Stdin \notin Fd
  <2>0. Stdin \notin Fd
    BY BoundsAssumption DEF Stdin, Fd
  <2>1. FreeFds \in SUBSET Nat /\ FreeFds # {}
    BY BoundsAssumption DEF Accept, FreeFds, Fd
  <2> QED
    BY <2>0, <2>1, FirstProperties DEF Accept, FreeFds
<1>3. fdtab' = [fdtab EXCEPT ![accepted'] = naccd + 1]
  BY DEF Accept
<1>4. /\ fdtab' \in [Fd -> Conn \cup {None}]
      /\ fdtab'[accepted'] = naccd + 1
      /\ \A f \in Fd : fdtab'[f] \in {fdtab[f], naccd + 1}
  BY <1>1, <1>2, <1>3 DEF Conn
<1>5. FdsOK'
  BY <1>1, <1>2, <1>4 DEF Inv, FdsOK, Target, Conn, None
<1>6. ASSUME NEW f, NEW c \in Int, c <= naccd, NotBefore(f, c)
      PROVE  NotBefore(f, c)'
  BY <1>1, <1>4, <1>6 DEF NotBefore, Target
<1>7. ListOK'
  <2>1. ASSUME NEW i \in DOMAIN list
        PROVE  list[i].from \in Int /\ list[i].from <= naccd + 1
               /\ NotBefore(list[i].fd, list[i].from)'
    <3>1. list[i] \in Nodes
      BY ElementOfSeq, LenProperties DEF Inv, ListOK
    <3>2. list[i].from \in Int /\ list[i].from <= naccd
      BY <3>1 DEF Nodes, Conn, Inv, ListOK
    <3>3. list' = list /\ NotBefore(list[i].fd, list[i].from)
      BY DEF Accept, Inv, ListOK
    <3> QED
      BY <1>1, <1>6, <3>2, <3>3 DEF NotBefore, Target
  <2> QED
    BY <1>1, <2>1 DEF Accept, Inv, ListOK
<1>8. HandlersOK'
  <2>1. ASSUME NEW k \in Handler PROVE HandlerOK(k, h[k])'
    <3>1. h[k] \in Locals /\ HandlerOK(k, h[k])
      BY DEF Inv, HandlersOK
    <3>2. h[k].conn \in Int /\ h[k].msg.from \in Int
      BY <3>1 DEF Locals, Messages, NoMsg, Conn, None
    <3>3. UNCHANGED <<h, conn>>
      BY DEF Accept
    <3>4. h[k].pc \in Serving => NotBefore(h[k].fd, h[k].msg.from)'
      <4>1. h[k].pc \in Serving => NotBefore(h[k].fd, h[k].msg.from)
        BY <3>1 DEF HandlerOK
      <4> QED
        BY <1>6, <3>1, <3>2, <3>3, <4>1 DEF HandlerOK, NotBefore, Target
    <3> QED
      BY <1>1, <3>1, <3>2, <3>3, <3>4 DEF HandlerOK
  <2> QED
    BY <2>1 DEF Accept, Inv, HandlersOK
<1>9. MainOK' /\ ConnsOK' /\ SentOK'
  BY <1>1, <1>2, QuietOK DEF Accept, Inv, MainOK, ConnsOK
<1> QED
  BY <1>5, <1>7, <1>8, <1>9 DEF Inv

\* A new thread begins with nothing in its hands.
LEMMA SpawnKeeps ==
  ASSUME Inv, Spawn
  PROVE  Inv'
<1> USE DEF InMain, listVars, connVars
<1>1. /\ nspawn \in 0..MaxThread /\ MaxThread \in Nat /\ nspawn < MaxThread
      /\ nspawn' = nspawn + 1 /\ nspawn' \in Handler
  BY BoundsAssumption DEF Spawn, Inv, MainOK, Handler
<1> DEFINE k == nspawn'
           l == [h[k] EXCEPT !.pc = "start"]
<1>2. h[k] \in Locals /\ HandlerOK(k, h[k])
  BY <1>1 DEF Inv, HandlersOK
<1>3. l \in Locals /\ HandlerOK(k, l)
  BY <1>2 DEF Locals, HandlerOK, Handling, Serving
<1>4. h' = [h EXCEPT ![k] = l]
  BY <1>1 DEF Spawn, Inv, HandlersOK
<1>5. HandlersOK'
  <2>1. UNCHANGED <<conn, naccd, fdtab>>
    BY DEF Spawn
  <2> HIDE DEF k, l
  <2> QED
    BY <1>1, <1>3, <1>4, <2>1, OneHandlerOK DEF Inv, k
<1>6. MainOK'
  BY <1>1 DEF Spawn, Inv, MainOK
<1>7. FdsOK' /\ ListOK' /\ ConnsOK' /\ SentOK'
  BY QuietOK DEF Spawn, Inv, FdsOK, ListOK, ConnsOK, NotBefore, Target
<1> QED
  BY <1>5, <1>6, <1>7 DEF Inv

\* exit closes every descriptor.
LEMMA ExitKeeps ==
  ASSUME Inv, Exit
  PROVE  Inv'
<1> USE DEF InMain, threadVars, listVars, connVars
<1>1. fdtab' = [f \in Fd |-> None] /\ UNCHANGED <<accepted, naccd, list, conn, h>>
  BY DEF Exit
<1>2. ASSUME NEW f PROVE (Target(f))' = None
  BY <1>1 DEF Target
<1>3. naccd \in Nat
  BY BoundsAssumption DEF Inv, MainOK
<1>4. FdsOK'
  BY <1>1, <1>2, <1>3 DEF FdsOK, None
<1>5. ListOK' /\ HandlersOK'
  BY <1>1, <1>2 DEF Inv, ListOK, HandlersOK, HandlerOK, NotBefore
<1>6. MainOK' /\ ConnsOK' /\ SentOK'
  BY QuietOK DEF Exit, Inv, MainOK, ConnsOK
<1> QED
  BY <1>4, <1>5, <1>6 DEF Inv

\* All steps of main.
LEMMA MainKeeps ==
  ASSUME Inv, MainStep
  PROVE  Inv'
<1>1. CASE SpawnPastTheEnd \/ JoinGarbage
  BY <1>1, FailOK DEF SpawnPastTheEnd, JoinGarbage
<1> QED
  BY <1>1, SmallMainKeeps, AcceptKeeps, SpawnKeeps, ExitKeeps DEF MainStep

-----------------------------------------------------------------------------
(* The theorems.                                                           *)

\* The server begins with the invariant ...
LEMMA InitInv ==
  ASSUME Init
  PROVE  Inv
<1> USE DEF Init
<1>1. MainOK
  <2>1. slots \in [0..(MAX_CLIENTS_SIZE - 1) -> Handler \cup {None}]
    OBVIOUS
  <2>2. nconn \in 0..MaxConn /\ naccd \in 0..nconn /\ nspawn \in 0..MaxThread
    BY BoundsAssumption
  <2>3. accepted \in Fd \cup {Bad, Stdin} /\ accepted # Stdin
    BY DEF Bad, Stdin
  <2> QED
    BY <2>1, <2>2, <2>3 DEF MainOK
<1>2. Target(accepted) = None
  BY BoundsAssumption DEF Target, Bad, Fd
<1>3. FdsOK
  BY <1>2 DEF FdsOK, None
<1>4. ListOK
  <2>1. list \in Seq(Nodes) /\ DOMAIN list = {}
    BY EmptySeq
  <2> QED
    BY <2>1 DEF ListOK
<1>5. SentOK
  BY DEF SentOK, NoSend, NeverBackwards, None
<1>6. ConnsOK
  <2>1. <<>> \in Seq(Requests)
    BY EmptySeq
  <2> QED
    BY <2>1 DEF ConnsOK, NewConn, Connections
<1>7. NewHandler \in Locals
  BY DEF NewHandler, Locals, Messages
<1>8. ASSUME NEW k \in Handler PROVE HandlerOK(k, NewHandler)
  BY DEF HandlerOK, NewHandler, Handling, Serving, NoMsg, None
<1>9. HandlersOK
  BY <1>7, <1>8 DEF HandlersOK
<1> QED
  BY <1>1, <1>3, <1>4, <1>5, <1>6, <1>9 DEF Inv

\* ... and every step, stuttering ones included, keeps it.
LEMMA StepInv ==
  ASSUME Inv, [Next]_vars
  PROVE  Inv'
<1>1. CASE \E w \in Client : Connect(w)
  BY <1>1, ConnectKeeps
<1>2. CASE \E c \in Conn : Ask(c) \/ LogOff(c) \/ Finish(c) \/ Die(c)
  BY <1>2, ClientKeeps
<1>3. CASE Sigint
  BY <1>3, SmallMainKeeps
<1>4. CASE MainStep
  BY <1>4, MainKeeps
<1>5. CASE \E k \in Handler : HandlerStep(k) \/ ReadStdin(k)
  BY <1>5, HandlerKeeps, StdinKeeps
<1>6. CASE UNCHANGED vars
  <2> USE <1>6 DEF vars, mainVars, threadVars, listVars, connVars
  <2>1. MainOK' /\ FdsOK' /\ ListOK' /\ ConnsOK' /\ SentOK'
    BY DEF Inv, MainOK, FdsOK, ListOK, ConnsOK, SentOK, NeverBackwards, NotBefore, Target
  <2>2. HandlersOK'
    BY DEF Inv, HandlersOK, HandlerOK, NotBefore, Target
  <2> QED
    BY <2>1, <2>2 DEF Inv
<1> QED
  BY <1>1, <1>2, <1>3, <1>4, <1>5, <1>6 DEF Next

\* The invariant holds in every state of the server.
THEOREM ServerInvariant == Spec => []Inv
BY InitInv, StepInv, PTL DEF Spec

\* Every variable of the server keeps its type, whatever fails: in particular a
\* handler that reads a text (serverUtils.c:113) finds one, and every message
\* that is handled comes from a client's connection.
THEOREM ServerTypes == Spec => []TypeOK
<1>1. Inv => TypeOK
  BY InvImplies
<1> QED
  BY <1>1, ServerInvariant, PTL

\* The descriptors that main, the handlers and the list hold never lead to a
\* connection older than the request or the LOG_ON they stem from
\* (serverUtils.c:212, 252, 259).
THEOREM DescriptorsLeadForward == Spec => []Forward
<1>1. Inv => Forward
  BY InvImplies
<1> QED
  BY <1>1, ServerInvariant, PTL

\* No message reaches a connection older than the one it is meant for, however
\* many clients, threads and failures there are (serverUtils.c:287, 315, 361).
THEOREM MessagesGoForward == Spec => []NeverBackwards
<1>1. Inv => NeverBackwards
  BY InvImplies DEF Forward
<1> QED
  BY <1>1, ServerInvariant, PTL

-----------------------------------------------------------------------------
(* No way back to an older connection.                                     *)

\* What handler k can come to hold in one step: its descriptor or main's, its
\* connection or the one its descriptor leads to, or nothing.
Held(k, l) == /\ l.fd \in {h[k].fd, accepted, Bad}
              /\ l.conn \in {h[k].conn, Target(h[k].fd), None}

\* The locals that steps leave behind hold nothing new.
LEMMA HeldByLocals ==
  ASSUME HandlersOK, NEW k \in Handler
  PROVE  /\ Held(k, h[k]) /\ Held(k, Returned) /\ Held(k, NextRequest(k))
         /\ h[k].pc \in {"head", "walk"} =>
               Held(k, AfterWalk(k)) /\ \A i \in Nat \ {0} : Held(k, MoveTo(k, i))
<1>1. h[k] \in Locals
  BY DEF HandlersOK
<1>2. Held(k, h[k]) /\ Held(k, Returned) /\ Held(k, NextRequest(k))
  BY <1>1 DEF Held, Returned, NewHandler, NextRequest, Locals
<1>3. ASSUME h[k].pc \in {"head", "walk"}
      PROVE  Held(k, AfterWalk(k))
  <2>1. h[k].msg.type \in {"LOG_ON", "GET_CLIENTS", "LOG_OFF"}
    BY <1>3, LocalsFacts DEF Handling, Requests
  <2>2. CASE h[k].msg.type = "LOG_ON"
    BY <1>2, <2>2 DEF AfterWalk
  <2>3. CASE h[k].msg.type = "LOG_OFF"
    BY <1>1, <2>3 DEF AfterWalk, Held, Locals
  <2>4. CASE h[k].msg.type = "GET_CLIENTS"
    BY <1>1, <2>4 DEF AfterWalk, Held, Locals
  <2> QED
    BY <2>1, <2>2, <2>3, <2>4
<1>4. ASSUME h[k].pc \in {"head", "walk"}, NEW i \in Nat \ {0}
      PROVE  Held(k, MoveTo(k, i))
  <2>1. CASE i > Len(list)
    BY <1>3, <1>4, <2>1 DEF MoveTo
  <2>2. CASE ~(i > Len(list))
    BY <1>1, <2>2 DEF MoveTo, Held, Locals
  <2> QED
    BY <2>1, <2>2
<1> QED
  BY <1>2, <1>3, <1>4

\* A step of a handler: it comes to hold what Held says, nobody else changes,
\* and no descriptor comes to lead to a connection it did not lead to.
LEMMA HandlerHolds ==
  ASSUME Inv, NEW k \in Handler, HandlerStep(k) \/ ReadStdin(k)
  PROVE  /\ naccd' = naccd
         /\ \E l : h' = [h EXCEPT ![k] = l] /\ Held(k, l)
         /\ \A f : (Target(f))' \in {Target(f), None}
<1>1. h[k] \in Locals /\ HandlersOK /\ Held(k, h[k]) /\ h = [h EXCEPT ![k] = h[k]]
  BY HeldByLocals DEF Inv, HandlersOK
<1> USE DEF Private, Elsewhere, mainVars
<1>2. CASE Start(k) \/ Count(k)
  <2>1. naccd' = naccd /\ fdtab' = fdtab
    BY <1>2 DEF Start, Count, Local
  <2>2. CASE Start(k)
    <3>1. Held(k, [h[k] EXCEPT !.pc = "count", !.cnt = threadCounter])
      BY <1>1 DEF Held, Locals
    <3> QED
      BY <2>1, <2>2, <3>1 DEF Start, Local, Target
  <2>3. CASE Count(k)
    <3> DEFINE l == [h[k] EXCEPT !.pc = "read", !.cnt = 0, !.fd = accepted]
    <3>1. Held(k, l)
      BY <1>1 DEF Held, Locals
    <3>2. h' = [h EXCEPT ![k] = l]
      BY <1>1, <2>3 DEF Count, HandlersOK
    <3> QED
      BY <2>1, <3>1, <3>2 DEF Target
  <2> QED
    BY <1>2, <2>2, <2>3
<1>3. CASE Read(k) \/ ReadEof(k) \/ ReadTextClosed(k)
  <2>1. naccd' = naccd /\ fdtab' = fdtab
    BY <1>3 DEF Read, ReadEof, ReadTextClosed, Local
  <2>2. Held(k, Returned)
    BY <1>1, HeldByLocals
  <2>3. Held(k, [h[k] EXCEPT !.pc = "blocked", !.conn = Target(h[k].fd)])
    BY <1>1 DEF Held, Locals
  <2>4. \E l \in {Returned, [h[k] EXCEPT !.pc = "blocked", !.conn = Target(h[k].fd)]} :
           h' = [h EXCEPT ![k] = l]
    BY <1>3 DEF Read, ReadEof, ReadTextClosed, Local
  <2> QED
    BY <2>1, <2>2, <2>3, <2>4 DEF Target
<1>4. CASE ReadLength(k) \/ ReadText(k)
  <2>1. naccd' = naccd /\ fdtab' = fdtab
    BY <1>4 DEF ReadLength, ReadText
  <2>2. CASE ReadLength(k)
    <3>1. h' = [h EXCEPT ![k] = [h[k] EXCEPT !.pc = "body"]]
      BY <1>1, <2>2 DEF ReadLength, HandlersOK
    <3>2. Held(k, [h[k] EXCEPT !.pc = "body"])
      BY <1>1 DEF Held, Locals
    <3> QED
      BY <2>1, <3>1, <3>2 DEF Target
  <2>3. CASE ReadText(k)
    <3> DEFINE m == [type |-> Head(conn[h[k].conn].reqs), from |-> h[k].conn]
               l == [h[k] EXCEPT !.pc = "got", !.conn = None, !.msg = m]
    <3>1. Held(k, l) /\ Held(k, Returned)
      BY <1>1, HeldByLocals DEF Held, Locals
    <3>2. h' = [h EXCEPT ![k] = IF shouldRun THEN l ELSE Returned]
      BY <1>1, <2>3 DEF ReadText, HandlersOK
    <3> QED
      BY <2>1, <3>1, <3>2 DEF Target
  <2> QED
    BY <1>4, <2>2, <2>3
<1>5. CASE Dispatch(k)
  <2>1. naccd' = naccd /\ fdtab' = fdtab /\ h' = [h EXCEPT ![k] = Handled(k, accepted)]
    BY <1>5 DEF Dispatch, Local
  <2>2. NextRequest(k) \in Locals /\ Held(k, NextRequest(k))
    BY NextRequestOK, HeldByLocals, <1>1
  <2>3. Held(k, Handled(k, accepted))
    <3>1. CASE shouldRun
      BY <1>1, <3>1 DEF Handled, Held, Locals
    <3>2. CASE ~shouldRun
      BY <2>2, <3>2 DEF Handled, Held, Locals
    <3> QED
      BY <3>1, <3>2
  <2> QED
    BY <2>1, <2>3 DEF Target
<1>6. CASE Add(k)
  <2>1. naccd' = naccd /\ fdtab' = fdtab
    BY <1>6 DEF Add
  <2>2. h' = [h EXCEPT ![k] = IF Listed(h[k].msg.from) \/ ~shouldRun
                              THEN NextRequest(k) ELSE [h[k] EXCEPT !.pc = "head"]]
    BY <1>1, <1>6 DEF Add, HandlersOK
  <2>3. Held(k, NextRequest(k)) /\ Held(k, [h[k] EXCEPT !.pc = "head"])
    BY <1>1, HeldByLocals DEF Held, Locals
  <2> QED
    BY <2>1, <2>2, <2>3 DEF Target
<1>7. CASE BeginWalk(k) \/ StopWalk(k) \/ Announce(k) \/ Collect(k)
  <2>1. naccd' = naccd /\ fdtab' = fdtab /\ h[k].pc \in {"head", "walk"}
    BY <1>7 DEF BeginWalk, StopWalk, Announce, Collect, Local, In
  <2>2. Held(k, AfterWalk(k)) /\ \A i \in Nat \ {0} : Held(k, MoveTo(k, i))
    BY <1>1, <2>1, HeldByLocals
  <2>3. \A i \in DOMAIN list : i + 1 \in Nat \ {0}
    BY LenProperties DEF Inv, ListOK
  <2>4. CASE BeginWalk(k) \/ StopWalk(k)
    BY <2>1, <2>2, <2>4 DEF BeginWalk, StopWalk, Local, Target
  <2>5. CASE Announce(k)
    BY <2>1, <2>2, <2>3, <2>5 DEF Announce, PositionOf, Target
  <2>6. CASE Collect(k)
    <3>1. PICK i \in DOMAIN list :
             h' = [h EXCEPT ![k] = [MoveTo(k, i + 1) EXCEPT !.buf = @ \cup {h[k].it}]]
      BY <2>6 DEF Collect, PositionOf
    <3>2. MoveTo(k, i + 1) \in Locals /\ Held(k, MoveTo(k, i + 1))
      BY <2>1, <2>2, <2>3, MoveToOK
    <3>3. Held(k, [MoveTo(k, i + 1) EXCEPT !.buf = @ \cup {h[k].it}])
      BY <3>2 DEF Held, Locals
    <3> QED
      BY <2>1, <3>1, <3>3 DEF Target
  <2> QED
    BY <1>7, <2>4, <2>5, <2>6
<1>8. CASE Reply(k) \/ Remove(k) \/ Skip(k) \/ Local(k, "read", Returned)
  <2>1. naccd' = naccd /\ fdtab' = fdtab
    BY <1>8 DEF Reply, Remove, Skip, Local
  <2>2. \E l \in {NextRequest(k), Returned} : h' = [h EXCEPT ![k] = l]
    BY <1>8 DEF Reply, Remove, Skip, Local
  <2> QED
    BY <1>1, <2>1, <2>2, HeldByLocals DEF Target
<1>9. CASE Close(k)
  <2>1. naccd' = naccd /\ h' = [h EXCEPT ![k] = [h[k] EXCEPT !.pc = "remove"]]
    BY <1>1, <1>9 DEF Close, HandlersOK
  <2>2. Held(k, [h[k] EXCEPT !.pc = "remove"])
    BY <1>1 DEF Held, Locals
  <2>3. \A f : (Target(f))' \in {Target(f), None}
    BY <1>9 DEF Close, Target
  <2> QED
    BY <2>1, <2>2, <2>3
<1>10. CASE \/ ReadTextAsLength(k) \/ ReadTextElsewhere(k) \/ WalkFreed(k)
            \/ BrokenPipe(k) \/ CloseUnlisted(k) \/ RemoveFromEmpty(k)
            \/ UseFreed(k) \/ Race(k) \/ Fail("misframed")
  <2>1. UNCHANGED <<naccd, fdtab, h>>
    BY <1>10 DEF ReadTextAsLength, ReadTextElsewhere, WalkFreed, BrokenPipe,
                 CloseUnlisted, RemoveFromEmpty, UseFreed, Race, Fail
  <2> QED
    BY <1>1, <2>1 DEF Target
<1> QED
  BY <1>2, <1>3, <1>4, <1>5, <1>6, <1>7, <1>8, <1>9, <1>10 DEF HandlerStep, ReadStdin

\* Any other step: the handlers hold what they held, and a descriptor comes to
\* lead to nothing else than a connection newer than all others.
LEMMA OthersHold ==
  ASSUME Inv,
         \/ \E w \in Client : Connect(w)
         \/ \E c \in Conn : Ask(c) \/ LogOff(c) \/ Finish(c) \/ Die(c)
         \/ Sigint
         \/ MainStep
         \/ UNCHANGED vars
  PROVE  /\ \A j \in Handler : h'[j].fd = h[j].fd /\ h'[j].conn = h[j].conn
         /\ \A f : (Target(f))' \in {Target(f), None, naccd + 1}
<1>1. CASE \/ \E w \in Client : Connect(w)
           \/ \E c \in Conn : Ask(c) \/ LogOff(c) \/ Finish(c) \/ Die(c)
           \/ Sigint
           \/ UNCHANGED vars
  <2>1. UNCHANGED <<h, fdtab>>
    BY <1>1 DEF Connect, Ask, LogOff, Request, Finish, Die, Outside, Sigint, vars
  <2> QED
    BY <2>1 DEF Target
<1>2. CASE \/ CheckRun \/ EnterSelect \/ WakeToExit \/ AcceptFails \/ GiveUp
           \/ SpawnFails \/ Release \/ Join \/ JoinGarbage \/ SpawnPastTheEnd
  <2>1. UNCHANGED <<h, fdtab>>
    BY <1>2 DEF CheckRun, EnterSelect, WakeToExit, MainGoes, MainStops, AcceptFails,
                GiveUp, SpawnFails, Release, Join, JoinGarbage, SpawnPastTheEnd, Fail
  <2> QED
    BY <2>1 DEF Target
<1>3. CASE Accept
  <2>1. h' = h /\ fdtab' = [fdtab EXCEPT ![accepted'] = naccd + 1]
    BY <1>3 DEF Accept
  <2>2. fdtab \in [Fd -> Conn \cup {None}]
    BY DEF Inv, FdsOK
  <2> QED
    BY <2>1, <2>2 DEF Target
<1>4. CASE Spawn
  <2>1. h' = [h EXCEPT ![nspawn'].pc = "start"] /\ fdtab' = fdtab
    BY <1>4 DEF Spawn
  <2>2. h \in [Handler -> Locals]
    BY DEF Inv, HandlersOK
  <2> QED
    BY <2>1, <2>2 DEF Target, Locals
<1>5. CASE Exit
  BY <1>5 DEF Exit, Target
<1> QED
  BY <1>1, <1>2, <1>3, <1>4, <1>5 DEF MainStep

\* What nobody attends and is not the newest connection stays unattended.
LEMMA NoWayBackStep ==
  ASSUME Inv, [Next]_vars, NEW c \in Conn, c < naccd, ~Attended(c)
  PROVE  ~Attended(c)'
<1>1. /\ naccd \in Nat /\ c \in Nat /\ c # None
      /\ \A k \in Handler : h[k].conn # c /\ Target(h[k].fd) # c
  BY BoundsAssumption DEF Inv, MainOK, Conn, None, Attended
<1>2. SUFFICES \A j \in Handler : h'[j].conn # c /\ (Target(h[j].fd))' # c
  BY DEF Attended
<1>3. Target(accepted) # c /\ Target(Bad) # c
  BY <1>1, BoundsAssumption DEF Inv, FdsOK, Target, Bad, Fd
<1>4. CASE \E k \in Handler : HandlerStep(k) \/ ReadStdin(k)
  <2>1. PICK k \in Handler : HandlerStep(k) \/ ReadStdin(k)
    BY <1>4
  <2>2. /\ \E l : h' = [h EXCEPT ![k] = l] /\ Held(k, l)
        /\ \A f : (Target(f))' \in {Target(f), None}
    BY <2>1, HandlerHolds
  <2>3. PICK l : h' = [h EXCEPT ![k] = l] /\ Held(k, l)
    BY <2>2
  <2>4. \A j \in Handler : h'[j] = IF j = k THEN l ELSE h[j]
    BY <2>3 DEF Inv, HandlersOK
  <2>5. ASSUME NEW j \in Handler
        PROVE  h'[j].conn # c /\ Target(h'[j].fd) # c
    BY <1>1, <1>3, <2>3, <2>4 DEF Held
  <2>6. ASSUME NEW j \in Handler PROVE (Target(h[j].fd))' # c
    <3>1. (Target(h[j].fd))' \in {Target(h'[j].fd), None}
      BY <2>2 DEF Target
    <3> QED
      BY <1>1, <2>5, <3>1
  <2> QED
    BY <2>5, <2>6
<1>5. CASE ~ \E k \in Handler : HandlerStep(k) \/ ReadStdin(k)
  <2>1. /\ \A j \in Handler : h'[j].fd = h[j].fd /\ h'[j].conn = h[j].conn
        /\ \A f : (Target(f))' \in {Target(f), None, naccd + 1}
    BY <1>5, OthersHold DEF Next
  <2>2. ASSUME NEW j \in Handler PROVE (Target(h[j].fd))' # c
    <3>1. (Target(h[j].fd))' \in {Target(h[j].fd), None, naccd + 1}
      BY <2>1 DEF Target
    <3> QED
      BY <1>1, <3>1
  <2> QED
    BY <1>1, <2>1, <2>2
<1> QED
  BY <1>4, <1>5

\* Once no handler is left with a connection that is not the newest, none ever
\* comes back to it (serverUtils.c:212, 252): its requests, LOG_OFF included,
\* stay unread however the threads are scheduled.
THEOREM ServerNoWayBack == Spec => NoWayBack
<1>1. ASSUME Inv, [Next]_vars
      PROVE  [\A c \in Conn : c < naccd /\ ~Attended(c) => ~Attended(c)']_vars
  BY <1>1, NoWayBackStep
<1> QED
  BY <1>1, ServerInvariant, PTL DEF Spec, NoWayBack

-----------------------------------------------------------------------------
(* Standard input.                                                         *)

\* No handler has standard input for its descriptor while the server runs.
StdinOK == shouldRun => \A k \in Handler : h[k].fd # Stdin

LEMMA StdinStep ==
  ASSUME Inv, StdinOK, [Next]_vars
  PROVE  StdinOK'
<1> SUFFICES ASSUME shouldRun', NEW j \in Handler
             PROVE  h'[j].fd # Stdin
  BY DEF StdinOK
<1>1. shouldRun
  <2> USE DEF mainVars
  <2>1. CASE \/ \E w \in Client : Connect(w)
             \/ \E c \in Conn : Ask(c) \/ LogOff(c) \/ Finish(c) \/ Die(c)
    BY <2>1 DEF Connect, Ask, LogOff, Request, Finish, Die, Outside
  <2>2. CASE Sigint \/ UNCHANGED vars
    BY <2>2 DEF Sigint, vars
  <2>3. CASE MainStep
    BY <2>3 DEF MainStep, CheckRun, EnterSelect, WakeToExit, MainGoes, MainStops, Accept,
         AcceptFails, GiveUp, Spawn, SpawnFails, SpawnPastTheEnd, Release, Join,
         JoinGarbage, Exit, Fail
  <2>4. CASE \E k \in Handler : HandlerStep(k) \/ ReadStdin(k)
    <3>1. PICK k \in Handler : HandlerStep(k) \/ ReadStdin(k)
      BY <2>4
    <3>2. CASE ReadStdin(k)
      BY <3>2 DEF ReadStdin, Local, Private, Elsewhere, Fail
    <3>3. CASE Start(k) \/ Count(k) \/ Read(k) \/ ReadLength(k) \/ ReadEof(k)
               \/ ReadText(k) \/ ReadTextClosed(k)
      BY <3>3 DEF Start, Count, Read, ReadLength, ReadEof, ReadText, ReadTextClosed,
                  Local, Private, Elsewhere
    <3>4. CASE Skip(k) \/ Dispatch(k) \/ Add(k) \/ BeginWalk(k) \/ StopWalk(k)
               \/ Announce(k) \/ Collect(k) \/ Reply(k) \/ Close(k) \/ Remove(k)
      BY <3>4 DEF Skip, Dispatch, Add, BeginWalk, StopWalk, Announce, Collect, Reply,
                  Close, Remove, Local, Private, Elsewhere
    <3>5. CASE ~(\/ Start(k) \/ Count(k) \/ Read(k) \/ ReadLength(k) \/ ReadEof(k)
                 \/ ReadText(k) \/ ReadTextClosed(k) \/ Skip(k) \/ Dispatch(k)
                 \/ Add(k) \/ BeginWalk(k) \/ StopWalk(k) \/ Announce(k)
                 \/ Collect(k) \/ Reply(k) \/ Close(k) \/ Remove(k) \/ ReadStdin(k))
      BY <3>1, <3>5 DEF HandlerStep, ReadTextAsLength, ReadTextElsewhere, WalkFreed,
            BrokenPipe, CloseUnlisted, RemoveFromEmpty, UseFreed, Race, Fail
    <3> QED
      BY <3>2, <3>3, <3>4, <3>5
  <2> QED
    BY <2>1, <2>2, <2>3, <2>4 DEF Next
<1>2. h[j].fd # Stdin /\ accepted # Stdin /\ Bad # Stdin
  BY <1>1 DEF StdinOK, Inv, MainOK, Bad, Stdin
<1>3. CASE \E k \in Handler : HandlerStep(k) \/ ReadStdin(k)
  <2>1. PICK k \in Handler : HandlerStep(k) \/ ReadStdin(k)
    BY <1>3
  <2>2. PICK l : h' = [h EXCEPT ![k] = l] /\ Held(k, l)
    BY <2>1, HandlerHolds
  <2>3. h'[j] = IF j = k THEN l ELSE h[j]
    BY <2>2 DEF Inv, HandlersOK
  <2>4. h[k].fd # Stdin
    BY <1>1 DEF StdinOK
  <2> QED
    BY <1>2, <2>2, <2>3, <2>4 DEF Held
<1>4. CASE ~ \E k \in Handler : HandlerStep(k) \/ ReadStdin(k)
  BY <1>2, <1>4, OthersHold DEF Next
<1> QED
  BY <1>3, <1>4
=============================================================================
