-------------------------- MODULE ServerWalkProofs --------------------------
(***************************************************************************)
(* That the walk for GET_CLIENTS misses nobody who stays listed, and that  *)
(* the server exits only after every thread it has counted: for every      *)
(* number of clients, connections, threads and descriptors, and whatever   *)
(* fails.  The first holds because a connection logs on at most once: a    *)
(* node, once it is taken out, never comes back behind a walk that stood   *)
(* on it.                                                                  *)
(***************************************************************************)
EXTENDS ServerProofs, FiniteSetTheorems

\* LOG_ON of connection c is sent and not taken; a handler with locals l has
\* taken it and not dealt with it (what it adds to the list is a LOG_ON's).
Unread(c) == \E i \in DOMAIN conn[c].reqs : conn[c].reqs[i] = "LOG_ON"
LoggingOn(l, c) == /\ l.pc = "add" \/ (l.pc = "got" /\ l.msg.type = "LOG_ON")
                   /\ l.msg.from = c

\* The list, or a walk, leads to the node that connection c logged on with.
Pointed(c) == \/ \E i \in DOMAIN list : list[i].from = c
              \/ \E k \in Handler : h[k].it = c

\* LOG_ON is the first request of a connection ...
RequestsOK == \A c \in Conn : \A i \in DOMAIN conn[c].reqs :
                 conn[c].reqs[i] = "LOG_ON" => i = 1

\* ... and its only one: where a handler has it in its hands ...
OnceOK == \A c \in Conn : \A k \in Handler : LoggingOn(h[k], c) =>
             ~Unread(c) /\ \A j \in Handler : LoggingOn(h[j], c) => j = k

\* ... and where there is a node that stems from it.
PointedOK == \A c \in Conn : Pointed(c) =>
                ~Unread(c) /\ \A k \in Handler : ~LoggingOn(h[k], c)

\* Every node stems from a connection of its own.
NodesOK == \A i, j \in DOMAIN list : list[i].from = list[j].from => i = j

\* A walk stands on the node of an accepted connection.
ItOK == \A k \in Handler : h[k].it <= naccd

WalkInv == /\ Inv /\ RequestsOK /\ OnceOK /\ PointedOK /\ NodesOK /\ ItOK
           /\ WalkMissesNobody

\* The promise of WalkMissesNobody for a handler with locals l.
Walked(l) == l.pc = "walk" /\ l.msg.type = "GET_CLIENTS" =>
                \A p \in PositionOf(l.it) : \A i \in 1..(p - 1) : list[i].from \in l.buf

-----------------------------------------------------------------------------

\* The parts that only say of requests and nodes that there are no more of them.
LEMMA FewerKeeps ==
  ASSUME OnceOK, PointedOK,
         \A c \in Conn : Unread(c)' => Unread(c),
         \A c \in Conn : \A k \in Handler : LoggingOn(h[k], c)' => LoggingOn(h[k], c),
         \A c \in Conn : Pointed(c)' => Pointed(c)
  PROVE  OnceOK' /\ PointedOK'
<1>1. OnceOK'
  BY DEF OnceOK
<1>2. PointedOK'
  BY DEF PointedOK
<1> QED
  BY <1>1, <1>2

\* Requests that stay as they are.
LEMMA SameRequests ==
  ASSUME RequestsOK, \A c \in Conn : conn'[c].reqs = conn[c].reqs
  PROVE  RequestsOK' /\ \A c \in Conn : Unread(c)' <=> Unread(c)
BY DEF RequestsOK, Unread

\* A step by which the locals of one handler change, and nothing it shares but
\* descriptors and the marks on the connections.
LEMMA OneMoves ==
  ASSUME WalkInv, Inv', NEW k \in Handler,
         \A j \in Handler \ {k} : h'[j] = h[j],
         UNCHANGED <<list, naccd>>,
         \A c \in Conn : conn'[c].reqs = conn[c].reqs,
         h'[k].pc \in {"got", "add"} =>
            /\ h'[k].msg = h[k].msg
            /\ \/ h'[k].pc = h[k].pc
               \/ h[k].pc = "got" /\ h[k].msg.type = "LOG_ON",
         \/ h'[k].it \in {None, h[k].it}
         \/ \E i \in DOMAIN list : h'[k].it = list[i].from,
         Walked(h'[k])
  PROVE  WalkInv'
<1>1. RequestsOK' /\ \A c \in Conn : Unread(c)' <=> Unread(c)
  BY SameRequests DEF WalkInv
<1>2. \A c \in Conn : \A j \in Handler : LoggingOn(h[j], c)' => LoggingOn(h[j], c)
  BY DEF LoggingOn
<1>3. \A c \in Conn : Pointed(c)' => Pointed(c)
  BY DEF Pointed, Conn, None
<1>4. OnceOK' /\ PointedOK'
  BY <1>1, <1>2, <1>3, FewerKeeps DEF WalkInv
<1>5. NodesOK'
  BY DEF WalkInv, NodesOK
<1>6. ItOK'
  <2>1. \A i \in DOMAIN list : list[i].from <= naccd
    BY DEF WalkInv, Inv, ListOK
  <2>2. None <= naccd
    BY BoundsAssumption DEF WalkInv, Inv, MainOK, None
  <2>3. \A j \in Handler : h'[j].it <= naccd
    BY <2>1, <2>2 DEF WalkInv, ItOK
  <2> QED
    BY <2>3 DEF ItOK
<1>7. WalkMissesNobody'
  BY DEF WalkInv, WalkMissesNobody, Walked, PositionOf
<1> QED
  BY <1>1, <1>4, <1>5, <1>6, <1>7 DEF WalkInv

\* Where a walk goes from position i - 1 on.
LEMMA MoveToFacts ==
  ASSUME Inv, NEW k \in Handler, h[k].pc \in {"head", "walk"}, NEW i \in Nat \ {0}
  PROVE  /\ AfterWalk(k).pc \in {"read", "close", "reply"} /\ AfterWalk(k).it = None
         /\ i > Len(list) => MoveTo(k, i) = AfterWalk(k)
         /\ i <= Len(list) => /\ MoveTo(k, i).pc = "walk"
                              /\ MoveTo(k, i).it = list[i].from
                              /\ MoveTo(k, i).msg = h[k].msg
                              /\ MoveTo(k, i).buf = h[k].buf
<1>1. h[k] \in Locals /\ h[k].msg.type \in {"LOG_ON", "GET_CLIENTS", "LOG_OFF"}
  BY LocalsFacts DEF Inv, Handling, Requests
<1>2. NextRequest(k).pc = "read" /\ NextRequest(k).it = None
  BY <1>1 DEF NextRequest, Locals
<1>3. AfterWalk(k).pc \in {"read", "close", "reply"} /\ AfterWalk(k).it = None
  <2>1. CASE h[k].msg.type = "LOG_ON"
    BY <1>2, <2>1 DEF AfterWalk
  <2>2. CASE h[k].msg.type = "LOG_OFF"
    BY <1>1, <2>2 DEF AfterWalk, Locals
  <2>3. CASE h[k].msg.type = "GET_CLIENTS"
    BY <1>1, <2>3 DEF AfterWalk, Locals
  <2> QED
    BY <1>1, <2>1, <2>2, <2>3
<1>4. Len(list) \in Nat
  BY LenProperties DEF Inv, ListOK
<1>5. i > Len(list) => MoveTo(k, i) = AfterWalk(k)
  BY DEF MoveTo
<1>6. ASSUME i <= Len(list)
      PROVE  MoveTo(k, i) = [h[k] EXCEPT !.pc = "walk", !.it = list[i].from]
  BY <1>4, <1>6 DEF MoveTo
<1> QED
  BY <1>1, <1>3, <1>5, <1>6 DEF Locals

\* A walk that reaches a node has met all before it, if it had before.
LEMMA WalkGoesOn ==
  ASSUME WalkInv, NEW k \in Handler,
         BeginWalk(k) \/ StopWalk(k) \/ Announce(k) \/ Collect(k), Inv'
  PROVE  WalkInv'
<1>1. /\ list \in Seq(Nodes) /\ Len(list) \in Nat /\ DOMAIN list = 1..Len(list)
      /\ h[k] \in Locals /\ h \in [Handler -> Locals]
  BY LenProperties DEF WalkInv, Inv, ListOK, HandlersOK
<1>2. /\ h[k].pc \in {"head", "walk"} /\ UNCHANGED <<list, naccd, conn>>
  BY DEF BeginWalk, StopWalk, Announce, Collect, Local, In, Private, Elsewhere,
         mainVars, listVars, connVars
<1>3. \A i \in DOMAIN list : PositionOf(list[i].from) = {i}
  BY DEF WalkInv, NodesOK, PositionOf
<1>4. CASE \E i \in {1} : h' = [h EXCEPT ![k] = MoveTo(k, i)]
  <2>1. h'[k] = MoveTo(k, 1) /\ \A j \in Handler \ {k} : h'[j] = h[j]
    BY <1>1, <1>4
  <2>2. CASE Len(list) = 0
    <3>1. h'[k].pc \in {"read", "close", "reply"} /\ h'[k].it = None
      BY <1>2, <2>1, <2>2, MoveToFacts DEF WalkInv
    <3> QED
      BY <1>2, <2>1, <3>1, OneMoves DEF Walked
  <2>3. CASE Len(list) # 0
    <3>1. 1 \in DOMAIN list
      BY <1>1, <2>3
    <3>2. h'[k].pc = "walk" /\ h'[k].it = list[1].from
      BY <1>1, <1>2, <2>1, <2>3, MoveToFacts DEF WalkInv
    <3>3. Walked(h'[k])
      BY <1>3, <3>1, <3>2 DEF Walked
    <3> QED
      BY <1>2, <2>1, <3>1, <3>2, <3>3, OneMoves
  <2> QED
    BY <2>2, <2>3
<1>5. CASE h' = [h EXCEPT ![k] = AfterWalk(k)]
  <2>1. h'[k] = AfterWalk(k) /\ \A j \in Handler \ {k} : h'[j] = h[j]
    BY <1>1, <1>5
  <2>2. h'[k].pc \in {"read", "close", "reply"} /\ h'[k].it = None
    BY <1>2, <2>1, MoveToFacts DEF WalkInv
  <2> QED
    BY <1>2, <2>1, <2>2, OneMoves DEF Walked
<1>6. CASE BeginWalk(k) \/ StopWalk(k)
  BY <1>4, <1>5, <1>6 DEF BeginWalk, StopWalk, Local
<1>7. CASE Announce(k)
  <2>1. PICK i \in DOMAIN list : h' = [h EXCEPT ![k] = MoveTo(k, i + 1)]
    BY <1>7 DEF Announce, PositionOf
  <2>2. h'[k] = MoveTo(k, i + 1) /\ \A j \in Handler \ {k} : h'[j] = h[j]
    BY <1>1, <2>1
  <2>3. i + 1 \in Nat \ {0} /\ h[k].msg.type # "GET_CLIENTS"
    BY <1>1, <1>7 DEF Announce
  <2>4. CASE i + 1 > Len(list)
    <3>1. h'[k].pc \in {"read", "close", "reply"} /\ h'[k].it = None
      BY <1>2, <2>2, <2>3, <2>4, MoveToFacts DEF WalkInv
    <3> QED
      BY <1>2, <2>2, <3>1, OneMoves DEF Walked
  <2>5. CASE i + 1 <= Len(list)
    <3>1. h'[k].pc = "walk" /\ h'[k].it = list[i + 1].from /\ h'[k].msg = h[k].msg
      BY <1>2, <2>2, <2>3, <2>5, MoveToFacts DEF WalkInv
    <3>2. i + 1 \in DOMAIN list
      BY <1>1, <2>3, <2>5
    <3> QED
      BY <1>2, <2>2, <2>3, <3>1, <3>2, OneMoves DEF Walked
  <2> QED
    BY <1>1, <2>4, <2>5
<1>8. CASE Collect(k)
  <2>1. PICK i \in DOMAIN list :
           /\ list[i].from = h[k].it
           /\ h' = [h EXCEPT ![k] = [MoveTo(k, i + 1) EXCEPT !.buf = @ \cup {h[k].it}]]
    BY <1>8 DEF Collect, PositionOf
  <2>2. i + 1 \in Nat \ {0} /\ i \in 1..Len(list) /\ h[k].pc = "walk"
        /\ h[k].msg.type = "GET_CLIENTS"
    BY <1>1, <1>8 DEF Collect, In
  <2>3. MoveTo(k, i + 1) \in Locals
    BY <1>2, <2>2, MoveToOK DEF WalkInv
  <2>4. /\ h'[k].pc = MoveTo(k, i + 1).pc /\ h'[k].it = MoveTo(k, i + 1).it
        /\ h'[k].buf = MoveTo(k, i + 1).buf \cup {h[k].it}
        /\ \A j \in Handler \ {k} : h'[j] = h[j]
    BY <1>1, <2>1, <2>3 DEF Locals
  <2>5. CASE i + 1 > Len(list)
    <3>1. h'[k].pc \in {"read", "close", "reply"} /\ h'[k].it = None
      BY <1>2, <2>2, <2>4, <2>5, MoveToFacts DEF WalkInv
    <3>2. \A j \in Handler \ {k} : h'[j] = h[j]
      BY <2>4
    <3>3. Walked(h'[k])
      BY <3>1 DEF Walked
    <3> QED
      BY <1>2, <3>1, <3>2, <3>3, OneMoves
  <2>6. CASE i + 1 <= Len(list)
    <3>1. /\ h'[k].pc = "walk" /\ h'[k].it = list[i + 1].from
          /\ h'[k].buf = h[k].buf \cup {h[k].it} /\ i + 1 \in DOMAIN list
      BY <1>1, <1>2, <2>2, <2>4, <2>6, MoveToFacts DEF WalkInv
    <3>2. \A j \in 1..(i - 1) : list[j].from \in h[k].buf
      BY <2>1, <2>2 DEF WalkInv, WalkMissesNobody, PositionOf
    <3>3. \A j \in 1..i : list[j].from \in h'[k].buf
      BY <2>1, <2>2, <3>1, <3>2
    <3>4. PositionOf(h'[k].it) = {i + 1} /\ (i + 1) - 1 = i
      <4>1. PositionOf(h'[k].it) = {i + 1}
        BY <1>3, <3>1
      <4>2. (i + 1) - 1 = i
        BY <1>1, <2>2
      <4> QED
        BY <4>1, <4>2
    <3>5. Walked(h'[k])
      BY <3>3, <3>4 DEF Walked
    <3>6. \A j \in Handler \ {k} : h'[j] = h[j]
      BY <2>4
    <3> QED
      BY <1>2, <3>1, <3>5, <3>6, OneMoves
  <2> QED
    BY <1>1, <2>5, <2>6
<1> QED
  BY <1>6, <1>7, <1>8
-----------------------------------------------------------------------------
(* The other steps of a handler.                                           *)

\* Steps by which a handler goes on without a walk and without a new request.
LEMMA PlainKeeps ==
  ASSUME WalkInv, Inv', NEW k \in Handler,
         \/ Start(k) \/ Count(k) \/ Read(k) \/ ReadLength(k) \/ ReadEof(k)
         \/ ReadTextClosed(k) \/ Dispatch(k) \/ Reply(k) \/ Close(k)
         \/ Skip(k) \/ (ReadStdin(k) /\ Local(k, "read", Returned))
  PROVE  WalkInv'
<1>1. /\ h \in [Handler -> Locals] /\ h[k] \in Locals /\ conn \in [Conn -> Connections]
      /\ h[k].pc \in Handling => h[k].msg \in [type : Requests, from : Conn]
  BY LocalsFacts DEF WalkInv, Inv, HandlersOK, ConnsOK
<1>2. PICK l : h' = [h EXCEPT ![k] = l]
  BY HandlerHolds DEF WalkInv, HandlerStep
<1>3. h'[k] = l /\ \A j \in Handler \ {k} : h'[j] = h[j]
  BY <1>1, <1>2
<1>4. UNCHANGED <<list, naccd>>
  BY DEF Start, Count, Read, ReadLength, ReadEof, ReadTextClosed, Dispatch, Reply,
         Close, Skip, Local, Private, Elsewhere, mainVars, listVars
<1>5. \A c \in Conn : conn'[c].reqs = conn[c].reqs
  <2>1. CASE ReadLength(k)
    <3>1. conn' = [conn EXCEPT ![h[k].conn].hdr = k]
      BY <2>1 DEF ReadLength
    <3> QED
      BY <1>1, <3>1 DEF Connections
  <2>2. CASE ~ReadLength(k)
    BY <2>2 DEF Start, Count, Read, ReadEof, ReadTextClosed, Dispatch, Reply, Close,
                Skip, Local, Private, Elsewhere, connVars
  <2> QED
    BY <2>1, <2>2
<1>6. /\ Returned.pc = "done" /\ Returned.it = None
      /\ NextRequest(k).pc = "read" /\ NextRequest(k).it = None
  BY <1>1 DEF Returned, NewHandler, NextRequest, Locals
<1>7. /\ h'[k].it \in {None, h[k].it} /\ h'[k].pc # "walk"
      /\ h'[k].pc \in {"got", "add"} =>
            h[k].pc = "got" /\ h[k].msg.type = "LOG_ON" /\ h'[k].msg = h[k].msg
  <2>1. CASE Start(k)
    <3>1. h'[k] = [h[k] EXCEPT !.pc = "count", !.cnt = threadCounter]
      BY <1>1, <2>1 DEF Start, Local
    <3> QED
      BY <1>1, <3>1 DEF Locals
  <2>2. CASE Count(k)
    <3>1. h'[k] = [h[k] EXCEPT !.pc = "read", !.cnt = 0, !.fd = accepted]
      BY <1>1, <2>2 DEF Count
    <3> QED
      BY <1>1, <3>1 DEF Locals
  <2>3. CASE Read(k)
    <3>1. h'[k] \in {Returned, [h[k] EXCEPT !.pc = "blocked",
                                           !.conn = Target(h[k].fd)]}
      BY <1>1, <2>3 DEF Read, Local
    <3> QED
      BY <1>1, <1>6, <3>1 DEF Locals
  <2>4. CASE ReadLength(k)
    <3>1. h'[k] = [h[k] EXCEPT !.pc = "body"]
      BY <1>1, <2>4 DEF ReadLength
    <3> QED
      BY <1>1, <3>1 DEF Locals
  <2>5. CASE \/ ReadEof(k) \/ ReadTextClosed(k) \/ Skip(k)
             \/ Local(k, "read", Returned)
    BY <1>1, <1>6, <2>5 DEF ReadEof, ReadTextClosed, Skip, Local
  <2>6. CASE Dispatch(k)
    <3>1. h'[k] = Handled(k, accepted) /\ h[k].pc = "got"
      BY <1>1, <2>6 DEF Dispatch, Local, In
    <3>2. CASE shouldRun
      <4> DEFINE label == IF h[k].msg.type = "LOG_ON" THEN "add" ELSE "head"
      <4>1. /\ h'[k] = [h[k] EXCEPT !.pc = label, !.fd = accepted]
            /\ label = "head" \/ (label = "add" /\ h[k].msg.type = "LOG_ON")
        BY <3>1, <3>2 DEF Handled
      <4> HIDE DEF label
      <4> QED
        BY <1>1, <3>1, <4>1 DEF Locals
    <3>3. CASE ~shouldRun
      <4>1. h'[k] = [NextRequest(k) EXCEPT !.fd = accepted]
        BY <3>1, <3>3 DEF Handled
      <4>2. NextRequest(k) \in Locals
        BY NextRequestOK DEF WalkInv
      <4> QED
        BY <1>6, <4>1, <4>2 DEF Locals
    <3> QED
      BY <3>2, <3>3
  <2>7. CASE Reply(k)
    BY <1>1, <1>6, <2>7 DEF Reply
  <2>8. CASE Close(k)
    <3>1. h'[k] = [h[k] EXCEPT !.pc = "remove"]
      BY <1>1, <2>8 DEF Close
    <3> QED
      BY <1>1, <3>1 DEF Locals
  <2> QED
    BY <2>1, <2>2, <2>3, <2>4, <2>5, <2>6, <2>7, <2>8
<1>8. Walked(h'[k])
  BY <1>7 DEF Walked
<1> QED
  BY <1>3, <1>4, <1>5, <1>7, <1>8, OneMoves

\* A LOG_ON that is taken is then in the hands of one handler, and nowhere else.
LEMMA ReadTextTakes ==
  ASSUME WalkInv, Inv', NEW k \in Handler, ReadText(k)
  PROVE  WalkInv'
<1>0. h[k].pc = "body" /\ HandlerOK(k, h[k])
  BY LocalsFacts DEF ReadText, In, WalkInv, Inv
<1> PICK c \in Conn : c = h[k].conn
  BY <1>0 DEF HandlerOK
<1> DEFINE r == [type |-> Head(conn[c].reqs), from |-> c]
<1>1. /\ h \in [Handler -> Locals] /\ h[k] \in Locals /\ conn \in [Conn -> Connections]
      /\ conn[c].reqs # <<>> /\ conn[c].reqs \in Seq(Requests)
  BY <1>0 DEF HandlerOK, WalkInv, Inv, HandlersOK, ConnsOK, Connections
<1>2. /\ \A j \in Handler \ {k} : h'[j] = h[j]
      /\ \A d \in Conn \ {c} : conn'[d] = conn[d]
      /\ conn'[c].reqs = Tail(conn[c].reqs) /\ UNCHANGED <<list, naccd>>
  BY <1>1 DEF ReadText, Elsewhere, mainVars, listVars, Connections
<1>3. \/ h'[k] = Returned
      \/ h'[k].pc = "got" /\ h'[k].it = h[k].it /\ h'[k].msg = r
  BY <1>1 DEF ReadText, Locals
<1>4. Returned.pc = "done" /\ Returned.it = None
  BY DEF Returned, NewHandler
<1>5. /\ Len(conn[c].reqs) \in Nat /\ DOMAIN conn[c].reqs = 1..Len(conn[c].reqs)
      /\ Head(conn[c].reqs) = conn[c].reqs[1] /\ 1 \in DOMAIN conn[c].reqs
      /\ DOMAIN conn'[c].reqs = 1..(Len(conn[c].reqs) - 1)
      /\ \A i \in 1..(Len(conn[c].reqs) - 1) : conn'[c].reqs[i] = conn[c].reqs[i + 1]
  BY <1>1, <1>2, HeadTailProperties, LenProperties, EmptySeq
<1>6. ~Unread(c)'
  <2>1. \A i \in DOMAIN conn'[c].reqs : conn'[c].reqs[i] # "LOG_ON"
    BY <1>1, <1>5 DEF WalkInv, RequestsOK
  <2> QED
    BY <2>1 DEF Unread
<1>7. RequestsOK' /\ \A d \in Conn : Unread(d)' => Unread(d)
  BY <1>2, <1>6 DEF WalkInv, RequestsOK, Unread
<1>8. ASSUME NEW d \in Conn, LoggingOn(h'[k], d)
      PROVE  d = c /\ Unread(c)
  BY <1>3, <1>4, <1>5, <1>8 DEF LoggingOn, Unread
<1>9. ASSUME NEW d \in Conn, Pointed(d)'
      PROVE  Pointed(d)
  BY <1>2, <1>3, <1>4, <1>9 DEF Pointed, Conn, None
<1>10. OnceOK'
  <2> SUFFICES ASSUME NEW d \in Conn, NEW i \in Handler, LoggingOn(h'[i], d)
               PROVE  ~Unread(d)' /\ \A j \in Handler : LoggingOn(h'[j], d) => j = i
    BY DEF OnceOK, LoggingOn
  <2>1. CASE i = k
    BY <1>2, <1>6, <1>8, <2>1 DEF WalkInv, OnceOK
  <2>2. CASE i # k
    BY <1>2, <1>7, <1>8, <2>2 DEF WalkInv, OnceOK
  <2> QED
    BY <2>1, <2>2
<1>11. PointedOK'
  <2> SUFFICES ASSUME NEW d \in Conn, Pointed(d)'
               PROVE  ~Unread(d)' /\ \A i \in Handler : ~LoggingOn(h'[i], d)
    BY DEF PointedOK, LoggingOn
  <2> QED
    BY <1>2, <1>7, <1>8, <1>9 DEF WalkInv, PointedOK
<1>12. ItOK'
  <2>1. \A i \in Handler : h'[i].it \in {h[i].it, None}
    BY <1>2, <1>3, <1>4
  <2>2. None <= naccd
    BY BoundsAssumption DEF WalkInv, Inv, MainOK, None
  <2> QED
    BY <1>2, <2>1, <2>2 DEF WalkInv, ItOK
<1>13. NodesOK' /\ WalkMissesNobody'
  <2>1. ASSUME NEW i \in Handler, h'[i].pc = "walk" PROVE h'[i] = h[i]
    BY <1>2, <1>3, <1>4, <2>1
  <2> QED
    BY <1>2, <2>1 DEF WalkInv, NodesOK, WalkMissesNobody, PositionOf
<1> QED
  BY <1>7, <1>10, <1>11, <1>12, <1>13 DEF WalkInv
-----------------------------------------------------------------------------
(* The steps that change the list.                                         *)

\* A node is added behind all others, and stems from a LOG_ON that nobody else
\* has, so no walk stands, or has stood, on another one of that connection.
LEMMA AddLists ==
  ASSUME WalkInv, Inv', NEW k \in Handler, Add(k)
  PROVE  WalkInv'
<1>1. /\ h \in [Handler -> Locals] /\ h[k] \in Locals /\ h[k].pc = "add"
      /\ h[k].msg \in [type : Requests, from : Conn]
      /\ list \in Seq(Nodes) /\ Len(list) \in Nat /\ DOMAIN list = 1..Len(list)
  BY LocalsFacts, LenProperties
     DEF WalkInv, Inv, HandlersOK, ListOK, Add, In, Handling
<1> PICK c \in Conn : c = h[k].msg.from
  BY <1>1
<1>2. UNCHANGED <<naccd, conn>> /\ \A j \in Handler \ {k} : h'[j] = h[j]
  BY <1>1 DEF Add, Elsewhere, mainVars, connVars
<1>3. h'[k].it \in {None, h[k].it} /\ h'[k].pc \in {"read", "head"}
  <2>1. h'[k] \in {NextRequest(k), [h[k] EXCEPT !.pc = "head"]}
    BY <1>1 DEF Add
  <2> QED
    BY <1>1, <2>1 DEF NextRequest, Locals
<1>4. CASE list' = list
  <2>1. Walked(h'[k])
    BY <1>3 DEF Walked
  <2> QED
    BY <1>2, <1>3, <1>4, <2>1, OneMoves
<1>5. CASE list' # list
  <2> DEFINE n == Len(list)
             node == [from |-> c, fd |-> h[k].fd]
  <2>1. list' = Append(list, node) /\ ~Listed(c)
    BY <1>5 DEF Add
  <2>2. node \in Nodes /\ node.from = c
    <3>1. HandlerOK(k, h[k])
      BY LocalsFacts DEF WalkInv, Inv
    <3>2. h[k].fd \in Fd \cup {Bad}
      BY <1>1, <3>1 DEF HandlerOK, Serving, Locals
    <3> QED
      BY <1>1, <3>2 DEF Nodes
  <2> HIDE DEF node
  <2>3. /\ DOMAIN list' = 1..(n + 1) /\ list'[n + 1].from = c
        /\ \A i \in 1..n : list'[i] = list[i]
    BY <1>1, <2>1, <2>2, AppendProperties, LenProperties
  <2>4. \A i \in DOMAIN list : list[i].from # c
    BY <2>1 DEF Listed, Positions
  <2>5. LoggingOn(h[k], c)
    BY <1>1 DEF LoggingOn
  <2>6. ~Unread(c) /\ ~Pointed(c) /\ \A j \in Handler \ {k} : ~LoggingOn(h[j], c)
    BY <2>5 DEF WalkInv, OnceOK, PointedOK
  <2>7. RequestsOK' /\ \A d \in Conn : Unread(d)' <=> Unread(d)
    BY <1>2, SameRequests DEF WalkInv
  <2>8. \A d \in Conn : \A j \in Handler : LoggingOn(h'[j], d) =>
                            j # k /\ LoggingOn(h[j], d)
    BY <1>2, <1>3 DEF LoggingOn
  <2>9. \A d \in Conn : Pointed(d)' => d = c \/ Pointed(d)
    <3> SUFFICES ASSUME NEW d \in Conn, Pointed(d)'
                 PROVE  d = c \/ Pointed(d)
      OBVIOUS
    <3>1. CASE \E i \in DOMAIN list' : list'[i].from = d
      BY <1>1, <2>3, <3>1 DEF Pointed
    <3>2. CASE \E j \in Handler : h'[j].it = d
      BY <1>2, <1>3, <3>2 DEF Pointed, Conn, None
    <3> QED
      BY <3>1, <3>2 DEF Pointed
  <2>10. OnceOK'
    BY <2>7, <2>8 DEF WalkInv, OnceOK, LoggingOn
  <2>11. PointedOK'
    BY <2>6, <2>7, <2>8, <2>9 DEF WalkInv, PointedOK, LoggingOn
  <2>12. NodesOK'
    BY <1>1, <2>3, <2>4 DEF WalkInv, NodesOK
  <2>13. ItOK'
    <3>1. None <= naccd
      BY BoundsAssumption DEF WalkInv, Inv, MainOK, None
    <3> QED
      BY <1>2, <1>3, <3>1 DEF WalkInv, ItOK
  <2>14. WalkMissesNobody'
    <3> SUFFICES ASSUME NEW j \in Handler,
                        h'[j].pc = "walk", h'[j].msg.type = "GET_CLIENTS",
                        NEW p \in DOMAIN list', list'[p].from = h'[j].it,
                        NEW i \in 1..(p - 1)
                 PROVE  list'[i].from \in h'[j].buf
      BY DEF WalkMissesNobody, PositionOf
    <3>1. h'[j] = h[j]
      BY <1>2, <1>3
    <3>2. p \in 1..n
      BY <1>1, <2>3, <2>6, <3>1 DEF Pointed
    <3>3. list[i].from \in h[j].buf
      BY <1>1, <2>3, <3>1, <3>2 DEF WalkInv, WalkMissesNobody, PositionOf
    <3> QED
      BY <1>1, <2>3, <3>1, <3>2, <3>3
  <2> QED
    BY <2>7, <2>10, <2>11, <2>12, <2>13, <2>14 DEF WalkInv
<1> QED
  BY <1>4, <1>5

\* A node that is taken out leaves the others in their order.
LEMMA RemoveUnlists ==
  ASSUME WalkInv, Inv', NEW k \in Handler, Remove(k)
  PROVE  WalkInv'
<1>1. /\ h \in [Handler -> Locals]
      /\ list \in Seq(Nodes) /\ Len(list) \in Nat /\ DOMAIN list = 1..Len(list)
  BY LenProperties DEF WalkInv, Inv, HandlersOK, ListOK
<1>2. /\ UNCHANGED <<naccd, conn>> /\ h'[k] = Returned
      /\ \A j \in Handler \ {k} : h'[j] = h[j]
  BY <1>1 DEF Remove, Elsewhere, mainVars, connVars
<1>3. Returned.pc = "done" /\ Returned.it = None
  BY DEF Returned, NewHandler
<1>4. CASE list' = list
  <2>1. Walked(h'[k])
    BY <1>2, <1>3 DEF Walked
  <2> QED
    BY <1>2, <1>3, <1>4, <2>1, OneMoves
<1>5. CASE list' # list
  <2> DEFINE c == h[k].msg.from
  <2>1. Listed(c) /\ list' = Unlink(First(Positions(c)))
    BY <1>5 DEF Remove
  <2>2. PICK x \in DOMAIN list : list' = Unlink(x)
    <3>1. Positions(c) \in SUBSET Nat /\ Positions(c) # {}
      BY <1>1, <2>1 DEF Positions, Listed
    <3>2. First(Positions(c)) \in Positions(c)
      BY <3>1, FirstProperties
    <3> QED
      BY <2>1, <3>2 DEF Positions
  <2>3. /\ DOMAIN list' = 1..(Len(list) - 1)
        /\ \A i \in 1..(Len(list) - 1) :
              list'[i] = IF i < x THEN list[i] ELSE list[i + 1]
    BY <2>2 DEF Unlink
  <2> DEFINE Was(i) == IF i < x THEN i ELSE i + 1
  <2>4. \A i \in DOMAIN list' : Was(i) \in DOMAIN list /\ list'[i] = list[Was(i)]
    BY <1>1, <2>3
  <2>5. \A i, j \in DOMAIN list' : /\ Was(i) = Was(j) => i = j
                                   /\ i < j => Was(i) < Was(j)
    BY <1>1, <2>3
  <2> HIDE DEF Was
  <2>6. RequestsOK' /\ \A d \in Conn : Unread(d)' <=> Unread(d)
    BY <1>2, SameRequests DEF WalkInv
  <2>7. \A d \in Conn : \A j \in Handler : LoggingOn(h[j], d)' => LoggingOn(h[j], d)
    BY <1>2, <1>3 DEF LoggingOn
  <2>8. \A d \in Conn : Pointed(d)' => Pointed(d)
    <3> SUFFICES ASSUME NEW d \in Conn, Pointed(d)'
                 PROVE  Pointed(d)
      OBVIOUS
    <3>1. CASE \E i \in DOMAIN list' : list'[i].from = d
      BY <2>4, <3>1 DEF Pointed
    <3>2. CASE \E j \in Handler : h'[j].it = d
      BY <1>2, <1>3, <3>2 DEF Pointed, Conn, None
    <3> QED
      BY <3>1, <3>2 DEF Pointed
  <2>9. OnceOK' /\ PointedOK'
    BY <2>6, <2>7, <2>8, FewerKeeps DEF WalkInv
  <2>10. NodesOK'
    BY <2>4, <2>5 DEF WalkInv, NodesOK
  <2>11. ItOK'
    <3>1. None <= naccd
      BY BoundsAssumption DEF WalkInv, Inv, MainOK, None
    <3> QED
      BY <1>2, <1>3, <3>1 DEF WalkInv, ItOK
  <2>12. WalkMissesNobody'
    <3> SUFFICES ASSUME NEW j \in Handler,
                        h'[j].pc = "walk", h'[j].msg.type = "GET_CLIENTS",
                        NEW p \in DOMAIN list', list'[p].from = h'[j].it,
                        NEW i \in 1..(p - 1)
                 PROVE  list'[i].from \in h'[j].buf
      BY DEF WalkMissesNobody, PositionOf
    <3>1. h'[j] = h[j]
      BY <1>2, <1>3
    <3>2. i \in DOMAIN list' /\ i < p
      BY <1>1, <2>3
    <3>3. /\ Was(i) \in DOMAIN list /\ Was(p) \in DOMAIN list /\ Was(i) < Was(p)
          /\ list'[i] = list[Was(i)] /\ list'[p] = list[Was(p)]
      BY <2>4, <2>5, <3>2
    <3>4. Was(i) \in 1..(Was(p) - 1)
      BY <1>1, <3>3
    <3>5. list[Was(i)].from \in h[j].buf
      BY <3>1, <3>3, <3>4 DEF WalkInv, WalkMissesNobody, PositionOf
    <3> QED
      BY <3>1, <3>3, <3>5
  <2> QED
    BY <2>6, <2>9, <2>10, <2>11, <2>12 DEF WalkInv
<1> QED
  BY <1>4, <1>5

\* All steps of a handler.
LEMMA HandlerWalks ==
  ASSUME WalkInv, Inv', NEW k \in Handler, HandlerStep(k) \/ ReadStdin(k)
  PROVE  WalkInv'
<1>1. CASE \/ ReadTextAsLength(k) \/ ReadTextElsewhere(k) \/ WalkFreed(k)
           \/ BrokenPipe(k) \/ CloseUnlisted(k) \/ RemoveFromEmpty(k)
           \/ UseFreed(k) \/ Race(k) \/ Fail("misframed")
  <2>1. UNCHANGED <<list, naccd, conn, h>>
    BY <1>1 DEF ReadTextAsLength, ReadTextElsewhere, WalkFreed, BrokenPipe,
                CloseUnlisted, RemoveFromEmpty, UseFreed, Race, Fail, mainVars,
                listVars, connVars
  <2>2. Walked(h'[k])
    BY <2>1 DEF WalkInv, WalkMissesNobody, Walked
  <2> QED
    BY <2>1, <2>2, OneMoves
<1> QED
  BY <1>1, PlainKeeps, ReadTextTakes, AddLists, RemoveUnlists, WalkGoesOn
     DEF HandlerStep, ReadStdin

-----------------------------------------------------------------------------
(* The clients, main, and the theorem.                                     *)

\* Steps that leave the handlers alone, or start one, and keep or drop the list.
LEMMA OthersWalk ==
  ASSUME WalkInv, Inv', list' \in {list, <<>>}, naccd' \in {naccd, naccd + 1},
         \A k \in Handler : \/ h'[k] = h[k]
                            \/ h'[k].pc = "start" /\ h'[k].it = h[k].it,
         RequestsOK', \A c \in Conn : Unread(c)' => Unread(c)
  PROVE  WalkInv'
<1>1. DOMAIN list' = {} \/ list' = list
  BY EmptySeq
<1>2. \A c \in Conn : \A k \in Handler : LoggingOn(h[k], c)' => LoggingOn(h[k], c)
  BY DEF LoggingOn
<1>3. \A c \in Conn : Pointed(c)' => Pointed(c)
  BY <1>1 DEF Pointed
<1>4. OnceOK' /\ PointedOK'
  BY <1>2, <1>3, FewerKeeps DEF WalkInv
<1>5. NodesOK'
  BY <1>1 DEF WalkInv, NodesOK
<1>6. ItOK'
  <2>1. ASSUME NEW k \in Handler PROVE h'[k].it <= naccd'
    <3>1. h'[k].it = h[k].it /\ h[k].it \in Int /\ h[k].it <= naccd /\ naccd \in Nat
      BY BoundsAssumption
         DEF WalkInv, ItOK, Inv, MainOK, HandlersOK, Locals, Conn, None
    <3> QED
      BY <3>1
  <2> QED
    BY <2>1 DEF ItOK
<1>7. WalkMissesNobody'
  BY <1>1 DEF WalkInv, WalkMissesNobody, PositionOf
<1> QED
  BY <1>4, <1>5, <1>6, <1>7 DEF WalkInv

\* A connection begins with its LOG_ON, and nothing in the server stems from it.
LEMMA ConnectWalks ==
  ASSUME WalkInv, Inv', NEW w \in Client, Connect(w)
  PROVE  WalkInv'
<1>1. /\ nconn \in 0..MaxConn /\ naccd \in 0..nconn /\ nconn < MaxConn
      /\ MaxConn \in Nat /\ conn \in [Conn -> Connections]
  BY BoundsAssumption DEF Connect, WalkInv, Inv, MainOK, ConnsOK
<1> DEFINE c == nconn + 1
<1>2. /\ c \in Conn /\ naccd < c
      /\ UNCHANGED <<list, naccd, h>> /\ conn'[c].reqs = <<"LOG_ON">>
      /\ \A d \in Conn \ {c} : conn'[d] = conn[d]
  BY <1>1 DEF Connect, Outside, mainVars, listVars, NewConn, Conn
<1> HIDE DEF c
<1>3. \A k \in Handler : h[k].it # c /\ ~LoggingOn(h[k], c)
  <2> SUFFICES ASSUME NEW k \in Handler
               PROVE  h[k].it # c /\ h[k].msg.from # c
    BY DEF LoggingOn
  <2> QED
    BY <1>1, <1>2 DEF WalkInv, ItOK, Inv, HandlersOK, HandlerOK, Conn
<1>4. \A i \in DOMAIN list : list[i].from # c
  BY <1>1, <1>2 DEF WalkInv, Inv, ListOK, Conn
<1>5. RequestsOK' /\ \A d \in Conn \ {c} : Unread(d)' <=> Unread(d)
  <2>1. DOMAIN conn'[c].reqs = 1..1
    BY <1>2
  <2> QED
    BY <1>2, <2>1 DEF WalkInv, RequestsOK, Unread
<1>6. OnceOK' /\ PointedOK'
  BY <1>2, <1>3, <1>4, <1>5 DEF WalkInv, OnceOK, PointedOK, Pointed, LoggingOn
<1>7. NodesOK' /\ ItOK' /\ WalkMissesNobody'
  BY <1>2 DEF WalkInv, NodesOK, ItOK, WalkMissesNobody, PositionOf
<1> QED
  BY <1>5, <1>6, <1>7 DEF WalkInv

\* The requests a client sends later are no LOG_ON.
LEMMA ClientWalks ==
  ASSUME WalkInv, Inv', NEW c \in Conn, Ask(c) \/ LogOff(c) \/ Finish(c) \/ Die(c)
  PROVE  WalkInv'
<1>1. conn \in [Conn -> Connections] /\ conn[c].reqs \in Seq(Requests)
  BY DEF WalkInv, Inv, ConnsOK, Connections
<1>2. UNCHANGED <<list, naccd, h>> /\ \A d \in Conn \ {c} : conn'[d] = conn[d]
  BY <1>1 DEF Ask, LogOff, Request, Finish, Die, Outside, mainVars, listVars
<1>3. PICK type \in {"GET_CLIENTS", "LOG_OFF"} :
         conn'[c].reqs \in {conn[c].reqs, <<>>, Append(conn[c].reqs, type)}
  <2>1. CASE Ask(c) \/ LogOff(c)
    BY <1>1, <2>1 DEF Ask, LogOff, Request, Connections
  <2>2. CASE Finish(c) \/ Die(c)
    BY <1>1, <2>2 DEF Finish, Die, Connections
  <2> QED
    BY <2>1, <2>2
<1>4. /\ Len(conn[c].reqs) \in Nat /\ DOMAIN conn[c].reqs = 1..Len(conn[c].reqs)
      /\ \A i \in DOMAIN conn'[c].reqs :
            conn'[c].reqs[i] = "LOG_ON" =>
               i \in DOMAIN conn[c].reqs /\ conn[c].reqs[i] = "LOG_ON"
  <2>1. Len(conn[c].reqs) \in Nat /\ DOMAIN conn[c].reqs = 1..Len(conn[c].reqs)
    BY <1>1, LenProperties
  <2>2. CASE conn'[c].reqs \in {conn[c].reqs, <<>>}
    BY <2>1, <2>2, EmptySeq
  <2>3. CASE conn'[c].reqs = Append(conn[c].reqs, type)
    <3>1. type \in Requests /\ type # "LOG_ON"
      BY DEF Requests
    <3>2. /\ DOMAIN conn'[c].reqs = 1..(Len(conn[c].reqs) + 1)
          /\ \A i \in 1..Len(conn[c].reqs) : conn'[c].reqs[i] = conn[c].reqs[i]
          /\ conn'[c].reqs[Len(conn[c].reqs) + 1] = type
      BY <1>1, <2>1, <2>3, <3>1, AppendProperties, LenProperties
    <3>3. ASSUME NEW i \in DOMAIN conn'[c].reqs, conn'[c].reqs[i] = "LOG_ON"
          PROVE  i \in DOMAIN conn[c].reqs /\ conn[c].reqs[i] = "LOG_ON"
      <4>1. i # Len(conn[c].reqs) + 1
        BY <3>1, <3>2, <3>3
      <4>2. i \in 1..Len(conn[c].reqs)
        BY <2>1, <3>2, <3>3, <4>1
      <4> QED
        BY <2>1, <3>2, <3>3, <4>2
    <3> QED
      BY <2>1, <3>3
  <2> QED
    BY <1>3, <2>1, <2>2, <2>3
<1>5. RequestsOK' /\ \A d \in Conn : Unread(d)' => Unread(d)
  BY <1>2, <1>4 DEF WalkInv, RequestsOK, Unread
<1> QED
  BY <1>2, <1>5, OthersWalk

\* main accepts, starts a thread, drops the list when it exits.
LEMMA MainWalks ==
  ASSUME WalkInv, Inv', MainStep \/ Sigint \/ UNCHANGED vars
  PROVE  WalkInv'
<1>1. /\ list' \in {list, <<>>} /\ naccd' \in {naccd, naccd + 1} /\ conn' = conn
  BY DEF MainStep, Sigint, vars, CheckRun, EnterSelect, WakeToExit, MainGoes, MainStops,
         Accept, AcceptFails, GiveUp, Spawn, SpawnFails, SpawnPastTheEnd, Release, Join,
         JoinGarbage, Exit, InMain, Fail, mainVars, listVars, connVars
<1>2. ASSUME NEW k \in Handler
      PROVE  h'[k] = h[k] \/ (h'[k].pc = "start" /\ h'[k].it = h[k].it)
  <2>1. CASE Spawn
    <3>1. h' = [h EXCEPT ![nspawn'].pc = "start"] /\ h \in [Handler -> Locals]
      BY <2>1 DEF Spawn, WalkInv, Inv, HandlersOK
    <3> QED
      BY <3>1 DEF Locals
  <2>2. CASE ~Spawn
    BY <2>2 DEF MainStep, Sigint, vars, CheckRun, EnterSelect, WakeToExit, MainGoes,
                MainStops, Accept, AcceptFails, GiveUp, SpawnFails, SpawnPastTheEnd,
                Release, Join, JoinGarbage, Exit, InMain, Fail
  <2> QED
    BY <2>1, <2>2
<1>3. RequestsOK' /\ \A c \in Conn : Unread(c)' => Unread(c)
  BY <1>1 DEF WalkInv, RequestsOK, Unread
<1> QED
  BY <1>1, <1>2, <1>3, OthersWalk

LEMMA WalkInit ==
  ASSUME Init
  PROVE  WalkInv
<1>1. /\ Inv /\ DOMAIN list = {}
      /\ \A c \in Conn : DOMAIN conn[c].reqs = {}
      /\ \A k \in Handler : h[k].pc = "none" /\ h[k].it = None
  <2>1. Inv
    BY InitInv
  <2>2. DOMAIN list = {}
    BY EmptySeq DEF Init
  <2>3. \A c \in Conn : DOMAIN conn[c].reqs = {}
    BY EmptySeq DEF Init, NewConn
  <2>4. \A k \in Handler : h[k].pc = "none" /\ h[k].it = None
    BY DEF Init, NewHandler
  <2> QED
    BY <2>1, <2>2, <2>3, <2>4
<1>2. RequestsOK /\ OnceOK /\ PointedOK
  BY <1>1 DEF RequestsOK, OnceOK, PointedOK, Pointed, Unread, LoggingOn
<1>3. NodesOK /\ ItOK /\ WalkMissesNobody
  BY <1>1 DEF Init, NodesOK, ItOK, WalkMissesNobody, None
<1> QED
  BY <1>1, <1>2, <1>3 DEF WalkInv

LEMMA WalkStep ==
  ASSUME WalkInv, [Next]_vars
  PROVE  WalkInv'
<1>1. Inv'
  BY StepInv DEF WalkInv
<1> QED
  BY <1>1, ConnectWalks, ClientWalks, MainWalks, HandlerWalks DEF Next

\* CLIENT_LIST names every client that is on the list from the beginning of the
\* walk to its end (serverUtils.c:347), however the other threads change the
\* list meanwhile.
THEOREM WalksMissNobody == Spec => []WalkMissesNobody
<1>1. WalkInv => WalkMissesNobody
  BY DEF WalkInv
<1> QED
  BY <1>1, WalkInit, WalkStep, PTL DEF Spec

-----------------------------------------------------------------------------
(* Which threads the server has waited for when it exits: for every length   *)
(* of the array serverThreads as well.                                       *)

\* Each element of serverThreads holds the id of a thread of its own, if any:
\* the one whose creation wrote it last.
SlotsOK ==
    /\ \A i \in DOMAIN slots : slots[i] <= nspawn
    /\ \A i, j \in DOMAIN slots : slots[i] = slots[j] /\ slots[i] # None => i = j

\* The join loop has passed only elements whose thread has returned, and is
\* left only behind the last one counted.
JoinOK ==
    /\ mpc \notin {"join", "exited"} => joined = 0
    /\ \A i \in 0..(joined - 1) : /\ i \in DOMAIN slots /\ slots[i] # None
                                  /\ h[slots[i]].pc = "done"
    /\ mpc = "exited" => joined >= threadCounter

ExitInv == Inv /\ SlotsOK /\ JoinOK

-----------------------------------------------------------------------------

\* A step of a handler is not that of one that has returned or not begun; no
\* other one changes, and main stays where it is.
LEMMA StepOfOne ==
  ASSUME Inv, NEW k \in Handler, HandlerStep(k) \/ ReadStdin(k)
  PROVE  /\ UNCHANGED <<mpc, nspawn, slots, joined>>
         /\ \A j \in Handler : h[j].pc = "done" => h'[j] = h[j]
         /\ mpc # "exited"
<1>1. /\ h \in [Handler -> Locals] /\ mpc # "exited"
      /\ UNCHANGED <<mpc, nspawn, slots, joined>>
  BY DEF Inv, HandlersOK, HandlerStep, ReadStdin, Skip, Start, Count, Read, ReadLength,
         ReadEof, ReadTextAsLength, ReadText, ReadTextClosed, ReadTextElsewhere, Dispatch,
         Add, BeginWalk, StopWalk, Announce, Collect, WalkFreed, Reply, BrokenPipe,
         Close, CloseUnlisted, Remove, RemoveFromEmpty, UseFreed, Race, Local, In,
         Running, Private, Elsewhere, Fail, mainVars, threadVars
<1>2. PICK l : h' = [h EXCEPT ![k] = l]
  BY HandlerHolds
<1>3. h[k].pc = "done" => h' = h
  BY DEF HandlerStep, ReadStdin, Skip, Start, Count, Read, ReadLength, ReadEof,
         ReadTextAsLength, ReadText, ReadTextClosed, ReadTextElsewhere, Dispatch, Add, BeginWalk,
         StopWalk, Announce, Collect, WalkFreed, Reply, BrokenPipe, Close,
         CloseUnlisted, Remove, RemoveFromEmpty, UseFreed, Race, Local, In, Fail
<1> QED
  BY <1>1, <1>2, <1>3

\* A step that leaves main, its array and the threads that have returned alone.
LEMMA ElsewhereKeeps ==
  ASSUME ExitInv, UNCHANGED <<nspawn, slots, joined>>,
         \A j \in Handler : h[j].pc = "done" => h'[j] = h[j],
         mpc' = mpc \/ (mpc \notin {"join", "exited"} /\ mpc' # "exited"),
         mpc = "exited" => threadCounter' = threadCounter
  PROVE  SlotsOK' /\ JoinOK'
<1>1. /\ slots \in [0..(MAX_CLIENTS_SIZE - 1) -> Handler \cup {None}]
      /\ joined \in Nat /\ mpc' = "exited" => mpc = "exited"
  BY DEF ExitInv, Inv, MainOK
<1>2. SlotsOK'
  BY DEF ExitInv, SlotsOK
<1>3. ASSUME NEW i \in 0..(joined - 1)
      PROVE  i \in DOMAIN slots /\ slots[i] # None /\ h'[slots[i]].pc = "done"
  <2>1. i \in DOMAIN slots /\ slots[i] # None /\ h[slots[i]].pc = "done"
    BY DEF ExitInv, JoinOK
  <2>2. slots[i] \in Handler
    BY <1>1, <2>1
  <2> QED
    BY <2>1, <2>2
<1> QED
  BY <1>1, <1>2, <1>3 DEF ExitInv, JoinOK

\* pthread_create writes one element, with an id no other one holds.
LEMMA SpawnKeepsSlots ==
  ASSUME ExitInv, Spawn
  PROVE  SlotsOK' /\ JoinOK'
<1>1. /\ slots \in [0..(MAX_CLIENTS_SIZE - 1) -> Handler \cup {None}]
      /\ nspawn \in Nat /\ nspawn' = nspawn + 1
      /\ threadCounter \in DOMAIN slots
      /\ slots' = [slots EXCEPT ![threadCounter] = nspawn']
      /\ mpc = "spawn" /\ mpc' = "check" /\ joined' = joined
  BY BoundsAssumption DEF ExitInv, Inv, MainOK, Spawn, InMain
<1>2. /\ DOMAIN slots' = DOMAIN slots
      /\ \A i \in DOMAIN slots :
            slots'[i] = IF i = threadCounter THEN nspawn + 1 ELSE slots[i]
      /\ \A i \in DOMAIN slots : slots[i] \in Nat /\ slots[i] <= nspawn
  BY <1>1 DEF ExitInv, SlotsOK, Handler, None
<1>3. SlotsOK'
  BY <1>1, <1>2 DEF ExitInv, SlotsOK
<1>4. joined' = 0
  BY <1>1 DEF ExitInv, JoinOK
<1> QED
  BY <1>1, <1>3, <1>4 DEF JoinOK

\* If it fails it may spoil the element.
LEMMA SpawnFailsKeepsSlots ==
  ASSUME ExitInv, SpawnFails
  PROVE  SlotsOK' /\ JoinOK'
<1>1. /\ slots \in [0..(MAX_CLIENTS_SIZE - 1) -> Handler \cup {None}]
      /\ nspawn \in Nat /\ nspawn' = nspawn /\ threadCounter \in DOMAIN slots
      /\ slots' \in {slots, [slots EXCEPT ![threadCounter] = None]}
      /\ mpc = "spawn" /\ mpc' = "check" /\ joined' = joined
  BY BoundsAssumption DEF ExitInv, Inv, MainOK, SpawnFails, InMain
<1>2. DOMAIN slots' = DOMAIN slots /\ \A i \in DOMAIN slots : slots'[i] \in {slots[i], None}
  BY <1>1
<1>3. SlotsOK'
  BY <1>1, <1>2 DEF ExitInv, SlotsOK, None
<1>4. joined' = 0
  BY <1>1 DEF ExitInv, JoinOK
<1> QED
  BY <1>1, <1>3, <1>4 DEF JoinOK

\* The join loop goes on when the thread at hand has returned.
LEMMA JoinKeeps ==
  ASSUME ExitInv, Join
  PROVE  SlotsOK' /\ JoinOK'
<1>1. /\ joined \in Nat /\ joined' = joined + 1 /\ UNCHANGED <<slots, nspawn, h>>
      /\ joined \in DOMAIN slots /\ slots[joined] # None
      /\ h[slots[joined]].pc = "done" /\ mpc' = "join"
  BY DEF ExitInv, Inv, MainOK, Join, Joinable, InMain
<1>2. SlotsOK'
  BY <1>1 DEF ExitInv, SlotsOK
<1>3. \A i \in 0..(joined' - 1) : i \in 0..(joined - 1) \/ i = joined
  BY <1>1
<1> QED
  BY <1>1, <1>2, <1>3 DEF ExitInv, JoinOK

\* The server exits behind the last thread counted.
LEMMA ExitKeepsJoined ==
  ASSUME ExitInv, Exit
  PROVE  SlotsOK' /\ JoinOK'
<1>1. /\ joined >= threadCounter /\ mpc' = "exited"
      /\ UNCHANGED <<joined, threadCounter, slots, nspawn, h>>
  BY DEF Exit, InMain, threadVars
<1> QED
  BY <1>1 DEF ExitInv, SlotsOK, JoinOK

LEMMA ExitStep ==
  ASSUME ExitInv, [Next]_vars
  PROVE  ExitInv'
<1>1. Inv'
  BY StepInv DEF ExitInv
<1> USE DEF threadVars
<1>2. CASE \/ \E w \in Client : Connect(w)
           \/ \E c \in Conn : Ask(c) \/ LogOff(c) \/ Finish(c) \/ Die(c)
           \/ UNCHANGED vars
  <2>1. UNCHANGED <<nspawn, slots, joined, h, mpc, threadCounter>>
    BY <1>2 DEF Connect, Ask, LogOff, Request, Finish, Die, Outside, vars, mainVars
  <2> QED
    BY <1>1, <2>1, ElsewhereKeeps DEF ExitInv
<1>3. CASE \/ Sigint \/ CheckRun \/ EnterSelect \/ WakeToExit \/ Accept
           \/ AcceptFails \/ GiveUp \/ Release \/ SpawnPastTheEnd \/ JoinGarbage
  <2>1. /\ UNCHANGED <<nspawn, slots, joined, h, threadCounter>>
        /\ mpc' = mpc \/ (mpc \notin {"join", "exited"} /\ mpc' # "exited")
    BY <1>3 DEF Sigint, CheckRun, EnterSelect, WakeToExit, Accept, AcceptFails,
                GiveUp, Release, SpawnPastTheEnd, JoinGarbage, MainGoes, MainStops,
                InMain, Fail, mainVars
  <2> QED
    BY <1>1, <2>1, ElsewhereKeeps DEF ExitInv
<1>4. CASE Spawn \/ SpawnFails \/ Join \/ Exit
  BY <1>1, <1>4, SpawnKeepsSlots, SpawnFailsKeepsSlots, JoinKeeps, ExitKeepsJoined
     DEF ExitInv
<1>5. CASE \E k \in Handler : HandlerStep(k) \/ ReadStdin(k)
  <2>1. PICK k \in Handler : HandlerStep(k) \/ ReadStdin(k)
    BY <1>5
  <2>2. /\ UNCHANGED <<mpc, nspawn, slots, joined>> /\ mpc # "exited"
        /\ \A j \in Handler : h[j].pc = "done" => h'[j] = h[j]
    BY <2>1, StepOfOne DEF ExitInv
  <2> QED
    BY <1>1, <2>2, ElsewhereKeeps DEF ExitInv
<1> QED
  BY <1>2, <1>3, <1>4, <1>5 DEF Next, MainStep

-----------------------------------------------------------------------------

\* If as many elements are passed as there are threads, each holding another
\* thread's id, no thread is left out.
LEMMA NobodyLeftOut ==
  ASSUME ExitInv, mpc = "exited", threadCounter = nspawn, NEW k \in 1..nspawn
  PROVE  h[k].pc = "done"
<1>1. /\ nspawn \in Nat /\ joined \in Nat /\ joined >= nspawn
      /\ slots \in [0..(MAX_CLIENTS_SIZE - 1) -> Handler \cup {None}]
  BY BoundsAssumption DEF ExitInv, Inv, MainOK, JoinOK
<1> DEFINE S == 0..(nspawn - 1)
           T == 1..nspawn
           f == [i \in S |-> slots[i]]
<1>2. ASSUME NEW i \in S
      PROVE  i \in DOMAIN slots /\ slots[i] # None /\ h[slots[i]].pc = "done"
  BY <1>1 DEF ExitInv, JoinOK
<1>3. ASSUME NEW i \in S
      PROVE  f[i] \in T
  BY <1>1, <1>2 DEF ExitInv, SlotsOK, Handler, None
<1>4. \A i, j \in S : f[i] = f[j] => i = j
  BY <1>2 DEF ExitInv, SlotsOK
<1>5. f \in Injection(S, T)
  <2>1. f \in [S -> T]
    BY <1>3
  <2> QED
    BY <1>4, <2>1 DEF Injection, IsInjective
<1>6. IsFiniteSet(S) /\ IsFiniteSet(T) /\ Cardinality(S) = Cardinality(T)
  <2>1. Cardinality(S) = nspawn /\ Cardinality(T) = nspawn
    BY <1>1, FS_Interval
  <2> QED
    BY <1>1, <2>1, FS_Interval
<1>7. f \in Surjection(S, T)
  <2> HIDE DEF S, T, f
  <2> QED
    BY <1>5, <1>6, FS_Injection
<1>8. PICK i \in S : f[i] = k
  BY <1>7 DEF Surjection
<1> QED
  BY <1>2, <1>8

\* The server exits only after every thread has returned, provided the threads'
\* own count is right (main.c:219): an id that another one overwrote cannot be
\* missing then, because the loop would meet an element without one.
THEOREM CountedAreJoined == Spec => []CountedAreAwaited
<1>1. Init => ExitInv
  <2> SUFFICES ASSUME Init PROVE ExitInv
    OBVIOUS
  <2>1. Inv
    BY InitInv
  <2>2. SlotsOK
    BY DEF Init, SlotsOK, None
  <2>3. JoinOK
    BY DEF Init, JoinOK
  <2> QED
    BY <2>1, <2>2, <2>3 DEF ExitInv
<1>2. ExitInv => CountedAreAwaited
  BY NobodyLeftOut DEF CountedAreAwaited
<1> QED
  BY <1>1, <1>2, ExitStep, PTL DEF Spec
=============================================================================
