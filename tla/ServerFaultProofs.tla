-------------------------- MODULE ServerFaultProofs --------------------------
(***************************************************************************)
(* What it takes for the server to go wrong: for every number of clients,  *)
(* connections, threads and descriptors.  A connection logs off at most    *)
(* once, and only after it has logged on; so its client is in the list     *)
(* then, unless another thread, or another connection, has interfered.     *)
(***************************************************************************)
EXTENDS ServerWalkProofs

\* LOG_OFF of connection c is sent and not taken; handler k has taken it and
\* not dealt with it; it is sent, and nobody has it any more.
Leaving(c) == \E i \in DOMAIN conn[c].reqs : conn[c].reqs[i] = "LOG_OFF"
LoggingOff(k, c) == h[k].msg.type = "LOG_OFF" /\ h[k].msg.from = c
LoggedOff(c) == /\ conn[c].st \in {"off", "gone"} /\ ~Leaving(c)
                /\ \A k \in Handler : ~LoggingOff(k, c)

\* The client of connection c has made another one.
Twin(c) == \E d \in 1..nconn : d # c /\ conn[d].who = conn[c].who

\* LOG_OFF is the last request of a connection, and its only one.
OffOK == \A c \in Conn :
            /\ \A i \in DOMAIN conn[c].reqs : conn[c].reqs[i] = "LOG_OFF" =>
                  i = Len(conn[c].reqs) /\ conn[c].st \in {"off", "gone"}
            /\ \A k \in Handler : LoggingOff(k, c) =>
                  /\ conn[c].st \in {"off", "gone"} /\ ~Leaving(c)
                  /\ \A j \in Handler : LoggingOff(j, c) => j = k

\* A request that a handler has in its hands comes behind the LOG_ON.
TakenOK == \A k \in Handler : \A c \in Conn : h[k].msg.from = c => ~Unread(c)

\* What kind of request is dealt with at a label.
LabelOK(l) == /\ l.pc = "add" => l.msg.type = "LOG_ON"
              /\ l.pc \in {"close", "remove"} => l.msg.type = "LOG_OFF"
LabelsOK == \A k \in Handler : LabelOK(h[k])

\* As long as the program runs, a connection has still to log on, is about to,
\* has its client in the list, or has logged off.
Logging(c) == \E k \in Handler : LoggingOn(h[k], c)
KnownOK == shouldRun => \A c \in 1..nconn :
              Unread(c) \/ Logging(c) \/ Listed(c) \/ Twin(c) \/ LoggedOff(c)

\* A thread does nothing before it is created; main is on its way out, and has
\* freed the list, only after shouldRun is cleared; until then nobody is about
\* to read standard input.
SpawnedOK == \A k \in Handler : k > nspawn => h[k] = NewHandler
FreedOK == destroyed \/ mpc \in {"exit", "join", "exited"} => ~shouldRun
RunOK == FreedOK /\ StdinOK

OffInv == /\ WalkInv /\ SpawnedOK /\ RunOK
          /\ OffOK /\ TakenOK /\ LabelsOK /\ KnownOK

-----------------------------------------------------------------------------
(* Threads begin when they are created, and the program stops for good.      *)

LEMMA StepRuns ==
  ASSUME Inv, SpawnedOK, FreedOK, [Next]_vars
  PROVE  SpawnedOK' /\ FreedOK'
<1>1. h \in [Handler -> Locals] /\ nspawn \in 0..MaxThread /\ shouldRun \in BOOLEAN
  BY DEF Inv, HandlersOK, MainOK
<1>2. CASE \/ \E w \in Client : Connect(w)
           \/ \E c \in Conn : Ask(c) \/ LogOff(c) \/ Finish(c) \/ Die(c)
           \/ UNCHANGED vars
  <2>1. UNCHANGED <<nspawn, h, mpc, shouldRun, destroyed>>
    BY <1>2 DEF Connect, Ask, LogOff, Request, Finish, Die, Outside, vars, mainVars,
                threadVars, listVars
  <2> QED
    BY <2>1 DEF SpawnedOK, FreedOK
<1>3. CASE Spawn
  <2>1. /\ h' = [h EXCEPT ![nspawn + 1].pc = "start"] /\ nspawn' = nspawn + 1
        /\ mpc' = "check" /\ UNCHANGED <<shouldRun, destroyed>>
    BY <1>3 DEF Spawn, InMain, listVars
  <2>2. ASSUME NEW k \in Handler, k > nspawn + 1
        PROVE  h'[k] = h[k] /\ k > nspawn
    BY <1>1, <2>1, <2>2, BoundsAssumption DEF Handler
  <2> QED
    BY <2>1, <2>2 DEF SpawnedOK, FreedOK
<1>4. CASE Sigint \/ (MainStep /\ ~Spawn)
  <2>1. UNCHANGED <<nspawn, h>>
    BY <1>4 DEF Sigint, MainStep, CheckRun, EnterSelect, WakeToExit, Accept,
                AcceptFails, GiveUp, Release, SpawnFails, SpawnPastTheEnd, JoinGarbage,
                Join, Exit, MainGoes, MainStops, InMain, Fail, threadVars
  <2>2. CASE Sigint \/ CheckRun \/ EnterSelect \/ WakeToExit \/ Accept \/ AcceptFails
    BY <2>1, <2>2 DEF Sigint, CheckRun, EnterSelect, WakeToExit, Accept, AcceptFails,
                      MainGoes, MainStops, InMain, listVars, FreedOK, SpawnedOK
  <2>3. CASE GiveUp \/ Release \/ SpawnFails \/ SpawnPastTheEnd \/ JoinGarbage \/ Join \/ Exit
    BY <2>1, <2>3 DEF GiveUp, Release, SpawnFails, SpawnPastTheEnd, JoinGarbage, Join,
                      Exit, InMain, Fail, mainVars, listVars, FreedOK, SpawnedOK
  <2> QED
    BY <1>4, <2>2, <2>3 DEF MainStep
<1>5. CASE \E k \in Handler : HandlerStep(k) \/ ReadStdin(k)
  <2> PICK k \in Handler : HandlerStep(k) \/ ReadStdin(k)
    BY <1>5
  <2>1. UNCHANGED <<nspawn, mpc, shouldRun, destroyed>>
    BY DEF HandlerStep, ReadStdin, Skip, Start, Count, Read, ReadLength, ReadEof,
           ReadTextAsLength, ReadText, ReadTextClosed, ReadTextElsewhere, Dispatch,
           Add, BeginWalk, StopWalk, Announce, Collect, WalkFreed, Reply, BrokenPipe,
           Close, CloseUnlisted, Remove, RemoveFromEmpty, UseFreed, Race, Local,
           Private, Elsewhere, Fail, mainVars, threadVars, listVars
  <2>2. PICK l : h' = [h EXCEPT ![k] = l]
    BY HandlerHolds
  <2>3. h[k].pc = "none" => h' = h
    BY DEF HandlerStep, ReadStdin, Skip, Start, Count, Read, ReadLength, ReadEof,
           ReadTextAsLength, ReadText, ReadTextClosed, ReadTextElsewhere, Dispatch,
           Add, BeginWalk, StopWalk, Announce, Collect, WalkFreed, Reply, BrokenPipe,
           Close, CloseUnlisted, Remove, RemoveFromEmpty, UseFreed, Race, Local, In,
           Fail
  <2>4. NewHandler.pc = "none"
    BY DEF NewHandler
  <2> QED
    BY <1>1, <2>1, <2>2, <2>3, <2>4 DEF SpawnedOK, FreedOK
<1> QED
  BY <1>2, <1>3, <1>4, <1>5 DEF Next

-----------------------------------------------------------------------------
(* The steps of a handler.                                                   *)

\* Steps of a handler that take no request and leave the list as it is.
Plain(k) == \/ Start(k) \/ Count(k) \/ Read(k) \/ ReadLength(k) \/ ReadEof(k)
            \/ ReadTextClosed(k) \/ Dispatch(k) \/ BeginWalk(k) \/ StopWalk(k)
            \/ Announce(k) \/ Collect(k) \/ Reply(k) \/ Close(k) \/ Skip(k)
            \/ (ReadStdin(k) /\ Local(k, "read", Returned))

\* Steps in which the program goes wrong.
Wrong(k) == \/ ReadTextAsLength(k) \/ ReadTextElsewhere(k) \/ WalkFreed(k)
            \/ BrokenPipe(k) \/ CloseUnlisted(k) \/ RemoveFromEmpty(k)
            \/ UseFreed(k) \/ Race(k) \/ (ReadStdin(k) /\ Fail("misframed"))

LEMMA HandlerCases ==
  ASSUME NEW k \in Handler, HandlerStep(k) \/ ReadStdin(k)
  PROVE  Plain(k) \/ ReadText(k) \/ Add(k) \/ Remove(k) \/ Wrong(k)
BY DEF HandlerStep, ReadStdin, Plain, Wrong

\* What follows a walk goes on with the request, or is done with it.
LEMMA WalkLabels ==
  ASSUME Inv, LabelsOK, NEW k \in Handler, h[k].pc \in {"head", "walk"}
  PROVE  /\ AfterWalk(k).msg \in {h[k].msg, NoMsg} /\ AfterWalk(k).pc \notin {"got", "add"}
         /\ LabelOK(AfterWalk(k))
         /\ \A i \in Nat \ {0} : /\ MoveTo(k, i).msg \in {h[k].msg, NoMsg}
                                 /\ MoveTo(k, i).pc \notin {"got", "add"}
                                 /\ LabelOK(MoveTo(k, i))
<1>1. h[k] \in Locals /\ h[k].msg.type \in {"LOG_ON", "GET_CLIENTS", "LOG_OFF"}
  BY LocalsFacts DEF Inv, Handling, Requests
<1>2. /\ AfterWalk(k).msg \in {h[k].msg, NoMsg} /\ AfterWalk(k).pc \notin {"got", "add"}
      /\ LabelOK(AfterWalk(k))
  <2>1. CASE h[k].msg.type = "LOG_ON"
    BY <1>1, <2>1 DEF AfterWalk, NextRequest, Locals, LabelOK
  <2>2. CASE h[k].msg.type = "LOG_OFF"
    BY <1>1, <2>2 DEF AfterWalk, Locals, LabelOK
  <2>3. CASE h[k].msg.type = "GET_CLIENTS"
    BY <1>1, <2>3 DEF AfterWalk, Locals, LabelOK
  <2> QED
    BY <1>1, <2>1, <2>2, <2>3
<1>3. ASSUME NEW i \in Nat \ {0}
      PROVE  /\ MoveTo(k, i).msg \in {h[k].msg, NoMsg}
             /\ MoveTo(k, i).pc \notin {"got", "add"} /\ LabelOK(MoveTo(k, i))
  <2>1. CASE i > Len(list)
    BY <1>2, <2>1 DEF MoveTo
  <2>2. CASE ~(i > Len(list))
    BY <1>1, <2>2 DEF MoveTo, Locals, LabelOK
  <2> QED
    BY <2>1, <2>2
<1> QED
  BY <1>2, <1>3

LEMMA PlainMoves ==
  ASSUME Inv, LabelsOK, NEW k \in Handler, Plain(k)
  PROVE  /\ UNCHANGED <<list, nconn, nspawn, mainVars, destroyed, fault>>
         /\ \A c \in Conn : /\ conn'[c].reqs = conn[c].reqs /\ conn'[c].st = conn[c].st
                            /\ conn'[c].who = conn[c].who
         /\ \A j \in Handler \ {k} : h'[j] = h[j]
         /\ h'[k].msg \in {h[k].msg, NoMsg} /\ LabelOK(h'[k])
         /\ h'[k].pc \in {"got", "add"} => h[k].pc = "got" /\ h'[k].msg = h[k].msg
         /\ shouldRun => \A c \in Conn : LoggingOn(h[k], c) => LoggingOn(h'[k], c)
<1>1. /\ h \in [Handler -> Locals] /\ h[k] \in Locals /\ conn \in [Conn -> Connections]
      /\ LabelOK(h[k])
  BY LocalsFacts DEF Inv, HandlersOK, ConnsOK, LabelsOK
<1>2. PICK l : h' = [h EXCEPT ![k] = l]
  BY HandlerHolds DEF Plain, HandlerStep
<1>3. h'[k] = l /\ \A j \in Handler \ {k} : h'[j] = h[j]
  BY <1>1, <1>2
<1>4. UNCHANGED <<list, nconn, nspawn, mainVars, destroyed, fault>>
  BY DEF Plain, Skip, ReadStdin, Start, Count, Read, ReadLength, ReadEof,
         ReadTextClosed, Dispatch, Reply, Close, BeginWalk, StopWalk, Announce,
         Collect, Local, Private, Elsewhere, mainVars, listVars, connVars
<1>5. \A c \in Conn : /\ conn'[c].reqs = conn[c].reqs /\ conn'[c].st = conn[c].st
                      /\ conn'[c].who = conn[c].who
  <2>1. CASE ReadLength(k)
    <3>1. conn' = [conn EXCEPT ![h[k].conn].hdr = k]
      BY <2>1 DEF ReadLength
    <3> QED
      BY <1>1, <3>1 DEF Connections
  <2>2. CASE ~ReadLength(k)
    BY <2>2 DEF Plain, Skip, ReadStdin, Start, Count, Read, ReadEof, ReadTextClosed,
                Dispatch, Reply, Close, BeginWalk, StopWalk, Announce, Collect, Local,
                Private, Elsewhere, connVars
  <2> QED
    BY <2>1, <2>2
<1>6. /\ Returned.pc = "done" /\ Returned.msg = NoMsg
      /\ NextRequest(k).pc = "read" /\ NextRequest(k).msg = NoMsg
      /\ NoMsg.type = "none"
  BY <1>1 DEF Returned, NewHandler, NextRequest, Locals, NoMsg
<1>7. /\ h'[k].msg \in {h[k].msg, NoMsg} /\ LabelOK(h'[k])
      /\ h'[k].pc \in {"got", "add"} => h[k].pc = "got" /\ h'[k].msg = h[k].msg
      /\ shouldRun /\ h[k].pc = "add" => FALSE
      /\ shouldRun /\ h[k].pc = "got" /\ h[k].msg.type = "LOG_ON" =>
            h'[k].pc = "add" /\ h'[k].msg = h[k].msg
  <2>1. CASE Start(k)
    <3>1. h'[k] = [h[k] EXCEPT !.pc = "count", !.cnt = threadCounter] /\ h[k].pc = "start"
      BY <1>1, <2>1 DEF Start, Local, In
    <3> QED
      BY <1>1, <3>1 DEF Locals, LabelOK
  <2>2. CASE Count(k)
    <3>1. /\ h'[k] = [h[k] EXCEPT !.pc = "read", !.cnt = 0, !.fd = accepted]
          /\ h[k].pc = "count"
      BY <1>1, <2>2 DEF Count, In
    <3> QED
      BY <1>1, <3>1 DEF Locals, LabelOK
  <2>3. CASE Read(k)
    <3>1. /\ h'[k] \in {Returned, [h[k] EXCEPT !.pc = "blocked", !.conn = Target(h[k].fd)]}
          /\ h[k].pc = "read"
      BY <1>1, <2>3 DEF Read, Local, In
    <3> QED
      BY <1>1, <1>6, <3>1 DEF Locals, LabelOK
  <2>4. CASE ReadLength(k)
    <3>1. h'[k] = [h[k] EXCEPT !.pc = "body"] /\ h[k].pc = "blocked"
      BY <1>1, <2>4 DEF ReadLength, In
    <3> QED
      BY <1>1, <3>1 DEF Locals, LabelOK
  <2>5. CASE ReadEof(k) \/ ReadTextClosed(k)
    <3>1. h'[k] = Returned /\ h[k].pc \in {"blocked", "body"}
      BY <1>1, <2>5 DEF ReadEof, ReadTextClosed, Local, In
    <3> QED
      BY <1>6, <3>1 DEF LabelOK
  <2>6. CASE Dispatch(k)
    <3>1. h'[k] = Handled(k, accepted) /\ h[k].pc = "got"
      BY <1>1, <2>6 DEF Dispatch, Local, In
    <3>2. CASE shouldRun
      <4> DEFINE label == IF h[k].msg.type = "LOG_ON" THEN "add" ELSE "head"
      <4>1. /\ h'[k] = [h[k] EXCEPT !.pc = label, !.fd = accepted]
            /\ \/ label = "head" /\ h[k].msg.type # "LOG_ON"
               \/ label = "add" /\ h[k].msg.type = "LOG_ON"
        BY <3>1, <3>2 DEF Handled
      <4> HIDE DEF label
      <4> QED
        BY <1>1, <3>1, <4>1 DEF Locals, LabelOK
    <3>3. CASE ~shouldRun
      <4>1. h'[k] = [NextRequest(k) EXCEPT !.fd = accepted]
        BY <3>1, <3>3 DEF Handled
      <4>2. NextRequest(k) \in Locals
        BY NextRequestOK
      <4> QED
        BY <1>6, <3>1, <3>3, <4>1, <4>2 DEF Locals, LabelOK
    <3> QED
      BY <3>2, <3>3
  <2>7. CASE Reply(k)
    BY <1>1, <1>6, <2>7 DEF Reply, In, LabelOK
  <2>8. CASE Close(k)
    <3>1. h'[k] = [h[k] EXCEPT !.pc = "remove"] /\ h[k].pc = "close"
      BY <1>1, <2>8 DEF Close, In
    <3> QED
      BY <1>1, <3>1 DEF Locals, LabelOK
  <2>9. CASE BeginWalk(k) \/ StopWalk(k)
    <3>1. h[k].pc \in {"head", "walk"} /\ h'[k] \in {AfterWalk(k), MoveTo(k, 1)}
      BY <1>1, <2>9 DEF BeginWalk, StopWalk, Local, In
    <3> QED
      BY <3>1, WalkLabels
  <2>10. CASE Announce(k) \/ Collect(k)
    <3>1. h[k].pc = "walk"
      BY <2>10 DEF Announce, Collect, In
    <3>2. \A i \in DOMAIN list : i + 1 \in Nat \ {0}
      BY LenProperties DEF Inv, ListOK
    <3>3. CASE Announce(k)
      <4>1. PICK i \in DOMAIN list : h'[k] = MoveTo(k, i + 1)
        BY <1>1, <3>3 DEF Announce, PositionOf
      <4> QED
        BY <3>1, <3>2, <4>1, WalkLabels
    <3>4. CASE Collect(k)
      <4>1. PICK i \in DOMAIN list :
               h'[k] = [MoveTo(k, i + 1) EXCEPT !.buf = @ \cup {h[k].it}]
        BY <1>1, <3>4 DEF Collect, PositionOf
      <4>2. MoveTo(k, i + 1) \in Locals
        BY <3>1, <3>2, MoveToOK
      <4>3. h'[k].msg = MoveTo(k, i + 1).msg /\ h'[k].pc = MoveTo(k, i + 1).pc
        BY <4>1, <4>2 DEF Locals
      <4> QED
        BY <3>1, <3>2, <4>3, WalkLabels DEF LabelOK
    <3> QED
      BY <2>10, <3>3, <3>4
  <2>11. CASE Skip(k)
    BY <1>1, <1>6, <2>11 DEF Skip, Local, In, LabelOK
  <2>12. CASE ReadStdin(k) /\ Local(k, "read", Returned)
    BY <1>1, <1>6, <2>12 DEF Local, In, LabelOK
  <2> QED
    BY <2>1, <2>2, <2>3, <2>4, <2>5, <2>6, <2>7, <2>8, <2>9, <2>10, <2>11, <2>12 DEF Plain
<1>8. shouldRun => \A c \in Conn : LoggingOn(h[k], c) => LoggingOn(h'[k], c)
  BY <1>7 DEF LoggingOn
<1> QED
  BY <1>3, <1>4, <1>5, <1>7, <1>8

-----------------------------------------------------------------------------
(* What keeps the parts of the invariant.                                    *)

\* Steps that take no request, and send none.
LEMMA HandsKeep ==
  ASSUME OffInv,
         \A k \in Handler : h'[k].msg \in {h[k].msg, NoMsg} /\ LabelOK(h'[k]),
         \A c \in Conn : /\ conn'[c].reqs \in {conn[c].reqs, <<>>}
                         /\ conn[c].st \in {"off", "gone"} => conn'[c].st \in {"off", "gone"}
  PROVE  /\ OffOK' /\ TakenOK' /\ LabelsOK'
         /\ \A c \in Conn : LoggedOff(c) => LoggedOff(c)'
<1>1. DOMAIN <<>> = {}
  BY EmptySeq
<1>2. \A c \in Conn : (Unread(c)' => Unread(c)) /\ (Leaving(c)' => Leaving(c))
  BY <1>1 DEF Unread, Leaving
<1>3. NoMsg.type = "none" /\ NoMsg.from = None /\ None \notin Conn
  BY DEF NoMsg, None, Conn
<1>4. \A c \in Conn : \A k \in Handler : LoggingOff(k, c)' => LoggingOff(k, c)
  BY <1>3 DEF LoggingOff
<1>5. OffOK'
  <2> SUFFICES ASSUME NEW c \in Conn
               PROVE  /\ \A i \in DOMAIN conn'[c].reqs : conn'[c].reqs[i] = "LOG_OFF" =>
                            i = Len(conn'[c].reqs) /\ conn'[c].st \in {"off", "gone"}
                      /\ \A k \in Handler : LoggingOff(k, c)' =>
                            /\ conn'[c].st \in {"off", "gone"} /\ ~Leaving(c)'
                            /\ \A j \in Handler : LoggingOff(j, c)' => j = k
    BY DEF OffOK, LoggingOff
  <2>1. \A i \in DOMAIN conn'[c].reqs : conn'[c].reqs[i] = "LOG_OFF" =>
           i = Len(conn'[c].reqs) /\ conn'[c].st \in {"off", "gone"}
    BY <1>1 DEF OffInv, OffOK
  <2>2. ASSUME NEW k \in Handler, LoggingOff(k, c)'
        PROVE  /\ conn'[c].st \in {"off", "gone"} /\ ~Leaving(c)'
               /\ \A j \in Handler : LoggingOff(j, c)' => j = k
    BY <1>2, <1>4, <2>2 DEF OffInv, OffOK
  <2> QED
    BY <2>1, <2>2
<1>6. TakenOK'
  BY <1>2, <1>3 DEF OffInv, TakenOK
<1>7. LabelsOK'
  BY DEF LabelsOK, LabelOK
<1>8. \A c \in Conn : LoggedOff(c) => LoggedOff(c)'
  BY <1>2, <1>4 DEF LoggedOff
<1> QED
  BY <1>5, <1>6, <1>7, <1>8

\* Steps that make no connection and leave what must be known of each.
LEMMA KnownKeeps ==
  ASSUME OffInv, nconn' = nconn, \A c \in Conn : conn'[c].who = conn[c].who,
         shouldRun' => /\ shouldRun
                       /\ \A c \in 1..nconn :
                             /\ Unread(c) => Unread(c)' \/ Logging(c)' \/ LoggedOff(c)'
                             /\ Logging(c) => Logging(c)' \/ Listed(c)'
                             /\ Listed(c) => Listed(c)' \/ Twin(c) \/ LoggedOff(c)'
                             /\ LoggedOff(c) => LoggedOff(c)'
  PROVE  KnownOK'
<1>1. 1..nconn \subseteq Conn
  BY BoundsAssumption DEF OffInv, WalkInv, Inv, MainOK, Conn
<1>2. \A c \in 1..nconn : Twin(c) => Twin(c)'
  BY <1>1 DEF Twin
<1> QED
  BY <1>2 DEF OffInv, KnownOK

\* Every node stems from a connection.
LEMMA NodesOfConns ==
  ASSUME Inv
  PROVE  \A i \in DOMAIN list : list[i].from \in Conn
<1>1. list \in Seq(Nodes) /\ DOMAIN list = 1..Len(list)
  BY LenProperties DEF Inv, ListOK
<1>2. \A i \in DOMAIN list : list[i] \in Nodes
  BY <1>1, ElementOfSeq
<1> QED
  BY <1>2 DEF Nodes

\* The list, or a node of it, holds the client of a connection as before.
LEMMA ListedKeeps ==
  ASSUME Inv, list' = list, \A c \in Conn : conn'[c].who = conn[c].who, NEW c \in Conn
  PROVE  Listed(c)' <=> Listed(c)
<1>1. \A i \in DOMAIN list : list[i].from \in Conn
  BY NodesOfConns
<1> QED
  BY <1>1 DEF Listed, Positions

\* What is known of connection c, except that it has logged off, stays known.
StaysKnown(c) == /\ Unread(c) => Unread(c)' \/ Logging(c)'
                 /\ Logging(c) => Logging(c)' \/ Listed(c)'
                 /\ Listed(c) => Listed(c)'
AllStayKnown == shouldRun' => \A c \in Conn : StaysKnown(c)

LEMMA PlainLogs ==
  ASSUME OffInv, WalkInv', SpawnedOK', RunOK', NEW k \in Handler, Plain(k)
  PROVE  OffInv' /\ AllStayKnown
<1>1. Inv /\ LabelsOK
  BY DEF OffInv, WalkInv
<1>2. /\ UNCHANGED <<list, nconn, mainVars>>
      /\ \A c \in Conn : /\ conn'[c].reqs = conn[c].reqs /\ conn'[c].st = conn[c].st
                         /\ conn'[c].who = conn[c].who
      /\ \A j \in Handler \ {k} : h'[j] = h[j]
      /\ h'[k].msg \in {h[k].msg, NoMsg} /\ LabelOK(h'[k])
      /\ shouldRun => \A c \in Conn : LoggingOn(h[k], c) => LoggingOn(h'[k], c)
  BY <1>1, PlainMoves
<1>3. \A j \in Handler : h'[j].msg \in {h[j].msg, NoMsg} /\ LabelOK(h'[j])
  BY <1>1, <1>2 DEF LabelsOK
<1>4. /\ OffOK' /\ TakenOK' /\ LabelsOK'
      /\ \A c \in Conn : LoggedOff(c) => LoggedOff(c)'
  BY <1>2, <1>3, HandsKeep
<1>5. AllStayKnown
  <2>1. \A c \in Conn : Listed(c)' <=> Listed(c)
    BY <1>1, <1>2, ListedKeeps
  <2>2. \A c \in Conn : Unread(c) => Unread(c)'
    BY <1>2 DEF Unread
  <2>3. shouldRun => \A c \in Conn : Logging(c) => Logging(c)'
    BY <1>2 DEF Logging, LoggingOn
  <2> QED
    BY <1>2, <2>1, <2>2, <2>3 DEF mainVars, AllStayKnown, StaysKnown
<1>6. KnownOK'
  <2>1. 1..nconn \subseteq Conn
    BY <1>1, BoundsAssumption DEF Inv, MainOK, Conn
  <2> QED
    BY <1>2, <1>4, <1>5, <2>1, KnownKeeps DEF mainVars, AllStayKnown, StaysKnown
<1> QED
  BY <1>4, <1>5, <1>6 DEF OffInv

LEMMA ReadTextLogs ==
  ASSUME OffInv, WalkInv', SpawnedOK', RunOK', NEW k \in Handler, ReadText(k)
  PROVE  OffInv' /\ AllStayKnown
<1>0. h[k].pc = "body" /\ HandlerOK(k, h[k]) /\ Inv /\ RequestsOK
  BY LocalsFacts DEF ReadText, In, OffInv, WalkInv, Inv
<1> PICK c \in Conn : c = h[k].conn
  BY <1>0 DEF HandlerOK
<1> DEFINE r == [type |-> Head(conn[c].reqs), from |-> c]
<1>1. /\ h \in [Handler -> Locals] /\ h[k] \in Locals /\ conn \in [Conn -> Connections]
      /\ conn[c].reqs # <<>> /\ conn[c].reqs \in Seq(Requests)
  BY <1>0 DEF HandlerOK, Inv, HandlersOK, ConnsOK, Connections
<1>2. /\ \A j \in Handler \ {k} : h'[j] = h[j]
      /\ \A d \in Conn \ {c} : conn'[d] = conn[d]
      /\ conn'[c].reqs = Tail(conn[c].reqs) /\ UNCHANGED <<list, naccd, nconn, shouldRun>>
      /\ conn'[c].st = conn[c].st /\ conn'[c].who = conn[c].who
  BY <1>1 DEF ReadText, Elsewhere, mainVars, listVars, Connections
<1>3. /\ \/ h'[k] = Returned
         \/ h'[k].pc = "got" /\ h'[k].msg = r
      /\ shouldRun => h'[k].pc = "got" /\ h'[k].msg = r
  BY <1>1 DEF ReadText, Locals
<1>4. /\ Returned.pc = "done" /\ Returned.msg = NoMsg /\ NoMsg.type = "none"
      /\ NoMsg.from = None /\ None \notin Conn
  BY DEF Returned, NewHandler, NoMsg, None, Conn
<1>5. /\ Len(conn[c].reqs) \in Nat /\ DOMAIN conn[c].reqs = 1..Len(conn[c].reqs)
      /\ Head(conn[c].reqs) = conn[c].reqs[1] /\ 1 \in DOMAIN conn[c].reqs
      /\ DOMAIN conn'[c].reqs = 1..(Len(conn[c].reqs) - 1)
      /\ Len(conn'[c].reqs) = Len(conn[c].reqs) - 1
      /\ \A i \in 1..(Len(conn[c].reqs) - 1) : conn'[c].reqs[i] = conn[c].reqs[i + 1]
  BY <1>1, <1>2, HeadTailProperties, LenProperties, EmptySeq
<1>r. r.type = conn[c].reqs[1] /\ r.from = c
  BY <1>5
<1> HIDE DEF r
<1>a. \A i \in DOMAIN conn'[c].reqs :
         /\ i + 1 \in DOMAIN conn[c].reqs /\ i + 1 # 1
         /\ conn'[c].reqs[i] = conn[c].reqs[i + 1]
  <2> TAKE i \in DOMAIN conn'[c].reqs
  <2>1. i \in 1..(Len(conn[c].reqs) - 1)
    BY <1>5
  <2>2. i + 1 \in 1..Len(conn[c].reqs) /\ i + 1 # 1
    BY <1>5, <2>1
  <2> QED
    BY <1>5, <2>1, <2>2
<1>6. ~Unread(c)'
  <2>1. \A i \in DOMAIN conn'[c].reqs : conn'[c].reqs[i] # "LOG_ON"
    BY <1>0, <1>a DEF RequestsOK
  <2> QED
    BY <2>1 DEF Unread
<1>7. \A i \in DOMAIN conn'[c].reqs : conn'[c].reqs[i] = "LOG_OFF" =>
         i = Len(conn'[c].reqs) /\ conn'[c].st \in {"off", "gone"}
  <2> SUFFICES ASSUME NEW i \in DOMAIN conn'[c].reqs, conn'[c].reqs[i] = "LOG_OFF"
               PROVE  i = Len(conn'[c].reqs) /\ conn'[c].st \in {"off", "gone"}
    OBVIOUS
  <2>1. i + 1 \in DOMAIN conn[c].reqs /\ conn[c].reqs[i + 1] = "LOG_OFF"
    BY <1>a
  <2>2. i + 1 = Len(conn[c].reqs) /\ conn[c].st \in {"off", "gone"}
    BY <2>1 DEF OffInv, OffOK
  <2>3. i = Len(conn[c].reqs) - 1
    <3>1. i \in 1..(Len(conn[c].reqs) - 1)
      BY <1>5
    <3> QED
      BY <1>5, <2>2, <3>1
  <2> QED
    BY <2>2, <2>3, <1>2, <1>5
<1>8. LoggingOff(k, c)' => conn[c].reqs[1] = "LOG_OFF" /\ Len(conn[c].reqs) = 1
  <2>1. LoggingOff(k, c)' => conn[c].reqs[1] = "LOG_OFF"
    BY <1>r, <1>3, <1>4 DEF LoggingOff
  <2> QED
    BY <2>1, <1>5 DEF OffInv, OffOK
<1>9. LoggingOff(k, c)' => /\ Leaving(c) /\ ~Leaving(c)' /\ conn'[c].st \in {"off", "gone"}
                           /\ \A j \in Handler : ~LoggingOff(j, c)
  <2>1. LoggingOff(k, c)' => Leaving(c) /\ ~Leaving(c)'
    BY <1>5, <1>8 DEF Leaving
  <2>2. LoggingOff(k, c)' => conn'[c].st \in {"off", "gone"}
    BY <1>2, <1>5, <1>8 DEF OffInv, OffOK
  <2> QED
    BY <2>1, <2>2 DEF OffInv, OffOK
<1>10. \A d \in Conn \ {c} : ~LoggingOff(k, d)' /\ (Leaving(d)' <=> Leaving(d))
                             /\ (Unread(d)' <=> Unread(d))
  BY <1>r, <1>2, <1>3, <1>4 DEF LoggingOff, Leaving, Unread
<1>11. \A d \in Conn : \A j \in Handler \ {k} : LoggingOff(j, d)' <=> LoggingOff(j, d)
  BY <1>2 DEF LoggingOff
<1>12. Leaving(c)' => Leaving(c)
  <2> SUFFICES ASSUME NEW i \in DOMAIN conn'[c].reqs, conn'[c].reqs[i] = "LOG_OFF"
               PROVE  Leaving(c)
    BY DEF Leaving
  <2>1. i + 1 \in DOMAIN conn[c].reqs /\ conn[c].reqs[i + 1] = "LOG_OFF"
    BY <1>a
  <2> QED
    BY <2>1 DEF Leaving
<1>13. OffOK'
  <2> SUFFICES ASSUME NEW d \in Conn
               PROVE  /\ \A i \in DOMAIN conn'[d].reqs : conn'[d].reqs[i] = "LOG_OFF" =>
                            i = Len(conn'[d].reqs) /\ conn'[d].st \in {"off", "gone"}
                      /\ \A i \in Handler : LoggingOff(i, d)' =>
                            /\ conn'[d].st \in {"off", "gone"} /\ ~Leaving(d)'
                            /\ \A j \in Handler : LoggingOff(j, d)' => j = i
    BY DEF OffOK, LoggingOff
  <2>1. CASE d = c
    <3>1. ASSUME NEW i \in Handler, LoggingOff(i, d)'
          PROVE  /\ conn'[d].st \in {"off", "gone"} /\ ~Leaving(d)'
                 /\ \A j \in Handler : LoggingOff(j, d)' => j = i
      <4>1. CASE i = k
        BY <2>1, <3>1, <4>1, <1>9, <1>11
      <4>2. CASE i # k
        <5>1. LoggingOff(i, c) /\ ~LoggingOff(k, c)'
          BY <2>1, <3>1, <4>2, <1>9, <1>11
        <5> QED
          BY <2>1, <3>1, <4>2, <5>1, <1>2, <1>11, <1>12 DEF OffInv, OffOK
      <4> QED
        BY <4>1, <4>2
    <3> QED
      BY <2>1, <3>1, <1>7
  <2>2. CASE d # c
    <3>1. \A i \in DOMAIN conn'[d].reqs : conn'[d].reqs[i] = "LOG_OFF" =>
             i = Len(conn'[d].reqs) /\ conn'[d].st \in {"off", "gone"}
      BY <2>2, <1>2 DEF OffInv, OffOK
    <3>2. ASSUME NEW i \in Handler, LoggingOff(i, d)'
          PROVE  /\ conn'[d].st \in {"off", "gone"} /\ ~Leaving(d)'
                 /\ \A j \in Handler : LoggingOff(j, d)' => j = i
      <4>1. i # k /\ LoggingOff(i, d)
        BY <2>2, <3>2, <1>10, <1>11
      <4> QED
        BY <2>2, <3>2, <4>1, <1>2, <1>10, <1>11 DEF OffInv, OffOK
    <3> QED
      BY <3>1, <3>2
  <2> QED
    BY <2>1, <2>2
<1>14. TakenOK'
  BY <1>r, <1>2, <1>3, <1>4, <1>6, <1>10 DEF OffInv, TakenOK
<1>15. LabelsOK'
  BY <1>2, <1>3, <1>4 DEF OffInv, LabelsOK, LabelOK
<1>16. \A d \in Conn : LoggedOff(d) => LoggedOff(d)'
  BY <1>2, <1>9, <1>10, <1>11, <1>12 DEF LoggedOff
<1>17. AllStayKnown
  <2>2. \A d \in Conn : conn'[d].who = conn[d].who
    BY <1>2
  <2>3. \A d \in Conn : Listed(d)' <=> Listed(d)
    BY <1>0, <1>2, <2>2, ListedKeeps
  <2>4. \A d \in Conn : Logging(d) => Logging(d)'
    <3>1. ~(h[k].pc \in {"got", "add"})
      BY <1>0
    <3> QED
      BY <1>2, <3>1 DEF Logging, LoggingOn
  <2>5. ASSUME shouldRun, NEW d \in Conn, Unread(d) PROVE Unread(d)' \/ Logging(d)'
    <3>1. CASE d = c
      <4>1. conn[c].reqs[1] = "LOG_ON"
        BY <2>5, <3>1, <1>0 DEF Unread, RequestsOK
      <4>2. LoggingOn(h'[k], c)
        BY <2>5, <4>1, <1>r, <1>3 DEF LoggingOn
      <4> QED
        BY <3>1, <4>2 DEF Logging, LoggingOn
    <3>2. CASE d # c
      BY <2>5, <3>2, <1>10
    <3> QED
      BY <3>1, <3>2
  <2> QED
    BY <1>2, <2>3, <2>4, <2>5 DEF AllStayKnown, StaysKnown
<1>18. KnownOK'
  <2>1. 1..nconn \subseteq Conn
    BY <1>0, BoundsAssumption DEF Inv, MainOK, Conn
  <2>2. \A d \in Conn : conn'[d].who = conn[d].who
    BY <1>2
  <2> QED
    BY <1>2, <1>16, <1>17, <2>1, <2>2, KnownKeeps DEF AllStayKnown, StaysKnown
<1> QED
  BY <1>13, <1>14, <1>15, <1>17, <1>18 DEF OffInv

\* Whom a thread has added is in the list, unless malloc has failed.
LEMMA AddLogs ==
  ASSUME OffInv, WalkInv', SpawnedOK', RunOK', "memory" \notin EnvFaults,
         NEW k \in Handler, Add(k)
  PROVE  OffInv' /\ AllStayKnown
<1>1. /\ h \in [Handler -> Locals] /\ h[k] \in Locals /\ h[k].pc = "add" /\ Inv
      /\ h[k].msg \in [type : Requests, from : Conn]
      /\ list \in Seq(Nodes) /\ Len(list) \in Nat /\ DOMAIN list = 1..Len(list)
      /\ HandlerOK(k, h[k])
  BY LocalsFacts, LenProperties
     DEF OffInv, WalkInv, Inv, HandlersOK, ListOK, Add, In, Handling
<1> PICK c \in Conn : c = h[k].msg.from
  BY <1>1
<1>2. /\ UNCHANGED <<nconn, conn, shouldRun>>
      /\ \A j \in Handler \ {k} : h'[j] = h[j]
  BY <1>1 DEF Add, Elsewhere, mainVars, connVars
<1>3. h'[k].msg \in {h[k].msg, NoMsg} /\ h'[k].pc \in {"read", "head"}
  <2>1. h'[k] \in {NextRequest(k), [h[k] EXCEPT !.pc = "head"]}
    BY <1>1 DEF Add
  <2> QED
    BY <1>1, <2>1 DEF NextRequest, Locals
<1>4. /\ OffOK' /\ TakenOK' /\ LabelsOK'
      /\ \A d \in Conn : LoggedOff(d) => LoggedOff(d)'
  <2>1. \A j \in Handler : h'[j].msg \in {h[j].msg, NoMsg} /\ LabelOK(h'[j])
    BY <1>2, <1>3 DEF OffInv, LabelsOK, LabelOK
  <2> QED
    BY <1>2, <2>1, HandsKeep
<1>5. Listed(c)' /\ \A d \in Conn : Listed(d) => Listed(d)'
  <2>1. CASE Listed(c) /\ list' = list
    BY <1>2, <2>1 DEF Listed, Positions
  <2>2. CASE ~Listed(c) /\ list' = Append(list, [from |-> c, fd |-> h[k].fd])
    <3> DEFINE node == [from |-> c, fd |-> h[k].fd]
               n == Len(list)
    <3>1. node \in Nodes /\ node.from = c
      BY <1>1 DEF Nodes, Locals, HandlerOK, Serving
    <3> HIDE DEF node
    <3>2. /\ DOMAIN list' = 1..(n + 1) /\ list'[n + 1].from = c
          /\ \A i \in 1..n : list'[i] = list[i]
      BY <1>1, <2>2, <3>1, AppendProperties, LenProperties DEF node
    <3>3. n + 1 \in DOMAIN list' /\ DOMAIN list \subseteq DOMAIN list'
      BY <1>1, <3>2
    <3>4. \A i \in DOMAIN list : list'[i] = list[i]
      BY <1>1, <3>2
    <3>5. Listed(c)'
      BY <3>2, <3>3 DEF Listed, Positions
    <3>6. \A d \in Conn : Listed(d) => Listed(d)'
      BY <1>2, <3>3, <3>4 DEF Listed, Positions
    <3> QED
      BY <3>5, <3>6
  <2> QED
    BY <2>1, <2>2 DEF Add
<1>6. AllStayKnown
  <2>2. \A d \in Conn : Logging(d) => Logging(d)' \/ Listed(d)'
    <3> SUFFICES ASSUME NEW d \in Conn, NEW j \in Handler, LoggingOn(h[j], d)
                 PROVE  Logging(d)' \/ Listed(d)'
      BY DEF Logging
    <3>1. CASE j = k
      BY <3>1, <1>5 DEF LoggingOn
    <3>2. CASE j # k
      BY <3>2, <1>2 DEF Logging, LoggingOn
    <3> QED
      BY <3>1, <3>2
  <2>3. \A d \in Conn : Unread(d) => Unread(d)'
    BY <1>2 DEF Unread
  <2> QED
    BY <1>5, <2>2, <2>3 DEF AllStayKnown, StaysKnown
<1>7. KnownOK'
  <2>1. 1..nconn \subseteq Conn
    BY <1>1, BoundsAssumption DEF Inv, MainOK, Conn
  <2> QED
    BY <1>2, <1>4, <1>6, <2>1, KnownKeeps DEF AllStayKnown, StaysKnown
<1> QED
  BY <1>4, <1>6, <1>7 DEF OffInv

\* Who is taken out of the list has logged off, or it is another connection of
\* the same client that has.
LEMMA RemoveLogs ==
  ASSUME OffInv, WalkInv', SpawnedOK', RunOK', NEW k \in Handler, Remove(k)
  PROVE  OffInv'
<1>1. /\ h \in [Handler -> Locals] /\ h[k] \in Locals /\ h[k].pc = "remove" /\ Inv
      /\ h[k].msg \in [type : Requests, from : Conn] /\ h[k].msg.from <= naccd
      /\ list \in Seq(Nodes) /\ Len(list) \in Nat /\ DOMAIN list = 1..Len(list)
  BY LocalsFacts, LenProperties
     DEF OffInv, WalkInv, Inv, HandlersOK, ListOK, Remove, In, Handling, HandlerOK
<1> PICK c \in Conn : c = h[k].msg.from
  BY <1>1
<1>2. /\ UNCHANGED <<nconn, conn, shouldRun>> /\ h'[k] = Returned
      /\ \A j \in Handler \ {k} : h'[j] = h[j]
  BY <1>1 DEF Remove, Elsewhere, mainVars, connVars
<1>3. /\ Returned.pc = "done" /\ Returned.msg = NoMsg /\ NoMsg.type = "none"
      /\ c \in 1..nconn /\ LoggingOff(k, c) /\ 1..nconn \subseteq Conn
  <2>1. c \in 1..nconn /\ 1..nconn \subseteq Conn
    BY <1>1, BoundsAssumption DEF Inv, MainOK, Conn
  <2> QED
    BY <1>1, <2>1 DEF Returned, NewHandler, NoMsg, OffInv, LabelsOK, LabelOK, LoggingOff
<1>4. /\ OffOK' /\ TakenOK' /\ LabelsOK'
      /\ \A d \in Conn : LoggedOff(d) => LoggedOff(d)'
  <2>1. \A j \in Handler : h'[j].msg \in {h[j].msg, NoMsg} /\ LabelOK(h'[j])
    BY <1>2, <1>3 DEF OffInv, LabelsOK, LabelOK
  <2> QED
    BY <1>2, <2>1, HandsKeep
<1>5. LoggedOff(c)'
  <2>1. /\ conn[c].st \in {"off", "gone"} /\ ~Leaving(c)
        /\ \A j \in Handler : LoggingOff(j, c) => j = k
    BY <1>3 DEF OffInv, OffOK
  <2> QED
    BY <1>2, <1>3, <2>1 DEF LoggedOff, Leaving, LoggingOff
<1>6. \A d \in Conn : Listed(d) => Listed(d)' \/ conn[d].who = conn[c].who
  <2>1. CASE list' = list
    BY <1>2, <2>1 DEF Listed, Positions
  <2>2. CASE list' # list
    <3>1. Listed(c) /\ list' = Unlink(First(Positions(c)))
      BY <2>2 DEF Remove
    <3>2. PICK x \in Positions(c) : list' = Unlink(x)
      <4>1. Positions(c) \in SUBSET Nat /\ Positions(c) # {}
        BY <1>1, <3>1 DEF Positions, Listed
      <4> QED
        BY <3>1, <4>1, FirstProperties
    <3>3. /\ DOMAIN list' = 1..(Len(list) - 1)
          /\ \A i \in 1..(Len(list) - 1) :
                list'[i] = IF i < x THEN list[i] ELSE list[i + 1]
      BY <3>2 DEF Unlink
    <3>4. x \in 1..Len(list) /\ conn[list[x].from].who = conn[c].who
      BY <1>1 DEF Positions
    <3> SUFFICES ASSUME NEW d \in Conn, NEW i \in DOMAIN list,
                        conn[list[i].from].who = conn[d].who
                 PROVE  Listed(d)' \/ conn[d].who = conn[c].who
      BY DEF Listed, Positions
    <3>5. CASE i = x
      BY <3>4, <3>5
    <3>6. CASE i # x
      <4>1. PICK m \in DOMAIN list' : list'[m] = list[i]
        <5>1. CASE i < x
          BY <1>1, <3>3, <3>4, <5>1
        <5>2. CASE ~(i < x)
          <6>1. i - 1 \in 1..(Len(list) - 1) /\ ~(i - 1 < x) /\ (i - 1) + 1 = i
            BY <1>1, <3>4, <3>6, <5>2
          <6> QED
            BY <3>3, <6>1
        <5> QED
          BY <5>1, <5>2
      <4> QED
        BY <1>2, <4>1 DEF Listed, Positions
    <3> QED
      BY <3>5, <3>6
  <2> QED
    BY <2>1, <2>2
<1>7. KnownOK'
  <2>1. \A d \in Conn : Listed(d) => Listed(d)' \/ Twin(d) \/ LoggedOff(d)'
    BY <1>3, <1>5, <1>6 DEF Twin
  <2>2. \A d \in Conn : Logging(d) => Logging(d)'
    <3>1. ~(h[k].pc \in {"got", "add"})
      BY <1>1
    <3> QED
      BY <1>2, <3>1 DEF Logging, LoggingOn
  <2>3. \A d \in Conn : Unread(d) => Unread(d)'
    BY <1>2 DEF Unread
  <2> QED
    BY <1>2, <1>3, <1>4, <2>1, <2>2, <2>3, KnownKeeps
<1> QED
  BY <1>4, <1>7 DEF OffInv

-----------------------------------------------------------------------------
(* main, the clients and the surroundings.                                   *)

\* Steps of main, and those that change nothing but fault.
LEMMA OthersLog ==
  ASSUME OffInv, WalkInv', SpawnedOK', RunOK', UNCHANGED connVars,
         \A k \in Handler : \/ h'[k] = h[k]
                            \/ /\ h[k].pc = "none"
                               /\ h'[k] = [h[k] EXCEPT !.pc = "start"],
         shouldRun' => shouldRun /\ list' = list
  PROVE  OffInv' /\ AllStayKnown
<1>1. h \in [Handler -> Locals] /\ Inv /\ UNCHANGED <<nconn, conn>>
  BY DEF OffInv, WalkInv, Inv, HandlersOK, connVars
<1>2. \A k \in Handler : /\ h'[k].msg = h[k].msg
                         /\ h'[k] = h[k] \/ (h[k].pc = "none" /\ h'[k].pc = "start")
  BY <1>1 DEF Locals
<1>3. /\ OffOK' /\ TakenOK' /\ LabelsOK'
      /\ \A c \in Conn : LoggedOff(c) => LoggedOff(c)'
  <2>1. \A k \in Handler : h'[k].msg \in {h[k].msg, NoMsg} /\ LabelOK(h'[k])
    BY <1>2 DEF OffInv, LabelsOK, LabelOK
  <2> QED
    BY <1>1, <2>1, HandsKeep
<1>4. AllStayKnown
  <2>1. \A c \in Conn : /\ Unread(c) => Unread(c)'
                        /\ Logging(c) => Logging(c)'
    BY <1>1, <1>2 DEF Unread, Logging, LoggingOn
  <2>2. shouldRun' => \A c \in Conn : Listed(c) => Listed(c)'
    BY <1>1, ListedKeeps
  <2> QED
    BY <2>1, <2>2 DEF AllStayKnown, StaysKnown
<1>5. KnownOK'
  <2>1. 1..nconn \subseteq Conn
    BY <1>1, BoundsAssumption DEF Inv, MainOK, Conn
  <2> QED
    BY <1>1, <1>3, <1>4, <2>1, KnownKeeps DEF AllStayKnown, StaysKnown
<1> QED
  BY <1>3, <1>4, <1>5 DEF OffInv

LEMMA WrongLogs ==
  ASSUME OffInv, WalkInv', SpawnedOK', RunOK', NEW k \in Handler, Wrong(k)
  PROVE  OffInv'
<1>1. UNCHANGED <<connVars, h, shouldRun, list>>
  BY DEF Wrong, ReadStdin, ReadTextAsLength, ReadTextElsewhere, WalkFreed, BrokenPipe,
         CloseUnlisted, RemoveFromEmpty, UseFreed, Race, Fail, mainVars, listVars
<1> QED
  BY <1>1, OthersLog

LEMMA MainLogs ==
  ASSUME OffInv, WalkInv', SpawnedOK', RunOK', MainStep \/ Sigint \/ UNCHANGED vars
  PROVE  OffInv' /\ AllStayKnown
<1>1. UNCHANGED connVars
  BY DEF MainStep, Sigint, vars, CheckRun, EnterSelect, WakeToExit, MainGoes,
         MainStops, Accept, AcceptFails, GiveUp, Spawn, SpawnFails, SpawnPastTheEnd,
         Release, Join, JoinGarbage, Exit, InMain, Fail
<1>2. shouldRun' => shouldRun /\ list' = list
  <2>1. CASE Release
    BY <2>1 DEF Release, InMain, OffInv, RunOK, FreedOK
  <2>2. CASE ~Release
    BY <2>2 DEF MainStep, Sigint, vars, CheckRun, EnterSelect, WakeToExit, MainGoes,
                MainStops, Accept, AcceptFails, GiveUp, Spawn, SpawnFails,
                SpawnPastTheEnd, Join, JoinGarbage, Exit, InMain, Fail, mainVars,
                listVars
  <2> QED
    BY <2>1, <2>2
<1>3. ASSUME NEW k \in Handler
      PROVE  \/ h'[k] = h[k]
             \/ h[k].pc = "none" /\ h'[k] = [h[k] EXCEPT !.pc = "start"]
  <2>1. CASE Spawn
    <3>1. /\ h' = [h EXCEPT ![nspawn + 1].pc = "start"] /\ h \in [Handler -> Locals]
          /\ nspawn \in Nat
      BY <2>1, BoundsAssumption DEF Spawn, OffInv, WalkInv, Inv, HandlersOK, MainOK
    <3>2. CASE k = nspawn + 1
      <4>1. k > nspawn
        BY <3>1, <3>2
      <4> QED
        BY <3>1, <3>2, <4>1 DEF OffInv, SpawnedOK, NewHandler
    <3> QED
      BY <3>1, <3>2
  <2>2. CASE ~Spawn
    BY <2>2 DEF MainStep, Sigint, vars, CheckRun, EnterSelect, WakeToExit, MainGoes,
                MainStops, Accept, AcceptFails, GiveUp, SpawnFails, SpawnPastTheEnd,
                Release, Join, JoinGarbage, Exit, InMain, Fail
  <2> QED
    BY <2>1, <2>2
<1> QED
  BY <1>1, <1>2, <1>3, OthersLog

\* A new connection has its LOG_ON before it.
LEMMA ConnectLogs ==
  ASSUME OffInv, WalkInv', SpawnedOK', RunOK', NEW w \in Client, Connect(w)
  PROVE  OffInv'
<1>1. /\ nconn \in 0..MaxConn /\ naccd \in 0..nconn /\ nconn < MaxConn
      /\ MaxConn \in Nat /\ conn \in [Conn -> Connections] /\ Inv
      /\ h \in [Handler -> Locals]
  BY BoundsAssumption DEF Connect, OffInv, WalkInv, Inv, MainOK, ConnsOK, HandlersOK
<1> PICK n \in Conn : n = nconn + 1
  BY <1>1 DEF Conn
<1>2. /\ naccd < n /\ nconn' = n
      /\ UNCHANGED <<list, h, shouldRun>> /\ conn'[n].reqs = <<"LOG_ON">>
      /\ \A d \in Conn \ {n} : conn'[d] = conn[d]
      /\ 1..nconn \subseteq Conn \ {n} /\ 1..n = (1..nconn) \cup {n}
  BY <1>1 DEF Connect, Outside, mainVars, listVars, NewConn, Conn
<1>3. \A k \in Handler : h[k].msg.from # n
  BY <1>1, <1>2 DEF Inv, HandlersOK, HandlerOK, Conn
<1>4. /\ DOMAIN conn'[n].reqs = {1} /\ conn'[n].reqs[1] = "LOG_ON"
  <2>1. DOMAIN conn'[n].reqs = 1..1 /\ conn'[n].reqs[1] = "LOG_ON"
    BY <1>2
  <2> QED
    BY <2>1
<1>5. \A d \in Conn \ {n} : /\ (Unread(d)' <=> Unread(d)) /\ (Leaving(d)' <=> Leaving(d))
                            /\ LoggedOff(d) => LoggedOff(d)'
  BY <1>2 DEF Unread, Leaving, LoggedOff, LoggingOff
<1>6. OffOK' /\ TakenOK' /\ LabelsOK'
  <2>1. LabelsOK'
    BY <1>2 DEF OffInv, LabelsOK
  <2>2. TakenOK'
    BY <1>2, <1>3, <1>5 DEF OffInv, TakenOK
  <2>3. OffOK'
    <3> SUFFICES ASSUME NEW d \in Conn
                 PROVE  /\ \A i \in DOMAIN conn'[d].reqs : conn'[d].reqs[i] = "LOG_OFF" =>
                              i = Len(conn'[d].reqs) /\ conn'[d].st \in {"off", "gone"}
                        /\ \A k \in Handler : LoggingOff(k, d)' =>
                              /\ conn'[d].st \in {"off", "gone"} /\ ~Leaving(d)'
                              /\ \A j \in Handler : LoggingOff(j, d)' => j = k
      BY DEF OffOK, LoggingOff
    <3>1. \A k \in Handler : LoggingOff(k, d)' <=> LoggingOff(k, d)
      BY <1>2 DEF LoggingOff
    <3>2. CASE d = n
      BY <1>3, <1>4, <3>1, <3>2 DEF LoggingOff
    <3>3. CASE d # n
      BY <1>2, <1>5, <3>1, <3>3 DEF OffInv, OffOK
    <3> QED
      BY <3>2, <3>3
  <2> QED
    BY <2>1, <2>2, <2>3
<1>7. KnownOK'
  <2>1. Unread(n)'
    BY <1>4 DEF Unread
  <2>2. \A i \in DOMAIN list : list[i].from \in Conn \ {n}
    BY <1>1, <1>2, NodesOfConns DEF Inv, ListOK, Conn
  <2>3. ASSUME NEW c \in 1..nconn
        PROVE  /\ Listed(c) => Listed(c)'
               /\ Logging(c) => Logging(c)'
               /\ Twin(c) => Twin(c)'
    <3>1. c \in Conn \ {n}
      BY <1>2
    <3>2. Listed(c) => Listed(c)'
      <4>1. list' = list /\ conn'[c] = conn[c]
        BY <1>2, <3>1
      <4>2. \A i \in DOMAIN list : conn'[list[i].from] = conn[list[i].from]
        BY <1>2, <2>2
      <4> QED
        BY <4>1, <4>2 DEF Listed, Positions
    <3>3. Logging(c) => Logging(c)'
      BY <1>2 DEF Logging
    <3>4. Twin(c) => Twin(c)'
      BY <1>2, <3>1 DEF Twin
    <3> QED
      BY <3>2, <3>3, <3>4
  <2>4. ASSUME shouldRun, NEW c \in 1..nconn
        PROVE  Unread(c)' \/ Logging(c)' \/ Listed(c)' \/ Twin(c)' \/ LoggedOff(c)'
    <3>1. Unread(c) \/ Logging(c) \/ Listed(c) \/ Twin(c) \/ LoggedOff(c)
      BY <2>4 DEF OffInv, KnownOK
    <3>2. c \in Conn \ {n}
      BY <1>2
    <3> QED
      BY <3>1, <3>2, <1>5, <2>3
  <2> QED
    BY <1>2, <2>1, <2>4 DEF KnownOK
<1> QED
  BY <1>6, <1>7 DEF OffInv

\* A client that asks, or logs off, does so behind what it has asked before, and
\* logs off once.
LEMMA RequestLogs ==
  ASSUME OffInv, WalkInv', SpawnedOK', RunOK', NEW c \in Conn, Ask(c) \/ LogOff(c)
  PROVE  OffInv' /\ AllStayKnown
<1>1. conn \in [Conn -> Connections] /\ conn[c].reqs \in Seq(Requests) /\ Inv
  BY DEF OffInv, WalkInv, Inv, ConnsOK, Connections
<1>2. PICK type \in {"GET_CLIENTS", "LOG_OFF"} :
         /\ conn'[c].reqs = Append(conn[c].reqs, type) /\ conn'[c].who = conn[c].who
         /\ conn[c].st \in {"on", "asked"}
         /\ type = "LOG_OFF" => conn'[c].st = "off"
  BY <1>1 DEF Ask, LogOff, Request, Connections
<1>3. /\ UNCHANGED <<list, nconn, h, shouldRun>>
      /\ \A d \in Conn \ {c} : conn'[d] = conn[d]
  BY <1>1 DEF Ask, LogOff, Request, Outside, mainVars, listVars
<1> DEFINE n == Len(conn[c].reqs)
<1>4. /\ n \in Nat /\ DOMAIN conn[c].reqs = 1..n
      /\ Len(conn'[c].reqs) = n + 1 /\ DOMAIN conn'[c].reqs = 1..(n + 1)
      /\ \A i \in 1..n : conn'[c].reqs[i] = conn[c].reqs[i]
      /\ conn'[c].reqs[n + 1] = type
  <2>1. type \in Requests
    BY DEF Requests
  <2> QED
    BY <1>1, <1>2, <2>1, AppendProperties, LenProperties
<1> HIDE DEF n
<1>5. \A i \in DOMAIN conn'[c].reqs :
         \/ i = n + 1 /\ conn'[c].reqs[i] = type
         \/ i \in DOMAIN conn[c].reqs /\ conn'[c].reqs[i] = conn[c].reqs[i]
  BY <1>4
<1>6. type # "LOG_ON" /\ \A i \in DOMAIN conn[c].reqs : i \in DOMAIN conn'[c].reqs
  BY <1>4
<1>7. ~Leaving(c) /\ \A k \in Handler : ~LoggingOff(k, c)
  BY <1>2 DEF OffInv, OffOK, Leaving
<1>8. \A d \in Conn : /\ Unread(d)' <=> Unread(d)
                      /\ LoggedOff(d) => LoggedOff(d)'
  <2>1. Unread(c)' <=> Unread(c)
    BY <1>4, <1>5, <1>6 DEF Unread
  <2>2. ~LoggedOff(c)
    BY <1>2 DEF LoggedOff
  <2> QED
    BY <1>3, <2>1, <2>2 DEF Unread, LoggedOff, Leaving, LoggingOff
<1>9. OffOK' /\ TakenOK' /\ LabelsOK'
  <2>1. LabelsOK' /\ TakenOK'
    BY <1>3, <1>8 DEF OffInv, LabelsOK, TakenOK
  <2>2. \A i \in DOMAIN conn'[c].reqs : conn'[c].reqs[i] = "LOG_OFF" =>
           i = Len(conn'[c].reqs) /\ conn'[c].st \in {"off", "gone"}
    BY <1>2, <1>4, <1>5, <1>7 DEF Leaving
  <2>3. OffOK'
    BY <1>3, <1>7, <2>2 DEF OffInv, OffOK, LoggingOff, Leaving
  <2> QED
    BY <2>1, <2>3
<1>10. \A d \in Conn : conn'[d].who = conn[d].who
  BY <1>2, <1>3
<1>11. AllStayKnown
  <2>1. \A d \in Conn : Listed(d)' <=> Listed(d)
    BY <1>1, <1>3, <1>10, ListedKeeps
  <2>2. \A d \in Conn : Logging(d) => Logging(d)'
    BY <1>3 DEF Logging
  <2> QED
    BY <1>8, <2>1, <2>2 DEF AllStayKnown, StaysKnown
<1>12. KnownOK'
  <2>1. 1..nconn \subseteq Conn
    BY <1>1, BoundsAssumption DEF Inv, MainOK, Conn
  <2> QED
    BY <1>3, <1>8, <1>10, <1>11, <2>1, KnownKeeps DEF AllStayKnown, StaysKnown
<1> QED
  BY <1>9, <1>11, <1>12 DEF OffInv

\* A client that ends, or is killed, may take with it what it has sent; then
\* nobody has its LOG_ON, for it comes first.
LEMMA EndLogs ==
  ASSUME OffInv, WalkInv', SpawnedOK', RunOK', NEW c \in Conn, Finish(c) \/ Die(c)
  PROVE  OffInv'
<1>1. conn \in [Conn -> Connections] /\ Inv
  BY DEF OffInv, WalkInv, Inv, ConnsOK
<1>2. /\ conn'[c].reqs \in {conn[c].reqs, <<>>} /\ conn'[c].who = conn[c].who
      /\ conn'[c].st = "gone"
  BY <1>1 DEF Finish, Die, Connections
<1>3. /\ UNCHANGED <<list, nconn, h, shouldRun>>
      /\ \A d \in Conn \ {c} : conn'[d] = conn[d]
  BY <1>1 DEF Finish, Die, Outside, mainVars, listVars
<1>4. /\ OffOK' /\ TakenOK' /\ LabelsOK'
      /\ \A d \in Conn : LoggedOff(d) => LoggedOff(d)'
  <2>1. \A k \in Handler : h'[k].msg \in {h[k].msg, NoMsg} /\ LabelOK(h'[k])
    BY <1>3 DEF OffInv, LabelsOK
  <2> QED
    BY <1>2, <1>3, <2>1, HandsKeep
<1>5. \A d \in Conn : Unread(d) => Unread(d)' \/ LoggedOff(d)'
  <2>1. CASE conn'[c].reqs = conn[c].reqs
    BY <1>3, <2>1 DEF Unread
  <2>2. CASE conn'[c].reqs = <<>>
    <3>1. ~Leaving(c)'
      BY <2>2, EmptySeq DEF Leaving
    <3>2. Unread(c) => \A k \in Handler : ~LoggingOff(k, c)
      BY DEF OffInv, TakenOK, LoggingOff
    <3>3. Unread(c) => LoggedOff(c)'
      BY <1>2, <1>3, <3>1, <3>2 DEF LoggedOff, LoggingOff
    <3> QED
      BY <1>3, <3>3 DEF Unread
  <2> QED
    BY <1>2, <2>1, <2>2
<1>6. KnownOK'
  <2>1. 1..nconn \subseteq Conn
    BY <1>1, BoundsAssumption DEF Inv, MainOK, Conn
  <2>2. \A d \in Conn : conn'[d].who = conn[d].who
    BY <1>2, <1>3
  <2>3. \A d \in Conn : Listed(d)' <=> Listed(d)
    BY <1>1, <1>3, <2>2, ListedKeeps
  <2>4. \A d \in Conn : Logging(d) => Logging(d)'
    BY <1>3 DEF Logging
  <2> QED
    BY <1>3, <1>4, <1>5, <2>1, <2>2, <2>3, <2>4, KnownKeeps
<1> QED
  BY <1>4, <1>6 DEF OffInv

LEMMA OffStep ==
  ASSUME OffInv, [Next]_vars, "memory" \notin EnvFaults
  PROVE  OffInv'
<1>2. WalkInv'
  BY WalkStep DEF OffInv
<1>3. SpawnedOK' /\ RunOK'
  BY StepRuns, StdinStep DEF OffInv, WalkInv, RunOK
<1>4. CASE \E k \in Handler : HandlerStep(k) \/ ReadStdin(k)
  BY <1>2, <1>3, <1>4, HandlerCases, PlainLogs, ReadTextLogs, AddLogs, RemoveLogs, WrongLogs
<1>5. CASE ~(\E k \in Handler : HandlerStep(k) \/ ReadStdin(k))
  BY <1>2, <1>3, <1>5, ConnectLogs, RequestLogs, EndLogs, MainLogs DEF Next
<1> QED
  BY <1>4, <1>5

LEMMA OffInit ==
  ASSUME Init
  PROVE  OffInv
<1>1. /\ Inv /\ DOMAIN list = {} /\ nconn = 0
      /\ \A c \in Conn : DOMAIN conn[c].reqs = {}
      /\ \A k \in Handler : /\ h[k].pc = "none" /\ h[k].it = None
                            /\ h[k].msg.type = "none" /\ h[k].msg.from = None
  <2>1. Inv
    BY InitInv
  <2>2. DOMAIN list = {} /\ nconn = 0
    BY EmptySeq DEF Init
  <2>3. \A c \in Conn : DOMAIN conn[c].reqs = {}
    BY EmptySeq DEF Init, NewConn
  <2>4. \A k \in Handler : /\ h[k].pc = "none" /\ h[k].it = None
                           /\ h[k].msg.type = "none" /\ h[k].msg.from = None
    BY DEF Init, NewHandler, NoMsg
  <2> QED
    BY <2>1, <2>2, <2>3, <2>4
<1>2. WalkInv
  BY WalkInit
<1>3. SpawnedOK /\ RunOK
  BY DEF SpawnedOK, RunOK, FreedOK, StdinOK, NewHandler, Bad, Stdin, Init
<1>4. OffOK /\ TakenOK /\ LabelsOK
  BY <1>1 DEF OffOK, TakenOK, LabelsOK, LabelOK, LoggingOff, Unread
<1>5. KnownOK
  BY <1>1 DEF KnownOK
<1> QED
  BY <1>2, <1>3, <1>4, <1>5 DEF OffInv

-----------------------------------------------------------------------------
(* LOG_OFF of a client that is not in the list.                              *)

\* A thread that finds the client of its LOG_OFF missing from the list has been
\* overtaken by another one, or by another connection of that client.
Overtaken(k) ==
    /\ h[k].pc \in {"close", "remove"}
    /\ \/ \E j \in Handler \ {k} : h[j].msg = [type |-> "LOG_ON", from |-> h[k].msg.from]
       \/ \E c \in 1..nconn : /\ c # h[k].msg.from
                              /\ conn[c].who = conn[h[k].msg.from].who

LEMMA UnlistedIsOvertaken ==
  ASSUME OffInv, shouldRun, NEW k \in Handler, h[k].pc \in {"close", "remove"},
         ~Listed(h[k].msg.from)
  PROVE  Overtaken(k)
<1>1. /\ h[k].msg \in [type : Requests, from : Conn] /\ h[k].msg.from <= naccd /\ Inv
      /\ h[k].msg.type = "LOG_OFF"
  BY LocalsFacts DEF OffInv, WalkInv, Inv, HandlersOK, HandlerOK, Handling, LabelsOK,
                     LabelOK
<1> PICK c \in Conn : c = h[k].msg.from
  BY <1>1
<1>2. c \in 1..nconn /\ LoggingOff(k, c)
  BY <1>1, BoundsAssumption DEF Inv, MainOK, Conn, LoggingOff
<1>3. ~Unread(c) /\ ~Listed(c) /\ ~LoggedOff(c)
  BY <1>2 DEF OffInv, TakenOK, LoggedOff
<1>4. Logging(c) \/ Twin(c)
  BY <1>2, <1>3 DEF OffInv, KnownOK
<1>5. CASE Logging(c)
  <2>1. PICK j \in Handler : LoggingOn(h[j], c)
    BY <1>5 DEF Logging
  <2>2. h[j].msg.type = "LOG_ON" /\ h[j].msg.from = c
    BY <2>1 DEF LoggingOn, OffInv, LabelsOK, LabelOK
  <2>3. h[j].msg = [type |-> "LOG_ON", from |-> c]
    <3>1. h[j].msg \in [type : Requests, from : Conn]
      BY <1>1, <2>1, LocalsFacts DEF LoggingOn, Inv, Handling
    <3> QED
      BY <2>2, <3>1
  <2>4. j # k
    BY <1>1, <2>2
  <2> QED
    BY <2>3, <2>4 DEF Overtaken
<1>6. CASE Twin(c)
  BY <1>6 DEF Twin, Overtaken
<1> QED
  BY <1>4, <1>5, <1>6

\* Nothing moves once the program has gone wrong.
LEMMA NothingAfterFault ==
  ASSUME fault # "none", [Next]_vars
  PROVE  UNCHANGED vars
<1>1. ~Running
  BY DEF Running
<1>2. /\ \A w \in Client : ~Connect(w)
      /\ \A c \in Conn : ~Ask(c) /\ ~LogOff(c) /\ ~Finish(c) /\ ~Die(c)
  BY <1>1 DEF Connect, Ask, LogOff, Request, Finish, Die, Outside
<1>3. ~Sigint /\ ~MainStep
  BY <1>1 DEF Sigint, MainStep, CheckRun, EnterSelect, WakeToExit, MainGoes, MainStops,
              Accept, AcceptFails, GiveUp, Spawn, SpawnFails, SpawnPastTheEnd, Release,
              Join, JoinGarbage, Exit, InMain
<1>4. \A k \in Handler : ~HandlerStep(k) /\ ~ReadStdin(k)
  BY <1>1 DEF HandlerStep, ReadStdin, Skip, Start, Count, Read, ReadLength, ReadEof,
              ReadTextAsLength, ReadText, ReadTextClosed, ReadTextElsewhere, Dispatch,
              Add, BeginWalk, StopWalk, Announce, Collect, WalkFreed, Reply, BrokenPipe,
              Close, CloseUnlisted, Remove, RemoveFromEmpty, UseFreed, Race, Local, In
<1> QED
  BY <1>2, <1>3, <1>4 DEF Next

\* The steps that end in a NULL dereference are those of a LOG_OFF.
LEMMA NullSteps ==
  ASSUME Inv, fault = "none", fault' = "null", [Next]_vars
  PROVE  /\ UNCHANGED <<shouldRun, connVars, h>>
         /\ \E k \in Handler : h[k].pc \in {"close", "remove"} /\ ~Listed(h[k].msg.from)
<1>1. CASE \E k \in Handler : CloseUnlisted(k) \/ RemoveFromEmpty(k)
  <2> PICK k \in Handler : CloseUnlisted(k) \/ RemoveFromEmpty(k)
    BY <1>1
  <2>1. UNCHANGED <<shouldRun, connVars, h>>
    BY DEF CloseUnlisted, RemoveFromEmpty, Fail, mainVars
  <2>2. list = <<>> => ~Listed(h[k].msg.from)
    BY EmptySeq DEF Listed, Positions
  <2> QED
    BY <2>1, <2>2 DEF CloseUnlisted, RemoveFromEmpty, In
<1>2. CASE ~(\E k \in Handler : CloseUnlisted(k) \/ RemoveFromEmpty(k))
  <2>1. fault' # "null"
    BY <1>2 DEF Next, MainStep, HandlerStep, ReadStdin, Skip, Connect, Ask, LogOff,
                Request, Finish, Die, Outside, Sigint, CheckRun, EnterSelect,
                WakeToExit, MainGoes, MainStops, Accept, AcceptFails, GiveUp, Spawn,
                SpawnFails, SpawnPastTheEnd, Release, Join, JoinGarbage, Exit, InMain,
                Start, Count, Read, ReadLength, ReadEof, ReadTextAsLength, ReadText,
                ReadTextClosed, ReadTextElsewhere, Dispatch, Add, BeginWalk, StopWalk,
                Announce, Collect, WalkFreed, Reply, BrokenPipe, Close, Remove,
                UseFreed, Race, Local, Private, Elsewhere, Fail, vars
  <2> QED
    BY <2>1
<1> QED
  BY <1>1, <1>2

\* LOG_OFF dereferences NULL (serverUtils.c:326, tupleList.c:176) only where
\* another thread has not yet dealt with the LOG_ON of that connection, or the
\* same client has connected a second time: whatever else fails, as long as
\* malloc does not (a client that was announced is then not in the list).
THEOREM NullTakesTwo == "memory" \notin EnvFaults => (Spec => []NullOnlyWhenOvertaken)
<1> SUFFICES ASSUME "memory" \notin EnvFaults PROVE Spec => []NullOnlyWhenOvertaken
  OBVIOUS
<1> DEFINE NullInv == OffInv /\ NullOnlyWhenOvertaken
<1>1. Init => NullInv
  BY OffInit DEF Init, NullOnlyWhenOvertaken
<1>2. ASSUME NullInv, [Next]_vars PROVE NullInv'
  <2>1. OffInv'
    BY <1>2, OffStep
  <2>2. CASE fault # "none"
    <3>1. UNCHANGED <<fault, shouldRun, h, nconn, conn>>
      BY <1>2, <2>2, NothingAfterFault DEF vars, mainVars, connVars
    <3> QED
      BY <1>2, <2>1, <3>1 DEF NullOnlyWhenOvertaken
  <2>3. CASE fault = "none" /\ fault' = "null" /\ shouldRun'
    <3>1. UNCHANGED <<shouldRun, h, nconn, conn>>
      BY <1>2, <2>3, NullSteps DEF OffInv, WalkInv, connVars
    <3>2. \E k \in Handler : Overtaken(k)
      BY <1>2, <2>3, <3>1, NullSteps, UnlistedIsOvertaken DEF OffInv, WalkInv
    <3>3. \E k \in Handler :
             /\ h'[k].pc \in {"close", "remove"}
             /\ \/ \E j \in Handler \ {k} :
                      h'[j].msg = [type |-> "LOG_ON", from |-> h'[k].msg.from]
                \/ \E c \in 1..nconn' : /\ c # h'[k].msg.from
                                        /\ conn'[c].who = conn'[h'[k].msg.from].who
      BY <3>1, <3>2 DEF Overtaken
    <3> QED
      BY <2>1, <3>3 DEF NullOnlyWhenOvertaken
  <2> QED
    BY <2>1, <2>2, <2>3 DEF NullOnlyWhenOvertaken
<1>3. NullInv => NullOnlyWhenOvertaken
  OBVIOUS
<1> QED
  BY <1>1, <1>2, <1>3, PTL DEF Spec

-----------------------------------------------------------------------------
(* A lone handler.                                                           *)

\* Where a lone handler with locals l is, nobody has changed behind its back the
\* descriptor it reads from, the node it stands on, or the count it has loaded.
LoneLocal(l) ==
    /\ l.pc \in {"blocked", "body"} => Target(l.fd) = l.conn
    /\ l.pc = "walk" => PositionOf(l.it) # {}
    /\ l.pc = "remove" => Listed(l.msg.from)
    /\ l.pc = "count" => l.cnt = 0
    /\ l.pc \in {"start", "count"} => threadCounter = 0

\* Only the handler that is to read a text, or has returned, has taken a length.
MarksOK == \A c \in Conn : conn[c].hdr # None =>
              \E k \in Handler : h[k].pc = "done" \/ (h[k].pc = "body" /\ h[k].conn = c)

\* No connection is closed before the handler is about to return.
OpenOK == (\A k \in Handler : h[k].pc \notin {"remove", "done"}) =>
             \A c \in 1..naccd : \E f \in Fd : fdtab[f] = c

\* Nor has any client ended then, and each has still to log on, or is about to, or
\* is in the list, by this connection or by another one of the same client.
Attending == \A k \in Handler : h[k].pc \notin {"remove", "done"}
Present(c) == Unread(c) \/ Logging(c) \/ Listed(c)

Lone == nspawn <= 1 /\ shouldRun
PresentOK == Lone /\ Attending =>
                \A c \in Conn : conn[c].st # "gone" /\ (c <= nconn => Present(c))
LoneOK == Lone => /\ \A k \in Handler : LoneLocal(h[k])
                  /\ threadCounter <= nspawn /\ MarksOK /\ OpenOK

LoneInv == OffInv /\ PresentOK /\ LoneOK /\ LoneHandlerIsSafe

-----------------------------------------------------------------------------
(* Before there is more than one handler.                                    *)

\* A handler does not change whose a connection is, nor how far the client is.
LEMMA HandlerLeaves ==
  ASSUME Inv, NEW k \in Handler, HandlerStep(k) \/ ReadStdin(k)
  PROVE  /\ UNCHANGED <<nconn, naccd, nspawn, shouldRun>>
         /\ \A c \in Conn : conn'[c].st = conn[c].st /\ conn'[c].who = conn[c].who
<1>1. conn \in [Conn -> Connections]
  BY DEF Inv, ConnsOK
<1>2. UNCHANGED <<nconn, naccd, nspawn, shouldRun>>
  BY DEF HandlerStep, ReadStdin, Skip, Start, Count, Read, ReadLength, ReadEof,
         ReadTextAsLength, ReadText, ReadTextClosed, ReadTextElsewhere, Dispatch, Add,
         BeginWalk, StopWalk, Announce, Collect, WalkFreed, Reply, BrokenPipe, Close,
         CloseUnlisted, Remove, RemoveFromEmpty, UseFreed, Race, Local, Private,
         Elsewhere, Fail, mainVars, threadVars, connVars
<1>3. CASE ReadLength(k)
  <2>1. conn' = [conn EXCEPT ![h[k].conn].hdr = k]
    BY <1>3 DEF ReadLength
  <2> QED
    BY <1>1, <1>2, <2>1 DEF Connections
<1>4. CASE ReadText(k)
  <2>1. conn' = [conn EXCEPT ![h[k].conn].reqs = Tail(@), ![h[k].conn].hdr = None]
    BY <1>4 DEF ReadText
  <2> QED
    BY <1>1, <1>2, <2>1 DEF Connections
<1>5. CASE ~ReadLength(k) /\ ~ReadText(k)
  <2>1. conn' = conn
    BY <1>5 DEF HandlerStep, ReadStdin, Skip, Start, Count, Read, ReadEof,
                ReadTextAsLength, ReadTextClosed, ReadTextElsewhere, Dispatch, Add,
                BeginWalk, StopWalk, Announce, Collect, WalkFreed, Reply, BrokenPipe,
                Close, CloseUnlisted, Remove, RemoveFromEmpty, UseFreed, Race, Local,
                Private, Elsewhere, Fail, connVars
  <2> QED
    BY <1>2, <2>1
<1> QED
  BY <1>3, <1>4, <1>5

-----------------------------------------------------------------------------
(* The steps of a lone handler.                                              *)

\* When one handler is about, the others have not begun.
LEMMA OthersIdle ==
  ASSUME Inv, SpawnedOK, nspawn <= 1, NEW k \in Handler, h[k].pc # "none"
  PROVE  \A j \in Handler \ {k} : h[j] = NewHandler
<1>1. nspawn \in Nat /\ \A j \in Handler : j \in Nat /\ j >= 1
  BY BoundsAssumption DEF Inv, MainOK, Handler
<1>2. k <= nspawn
  BY <1>1 DEF SpawnedOK, NewHandler
<1>3. \A j \in Handler \ {k} : j > nspawn
  BY <1>1, <1>2
<1> QED
  BY <1>3 DEF SpawnedOK

\* What has to be seen to, of a step of the only handler there is.
LEMMA LoneMoves ==
  ASSUME OffInv, LoneOK, Lone, NEW k \in Handler, h[k].pc \notin {"none", "remove", "done"},
         \A j \in Handler \ {k} : h'[j] = h[j],
         UNCHANGED <<nspawn, naccd>>, threadCounter' \in {threadCounter, 1},
         LoneLocal(h[k])',
         \A c \in Conn : conn'[c].hdr # None =>
            h'[k].pc = "done" \/ (h'[k].pc = "body" /\ h'[k].conn = c),
         h'[k].pc \in {"remove", "done"} \/ fdtab' = fdtab
  PROVE  LoneOK'
<1>1. /\ \A j \in Handler \ {k} : h'[j] = NewHandler /\ h[j] = NewHandler
      /\ NewHandler.pc = "none" /\ nspawn \in Nat /\ k <= nspawn
  <2>1. nspawn \in Nat /\ k \in Nat
    BY BoundsAssumption DEF OffInv, WalkInv, Inv, MainOK, Handler
  <2>2. k <= nspawn
    BY <2>1 DEF OffInv, SpawnedOK, NewHandler
  <2> QED
    BY <2>1, <2>2, OthersIdle DEF OffInv, WalkInv, Lone, NewHandler
<1>2. \A j \in Handler : LoneLocal(h[j])'
  BY <1>1 DEF LoneLocal
<1>3. threadCounter' <= nspawn'
  <2>1. k >= 1
    BY DEF Handler
  <2> QED
    BY <1>1, <2>1 DEF LoneOK, Handler
<1>4. MarksOK'
  BY DEF MarksOK
<1>5. OpenOK'
  <2> SUFFICES ASSUME \A j \in Handler : h'[j].pc \notin {"remove", "done"}
               PROVE  \A c \in 1..naccd' : \E f \in Fd : fdtab'[f] = c
    BY DEF OpenOK
  <2>1. fdtab' = fdtab /\ \A j \in Handler : h[j].pc \notin {"remove", "done"}
    BY <1>1
  <2> QED
    BY <2>1 DEF LoneOK, OpenOK
<1> QED
  BY <1>2, <1>3, <1>4, <1>5 DEF LoneOK

\* A length that is taken has its text still to come.
LEMMA NoMarks ==
  ASSUME OffInv, LoneOK, Lone, NEW k \in Handler, h[k].pc \notin {"none", "done"},
         NEW c \in Conn, conn[c].hdr # None
  PROVE  h[k].pc = "body" /\ h[k].conn = c
<1>1. \A j \in Handler \ {k} : h[j].pc = "none"
  BY OthersIdle DEF OffInv, WalkInv, Lone, NewHandler
<1> QED
  BY <1>1 DEF LoneOK, MarksOK

\* Steps that only change the handler's locals.
LEMMA LoneLocals ==
  ASSUME OffInv, LoneOK, Lone, NEW k \in Handler,
         \/ Start(k) \/ Count(k) \/ Read(k) \/ ReadEof(k) \/ ReadTextClosed(k)
         \/ Dispatch(k) \/ BeginWalk(k) \/ Announce(k) \/ Collect(k) \/ Reply(k)
  PROVE  LoneOK'
<1>1. /\ Inv /\ LabelsOK /\ Plain(k) /\ h \in [Handler -> Locals] /\ h[k] \in Locals
      /\ LoneLocal(h[k]) /\ threadCounter \in Nat
  BY DEF OffInv, WalkInv, Inv, HandlersOK, MainOK, Plain, LoneOK
<1>2. /\ UNCHANGED <<nspawn, naccd, list>> /\ \A j \in Handler \ {k} : h'[j] = h[j]
  BY <1>1, PlainMoves DEF mainVars
<1>3. /\ UNCHANGED <<conn, fdtab>>
      /\ h[k].pc \in {"start", "count", "read", "blocked", "body", "got", "head", "walk",
                      "reply"}
      /\ h[k].pc = "body" => ReadTextClosed(k)
      /\ threadCounter' = threadCounter \/ Count(k)
  BY DEF Start, Count, Read, ReadEof, ReadTextClosed, Dispatch, Reply, BeginWalk,
         Announce, Collect, Local, Private, Elsewhere, In, connVars
<1>4. /\ Returned.pc = "done" /\ NextRequest(k).pc = "read"
  BY <1>1 DEF Returned, NewHandler, NextRequest, Locals
<1>5. /\ h'[k].pc \notin {"remove", "body", "start"}
      /\ h'[k].pc = "blocked" => Target(h'[k].fd) = h'[k].conn
      /\ h'[k].pc = "walk" => PositionOf(h'[k].it) # {}
      /\ h'[k].pc = "count" => h'[k].cnt = 0 /\ threadCounter' = 0
      /\ Count(k) => threadCounter' = 1
      /\ ReadTextClosed(k) => h'[k].pc = "done"
  <2>1. CASE Start(k)
    <3>1. h'[k] = [h[k] EXCEPT !.pc = "count", !.cnt = threadCounter] /\ h[k].pc = "start"
          /\ threadCounter' = threadCounter
      BY <1>1, <2>1 DEF Start, Local, In, Private
    <3>2. ~Count(k) /\ ~ReadTextClosed(k)
      BY <3>1 DEF Count, ReadTextClosed, Local, In
    <3> QED
      BY <1>1, <3>1, <3>2 DEF Locals, LoneLocal
  <2>2. CASE Count(k)
    <3>1. /\ h'[k] = [h[k] EXCEPT !.pc = "read", !.cnt = 0, !.fd = accepted]
          /\ h[k].pc = "count" /\ threadCounter' = h[k].cnt + 1
      BY <1>1, <2>2 DEF Count, In
    <3>2. ~ReadTextClosed(k)
      BY <3>1 DEF ReadTextClosed, Local, In
    <3> QED
      BY <1>1, <3>1, <3>2 DEF Locals, LoneLocal
  <2>3. CASE Read(k)
    <3>1. /\ h'[k] \in {Returned, [h[k] EXCEPT !.pc = "blocked", !.conn = Target(h[k].fd)]}
          /\ h[k].pc = "read"
      BY <1>1, <2>3 DEF Read, Local, In
    <3> QED
      BY <1>1, <1>4, <3>1, <2>3 DEF Locals, Count, ReadTextClosed, Local, In
  <2>4. CASE ReadEof(k) \/ ReadTextClosed(k)
    <3>1. h'[k] = Returned /\ h[k].pc \in {"blocked", "body"}
      BY <1>1, <2>4 DEF ReadEof, ReadTextClosed, Local, In
    <3> QED
      BY <1>4, <3>1 DEF Count, In
  <2>5. CASE Dispatch(k)
    <3>1. /\ h'[k] = Handled(k, accepted) /\ h[k].pc = "got" /\ shouldRun
      BY <1>1, <2>5 DEF Dispatch, Local, In, Lone
    <3> DEFINE label == IF h[k].msg.type = "LOG_ON" THEN "add" ELSE "head"
    <3>2. h'[k] = [h[k] EXCEPT !.pc = label, !.fd = accepted] /\ label \in {"add", "head"}
      BY <3>1 DEF Handled
    <3> HIDE DEF label
    <3> QED
      BY <1>1, <3>1, <3>2 DEF Locals, Count, ReadTextClosed, Local, In
  <2>6. CASE Reply(k)
    <3>1. h'[k] = NextRequest(k) /\ h[k].pc = "reply"
      BY <1>1, <2>6 DEF Reply, In
    <3> QED
      BY <1>4, <3>1 DEF Count, ReadTextClosed, Local, In
  <2>7. CASE BeginWalk(k) \/ Announce(k) \/ Collect(k)
    <3>1. h[k].pc \in {"head", "walk"} /\ ~Count(k) /\ ~ReadTextClosed(k)
      BY <2>7 DEF BeginWalk, Announce, Collect, Count, ReadTextClosed, Local, In
    <3>2. \E i \in Nat \ {0} : h'[k].pc = MoveTo(k, i).pc /\ h'[k].it = MoveTo(k, i).it
      <4>1. CASE BeginWalk(k)
        BY <1>1, <4>1 DEF BeginWalk, Local, Lone
      <4>2. \A i \in DOMAIN list : i + 1 \in Nat \ {0}
        BY <1>1, LenProperties DEF Inv, ListOK
      <4>3. CASE Announce(k)
        BY <1>1, <4>2, <4>3 DEF Announce, PositionOf
      <4>4. CASE Collect(k)
        <5>1. PICK i \in DOMAIN list :
                 h'[k] = [MoveTo(k, i + 1) EXCEPT !.buf = @ \cup {h[k].it}]
          BY <1>1, <4>4 DEF Collect, PositionOf
        <5>2. MoveTo(k, i + 1) \in Locals
          BY <1>1, <3>1, <4>2, MoveToOK
        <5> QED
          BY <4>2, <5>1, <5>2 DEF Locals
      <4> QED
        BY <2>7, <4>1, <4>3, <4>4
    <3>3. PICK i \in Nat \ {0} : h'[k].pc = MoveTo(k, i).pc /\ h'[k].it = MoveTo(k, i).it
      BY <3>2
    <3>4. Len(list) \in Nat /\ DOMAIN list = 1..Len(list)
      BY <1>1, LenProperties DEF Inv, ListOK
    <3>5. CASE i > Len(list)
      <4>1. h'[k].pc \in {"read", "close", "reply"}
        BY <1>1, <3>1, <3>3, <3>5, MoveToFacts
      <4> QED
        BY <3>1, <4>1
    <3>6. CASE i <= Len(list)
      <4>1. h'[k].pc = "walk" /\ h'[k].it = list[i].from /\ i \in DOMAIN list
        BY <1>1, <3>1, <3>3, <3>4, <3>6, MoveToFacts
      <4> QED
        BY <3>1, <4>1 DEF PositionOf
    <3> QED
      BY <3>4, <3>5, <3>6
  <2> QED
    BY <2>1, <2>2, <2>3, <2>4, <2>5, <2>6, <2>7
<1>6. LoneLocal(h[k])'
  BY <1>2, <1>3, <1>5 DEF LoneLocal, Target, PositionOf
<1>7. \A c \in Conn : conn'[c].hdr # None => h'[k].pc = "done"
  BY <1>3, <1>5, NoMarks
<1> QED
  BY <1>2, <1>3, <1>5, <1>6, <1>7, LoneMoves

\* A length is taken, and then its text.
LEMMA LoneReads ==
  ASSUME OffInv, LoneOK, Lone, NEW k \in Handler, ReadLength(k) \/ ReadText(k)
  PROVE  LoneOK'
<1>1. /\ h \in [Handler -> Locals] /\ h[k] \in Locals /\ LoneLocal(h[k])
      /\ conn \in [Conn -> Connections] /\ h[k].pc \in {"blocked", "body"}
      /\ h[k].conn \in Conn
  BY LocalsFacts
     DEF OffInv, WalkInv, Inv, HandlersOK, ConnsOK, LoneOK, ReadLength, ReadText, In,
         HandlerOK
<1>2. /\ UNCHANGED <<nspawn, naccd, fdtab, threadCounter>>
      /\ \A j \in Handler \ {k} : h'[j] = h[j]
  BY <1>1 DEF ReadLength, ReadText, Elsewhere, mainVars
<1>3. CASE ReadLength(k)
  <2>1. /\ h'[k] = [h[k] EXCEPT !.pc = "body"] /\ h[k].pc = "blocked"
        /\ conn' = [conn EXCEPT ![h[k].conn].hdr = k]
    BY <1>1, <1>3 DEF ReadLength, In
  <2>2. h'[k].pc = "body" /\ h'[k].conn = h[k].conn /\ h'[k].fd = h[k].fd
    BY <1>1, <2>1 DEF Locals
  <2>3. LoneLocal(h[k])'
    BY <1>1, <1>2, <2>1, <2>2 DEF LoneLocal, Target
  <2>4. \A c \in Conn : conn'[c].hdr # None => c = h[k].conn
    BY <1>1, <2>1, NoMarks DEF Connections
  <2> QED
    BY <1>1, <1>2, <2>2, <2>3, <2>4, LoneMoves
<1>4. CASE ReadText(k)
  <2>1. /\ h'[k].pc = "got" /\ h[k].pc = "body"
        /\ conn' = [conn EXCEPT ![h[k].conn].reqs = Tail(@), ![h[k].conn].hdr = None]
    BY <1>1, <1>4 DEF ReadText, In, Lone, Locals
  <2>2. LoneLocal(h[k])'
    BY <2>1 DEF LoneLocal
  <2>3. \A c \in Conn : conn'[c].hdr = None
    <3> SUFFICES ASSUME NEW c \in Conn, conn'[c].hdr # None
                 PROVE  FALSE
      OBVIOUS
    <3>1. c # h[k].conn
      BY <1>1, <2>1 DEF Connections
    <3>2. conn[c].hdr # None
      BY <1>1, <2>1, <3>1
    <3> QED
      BY <2>1, <3>1, <3>2, NoMarks
  <2> QED
    BY <1>1, <1>2, <2>1, <2>2, <2>3, LoneMoves
<1> QED
  BY <1>3, <1>4

\* The list changes, or a descriptor is closed.
LEMMA LoneChanges ==
  ASSUME OffInv, LoneOK, Lone, NEW k \in Handler, Add(k) \/ Close(k)
  PROVE  LoneOK'
<1>1. /\ h \in [Handler -> Locals] /\ h[k] \in Locals /\ LoneLocal(h[k])
      /\ h[k].pc \in {"add", "close"}
  BY DEF OffInv, WalkInv, Inv, HandlersOK, LoneOK, Add, Close, In
<1>2. /\ UNCHANGED <<nspawn, naccd, conn, threadCounter>>
      /\ \A j \in Handler \ {k} : h'[j] = h[j]
  BY <1>1 DEF Add, Close, Elsewhere, mainVars, connVars
<1>3. \A c \in Conn : conn'[c].hdr = None
  BY <1>1, <1>2, NoMarks
<1>4. CASE Add(k)
  <2>1. h'[k].pc \in {"read", "head"} /\ fdtab' = fdtab
    <3>1. h'[k] \in {NextRequest(k), [h[k] EXCEPT !.pc = "head"]} /\ fdtab' = fdtab
      BY <1>1, <1>4 DEF Add
    <3> QED
      BY <1>1, <3>1 DEF NextRequest, Locals
  <2>2. LoneLocal(h[k])'
    BY <2>1 DEF LoneLocal
  <2> QED
    BY <1>1, <1>2, <1>3, <2>1, <2>2, LoneMoves
<1>5. CASE Close(k)
  <2>1. /\ h'[k] = [h[k] EXCEPT !.pc = "remove"] /\ list' = list
        /\ Listed(h[k].msg.from)
    BY <1>1, <1>5 DEF Close, listVars
  <2>2. h'[k].pc = "remove" /\ h'[k].msg = h[k].msg
    BY <1>1, <2>1 DEF Locals
  <2>3. LoneLocal(h[k])'
    BY <1>2, <2>1, <2>2 DEF LoneLocal, Listed, Positions
  <2> QED
    BY <1>1, <1>2, <1>3, <2>2, <2>3, LoneMoves
<1> QED
  BY <1>4, <1>5

\* The handler returns with its client out of the list.
LEMMA LoneRemoves ==
  ASSUME OffInv, LoneOK, Lone, NEW k \in Handler, Remove(k)
  PROVE  LoneOK'
<1>1. /\ h \in [Handler -> Locals] /\ h[k].pc = "remove"
  BY DEF OffInv, WalkInv, Inv, HandlersOK, Remove, In
<1>2. /\ UNCHANGED <<nspawn, naccd, conn, threadCounter, fdtab>>
      /\ h'[k] = Returned /\ \A j \in Handler \ {k} : h'[j] = h[j]
      /\ Returned.pc = "done"
  BY <1>1 DEF Remove, Elsewhere, mainVars, connVars, Returned, NewHandler
<1>3. \A j \in Handler \ {k} : h'[j].pc = "none"
  BY <1>1, <1>2, OthersIdle DEF OffInv, WalkInv, Lone, NewHandler
<1>4. \A j \in Handler : LoneLocal(h[j])'
  BY <1>2, <1>3 DEF LoneLocal
<1>5. MarksOK' /\ OpenOK'
  BY <1>2 DEF MarksOK, OpenOK
<1> QED
  BY <1>2, <1>4, <1>5 DEF LoneOK

\* A lone handler never finds another client's request, a closed connection, a
\* node that is gone, or its own client missing.
LEMMA LoneGoesRight ==
  ASSUME OffInv, PresentOK, LoneOK, Lone, NEW k \in Handler, fault = "none"
  PROVE  ~Wrong(k)
<1>1. /\ Inv /\ LoneLocal(h[k]) /\ ~destroyed /\ HandlerOK(k, h[k])
      /\ naccd \in Nat /\ nconn \in Nat /\ naccd <= nconn
      /\ h[k].pc \in Handling => h[k].msg \in [type : Requests, from : Conn]
  BY LocalsFacts, BoundsAssumption
     DEF OffInv, WalkInv, LoneOK, Lone, RunOK, FreedOK, Inv, HandlersOK, MainOK
<1>2. h[k].pc # "none" => \A j \in Handler \ {k} : h[j] = NewHandler
  BY <1>1, OthersIdle DEF OffInv, Lone
<1>3. NewHandler.pc = "none" /\ NewHandler.msg.type = "none"
  BY DEF NewHandler, NoMsg
<1>4. ~ReadTextAsLength(k)
  <2>1. h[k].pc = "blocked" => h[k].conn \in Conn
    BY <1>1 DEF HandlerOK
  <2> QED
    BY <2>1, NoMarks DEF ReadTextAsLength, In
<1>5. ~ReadTextElsewhere(k) /\ ~WalkFreed(k) /\ ~UseFreed(k)
  BY <1>1 DEF LoneLocal, ReadTextElsewhere, WalkFreed, UseFreed, In
<1>6. ~BrokenPipe(k)
  <2> SUFFICES ASSUME NEW f \in WritesTo(k), Target(f) # None, conn[Target(f)].st = "gone"
               PROVE  FALSE
    BY DEF BrokenPipe
  <2>1. Target(f) \in Conn
    BY <1>1 DEF Target, Inv, FdsOK
  <2>2. h[k].pc \in {"walk", "reply"}
    BY DEF WritesTo
  <2>3. Attending
    BY <1>2, <1>3, <2>2 DEF Attending
  <2> QED
    BY <2>1, <2>3 DEF PresentOK
<1>7. ~RemoveFromEmpty(k)
  BY <1>1, EmptySeq DEF LoneLocal, RemoveFromEmpty, In, Listed, Positions
<1>8. ~Race(k)
  BY <1>2, <1>3 DEF Race, In
<1>10. ~ReadStdin(k)
  BY DEF ReadStdin, OffInv, RunOK, StdinOK, Lone
<1>9. ~CloseUnlisted(k)
  <2> SUFFICES ASSUME h[k].pc = "close", ~Listed(h[k].msg.from)
               PROVE  FALSE
    BY DEF CloseUnlisted, In
  <2> PICK c \in Conn : c = h[k].msg.from
    BY <1>1 DEF Handling
  <2>1. Attending
    BY <1>2, <1>3 DEF Attending
  <2>2. c <= nconn
    BY <1>1 DEF HandlerOK, Conn
  <2>3. ~Unread(c)
    BY DEF OffInv, TakenOK
  <2>4. ~Logging(c)
    BY <1>2, <1>3 DEF Logging, LoggingOn
  <2> QED
    BY <2>1, <2>2, <2>3, <2>4 DEF PresentOK, Present
<1> QED
  BY <1>4, <1>5, <1>6, <1>7, <1>8, <1>9, <1>10 DEF Wrong

-----------------------------------------------------------------------------
(* What happens around it.                                                   *)

\* Steps that leave the server alone, or move only main.
LEMMA LoneStays ==
  ASSUME OffInv, LoneOK, Lone,
         UNCHANGED <<h, list, fdtab, nspawn, naccd, threadCounter>>,
         \A c \in Conn : conn'[c].hdr \in {conn[c].hdr, None},
         \A c \in 1..nconn : conn'[c].who = conn[c].who
  PROVE  LoneOK'
<1>1. Inv /\ 1..naccd \subseteq 1..nconn
  BY BoundsAssumption DEF OffInv, WalkInv, Inv, MainOK
<1>2. \A i \in DOMAIN list : list[i].from \in 1..naccd
  BY <1>1, NodesOfConns, BoundsAssumption DEF Inv, ListOK, Conn, MainOK
<1>3. ASSUME NEW k \in Handler
      PROVE  LoneLocal(h[k])'
  <2>1. h[k].pc = "remove" => h[k].msg.from \in 1..naccd
    BY <1>1, LocalsFacts, BoundsAssumption DEF Inv, HandlerOK, Handling, MainOK, Conn
  <2>2. h[k].pc = "remove" => Listed(h[k].msg.from)'
    BY <1>1, <1>2, <2>1 DEF LoneOK, LoneLocal, Listed, Positions
  <2> QED
    BY <2>2 DEF LoneOK, LoneLocal, Target, PositionOf
<1>4. MarksOK' /\ OpenOK'
  BY DEF LoneOK, MarksOK, OpenOK
<1> QED
  BY <1>3, <1>4 DEF LoneOK

\* A connection is accepted: the descriptor it gets led nowhere.
LEMMA LoneAccepts ==
  ASSUME OffInv, LoneOK, Lone, Accept
  PROVE  LoneOK'
<1>1. /\ fdtab \in [Fd -> Conn \cup {None}] /\ naccd \in Nat /\ Inv
  BY BoundsAssumption DEF OffInv, WalkInv, Inv, FdsOK, MainOK
<1>2. PICK f \in Fd : fdtab[f] = None /\ fdtab' = [fdtab EXCEPT ![f] = naccd + 1]
  <2>1. FreeFds \in SUBSET Nat /\ FreeFds # {}
    BY DEF Accept, FreeFds, Fd
  <2>2. First(FreeFds) \in FreeFds
    BY <2>1, FirstProperties
  <2> QED
    BY <2>2 DEF Accept, FreeFds
<1>3. /\ UNCHANGED <<h, list, nspawn, threadCounter, conn>> /\ naccd' = naccd + 1
  BY DEF Accept, threadVars, listVars, connVars
<1>4. \A g \in Fd : fdtab[g] # None => fdtab'[g] = fdtab[g]
  BY <1>1, <1>2
<1>5. ASSUME NEW k \in Handler
      PROVE  LoneLocal(h[k])'
  <2>1. h[k].pc \in {"blocked", "body"} => h[k].conn # None
    BY <1>1, LocalsFacts DEF Inv, HandlerOK, Conn, None
  <2>2. Target(h[k].fd) # None => Target(h[k].fd)' = Target(h[k].fd)
    BY <1>3, <1>4 DEF Target
  <2> QED
    BY <1>3, <2>1, <2>2 DEF LoneOK, LoneLocal, Listed, Positions, PositionOf
<1>6. MarksOK'
  BY <1>3 DEF LoneOK, MarksOK
<1>7. OpenOK'
  <2> SUFFICES ASSUME \A k \in Handler : h[k].pc \notin {"remove", "done"},
                      NEW c \in 1..(naccd + 1)
               PROVE  \E g \in Fd : fdtab'[g] = c
    BY <1>3 DEF OpenOK
  <2>1. CASE c = naccd + 1
    BY <1>1, <1>2, <2>1
  <2>2. CASE c # naccd + 1
    <3>1. c \in 1..naccd /\ c # None
      BY <1>1, <2>2 DEF None
    <3>2. PICK g \in Fd : fdtab[g] = c
      BY <3>1 DEF LoneOK, OpenOK
    <3> QED
      BY <1>4, <3>1, <3>2
  <2> QED
    BY <2>1, <2>2
<1> QED
  BY <1>3, <1>5, <1>6, <1>7 DEF LoneOK

\* The first thread is created: the count is still 0.
LEMMA LoneBegins ==
  ASSUME OffInv, LoneOK, Lone, Spawn, nspawn' <= 1
  PROVE  LoneOK'
<1>1. /\ h \in [Handler -> Locals] /\ nspawn \in Nat /\ threadCounter \in Nat
      /\ threadCounter <= nspawn
  BY BoundsAssumption DEF OffInv, WalkInv, Inv, HandlersOK, MainOK, LoneOK
<1>2. /\ h' = [h EXCEPT ![nspawn + 1].pc = "start"] /\ nspawn' = nspawn + 1
      /\ UNCHANGED <<list, naccd, threadCounter, fdtab, conn>>
  BY DEF Spawn, InMain, listVars, connVars
<1>3. nspawn = 0 /\ threadCounter = 0
  BY <1>1, <1>2
<1>4. \A k \in Handler : h[k] = NewHandler
  BY <1>3 DEF OffInv, SpawnedOK, Handler
<1>5. \A k \in Handler : h[k].pc = "none" /\ h'[k].pc \in {"none", "start"}
  BY <1>1, <1>2, <1>4 DEF NewHandler, Locals
<1>6. \A k \in Handler : LoneLocal(h[k])'
  BY <1>2, <1>3, <1>5 DEF LoneLocal
<1>7. MarksOK' /\ OpenOK'
  BY <1>2, <1>5 DEF LoneOK, MarksOK, OpenOK
<1> QED
  BY <1>1, <1>2, <1>6, <1>7 DEF LoneOK

\* Threads only get more, and the program does not start again.
LEMMA LoneBefore ==
  ASSUME Inv, [Next]_vars, Lone'
  PROVE  Lone
<1>1. nspawn' \in {nspawn, nspawn + 1} /\ (shouldRun' => shouldRun)
  <2>1. CASE \E k \in Handler : HandlerStep(k) \/ ReadStdin(k)
    BY <2>1, HandlerLeaves
  <2>2. CASE ~(\E k \in Handler : HandlerStep(k) \/ ReadStdin(k))
    <3>1. CASE MainStep \/ Sigint \/ UNCHANGED vars
      BY <3>1 DEF MainStep, Sigint, vars, CheckRun, EnterSelect, WakeToExit, MainGoes,
                  MainStops, Accept, AcceptFails, GiveUp, Spawn, SpawnFails,
                  SpawnPastTheEnd, Release, Join, JoinGarbage, Exit, InMain, Fail,
                  mainVars, threadVars
    <3>2. CASE ~(MainStep \/ Sigint \/ UNCHANGED vars)
      <4>1. UNCHANGED <<nspawn, shouldRun>>
        BY <2>2, <3>2 DEF Next, Connect, Ask, LogOff, Request, Finish, Die, Outside,
           mainVars, threadVars
      <4> QED
        BY <4>1
    <3> QED
      BY <3>1, <3>2
  <2> QED
    BY <2>1, <2>2
<1>2. nspawn \in Nat
  BY BoundsAssumption DEF Inv, MainOK
<1> QED
  BY <1>1, <1>2 DEF Lone

\* Nobody is lost sight of before the handler is about to return.
LEMMA PresentStep ==
  ASSUME OffInv, PresentOK, LoneOK, "memory" \notin EnvFaults,
         "die" \notin EnvFaults, [Next]_vars, fault = "none"
  PROVE  PresentOK'
<1> SUFFICES ASSUME Lone', Attending',
                    NEW c \in Conn
             PROVE  conn'[c].st # "gone" /\ (c <= nconn' => Present(c)')
  BY DEF PresentOK
<1>1. /\ Inv /\ LabelsOK /\ Lone /\ shouldRun' /\ WalkInv' /\ SpawnedOK' /\ RunOK'
      /\ conn \in [Conn -> Connections] /\ h \in [Handler -> Locals]
  BY LoneBefore, WalkStep, StepRuns, StdinStep
     DEF OffInv, WalkInv, RunOK, Lone, Inv, ConnsOK, HandlersOK
<1>2. ASSUME Attending, nconn' = nconn, AllStayKnown,
             conn'[c].st = "gone" => conn[c].st = "gone"
      PROVE  conn'[c].st # "gone" /\ (c <= nconn' => Present(c)')
  BY <1>1, <1>2 DEF PresentOK, Present, AllStayKnown, StaysKnown
<1>3. CASE \E k \in Handler : HandlerStep(k) \/ ReadStdin(k)
  <2> PICK k \in Handler : HandlerStep(k) \/ ReadStdin(k)
    BY <1>3
  <2>1. nconn' = nconn /\ conn'[c].st = conn[c].st
    BY <1>1, HandlerLeaves
  <2>2. ~Remove(k)
    <3> SUFFICES ASSUME Remove(k) PROVE FALSE
      OBVIOUS
    <3>1. h'[k].pc = "done"
      BY <1>1 DEF Remove, Returned, NewHandler
    <3> QED
      BY <3>1 DEF Attending
  <2>3. Plain(k) \/ ReadText(k) \/ Add(k)
    BY <1>1, <2>2, HandlerCases, LoneGoesRight
  <2>4. AllStayKnown
    BY <1>1, <2>3, PlainLogs, ReadTextLogs, AddLogs
  <2>5. Attending
    <3>1. \A j \in Handler \ {k} : h'[j] = h[j]
      BY <1>1, HandlerHolds
    <3>2. h[k].pc \notin {"remove", "done"}
      BY <2>3 DEF Plain, Skip, ReadStdin, Start, Count, Read, ReadLength, ReadEof,
                  ReadText, ReadTextClosed, Dispatch, Add, BeginWalk, StopWalk,
                  Announce, Collect, Reply, Close, Local, In
    <3> QED
      BY <3>1, <3>2 DEF Attending
  <2> QED
    BY <1>2, <2>1, <2>4, <2>5
<1>4. CASE MainStep \/ Sigint \/ UNCHANGED vars
  <2>1. UNCHANGED connVars
    BY <1>4 DEF MainStep, Sigint, vars, CheckRun, EnterSelect, WakeToExit, MainGoes,
                MainStops, Accept, AcceptFails, GiveUp, Spawn, SpawnFails,
                SpawnPastTheEnd, Release, Join, JoinGarbage, Exit, InMain, Fail
  <2>2. Attending
    <3>1. CASE Spawn
      <4>1. /\ h' = [h EXCEPT ![nspawn + 1].pc = "start"] /\ nspawn \in Nat
            /\ \A k \in Handler : k \in Nat
        BY <3>1, <1>1, BoundsAssumption DEF Spawn, Inv, MainOK, Handler
      <4>2. \A k \in Handler : k = nspawn + 1 => h[k].pc = "none"
        BY <4>1 DEF OffInv, SpawnedOK, NewHandler
      <4>3. \A k \in Handler : k # nspawn + 1 => h'[k] = h[k]
        BY <1>1, <4>1
      <4> QED
        BY <4>2, <4>3 DEF Attending
    <3>2. CASE ~Spawn
      <4>1. h' = h
        BY <1>4, <3>2 DEF MainStep, Sigint, vars, CheckRun, EnterSelect, WakeToExit,
                          MainGoes, MainStops, Accept, AcceptFails, GiveUp, SpawnFails,
                          SpawnPastTheEnd, Release, Join, JoinGarbage, Exit, InMain,
                          Fail
      <4> QED
        BY <4>1 DEF Attending
    <3> QED
      BY <3>1, <3>2
  <2>3. AllStayKnown
    BY <1>1, <1>4, MainLogs
  <2> QED
    BY <1>2, <2>1, <2>2, <2>3 DEF connVars
<1>5. CASE \E d \in Conn : Ask(d) \/ LogOff(d)
  <2> PICK d \in Conn : Ask(d) \/ LogOff(d)
    BY <1>5
  <2>1. UNCHANGED <<nconn, h>> /\ (conn'[c].st = "gone" => conn[c].st = "gone")
    BY <1>1 DEF Ask, LogOff, Request, Outside, Connections
  <2>2. AllStayKnown
    BY <1>1, RequestLogs
  <2> QED
    BY <1>2, <2>1, <2>2 DEF Attending
<1>6. ASSUME NEW d \in Conn
      PROVE  ~Finish(d)
  <2> SUFFICES ASSUME Finish(d) PROVE FALSE
    OBVIOUS
  <2>1. h' = h /\ d <= naccd /\ (\A f \in Fd : fdtab[f] # d) /\ naccd \in Nat
    BY <1>1, BoundsAssumption DEF Finish, Released, Outside, Inv, MainOK
  <2>2. d \in 1..naccd
    BY <2>1 DEF Conn
  <2> QED
    BY <1>1, <2>1, <2>2 DEF LoneOK, OpenOK, Attending
<1>7. CASE \E w \in Client : Connect(w)
  <2> PICK w \in Client : Connect(w)
    BY <1>7
  <2>1. /\ nconn \in Nat /\ nconn' = nconn + 1 /\ UNCHANGED <<h, list>>
        /\ conn' = [conn EXCEPT ![nconn + 1] =
                       [NewConn EXCEPT !.st = "on", !.who = w, !.reqs = <<"LOG_ON">>]]
    BY <1>1, BoundsAssumption DEF Connect, Outside, listVars, Inv, MainOK
  <2>2. Attending
    BY <2>1 DEF Attending
  <2>3. CASE c = nconn + 1
    <3>1. conn'[c].st = "on" /\ conn'[c].reqs = <<"LOG_ON">>
      BY <1>1, <2>1, <2>3 DEF NewConn
    <3>2. 1 \in DOMAIN conn'[c].reqs /\ conn'[c].reqs[1] = "LOG_ON"
      BY <3>1
    <3> QED
      BY <3>1, <3>2 DEF Present, Unread
  <2>4. CASE c # nconn + 1
    <3>1. conn'[c] = conn[c]
      BY <1>1, <2>1, <2>4
    <3>2. \A i \in DOMAIN list : conn'[list[i].from] = conn[list[i].from]
      <4>1. \A i \in DOMAIN list : list[i].from \in Conn /\ list[i].from <= naccd
        BY <1>1, NodesOfConns DEF Inv, ListOK
      <4>2. naccd \in Nat /\ naccd <= nconn
        BY <1>1, BoundsAssumption DEF Inv, MainOK
      <4>3. \A i \in DOMAIN list : list[i].from # nconn + 1
        BY <2>1, <4>1, <4>2 DEF Conn
      <4> QED
        BY <1>1, <2>1, <4>1, <4>3
    <3>3. Present(c) => Present(c)'
      <4>1. Unread(c) => Unread(c)'
        BY <3>1 DEF Unread
      <4>2. Logging(c) => Logging(c)'
        BY <2>1 DEF Logging
      <4>3. Listed(c) => Listed(c)'
        <5>1. list' = list
          BY <2>1
        <5> QED
          BY <3>1, <3>2, <5>1 DEF Listed, Positions
      <4> QED
        BY <4>1, <4>2, <4>3 DEF Present
    <3>4. conn[c].st # "gone" /\ (c <= nconn => Present(c))
      BY <1>1, <2>2 DEF PresentOK
    <3>5. c <= nconn' => c <= nconn
      BY <2>1, <2>4 DEF Conn
    <3> QED
      BY <3>1, <3>3, <3>4, <3>5
  <2> QED
    BY <2>3, <2>4
<1> QED
  BY <1>3, <1>4, <1>5, <1>6, <1>7 DEF Next, Die

LEMMA LoneStep ==
  ASSUME OffInv, PresentOK, LoneOK, "die" \notin EnvFaults, [Next]_vars,
         fault = "none"
  PROVE  LoneOK'
<1> SUFFICES ASSUME Lone' PROVE LoneOK'
  BY DEF LoneOK
<1>1. Inv /\ Lone /\ conn \in [Conn -> Connections]
  BY LoneBefore DEF OffInv, WalkInv, Inv, ConnsOK
<1>2. CASE \E k \in Handler : HandlerStep(k) \/ ReadStdin(k)
  <2> PICK k \in Handler : HandlerStep(k) \/ ReadStdin(k)
    BY <1>2
  <2>1. ~Wrong(k) /\ ~StopWalk(k) /\ ~Skip(k) /\ ~ReadStdin(k)
    BY <1>1, LoneGoesRight
       DEF StopWalk, Skip, ReadStdin, OffInv, RunOK, StdinOK, Lone
  <2> QED
    BY <1>1, <2>1, HandlerCases, LoneLocals, LoneReads, LoneChanges, LoneRemoves DEF Plain
<1>3. CASE MainStep \/ Sigint \/ UNCHANGED vars
  <2>1. CASE Accept \/ Spawn
    BY <1>1, <2>1, LoneAccepts, LoneBegins DEF Lone
  <2>2. CASE ~(Accept \/ Spawn)
    <3>1. ~Sigint /\ ~GiveUp /\ ~Release /\ ~Join /\ ~Exit
      BY <1>1 DEF Sigint, GiveUp, Release, Join, Exit, InMain, OffInv, RunOK, FreedOK,
                  Lone
    <3>2. UNCHANGED <<h, list, fdtab, nspawn, naccd, threadCounter, conn>>
      BY <1>3, <2>2, <3>1 DEF MainStep, CheckRun, EnterSelect, WakeToExit, MainGoes,
                              MainStops, AcceptFails, SpawnFails, SpawnPastTheEnd,
                              JoinGarbage, InMain, Fail, vars, mainVars, threadVars,
                              listVars, connVars
    <3> QED
      BY <1>1, <3>2, LoneStays
  <2> QED
    BY <2>1, <2>2
<1>4. CASE \/ \E w \in Client : Connect(w)
           \/ \E c \in Conn : Ask(c) \/ LogOff(c) \/ Finish(c)
  <2>1. UNCHANGED <<h, list, fdtab, nspawn, naccd, threadCounter>>
    BY <1>4 DEF Connect, Ask, LogOff, Request, Finish, Outside, mainVars, threadVars,
                listVars
  <2>2. /\ \A c \in Conn : conn'[c].hdr \in {conn[c].hdr, None}
        /\ \A c \in 1..nconn : conn'[c].who = conn[c].who
    <3>1. /\ 1..nconn \subseteq Conn /\ nconn \in Nat
      BY <1>1, BoundsAssumption DEF Inv, MainOK, Conn
    <3>2. CASE \E w \in Client : Connect(w)
      <4>1. PICK w \in Client : Connect(w)
        BY <3>2
      <4>2. conn' = [conn EXCEPT ![nconn + 1] =
                       [NewConn EXCEPT !.st = "on", !.who = w, !.reqs = <<"LOG_ON">>]]
        BY <4>1 DEF Connect
      <4>3. \A c \in Conn : c # nconn + 1 => conn'[c] = conn[c]
        BY <1>1, <4>2
      <4>4. \A c \in Conn : c = nconn + 1 => conn'[c].hdr = None
        BY <1>1, <4>2 DEF NewConn
      <4>5. \A c \in 1..nconn : c # nconn + 1
        BY <3>1
      <4> QED
        BY <3>1, <4>3, <4>4, <4>5
    <3>3. CASE \E c \in Conn : Ask(c) \/ LogOff(c) \/ Finish(c)
      <4>1. PICK d \in Conn : Ask(d) \/ LogOff(d) \/ Finish(d)
        BY <3>3
      <4>2. /\ \A c \in Conn \ {d} : conn'[c] = conn[c]
            /\ conn'[d].hdr = conn[d].hdr /\ conn'[d].who = conn[d].who
        BY <1>1, <4>1 DEF Ask, LogOff, Request, Finish, Connections
      <4> QED
        BY <3>1, <4>2
    <3> QED
      BY <1>4, <3>2, <3>3
  <2> QED
    BY <1>1, <2>1, <2>2, LoneStays
<1> QED
  BY <1>2, <1>3, <1>4 DEF Next, Die

\* main goes wrong only with more threads than it has room for, or when it exits.
LEMMA RightStep ==
  ASSUME OffInv, PresentOK, LoneOK, Lone, [Next]_vars, fault = "none",
         MAX_CLIENTS_SIZE > 1
  PROVE  fault' = "none"
<1>1. ~SpawnPastTheEnd /\ ~JoinGarbage
  <2>1. /\ DOMAIN slots = 0..(MAX_CLIENTS_SIZE - 1) /\ MAX_CLIENTS_SIZE \in Nat
        /\ threadCounter \in Nat /\ nspawn \in Nat
    BY BoundsAssumption DEF OffInv, WalkInv, Inv, MainOK
  <2>2. threadCounter \in 0..(MAX_CLIENTS_SIZE - 1)
    BY <2>1 DEF LoneOK, Lone
  <2> QED
    BY <2>1, <2>2 DEF SpawnPastTheEnd, JoinGarbage, OffInv, RunOK, FreedOK, Lone
<1>2. CASE \E k \in Handler : HandlerStep(k) \/ ReadStdin(k)
  <2> PICK k \in Handler : HandlerStep(k) \/ ReadStdin(k)
    BY <1>2
  <2>1. Plain(k) \/ ReadText(k) \/ Add(k) \/ Remove(k)
    BY LoneGoesRight, HandlerCases
  <2> QED
    BY <2>1 DEF Plain, Skip, ReadStdin, Start, Count, Read, ReadLength, ReadEof,
                ReadText, ReadTextClosed, Dispatch, Add, BeginWalk, StopWalk, Announce,
                Collect, Reply, Close, Remove, Local, Private, Elsewhere
<1>3. CASE ~(\E k \in Handler : HandlerStep(k) \/ ReadStdin(k))
  BY <1>1, <1>3 DEF Next, MainStep, Sigint, vars, CheckRun, EnterSelect, WakeToExit,
                    MainGoes, MainStops, Accept, AcceptFails, GiveUp, Spawn,
                    SpawnFails, Release, Join, Exit, InMain, Connect, Ask, LogOff,
                    Request, Finish, Die, Outside
<1> QED
  BY <1>2, <1>3

\* One handler by itself does nothing undefined and nothing deadly, whichever
\* requests its clients send and in whatever order, and if two of them have the
\* same <IP, port>: provided that none of them is killed (the write to it ends the
\* server), that malloc does not fail, and that the array serverThreads
\* (main.c:25) has room for a second thread.
THEOREM LoneIsSafe ==
  "memory" \notin EnvFaults /\ "die" \notin EnvFaults /\ MAX_CLIENTS_SIZE > 1
     => (Spec => []LoneHandlerIsSafe)
<1> SUFFICES ASSUME "memory" \notin EnvFaults, "die" \notin EnvFaults,
                    MAX_CLIENTS_SIZE > 1
             PROVE  Spec => []LoneHandlerIsSafe
  OBVIOUS
<1>1. Init => LoneInv
  <2> SUFFICES ASSUME Init PROVE LoneInv
    OBVIOUS
  <2>1. OffInv /\ LoneHandlerIsSafe
    BY OffInit DEF Init, LoneHandlerIsSafe
  <2>2. PresentOK
    BY DEF Init, NewConn, PresentOK, Conn
  <2>3. LoneOK
    <3>1. \A k \in Handler : LoneLocal(h[k])
      BY DEF Init, NewHandler, LoneLocal
    <3>2. MarksOK /\ OpenOK
      BY DEF Init, NewConn, MarksOK, OpenOK
    <3> QED
      BY <3>1, <3>2 DEF LoneOK, Init
  <2> QED
    BY <2>1, <2>2, <2>3 DEF LoneInv
<1>2. ASSUME LoneInv, [Next]_vars PROVE LoneInv'
  <2>1. OffInv'
    BY <1>2, OffStep DEF LoneInv
  <2>2. CASE fault # "none"
    <3>1. UNCHANGED vars
      BY <1>2, <2>2, NothingAfterFault
    <3>2. ~Lone /\ UNCHANGED <<nspawn, shouldRun>>
      BY <1>2, <2>2, <3>1 DEF LoneInv, LoneHandlerIsSafe, Lone, vars, mainVars,
                              threadVars
    <3> QED
      BY <2>1, <3>2 DEF LoneInv, LoneHandlerIsSafe, PresentOK, LoneOK, Lone
  <2>3. CASE fault = "none"
    <3>1. LoneOK' /\ PresentOK'
      BY <1>2, <2>3, LoneStep, PresentStep DEF LoneInv
    <3>2. Lone' => Lone
      BY <1>2, LoneBefore DEF LoneInv, OffInv, WalkInv
    <3>3. Lone => fault' = "none"
      BY <1>2, <2>3, RightStep DEF LoneInv
    <3> QED
      BY <2>1, <3>1, <3>2, <3>3 DEF LoneInv, LoneHandlerIsSafe, Lone
  <2> QED
    BY <2>2, <2>3
<1>3. LoneInv => LoneHandlerIsSafe
  BY DEF LoneInv
<1> QED
  BY <1>1, <1>2, <1>3, PTL DEF Spec
=============================================================================
