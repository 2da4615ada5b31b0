---------------------------- MODULE ClientProofs ----------------------------
(***************************************************************************)
(* Proofs about Client, for every number of workers, every set of messages *)
(* and whatever fails around it: types, and that the workers implement the *)
(* follower.                                                               *)
(***************************************************************************)
EXTENDS Client, SequenceTheorems, TLAPS

\* The labels between taking lock and giving it back, and those at which a
\* worker has a message.
Inside == {"read", "got", "apply", "clear", "unlock"}
Holding == {"got", "apply", "clear"}

\* lock is held by the one worker that is inside, if there is one.
LockOK == \A w \in Worker : wpc[w] \in Inside <=> lock = w

HandOK == \A w \in Worker : wpc[w] \in Holding => hand[w] \in Message

\* Before main has tried to create a worker there is none.
StartOK == \A w \in Worker : w > started => wpc[w] = "none"

\* Until the connection is made nothing is listed and nothing has come; what
\* has been freed was freed after shouldRun had been cleared.
PhaseOK == /\ mpc = "boot" => started = 0 /\ list = {} /\ inbox = <<>> /\ ~freed
           /\ mpc \in {"logoff", "free", "join", "close", "exited"} => ~shouldRun
           /\ freed => ~shouldRun

\* Only a worker in the middle of a CLIENT_LIST is past the first tuple.
ProgressOK ==
    \A w \in Worker :
       wpc[w] # "apply" \/ hand[w].type # "CLIENT_LIST" => pos[w] = 0

\* The inductive invariant.
Inv == TypeOK /\ LockOK /\ HandOK /\ StartOK /\ PhaseOK /\ ProgressOK

-----------------------------------------------------------------------------

LEMMA LineTypes ==
  /\ Line \subseteq Seq(Key)
  /\ \A text \in Seq(Key) : SubSeq(text, 1, Len(text) - 1) \in Seq(Key)
<1>1. Line \subseteq Seq(Key)
  BY LineAssumption
<1>2. ASSUME NEW text \in Seq(Key)
      PROVE  SubSeq(text, 1, Len(text) - 1) \in Seq(Key)
  <2>1. \A i \in 1..(Len(text) - 1) : text[i] \in Key
    BY LenProperties, ElementOfSeq
  <2>2. Len(text) - 1 \in Int
    BY LenProperties
  <2> QED
    BY <2>1, <2>2, SubSeqProperties
<1> QED
  BY <1>1, <1>2

\* What is left of the messages after a reset are messages.
LEMMA PrefixTypes ==
  ASSUME NEW s \in Seq(Message), NEW n \in 0..Len(s)
  PROVE  SubSeq(s, 1, n) \in Seq(Message)
<1>1. \A i \in 1..n : s[i] \in Message
  BY LenProperties, ElementOfSeq
<1>2. n \in Int
  BY LenProperties
<1> QED
  BY <1>1, <1>2, SubSeqProperties

LEMMA MessageTypes ==
  ASSUME NEW m \in Message
  PROVE  /\ m.type \in {"USER_ON", "USER_OFF", "CLIENT_LIST"}
         /\ m.count \in Nat /\ m.tuples \in Seq(Tuple)
         /\ Named(m) \subseteq Tuple
         /\ \A v \in SUBSET Tuple : Effect(Self, v, m) \in SUBSET Tuple
<1>1. m \in [type : {"USER_ON", "USER_OFF", "CLIENT_LIST"},
             count : Nat, tuples : Seq(Tuple)]
  BY MessageAssumption
<1>2. Named(m) \subseteq Tuple
  BY <1>1, ElementOfSeq, LenProperties DEF Named
<1>3. \A v \in SUBSET Tuple : Effect(Self, v, m) \in SUBSET Tuple
  BY <1>1, <1>2 DEF Effect
<1> QED
  BY <1>1, <1>2, <1>3

LEMMA InitInv == Init => Inv
<1> SUFFICES ASSUME Init
             PROVE  Inv
  OBVIOUS
<1>1. TypeOK
  <2>1. started \in 0..WorkerThreads /\ joined \in 0..WorkerThreads /\ sentIn \in Nat
    BY WorkersAssumption DEF Init
  <2>2. wpc \in [Worker -> WorkerLabels] /\ pos \in [Worker -> Nat]
    BY DEF Init, WorkerLabels
  <2>3. hand \in [Worker -> Message \cup {NoMsg}]
    BY DEF Init
  <2>4. line \in Seq(Key) /\ out \in Seq({"LOG_ON", "GET_CLIENTS", "LOG_OFF"})
        /\ inbox \in Seq(Message)
    BY DEF Init
  <2>5. /\ lock \in Worker \cup {None} /\ dataLock \in Worker \cup {None}
        /\ list \subseteq Tuple
    BY DEF Init
  <2> QED
    BY <2>1, <2>2, <2>3, <2>4, <2>5 DEF Init, TypeOK
<1>2. LockOK
  BY DEF Init, LockOK, Inside, Worker, None
<1>3. HandOK /\ StartOK /\ PhaseOK /\ ProgressOK
  BY DEF Init, HandOK, Holding, StartOK, PhaseOK, ProgressOK
<1> QED
  BY <1>1, <1>2, <1>3 DEF Inv

-----------------------------------------------------------------------------
(* Steps that leave the workers alone.                                     *)

\* The invariant survives a step that leaves the workers alone, given what it
\* says of the variables of main and of the connection.
LEMMA WorkersAlone ==
  ASSUME Inv, UNCHANGED workerVars, started' = started, TypeOK', PhaseOK',
         freed' \/ UNCHANGED listVars
  PROVE  Inv'
<1>1. LockOK' /\ HandOK' /\ StartOK'
  BY DEF Inv, LockOK, HandOK, StartOK, workerVars
<1>2. ProgressOK'
  BY DEF Inv, ProgressOK, workerVars, listVars
<1> QED
  BY <1>1, <1>2 DEF Inv

LEMMA OutsideInv ==
  ASSUME Inv,
         \/ \E m \in Message : Deliver(m)
         \/ CloseLink \/ RunShort \/ Sigint
         \/ TypeLine \/ EndOfInput \/ WriteBeforeBuffer
  PROVE  Inv'
<1> USE DEF Inv
<1>1. ASSUME NEW m \in Message, Deliver(m)
      PROVE  Inv'
  <2>1. inbox' \in Seq(Message)
    BY <1>1, AppendProperties DEF Deliver, TypeOK
  <2>2. TypeOK' /\ PhaseOK'
    BY <1>1, <2>1 DEF Deliver, TypeOK, PhaseOK, mainVars, listVars, workerVars
  <2> QED
    BY <1>1, <2>2, WorkersAlone DEF Deliver, mainVars
<1>2. ASSUME CloseLink
      PROVE  Inv'
  <2>1. PICK n \in 0..Len(inbox) : inbox' = SubSeq(inbox, 1, n)
    BY <1>2, LenProperties DEF CloseLink, TypeOK
  <2>2. inbox' \in Seq(Message)
    BY <2>1, PrefixTypes DEF TypeOK
  <2>3. TypeOK' /\ PhaseOK'
    BY <1>2, <2>2 DEF CloseLink, TypeOK, PhaseOK, mainVars, listVars, workerVars
  <2> QED
    BY <1>2, <2>3, WorkersAlone DEF CloseLink, mainVars
<1>3. ASSUME Sigint
      PROVE  Inv'
  <2>1. line' \in Seq(Key)
    BY <1>3, LineTypes DEF Sigint, TypeOK, Chopped
  <2>2. mpc' = mpc \/ (mpc = "fgets" /\ mpc' \in {"check", "exit"})
    BY <1>3 DEF Sigint, Chosen
  <2>3. /\ UNCHANGED <<started, joined, out, list, freed, lock, dataLock, wpc, hand, pos>>
        /\ UNCHANGED <<inbox, sentIn, link, short, fault>> /\ shouldRun' = FALSE
    BY <1>3 DEF Sigint, listVars, workerVars, linkVars
  <2>4. TypeOK'
    <3>1. mpc' \in {"boot", "spawn", "check", "enter", "fgets", "exit", "logoff", "free",
                    "join", "close", "exited"}
      BY <2>2 DEF TypeOK
    <3> QED
      BY <2>1, <2>3, <3>1 DEF TypeOK
  <2>5. PhaseOK'
    BY <2>2, <2>3 DEF PhaseOK
  <2> QED
    BY <1>3, <2>4, <2>5, WorkersAlone DEF Sigint
<1>4. ASSUME NEW text \in Seq(Key), Typed(text)
      PROVE  Inv'
  <2>1. TypeOK' /\ PhaseOK'
    BY <1>4 DEF Typed, At, Chosen, TypeOK, PhaseOK, listVars, workerVars, linkVars
  <2> QED
    BY <1>4, <2>1, WorkersAlone DEF Typed
<1>5. CASE TypeLine
  BY <1>4, <1>5, LineTypes DEF TypeLine
<1>6. CASE EndOfInput
  BY <1>4, <1>6, LineTypes DEF EndOfInput, TypeOK
<1>7. ASSUME WriteBeforeBuffer
      PROVE  Inv'
  <2>1. TypeOK' /\ PhaseOK'
    BY <1>7 DEF WriteBeforeBuffer, Fail, TypeOK, PhaseOK, mainVars, listVars, workerVars, linkVars
  <2> QED
    BY <1>7, <2>1, WorkersAlone DEF WriteBeforeBuffer, Fail, mainVars
<1>8. ASSUME RunShort
      PROVE  Inv'
  <2>1. TypeOK' /\ PhaseOK'
    BY <1>8 DEF RunShort, TypeOK, PhaseOK, mainVars, listVars, workerVars
  <2> QED
    BY <1>8, <2>1, WorkersAlone DEF RunShort, mainVars
<1> QED
  BY <1>1, <1>2, <1>3, <1>5, <1>6, <1>7, <1>8

\* A step that only sets fault.
LEMMA FailInv ==
  ASSUME Inv, NEW what \in {"null", "oob", "sigpipe", "race", "join", "freed"}, Fail(what)
  PROVE  Inv'
<1>1. TypeOK' /\ PhaseOK'
  BY DEF Inv, Fail, TypeOK, PhaseOK, mainVars, listVars, workerVars, linkVars
<1> QED
  BY <1>1, WorkersAlone DEF Fail, mainVars

LEMMA MainInv ==
  ASSUME Inv, MainStep
  PROVE  Inv'
<1> USE DEF Inv
<1>1. ASSUME NEW label, NEW next, Goes(label, next),
             \/ label = "check" /\ next = "enter"
             \/ label = "check" /\ next = "exit"
             \/ label = "enter" /\ next = "fgets"
             \/ label = "join" /\ next = "close"
             \/ label = "close" /\ next = "exited"
      PROVE  Inv'
  <2>1. TypeOK' /\ PhaseOK'
    BY <1>1 DEF Goes, At, TypeOK, PhaseOK, listVars, workerVars, linkVars
  <2> QED
    BY <1>1, <2>1, WorkersAlone DEF Goes
<1>2. ASSUME NEW label, NEW message, NEW next, Sends(label, message, next),
             \/ label = "boot" /\ message = "LOG_ON" /\ next = "spawn"
             \/ label = "spawn" /\ message = "GET_CLIENTS" /\ next = "check"
             \/ label = "logoff" /\ message = "LOG_OFF" /\ next = "free"
      PROVE  Inv'
  <2>1. out' \in Seq({"LOG_ON", "GET_CLIENTS", "LOG_OFF"})
    <3>1. message \in {"LOG_ON", "GET_CLIENTS", "LOG_OFF"}
      BY <1>2
    <3> QED
      BY <1>2, <3>1, AppendProperties DEF Sends, TypeOK
  <2>2. TypeOK' /\ PhaseOK'
    BY <1>2, <2>1 DEF Sends, At, TypeOK, PhaseOK, listVars, workerVars, linkVars
  <2> QED
    BY <1>2, <2>2, WorkersAlone DEF Sends
<1>3. CASE Boot
  BY <1>3, <1>2 DEF Boot
<1>4. ASSUME BootFails
      PROVE  Inv'
  <2>1. TypeOK' /\ PhaseOK'
    BY <1>4 DEF BootFails, At, TypeOK, PhaseOK, workerVars, linkVars
  <2> QED
    BY <1>4, <2>1, WorkersAlone DEF BootFails
<1>5. CASE BootCrashes
  BY <1>5, FailInv DEF BootCrashes
<1>6. ASSUME Spawn
      PROVE  Inv'
  <2>1. /\ started \in 0..WorkerThreads /\ started' = started + 1
        /\ started' \in Worker /\ wpc[started'] = "none"
    BY <1>6, WorkersAssumption DEF Spawn, TypeOK, StartOK, Worker
  <2>2. /\ wpc' \in [Worker -> WorkerLabels]
        /\ \A w \in Worker : wpc'[w] = wpc[w] \/ (w = started' /\ wpc'[w] = "lock")
    BY <1>6, <2>1 DEF Spawn, TypeOK, WorkerLabels
  <2>3. TypeOK'
    BY <1>6, <2>1, <2>2 DEF Spawn, TypeOK, Worker, listVars, linkVars
  <2>4. LockOK' /\ HandOK'
    BY <1>6, <2>1, <2>2 DEF Spawn, LockOK, HandOK, Inside, Holding
  <2>5. StartOK'
    BY <2>1, <2>2 DEF StartOK, Worker
  <2>6. PhaseOK'
    BY <1>6 DEF Spawn, At, PhaseOK, listVars, linkVars
  <2>7. ProgressOK'
    BY <1>6, <2>1, <2>2 DEF Spawn, ProgressOK, listVars
  <2> QED
    BY <2>3, <2>4, <2>5, <2>6, <2>7
<1>7. CASE AskForClients
  BY <1>7, <1>2 DEF AskForClients
<1>8. CASE CheckRun
  BY <1>8, <1>1 DEF CheckRun
<1>9. CASE EnterFgets
  BY <1>9, <1>1 DEF EnterFgets
<1>10. ASSUME BeginExit
       PROVE  Inv'
  <2>1. TypeOK' /\ PhaseOK'
    BY <1>10 DEF BeginExit, At, TypeOK, PhaseOK, listVars, workerVars, linkVars
  <2> QED
    BY <1>10, <2>1, WorkersAlone DEF BeginExit
<1>11. CASE LogOff
  BY <1>11, <1>2 DEF LogOff
<1>12. ASSUME Free
       PROVE  Inv'
  <2>1. TypeOK' /\ PhaseOK'
    BY <1>12 DEF Free, At, TypeOK, PhaseOK, workerVars, linkVars
  <2> QED
    BY <1>12, <2>1, WorkersAlone DEF Free
<1>13. CASE BrokenPipe
  BY <1>13, FailInv DEF BrokenPipe
<1>14. CASE Race
  BY <1>14, FailInv DEF Race
<1>15. ASSUME Join
       PROVE  Inv'
  <2>1. joined' \in 0..WorkerThreads
    BY <1>15, WorkersAssumption DEF Join, TypeOK
  <2>2. TypeOK' /\ PhaseOK'
    BY <1>15, <2>1 DEF Join, At, TypeOK, PhaseOK, listVars, workerVars, linkVars
  <2> QED
    BY <1>15, <2>2, WorkersAlone DEF Join
<1>16. CASE JoinGarbage
  BY <1>16, FailInv DEF JoinGarbage
<1>17. CASE Joined
  BY <1>17, <1>1 DEF Joined
<1>18. CASE Exit
  BY <1>18, <1>1 DEF Exit
<1> QED
  BY <1>3, <1>4, <1>5, <1>6, <1>7, <1>8, <1>9, <1>10, <1>11, <1>12, <1>13,
     <1>14, <1>15, <1>16, <1>17, <1>18 DEF MainStep

-----------------------------------------------------------------------------
(* Steps of a worker.                                                      *)

\* A worker that is inside, and goes on being inside, leaves lock alone.
LEMMA StaysInside ==
  ASSUME Inv, NEW w \in Worker, NEW label \in Inside, NEW next \in Inside,
         Moves(w, label, next), lock' = lock,
         next \in Holding => hand'[w] \in Message,
         \A v \in Worker \ {w} : hand'[v] = hand[v],
         dataLock' \in {dataLock, w, None},
         list' \in SUBSET Tuple, inbox' \in Seq(Message),
         hand' \in [Worker -> Message \cup {NoMsg}], pos' \in [Worker -> Nat],
         next # "apply" \/ hand'[w].type # "CLIENT_LIST" => pos'[w] = 0,
         \A v \in Worker \ {w} : pos'[v] = pos[v]
  PROVE  Inv'
<1> USE DEF Inv
<1>1. /\ wpc' \in [Worker -> WorkerLabels] /\ wpc[w] = label
      /\ wpc'[w] = next /\ \A v \in Worker \ {w} : wpc'[v] = wpc[v]
  BY DEF Moves, On, TypeOK, WorkerLabels, Inside
<1>2. TypeOK'
  BY <1>1 DEF Moves, TypeOK, mainVars
<1>3. LockOK'
  BY <1>1 DEF LockOK
<1>4. HandOK'
  BY <1>1 DEF HandOK
<1>5. StartOK'
  <2>1. started' = started
    BY DEF Moves, mainVars
  <2>2. wpc[w] # "none"
    BY <1>1 DEF Inside
  <2> QED
    BY <1>1, <2>1, <2>2 DEF StartOK
<1>6. PhaseOK'
  <2>1. wpc[w] # "none" /\ w > 0
    BY <1>1, WorkersAssumption DEF Inside, Worker
  <2>2. mpc # "boot"
    BY <2>1 DEF PhaseOK, StartOK
  <2> QED
    BY <2>2 DEF PhaseOK, Moves, mainVars
<1>7. ProgressOK'
  <2>1. freed' = freed
    BY DEF Moves
  <2>2. \A v \in Worker \ {w} : wpc[v] # "apply"
    BY <1>1 DEF LockOK, Inside
  <2> QED
    BY <1>1, <2>1, <2>2 DEF ProgressOK
<1> QED
  BY <1>2, <1>3, <1>4, <1>5, <1>6, <1>7

LEMMA WorkerInv ==
  ASSUME Inv, NEW w \in Worker, WorkerStep(w)
  PROVE  Inv'
<1> USE DEF Inv
<1>a. /\ wpc \in [Worker -> WorkerLabels] /\ list \in SUBSET Tuple
      /\ inbox \in Seq(Message) /\ hand \in [Worker -> Message \cup {NoMsg}]
      /\ pos \in [Worker -> Nat]
      /\ (wpc[w] # "apply" \/ hand[w].type # "CLIENT_LIST" => pos[w] = 0)
  BY DEF TypeOK, ProgressOK
<1>1. ASSUME Lock(w)
      PROVE  Inv'
  <2>1. /\ wpc' \in [Worker -> WorkerLabels] /\ wpc[w] = "lock"
        /\ wpc'[w] = "read" /\ \A v \in Worker \ {w} : wpc'[v] = wpc[v]
    BY <1>1, <1>a DEF Lock, Moves, On, WorkerLabels
  <2>2. TypeOK'
    BY <1>1, <2>1 DEF Lock, Moves, TypeOK, mainVars
  <2>3. LockOK'
    BY <1>1, <2>1 DEF Lock, LockOK, Inside, None, Worker
  <2>4. HandOK'
    BY <1>1, <2>1 DEF Lock, HandOK, Holding
  <2>5. StartOK'
    BY <1>1, <2>1 DEF Lock, StartOK, Moves, mainVars
  <2>6. PhaseOK'
    BY <1>1 DEF Lock, PhaseOK, Moves, mainVars
  <2>7. ProgressOK'
    BY <1>1, <2>1, <1>a DEF Lock, ProgressOK, Moves
  <2> QED
    BY <2>2, <2>3, <2>4, <2>5, <2>6, <2>7
<1>2. ASSUME Receive(w)
      PROVE  Inv'
  <2>1. inbox' \in Seq(Message) /\ Head(inbox) \in Message
    BY <1>2, <1>a, HeadTailProperties DEF Receive
  <2>2. /\ hand' \in [Worker -> Message \cup {NoMsg}]
        /\ \A v \in Worker \ {w} : hand'[v] = hand[v]
        /\ hand'[w] = IF shouldRun THEN Head(inbox) ELSE NoMsg
    BY <1>2, <1>a, <2>1 DEF Receive
  <2>3. CASE shouldRun
    <3>1. Moves(w, "read", "got") /\ lock' = lock /\ dataLock' = dataLock
          /\ list' = list /\ pos' = pos /\ pos[w] = 0
      BY <1>2, <2>3, <1>a DEF Receive, Moves, On
    <3>2. "read" \in Inside /\ "got" \in Inside /\ hand'[w] \in Message
      BY <2>1, <2>2, <2>3 DEF Inside
    <3> QED
      BY <2>1, <2>2, <3>1, <3>2, <1>a, StaysInside
  <2>4. CASE ~shouldRun
    <3>1. Moves(w, "read", "unlock") /\ lock' = lock /\ dataLock' = dataLock
          /\ list' = list /\ pos' = pos /\ pos[w] = 0
      BY <1>2, <2>4, <1>a DEF Receive, Moves, On
    <3>2. "read" \in Inside /\ "unlock" \in Inside /\ "unlock" \notin Holding
      BY DEF Inside, Holding
    <3> QED
      BY <2>1, <2>2, <3>1, <3>2, <1>a, StaysInside
  <2> QED
    BY <2>3, <2>4
<1>3. ASSUME ReceiveEnd(w)
      PROVE  Inv'
  <2>1. "read" \in Inside /\ "unlock" \in Inside /\ "unlock" \notin Holding
    BY DEF Inside, Holding
  <2>2. pos[w] = 0
    BY <1>3, <1>a DEF ReceiveEnd, Moves, On
  <2> QED
    BY <1>3, <2>1, <2>2, <1>a, StaysInside DEF ReceiveEnd
<1>4. CASE ParseNothing(w) \/ OutOfMemory(w)
  BY <1>4, FailInv DEF ParseNothing, OutOfMemory
<1>5. ASSUME Enter(w)
      PROVE  Inv'
  <2>1. PICK next \in {"apply", "clear"} : Moves(w, "got", next)
    BY <1>5 DEF Enter
  <2>2. "got" \in Inside /\ next \in Inside
    BY DEF Inside
  <2>3. hand[w] \in Message /\ pos[w] = 0
    BY <2>1, <1>a DEF HandOK, Holding, Moves, On
  <2> QED
    BY <1>5, <2>1, <2>2, <2>3, <1>a, StaysInside DEF Enter
<1>b. wpc[w] = "apply" => hand[w] \in Message
  BY DEF HandOK, Holding
<1>c. "apply" \in Inside /\ "clear" \in Inside /\ "read" \in Inside /\ "read" \notin Holding
  BY DEF Inside, Holding
<1>6. ASSUME ApplyOne(w)
      PROVE  Inv'
  <2>1. hand[w] \in Message
    BY <1>6, <1>b DEF ApplyOne, Moves, On
  <2>2. list' \in SUBSET Tuple
    BY <1>6, <2>1, <1>a, MessageTypes DEF ApplyOne
  <2>3. pos' = pos /\ pos[w] = 0
    BY <1>6, <1>a DEF ApplyOne
  <2> QED
    BY <1>6, <2>1, <2>2, <2>3, <1>a, <1>c, StaysInside DEF ApplyOne
<1>7. ASSUME ApplyNext(w)
      PROVE  Inv'
  <2>1. hand[w] \in Message
    BY <1>7, <1>b DEF ApplyNext, Moves, On
  <2>2. pos' \in [Worker -> Nat] /\ pos'[w] = pos[w] + 1 /\ pos[w] \in Nat
    BY <1>7, <1>a DEF ApplyNext
  <2>3. hand[w].tuples \in Seq(Tuple) /\ pos'[w] \in 1..Len(hand[w].tuples)
    BY <1>7, <2>1, <2>2, MessageTypes, LenProperties DEF ApplyNext
  <2>4. hand[w].tuples[pos'[w]] \in Tuple
    BY <2>3, ElementOfSeq
  <2>5. list' \in SUBSET Tuple
    BY <1>7, <2>4, <1>a DEF ApplyNext
  <2>7. /\ Moves(w, "apply", "apply") /\ hand' = hand /\ inbox' = inbox
        /\ lock' = lock /\ dataLock' = dataLock /\ hand[w].type = "CLIENT_LIST"
        /\ \A v \in Worker \ {w} : pos'[v] = pos[v]
    BY <1>7, <1>a DEF ApplyNext
  <2> QED
    BY <2>7, <2>1, <2>2, <2>5, <1>a, <1>c, StaysInside
<1>8. CASE ApplyPastTheEnd(w)
  BY <1>8, FailInv DEF ApplyPastTheEnd
<1>9. ASSUME ApplyLast(w)
      PROVE  Inv'
  <2>1. hand[w] \in Message
    BY <1>9, <1>b DEF ApplyLast, Moves, On
  <2>2. /\ pos' \in [Worker -> Nat] /\ pos'[w] = 0
        /\ \A v \in Worker \ {w} : pos'[v] = pos[v]
    BY <1>9, <1>a DEF ApplyLast
  <2> QED
    BY <1>9, <2>1, <2>2, <1>a, <1>c, StaysInside DEF ApplyLast
<1>10. CASE ApplyFreed(w)
  BY <1>10, FailInv DEF ApplyFreed
<1>11. ASSUME Clear(w)
       PROVE  Inv'
  <2>1. /\ hand' \in [Worker -> Message \cup {NoMsg}]
        /\ \A v \in Worker \ {w} : hand'[v] = hand[v]
        /\ pos' = pos /\ pos[w] = 0
    BY <1>11, <1>a DEF Clear, Moves, On
  <2> QED
    BY <1>11, <2>1, <1>a, <1>c, StaysInside DEF Clear
<1>12. ASSUME Unlock(w)
       PROVE  Inv'
  <2>1. /\ wpc' \in [Worker -> WorkerLabels] /\ wpc[w] = "unlock"
        /\ wpc'[w] = "done" /\ \A v \in Worker \ {w} : wpc'[v] = wpc[v]
    BY <1>12, <1>a DEF Unlock, Moves, On, WorkerLabels
  <2>2. TypeOK'
    BY <1>12, <2>1 DEF Unlock, Moves, TypeOK, mainVars
  <2>3. LockOK'
    BY <1>12, <2>1 DEF Unlock, LockOK, Inside, None, Worker
  <2>4. HandOK'
    BY <1>12, <2>1 DEF Unlock, HandOK, Holding
  <2>5. StartOK'
    BY <1>12, <2>1 DEF Unlock, StartOK, Moves, mainVars
  <2>6. PhaseOK'
    BY <1>12 DEF Unlock, PhaseOK, Moves, mainVars
  <2>7. ProgressOK'
    BY <1>12, <2>1, <1>a DEF Unlock, ProgressOK, Moves
  <2> QED
    BY <2>2, <2>3, <2>4, <2>5, <2>6, <2>7
<1> QED
  BY <1>1, <1>2, <1>3, <1>4, <1>5, <1>6, <1>7, <1>8, <1>9, <1>10, <1>11, <1>12
     DEF WorkerStep

-----------------------------------------------------------------------------

LEMMA NextInv ==
  ASSUME Inv, [Next]_vars
  PROVE  Inv'
<1>1. CASE UNCHANGED vars
  BY <1>1 DEF Inv, TypeOK, LockOK, HandOK, StartOK, PhaseOK, ProgressOK, vars, mainVars, listVars,
              workerVars, linkVars
<1>2. CASE Next
  BY <1>2, OutsideInv, MainInv, WorkerInv DEF Next
<1> QED
  BY <1>1, <1>2

LEMMA Invariance == Spec => []Inv
<1>1. Inv /\ [Next]_vars => Inv'
  BY NextInv
<1> QED
  BY InitInv, <1>1, PTL DEF Spec

\* Every variable of the client keeps its type, for every number of workers and
\* all messages.
THEOREM ClientTypes == Spec => []TypeOK
<1>1. Inv => TypeOK
  BY DEF Inv
<1> QED
  BY Invariance, <1>1, PTL

-----------------------------------------------------------------------------
(* The workers implement the follower.                                     *)

\* Sequences with one message before the others.
LEMMA OneBefore ==
  ASSUME NEW m \in Message, NEW s \in Seq(Message)
  PROVE  /\ <<m>> \o s \in Seq(Message)
         /\ <<m>> \o s # <<>> /\ Head(<<m>> \o s) = m /\ Tail(<<m>> \o s) = s
         /\ \A e \in Message : Append(<<m>> \o s, e) = <<m>> \o Append(s, e)
         /\ \A n \in 0..Len(s) : /\ n + 1 \in 0..Len(<<m>> \o s)
                                 /\ SubSeq(<<m>> \o s, 1, n + 1) = <<m>> \o SubSeq(s, 1, n)
<1> DEFINE t == <<m>> \o s
<1>1. /\ t \in Seq(Message) /\ Len(t) = 1 + Len(s) /\ Len(s) \in Nat
      /\ \A i \in 1..(1 + Len(s)) : t[i] = IF i <= 1 THEN m ELSE s[i - 1]
  <2>1. <<m>> \in Seq(Message) /\ Len(<<m>>) = 1 /\ <<m>>[1] = m
    OBVIOUS
  <2>2. Len(s) \in Nat
    BY LenProperties
  <2> QED
    BY <2>1, <2>2, ConcatProperties
<1>2. t # <<>> /\ Head(t) = m
  BY <1>1
<1>3. Tail(t) = s
  <2>1. Tail(t) \in Seq(Message) /\ Len(Tail(t)) = Len(s)
    BY <1>1, <1>2, HeadTailProperties
  <2>2. \A i \in 1..Len(s) : Tail(t)[i] = s[i]
    BY <1>1, <1>2, <2>1, HeadTailProperties
  <2> QED
    BY <2>1, <2>2, SeqEqual
<1>4. ASSUME NEW e \in Message
      PROVE  Append(t, e) = <<m>> \o Append(s, e)
  <2> DEFINE u == <<m>> \o Append(s, e)
  <2>1. /\ Append(s, e) \in Seq(Message) /\ Len(Append(s, e)) = Len(s) + 1
        /\ \A i \in 1..Len(s) : Append(s, e)[i] = s[i]
        /\ Append(s, e)[Len(s) + 1] = e
    BY AppendProperties
  <2>2. /\ u \in Seq(Message) /\ Len(u) = Len(s) + 2
        /\ \A i \in 1..(Len(s) + 2) : u[i] = IF i <= 1 THEN m ELSE Append(s, e)[i - 1]
    <3>1. <<m>> \in Seq(Message) /\ Len(<<m>>) = 1 /\ <<m>>[1] = m
      OBVIOUS
    <3> QED
      BY <1>1, <2>1, <3>1, ConcatProperties
  <2>3. /\ Append(t, e) \in Seq(Message) /\ Len(Append(t, e)) = Len(s) + 2
        /\ \A i \in 1..(Len(s) + 1) : Append(t, e)[i] = t[i]
        /\ Append(t, e)[Len(s) + 2] = e
    BY <1>1, AppendProperties
  <2>4. \A i \in 1..(Len(s) + 2) : Append(t, e)[i] = u[i]
    <3> HIDE DEF t, u
    <3> TAKE i \in 1..(Len(s) + 2)
    <3>1. CASE i = 1
      BY <3>1, <1>1, <2>2, <2>3
    <3>2. CASE i \in 2..(Len(s) + 1)
      <4>1. i - 1 \in 1..Len(s) /\ i \in 1..(Len(s) + 1) /\ ~(i <= 1)
        BY <3>2, <1>1
      <4> QED
        BY <4>1, <1>1, <2>1, <2>2, <2>3
    <3>3. CASE i = Len(s) + 2
      BY <3>3, <1>1, <2>1, <2>2, <2>3
    <3> QED
      BY <3>1, <3>2, <3>3, <1>1
  <2> QED
    BY <2>2, <2>3, <2>4, SeqEqual
<1>5. ASSUME NEW n \in 0..Len(s)
      PROVE  /\ n + 1 \in 0..Len(t)
             /\ SubSeq(t, 1, n + 1) = <<m>> \o SubSeq(s, 1, n)
  <2> DEFINE u == <<m>> \o SubSeq(s, 1, n)
  <2>1. n \in Nat /\ n <= Len(s) /\ n + 1 \in 0..Len(t)
    BY <1>1
  <2>2. /\ SubSeq(s, 1, n) \in Seq(Message) /\ Len(SubSeq(s, 1, n)) = n
        /\ \A i \in 1..n : SubSeq(s, 1, n)[i] = s[i]
    <3>1. \A i \in 1..n : s[i] \in Message
      BY <2>1, ElementOfSeq, LenProperties
    <3> QED
      BY <2>1, <3>1, SubSeqProperties
  <2>3. /\ u \in Seq(Message) /\ Len(u) = n + 1
        /\ \A i \in 1..(n + 1) : u[i] = IF i <= 1 THEN m ELSE SubSeq(s, 1, n)[i - 1]
    <3>1. <<m>> \in Seq(Message) /\ Len(<<m>>) = 1 /\ <<m>>[1] = m
      OBVIOUS
    <3> QED
      BY <2>1, <2>2, <3>1, ConcatProperties
  <2>4. /\ SubSeq(t, 1, n + 1) \in Seq(Message) /\ Len(SubSeq(t, 1, n + 1)) = n + 1
        /\ \A i \in 1..(n + 1) : SubSeq(t, 1, n + 1)[i] = t[i]
    <3>1. \A i \in 1..(n + 1) : t[i] \in Message
      BY <1>1, <2>1, ElementOfSeq, LenProperties
    <3>2. n + 1 \in Int /\ 1 \in Int
      BY <2>1
    <3> HIDE DEF t
    <3> QED
      BY <2>1, <3>1, <3>2, SubSeqProperties
  <2>5. \A i \in 1..(n + 1) : SubSeq(t, 1, n + 1)[i] = u[i]
    <3> HIDE DEF t, u
    <3> TAKE i \in 1..(n + 1)
    <3>1. CASE i = 1
      BY <3>1, <1>1, <2>1, <2>3, <2>4
    <3>2. CASE i # 1
      <4>1. i - 1 \in 1..n /\ i \in 1..(1 + Len(s)) /\ ~(i <= 1)
        BY <3>2, <2>1, <1>1
      <4> QED
        BY <4>1, <1>1, <2>2, <2>3, <2>4
    <3> QED
      BY <3>1, <3>2
  <2> QED
    BY <2>1, <2>3, <2>4, <2>5, SeqEqual
<1> QED
  BY <1>1, <1>2, <1>3, <1>4, <1>5

\* Of the workers, only the one that is inside can be at a label there.
LEMMA OneInside ==
  ASSUME NEW pc, NEW l, NEW w \in Worker, NEW label \in Inside,
         \A v \in Worker : pc[v] \in Inside <=> l = v,
         pc[w] \in Inside
  PROVE  {v \in Worker : pc[v] = label} = IF pc[w] = label THEN {w} ELSE {}
OBVIOUS

\* The variables of the follower, as the client maps them.
FollowerVars == <<Unread, Shown, Unsettled, shouldRun, short>>

\* What the follower is made of, by the worker that is inside before and after
\* a step.
LEMMA ByWorker ==
  ASSUME Inv, Inv', NEW w \in Worker, wpc[w] \in Inside, wpc'[w] \in Inside
  PROVE  /\ Unread = IF wpc[w] = "got" THEN <<hand[w]>> \o inbox ELSE inbox
         /\ Unread' = IF wpc'[w] = "got" THEN <<hand'[w]>> \o inbox' ELSE inbox'
         /\ Shown = IF freed THEN {} ELSE
                       IF wpc[w] = "apply" THEN (list \cup ToAdd(w)) \ ToRemove(w)
                                           ELSE list
         /\ Shown' = IF freed' THEN {} ELSE
                        IF wpc'[w] = "apply" THEN (list' \cup ToAdd(w)') \ ToRemove(w)'
                                             ELSE list'
         /\ Unsettled = IF freed \/ wpc[w] # "apply" THEN {} ELSE ToAdd(w) \ list
         /\ Unsettled' = IF freed' \/ wpc'[w] # "apply" THEN {} ELSE ToAdd(w)' \ list'
<1>1. "got" \in Inside /\ "apply" \in Inside
  BY DEF Inside
<1>2. /\ Taken = IF wpc[w] = "got" THEN {w} ELSE {}
      /\ Applying = IF wpc[w] = "apply" THEN {w} ELSE {}
  BY <1>1, OneInside DEF Inv, LockOK, Taken, Applying
<1>3. /\ Taken' = IF wpc'[w] = "got" THEN {w} ELSE {}
      /\ Applying' = IF wpc'[w] = "apply" THEN {w} ELSE {}
  BY <1>1, OneInside DEF Inv, LockOK, Taken, Applying
<1>4. \A S : S = {w} => S # {} /\ (CHOOSE v \in S : TRUE) = w
  OBVIOUS
<1>5. /\ Unread = IF wpc[w] = "got" THEN <<hand[w]>> \o inbox ELSE inbox
      /\ Unread' = IF wpc'[w] = "got" THEN <<hand'[w]>> \o inbox' ELSE inbox'
  BY <1>2, <1>3, <1>4 DEF Unread
<1>6. /\ Applying # {} => (CHOOSE v \in Applying : TRUE) = w
      /\ Applying' # {} => (CHOOSE v \in Applying' : TRUE) = w
  BY <1>2, <1>3, <1>4
<1>7. /\ Applying # {} <=> wpc[w] = "apply"
      /\ Applying' # {} <=> wpc'[w] = "apply"
  BY <1>2, <1>3
<1>8. /\ Shown = IF freed THEN {} ELSE
                    IF wpc[w] = "apply" THEN (list \cup ToAdd(w)) \ ToRemove(w)
                                        ELSE list
      /\ Unsettled = IF freed \/ wpc[w] # "apply" THEN {} ELSE ToAdd(w) \ list
  <2> HIDE DEF Applying
  <2> QED
    BY <1>6, <1>7 DEF Shown, Unsettled
<1>9. /\ Shown' = IF freed' THEN {} ELSE
                     IF wpc'[w] = "apply" THEN (list' \cup ToAdd(w)') \ ToRemove(w)'
                                          ELSE list'
      /\ Unsettled' = IF freed' \/ wpc'[w] # "apply" THEN {} ELSE ToAdd(w)' \ list'
  <2> HIDE DEF Applying
  <2> QED
    BY <1>6, <1>7 DEF Shown, Unsettled
<1> QED
  BY <1>5, <1>8, <1>9

\* A message that a worker has not begun to deal with is added and removed as
\* the follower applies it.
LEMMA ByParts ==
  ASSUME NEW w \in Worker, hand[w] \in Message, pos[w] = 0, NEW v
  PROVE  /\ (v \cup ToAdd(w)) \ ToRemove(w) = Promise!Effect(Self, v, hand[w])
         /\ ToAdd(w) = {} \/ ToRemove(w) = {}
<1>1. /\ hand[w].type \in {"USER_ON", "USER_OFF", "CLIENT_LIST"}
      /\ hand[w].count \in Nat /\ hand[w].tuples \in Seq(Tuple)
      /\ DOMAIN hand[w].tuples = 1..Len(hand[w].tuples) /\ Len(hand[w].tuples) \in Nat
  BY MessageTypes, LenProperties
<1>2. {hand[w].tuples[i] : i \in {j \in DOMAIN hand[w].tuples :
                                   pos[w] < j /\ j <= hand[w].count}} = Named(hand[w])
  BY <1>1 DEF Named
<1>3. Promise!Named(hand[w]) = Named(hand[w])
  BY DEF Named, Promise!Named
<1>4. CASE hand[w].type = "USER_ON"
  BY <1>3, <1>4 DEF ToAdd, ToRemove, Promise!Effect
<1>5. CASE hand[w].type = "USER_OFF"
  BY <1>3, <1>5 DEF ToAdd, ToRemove, Promise!Effect
<1>6. CASE hand[w].type = "CLIENT_LIST"
  <2>1. ToAdd(w) = Named(hand[w]) \ {Self} /\ ToRemove(w) = {}
    BY <1>2, <1>6 DEF ToAdd, ToRemove
  <2> QED
    BY <1>3, <1>6, <2>1 DEF Promise!Effect
<1> QED
  BY <1>1, <1>4, <1>5, <1>6

\* Steps that bring tuples of the message in hand into the list, or miss them.
LEMMA Stores ==
  ASSUME Unread' = Unread, shouldRun' = shouldRun, short' = short,
         Shown' \subseteq Shown, Shown \ Shown' \subseteq Unsettled,
         Shown \ Shown' # {} => short,
         Unsettled' \subseteq Unsettled \ (Shown \ Shown')
  PROVE  [Promise!Next]_FollowerVars
<1> DEFINE missed == Shown \ Shown'
<1>1. /\ missed \in SUBSET Unsettled /\ Shown' = Shown \ missed
      /\ Unsettled' \in SUBSET (Unsettled \ missed) /\ missed # {} => short
  OBVIOUS
<1> QED
  BY <1>1 DEF Promise!Next, Promise!Store

\* A step that leaves the workers, the list and the messages alone stutters, or
\* stops the follower.
LEMMA NothingMoves ==
  ASSUME UNCHANGED <<list, freed, workerVars, inbox, short>>,
         shouldRun' \in {shouldRun, FALSE}
  PROVE  [Promise!Next]_FollowerVars
<1>1. Unread' = Unread /\ Shown' = Shown /\ Unsettled' = Unsettled
  BY DEF Unread, Shown, Unsettled, Taken, Applying, ToAdd, ToRemove, workerVars
<1> QED
  BY <1>1 DEF Promise!Next, Promise!Stop, FollowerVars

LEMMA OutsideFollows ==
  ASSUME Inv,
         \/ \E m \in Message : Deliver(m)
         \/ CloseLink \/ RunShort \/ Sigint
         \/ TypeLine \/ EndOfInput \/ WriteBeforeBuffer
  PROVE  [Promise!Next]_FollowerVars
<1> DEFINE w0 == CHOOSE w \in Taken : TRUE
<1>1. Taken # {} => hand[w0] \in Message
  BY DEF Inv, HandOK, Holding, Taken
<1>2. inbox \in Seq(Message)
  BY DEF Inv, TypeOK
<1>3. ASSUME NEW m \in Message, Deliver(m)
      PROVE  Promise!Arrive(m)
  <2>1. /\ inbox' = Append(inbox, m) /\ shouldRun' = shouldRun /\ short' = short
        /\ Shown' = Shown /\ Unsettled' = Unsettled
        /\ Unread' = IF Taken = {} THEN inbox' ELSE <<hand[w0]>> \o inbox'
    BY <1>3 DEF Deliver, Unread, Shown, Unsettled, Taken, Applying, ToAdd, ToRemove,
                mainVars, listVars, workerVars
  <2>2. Unread' = Append(Unread, m)
    BY <1>1, <1>2, <2>1, OneBefore DEF Unread
  <2> QED
    BY <2>1, <2>2 DEF Promise!Arrive
<1>4. ASSUME CloseLink
      PROVE  Promise!Lose
  <2>1. PICK n \in 0..Len(inbox) : inbox' = SubSeq(inbox, 1, n)
    BY <1>2, <1>4, LenProperties DEF CloseLink
  <2>2. /\ Shown' = Shown /\ Unsettled' = Unsettled
        /\ shouldRun' = shouldRun /\ short' = short
        /\ Unread' = IF Taken = {} THEN inbox' ELSE <<hand[w0]>> \o inbox'
    BY <1>4 DEF CloseLink, Unread, Shown, Unsettled, Taken, Applying, ToAdd, ToRemove,
                mainVars, listVars, workerVars
  <2>3. \E k \in 0..Len(Unread) : Unread' = SubSeq(Unread, 1, k)
    <3>1. CASE Taken = {}
      BY <3>1, <2>1, <2>2 DEF Unread
    <3>2. CASE Taken # {}
      <4>1. Unread = <<hand[w0]>> \o inbox /\ Unread' = <<hand[w0]>> \o SubSeq(inbox, 1, n)
        BY <3>2, <2>1, <2>2 DEF Unread
      <4>2. /\ n + 1 \in 0..Len(<<hand[w0]>> \o inbox)
            /\ SubSeq(<<hand[w0]>> \o inbox, 1, n + 1) = <<hand[w0]>> \o SubSeq(inbox, 1, n)
        BY <1>1, <1>2, <3>2, OneBefore
      <4> HIDE DEF w0
      <4> QED
        BY <4>1, <4>2
    <3> QED
      BY <3>1, <3>2
  <2> QED
    BY <2>2, <2>3 DEF Promise!Lose
<1>5. CASE Sigint
  BY <1>5, NothingMoves DEF Sigint, listVars, linkVars
<1>6. CASE TypeLine
  BY <1>6, NothingMoves DEF TypeLine, Typed, listVars, linkVars
<1>7. CASE EndOfInput
  BY <1>7, NothingMoves DEF EndOfInput, Typed, listVars, linkVars
<1>8. CASE WriteBeforeBuffer
  BY <1>8, NothingMoves DEF WriteBeforeBuffer, Fail, mainVars, listVars, linkVars
<1>9. ASSUME RunShort
      PROVE  Promise!RunShort
  <2>1. Unread' = Unread /\ Shown' = Shown /\ Unsettled' = Unsettled
    BY <1>9 DEF RunShort, Unread, Shown, Unsettled, Taken, Applying, ToAdd, ToRemove,
                listVars, workerVars
  <2> QED
    BY <1>9, <2>1 DEF RunShort, Promise!RunShort, mainVars
<1> QED
  BY <1>3, <1>4, <1>5, <1>6, <1>7, <1>8, <1>9 DEF Promise!Next

LEMMA MainFollows ==
  ASSUME Inv, MainStep
  PROVE  [Promise!Next]_FollowerVars
<1>1. ASSUME NEW what, Fail(what)
      PROVE  [Promise!Next]_FollowerVars
  BY <1>1, NothingMoves DEF Fail, mainVars, listVars, linkVars
<1>2. ASSUME NEW label, NEW next, Goes(label, next)
      PROVE  [Promise!Next]_FollowerVars
  BY <1>2, NothingMoves DEF Goes, listVars, linkVars
<1>3. ASSUME NEW label, NEW message, NEW next, Sends(label, message, next)
      PROVE  [Promise!Next]_FollowerVars
  BY <1>3, NothingMoves DEF Sends, listVars, linkVars
<1>4. ASSUME BootFails
      PROVE  [Promise!Next]_FollowerVars
  <2>1. \A w \in Worker : wpc[w] = "none"
    <3>1. started = 0 /\ \A w \in Worker : w > 0
      BY <1>4, WorkersAssumption DEF BootFails, At, Inv, PhaseOK, Worker
    <3> QED
      BY <3>1 DEF Inv, StartOK
  <2>2. Applying = {} /\ list = {} /\ ~freed
    BY <1>4, <2>1 DEF BootFails, At, Inv, PhaseOK, Applying
  <2>3. /\ Shown = {} /\ Shown' = {} /\ Unsettled = {} /\ Unsettled' = {}
        /\ Unread' = Unread /\ shouldRun' = FALSE /\ short' = short
    BY <1>4, <2>2 DEF BootFails, Shown, Unsettled, Unread, Taken, workerVars, linkVars
  <2> QED
    BY <2>3 DEF Promise!Next, Promise!Stop
<1>5. ASSUME Spawn
      PROVE  [Promise!Next]_FollowerVars
  <2>1. /\ started \in 0..WorkerThreads /\ started' = started + 1
        /\ started' \in Worker /\ wpc[started'] = "none"
    BY <1>5, WorkersAssumption DEF Spawn, Inv, TypeOK, StartOK, Worker
  <2>2. \A w \in Worker : wpc'[w] = wpc[w] \/ (wpc[w] = "none" /\ wpc'[w] = "lock")
    BY <1>5, <2>1 DEF Spawn, Inv, TypeOK, WorkerLabels
  <2>3. Taken' = Taken /\ Applying' = Applying
    BY <2>2 DEF Taken, Applying
  <2>4. /\ Unread' = Unread /\ Shown' = Shown /\ Unsettled' = Unsettled
        /\ shouldRun' = shouldRun /\ short' = short
    BY <1>5, <2>3 DEF Spawn, Unread, Shown, Unsettled, ToAdd, ToRemove, listVars, linkVars
  <2> QED
    BY <2>4 DEF FollowerVars
<1>6. CASE BeginExit
  BY <1>6, NothingMoves DEF BeginExit, listVars, linkVars
<1>7. ASSUME Free
      PROVE  [Promise!Next]_FollowerVars
  <2>1. /\ Unread' = Unread /\ Shown' = {} /\ Unsettled' = {}
        /\ shouldRun' = shouldRun /\ ~shouldRun /\ short' = short
    BY <1>7 DEF Free, At, Inv, PhaseOK, Unread, Shown, Unsettled, Taken, workerVars,
                linkVars
  <2> QED
    BY <2>1 DEF Promise!Next, Promise!Forget
<1>8. CASE Join
  BY <1>8, NothingMoves DEF Join, listVars, linkVars
<1> QED
  BY <1>1, <1>2, <1>3, <1>4, <1>5, <1>6, <1>7, <1>8
     DEF MainStep, Boot, BootCrashes, AskForClients, CheckRun, EnterFgets, LogOff,
         BrokenPipe, Race, JoinGarbage, Joined, Exit

LEMMA WorkerFollows ==
  ASSUME Inv, Inv', NEW w \in Worker, WorkerStep(w)
  PROVE  [Promise!Next]_FollowerVars
<1> DEFINE Goal == [Promise!Next]_FollowerVars
<1>0. /\ wpc \in [Worker -> WorkerLabels] /\ inbox \in Seq(Message)
      /\ hand \in [Worker -> Message \cup {NoMsg}] /\ pos \in [Worker -> Nat]
      /\ (wpc[w] \in Holding => hand[w] \in Message)
      /\ (freed => ~shouldRun)
      /\ (wpc[w] # "apply" \/ hand[w].type # "CLIENT_LIST" => pos[w] = 0)
  BY DEF Inv, TypeOK, HandOK, PhaseOK, ProgressOK
<1>a. ASSUME NEW label, NEW next, Moves(w, label, next)
      PROVE  /\ wpc[w] = label /\ wpc'[w] = next
             /\ \A v \in Worker \ {w} : wpc'[v] = wpc[v]
             /\ freed' = freed /\ shouldRun' = shouldRun /\ short' = short
  BY <1>a, <1>0 DEF Moves, On, mainVars
<1>b. /\ {"read", "got", "apply", "clear", "unlock"} \subseteq Inside
      /\ {"got", "apply", "clear"} \subseteq Holding
  BY DEF Inside, Holding
<1>1. ASSUME NEW label \in {"lock", "unlock"}, NEW next \in {"read", "done"},
             Moves(w, label, next), UNCHANGED <<list, hand, pos, inbox>>
      PROVE  Goal
  <2>1. Taken' = Taken /\ Applying' = Applying
    BY <1>1, <1>a DEF Taken, Applying
  <2>2. Unread' = Unread
    BY <1>1, <1>a, <2>1 DEF Unread
  <2>3. PICK v : v = CHOOSE u \in Applying : TRUE
    OBVIOUS
  <2>4. ToAdd(v)' = ToAdd(v) /\ ToRemove(v)' = ToRemove(v)
    BY <1>1 DEF ToAdd, ToRemove
  <2>5. /\ Shown = IF freed THEN {} ELSE IF Applying = {} THEN list
                   ELSE (list \cup ToAdd(v)) \ ToRemove(v)
        /\ Unsettled = IF freed \/ Applying = {} THEN {} ELSE ToAdd(v) \ list
    BY <2>3 DEF Shown, Unsettled
  <2>6. v = (CHOOSE u \in Applying' : TRUE)
    BY <2>1, <2>3
  <2>7. /\ Shown' = IF freed' THEN {} ELSE IF Applying' = {} THEN list'
                    ELSE (list' \cup ToAdd(v)') \ ToRemove(v)'
        /\ Unsettled' = IF freed' \/ Applying' = {} THEN {} ELSE ToAdd(v)' \ list'
    BY <2>6 DEF Shown, Unsettled
  <2>8. Shown' = Shown /\ Unsettled' = Unsettled
    BY <1>1, <1>a, <2>1, <2>4, <2>5, <2>7
  <2> QED
    BY <1>1, <1>a, <2>2, <2>8 DEF FollowerVars
<1>2. ASSUME Receive(w)
      PROVE  Goal
  <2> DEFINE next == IF shouldRun THEN "got" ELSE "unlock"
  <2>1. /\ Moves(w, "read", next) /\ inbox # <<>> /\ inbox' = Tail(inbox) /\ list' = list
        /\ hand'[w] = IF shouldRun THEN Head(inbox) ELSE NoMsg
    BY <1>2, <1>0 DEF Receive
  <2>2. /\ wpc[w] = "read" /\ wpc'[w] = next /\ freed' = freed /\ shouldRun' = shouldRun
        /\ short' = short
    BY <2>1, <1>a
  <2>3. wpc[w] \in Inside /\ wpc'[w] \in Inside
    BY <2>2, <1>b
  <2>4. /\ Unread = inbox
        /\ Unread' = IF shouldRun THEN <<Head(inbox)>> \o Tail(inbox) ELSE Tail(inbox)
        /\ Shown' = Shown /\ Unsettled = {} /\ Unsettled' = {}
    BY <2>1, <2>2, <2>3, ByWorker
  <2>5. <<Head(inbox)>> \o Tail(inbox) = inbox
    <3> DEFINE u == <<Head(inbox)>> \o Tail(inbox)
    <3>1. /\ Head(inbox) \in Message /\ Tail(inbox) \in Seq(Message)
          /\ Len(Tail(inbox)) = Len(inbox) - 1 /\ Len(inbox) \in Nat
          /\ \A i \in 1..Len(Tail(inbox)) : Tail(inbox)[i] = inbox[i + 1]
          /\ Head(inbox) = inbox[1]
      BY <1>0, <2>1, HeadTailProperties, LenProperties
    <3>2. /\ <<Head(inbox)>> \in Seq(Message) /\ Len(<<Head(inbox)>>) = 1
          /\ <<Head(inbox)>>[1] = Head(inbox)
      BY <3>1
    <3>3. /\ u \in Seq(Message) /\ Len(u) = 1 + Len(Tail(inbox))
          /\ \A i \in 1..(1 + Len(Tail(inbox))) :
                u[i] = IF i <= 1 THEN Head(inbox) ELSE Tail(inbox)[i - 1]
      BY <3>1, <3>2, ConcatProperties
    <3>4. \A i \in 1..Len(inbox) : u[i] = inbox[i]
      <4> HIDE DEF u
      <4> TAKE i \in 1..Len(inbox)
      <4>1. CASE i = 1
        BY <4>1, <3>1, <3>3
      <4>2. CASE i # 1
        <5>1. i - 1 \in 1..Len(Tail(inbox)) /\ ~(i <= 1) /\ (i - 1) + 1 = i
          BY <4>2, <3>1
        <5> QED
          BY <5>1, <3>1, <3>3
      <4> QED
        BY <4>1, <4>2
    <3> QED
      BY <3>1, <3>3, <3>4, <1>0, SeqEqual
  <2>6. CASE shouldRun
    BY <2>2, <2>4, <2>5, <2>6 DEF FollowerVars
  <2>7. CASE ~shouldRun
    BY <2>1, <2>2, <2>4, <2>7 DEF Promise!Next, Promise!Take
  <2> QED
    BY <2>6, <2>7
<1>3. ASSUME NEW what, Fail(what)
      PROVE  Goal
  BY <1>3, NothingMoves DEF Fail, mainVars, listVars, linkVars
<1>4. ASSUME Enter(w)
      PROVE  Goal
  <2> DEFINE next == IF shouldRun THEN "apply" ELSE "clear"
  <2>1. Moves(w, "got", next) /\ UNCHANGED <<list, hand, pos, inbox>>
    BY <1>4 DEF Enter
  <2>2. /\ wpc[w] = "got" /\ wpc'[w] = next /\ freed' = freed /\ shouldRun' = shouldRun
        /\ short' = short
    BY <2>1, <1>a
  <2>3. /\ wpc[w] \in Inside /\ wpc'[w] \in Inside /\ hand[w] \in Message
        /\ pos[w] = 0
    BY <2>2, <1>0, <1>b
  <2>4. Unread = <<hand[w]>> \o inbox /\ Unread' = inbox
    BY <2>1, <2>2, <2>3, ByWorker
  <2>5. Unread # <<>> /\ Head(Unread) = hand[w] /\ Tail(Unread) = Unread'
    BY <2>3, <2>4, <1>0, OneBefore
  <2>6. ToAdd(w)' = ToAdd(w) /\ ToRemove(w)' = ToRemove(w)
    BY <2>1 DEF ToAdd, ToRemove
  <2>7. CASE shouldRun
    <3>1. /\ Shown = list /\ Shown' = (list \cup ToAdd(w)) \ ToRemove(w)
          /\ Unsettled' = ToAdd(w) \ list
      BY <2>1, <2>2, <2>3, <2>6, <2>7, <1>0, ByWorker
    <3>2. /\ Shown' = Promise!Effect(Self, Shown, Head(Unread))
          /\ Unsettled' \in SUBSET (Shown' \ Shown)
      <4>1. /\ (list \cup ToAdd(w)) \ ToRemove(w) = Promise!Effect(Self, list, hand[w])
            /\ ToAdd(w) = {} \/ ToRemove(w) = {}
        BY <2>3, ByParts
      <4> QED
        BY <2>5, <3>1, <4>1
    <3> QED
      BY <2>2, <2>5, <2>7, <3>2 DEF Promise!Next, Promise!Take
  <2>8. CASE ~shouldRun
    <3>1. Shown' = Shown /\ Unsettled' = {}
      BY <2>1, <2>2, <2>3, <2>8, ByWorker
    <3> QED
      BY <2>2, <2>5, <2>8, <3>1 DEF Promise!Next, Promise!Take
  <2> QED
    BY <2>7, <2>8
<1>5. ASSUME ApplyOne(w)
      PROVE  Goal
  <2>1. /\ Moves(w, "apply", "clear") /\ UNCHANGED <<hand, inbox>> /\ ~freed
        /\ hand[w].type # "CLIENT_LIST"
        /\ \/ list' = Effect(Self, list, hand[w])
           \/ short /\ hand[w].type = "USER_ON" /\ list' = list
    BY <1>5 DEF ApplyOne
  <2>2. /\ wpc[w] = "apply" /\ wpc'[w] = "clear" /\ freed' = freed /\ shouldRun' = shouldRun
        /\ short' = short
    BY <2>1, <1>a
  <2>3. /\ wpc[w] \in Inside /\ wpc'[w] \in Inside /\ hand[w] \in Message
        /\ pos[w] = 0
    BY <2>1, <2>2, <1>0, <1>b
  <2>4. /\ Unread' = Unread
        /\ Shown = (list \cup ToAdd(w)) \ ToRemove(w) /\ Shown' = list'
        /\ Unsettled = ToAdd(w) \ list /\ Unsettled' = {}
    BY <2>1, <2>2, <2>3, ByWorker
  <2>5. CASE list' = Effect(Self, list, hand[w])
    <3>1. Effect(Self, list, hand[w]) = Promise!Effect(Self, list, hand[w])
      BY DEF Effect, Promise!Effect, Named, Promise!Named
    <3>2. Shown' = Shown
      BY <2>3, <2>4, <2>5, <3>1, ByParts
    <3> QED
      BY <2>2, <2>4, <3>2, Stores
  <2>6. CASE short /\ hand[w].type = "USER_ON" /\ list' = list
    <3>1. ToRemove(w) = {}
      BY <2>6 DEF ToRemove
    <3>2. Shown' \subseteq Shown /\ Shown \ Shown' = Unsettled
      BY <2>4, <2>6, <3>1
    <3> QED
      BY <2>2, <2>4, <2>6, <3>2, Stores
  <2> QED
    BY <2>1, <2>5, <2>6
<1>6. ASSUME ApplyNext(w)
      PROVE  Goal
  <2> DEFINE i == pos[w] + 1
             e == hand[w].tuples[i]
  <2>1. /\ Moves(w, "apply", "apply") /\ UNCHANGED <<hand, inbox>> /\ ~freed
        /\ hand[w].type = "CLIENT_LIST" /\ pos[w] < hand[w].count
        /\ pos[w] < Len(hand[w].tuples) /\ pos'[w] = i
        /\ list' = list \cup ({e} \ {Self}) \/ (short /\ list' = list)
    BY <1>6, <1>0 DEF ApplyNext
  <2>2. /\ wpc[w] = "apply" /\ wpc'[w] = "apply" /\ freed' = freed /\ shouldRun' = shouldRun
        /\ short' = short
    BY <2>1, <1>a
  <2>3. wpc[w] \in Inside /\ wpc'[w] \in Inside /\ hand[w] \in Message
    BY <2>2, <1>0, <1>b
  <2>4. ToRemove(w) = {} /\ ToRemove(w)' = {}
    BY <2>1 DEF ToRemove
  <2>5. ToAdd(w) = ToAdd(w)' \cup ({e} \ {Self})
    <3>1. /\ hand[w].tuples \in Seq(Tuple) /\ hand[w].count \in Nat /\ pos[w] \in Nat
          /\ DOMAIN hand[w].tuples = 1..Len(hand[w].tuples)
          /\ Len(hand[w].tuples) \in Nat
      BY <2>3, <1>0, MessageTypes, LenProperties
    <3> DEFINE P(k) == {j \in DOMAIN hand[w].tuples : k < j /\ j <= hand[w].count}
    <3>2. P(pos[w]) = P(i) \cup {i}
      BY <2>1, <3>1
    <3>3. /\ ToAdd(w) = {hand[w].tuples[j] : j \in P(pos[w])} \ {Self}
          /\ ToAdd(w)' = {hand[w].tuples[j] : j \in P(i)} \ {Self}
      BY <2>1 DEF ToAdd
    <3> HIDE DEF P
    <3> QED
      BY <3>2, <3>3
  <2>6. /\ Unread' = Unread
        /\ Shown = list \cup ToAdd(w) /\ Shown' = list' \cup ToAdd(w)'
        /\ Unsettled = ToAdd(w) \ list /\ Unsettled' = ToAdd(w)' \ list'
    BY <2>1, <2>2, <2>3, <2>4, ByWorker
  <2> HIDE DEF e, i
  <2>7. CASE list' = list \cup ({e} \ {Self})
    <3>1. Shown' = Shown /\ Unsettled' \subseteq Unsettled
      BY <2>5, <2>6, <2>7
    <3> QED
      BY <2>2, <2>6, <3>1, Stores
  <2>8. CASE short /\ list' = list
    <3>1. /\ Shown' \subseteq Shown /\ Shown \ Shown' \subseteq Unsettled
          /\ Unsettled' \subseteq Unsettled \ (Shown \ Shown')
      BY <2>5, <2>6, <2>8
    <3> QED
      BY <2>2, <2>6, <2>8, <3>1, Stores
  <2> QED
    BY <2>1, <2>7, <2>8
<1>7. ASSUME ApplyLast(w)
      PROVE  Goal
  \* Every tuple announced has been dealt with: there is nothing left to add.
  <2>1. /\ Moves(w, "apply", "clear") /\ UNCHANGED <<list, hand, inbox>>
        /\ hand[w].type = "CLIENT_LIST" /\ pos[w] >= hand[w].count
    BY <1>7 DEF ApplyLast
  <2>2. /\ wpc[w] = "apply" /\ wpc'[w] = "clear" /\ freed' = freed /\ shouldRun' = shouldRun
        /\ short' = short
    BY <2>1, <1>a
  <2>3. wpc[w] \in Inside /\ wpc'[w] \in Inside /\ hand[w] \in Message
    BY <2>2, <1>0, <1>b
  <2>4. ToAdd(w) = {} /\ ToRemove(w) = {}
    <3>1. /\ DOMAIN hand[w].tuples = 1..Len(hand[w].tuples)
          /\ Len(hand[w].tuples) \in Nat
          /\ hand[w].count \in Nat /\ pos[w] \in Nat
      BY <2>3, <1>0, MessageTypes, LenProperties
    <3>2. {j \in DOMAIN hand[w].tuples : pos[w] < j /\ j <= hand[w].count} = {}
      BY <2>1, <3>1
    <3> QED
      BY <2>1, <3>2 DEF ToAdd, ToRemove
  <2>5. Unread' = Unread /\ Shown' = Shown /\ Unsettled' = Unsettled
    BY <2>1, <2>2, <2>3, <2>4, ByWorker
  <2> QED
    BY <2>2, <2>5 DEF FollowerVars
<1>8. ASSUME Clear(w)
      PROVE  Goal
  <2>1. Moves(w, "clear", "read") /\ UNCHANGED <<list, inbox>>
    BY <1>8 DEF Clear
  <2>2. /\ wpc[w] = "clear" /\ wpc'[w] = "read" /\ freed' = freed /\ shouldRun' = shouldRun
        /\ short' = short
    BY <2>1, <1>a
  <2>3. wpc[w] \in Inside /\ wpc'[w] \in Inside
    BY <2>2, <1>b
  <2>4. Unread' = Unread /\ Shown' = Shown /\ Unsettled' = Unsettled
    BY <2>1, <2>2, <2>3, ByWorker
  <2> QED
    BY <2>2, <2>4 DEF FollowerVars
<1>9. ASSUME ReceiveEnd(w)
      PROVE  Goal
  <2>1. Moves(w, "read", "unlock") /\ UNCHANGED <<list, inbox>>
    BY <1>9 DEF ReceiveEnd
  <2>2. /\ wpc[w] = "read" /\ wpc'[w] = "unlock" /\ freed' = freed /\ shouldRun' = shouldRun
        /\ short' = short
    BY <2>1, <1>a
  <2>3. wpc[w] \in Inside /\ wpc'[w] \in Inside
    BY <2>2, <1>b
  <2>4. Unread' = Unread /\ Shown' = Shown /\ Unsettled' = Unsettled
    BY <2>1, <2>2, <2>3, ByWorker
  <2> QED
    BY <2>2, <2>4 DEF FollowerVars
<1>10. CASE Lock(w)
  BY <1>1, <1>10 DEF Lock
<1>11. CASE Unlock(w)
  BY <1>1, <1>11 DEF Unlock
<1>12. CASE ParseNothing(w) \/ OutOfMemory(w) \/ ApplyPastTheEnd(w) \/ ApplyFreed(w)
  BY <1>3, <1>12 DEF ParseNothing, OutOfMemory, ApplyPastTheEnd, ApplyFreed
<1> QED
  BY <1>2, <1>4, <1>5, <1>6, <1>7, <1>8, <1>9, <1>10, <1>11, <1>12
     DEF WorkerStep

\* The client implements the follower: for every number of workers and all
\* messages, what main and the workers do to the list is what one loop would do
\* that applies each message once, as a whole and in order, until it stops; where
\* memory has run short, without some of the tuples of a message.
THEOREM ClientFollows == Spec => FollowsServer
<1>1. Init => Promise!Init
  <2> SUFFICES ASSUME Init
               PROVE  Promise!Init
    OBVIOUS
  <2>1. Taken = {} /\ Applying = {}
    BY DEF Init, Taken, Applying
  <2> QED
    BY <2>1 DEF Init, Promise!Init, Unread, Shown, Unsettled
<1>2. Inv /\ Inv' /\ [Next]_vars => [Promise!Next]_FollowerVars
  <2> SUFFICES ASSUME Inv, Inv', [Next]_vars
               PROVE  [Promise!Next]_FollowerVars
    OBVIOUS
  <2>1. CASE UNCHANGED vars
    BY <2>1, NothingMoves DEF vars, mainVars, listVars, workerVars, linkVars
  <2>2. CASE Next
    BY <2>2, OutsideFollows, MainFollows, WorkerFollows DEF Next
  <2> QED
    BY <2>1, <2>2
<1> QED
  BY Invariance, <1>1, <1>2, PTL
     DEF Spec, FollowsServer, Promise!Spec, Promise!vars, FollowerVars
=============================================================================
