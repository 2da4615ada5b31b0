------------------------------- MODULE Client -------------------------------
(***************************************************************************)
(* The client: main with its menu, its signal handler and exitProgram, and *)
(* the worker threads that take the messages of the server and keep the    *)
(* list of the other clients.  The list is the set of the tuples it holds: *)
(* TupleList shows that calls one at a time make no more and no less of    *)
(* the linked list, and dataLock makes them one at a time as far as the    *)
(* workers go.  The server is the environment: it sends any messages it    *)
(* can form, and closes the connection when it likes.                      *)
(*                                                                         *)
(* A step whose outcome the C program leaves undefined, or which kills it, *)
(* sets `fault` and nothing moves after it.                                *)
(***************************************************************************)
EXTENDS Messages

CONSTANTS Tuple,            \* the <IP, port> pairs
          Self,             \* the one of this client
          Message,          \* bound: the messages the server may send
          MaxMsg,           \* bound: how many it sends
          WorkerThreads,    \* -w on the command line
          Line,             \* bound: the lines the user may type
          EnvFaults         \* what the surroundings may do, see below

ASSUME WorkersAssumption == WorkerThreads \in Nat
ASSUME LimitsAssumption == MaxMsg \in Nat
ASSUME SelfAssumption == Self \in Tuple
ASSUME MessageAssumption ==
    Message \subseteq [type : {"USER_ON", "USER_OFF", "CLIENT_LIST"},
                       count : Nat, tuples : Seq(Tuple)]

\* "sigint": CTRL + C;  "eof": the end of the standard input;  "thread":
\* pthread_create fails;  "reset": the connection is reset, what was not read
\* is lost;  "boot": a call before the first message fails;  "memory": malloc
\* and strdup may fail from some time on.
ASSUME FaultsAssumption ==
    EnvFaults \subseteq {"sigint", "eof", "thread", "reset", "boot", "memory"}

Worker == 1..WorkerThreads
None == 0
NoMsg == [type |-> "none", count |-> 0, tuples |-> <<>>]

\* What the menu tells apart in a line: "3" alone, and anything else.
Key == {"3", "x"}
LogOffLine == <<"3">>

ASSUME LineAssumption == Line \subseteq Seq(Key)

VARIABLES
    mpc,            \* where main is
    shouldRun,
    line,           \* receiveBuffer of main: the line typed, without its end
    started,        \* how many worker threads main has tried to create
    joined,         \* the index of the join loop
    freed,          \* clientIpAddress and clientsList have been freed
    list,           \* the tuples of clientsList
    lock, dataLock, \* the worker that holds the mutex
    wpc,            \* where each worker is
    hand,           \* the message in its receiveBuffer
    pos,            \* how many tuples of CLIENT_LIST it has dealt with
    inbox,          \* messages of the server that no worker has read
    sentIn,         \* how many the server has sent
    link,           \* "up", or "closed" by the server
    short,          \* the memory has run short: malloc and strdup may fail
    out,            \* the messages sent to the server
    fault           \* "none", or what went wrong

mainVars == <<mpc, shouldRun, line, started, joined, out>>
listVars == <<list, freed>>
workerVars == <<lock, dataLock, wpc, hand, pos>>
linkVars == <<inbox, sentIn, link, short>>
vars == <<mainVars, listVars, workerVars, linkVars, fault>>

Running == fault = "none" /\ mpc # "exited"

Fail(what) == /\ Running
              /\ fault' = what
              /\ UNCHANGED <<mainVars, listVars, workerVars, linkVars>>

-----------------------------------------------------------------------------

Init ==
    /\ mpc = "boot" /\ shouldRun = TRUE /\ line = <<>> /\ out = <<>>
    /\ started = 0 /\ joined = 0
    /\ list = {} /\ freed = FALSE
    /\ lock = None /\ dataLock = None
    /\ wpc = [w \in Worker |-> "none"]
    /\ hand = [w \in Worker |-> NoMsg]
    /\ pos = [w \in Worker |-> 0]
    /\ inbox = <<>> /\ sentIn = 0 /\ link = "up" /\ short = FALSE
    /\ fault = "none"

-----------------------------------------------------------------------------
(* The server and the surroundings.                                        *)

Deliver(m) == /\ Running /\ mpc # "boot" /\ link = "up" /\ sentIn < MaxMsg
              /\ inbox' = Append(inbox, m)
              /\ sentIn' = sentIn + 1
              /\ UNCHANGED <<mainVars, listVars, workerVars, link, short, fault>>

\* The server closes the connection, or dies: the workers read what it sent and
\* then the end.  A reset makes read fail at once or after some of it.
CloseLink == /\ Running /\ mpc # "boot" /\ link = "up"
             /\ link' = "closed"
             /\ \E n \in IF "reset" \in EnvFaults THEN 0..Len(inbox) ELSE {Len(inbox)} :
                   inbox' = SubSeq(inbox, 1, n)
             /\ UNCHANGED <<mainVars, listVars, workerVars, sentIn, short, fault>>

\* From here on malloc and strdup may fail.  It matters while a worker has a
\* message, as nobody else calls them once the program runs.
RunShort == /\ Running /\ "memory" \in EnvFaults
            /\ \E w \in Worker : wpc[w] \in {"got", "apply"}
            /\ ~short /\ short' = TRUE
            /\ UNCHANGED <<mainVars, listVars, workerVars, inbox, sentIn, link, fault>>

\* What fgets leaves behind when it reads nothing: the line typed before, of
\* which main takes off one more character as if it were its end.
Chopped == SubSeq(line, 1, Len(line) - 1)

\* Where main goes with a line: 3 is LOG_OFF, 1 and 2 are not implemented.
Chosen(text) == IF text = LogOffLine THEN "exit" ELSE "check"

\* CTRL + C clears shouldRun.  The kernel delivers it to main; fgets returns
\* without a line if main sits in it, and a second CTRL + C does only that.
Sigint == /\ Running /\ "sigint" \in EnvFaults
          /\ shouldRun \/ mpc = "fgets"
          /\ shouldRun' = FALSE
          /\ IF mpc = "fgets" /\ line # <<>>
             THEN line' = Chopped /\ mpc' = Chosen(Chopped)
             ELSE line' = line /\ mpc' = IF mpc = "fgets" THEN "check" ELSE mpc
          /\ UNCHANGED <<started, joined, out, listVars, workerVars, linkVars, fault>>

-----------------------------------------------------------------------------
(* main.                                                                   *)

At(label) == Running /\ mpc = label

\* A step of main that moves on and does nothing else.
Goes(label, next) == /\ At(label)
                     /\ mpc' = next
                     /\ UNCHANGED <<shouldRun, line, started, joined, out, listVars,
                                    workerVars, linkVars, fault>>

\* sendData, which may kill the program when the server is gone.
Sends(label, message, next) ==
    /\ At(label)
    /\ mpc' = next
    /\ out' = Append(out, message)
    /\ UNCHANGED <<shouldRun, line, started, joined, listVars, workerVars, linkVars, fault>>

\* Socket, connection, list, address: then LOG_ON.
Boot == Sends("boot", "LOG_ON", "spawn")

\* One of them fails: exitProgram, with nothing to say and nobody to wait for.
BootFails == /\ At("boot") /\ "boot" \in EnvFaults
             /\ shouldRun' = FALSE
             /\ mpc' = "close"
             /\ freed' = TRUE
             /\ UNCHANGED <<line, started, joined, out, list, workerVars, linkVars, fault>>

\* getIpAddres returns NULL, and strdup reads it before main looks.  Or strdup
\* finds no memory, and exitProgram is to join threads that nobody created.
BootCrashes == /\ mpc = "boot" /\ "boot" \in EnvFaults
               /\ \E what \in {"null", "join"} : Fail(what)

\* Slip: the loop makes one round too many.
SpawnOneTooMany == /\ At("spawn") /\ started <= WorkerThreads
                   /\ started' = started + 1
                   /\ wpc' = [wpc EXCEPT ![started'] = "lock"]
                   /\ UNCHANGED <<mpc, shouldRun, line, joined, out, listVars, lock,
                                  dataLock, hand, pos, linkVars, fault>>

\* pthread_create; a failure gives a positive number, and main looks for a
\* negative one.
Spawn == /\ At("spawn") /\ started < WorkerThreads
         /\ started' = started + 1
         /\ \/ wpc' = [wpc EXCEPT ![started'] = "lock"]
            \/ "thread" \in EnvFaults /\ UNCHANGED wpc
         /\ UNCHANGED <<mpc, shouldRun, line, joined, out, listVars, lock, dataLock,
                        hand, pos, linkVars, fault>>

AskForClients == started = WorkerThreads /\ Sends("spawn", "GET_CLIENTS", "check")

\* The loop of the menu looks at shouldRun, and then enters fgets; a signal in
\* between goes unnoticed until a line is typed.
CheckRun == Goes("check", IF shouldRun THEN "enter" ELSE "exit")
EnterFgets == Goes("enter", "fgets")

Typed(text) == /\ At("fgets")
               /\ line' = text
               /\ mpc' = Chosen(text)
               /\ UNCHANGED <<shouldRun, started, joined, out, listVars, workerVars,
                              linkVars, fault>>

TypeLine == \E text \in Line : Typed(text)

\* The input ends, in the middle of a line or with nothing: main takes off one
\* character all the same.
EndOfInput == /\ "eof" \in EnvFaults
              /\ \E text \in Line \cup {line} :
                    text # <<>> /\ Typed(SubSeq(text, 1, Len(text) - 1))

\* With no character to take off, main writes before the buffer: nothing may
\* come of it, or the program ends.
WriteBeforeBuffer == /\ mpc = "fgets" /\ line = <<>>
                     /\ "eof" \in EnvFaults \/ "sigint" \in EnvFaults
                     /\ Fail("oob")

\* exitProgram: shouldRun, LOG_OFF, then the address and the list are freed.
BeginExit == /\ At("exit")
             /\ shouldRun' = FALSE
             /\ mpc' = "logoff"
             /\ UNCHANGED <<line, started, joined, out, listVars, workerVars,
                            linkVars, fault>>

LogOff == Sends("logoff", "LOG_OFF", "free")

Free == /\ At("free")
        /\ list' = {} /\ freed' = TRUE
        /\ mpc' = "join"
        /\ UNCHANGED <<shouldRun, line, started, joined, out, workerVars, linkVars, fault>>

\* Nobody handles SIGPIPE.
BrokenPipe == /\ mpc \in {"spawn", "logoff"} /\ link = "closed"
              /\ Fail("sigpipe")

\* The list is freed without dataLock while a worker is inside its functions.
Race == /\ mpc = "free" /\ \E w \in Worker : wpc[w] = "apply"
        /\ Fail("race")

Join == /\ At("join") /\ joined < WorkerThreads
        /\ wpc[joined + 1] = "done"
        /\ joined' = joined + 1
        /\ UNCHANGED <<mpc, shouldRun, line, started, out, listVars, workerVars,
                       linkVars, fault>>

\* pthread_join of an element pthread_create did not fill.
JoinGarbage == /\ mpc = "join" /\ joined < WorkerThreads
               /\ wpc[joined + 1] = "none"
               /\ Fail("join")

Joined == joined = WorkerThreads /\ Goes("join", "close")

Exit == Goes("close", "exited")

\* What main does of itself, without a user.
MainStep == \/ Boot \/ BootFails \/ BootCrashes \/ Spawn \/ AskForClients
            \/ CheckRun \/ EnterFgets \/ BeginExit \/ LogOff \/ Free
            \/ BrokenPipe \/ Race \/ Join \/ JoinGarbage \/ Joined \/ Exit

-----------------------------------------------------------------------------
(* connectionHandler.                                                      *)

On(w, label) == Running /\ wpc[w] = label

Moves(w, label, next) == /\ On(w, label)
                         /\ wpc' = [wpc EXCEPT ![w] = next]
                         /\ UNCHANGED <<mainVars, freed, sentIn, link, short, fault>>

\* Slip: the mutex is not waited for.
LockUnlocked(w) == /\ Moves(w, "lock", "read")
                   /\ lock' = w
                   /\ UNCHANGED <<list, dataLock, hand, pos, inbox>>

\* One worker at a time: it keeps the lock until it returns.
Lock(w) == /\ Moves(w, "lock", "read")
           /\ lock = None /\ lock' = w
           /\ UNCHANGED <<list, dataLock, hand, pos, inbox>>

\* receiveData returns a message; shouldRun is looked at only after it.
Receive(w) == /\ inbox # <<>>
              /\ Moves(w, "read", IF shouldRun THEN "got" ELSE "unlock")
              /\ inbox' = Tail(inbox)
              /\ hand' = [hand EXCEPT ![w] = IF shouldRun THEN Head(inbox) ELSE NoMsg]
              /\ UNCHANGED <<list, lock, dataLock, pos>>

\* The end of the connection.
ReceiveEnd(w) == /\ link = "closed" /\ inbox = <<>>
                 /\ Moves(w, "read", "unlock")
                 /\ UNCHANGED <<list, lock, dataLock, hand, pos, inbox>>

\* The first tuple is parsed whatever the message is, and atoi and strtoul do
\* not take NULL.
ParseNothing(w) == wpc[w] = "got" /\ hand[w].tuples = <<>> /\ Fail("null")

\* extractStringBetweenPatterns, createTupleNode and its strdup hand on the NULL
\* they get; or a search comes to a node whose address an earlier strdup could
\* not copy (TupleList).
OutOfMemory(w) == wpc[w] \in {"got", "apply"} /\ short /\ Fail("null")

\* Under dataLock, and with another look at shouldRun, the message is applied.
Enter(w) == /\ Moves(w, "got", IF shouldRun THEN "apply" ELSE "clear")
            /\ hand[w].tuples # <<>>
            /\ dataLock = None /\ dataLock' = w
            /\ UNCHANGED <<list, lock, hand, pos, inbox>>

\* USER_ON and USER_OFF.  Nobody looks whether addToTupleList found memory.
ApplyOne(w) == /\ Moves(w, "apply", "clear") /\ ~freed
               /\ hand[w].type # "CLIENT_LIST"
               /\ \/ list' = Effect(Self, list, hand[w])
                  \/ short /\ hand[w].type = "USER_ON" /\ UNCHANGED list
               /\ UNCHANGED <<lock, dataLock, hand, pos, inbox>>

\* CLIENT_LIST, a tuple a step; the client itself is passed over, and so is, for
\* want of memory, any other.
ApplyNext(w) == /\ Moves(w, "apply", "apply") /\ ~freed
                /\ hand[w].type = "CLIENT_LIST"
                /\ pos[w] < hand[w].count /\ pos[w] < Len(hand[w].tuples)
                /\ pos' = [pos EXCEPT ![w] = @ + 1]
                /\ \/ list' = list \cup ({hand[w].tuples[pos'[w]]} \ {Self})
                   \/ short /\ UNCHANGED list
                /\ UNCHANGED <<lock, dataLock, hand, inbox>>

\* The number announced is larger than the number of tuples: strchr gives NULL.
ApplyPastTheEnd(w) == /\ wpc[w] = "apply" /\ hand[w].type = "CLIENT_LIST"
                      /\ pos[w] < hand[w].count /\ pos[w] = Len(hand[w].tuples)
                      /\ Fail("null")

ApplyLast(w) == /\ Moves(w, "apply", "clear")
                /\ hand[w].type = "CLIENT_LIST" /\ pos[w] >= hand[w].count
                /\ pos' = [pos EXCEPT ![w] = 0]
                /\ UNCHANGED <<list, lock, dataLock, hand, inbox>>

\* The list, or the address the tuples are compared with, is gone.
ApplyFreed(w) == wpc[w] = "apply" /\ freed /\ Fail("freed")

\* Slip: dataLock is kept.
ClearKeepingDataLock(w) == /\ Moves(w, "clear", "read")
                           /\ hand' = [hand EXCEPT ![w] = NoMsg]
                           /\ UNCHANGED <<list, lock, dataLock, pos, inbox>>

Clear(w) == /\ Moves(w, "clear", "read")
            /\ dataLock' = None
            /\ hand' = [hand EXCEPT ![w] = NoMsg]
            /\ UNCHANGED <<list, lock, pos, inbox>>

\* Slip: the worker returns with the lock.
UnlockForgotten(w) == /\ Moves(w, "unlock", "done")
                      /\ UNCHANGED <<list, lock, dataLock, hand, pos, inbox>>

Unlock(w) == /\ Moves(w, "unlock", "done")
             /\ lock' = None
             /\ UNCHANGED <<list, dataLock, hand, pos, inbox>>

WorkerStep(w) ==
    \/ Lock(w) \/ Receive(w) \/ ReceiveEnd(w) \/ ParseNothing(w) \/ OutOfMemory(w)
    \/ Enter(w)
    \/ ApplyOne(w) \/ ApplyNext(w) \/ ApplyPastTheEnd(w) \/ ApplyLast(w)
    \/ ApplyFreed(w) \/ Clear(w) \/ Unlock(w)

-----------------------------------------------------------------------------

Next == \/ \E m \in Message : Deliver(m)
        \/ CloseLink \/ RunShort \/ Sigint
        \/ TypeLine \/ EndOfInput \/ WriteBeforeBuffer
        \/ MainStep
        \/ \E w \in Worker : WorkerStep(w)

Spec == Init /\ [][Next]_vars

\* Every thread that can take a step gets to take it; nothing is asked of the
\* server and of the user.
FairSpec == /\ Spec
            /\ WF_vars(MainStep)
            /\ \A w \in Worker : WF_vars(WorkerStep(w))

-----------------------------------------------------------------------------
(* What the client guarantees.                                             *)

WorkerLabels == {"none", "lock", "read", "got", "apply", "clear", "unlock", "done"}

\* Every variable holds a value of its kind.
TypeOK ==
    /\ mpc \in {"boot", "spawn", "check", "enter", "fgets", "exit", "logoff",
                "free", "join", "close", "exited"}
    /\ shouldRun \in BOOLEAN /\ freed \in BOOLEAN
    /\ line \in Seq(Key)
    /\ out \in Seq({"LOG_ON", "GET_CLIENTS", "LOG_OFF"})
    /\ started \in 0..WorkerThreads /\ joined \in 0..WorkerThreads
    /\ list \subseteq Tuple
    /\ lock \in Worker \cup {None} /\ dataLock \in Worker \cup {None}
    /\ wpc \in [Worker -> WorkerLabels]
    /\ hand \in [Worker -> Message \cup {NoMsg}]
    /\ pos \in [Worker -> Nat]
    /\ inbox \in Seq(Message) /\ sentIn \in Nat /\ link \in {"up", "closed"}
    /\ short \in BOOLEAN
    /\ fault \in {"none", "null", "oob", "sigpipe", "race", "join", "freed"}

Taken == {w \in Worker : wpc[w] = "got"}
Applying == {w \in Worker : wpc[w] = "apply"}

\* The messages not yet applied: one a worker may have taken, and the rest.
Unread == IF Taken = {} THEN inbox
          ELSE <<hand[CHOOSE w \in Taken : TRUE]>> \o inbox

\* What worker w has yet to add of the message it applies.
ToAdd(w) ==
    LET m == hand[w]
    IN  CASE m.type = "USER_ON" -> Named(m)
          [] m.type = "USER_OFF" -> {}
          [] m.type = "CLIENT_LIST" ->
                {m.tuples[i] : i \in {j \in DOMAIN m.tuples :
                                         pos[w] < j /\ j <= m.count}} \ {Self}

ToRemove(w) == IF hand[w].type = "USER_OFF" THEN Named(hand[w]) ELSE {}

\* The list, a message under way counted as applied, and what of it is not yet
\* in the list.
Shown == IF freed THEN {}
         ELSE IF Applying = {} THEN list
         ELSE LET w == CHOOSE w \in Applying : TRUE
              IN  (list \cup ToAdd(w)) \ ToRemove(w)

Unsettled == IF freed \/ Applying = {} THEN {}
             ELSE ToAdd(CHOOSE w \in Applying : TRUE) \ list

\* The workers between them, for all their locks and stops, do to the list what
\* one loop would: each message of the server is applied as a whole, once, in
\* the order of sending, and none after the program has begun to stop.  Only a
\* program short of memory may miss tuples, those of the message in hand.
Promise == INSTANCE Follower WITH
              stream <- Unread, view <- Shown, fresh <- Unsettled,
              running <- shouldRun

FollowsServer == Promise!Spec

\* exitProgram, once it has begun, comes to its end past the joins when the
\* server closes the connection, be it before LOG_OFF is sent, in answer to it,
\* or while main waits in pthread_join: no worker keeps lock, or a message, for
\* itself.
LogOffTerminates ==
    mpc \in {"exit", "logoff", "free", "join", "close"} /\ link = "closed"
       ~> mpc = "exited" \/ fault # "none"

\* The workers end when the server is gone, whatever the menu does.
WorkersEndWithServer ==
    link = "closed" ~> \/ \A w \in Worker : wpc[w] \in {"none", "done"}
                       \/ fault # "none"
=============================================================================
