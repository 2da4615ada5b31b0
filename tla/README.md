# dropbox-sync: specification and checks

dropbox-sync is a server to which clients announce themselves (LOG_ON), of which
they ask who else is there (GET_CLIENTS), and from which they take leave
(LOG_OFF).  The server tells the others (USER_ON, USER_OFF) and answers the
question (CLIENT_LIST).  The exchange of files itself is not implemented in the
program ("Not implemented function!", `dropbox_client/main.c:245`).

Paths below are relative to `src/`.

## 1. Inventory

| component | state | operations | what is hard | modules |
|---|---|---|---|---|
| tuple list (`tupleList.c`, one copy for the server and one for the client) | `headTupleNode`, `currentTupleNode`, `size`, heap nodes | add, remove, find, destroy | the append goes on from `currentTupleNode`; the removal moves it back by comparing values; no lock in the server | `Registry`, `TupleList` |
| server main (`dropbox_server/main.c`, `acceptConnectionRequest`) | `acceptedClient`, `serverThreads[]`, `threadCounter`, `shouldRun`, the descriptor table | select and accept, create a thread, CTRL + C, exit | one variable for the descriptor of every client; the counter is written by the threads; freeing before joining | `Server` |
| server handler (`connectionHandler`, `serverUtils.c`) | its descriptor, the request, a position in the list, a buffer | LOG_ON, GET_CLIENTS, LOG_OFF | the descriptor is looked up again after each message; walks over a list other threads change; descriptors closed and reused | `Server`, `DropboxSync` |
| framing (`receiveData`, `sendData`, both sides) | the bytes of a connection | 4 bytes of length, then the text | two reads and two writes for a message, no lock, short reads, end of file | `Framing` |
| wire format | none | hexadecimal address, port through `htons`, list of tuples | truncation, a tuple count that does not fit, identities that coincide, buffer length | `WireFormat` |
| client main (`dropbox_client/main.c`) | socket, `shouldRun`, the line typed, threads | connect, LOG_ON, GET_CLIENTS, menu, exit | `fgets` that fails; frees before joining; waits for the server to close | `Client` |
| client workers (`clientUtils.c`) | `lock`, `dataLock`, the client's list | USER_ON, USER_OFF, CLIENT_LIST | one worker holds `lock` while it reads; order of updates | `Follower`, `Client` |
| the whole | messages on their way, the clients' lists | all of the above | the announced number and the walk; USER_ON, USER_OFF and CLIENT_LIST from different handlers | `Messages`, `DropboxSync` |
| command line parsers | none | check the arguments | port range | - |

The components meet in five places.  The handlers share the list and `main`'s
variable `acceptedClient`, the latter through the pointer in `threadData`
(`dropbox_server/main.c:163`).  The handlers and `main` share `threadCounter`
and `shouldRun`.  All threads share the descriptor table: `accept` and `close`
change what a number means.  Client and server exchange messages over one TCP
connection for each client; other handlers write to it too.  CTRL + C sets
`shouldRun`.

What makes each part correct:

* list: it is an ordered collection of distinct tuples; the answers of its calls
  tell the truth; the current node is the last one; nothing leaks and nothing freed
  is used;
* server: messages reach the client they are meant for, a client that logged off
  is removed, the newest client is served, the program ends after CTRL + C and
  not before its threads;
* framing and wire format: a message is read as it was written, and says what it
  was to say;
* client: its list follows the messages of the server, and its program ends;
* the whole: the clients' lists are the server's.

Not all of this is so.  Where a comment or README.md promises something that the
code does not do, a run of section 3 shows it and a finding in `PROJECT.json`
quotes the line.  `PROJECT.json` also lists the hazards line by line with the
properties for each.

## 2. Modules

| module | what it is |
|---|---|
| `Registry` | abstract specification of a list of clients, an ordered collection of distinct entries: enrol at the end, strike, close |
| `TupleList` | `tupleList.c` pointer by pointer; implements `Registry` |
| `Server` | the accept loop, the handlers, the descriptor table, the shared list, shutdown; the clients as its environment |
| `Messages` | the messages to a client and what each makes of the client's list |
| `Follower` | abstract specification of a client: it applies the messages in order, each as a whole and at most once |
| `Client` | the client's main and workers; implements `Follower` |
| `DropboxSync` | `Server` composed with the messages under way and the clients' lists |
| `Framing` | `sendData` and `receiveData` byte by byte |
| `WireFormat` | the texts: writing, parsing, length |
| `TupleListProofs`, `ServerProofs`, `ServerWalkProofs`, `ServerFaultProofs`, `ClientProofs`, `FramingProofs`, `WireFormatProofs`, `DropboxSyncProofs` | theorems |
| `MCTupleList`, `MCServer`, `MCClient`, `MCDropboxSync`, `MCFraming`, `MCWireFormat` | instances for TLC |

A definition whose comment begins with "Slip:" is a plausible mistake in the code,
next to the definition it would stand in for; nothing in the specifications uses
it.  Each property was seen to fail with one of them (`PROJECT.json`, "mutants").

### TupleList and Registry

`chain` is the sequence of heap nodes reached from `headTupleNode`, `cur` is
`currentTupleNode`, `data` gives for each node of the heap the tuple it holds,
`Free` for a node not allocated and `Null` for one without an address.
Every branch of add, remove, find and destroy is an action with the guard of the
code.  `Guarded` tells the two copies apart: the client's removal checks for an
empty list (`dropbox_client/tupleList.c:163`), the server's does not.  A call is
one step here: this is the list as one thread uses it, and as the client's
threads do under `dataLock`.  `ImplementsRegistry` says that, with the tuples
of the chain for `entries`, each call is a step of `Registry`.

`malloc` may fail, and then the call returns 1 (`AddNoMemory`); so may `strdup`,
which the code never looks at.  If it fails in `createTupleNode` (line 20), its
`NULL` is copied and the program ends (`AddCrashes`).  If it fails at line 91 or
134, a node without an address is linked and the call returns 0: the tuple is not
in the list, and the next search that comes to that node gives `NULL` to `strcmp`
(`SearchCrashes`, `RemoveCrashes`).  `AnswersTrue` names this case as the one in
which the 0 does not mean what it says, and `NamelessIsLast` tells why it stays
that one case: every addition begins with a search, so nothing is ever linked
behind such a node.

### Server

| variable | code |
|---|---|
| `mpc` | where `main` is: at the look at `shouldRun` (serverUtils.c:47), before and in `select`, after `accept`, in `exitProgram`, joining |
| `accepted`, `naccd` | `acceptedClient`; how many connections have been accepted, which numbers them |
| `threadCounter`, `slots`, `joined` | the counter, `serverThreads[]`, the index of the join loop |
| `fdtab` | kernel: the connection behind each descriptor |
| `list`, `destroyed` | the tuple list as a sequence of nodes (connection whose LOG_ON created it, descriptor) |
| `conn[c]` | a connection: client, requests sent and not taken, the handler that has read a length but not the text |
| `h[k]` | a handler: label, descriptor, the connection its read holds, request, position in the walk, reply |
| `sent` | the message written in the last step |
| `fault` | what undefined or deadly thing has happened; nothing moves after it |

Each action is one stretch of a handler between two points where another thread
can interfere with consequences: the load and the store of `threadCounter++`,
the beginning of `read` (which fixes the connection), the arrival of the length,
the arrival of the text, the look at `acceptedClient`, add, each node of a walk,
`close`, remove.  When the server stops, `acceptConnectionRequest` returns 0 and
`main` stores it in `acceptedClient` (`MainStops`, `Sigint`): a handler that has
still to look there finds descriptor 0, and reads from the standard input
(`ReadStdin`), unless the cleared `shouldRun` sends it past the look (`Skip`).  An
error of `pthread_create` is a positive number and line 167 looks for a negative
one (`SpawnFails`).  The two handlers of one connection, the descriptor closed
between length and text, the NULL of `findTupleNode`, the freed node under a
walk, the freed `threadData`, SIGPIPE, the array's end and a join of garbage are
actions that set `fault`.

Abstractions: the calls to the list are atomic, but where two threads are inside
list functions at a time, and one of them writes, `Race` says that anything may
come of it; `sendData` is one step (`Framing` is about its two writes); texts are
the request, its client and its connection (`WireFormat` is about what they say);
a misread length is a fault.  A killed client may lose what it sent (reset) or
not.  Two clients that live at a time have different identities, unless `twins` is
in `EnvFaults`; nothing in the program sees to that (two hosts may both go by
127.0.1.1, and `SO_REUSEPORT` lets two clients of one host bind one port).

The promises are about `sent`, `list`, the handlers and the connections:

* `NeverBackwards` - no message reaches a connection older than the one it is
  meant for.  The shared `acceptedClient` sends messages to wrong clients; this
  says in which direction.  `Forward` is the invariant behind it.
* `NoWayBack` - once no handler attends a connection older than the newest, none
  ever will.  It explains the lost LOG_OFF and the idle sockets.
* `WalkMissesNobody` - a client that stays listed is in the answer although the
  list changes during the walk.
* `CountedAreAwaited` - when the server exits and the counter is right, every
  handler has returned.  The negation of the hypothesis, a lost increment or a
  thread that has not counted itself, is what `ExitWaitsForThreads` fails by.
* `NullOnlyWhenOvertaken` - the NULL dereferences of LOG_OFF need a second handler
  with the LOG_ON, or a second connection of the same client.
* `LoneHandlerIsSafe` - one handler alone, whichever requests its clients send and
  in whatever order, can bring about none of the faults.  It is no check of what two
  handlers do to each other; `OneAtATimeIsSafe` of `DropboxSync` is.
* `NewestServed` - the requests of the newest client are taken, provided that it got
  a handler: `server_live` has no failing `pthread_create`.

### Client, Follower and Messages

`Messages` has the three messages with the number they announce and the tuples
they hold, and `Effect`: what a client's list of the others becomes by one of
them (clientUtils.c:214-270).

| variable of `Client` | code |
|---|---|
| `mpc`, `line` | where `main` is; `receiveBuffer` of the menu, which `fgets` leaves alone when it reads nothing |
| `started`, `joined` | the loops over `pthread_create` and `pthread_join` |
| `freed`, `list` | what `exitProgram` frees; the tuples of `clientsList` |
| `lock`, `dataLock` | the mutexes, by the worker that holds them |
| `wpc`, `hand`, `pos` | each worker: label, the message it has received, how many tuples of a CLIENT_LIST it has applied |
| `inbox`, `link` | the server's messages not yet read, and whether it has closed the connection |
| `short` | whether the memory has run short; from then on `malloc` and `strdup` may fail |
| `out` | what the client has sent |

A worker locks, receives, parses the first tuple, takes `dataLock`, looks at
`shouldRun` once more, applies USER_ON and USER_OFF at a step and CLIENT_LIST a
tuple at a step, clears, and on its way out unlocks.  `main` is one action for
each place where a signal, a failing call or a worker makes a difference; CTRL +
C may come at each.  `fgets` that fails (end of input, a signal) leaves the line
typed before, of which `main` takes off one more character: this may turn a line
into `3`, and with an empty line it writes before the buffer (`fault`).  The list
that is freed without `dataLock` while a worker uses it is `Race` or `ApplyFreed`.

`FollowsServer` is the refinement: with the messages not yet applied for `stream`
and the list for `view` - where a message that a worker is in the middle of
counts as applied, and a list that was freed as empty - every step of `Client` is
a step of `Follower` or changes nothing of it.  A message taken by one worker
before another one has ended, or a half of one left out at the exit, would break
it.  A client short of memory ignores the 1 of `addToTupleList` (clientUtils.c:214,
251) and misses the tuple, or dereferences a `NULL` (`OutOfMemory`: the strings cut
out of the message, `createTupleNode` at line 240); `Follower` allows for the former
with `fresh`, the tuples of the last message that may yet be missed, and for no more
than that.

`LogOffTerminates` and `WorkersEndWithServer` say that the workers let go of `lock`
and `dataLock`.  The former is about `exitProgram` from its beginning to its end:
once it has begun and the server has closed the connection - before LOG_OFF is
sent, as an answer to it, or while `main` already waits in `pthread_join` - `main`
gets through its joins.

### DropboxSync

`Server` is extended and not changed: every step of a handler also composes its
text (`reply`: the number announced before the walk at serverUtils.c:339 and the
tuples collected after it) and puts the message it sends at the end of the
`inbox` of the connection it reaches, the right one or not.  The client's side
is `Messages!Effect`, which `Client` is shown to implement.  A client may take
its messages whenever it likes.

`ClientsAgree`, `OneAtATimeIsSafe` and `LeaverIsReleased` are about the paced
system, `PacedSpec`: a client comes, or logs off, when the server is done with
the one before and everybody has asked.  The pace, and that no two live
clients share an identity, are assumptions on the environment and nothing the code
enforces.  Without it the properties are
false - `server_reply` and `server_logoff` show how - and with it they are not
obvious: identities (those of clients that have gone) and descriptors are reused, handlers have changed
connections or returned, the replies are composed by other threads than the
announcements, and what is on its way at the time may cross.  `ClientsAgree` speaks
of `Foreseen`, what a client's list becomes once it has taken all that is under way
to it: a tuple is in it if the list has it, or a message adds it, and no later
message removes it.

### Framing

`tape` is the bytes written to a connection, of which `arrived` have arrived and
`taken` have been read; several `Writer`s write length and text in two steps.
`receiveData` is translated with its quirks: the length is read by one `read`,
which may return fewer than four bytes; the text by as many as it takes.
`mixed` and `split` record that two threads' writes were mixed, and that a length
was read in part.  The properties say what is left when either happens
(`ReadAsWritten`, `NeverPastTheBuffer`, `EverythingIsRead`): the messages before
the first mixture are read as written, and writing past the buffer takes one of
the two.

### WireFormat

A text is a sequence of a command and characters.  Writing is `Hex`, `Decimal`,
`Swapped` (`htons`, `ntohs`); reading is `Extract` (the function
`extractStringBetweenPatterns`), `AtoI`, `Address` and the loop of CLIENT_LIST.
Every request passes through them and back, with the list of the server and those
of the clients, one request at a time.  `ListedAsSent` and `KnownAsListed` say
what becomes of address and port: sixteen bits of the port are left, and a client
with a larger one lists itself (clientUtils.c:247 compares with the port as it
was typed).  `OnlyTwinsCrash`: a parser or a removal that finds nothing where it
expects a tuple takes two clients that the texts do not tell apart, as
`getIpAddres` makes of two hosts whose names resolve to 127.0.1.1.  `TextsFit`:
the texts, and the zero behind them, fit their buffers.

## 3. Runs

| run | instance | shows |
|---|---|---|
| `list` | 3 tuples, 4 nodes, the removal with the check, failing `malloc` and `strdup` | shape, answers, no leak, a node without an address stays the last, implements `Registry` |
| `server_three` | 3 clients and connections, 2 handlers and descriptors, failing `pthread_create`, clients with one identity; all may leave | the promises while clients come and go, descriptors run out and are reused, and several handlers serve a connection |
| `server_faults` | 2 connections, handlers and descriptors, array of 2; CTRL + C, failing `accept`, lookup and `malloc`; one asks, both may leave | the same when calls fail, the array is used up, the program ends and handlers find descriptor 0 |
| `server_live` | 2 connections, both may leave or be killed; fair threads | the newest client is served (if `pthread_create` succeeds) |
| `client` | 2 workers, 2 messages of 6 kinds, lines of up to 2 characters, CTRL + C, end of input, reset, and failing calls, threads and memory; fair threads | implements `Follower`; `exitProgram` and the workers end |
| `framing` | 2 writers, 3 texts, 2 messages, buffer of 5; fair network and reader | what is read of what is written |
| `wire` | 4 clients, one with port 33554431, two hosts both at 127.0.1.1:9000 | the texts and what is read from them |
| `sync` | 3 connections, handlers, descriptors and identities, all ask, all may leave | the clients' lists agree with the server's when they come and leave one at a time; who leaves is released |
| `server_reply` | a question and a newer client | finding: the list goes to another client |
| `server_logoff` | two clients that leave; fair threads | finding: a client that logged off stays listed |
| `server_exit` | CTRL + C while a handler starts | finding: exit does not wait for it |
| `server_interrupt` | one idle client and CTRL + C; fair threads, standard input at its end | finding: `main` waits in `pthread_join` for a handler in `read` |

### Bounds

`Server`.  `MaxConn` and `MaxThread` bound connections and handlers; a bound on
handlers equal to that on connections lets every connection have its own.  In
`server_three` there is one handler less: `pthread_create` fails for one of the three
connections, any of them, and two handlers do for all of them (the interleavings of a
third are left to the theorems, which hold of any number, and to `sync`).
Three connections are the least with an oldest, a middle and a newest one: a
handler that leaves one for another while a third is closed and its descriptor
reused.  `MaxFd` is the number of descriptors left to the process: with 2 for
three connections `accept` fails until one is closed, and the third gets the
number of the closed one.  `Askers` and `Leavers` say which connections ask and
which log off; they cut the number of interleavings and not the length of any
history of one client, and `ServerWalkProofs` and `ServerProofs` do without
them.  `MAX_CLIENTS_SIZE` is 30 in the program; 2 makes its end reachable.  A
killed client is part of `server_live` only: it ends its handler, and a write to
it the server.  `accept` fails in `server_three` for want of descriptors and in
`server_faults` at any time.  The clients are interchangeable, and the safety runs
of `Server` use that symmetry; the liveness runs do not.  `server_three` leaves
`threadCounter`, `serverThreads` and the index of the join loop out of the states
it tells apart (`VIEW ButThreads`): without CTRL + C or a failing lookup `main`
never joins, and an array longer than the number of handlers is never at its end,
so nothing else can depend on them.

`TupleList`.  Three tuples are the least with a head, a middle and a last node;
one node more than tuples lets an address be reused while others are live.

`Client`.  Two workers: one holds `lock`, one waits for it; a third would wait as
well.  Two messages: one is applied while the next one is taken.  Two characters
make a line that a failing `fgets` shortens to `3`.  The messages include a
CLIENT_LIST that announces one tuple too few, one that announces one too many,
and one without any.

`Framing`.  The texts have codes that can pass for lengths: one that fits the
buffer, one that does not.  Two messages let one come inside the other or behind
it.  `RoomAssumption` is what `WireFormat`'s `TextsFit` is about.

`WireFormat`.  `MAX_BUFFER_SIZE` is 63, just enough for the longest text of the
four clients; in the program it is 2048, and `MAX_CLIENTS_SIZE` clients, 30, take
14 characters and up to 18 a tuple and so 554 (`TextsAlwaysFit` has the bound for
any number of clients: 2048 is enough for 112).  The addresses and ports
include one whose hexadecimal form begins with a zero, a port whose swapped form
has one digit, and one above 65535.

`DropboxSync`.  Three connections: one that stays, one that leaves, and one that
comes for the first or the second time.  `CONSTRAINT InOrder` keeps to behaviours
in which the identities first appear in a fixed order.  This is sound because
they are interchangeable - every behaviour has its like among these, and no step
leads back into them - and, unlike `SYMMETRY`, it may be used with liveness.

Deadlock is not checked: clients may be idle for ever, and the programs end.

### Fairness

`FairSpec` of `Server` and of `Client` asks weak fairness of `main` and of each
handler or worker: a thread that can take a step is scheduled at some time.
Nothing is asked of clients, of the server as seen by the client, of users,
signals or failures; a thread blocked in `read` on an idle connection, in a mutex
that another one holds, or in `pthread_join` has no step to take.  `Framing` asks
that the network brings what was sent and the reader reads.  `PacedSpec` asks
fairness of the server's threads and that a client which has logged off ends when
it sees its connection closed; that is what `LogOffTerminates` shows of `Client`,
where the server closes the connection after LOG_OFF, while `main` frees or joins, as
well as before it.  A handler that reads from the standard input depends on
whoever types there, so `ReadStdin` is not among the steps that `FairSpec` makes
happen.  `NoStdinSpec` asks for them, too, as if the input were at its end: the
program that does not end in `server_interrupt` is thus not held up by a terminal.

## 4. Proofs

| module | for every | theorems |
|---|---|---|
| `TupleListProofs` | set of tuples and of nodes, both removals | `ListTypes`, `AppendCutsNothing`, `TuplesAreUnique`, `NothingLeaksOrDangles`, `SizeCountsNodes`, `NothingBehindNameless`, `ListImplementsRegistry`, `CallsAnswerTrue` |
| `ServerProofs` | number of clients, connections, handlers and descriptors, length of the array, set of failures | `ServerTypes`, `DescriptorsLeadForward`, `MessagesGoForward`, `ServerNoWayBack` |
| `ServerWalkProofs` | the same | `WalksMissNobody`, `CountedAreJoined` |
| `ServerFaultProofs` | the same, where `malloc` does not fail; for `LoneIsSafe` no client is killed either, and the array has more than one element | `NullTakesTwo`, `LoneIsSafe` |
| `ClientProofs` | number of workers, set of messages, set of failures | `ClientTypes`, `ClientFollows` |
| `FramingProofs` | set of writers, set of texts, number of messages, size of the buffer | `MessagesArriveAsWritten`, `BufferHolds` |
| `WireFormatProofs` | set of clients, with any addresses and ports | `Invariant`, `AlwaysListedAsSent`, `AlwaysKnownAsListed`, `OnlyTwinsEverCrash` |
| | the same, as many as the buffer has room for | `TextsAlwaysFit` |
| `DropboxSyncProofs` | as for the server | `SyncImplementsServer`, `SyncGoesForward` |
| | the same, where nothing fails around the server and there are as many descriptors and array elements as connections (`Calm`) | `PacedIsSafe`, `ListsAgree` |

They rest on the named assumptions of the modules: the constants are numbers and
sets of the right kind; `Null` and `Free` are no nodes and no tuples; no text is
empty, each fits the buffer with its zero, and the buffer's size is an `int`.
Where a theorem needs more of the surroundings than that, it says so in its
statement, because the property is false without it:

* a client that could not be listed for want of memory is announced, logs off and
  is not found: NULL, with one handler and one connection;
* the first write to the socket of a killed client ends the server (SIGPIPE), with
  one handler;
* the program never reuses an element of `serverThreads` (`dropbox_server/main.c:25`,
  169): with one element the second thread's id is written past its end, and with
  fewer elements than connections a later one's;
* each time `accept` fails a thread is created all the same.  If it comes to its
  look at `acceptedClient` when the next client is there, two threads read from one
  connection; and with fewer descriptors than connections, where `accept` fails again
  and again, the array comes to its end;
* CTRL + C frees what the handlers use.

With `memory`, `die`, `accept` or `sigint` in `EnvFaults` both `OneAtATimeIsSafe` and
`ClientsAgree` fail in the instance of `sync`; with a smaller array, or with fewer
descriptors and more threads, the former does.  `Calm` also leaves out a failing lookup, which ends the program, a
failing `pthread_create`, and `twins`, live clients of one identity, of whom the
server lists the first only.  Both theorems are about the pace that `PacedSpec` states as well.  `sync` itself is an instance of the
hypotheses.

**The list.**  The inductive invariant is `Shape`: types, the nodes of the chain
are distinct and just the allocated ones, their tuples are distinct, `cur` is the
last one, `size` the length, and only the last node may be without an address.  None of these is inductive by itself: an append
keeps the chain only if `cur` is last; a removal sets `cur` back to the last node
only if tuples are unique, as it compares values; a node without an address stays
the last because every search, and so every addition, that comes to it ends the
program (`AbsentMeetsNamed`).  `ListImplementsRegistry` maps
every call to a step of `Registry`.  The answer of a removal needs the uniqueness
of the tuples as well: it unlinks one node and says that the tuple is gone.

**The server.**  The inductive invariant `Inv` is split by variable: `MainOK`,
`FdsOK`, `ListOK`, `SentOK`, `ConnsOK`, and `HandlerOK` for the locals of one
handler, so that a step of a handler has to show it for its own locals only
(`OneHandlerOK`).  Two things in it are not in `Forward`: a handler between the
two reads of a request is the one that took the length and the text is still
there, without which the request it reads would have no type; and a handler past
line 225 has a request.  That `accepted` may be 0 once the server stops is part of the
types: `Forward` counts standard input among what leads to no connection.  That a node's connection is an accepted one is needed
when its descriptor is given to the next connection.  `NoWayBack` follows from
`Inv` in one step: a handler comes to hold only its own descriptor or main's,
which leads to the newest connection (`HandlerHolds`), and a descriptor comes to
lead only to a connection newer than all (`OthersHold`).

**The exit.**  `ExitInv` adds that the elements of `serverThreads` hold different
ids, each the id of a thread created (`SlotsOK`), and that the join loop has
passed only threads that have returned (`JoinOK`).  If at the exit the counter is
the number of threads created, the loop has passed as many different ids as there
are threads, so all of them: the pigeonhole of `FiniteSetTheorems`.

**The walk.**  `WalkMissesNobody` is not inductive by itself: it would not survive
a node that comes back in front of, or at, the place of one that a walk has
passed.  `WalkInv` excludes it.  LOG_ON is the first request of a connection and
no other one is (`RequestsOK`), so at any time it is sent and not taken, or in
the hands of one handler (`OnceOK`), or some node stems from it (`PointedOK`), and
no two nodes stem from the same (`NodesOK`).  An addition then puts a node at the
end that no walk has stood on, and a removal leaves the others in their order.

**The client.**  `Inv` is `TypeOK`, `LockOK` (the holder of `lock` is the one
worker between taking and giving it), `HandOK` (it has a message where it needs
one), `StartOK`, `PhaseOK` (what main has done by then) and `ProgressOK` (a worker
in the middle of a CLIENT_LIST has put the tuples before its position into the
list).  The refinement has one lemma for each group of steps; that a CLIENT_LIST
counts as applied from its first tuple on needs `ProgressOK` at its last, and that
nobody else's message is under way needs `LockOK`.

**What goes wrong, and by whom.**  `OffInv` adds to `WalkInv` what the end of a
connection needs: LOG_OFF is a connection's last request and is in one place at a
time (`OffOK`); a request in a handler's hands comes behind the LOG_ON (`TakenOK`);
`close` and `remove` belong to a LOG_OFF (`LabelsOK`); and, if no `malloc` fails, a
connection's LOG_ON is still to be taken, or in a handler's hands, or its client is
in the list, by this connection or another one of the same client, or it has logged
off (`KnownOK`).  So when a LOG_OFF does not find its node, one of the two excuses
of `NullOnlyWhenOvertaken` is left.  As long as the server runs no handler holds
descriptor 0 and the list is not freed (`RunOK`).  For `LoneHandlerIsSafe` the
invariant says in addition, as long as there is one handler, that the counter has not
run ahead of it and that nobody else took a length (`LoneOK`), and that until it is
about to return every descriptor is open (`OpenOK`), no client has ended, and each is
in the list, itself or a twin of it, or has its LOG_ON still on the way (`PresentOK`);
each fault in turn contradicts one of these.

**The framing.**  The invariant says that there are numbers `ends` that lay out the
tape (`Laid`): the i-th message written before the first mixture begins where the
one before ends, with four bytes of length and the text behind them.  Behind the
last of them is nothing or just the length of the one being written (`Writing`),
and the reader, as long as no length was read in part, stands at the end of one,
or in the text of the next with the beginning of it in the buffer (`Reading`).
The four bytes read are the length that was written because a number up to 2^31 - 1
is the sum of its bytes (`FourBytes`).  `ReadAsWritten` alone is not inductive: it
says nothing of the message the reader is in the middle of.

**The texts.**  `WireFormatProofs` has to know what functions defined by recursion
compute: the digits of a number, the value of digits, the text of a list, the place
of its i-th tuple.  The library's induction takes an operator, which the provers
cannot fill in, so `Induction` is stated for a set P of numbers and proved without
it: if n were missing from P, adding one would be an injection of the part of P below
n into that part without 0, which has an element less.  `Recursion` then
gives, for a step and a beginning, the function that a LET takes for granted.

A pointer into a text s is the rest `Behind(s, k)`, and `StrChrIs`, `StrStrIs`,
`ExtractIs` and `AtoIIs` say what each call finds there if certain characters stand
where they should and do not stand before.  That they do is a matter of which
characters are digits: neither a blank nor a comma nor a bracket is one.  `AddressOfHex`
is the way of an address through %x and back, leading zeros or not; `NumberOfDecimal`
and `SwappedIs` that of a port, of which sixteen bits come back.  `ListIs` says that
the loop of CLIENT_LIST meets every tuple of the list, and the number in front of them,
because each step of it, from the second blank to the next, ends where a tuple begins.

With that the actions are about the list alone (`LogOnDoes`, `GetClientsDoes`,
`LogOffDoes`), and the inductive invariant can be: the names on the list, which is
what the texts say of the clients, are different (`Distinct`), those listed are on
(`ListedAreOn`), a client that is not on knows nobody (`OffKnowNobody`), one that is
listed knows names of the list other than its own and, once it has asked, all of them
(`KnowListed`, `KnowAll`), and as long as no twins were on everybody who is on is
listed and nothing has crashed (`OrTwins`).  `Distinct` is what makes LOG_OFF take out
one name and not leave another node of that name behind; `KnowListed` is needed for
those who have not asked and have heard of some.  A list has no more nodes than there
are clients, as different names are of different clients, and so `TextsAlwaysFit`.

**One at a time.**  `PacedInv` shows that the pace cures what the shared
`acceptedClient` does.  At most one connection has its turn (`TurnOK`): the server
still has something to do for it, or it has not asked yet.  While it has, main has
created a thread for every connection accepted and the counter is right
(`MainPaced`), `acceptedClient` leads to it for as long as its handler looks there
(`ConnPaced`), so that the k-th handler serves the k-th connection from beginning
to end (`HandlerPaced`), a client is in the list once and by the descriptor of its
connection (`ListPaced`), and no connection has two descriptors (`FdsPaced`).  All
the others wait in `read` or have returned, so that there is no second thread in a
list function, and a descriptor closed is nobody's.  That `accept` does not run out
of descriptors is the pigeonhole again: the open ones lead to different connections,
and the connection at the door has none yet.  A client connects again only after its
descriptor is closed (`GoneOK`, `OwnersOK`).  Every wrong step, `Race` to `UseFreed`,
is then excluded by its guard (`TurnGoesRight`).

**The lists agree.**  `AgreeInv` follows the messages.  A client's requests that are
sent and not taken, and the one in its handler's hands, are what is left of LOG_ON,
GET_CLIENTS (`ScriptOK`).  A client without its answer has an empty list, and nothing
is under way that would change that, as the others neither come nor leave before it
has one (`FreshOK`).  An answer in the making holds the tuples of the nodes the walk
has passed and announces as many as there are (`RepliesOK`), so that it misleads
nobody (`SoundOK`).  For everybody else `Foreseen` is the server's list without the
client itself, except for what the one handler at work has still to do: a new client
is listed and not foreseen by c until the walk comes to c, and one that leaves is no
longer foreseen by c once the walk has passed c, and is listed until `remove`
(`AgreedOK`, with `Without`).  Two lemmas say what the steps do to `Foreseen`: a
message that is sent does to it what it does to a list (`ForeseenSent`), and taking
one changes nothing (`ForeseenTaken`).  They speak of one tuple at a time, as the
provers know nothing of folds.

**The composition.**  Every step of `DropboxSync` is a step of `Server` or leaves
it alone, so what is proved of `Server` holds of the composition.

## 5. What is only model-checked

Liveness under fairness, which the prover does not do: `NewestServed`,
`LogOffTerminates`, `WorkersEndWithServer`, `EverythingIsRead`, `LeaverIsReleased`.

Liveness apart, then, every invariant and action property that a passing run checks
is a theorem, under the hypotheses of section 4.

## 6. Not modelled

* The command line parsers: one pass over `argv` by one thread before anything
  else.  What matters later, that a port may be any number of digits, is in
  `WireFormat`.
* What happens in the server before it begins to accept (address, socket, bind,
  listen, list, signal handler): each failure ends the program before there is a
  client.  In the client these calls are one step that succeeds, fails, or crashes
  as `strdup(getIpAddres())` does.
* Malformed texts: a message without a `<`, or a text that is cut short, gives `NULL`
  to `atoi`, which ends the server.  `Server` and `Client` have the messages that the
  other program writes; `WireFormat` says when those can be read.
* A failing `strdup` in the server.  `TupleList` has it, call by call, and `Client` has
  it as part of `short`; in `Server`, `memory` is a failing `malloc` in
  `addToTupleList`, the one that does not end the program at once.  Left out are also
  its `malloc` of `threadData` (main.c:138) and of the strings cut out of a message
  (serverUtils.c:180), whose `NULL` it writes to.
* A failing `pthread_create` of the server outside `server_three`.  There it is
  `SpawnFails`; `NewestServed`, the run `sync` and the theorems about `PacedSpec`
  suppose that it succeeds.
* Two live clients of one identity (`InUse`) outside `server_three` and `wire`.  The
  theorems of section 4 about `Server` hold with them; those about `PacedSpec` and
  what `sync` checks do not consider them.
* A time limit in `select`: the server has none, so CTRL + C between the look at
  `shouldRun` (serverUtils.c:47) and `select` goes unnoticed until the next client
  connects.  The step is in `Server`; that it does not end there is no finding, and
  `InterruptTerminates` is about `main` once it has left its loop.
* What undefined behaviour leaves in memory: after `Race`, a use of freed memory
  or a write past an array, nothing moves.  An interleaving of the list's
  statements would say which pointers are lost, but the compiler may have ordered
  them otherwise, and no property could rest on it.
* A partial `write`, a `select` that fails for another reason than a signal, and
  the kernel beyond descriptors, backlog and connections.
* Output, the contents of the directory (it is opened and closed), the exchange
  of files (not implemented).

The repository's README.md differs from the code in two more ways than the runs of
section 3 show.  Line 6 says that the server forwards the list to all the connected
clients; the code, and the comment at serverUtils.c:335, send it to one.  Line 7 says
that after LOG_OFF the server updates its list and then informs the others; the code
informs them (lines 304-320) and then updates the list (line 329).  The models follow
the code.

## 7. Left to do

The composition with less of a pace: clients that come while others leave, as long
as none comes between a `read` and the look at `acceptedClient` behind it.
