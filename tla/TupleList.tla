------------------------------ MODULE TupleList ------------------------------
(***************************************************************************)
(* The linked list of dropbox_server/tupleList.c (and, with Guarded =      *)
(* TRUE, of dropbox_client/tupleList.c), used by one thread at a time: the *)
(* client program calls it under dataLock.  What several server threads do *)
(* to it at once is the business of module Server.                         *)
(*                                                                         *)
(* The nodes reached from headTupleNode are the sequence `chain`; NULL is  *)
(* the end of it.  currentTupleNode is a pointer of its own, so that the   *)
(* code's "append after currentTupleNode" is modelled as it is written: it *)
(* cuts off whatever is chained behind currentTupleNode.                   *)
(*                                                                         *)
(* malloc and strdup may fail.  A node whose strdup failed is linked all   *)
(* the same, without an address (Null in data): the next search that comes *)
(* to it gives NULL to strcmp and ends the program.                        *)
(***************************************************************************)
EXTENDS Integers, Sequences

CONSTANTS Tuple,      \* the <IP, port> pairs
          Node,       \* the addresses malloc can return for a tupleNode
          Null,       \* the NULL pointer
          Free,       \* what an address holds while it is not allocated
          Guarded     \* the client's removal checks for an empty list first

ASSUME GuardedAssumption == Guarded \in BOOLEAN
ASSUME NullAssumption == Null \notin Node \cup Tuple
ASSUME FreeAssumption == Free \notin Tuple \cup {Null}

VARIABLES chain,      \* the nodes from headTupleNode to the last nextTupleNode
          cur,        \* currentTupleNode
          size,       \* size
          data,       \* the tuple stored at each address, Null if its IP is NULL
          status,     \* "live", "destroyed", or "crashed" by a NULL dereference
          ret         \* the last call and what it returned

vars == <<chain, cur, size, data, status, ret>>

\* What a call may return: removeFromTupleList is void, here 0.
Codes(c) == CASE c = "add" -> {-1, 0, 1}
              [] c = "find" -> {0, 1}
              [] c = "remove" -> {0}
NoCall == [call |-> "none", tuple |-> Free, code |-> 0]
Calls == UNION {[call : {c}, tuple : Tuple, code : Codes(c)] :
                   c \in {"add", "find", "remove"}}

Live == status = "live"
Allocated == {n \in Node : data[n] # Free}
OnChain == {chain[i] : i \in DOMAIN chain}

\* Slip: the search stops one node early.
FoundBeforeLast(t) == \E i \in 1..(Len(chain) - 1) : data[chain[i]] = t

\* findTupleNode: some node on the chain holds t.
Found(t) == \E i \in DOMAIN chain : data[chain[i]] = t

\* Slip: the search passes over a node without an address.
NeverMeets(t) == FALSE

\* isTheSameTupleNode: the search for t comes to a node without an address.
MeetsNameless(t) == \E i \in DOMAIN chain :
                       /\ data[chain[i]] = Null
                       /\ \A j \in 1..(i - 1) : data[chain[j]] # t

\* The search for t comes to the end of the chain.
Absent(t) == ~Found(t) /\ ~MeetsNameless(t)

\* The chain as far as currentTupleNode, which is where a node is appended.
UpToCurrent == SubSeq(chain, 1, CHOOSE i \in DOMAIN chain : chain[i] = cur)

\* Slip: the previous node's link is set to NULL, not to the next node.
UnlinkRest(i) == SubSeq(chain, 1, i - 1)

\* The chain with the i-th node unlinked.
Unlink(i) == [j \in 1..(Len(chain) - 1) |->
                IF j < i THEN chain[j] ELSE chain[j + 1]]

Returns(c, t, code) == ret' = [call |-> c, tuple |-> t, code |-> code]

-----------------------------------------------------------------------------

Init == /\ chain = <<>>
        /\ cur = Null
        /\ size = 0
        /\ data = [n \in Node |-> Free]
        /\ status = "live"
        /\ ret = NoCall

\* strcmp(NULL, ...), whichever call the search belongs to.
SearchCrashes(t) ==
    /\ Live /\ MeetsNameless(t)
    /\ status' = "crashed"
    /\ ret' = NoCall
    /\ UNCHANGED <<chain, cur, size, data>>

\* addToTupleList refuses a tuple it holds.
AddDuplicate(t) ==
    /\ Live /\ Found(t) /\ ~MeetsNameless(t)
    /\ Returns("add", t, -1)
    /\ UNCHANGED <<chain, cur, size, data, status>>

\* Slip: the failure is reported with the code of a duplicate.
AddNoMemoryAsDuplicate(t) ==
    /\ Live /\ Absent(t)
    /\ Returns("add", t, -1)
    /\ UNCHANGED <<chain, cur, size, data, status>>

\* A malloc fails: the first one before the list is touched, the second one
\* after its NULL was stored behind currentTupleNode (or in headTupleNode).
AddNoMemory(t) ==
    /\ Live /\ Absent(t)
    /\ chain' \in {chain, IF cur = Null THEN <<>> ELSE UpToCurrent}
    /\ Returns("add", t, 1)
    /\ UNCHANGED <<cur, size, data, status>>

\* createTupleNode's strdup fails: its NULL is what the next strdup copies.
AddCrashes(t) ==
    /\ Live /\ Absent(t)
    /\ status' = "crashed"
    /\ ret' = NoCall
    /\ UNCHANGED <<chain, cur, size, data>>

\* The first node is headTupleNode and currentTupleNode; its strdup may fail.
AddFirst(t) ==
    /\ Live /\ Absent(t) /\ cur = Null
    /\ \E n \in Node \ Allocated, v \in {t, Null} :
          /\ chain' = <<n>>
          /\ cur' = n
          /\ data' = [data EXCEPT ![n] = v]
    /\ size' = size + 1
    /\ Returns("add", t, 0)
    /\ UNCHANGED status

\* A later node goes behind currentTupleNode and becomes currentTupleNode.
AddNext(t) ==
    /\ Live /\ Absent(t) /\ cur # Null
    /\ \E n \in Node \ Allocated, v \in {t, Null} :
          /\ chain' = Append(UpToCurrent, n)
          /\ cur' = n
          /\ data' = [data EXCEPT ![n] = v]
    /\ size' = size + 1
    /\ Returns("add", t, 0)
    /\ UNCHANGED status

\* Removal looks at headTupleNode first: the client's checks it for NULL, the
\* server's dereferences it.
RemoveFromEmpty(t) ==
    /\ Live /\ chain = <<>>
    /\ IF Guarded THEN Returns("remove", t, 0) /\ UNCHANGED status
                  ELSE ret' = NoCall /\ status' = "crashed"
    /\ UNCHANGED <<chain, cur, size, data>>

\* The head is the node to remove, and the only one.
RemoveOnly(t) ==
    /\ Live /\ Len(chain) = 1 /\ data[chain[1]] = t
    /\ data' = [data EXCEPT ![chain[1]] = Free]
    /\ chain' = <<>>
    /\ cur' = Null
    /\ size' = size - 1
    /\ Returns("remove", t, 0)
    /\ UNCHANGED status

\* Slips: the size is not decreased; the node is not freed.
RemoveHeadUncounted(t) ==
    /\ Live /\ Len(chain) > 1 /\ data[chain[1]] = t
    /\ data' = [data EXCEPT ![chain[1]] = Free]
    /\ chain' = Unlink(1)
    /\ Returns("remove", t, 0)
    /\ UNCHANGED <<cur, size, status>>

RemoveHeadUnfreed(t) ==
    /\ Live /\ Len(chain) > 1 /\ data[chain[1]] = t
    /\ chain' = Unlink(1)
    /\ size' = size - 1
    /\ Returns("remove", t, 0)
    /\ UNCHANGED <<cur, data, status>>

\* The head is the node to remove, and others follow.
RemoveHead(t) ==
    /\ Live /\ Len(chain) > 1 /\ data[chain[1]] = t
    /\ data' = [data EXCEPT ![chain[1]] = Free]
    /\ chain' = Unlink(1)
    /\ size' = size - 1
    /\ Returns("remove", t, 0)
    /\ UNCHANGED <<cur, status>>

\* Slip: currentTupleNode stays on the removed node.
RemoveLaterStale(t) ==
    /\ Live
    /\ \E i \in DOMAIN chain :
          /\ i > 1 /\ data[chain[i]] = t
          /\ data' = [data EXCEPT ![chain[i]] = Free]
          /\ chain' = Unlink(i)
    /\ size' = size - 1
    /\ Returns("remove", t, 0)
    /\ UNCHANGED <<cur, status>>

\* A node behind the head is removed: the first that holds t.  currentTupleNode
\* moves back when the tuple it holds is the tuple removed.
RemoveLater(t) ==
    /\ Live /\ ~MeetsNameless(t)
    /\ Len(chain) > 1 /\ data[cur] # Null
    /\ \E i \in DOMAIN chain :
          /\ i > 1 /\ data[chain[i]] = t
          /\ \A j \in 1..(i - 1) : data[chain[j]] # t
          /\ cur' = IF data[chain[i]] = data[cur] THEN chain[i - 1] ELSE cur
          /\ data' = [data EXCEPT ![chain[i]] = Free]
          /\ chain' = Unlink(i)
    /\ size' = size - 1
    /\ Returns("remove", t, 0)
    /\ UNCHANGED status

\* The node found is compared with currentTupleNode, which has no address.
RemoveCrashes(t) ==
    /\ Live /\ ~MeetsNameless(t)
    /\ \E i \in DOMAIN chain : i > 1 /\ data[chain[i]] = t
    /\ data[chain[1]] # t /\ data[cur] = Null
    /\ status' = "crashed"
    /\ ret' = NoCall
    /\ UNCHANGED <<chain, cur, size, data>>

\* ERROR_IP_PORT_NOT_FOUND_IN_LIST
RemoveMissing(t) ==
    /\ Live /\ chain # <<>> /\ Absent(t)
    /\ Returns("remove", t, 0)
    /\ UNCHANGED <<chain, cur, size, data, status>>

\* Slip: a tuple that is not there is reported with add's code for a duplicate.
FindAsAdd(t) ==
    /\ Live /\ ~MeetsNameless(t)
    /\ Returns("find", t, IF Found(t) THEN 1 ELSE -1)
    /\ UNCHANGED <<chain, cur, size, data, status>>

\* findTupleNode as a call of its own: 0 stands for NULL, 1 for a node.
Find(t) ==
    /\ Live /\ ~MeetsNameless(t)
    /\ Returns("find", t, IF Found(t) THEN 1 ELSE 0)
    /\ UNCHANGED <<chain, cur, size, data, status>>

\* destroyTupleList frees what it reaches from headTupleNode, then the list.
\* currentTupleNode and size go with the list; no call may follow.
Destroy ==
    /\ Live
    /\ data' = [n \in Node |-> IF n \in OnChain THEN Free ELSE data[n]]
    /\ chain' = <<>>
    /\ cur' = Null
    /\ size' = 0
    /\ status' = "destroyed"
    /\ ret' = NoCall

Add(t) == \/ AddDuplicate(t) \/ AddNoMemory(t) \/ AddCrashes(t)
          \/ AddFirst(t) \/ AddNext(t)
Remove(t) == \/ RemoveFromEmpty(t) \/ RemoveOnly(t) \/ RemoveHead(t)
             \/ RemoveLater(t) \/ RemoveCrashes(t) \/ RemoveMissing(t)

Next == \/ \E t \in Tuple : Add(t) \/ Remove(t) \/ Find(t) \/ SearchCrashes(t)
        \/ Destroy

Spec == Init /\ [][Next]_vars

-----------------------------------------------------------------------------
(* What the list must guarantee.                                           *)

\* Every variable holds a value of its kind.
TypeOK == /\ chain \in Seq(Node)
          /\ cur \in Node \cup {Null}
          /\ size \in Int
          /\ data \in [Node -> Tuple \cup {Free, Null}]
          /\ status \in {"live", "destroyed", "crashed"}
          /\ ret \in Calls \cup {NoCall}

\* currentTupleNode is the last node of the chain, NULL exactly when there is
\* none: an append behind it (tupleList.c:116) then cuts nothing off and never
\* writes to a freed node.
CurrentIsLast == cur = IF chain = <<>> THEN Null ELSE chain[Len(chain)]

\* size, which GET_CLIENTS announces without counting, is the number of nodes.
SizeIsLength == size = Len(chain)

\* No tuple is listed twice (the check at tupleList.c:55 is all that prevents
\* it), and no node is linked twice.
NoDuplicates == \A i, j \in DOMAIN chain :
                   data[chain[i]] = data[chain[j]] => i = j

\* Every node of the chain is allocated and every allocated node is on the
\* chain: no dangling link, and nothing leaks, neither in an operation that
\* fails half way nor after destroyTupleList.
NoLeak == Allocated = OnChain

\* A node without an address is the last of the chain: the search that every
\* addition begins with (tupleList.c:55) ends at it, so that nothing is ever
\* linked behind it, whichever strdup failed before and whatever was removed.
NamelessIsLast == \A i \in DOMAIN chain :
                     data[chain[i]] = Null => i = Len(chain)

\* A call that returns answers for the list as it leaves it: a tuple refused as
\* a duplicate is listed, one that found no memory or was removed is not, and
\* find agrees with the chain.  One that was added is the last on the list,
\* unless the last strdup failed: then 0 is returned for a node without it.
AnswersTrue ==
    LET listed == Found(ret.tuple) IN
    ret # NoCall =>
       CASE ret.call = "remove" -> ~listed
         [] ret.call = "find" -> listed <=> ret.code = 1
         [] ret.call = "add" /\ ret.code = -1 -> listed
         [] ret.call = "add" /\ ret.code = 1 -> ~listed
         [] ret.call = "add" /\ ret.code = 0 -> data[cur] \in {ret.tuple, Null}

\* How many nodes hold a tuple: all of them, or all but the last.
Named == IF chain # <<>> /\ data[chain[Len(chain)]] = Null
         THEN Len(chain) - 1 ELSE Len(chain)

\* The list implements the registry: an addition only appends, a removal takes
\* out one entry and keeps the order of the others, and a call that fails or is
\* refused, or whose node has lost its address, changes nothing.
Directory == INSTANCE Registry WITH
                Entry <- Tuple,
                entries <- [i \in 1..Named |-> data[chain[i]]],
                open <- status # "destroyed"

ImplementsRegistry == Directory!Spec
=============================================================================
