--------------------------- MODULE TupleListProofs ---------------------------
(***************************************************************************)
(* Proofs about TupleList, for every set of tuples and of addresses.       *)
(***************************************************************************)
EXTENDS TupleList, SequenceTheorems, TLAPS

\* The shape of the list, which each operation relies on and restores.
Shape == /\ TypeOK /\ CurrentIsLast /\ SizeIsLength /\ NoDuplicates /\ NoLeak
         /\ NamelessIsLast

\* A search that comes to the end of the chain has met no node that holds t and
\* none without an address.
LEMMA AbsentMeetsNamed ==
  ASSUME TypeOK, NEW t, Absent(t)
  PROVE  \A i \in DOMAIN chain : data[chain[i]] # t /\ data[chain[i]] # Null
<1>1. DOMAIN chain = 1..Len(chain) /\ Len(chain) \in Nat
  BY LenProperties DEF TypeOK
<1>2. \A i \in DOMAIN chain : data[chain[i]] # t
  BY DEF Absent, Found
<1>3. ASSUME NEW i \in DOMAIN chain, data[chain[i]] = Null
      PROVE  FALSE
  <2>1. \A j \in 1..(i - 1) : data[chain[j]] # t
    BY <1>1, <1>2
  <2> QED
    BY <1>3, <2>1 DEF Absent, MeetsNameless
<1> QED
  BY <1>2, <1>3

\* What unlinking one node leaves: a chain one shorter, the others in order.
LEMMA UnlinkProperties ==
  ASSUME TypeOK, NEW k \in DOMAIN chain
  PROVE  /\ Unlink(k) \in Seq(Node)
         /\ Len(Unlink(k)) = Len(chain) - 1
         /\ DOMAIN Unlink(k) = 1..(Len(chain) - 1)
         /\ \A j \in 1..(Len(chain) - 1) :
               Unlink(k)[j] = IF j < k THEN chain[j] ELSE chain[j + 1]
<1> DEFINE n == Len(chain) - 1
<1>1. chain \in Seq(Node) /\ DOMAIN chain = 1..Len(chain) /\ Len(chain) \in Nat
  BY LenProperties DEF TypeOK
<1>2. n \in Nat
  BY <1>1
<1>3. \A j \in 1..Len(chain) : chain[j] \in Node
  BY <1>1, ElementOfSeq
<1>4. Unlink(k) \in [1..n -> Node]
  BY <1>1, <1>2, <1>3 DEF Unlink
<1>5. Unlink(k) \in Seq(Node)
  BY <1>2, <1>4, SeqDef
<1>6. Len(Unlink(k)) = n
  BY <1>2, <1>4, <1>5, LenProperties
<1> QED
  BY <1>1, <1>5, <1>6 DEF Unlink

\* In a list of the right shape, cutting behind currentTupleNode cuts nothing.
LEMMA UpToCurrentIsAll ==
  ASSUME Shape, cur # Null
  PROVE  /\ chain # <<>>
         /\ UpToCurrent = chain
<1>1. /\ chain # <<>> /\ chain \in Seq(Node)
      /\ cur = chain[Len(chain)]
      /\ Len(chain) \in Nat \ {0} /\ DOMAIN chain = 1..Len(chain)
  BY LenProperties, EmptySeq DEF Shape, CurrentIsLast, TypeOK
<1> DEFINE c == CHOOSE i \in DOMAIN chain : chain[i] = cur
<1>2. c \in DOMAIN chain /\ chain[c] = cur
  BY <1>1
<1>3. c = Len(chain)
  BY <1>1, <1>2 DEF Shape, NoDuplicates
<1>4. \A i \in 1..Len(chain) : chain[i] \in Node
  BY <1>1, ElementOfSeq
<1>5. /\ SubSeq(chain, 1, Len(chain)) \in Seq(Node)
      /\ Len(SubSeq(chain, 1, Len(chain))) = Len(chain)
      /\ \A i \in 1..Len(chain) : SubSeq(chain, 1, Len(chain))[i] = chain[i]
  <2>1. /\ SubSeq(chain, 1, Len(chain)) \in Seq(Node)
        /\ Len(SubSeq(chain, 1, Len(chain))) =
             IF 1 <= Len(chain) THEN Len(chain) - 1 + 1 ELSE 0
        /\ \A i \in 1..(Len(chain) - 1 + 1) :
              SubSeq(chain, 1, Len(chain))[i] = chain[1 + i - 1]
    BY <1>1, <1>4, SubSeqProperties
  <2> QED
    BY <1>1, <2>1
<1>6. SubSeq(chain, 1, Len(chain)) = chain
  BY <1>1, <1>5, SeqEqual
<1> QED
  BY <1>1, <1>3, <1>6 DEF UpToCurrent

\* Unlinking the k-th node of a well-shaped list and freeing it leaves the
\* rest of the shape intact; where currentTupleNode then points is up to the
\* caller.
LEMMA UnlinkKeepsShape ==
  ASSUME Shape, NEW k \in DOMAIN chain,
         chain' = Unlink(k),
         data' = [data EXCEPT ![chain[k]] = Free],
         size' = size - 1
  PROVE  /\ chain' \in Seq(Node) /\ data' \in [Node -> Tuple \cup {Free, Null}]
         /\ size' \in Int
         /\ SizeIsLength' /\ NoDuplicates' /\ NoLeak' /\ NamelessIsLast'
<1>1. /\ chain \in Seq(Node) /\ DOMAIN chain = 1..Len(chain)
      /\ Len(chain) \in Nat /\ k \in 1..Len(chain)
      /\ \A i \in DOMAIN chain : chain[i] \in Node
      /\ data \in [Node -> Tuple \cup {Free, Null}]
  BY LenProperties, ElementOfSeq DEF Shape, TypeOK
<1>2. /\ chain' \in Seq(Node)
      /\ Len(chain') = Len(chain) - 1
      /\ DOMAIN chain' = 1..(Len(chain) - 1)
      /\ \A j \in 1..(Len(chain) - 1) :
            chain'[j] = IF j < k THEN chain[j] ELSE chain[j + 1]
  BY UnlinkProperties DEF Shape
<1>3. data' \in [Node -> Tuple \cup {Free, Null}]
  BY <1>1
<1>4. size' \in Int /\ SizeIsLength'
  BY <1>1, <1>2 DEF Shape, SizeIsLength, TypeOK
<1>5. \A i, j \in DOMAIN chain : chain[i] = chain[j] => i = j
  BY DEF Shape, NoDuplicates
<1>6. \A j \in DOMAIN chain' :
         \E i \in DOMAIN chain : /\ i # k /\ i = (IF j < k THEN j ELSE j + 1)
                                 /\ chain'[j] = chain[i]
                                 /\ data'[chain'[j]] = data[chain[i]]
  BY <1>1, <1>2, <1>5
<1>7. NoDuplicates'
  <2> SUFFICES ASSUME NEW i \in DOMAIN chain', NEW j \in DOMAIN chain',
                      data'[chain'[i]] = data'[chain'[j]]
               PROVE  i = j
    BY DEF NoDuplicates
  <2>1. PICK a \in DOMAIN chain : /\ a = (IF i < k THEN i ELSE i + 1)
                                  /\ data'[chain'[i]] = data[chain[a]]
    BY <1>6
  <2>2. PICK b \in DOMAIN chain : /\ b = (IF j < k THEN j ELSE j + 1)
                                  /\ data'[chain'[j]] = data[chain[b]]
    BY <1>6
  <2>3. a = b
    BY <2>1, <2>2 DEF Shape, NoDuplicates
  <2> QED
    BY <1>1, <1>2, <2>1, <2>2, <2>3
<1>8. NoLeak'
  <2>1. \A m \in OnChain' : m \in Node /\ data'[m] # Free
    <3> SUFFICES ASSUME NEW j \in DOMAIN chain'
                 PROVE  chain'[j] \in Node /\ data'[chain'[j]] # Free
      BY DEF OnChain
    <3>1. PICK i \in DOMAIN chain : /\ chain'[j] = chain[i]
                                    /\ data'[chain'[j]] = data[chain[i]]
      BY <1>6
    <3>2. data[chain[i]] # Free
      BY <1>1 DEF Shape, NoLeak, Allocated, OnChain
    <3> QED
      BY <1>1, <3>1, <3>2
  <2>2. \A m \in Node : data'[m] # Free => m \in OnChain'
    <3> SUFFICES ASSUME NEW m \in Node, data'[m] # Free
                 PROVE  m \in OnChain'
      OBVIOUS
    <3>1. m # chain[k] /\ data[m] # Free
      BY <1>1
    <3>2. PICK i \in DOMAIN chain : chain[i] = m
      BY <3>1 DEF Shape, NoLeak, Allocated, OnChain
    <3> DEFINE j == IF i < k THEN i ELSE i - 1
    <3>3. j \in DOMAIN chain' /\ chain'[j] = m
      BY <1>1, <1>2, <3>1, <3>2
    <3> QED
      BY <3>3 DEF OnChain
  <2> QED
    BY <2>1, <2>2 DEF NoLeak, Allocated
<1>9. NamelessIsLast'
  BY <1>1, <1>2, <1>6 DEF Shape, NamelessIsLast
<1> QED
  BY <1>2, <1>3, <1>4, <1>7, <1>8, <1>9

\* Appending a freshly allocated node for a tuple the list does not hold, with
\* its address or without.
LEMMA AppendKeepsShape ==
  ASSUME Shape, NEW t \in Tuple, Absent(t), NEW n \in Node \ Allocated,
         NEW v \in {t, Null}, chain' = Append(chain, n), cur' = n,
         data' = [data EXCEPT ![n] = v], size' = size + 1
  PROVE  /\ chain' \in Seq(Node) /\ data' \in [Node -> Tuple \cup {Free, Null}]
         /\ cur' \in Node \cup {Null} /\ size' \in Int
         /\ CurrentIsLast' /\ SizeIsLength' /\ NoDuplicates' /\ NoLeak'
         /\ NamelessIsLast'
         /\ Len(chain') = Len(chain) + 1 /\ DOMAIN chain' = 1..(Len(chain) + 1)
         /\ \A i \in DOMAIN chain : data'[chain'[i]] = data[chain[i]]
         /\ data'[chain'[Len(chain) + 1]] = v
<1>1. /\ chain \in Seq(Node) /\ DOMAIN chain = 1..Len(chain)
      /\ Len(chain) \in Nat
      /\ \A i \in DOMAIN chain : chain[i] \in Node /\ data[chain[i]] # Free
      /\ data \in [Node -> Tuple \cup {Free, Null}]
  BY LenProperties, ElementOfSeq DEF Shape, TypeOK, NoLeak, Allocated, OnChain
<1>2. /\ chain' \in Seq(Node) /\ Len(chain') = Len(chain) + 1
      /\ DOMAIN chain' = 1..(Len(chain) + 1)
      /\ \A i \in 1..Len(chain) : chain'[i] = chain[i]
      /\ chain'[Len(chain) + 1] = n
  BY <1>1, AppendProperties, LenProperties
<1>3. data' \in [Node -> Tuple \cup {Free, Null}] /\ size' \in Int /\ data[n] = Free
  BY <1>1 DEF Shape, TypeOK, Allocated
<1>4. /\ \A i \in DOMAIN chain : data'[chain'[i]] = data[chain[i]]
      /\ data'[chain'[Len(chain) + 1]] = v
  BY <1>1, <1>2, <1>3
<1>5. CurrentIsLast'
  BY <1>1, <1>2, EmptySeq DEF CurrentIsLast
<1>6. SizeIsLength'
  BY <1>1, <1>2 DEF Shape, SizeIsLength
<1>n. \A i \in DOMAIN chain : data[chain[i]] # v /\ data[chain[i]] # Null
  BY AbsentMeetsNamed DEF Shape
<1>7. NoDuplicates'
  BY <1>1, <1>2, <1>4, <1>n DEF Shape, NoDuplicates
<1>8. NoLeak'
  <2>1. \A m \in OnChain' : m \in Node /\ data'[m] # Free
    BY <1>1, <1>2, <1>4, FreeAssumption DEF OnChain
  <2>2. \A m \in Node : data'[m] # Free => m \in OnChain'
    <3> SUFFICES ASSUME NEW m \in Node, data'[m] # Free
                 PROVE  \E i \in DOMAIN chain' : chain'[i] = m
      BY DEF OnChain
    <3>1. CASE m = n
      BY <1>1, <1>2, <3>1
    <3>2. CASE m # n
      <4>1. data[m] # Free
        BY <1>1, <3>2
      <4>2. PICK i \in DOMAIN chain : chain[i] = m
        BY <4>1 DEF Shape, NoLeak, Allocated, OnChain
      <4> QED
        BY <1>1, <1>2, <4>2
    <3> QED
      BY <3>1, <3>2
  <2> QED
    BY <2>1, <2>2 DEF NoLeak, Allocated
<1>9. NamelessIsLast'
  BY <1>1, <1>2, <1>4, <1>n DEF NamelessIsLast
<1> QED
  BY <1>2, <1>3, <1>4, <1>5, <1>6, <1>7, <1>8, <1>9

\* Every operation preserves the shape.
LEMMA ShapeStep ==
  ASSUME Shape, [Next]_vars
  PROVE  Shape'
<1>1. /\ chain \in Seq(Node) /\ DOMAIN chain = 1..Len(chain)
      /\ Len(chain) \in Nat
      /\ \A i \in DOMAIN chain : chain[i] \in Node
      /\ data \in [Node -> Tuple \cup {Free, Null}]
  BY LenProperties, ElementOfSeq DEF Shape, TypeOK
<1>2. ASSUME NEW t \in Tuple, NEW c \in {"add", "find", "remove"},
             NEW v \in Codes(c), Returns(c, t, v)
      PROVE  ret' \in Calls \cup {NoCall}
  BY <1>2 DEF Returns, Calls
<1>c. Codes("add") = {-1, 0, 1} /\ Codes("find") = {0, 1} /\ Codes("remove") = {0}
  BY DEF Codes
<1>3. ASSUME UNCHANGED <<chain, cur, size, data>>,
             status' \in {"live", "destroyed", "crashed"},
             ret' \in Calls \cup {NoCall}
      PROVE  Shape'
  BY <1>3 DEF Shape, TypeOK, CurrentIsLast, SizeIsLength, NoDuplicates, NoLeak,
              NamelessIsLast, Allocated, OnChain
<1>4. CASE UNCHANGED vars
  BY <1>4, <1>3 DEF vars, Shape, TypeOK
<1>5. ASSUME NEW t \in Tuple, AddDuplicate(t)
      PROVE  Shape'
  BY <1>5, <1>2, <1>c, <1>3 DEF AddDuplicate, Shape, TypeOK
<1>6. ASSUME NEW t \in Tuple, AddNoMemory(t)
      PROVE  Shape'
  <2>1. chain' = chain
    <3>1. CASE cur = Null
      <4>1. chain = <<>>
        BY <3>1, <1>1, EmptySeq, NullAssumption DEF Shape, CurrentIsLast
      <4> QED
        BY <1>6, <3>1, <4>1 DEF AddNoMemory
    <3>2. CASE cur # Null
      BY <1>6, <3>2, UpToCurrentIsAll DEF AddNoMemory
    <3> QED
      BY <3>1, <3>2
  <2> QED
    BY <1>6, <2>1, <1>2, <1>c, <1>3 DEF AddNoMemory, Shape, TypeOK
<1>7. ASSUME NEW t \in Tuple, AddFirst(t)
      PROVE  Shape'
  <2>1. PICK n \in Node \ Allocated, v \in {t, Null} :
           chain' = <<n>> /\ cur' = n /\ data' = [data EXCEPT ![n] = v]
    BY <1>7 DEF AddFirst
  <2>2. chain = <<>>
    BY <1>7, <1>1, NullAssumption, EmptySeq DEF AddFirst, Shape, CurrentIsLast
  <2>3. chain' = Append(chain, n)
    BY <2>1, <2>2
  <2>4. /\ chain' \in Seq(Node) /\ data' \in [Node -> Tuple \cup {Free, Null}]
        /\ cur' \in Node \cup {Null} /\ size' \in Int
        /\ CurrentIsLast' /\ SizeIsLength' /\ NoDuplicates' /\ NoLeak'
        /\ NamelessIsLast'
    BY <1>7, <2>1, <2>3, AppendKeepsShape DEF AddFirst
  <2> QED
    BY <1>7, <1>2, <1>c, <2>4 DEF AddFirst, Shape, TypeOK
<1>8. ASSUME NEW t \in Tuple, AddNext(t)
      PROVE  Shape'
  <2>1. PICK n \in Node \ Allocated, v \in {t, Null} :
           /\ chain' = Append(UpToCurrent, n)
           /\ cur' = n /\ data' = [data EXCEPT ![n] = v]
    BY <1>8 DEF AddNext
  <2>2. chain' = Append(chain, n)
    BY <1>8, <2>1, UpToCurrentIsAll DEF AddNext
  <2>3. /\ chain' \in Seq(Node) /\ data' \in [Node -> Tuple \cup {Free, Null}]
        /\ cur' \in Node \cup {Null} /\ size' \in Int
        /\ CurrentIsLast' /\ SizeIsLength' /\ NoDuplicates' /\ NoLeak'
        /\ NamelessIsLast'
    BY <1>8, <2>1, <2>2, AppendKeepsShape DEF AddNext
  <2> QED
    BY <1>8, <1>2, <1>c, <2>3 DEF AddNext, Shape, TypeOK
<1>9. ASSUME NEW t \in Tuple, RemoveFromEmpty(t)
      PROVE  Shape'
  BY <1>9, <1>2, <1>c, <1>3 DEF RemoveFromEmpty, Shape, TypeOK
<1>10. ASSUME NEW t \in Tuple, RemoveOnly(t)
       PROVE  Shape'
  <2>1. /\ chain' = <<>> /\ cur' = Null /\ size' = size - 1
        /\ data' = [data EXCEPT ![chain[1]] = Free]
        /\ Len(chain) = 1 /\ status' = status
    BY <1>10 DEF RemoveOnly
  <2>2. chain' \in Seq(Node) /\ Len(chain') = 0
    BY <2>1, EmptySeq
  <2>3. SizeIsLength' /\ size' \in Int
    BY <2>1, <2>2 DEF Shape, SizeIsLength
  <2>4. data' \in [Node -> Tuple \cup {Free, Null}]
    BY <2>1, <1>1
  <2>5. DOMAIN chain' = {}
    BY <2>2, LenProperties
  <2>6. \A m \in Node : data'[m] = Free
    <3> SUFFICES ASSUME NEW m \in Node
                 PROVE  data'[m] = Free
      OBVIOUS
    <3>1. CASE m = chain[1]
      BY <3>1, <2>1, <1>1
    <3>2. CASE m # chain[1]
      BY <3>2, <2>1, <1>1 DEF Shape, NoLeak, Allocated, OnChain
    <3> QED
      BY <3>1, <3>2
  <2>7. NoLeak' /\ NoDuplicates' /\ CurrentIsLast' /\ NamelessIsLast'
    BY <2>1, <2>5, <2>6
       DEF NoLeak, NoDuplicates, CurrentIsLast, NamelessIsLast, Allocated, OnChain
  <2> QED
    BY <1>10, <1>2, <1>c, <2>1, <2>2, <2>3, <2>4, <2>7 DEF RemoveOnly, Shape, TypeOK
<1>11. ASSUME NEW t \in Tuple, RemoveHead(t)
       PROVE  Shape'
  <2>1. /\ chain' = Unlink(1) /\ 1 \in DOMAIN chain /\ Len(chain) > 1
        /\ data' = [data EXCEPT ![chain[1]] = Free]
        /\ size' = size - 1 /\ cur' = cur /\ status' = status
    BY <1>11, <1>1 DEF RemoveHead
  <2>2. /\ chain' \in Seq(Node) /\ data' \in [Node -> Tuple \cup {Free, Null}]
        /\ size' \in Int /\ SizeIsLength' /\ NoDuplicates' /\ NoLeak'
        /\ NamelessIsLast'
    BY <2>1, UnlinkKeepsShape
  <2>3. CurrentIsLast'
    <3>0. /\ Len(chain') = Len(chain) - 1
          /\ \A j \in 1..(Len(chain) - 1) :
                chain'[j] = IF j < 1 THEN chain[j] ELSE chain[j + 1]
      BY <2>1, UnlinkProperties DEF Shape
    <3>1. Len(chain') = Len(chain) - 1 /\ chain'[Len(chain) - 1] = chain[Len(chain)]
      BY <3>0, <2>1, <1>1
    <3>2. chain # <<>> /\ chain' # <<>>
      BY <3>1, <2>1, <1>1, EmptySeq
    <3> QED
      BY <2>1, <3>1, <3>2 DEF Shape, CurrentIsLast
  <2> QED
    BY <1>11, <1>2, <1>c, <2>1, <2>2, <2>3 DEF RemoveHead, Shape, TypeOK
<1>12. ASSUME NEW t \in Tuple, RemoveLater(t)
       PROVE  Shape'
  <2>1. PICK i \in DOMAIN chain :
           /\ i > 1
           /\ cur' = IF data[chain[i]] = data[cur] THEN chain[i - 1] ELSE cur
           /\ data' = [data EXCEPT ![chain[i]] = Free]
           /\ chain' = Unlink(i)
    BY <1>12 DEF RemoveLater
  <2>2. size' = size - 1 /\ status' = status
    BY <1>12 DEF RemoveLater
  <2>3. /\ chain' \in Seq(Node) /\ data' \in [Node -> Tuple \cup {Free, Null}]
        /\ size' \in Int /\ SizeIsLength' /\ NoDuplicates' /\ NoLeak'
        /\ NamelessIsLast'
    BY <2>1, <2>2, UnlinkKeepsShape
  <2>4. /\ Len(chain') = Len(chain) - 1
        /\ \A j \in 1..(Len(chain) - 1) :
              chain'[j] = IF j < i THEN chain[j] ELSE chain[j + 1]
    BY <2>1, UnlinkProperties DEF Shape
  <2>5. chain # <<>> /\ chain' # <<>> /\ i \in 1..Len(chain) /\ Len(chain) > 1
    BY <2>1, <2>4, <1>1, EmptySeq
  <2>6. cur = chain[Len(chain)]
    BY <2>5 DEF Shape, CurrentIsLast
  <2>7. CASE i = Len(chain)
    <3>1. cur' = chain[i - 1]
      BY <2>1, <2>6, <2>7
    <3>2. chain'[Len(chain) - 1] = chain[i - 1]
      BY <2>4, <2>5, <2>7, <1>1
    <3>3. CurrentIsLast' /\ cur' \in Node
      BY <2>1, <2>4, <2>5, <2>7, <3>1, <3>2, <1>1 DEF CurrentIsLast
    <3> QED
      BY <1>12, <1>2, <1>c, <2>1, <2>2, <2>3, <3>3 DEF RemoveLater, Shape, TypeOK
  <2>8. CASE i # Len(chain)
    <3>1. data[chain[i]] # data[cur]
      BY <2>5, <2>6, <2>8, <1>1 DEF Shape, NoDuplicates
    <3>2. chain'[Len(chain) - 1] = chain[Len(chain)]
      BY <2>4, <2>5, <2>8, <1>1
    <3>3. CurrentIsLast'
      BY <2>1, <2>4, <2>5, <2>6, <3>1, <3>2 DEF CurrentIsLast
    <3> QED
      BY <1>12, <1>2, <1>c, <2>1, <2>2, <2>3, <3>1, <3>3
         DEF RemoveLater, Shape, TypeOK
  <2> QED
    BY <2>7, <2>8
<1>13. ASSUME NEW t \in Tuple, RemoveMissing(t)
       PROVE  Shape'
  BY <1>13, <1>2, <1>c, <1>3 DEF RemoveMissing, Shape, TypeOK
<1>14. ASSUME NEW t \in Tuple, Find(t)
       PROVE  Shape'
  BY <1>14, <1>2, <1>c, <1>3 DEF Find, Shape, TypeOK
<1>15. CASE Destroy
  <2>1. /\ chain' = <<>> /\ cur' = Null /\ size' = 0
        /\ data' = [n \in Node |-> IF n \in OnChain THEN Free ELSE data[n]]
        /\ status' = "destroyed" /\ ret' = NoCall
    BY <1>15 DEF Destroy
  <2>2. chain' \in Seq(Node) /\ Len(chain') = 0 /\ DOMAIN chain' = {}
    BY <2>1, EmptySeq, LenProperties
  <2>3. \A n \in Node : data'[n] = Free
    BY <2>1 DEF Shape, NoLeak, Allocated
  <2>4. data' \in [Node -> Tuple \cup {Free, Null}]
    BY <2>1, <1>1
  <2> QED
    BY <2>1, <2>2, <2>3, <2>4
       DEF Shape, TypeOK, CurrentIsLast, SizeIsLength, NoDuplicates, NoLeak,
           NamelessIsLast, Allocated, OnChain
<1>16. ASSUME NEW t \in Tuple, SearchCrashes(t) \/ AddCrashes(t) \/ RemoveCrashes(t)
       PROVE  Shape'
  BY <1>16, <1>3 DEF SearchCrashes, AddCrashes, RemoveCrashes
<1> QED
  BY <1>4, <1>5, <1>6, <1>7, <1>8, <1>9, <1>10, <1>11, <1>12, <1>13, <1>14,
     <1>15, <1>16 DEF Next, Add, Remove

\* The empty list has the right shape.
LEMMA ShapeInit ==
  ASSUME Init
  PROVE  Shape
<1>1. chain = <<>> /\ chain \in Seq(Node) /\ Len(chain) = 0 /\ DOMAIN chain = {}
  BY EmptySeq, LenProperties DEF Init
<1> QED
  BY <1>1 DEF Init, Shape, TypeOK, CurrentIsLast, SizeIsLength, NoDuplicates,
              NoLeak, NamelessIsLast, Allocated, OnChain

\* The list keeps its shape whatever is done to it (tupleList.c, all of it).
THEOREM ListShape == Spec => []Shape
  BY ShapeInit, ShapeStep, PTL DEF Spec

\* Every variable of the list keeps its type.
THEOREM ListTypes == Spec => []TypeOK
  BY ListShape, PTL DEF Shape

\* currentTupleNode is the last node, so that the append of addToTupleList
\* (tupleList.c:116) cuts nothing off.
THEOREM AppendCutsNothing == Spec => []CurrentIsLast
  BY ListShape, PTL DEF Shape

\* The size that CLIENT_LIST announces is the number of nodes a walk meets.
THEOREM SizeCountsNodes == Spec => []SizeIsLength
  BY ListShape, PTL DEF Shape

\* No tuple is listed twice: addToTupleList looks for it first.
THEOREM TuplesAreUnique == Spec => []NoDuplicates
  BY ListShape, PTL DEF Shape

\* The allocated nodes are exactly those a walk from the head reaches.
THEOREM NothingLeaksOrDangles == Spec => []NoLeak
  BY ListShape, PTL DEF Shape

\* A node whose address could not be copied (tupleList.c:91, 134) stays the last:
\* no later addition links a node behind it.
THEOREM NothingBehindNameless == Spec => []NamelessIsLast
  BY ListShape, PTL DEF Shape

-----------------------------------------------------------------------------
(* The list implements the registry.                                       *)

\* The tuples of the list, in order.
Tuples == [i \in 1..Named |-> data[chain[i]]]

\* The positions of the chain up to Named are those that hold a tuple.
LEMMA NamedProperties ==
  ASSUME Shape
  PROVE  /\ Named \in Nat /\ Named <= Len(chain)
         /\ DOMAIN chain = 1..Len(chain) /\ Len(chain) \in Nat
         /\ \A i \in DOMAIN chain : data[chain[i]] \in Tuple <=> i <= Named
         /\ \A i \in DOMAIN chain : data[chain[i]] \in Tuple \cup {Null}
<1>1. /\ DOMAIN chain = 1..Len(chain) /\ Len(chain) \in Nat
      /\ \A i \in DOMAIN chain : chain[i] \in Node
      /\ data \in [Node -> Tuple \cup {Free, Null}]
      /\ chain = <<>> <=> Len(chain) = 0
  BY LenProperties, ElementOfSeq, EmptySeq DEF Shape, TypeOK
<1>2. \A i \in DOMAIN chain : data[chain[i]] \in Tuple \cup {Null}
  BY <1>1 DEF Shape, NoLeak, Allocated, OnChain
<1>3. \A i \in DOMAIN chain : data[chain[i]] = Null => i = Len(chain)
  BY DEF Shape, NamelessIsLast
<1>4. Null \notin Tuple
  BY NullAssumption
<1> QED
  BY <1>1, <1>2, <1>3, <1>4 DEF Named

\* What a list of Named tuples is, as a sequence.
LEMMA TuplesProperties ==
  ASSUME Shape
  PROVE  /\ Tuples \in Seq(Tuple) /\ Len(Tuples) = Named
         /\ DOMAIN Tuples = 1..Named
<1>1. /\ Named \in Nat /\ \A i \in 1..Named : data[chain[i]] \in Tuple
  BY NamedProperties
<1>2. Tuples \in [1..Named -> Tuple]
  BY <1>1 DEF Tuples
<1>3. Tuples \in Seq(Tuple)
  BY <1>1, <1>2, SeqDef
<1>4. DOMAIN Tuples = 1..Named
  BY DEF Tuples
<1> QED
  BY <1>1, <1>3, <1>4, LenProperties

\* A tuple the chain does not hold is not in the registry.
LEMMA AbsentIsUnlisted ==
  ASSUME Shape, NEW t \in Tuple, Absent(t)
  PROVE  Named = Len(chain) /\ ~Directory!Listed(t)
<1>1. \A i \in DOMAIN chain : data[chain[i]] # t /\ data[chain[i]] # Null
  BY AbsentMeetsNamed DEF Shape
<1>2. /\ DOMAIN chain = 1..Len(chain) /\ Len(chain) \in Nat
      /\ Named \in Nat /\ Named <= Len(chain)
      /\ \A i \in DOMAIN chain : data[chain[i]] \in Tuple \cup {Null}
      /\ \A i \in DOMAIN chain : data[chain[i]] \in Tuple <=> i <= Named
  BY NamedProperties
<1>3. Named = Len(chain)
  BY <1>1, <1>2
<1> QED
  BY <1>1, <1>2, <1>3 DEF Directory!Listed

\* A new node with its address is an enrolment; one without leaves the registry
\* as it is.
LEMMA AppendEnrolls ==
  ASSUME Shape, Shape', NEW t \in Tuple, Absent(t),
         Live, status' = status, NEW n \in Node \ Allocated, NEW v \in {t, Null},
         chain' = Append(chain, n), cur' = n,
         data' = [data EXCEPT ![n] = v], size' = size + 1
  PROVE  Directory!Enroll(t) \/ UNCHANGED Directory!vars
<1>1. /\ Len(chain') = Len(chain) + 1 /\ DOMAIN chain' = 1..(Len(chain) + 1)
      /\ \A i \in DOMAIN chain : data'[chain'[i]] = data[chain[i]]
      /\ data'[chain'[Len(chain) + 1]] = v
  BY AppendKeepsShape
<1>2. /\ Tuples \in Seq(Tuple) /\ Len(Tuples) = Len(chain)
      /\ Named = Len(chain)
      /\ DOMAIN chain = 1..Len(chain) /\ Len(chain) \in Nat
      /\ ~Directory!Listed(t)
  BY TuplesProperties, NamedProperties, AbsentIsUnlisted
<1>3. chain' # <<>>
  BY <1>1, <1>2, EmptySeq
<1>4. CASE v = Null
  <2>1. Named' = Len(chain)
    BY <1>1, <1>2, <1>3, <1>4 DEF Named
  <2>2. Tuples' = Tuples
    BY <1>1, <1>2, <2>1 DEF Tuples
  <2> QED
    BY <2>2 DEF Tuples, Directory!vars
<1>5. CASE v = t
  <2>1. Named' = Len(chain) + 1
    <3>1. t # Null
      BY NullAssumption
    <3> QED
      BY <1>1, <1>2, <1>3, <1>5, <3>1 DEF Named
  <2>2. Tuples' = [i \in 1..(Len(chain) + 1) |->
                     IF i <= Len(chain) THEN Tuples[i] ELSE t]
    BY <1>1, <1>2, <1>5, <2>1 DEF Tuples
  <2>3. Tuples' \in Seq(Tuple) /\ Len(Tuples') = Len(chain) + 1
    <3>1. \A i \in 1..Len(chain) : Tuples[i] \in Tuple
      BY <1>2, ElementOfSeq
    <3>2. Tuples' \in [1..(Len(chain) + 1) -> Tuple]
      BY <1>2, <2>2, <3>1
    <3>3. Tuples' \in Seq(Tuple)
      BY <1>2, <3>2, SeqDef
    <3> QED
      BY <1>2, <3>2, <3>3, LenProperties
  <2>4. /\ Append(Tuples, t) \in Seq(Tuple)
        /\ Len(Append(Tuples, t)) = Len(chain) + 1
        /\ \A i \in 1..Len(chain) : Append(Tuples, t)[i] = Tuples[i]
        /\ Append(Tuples, t)[Len(chain) + 1] = t
    BY <1>2, AppendProperties
  <2>5. \A i \in 1..(Len(chain) + 1) : Tuples'[i] = Append(Tuples, t)[i]
    BY <1>2, <2>2, <2>4
  <2>6. Tuples' = Append(Tuples, t)
    BY <2>3, <2>4, <2>5, SeqEqual
  <2> QED
    BY <1>2, <2>6 DEF Directory!Enroll, Tuples, Live
<1> QED
  BY <1>4, <1>5

\* A node unlinked is an entry struck.
LEMMA UnlinkStrikes ==
  ASSUME Shape, Shape', NEW t \in Tuple, NEW k \in DOMAIN chain,
         data[chain[k]] = t, Live, status' = status,
         chain' = Unlink(k), data' = [data EXCEPT ![chain[k]] = Free]
  PROVE  Directory!Strike(t)
<1>1. /\ DOMAIN chain' = 1..(Len(chain) - 1) /\ Len(chain') = Len(chain) - 1
      /\ \A j \in 1..(Len(chain) - 1) :
            chain'[j] = IF j < k THEN chain[j] ELSE chain[j + 1]
  BY UnlinkProperties DEF Shape
<1>2. /\ Len(Tuples) = Named /\ DOMAIN Tuples = 1..Named
      /\ Named \in Nat /\ Named <= Len(chain) /\ k \in 1..Named
      /\ DOMAIN chain = 1..Len(chain) /\ Len(chain) \in Nat
      /\ \A i \in DOMAIN chain : data[chain[i]] \in Tuple <=> i <= Named
  BY TuplesProperties, NamedProperties
<1>3. /\ \A i, j \in DOMAIN chain : chain[i] = chain[j] => i = j
      /\ \A i \in DOMAIN chain : chain[i] \in Node
      /\ data \in [Node -> Tuple \cup {Free, Null}]
  BY ElementOfSeq, <1>2 DEF Shape, NoDuplicates, TypeOK
<1>4. \A j \in 1..(Len(chain) - 1) :
         data'[chain'[j]] = IF j < k THEN data[chain[j]] ELSE data[chain[j + 1]]
  <2>1. \A i \in DOMAIN chain : i # k => data'[chain[i]] = data[chain[i]]
    BY <1>3
  <2>2. ASSUME NEW j \in 1..(Len(chain) - 1)
        PROVE  data'[chain'[j]] =
                  IF j < k THEN data[chain[j]] ELSE data[chain[j + 1]]
    <3>1. j \in DOMAIN chain /\ j + 1 \in DOMAIN chain
      BY <1>2
    <3>2. k \in Int /\ (j < k => j # k) /\ (~(j < k) => j + 1 # k)
      BY <1>2
    <3> QED
      BY <1>1, <2>1, <3>1, <3>2
  <2> QED
    BY <2>2
<1>5. Named' = Named - 1
  <2>1. \A j \in 1..(Len(chain) - 1) :
           data'[chain'[j]] \in Tuple <=> j <= Named - 1
    <3> SUFFICES ASSUME NEW j \in 1..(Len(chain) - 1)
                 PROVE  data'[chain'[j]] \in Tuple <=> j <= Named - 1
      OBVIOUS
    <3>1. j \in DOMAIN chain /\ j + 1 \in DOMAIN chain /\ k \in 1..Named
      BY <1>2
    <3>2. CASE j < k
      BY <1>2, <1>4, <3>1, <3>2
    <3>3. CASE ~(j < k)
      <4>1. data'[chain'[j]] = data[chain[j + 1]]
        BY <1>4, <3>3
      <4> QED
        BY <1>2, <3>1, <3>3, <4>1
    <3> QED
      BY <3>2, <3>3
  <2>2. chain' = <<>> <=> Len(chain) = 1
    BY <1>1, <1>2, EmptySeq
  <2>3. CASE Named = Len(chain)
    <3>1. \A j \in 1..(Len(chain) - 1) : data'[chain'[j]] # Null
      BY <1>2, <2>1, <2>3, NullAssumption
    <3> QED
      BY <1>1, <1>2, <2>2, <2>3, <3>1 DEF Named
  <2>4. CASE Named # Len(chain)
    <3>1. Named = Len(chain) - 1 /\ data[chain[Len(chain)]] = Null
      BY <2>4 DEF Named
    <3>2. Len(chain) - 1 \in 1..(Len(chain) - 1) /\ k < Len(chain)
      BY <1>2, <3>1
    <3>3. data'[chain'[Len(chain) - 1]] = Null
      BY <1>2, <1>4, <3>1, <3>2
    <3> QED
      BY <1>1, <1>2, <2>2, <3>1, <3>2, <3>3 DEF Named
  <2> QED
    BY <2>3, <2>4
<1>6. Tuples' = Directory!Without(Tuples, k)
  BY <1>1, <1>2, <1>4, <1>5 DEF Tuples, Directory!Without
<1> QED
  BY <1>6, <1>2 DEF Directory!Strike, Tuples, Live

\* Every operation is an enrolment, a strike, the closing, or leaves the
\* registry as it is.
LEMMA ImplementsStep ==
  ASSUME Shape, Shape', [Next]_vars
  PROVE  [Directory!Next]_(Directory!vars)
<1>1. ASSUME UNCHANGED <<chain, data>>, status' # "destroyed" <=> status # "destroyed"
      PROVE  UNCHANGED Directory!vars
  BY <1>1 DEF Directory!vars, Named
<1>2. CASE UNCHANGED vars
  BY <1>1, <1>2 DEF vars
<1>3. ASSUME NEW t \in Tuple, AddDuplicate(t) \/ RemoveMissing(t) \/ Find(t)
      PROVE  UNCHANGED Directory!vars
  BY <1>1, <1>3 DEF AddDuplicate, RemoveMissing, Find
<1>c. ASSUME NEW t \in Tuple, SearchCrashes(t) \/ AddCrashes(t) \/ RemoveCrashes(t)
      PROVE  UNCHANGED Directory!vars
  BY <1>1, <1>c DEF SearchCrashes, AddCrashes, RemoveCrashes, Live
<1>4. ASSUME NEW t \in Tuple, RemoveFromEmpty(t)
      PROVE  UNCHANGED Directory!vars
  BY <1>1, <1>4 DEF RemoveFromEmpty, Live
<1>5. ASSUME cur = Null
      PROVE  chain = <<>>
  BY <1>5, NullAssumption, ElementOfSeq, EmptySeq
     DEF Shape, CurrentIsLast, TypeOK
<1>6. ASSUME NEW t \in Tuple, AddNoMemory(t)
      PROVE  UNCHANGED Directory!vars
  <2>1. CASE cur = Null
    BY <1>1, <1>5, <1>6, <2>1 DEF AddNoMemory
  <2>2. CASE cur # Null
    BY <1>1, <1>6, <2>2, UpToCurrentIsAll DEF AddNoMemory
  <2> QED
    BY <2>1, <2>2
<1>7. ASSUME NEW t \in Tuple, AddFirst(t)
      PROVE  Directory!Enroll(t) \/ UNCHANGED Directory!vars
  <2>1. PICK n \in Node \ Allocated, v \in {t, Null} :
           chain' = <<n>> /\ cur' = n /\ data' = [data EXCEPT ![n] = v]
    BY <1>7 DEF AddFirst
  <2>2. chain' = Append(chain, n)
    BY <1>5, <1>7, <2>1 DEF AddFirst
  <2> QED
    BY <1>7, <2>1, <2>2, AppendEnrolls DEF AddFirst
<1>8. ASSUME NEW t \in Tuple, AddNext(t)
      PROVE  Directory!Enroll(t) \/ UNCHANGED Directory!vars
  <2>1. PICK n \in Node \ Allocated, v \in {t, Null} :
           /\ chain' = Append(UpToCurrent, n)
           /\ cur' = n /\ data' = [data EXCEPT ![n] = v]
    BY <1>8 DEF AddNext
  <2>2. chain' = Append(chain, n)
    BY <1>8, <2>1, UpToCurrentIsAll DEF AddNext
  <2> QED
    BY <1>8, <2>1, <2>2, AppendEnrolls DEF AddNext
<1>9. ASSUME NEW t \in Tuple, RemoveOnly(t)
      PROVE  Directory!Strike(t)
  <2>1. /\ Len(chain) = 1 /\ data[chain[1]] = t /\ chain' = <<>> /\ Live
        /\ status' = status
    BY <1>9 DEF RemoveOnly
  <2>2. /\ DOMAIN Tuples = 1..1 /\ Len(Tuples) = 1 /\ 1 \in DOMAIN Tuples
        /\ Named = 1
    BY <2>1, TuplesProperties, NamedProperties
  <2>3. Named' = 0
    BY <2>1 DEF Named
  <2>4. Tuples' = Directory!Without(Tuples, 1)
    BY <2>2, <2>3 DEF Tuples, Directory!Without
  <2> QED
    BY <2>1, <2>2, <2>4 DEF Directory!Strike, Tuples, Live
<1>10. ASSUME NEW t \in Tuple, RemoveHead(t)
       PROVE  Directory!Strike(t)
  <2>1. 1 \in DOMAIN chain
    BY <1>10, NamedProperties DEF RemoveHead
  <2> QED
    BY <1>10, <2>1, UnlinkStrikes DEF RemoveHead
<1>11. ASSUME NEW t \in Tuple, RemoveLater(t)
       PROVE  Directory!Strike(t)
  <2>1. PICK i \in DOMAIN chain :
           /\ data[chain[i]] = t
           /\ data' = [data EXCEPT ![chain[i]] = Free]
           /\ chain' = Unlink(i)
    BY <1>11 DEF RemoveLater
  <2>2. Live /\ status' = status
    BY <1>11 DEF RemoveLater
  <2> QED
    BY <2>1, <2>2, UnlinkStrikes
<1>12. CASE Destroy
  <2>1. chain' = <<>> /\ status' = "destroyed" /\ Live
    BY <1>12 DEF Destroy
  <2>2. Named' = 0
    BY <2>1 DEF Named
  <2>3. Tuples' = <<>>
    BY <2>2 DEF Tuples
  <2> QED
    BY <2>1, <2>3 DEF Directory!Next, Directory!Close, Tuples, Live
<1> QED
  BY <1>2, <1>3, <1>c, <1>4, <1>6, <1>7, <1>8, <1>9, <1>10, <1>11, <1>12
     DEF Next, Add, Remove, Directory!Next

\* The linked list implements the registry, for every set of tuples and of
\* addresses: additions only append, a removal takes out one entry and keeps the
\* order of the rest, everything else leaves the entries alone, also the calls
\* in which malloc or strdup fails.
THEOREM ListImplementsRegistry == Spec => ImplementsRegistry
<1>1. Init => Directory!Init
  BY DEF Init, Directory!Init, Named
<1>2. Shape /\ Shape' /\ [Next]_vars => [Directory!Next]_(Directory!vars)
  BY ImplementsStep
<1> QED
  BY <1>1, <1>2, ListShape, PTL DEF Spec, ImplementsRegistry, Directory!Spec
-----------------------------------------------------------------------------
(* The answers of the calls.                                               *)

\* Once the k-th node is unlinked and freed, the tuple it held is not found.
LEMMA UnlinkedIsGone ==
  ASSUME Shape, NEW t \in Tuple, NEW k \in DOMAIN chain, data[chain[k]] = t,
         chain' = Unlink(k), data' = [data EXCEPT ![chain[k]] = Free]
  PROVE  ~Found(t)'
<1>1. /\ DOMAIN chain' = 1..(Len(chain) - 1)
      /\ \A j \in 1..(Len(chain) - 1) :
            chain'[j] = IF j < k THEN chain[j] ELSE chain[j + 1]
  BY UnlinkProperties DEF Shape
<1>2. /\ DOMAIN chain = 1..Len(chain) /\ Len(chain) \in Nat
      /\ \A i \in DOMAIN chain : chain[i] \in Node
      /\ data \in [Node -> Tuple \cup {Free, Null}]
  BY LenProperties, ElementOfSeq DEF Shape, TypeOK
<1>3. ASSUME NEW j \in DOMAIN chain'
      PROVE  data'[chain'[j]] # t
  <2>1. PICK i \in DOMAIN chain : i # k /\ chain'[j] = chain[i]
    BY <1>1, <1>2
  <2>2. data[chain[i]] # t
    BY <2>1 DEF Shape, NoDuplicates
  <2>3. chain[i] # chain[k]
    BY <2>2
  <2> QED
    BY <1>2, <2>1, <2>2, <2>3
<1> QED
  BY <1>3 DEF Found

\* Each call answers for the list it leaves behind.
LEMMA AnswersStep ==
  ASSUME Shape, AnswersTrue, [Next]_vars
  PROVE  AnswersTrue'
<1>1. /\ DOMAIN chain = 1..Len(chain) /\ Len(chain) \in Nat
      /\ \A i \in DOMAIN chain : chain[i] \in Node
      /\ data \in [Node -> Tuple \cup {Free, Null}]
  BY LenProperties, ElementOfSeq DEF Shape, TypeOK
<1>2. cur = Null => chain = <<>>
  BY <1>1, NullAssumption, EmptySeq DEF Shape, TypeOK, CurrentIsLast
<1>3. CASE UNCHANGED vars
  BY <1>3 DEF vars, AnswersTrue, Found
<1>4. ASSUME NEW t \in Tuple, Add(t)
      PROVE  AnswersTrue'
  <2>1. CASE AddDuplicate(t)
    BY <2>1 DEF AddDuplicate, Returns, AnswersTrue, Found
  <2>2. CASE AddNoMemory(t)
    <3>1. chain' = chain
      BY <1>2, <2>2, UpToCurrentIsAll DEF AddNoMemory
    <3> QED
      BY <2>2, <3>1 DEF AddNoMemory, Returns, AnswersTrue, Found, Absent
  <2>3. CASE AddFirst(t)
    <3>1. PICK n \in Node, v \in {t, Null} :
             cur' = n /\ data' = [data EXCEPT ![n] = v]
      BY <2>3 DEF AddFirst
    <3>2. data'[cur'] \in {t, Null}
      BY <1>1, <3>1
    <3> QED
      BY <2>3, <3>2 DEF AddFirst, Returns, AnswersTrue
  <2>4. CASE AddNext(t)
    <3>1. PICK n \in Node, v \in {t, Null} :
             cur' = n /\ data' = [data EXCEPT ![n] = v]
      BY <2>4 DEF AddNext
    <3>2. data'[cur'] \in {t, Null}
      BY <1>1, <3>1
    <3> QED
      BY <2>4, <3>2 DEF AddNext, Returns, AnswersTrue
  <2>5. CASE AddCrashes(t)
    BY <2>5 DEF AddCrashes, AnswersTrue
  <2> QED
    BY <1>4, <2>1, <2>2, <2>3, <2>4, <2>5 DEF Add
<1>5. ASSUME NEW t \in Tuple, Remove(t)
      PROVE  AnswersTrue'
  <2>1. CASE RemoveFromEmpty(t)
    <3>1. ~Found(t)'
      BY <2>1 DEF RemoveFromEmpty, Found
    <3>2. CASE Guarded
      <4>1. ret' = [call |-> "remove", tuple |-> t, code |-> 0]
        BY <2>1, <3>2 DEF RemoveFromEmpty, Returns
      <4> QED
        BY <3>1, <4>1 DEF AnswersTrue
    <3>3. CASE ~Guarded
      BY <2>1, <3>3 DEF RemoveFromEmpty, AnswersTrue
    <3> QED
      BY <3>2, <3>3
  <2>2. CASE RemoveOnly(t)
    <3>1. ~Found(t)'
      BY <2>2 DEF RemoveOnly, Found
    <3> QED
      BY <2>2, <3>1 DEF RemoveOnly, Returns, AnswersTrue
  <2>3. CASE RemoveHead(t)
    <3>1. 1 \in DOMAIN chain /\ data[chain[1]] = t
      BY <1>1, <2>3 DEF RemoveHead
    <3>2. ~Found(t)'
      BY <2>3, <3>1, UnlinkedIsGone DEF RemoveHead
    <3> QED
      BY <2>3, <3>2 DEF RemoveHead, Returns, AnswersTrue
  <2>4. CASE RemoveLater(t)
    <3>1. PICK i \in DOMAIN chain : /\ data[chain[i]] = t
                                    /\ data' = [data EXCEPT ![chain[i]] = Free]
                                    /\ chain' = Unlink(i)
      BY <2>4 DEF RemoveLater
    <3>2. ~Found(t)'
      BY <3>1, UnlinkedIsGone
    <3> QED
      BY <2>4, <3>2 DEF RemoveLater, Returns, AnswersTrue
  <2>5. CASE RemoveMissing(t)
    BY <2>5 DEF RemoveMissing, Returns, AnswersTrue, Found, Absent
  <2>6. CASE RemoveCrashes(t)
    BY <2>6 DEF RemoveCrashes, AnswersTrue
  <2> QED
    BY <1>5, <2>1, <2>2, <2>3, <2>4, <2>5, <2>6 DEF Remove
<1>6. ASSUME NEW t \in Tuple, Find(t)
      PROVE  AnswersTrue'
  BY <1>6 DEF Find, Returns, AnswersTrue, Found
<1>7. CASE Destroy
  BY <1>7 DEF Destroy, AnswersTrue
<1>8. ASSUME NEW t \in Tuple, SearchCrashes(t)
      PROVE  AnswersTrue'
  BY <1>8 DEF SearchCrashes, AnswersTrue
<1> QED
  BY <1>3, <1>4, <1>5, <1>6, <1>7, <1>8 DEF Next

\* What addToTupleList, removeFromTupleList and findTupleNode return is true of
\* the list as they leave it, but for the one answer that is not: 0 for a node
\* whose address strdup (tupleList.c:91, 134) could not copy.
THEOREM CallsAnswerTrue == Spec => []AnswersTrue
<1>1. Init => AnswersTrue
  BY DEF Init, AnswersTrue
<1> QED
  BY <1>1, ListShape, AnswersStep, PTL DEF Spec
=============================================================================
