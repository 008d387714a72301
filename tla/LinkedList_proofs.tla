--------------------------- MODULE LinkedList_proofs ---------------------------
(***************************************************************************)
(* Proofs about LinkedList, for any number of nodes and of processes.       *)
(***************************************************************************)
EXTENDS LinkedList, SequenceTheorems, FunctionTheorems, WellFoundedInduction, TLAPS

-----------------------------------------------------------------------------
(* The list *)

(* The k-th node of the list; the head is before the first. *)
Node(k) == IF k = 0 THEN ListHead ELSE order[k]

(* Nodes are added in the order of their numbers, and each once. *)
OrderInv ==
    /\ \A k \in 1 .. Len(order) : order[k] < idx
    /\ \A j, k \in 1 .. Len(order) : order[j] = order[k] => j = k

(* ListIsRing by the numbers of the nodes *)
RingInv ==
    /\ \A k \in 0 .. Len(order) :
          k < Len(order) => next[Node(k)] = Node(k + 1) /\ prev[Node(k + 1)] = Node(k)
    /\ next[Node(Len(order))] = ListHead
    /\ prev[ListHead] = Node(Len(order))
    /\ live = {order[k] : k \in 1 .. Len(order)}

(* The loop that deletes is at the first node that is left, and knows the   *)
(* next one; proc_info.c deletes nothing while it makes the list.           *)
LoopInv ==
    /\ loader = "absent" => order = <<>> /\ idx = 0
    /\ loader = "delete" => cursor = next[ListHead] /\ (cursor # ListHead => tmp = next[cursor])
    /\ file = "linked_list" => loader # "node" /\ ~oops
    /\ (file = "linked_list" /\ loader = "live") \/ loader = "unloaded" => order = <<>>
    /\ file = "proc_info" /\ loader \in {"build", "node", "live"} =>
          \A n \in Nodes : n \in live <=> n < idx

ListInv == OrderInv /\ RingInv /\ LoopInv

-----------------------------------------------------------------------------
LEMMA NodeFacts ==
    ASSUME TypeOK, OrderInv
    PROVE  /\ Len(order) \in Nat
           /\ \A k \in 1 .. Len(order) : order[k] \in Nodes
           /\ \A k \in 0 .. Len(order) :
                 /\ Node(k) \in Nodes \cup {ListHead}
                 /\ Node(k) = ListHead <=> k = 0
           /\ \A j, k \in 0 .. Len(order) : Node(j) = Node(k) => j = k
<1>1. Len(order) \in Nat /\ \A k \in 1 .. Len(order) : order[k] \in Nodes
  BY LenProperties, ElementOfSeq DEF TypeOK
<1> QED
  BY <1>1, CountAssumption DEF OrderInv, Node, Nodes, ListHead, TypeOK

(* list_add_tail of a new node at the end of the ring *)
LEMMA AddKeepsRing ==
    ASSUME TypeOK, OrderInv, RingInv, idx \in Nodes, NEW i \in Processes,
           AddNode(i), idx' = idx + 1
    PROVE  /\ OrderInv' /\ RingInv'
           /\ live' \subseteq Nodes /\ order' \in Seq(Nodes) /\ id' \in [Nodes -> Processes]
           /\ next' \in [Nodes \cup {ListHead} -> Pointers]
           /\ prev' \in [Nodes \cup {ListHead} -> Pointers]
<1>1. PICK L \in Nat :
         /\ L = Len(order)
         /\ \A k \in 0 .. L : Node(k) \in Nodes \cup {ListHead}
         /\ \A k \in 0 .. L : Node(k) = ListHead <=> k = 0
         /\ \A j, k \in 0 .. L : Node(j) = Node(k) => j = k
         /\ \A k \in 1 .. L : order[k] \in Nodes
  BY NodeFacts
<1>2. /\ idx \in 0 .. Count - 1 /\ idx # ListHead
      /\ \A k \in 0 .. L : Node(k) # idx
  BY <1>1, CountAssumption DEF OrderInv, Node, Nodes, ListHead
<1>3. /\ order' \in Seq(Nodes) /\ Len(order') = L + 1 /\ order'[L + 1] = idx
      /\ \A k \in 1 .. L : order'[k] = order[k]
  BY <1>1, AppendProperties DEF AddNode, TypeOK
<1>4. /\ \A k \in 0 .. L : Node(k)' = Node(k)
      /\ Node(L + 1)' = idx
  BY <1>1, <1>3 DEF Node
<1>5. /\ next' = [next EXCEPT ![Node(L)] = idx, ![idx] = ListHead]
      /\ prev' = [prev EXCEPT ![ListHead] = idx, ![idx] = Node(L)]
      /\ live' = live \cup {idx} /\ id' = [id EXCEPT ![idx] = i]
      /\ next \in [Nodes \cup {ListHead} -> Pointers]
      /\ prev \in [Nodes \cup {ListHead} -> Pointers]
  BY <1>1 DEF AddNode, ListAddTail, RingInv, TypeOK
<1>6. /\ next'[idx] = ListHead /\ next'[Node(L)] = idx
      /\ \A n \in Nodes \cup {ListHead} : n # idx /\ n # Node(L) => next'[n] = next[n]
  BY <1>1, <1>2, <1>5
<1>7. /\ prev'[idx] = Node(L) /\ prev'[ListHead] = idx
      /\ \A n \in Nodes \cup {ListHead} : n # idx /\ n # ListHead => prev'[n] = prev[n]
  BY <1>1, <1>2, <1>5
<1>8. ASSUME NEW k \in 0 .. L
      PROVE  next'[Node(k)'] = Node(k + 1)' /\ prev'[Node(k + 1)'] = Node(k)'
  <2>1. CASE k = L
    <3>1. Node(k)' = Node(L) /\ Node(k + 1)' = idx
      BY <1>4, <2>1
    <3> QED
      BY <1>6, <1>7, <3>1
  <2>2. CASE k < L
    <3>1. k + 1 \in 0 .. L /\ L \in 0 .. L /\ k # L /\ k + 1 # 0
      BY <1>1, <2>2
    <3>2. Node(k) # Node(L) /\ Node(k) # idx /\ Node(k + 1) # ListHead /\ Node(k + 1) # idx
      BY <1>1, <1>2, <3>1
    <3>3. next[Node(k)] = Node(k + 1) /\ prev[Node(k + 1)] = Node(k)
      BY <1>1, <2>2 DEF RingInv
    <3> QED
      BY <1>1, <1>4, <1>6, <1>7, <3>1, <3>2, <3>3
  <2> QED
    BY <1>1, <2>1, <2>2
<1>9. live' = {order'[k] : k \in 1 .. L + 1}
  <2>1. live = {order[k] : k \in 1 .. L}
    BY <1>1 DEF RingInv
  <2>2. \A k \in 1 .. L + 1 : k \in 1 .. L \/ k = L + 1
    BY <1>1
  <2>3. L + 1 \in 1 .. L + 1 /\ \A k \in 1 .. L : k \in 1 .. L + 1
    BY <1>1
  <2>4. ASSUME NEW n \in live'
        PROVE  \E k \in 1 .. L + 1 : n = order'[k]
    BY <1>3, <1>5, <2>1, <2>3
  <2>5. \A k \in 1 .. L + 1 : order'[k] \in live'
    BY <1>3, <1>5, <2>1, <2>2
  <2> QED
    BY <2>4, <2>5
<1>10. RingInv'
  BY <1>1, <1>3, <1>4, <1>6, <1>7, <1>8, <1>9 DEF RingInv
<1>11. OrderInv'
  <2>1. \A k \in 1 .. L : order[k] < idx /\ order[k] \in 0 .. Count - 1
    BY <1>1 DEF OrderInv, Nodes
  <2>2. \A k \in 1 .. L + 1 : order'[k] < idx'
    BY <1>1, <1>2, <1>3, <2>1, CountAssumption
  <2>3. \A j, k \in 1 .. L : order[j] = order[k] => j = k
    BY <1>1 DEF OrderInv
  <2>4. \A j, k \in 1 .. L + 1 : order'[j] = order'[k] => j = k
    BY <1>1, <1>2, <1>3, <2>1, <2>3, CountAssumption
  <2> QED
    BY <1>3, <2>2, <2>4 DEF OrderInv
<1>12. /\ next' \in [Nodes \cup {ListHead} -> Pointers]
       /\ prev' \in [Nodes \cup {ListHead} -> Pointers]
  <2>1. Nodes \cup {ListHead} \subseteq Pointers
    BY CountAssumption DEF Nodes, ListHead, Pointers
  <2> QED
    BY <1>1, <1>5, <2>1
<1>13. live' \subseteq Nodes /\ id' \in [Nodes -> Processes]
  BY <1>5 DEF TypeOK
<1> QED
  BY <1>3, <1>10, <1>11, <1>12, <1>13

(* list_del of the first node, by the loop that deletes *)
LEMMA DeleteKeepsRing ==
    ASSUME TypeOK, OrderInv, RingInv, cursor = next[ListHead], cursor # ListHead,
           DeleteNode, UNCHANGED idx
    PROVE  /\ OrderInv' /\ RingInv'
           /\ live' \subseteq Nodes /\ order' \in Seq(Nodes)
           /\ next' \in [Nodes \cup {ListHead} -> Pointers]
           /\ prev' \in [Nodes \cup {ListHead} -> Pointers]
           /\ next'[ListHead] = next[cursor]
           /\ next[cursor] \in live' \cup {ListHead}
<1>1. PICK L \in Nat :
         /\ L = Len(order)
         /\ \A k \in 0 .. L : Node(k) \in Nodes \cup {ListHead}
         /\ \A k \in 0 .. L : Node(k) = ListHead <=> k = 0
         /\ \A j, k \in 0 .. L : Node(j) = Node(k) => j = k
         /\ \A k \in 1 .. L : order[k] \in Nodes
  BY NodeFacts
<1>2. /\ \A k \in 0 .. L :
            k < L => next[Node(k)] = Node(k + 1) /\ prev[Node(k + 1)] = Node(k)
      /\ next[Node(L)] = ListHead /\ prev[ListHead] = Node(L)
      /\ live = {order[k] : k \in 1 .. L}
      /\ Node(0) = ListHead /\ \A k \in 1 .. L : Node(k) = order[k]
  BY <1>1 DEF RingInv, Node
<1>3. L > 0
  BY <1>1, <1>2
<1>4. cursor = Node(1) /\ cursor = order[1] /\ prev[cursor] = ListHead
  BY <1>1, <1>2, <1>3
<1>5. next[cursor] = IF L = 1 THEN ListHead ELSE Node(2)
  BY <1>1, <1>2, <1>3, <1>4
<1>6. PICK M \in Nat : L = M + 1
  BY <1>3
<1>7. /\ order' \in Seq(Nodes) /\ Len(order') = M
      /\ \A k \in 1 .. M : order'[k] = order[k + 1]
  <2>1. order # <<>> /\ order \in Seq(Nodes) /\ order' = Tail(order)
    BY <1>1, <1>3, EmptySeq DEF DeleteNode, TypeOK
  <2>2. /\ Tail(order) \in Seq(Nodes) /\ Len(Tail(order)) = Len(order) - 1
        /\ \A k \in 1 .. Len(Tail(order)) : Tail(order)[k] = order[k + 1]
    BY <2>1, HeadTailProperties
  <2>3. Len(Tail(order)) = M
    BY <1>1, <1>6, <2>2
  <2> QED
    BY <2>1, <2>2, <2>3
<1>8. Node(0)' = ListHead /\ \A k \in 1 .. M : Node(k)' = Node(k + 1)
  BY <1>6, <1>7 DEF Node
<1>9. /\ next \in [Nodes \cup {ListHead} -> Pointers]
      /\ prev \in [Nodes \cup {ListHead} -> Pointers]
      /\ next' = [next EXCEPT ![ListHead] = next[cursor], ![cursor] = Poison]
      /\ prev' = [prev EXCEPT ![next[cursor]] = ListHead, ![cursor] = Poison]
      /\ live' = live \ {cursor}
  BY <1>4 DEF DeleteNode, TypeOK
<1>10. /\ cursor \in Nodes \cup {ListHead} /\ next[cursor] \in Nodes \cup {ListHead}
       /\ next[cursor] # cursor
  <2>1. Node(1) \in Nodes \cup {ListHead}
    BY <1>1, <1>3
  <2>2. L # 1 => Node(2) \in Nodes \cup {ListHead} /\ Node(2) # Node(1)
    BY <1>1, <1>3
  <2> QED
    BY <1>4, <1>5, <2>1, <2>2
<1>11. /\ next'[ListHead] = next[cursor]
       /\ \A n \in Nodes \cup {ListHead} : n # ListHead /\ n # cursor => next'[n] = next[n]
  BY <1>9, <1>10
<1>12. /\ prev'[next[cursor]] = ListHead
       /\ \A n \in Nodes \cup {ListHead} : n # next[cursor] /\ n # cursor => prev'[n] = prev[n]
  BY <1>9, <1>10
<1>13. ASSUME NEW k \in 0 .. M, k < M
       PROVE  next'[Node(k)'] = Node(k + 1)' /\ prev'[Node(k + 1)'] = Node(k)'
  <2>1. L # 1 /\ Node(1)' = Node(2) /\ Node(k + 1)' = Node(k + 2)
    BY <1>6, <1>8, <1>13
  <2>2. CASE k = 0
    BY <1>5, <1>8, <1>11, <1>12, <2>1, <2>2
  <2>3. CASE k # 0
    <3>1. /\ Node(k)' = Node(k + 1) /\ k + 1 \in 0 .. L /\ k + 2 \in 0 .. L /\ k + 1 < L
          /\ 1 \in 0 .. L /\ 2 \in 0 .. L /\ 0 \in 0 .. L
      BY <1>6, <1>8, <1>13, <2>3
    <3>2. /\ Node(k + 1) # ListHead /\ Node(k + 1) # Node(1)
          /\ Node(k + 2) # Node(1) /\ Node(k + 2) # Node(2)
      BY <1>1, <2>3, <3>1
    <3>3. next[Node(k + 1)] = Node(k + 2) /\ prev[Node(k + 2)] = Node(k + 1)
      <4>1. k + 1 + 1 = k + 2
        OBVIOUS
      <4> QED
        BY <1>2, <3>1, <4>1
    <3>4. Node(k + 1) \in Nodes \cup {ListHead} /\ Node(k + 2) \in Nodes \cup {ListHead}
      BY <1>1, <3>1
    <3> QED
      BY <1>4, <1>5, <1>11, <1>12, <2>1, <3>1, <3>2, <3>3, <3>4
  <2> QED
    BY <2>2, <2>3
<1>14. next'[Node(M)'] = ListHead /\ prev'[ListHead] = Node(M)'
  <2>1. CASE M = 0
    BY <1>5, <1>6, <1>8, <1>11, <1>12, <2>1
  <2>2. CASE M # 0
    <3>1. /\ Node(M)' = Node(L) /\ L # 1
          /\ L \in 0 .. L /\ 1 \in 0 .. L /\ 2 \in 0 .. L /\ 0 \in 0 .. L
      BY <1>6, <1>8, <2>2
    <3>2. /\ Node(L) # Node(1) /\ Node(L) # ListHead /\ ListHead # Node(1) /\ ListHead # Node(2)
          /\ Node(L) \in Nodes \cup {ListHead}
      BY <1>1, <1>3, <3>1
    <3> QED
      BY <1>2, <1>4, <1>5, <1>11, <1>12, <3>1, <3>2
  <2> QED
    BY <2>1, <2>2
<1>15. live' = {order'[k] : k \in 1 .. M}
  <2>1. \A k \in 1 .. L : order[k] = cursor <=> k = 1
    BY <1>1, <1>2, <1>3, <1>4
  <2>2. ASSUME NEW n \in live'
        PROVE  \E k \in 1 .. M : n = order'[k]
    <3>1. PICK j \in 1 .. L : n = order[j] /\ j # 1
      BY <1>2, <1>4, <1>9, <2>2
    <3>2. j - 1 \in 1 .. M /\ (j - 1) + 1 = j
      BY <1>6, <3>1
    <3> QED
      BY <1>7, <3>1, <3>2
  <2>3. ASSUME NEW k \in 1 .. M
        PROVE  order'[k] \in live'
    <3>1. k + 1 \in 1 .. L /\ k + 1 # 1
      BY <1>6
    <3> QED
      BY <1>2, <1>7, <1>9, <2>1, <3>1
  <2> QED
    BY <2>2, <2>3
<1>16. RingInv'
  BY <1>7, <1>13, <1>14, <1>15 DEF RingInv
<1>17. OrderInv'
  <2>1. /\ \A k \in 1 .. L : order[k] < idx
        /\ \A j, k \in 1 .. L : order[j] = order[k] => j = k
    BY <1>1 DEF OrderInv
  <2>2. \A k \in 1 .. M : k + 1 \in 1 .. L
    BY <1>6
  <2>3. \A j, k \in 1 .. M : order'[j] = order'[k] => j = k
    <3> SUFFICES ASSUME NEW j \in 1 .. M, NEW k \in 1 .. M, order'[j] = order'[k]
                 PROVE  j = k
      OBVIOUS
    <3>1. order[j + 1] = order[k + 1]
      BY <1>7
    <3>2. j + 1 = k + 1
      BY <2>1, <2>2, <3>1
    <3> QED
      BY <3>2
  <2>4. \A k \in 1 .. M : order'[k] < idx'
    BY <1>7, <2>1, <2>2
  <2> QED
    BY <1>7, <2>3, <2>4 DEF OrderInv
<1>18. /\ next' \in [Nodes \cup {ListHead} -> Pointers]
       /\ prev' \in [Nodes \cup {ListHead} -> Pointers]
  <2>1. Nodes \cup {ListHead} \subseteq Pointers /\ Poison \in Pointers
    BY CountAssumption DEF Nodes, ListHead, Pointers, Poison
  <2> QED
    BY <1>9, <1>10, <2>1
<1>19. live' \subseteq Nodes
  BY <1>9 DEF TypeOK
<1>20. next[cursor] \in live' \cup {ListHead}
  <2>1. CASE L = 1
    BY <1>5, <2>1
  <2>2. CASE L # 1
    <3>1. next[cursor] = order[2] /\ 2 \in 1 .. L
      BY <1>2, <1>3, <1>5, <2>2
    <3> QED
      BY <1>2, <1>9, <1>10, <3>1
  <2> QED
    BY <2>1, <2>2
<1> QED
  BY <1>7, <1>11, <1>16, <1>17, <1>18, <1>19, <1>20

(* The numbers of the nodes and the sequence Ring say the same. *)
LEMMA RingMeaning ==
    ASSUME TypeOK, OrderInv, RingInv
    PROVE  \A k \in 1 .. Len(Ring) : next[Ring[k]] = After(k) /\ prev[After(k)] = Ring[k]
<1>1. PICK L \in Nat : L = Len(order)
  BY NodeFacts
<1>2. /\ \A k \in 0 .. L :
            k < L => next[Node(k)] = Node(k + 1) /\ prev[Node(k + 1)] = Node(k)
      /\ next[Node(L)] = ListHead /\ prev[ListHead] = Node(L)
  BY <1>1 DEF RingInv
<1>3. Len(Ring) = L + 1 /\ \A k \in 1 .. L + 1 : Ring[k] = Node(k - 1)
  <2>1. order \in Seq(Nodes \cup {ListHead}) /\ <<ListHead>> \in Seq(Nodes \cup {ListHead})
    BY SeqMonotonic DEF TypeOK
  <2>2. Len(<<ListHead>>) = 1 /\ <<ListHead>>[1] = ListHead
    OBVIOUS
  <2>3. /\ Len(Ring) = 1 + L
        /\ \A k \in 1 .. 1 + L : Ring[k] = IF k <= 1 THEN <<ListHead>>[k] ELSE order[k - 1]
    BY <1>1, <2>1, <2>2, ConcatProperties DEF Ring
  <2> QED
    BY <1>1, <2>2, <2>3 DEF Node
<1>4. ASSUME NEW k \in 1 .. L + 1
      PROVE  next[Ring[k]] = After(k) /\ prev[After(k)] = Ring[k]
  <2>1. CASE k = L + 1
    <3>1. Ring[k] = Node(L) /\ Ring[1] = ListHead
      BY <1>3, <2>1 DEF Node
    <3> QED
      BY <1>2, <1>3, <2>1, <3>1 DEF After
  <2>2. CASE k # L + 1
    <3>1. k - 1 \in 0 .. L /\ k - 1 < L /\ (k - 1) + 1 = k /\ k + 1 \in 1 .. L + 1 /\ (k + 1) - 1 = k
      BY <2>2
    <3>2. Ring[k] = Node(k - 1) /\ Ring[k + 1] = Node(k)
      BY <1>3, <3>1
    <3>3. After(k) = Ring[k + 1]
      BY <1>3, <2>2 DEF After
    <3> QED
      BY <1>2, <3>1, <3>2, <3>3
  <2> QED
    BY <2>1, <2>2
<1> QED
  BY <1>3, <1>4

-----------------------------------------------------------------------------
(* Numbers *)

LEMMA LeastNat ==
    ASSUME NEW T, T \subseteq Nat, T # {}
    PROVE  \E x \in T : \A y \in T : x <= y
<1>1. PICK R : IsWellFoundedOn(R, Nat) /\ \A x, y \in Nat : x < y => <<x, y>> \in R
  <2>1. \A x, y \in Nat : x < y => <<x, y>> \in OpToRel(<, Nat)
    BY Zenon DEF OpToRel
  <2>2. IsWellFoundedOn(OpToRel(<, Nat), Nat)
    BY NatLessThanWellFounded, Zenon
  <2> QED
    BY <2>1, <2>2, Zenon
<1>2. PICK x \in T : \A y \in T : ~(<<y, x>> \in R)
  <2>1. IsWellFoundedOn(R, Nat) /\ T \subseteq Nat /\ T # {}
    BY <1>1
  <2>2. \A S, U : IsWellFoundedOn(R, S) /\ U \subseteq S /\ U # {} =>
                   \E x \in U : \A y \in U : ~(<<y, x>> \in R)
    BY WFMin
  <2> QED
    BY <2>1, <2>2, Zenon
<1>3. \A y \in T : x \in Nat /\ y \in Nat /\ ~(y < x)
  BY <1>1, <1>2
<1> QED
  BY <1>3

(* The greatest of the members of T below m *)
LEMMA GreatestBelow ==
    ASSUME NEW T, T \subseteq Nat, NEW m \in Nat, \E x \in T : x < m
    PROVE  \E x \in T : x < m /\ \A y \in T : y < m => y <= x
<1> DEFINE D == {d \in Nat : \E x \in T : x < m /\ x + d = m}
<1>1. D # {}
  <2>1. PICK x \in T : x < m
    OBVIOUS
  <2>2. m - x \in Nat /\ x + (m - x) = m
    BY <2>1
  <2> QED
    BY <2>1, <2>2
<1>2. PICK d \in D : \A e \in D : d <= e
  BY <1>1, LeastNat
<1>3. PICK x \in T : x < m /\ x + d = m
  BY <1>2
<1>4. ASSUME NEW y \in T, y < m
      PROVE  y <= x
  <2>1. m - y \in D
    <3>1. m - y \in Nat /\ y + (m - y) = m
      BY <1>4
    <3> QED
      BY <1>4, <3>1
  <2>2. d <= m - y
    BY <1>2, <2>1
  <2> QED
    BY <1>2, <1>3, <2>2
<1> QED
  BY <1>3, <1>4

-----------------------------------------------------------------------------
(* The process list *)

Tasks == Processes \cup {InitTask}

(* The processes that parse is done with *)
Done == skipped \cup {id[n] : n \in live}

(* Sets of tasks that the list does not lead out of before it comes round   *)
(* to init_task *)
ClosedTasks(f, S) == S \subseteq Tasks /\ \A p \in S \cap Processes : f[p] \in S

(* A walk that has read no freed task, and the task that parse looks at next *)
Making == file = "proc_info" /\ loader \in {"absent", "build", "node"} /\ ~stale
Start == IF loader = "node" THEN pro ELSE succ[pro]

(* The list leads to processes that were forked, and parse sees no others. *)
BornInv ==
    /\ whole \subseteq {p \in Processes : status[p] = "running"}
    /\ \A t \in Tasks : succ[t] \in Born \cup {InitTask}
    /\ pro \in Born \cup {InitTask}
    /\ loader = "node" => pro # InitTask
    /\ file = "proc_info" /\ ~stale =>
          /\ Done \subseteq Born
          /\ \A m, n \in live : id[m] = id[n] => m = n

(* A process that was there all the time is done or can be reached. *)
ReachInv ==
    Making => \A S : ClosedTasks(succ, S) /\ Start \in S => whole \ Done \subseteq S

(* No process that is done can be reached again. *)
AheadInv ==
    Making => \E S : ClosedTasks(succ, S) /\ Start \in S /\ S \cap Done = {}

(* No process can be reached from the one behind it. *)
AcyclicInv ==
    \A p \in Processes : \E S : ClosedTasks(succ, S) /\ succ[p] \in S /\ p \notin S

EndInv ==
    file = "proc_info" /\ loader = "live" /\ ~stale => whole \subseteq Done

WalkInv == BornInv /\ ReachInv /\ AheadInv /\ AcyclicInv /\ EndInv

Inv == TypeOK /\ ListInv /\ WalkInv /\ OnlyKnownFaults

-----------------------------------------------------------------------------
(* The list before insmod leads from each process to the next younger one. *)
LEMMA SuccessorFacts ==
    ASSUME NEW s \in SUBSET Processes, NEW f, f = Successor(s)
    PROVE  /\ f \in [Tasks -> s \cup {InitTask}]
           /\ \A p \in Processes : p < f[p] /\ \A r \in s : p < r => f[p] <= r
           /\ \A r \in s : f[InitTask] <= r
<1>1. /\ InitTask \in Nat /\ Processes \subseteq Nat /\ s \subseteq Processes
      /\ \A p \in Processes : p < InitTask
  BY CountAssumption DEF Processes, InitTask
<1> DEFINE follows(p, r) == p = InitTask \/ r = InitTask \/ r > p
           first(p, q) == /\ follows(p, q)
                          /\ \A r \in s : follows(p, r) /\ r # p => q <= r
<1>2. f = [p \in Tasks |-> CHOOSE q \in s \cup {InitTask} : first(p, q)]
  BY DEF Successor, Tasks
<1>3. ASSUME NEW p \in Tasks
      PROVE  f[p] \in s \cup {InitTask} /\ first(p, f[p])
  <2> DEFINE C == {q \in s \cup {InitTask} : follows(p, q)}
  <2>1. C \subseteq Nat /\ InitTask \in C
    BY <1>1
  <2>2. PICK q \in C : \A r \in C : q <= r
    BY <2>1, LeastNat
  <2>3. q \in s \cup {InitTask} /\ first(p, q)
    BY <2>2
  <2> HIDE DEF first
  <2>4. f[p] = CHOOSE x \in s \cup {InitTask} : first(p, x)
    BY <1>2
  <2> QED
    BY <2>3, <2>4
<1>4. ASSUME NEW p \in Processes
      PROVE  p < f[p] /\ \A r \in s : p < r => f[p] <= r
  <2>1. p \in Tasks /\ p # InitTask /\ p \in Nat
    BY <1>1 DEF Tasks
  <2>2. f[p] = InitTask \/ f[p] > p
    BY <1>3, <2>1
  <2> QED
    BY <1>1, <1>3, <2>1, <2>2
<1>5. \A r \in s : f[InitTask] <= r
  <2>1. InitTask \in Tasks /\ InitTask \notin s
    BY <1>1 DEF Tasks
  <2> QED
    BY <1>3, <2>1
<1>6. f \in [Tasks -> s \cup {InitTask}]
  <2> HIDE DEF first
  <2> QED
    BY <1>2, <1>3
<1> QED
  BY <1>4, <1>5, <1>6

LEMMA InitTypes == Init => TypeOK
<1> SUFFICES ASSUME Init
             PROVE  TypeOK
  OBVIOUS
<1>1. PICK s \in SUBSET Processes : status = Running(s) /\ succ = Successor(s) /\ whole = s
  BY DEF Init
<1>2. succ \in [Processes \cup {InitTask} -> Processes \cup {InitTask}]
  BY <1>1, SuccessorFacts DEF Tasks
<1>3. status \in [Processes -> {"unborn", "running", "exited", "freed"}]
  BY <1>1 DEF Running
<1>4. next \in [Nodes \cup {ListHead} -> Pointers] /\ prev \in [Nodes \cup {ListHead} -> Pointers]
  BY CountAssumption DEF Init, Nodes, ListHead, Pointers
<1>5. idx \in 0 .. Count /\ id \in [Nodes -> Processes] /\ cursor \in Pointers /\ tmp \in Pointers
  BY CountAssumption DEF Init, Nodes, Processes, ListHead, Pointers
<1>6. order \in Seq(Nodes) /\ live \subseteq Nodes /\ loader \in LoaderPhases
  BY EmptySeq DEF Init, LoaderPhases
<1>7. /\ file \in Files /\ pro \in Processes \cup {InitTask} /\ oops \in BOOLEAN
      /\ skipped \subseteq Processes /\ whole \subseteq Processes /\ stale \in BOOLEAN
  BY <1>1 DEF Init
<1> QED
  BY <1>2, <1>3, <1>4, <1>5, <1>6, <1>7 DEF TypeOK

LEMMA InitList == Init => ListInv
<1> SUFFICES ASSUME Init
             PROVE  ListInv
  OBVIOUS
<1>1. Len(order) = 0 /\ order = <<>> /\ live = {} /\ 1 .. 0 = {}
  BY DEF Init
<1>2. OrderInv
  BY <1>1 DEF OrderInv
<1>3. ListHead \in Nodes \cup {ListHead}
  OBVIOUS
<1>4. RingInv
  BY <1>1, <1>3 DEF Init, RingInv, Node
<1>5. LoopInv
  BY <1>1 DEF Init, LoopInv, Files, Nodes
<1> QED
  BY <1>2, <1>4, <1>5 DEF ListInv

LEMMA InitWalk == Init => WalkInv /\ OnlyKnownFaults
<1> SUFFICES ASSUME Init
             PROVE  WalkInv /\ OnlyKnownFaults
  OBVIOUS
<1>1. PICK s \in SUBSET Processes : status = Running(s) /\ succ = Successor(s) /\ whole = s
  BY DEF Init
<1>2. /\ succ \in [Tasks -> s \cup {InitTask}]
      /\ \A p \in Processes : p < succ[p] /\ \A r \in s : p < r => succ[p] <= r
      /\ \A r \in s : succ[InitTask] <= r
  BY <1>1, SuccessorFacts
<1>3. /\ Done = {} /\ Start = succ[InitTask] /\ live = {} /\ loader = "absent"
      /\ pro = InitTask /\ ~oops
  BY DEF Init, Done, Start
<1>4. /\ InitTask \in Nat /\ Processes \subseteq Nat
      /\ \A p \in Processes : p < InitTask
  BY CountAssumption DEF Processes, InitTask
<1>5. \A p \in s : p \in Processes /\ status[p] = "running" /\ p \in Born
  BY <1>1 DEF Running, Born
<1>6. BornInv
  BY <1>1, <1>2, <1>3, <1>5 DEF BornInv
<1>7. ASSUME NEW S, ClosedTasks(succ, S), succ[InitTask] \in S, NEW m \in s, m \notin S
      PROVE  FALSE
  <2> DEFINE T == s \cap S
  <2>1. T \subseteq Nat /\ m \in Nat /\ m < InitTask
    BY <1>4
  <2>2. \A t \in S : t \in s \cup {InitTask} /\ t <= m => t \in T /\ t < m
    BY <1>4, <1>7, <2>1
  <2>3. succ[InitTask] \in T /\ succ[InitTask] < m
    BY <1>2, <1>7, <2>2 DEF Tasks
  <2>4. PICK g \in T : g < m /\ \A y \in T : y < m => y <= g
    BY <2>1, <2>3, GreatestBelow
  <2>5. succ[g] \in S /\ succ[g] \in s \cup {InitTask} /\ g < succ[g] /\ succ[g] <= m
    BY <1>2, <1>5, <1>7, <2>4 DEF ClosedTasks, Tasks
  <2>6. succ[g] \in T /\ succ[g] < m
    BY <2>2, <2>5
  <2>7. succ[g] <= g /\ g \in Nat /\ succ[g] \in Nat
    BY <2>1, <2>4, <2>6
  <2> QED
    BY <2>5, <2>7
<1>8. ReachInv
  BY <1>1, <1>3, <1>7 DEF ReachInv
<1>9. ClosedTasks(succ, Tasks) /\ succ[InitTask] \in Tasks
  BY <1>2 DEF ClosedTasks, Tasks
<1>10. AheadInv
  BY <1>3, <1>9 DEF AheadInv
<1>11. ASSUME NEW p \in Processes
       PROVE  \E S : ClosedTasks(succ, S) /\ succ[p] \in S /\ p \notin S
  <2> DEFINE S == {q \in Tasks : p < q}
  <2>1. succ[p] \in S /\ p \notin S
    <3>1. p < succ[p] /\ succ[p] \in Tasks /\ p \in Nat
      BY <1>2, <1>4 DEF Tasks
    <3> QED
      BY <3>1
  <2>2. ASSUME NEW q \in S \cap Processes
        PROVE  succ[q] \in S
    <3>1. p < q /\ q < succ[q] /\ succ[q] \in Tasks /\ p \in Nat /\ q \in Nat /\ succ[q] \in Nat
      BY <1>2, <1>4 DEF Tasks
    <3> QED
      BY <3>1
  <2> QED
    BY <2>1, <2>2 DEF ClosedTasks
<1>12. AcyclicInv
  BY <1>11 DEF AcyclicInv
<1> QED
  BY <1>3, <1>6, <1>8, <1>10, <1>12 DEF WalkInv, EndInv, OnlyKnownFaults

-----------------------------------------------------------------------------
(* There is a node left for a process that has none yet: no two nodes are   *)
(* for the same process, unless the walk was led astray.                    *)
LEMMA RoomForNode ==
    ASSUME Inv, loader = "node"
    PROVE  /\ file = "proc_info" /\ pro \in Processes
           /\ ~stale => pro \notin Done /\ idx \in Nodes
           /\ \A n \in Nodes : n \in live <=> n < idx
<1>1. file = "proc_info" /\ \A n \in Nodes : n \in live <=> n < idx
  BY DEF Inv, TypeOK, Files, ListInv, LoopInv
<1>2. pro \in Processes
  BY DEF Inv, TypeOK, WalkInv, BornInv
<1>3. ~stale => pro \notin Done
  BY <1>1 DEF Inv, WalkInv, AheadInv, Making, Start
<1>4. ASSUME ~stale, idx = Count
      PROVE  FALSE
  <2>1. Count \in Nat /\ pro \in 0 .. Count - 1
    BY <1>2, CountAssumption DEF Processes
  <2>2. \A n \in 0 .. Count - 1 : n \in live /\ id[n] \in 0 .. Count - 1
    BY <1>1, <1>4, <2>1 DEF Inv, TypeOK, Nodes, Processes
  <2>3. \A m, n \in 0 .. Count - 1 : id[m] = id[n] => m = n
    BY <1>1, <1>4, <2>2 DEF Inv, WalkInv, BornInv
  <2>4. \A n \in 0 .. Count - 1 : id[n] # pro
    BY <1>3, <1>4, <2>2 DEF Done
  <2> DEFINE f == [k \in 1 .. Count + 1 |-> IF k <= Count THEN id[k - 1] + 1 ELSE pro + 1]
  <2>5. \A k \in 1 .. Count + 1 : k <= Count => k - 1 \in 0 .. Count - 1 /\ id[k - 1] \in 0 .. Count - 1
    BY <2>1, <2>2
  <2>6. f \in [1 .. Count + 1 -> 1 .. Count]
    BY <2>1, <2>5
  <2>7. ASSUME NEW a \in 1 .. Count + 1, NEW b \in 1 .. Count + 1, f[a] = f[b]
        PROVE  a = b
    <3>1. CASE a <= Count /\ b <= Count
      <4>1. id[a - 1] = id[b - 1]
        BY <2>5, <2>7, <3>1
      <4>2. a - 1 = b - 1
        BY <2>3, <2>5, <3>1, <4>1
      <4> QED
        BY <2>1, <4>2
    <3>2. CASE a <= Count /\ ~(b <= Count)
      BY <2>1, <2>4, <2>5, <2>7, <3>2
    <3>3. CASE ~(a <= Count) /\ b <= Count
      BY <2>1, <2>4, <2>5, <2>7, <3>3
    <3>4. CASE ~(a <= Count) /\ ~(b <= Count)
      BY <2>1, <3>4
    <3> QED
      BY <3>1, <3>2, <3>3, <3>4
  <2>8. f \in Injection(1 .. Count + 1, 1 .. Count)
    <3> HIDE DEF f
    <3> QED
      BY <2>6, <2>7, Fun_IsInj
  <2>9. Count + 1 <= Count
    BY <2>1, <2>8, Fun_NatInjLeq DEF ExistsInjection
  <2> QED
    BY <2>1, <2>9
<1>5. ~stale => idx \in Nodes
  BY <1>4, CountAssumption DEF Inv, TypeOK, Nodes
<1> QED
  BY <1>1, <1>2, <1>3, <1>5

(* What NodeForTask does, with memory for the node or without *)
LEMMA NodeEffect ==
    ASSUME Inv, NodeForTask
    PROVE  /\ file = "proc_info" /\ loader = "node" /\ loader' = "build" /\ pro \in Processes
           /\ UNCHANGED <<file, status, succ, whole, pro>> /\ stale' \in BOOLEAN
           /\ ~stale' =>
                 /\ ~stale /\ Done' = Done \cup {pro} /\ pro \notin Done
                 /\ \A m, n \in live' : id'[m] = id'[n] => m = n
<1>1. /\ loader = "node" /\ loader' = "build" /\ UNCHANGED <<file, status, succ, whole, pro>>
      /\ stale' \in BOOLEAN /\ (~stale' => ~stale)
  BY DEF NodeForTask, SkipOnFailure, UseTask, taskVars, Inv, TypeOK
<1>2. /\ file = "proc_info" /\ pro \in Processes
      /\ \A n \in Nodes : n \in live <=> n < idx
  BY <1>1, RoomForNode
<1>3. SUFFICES ASSUME ~stale'
               PROVE  /\ Done' = Done \cup {pro} /\ pro \notin Done
                      /\ \A m, n \in live' : id'[m] = id'[n] => m = n
  BY <1>1, <1>2
<1>4. /\ ~stale /\ pro \notin Done /\ idx \in Nodes
      /\ \A m, n \in live : id[m] = id[n] => m = n
  BY <1>1, <1>2, <1>3, RoomForNode DEF Inv, WalkInv, BornInv
<1>5. live \subseteq Nodes /\ id \in [Nodes -> Processes] /\ idx \notin live
  BY <1>2, <1>4, CountAssumption DEF Inv, TypeOK, Nodes
<1>6. CASE (\E i \in PidOf(pro) : AddNode(i)) /\ UseTask(pro) /\ UNCHANGED skipped
  <2>1. AddNode(pro)
    BY <1>3, <1>6 DEF UseTask, PidOf
  <2>2. /\ live' = live \cup {idx} /\ id'[idx] = pro
        /\ \A n \in live : id'[n] = id[n]
    BY <1>4, <1>5, <2>1 DEF AddNode
  <2>3. {id'[n] : n \in live'} = {id[n] : n \in live} \cup {pro}
    BY <1>5, <2>2
  <2> QED
    BY <1>4, <1>6, <2>2, <2>3 DEF Done
<1>7. CASE SkipOnFailure
  <2>1. UNCHANGED <<live, id>> /\ skipped' = skipped \cup {pro}
    BY <1>7 DEF SkipOnFailure, listVars
  <2> QED
    BY <1>4, <2>1 DEF Done
<1> QED
  BY <1>6, <1>7 DEF NodeForTask

-----------------------------------------------------------------------------
LEMMA FirstNode ==
    ASSUME TypeOK, OrderInv, RingInv
    PROVE  /\ next[ListHead] \in Nodes \cup {ListHead}
           /\ next[ListHead] = ListHead => order = <<>>
<1>1. PICK L \in Nat :
         /\ L = Len(order)
         /\ \A k \in 0 .. L : Node(k) \in Nodes \cup {ListHead}
         /\ \A k \in 0 .. L : Node(k) = ListHead <=> k = 0
  BY NodeFacts
<1>2. Node(0) = ListHead
  BY DEF Node
<1>3. CASE L = 0
  BY <1>1, <1>2, <1>3, EmptySeq DEF RingInv, TypeOK
<1>4. CASE L > 0
  <2>1. next[Node(0)] = Node(0 + 1) /\ 0 + 1 = 1
    BY <1>1, <1>4 DEF RingInv
  <2> QED
    BY <1>1, <1>2, <1>4, <2>1
<1> QED
  BY <1>3, <1>4

LEMMA RingStays ==
    ASSUME TypeOK, OrderInv, RingInv, UNCHANGED <<live, next, prev, order>>, idx' \in {idx, idx + 1}
    PROVE  OrderInv' /\ RingInv'
<1>1. RingInv'
  BY DEF RingInv, Node
<1>2. \A k \in 1 .. Len(order) : order[k] \in Nat /\ idx \in Nat
  BY NodeFacts, CountAssumption DEF Nodes, TypeOK
<1>3. OrderInv'
  BY <1>2 DEF OrderInv
<1> QED
  BY <1>1, <1>3

(* Both the types and the list need each other: the index stays in bounds   *)
(* because the nodes are numbered, and pointers are nodes because they form *)
(* a ring.                                                                  *)
LEMMA ListNext == Inv /\ [Next]_vars => TypeOK' /\ ListInv'
<1> SUFFICES ASSUME Inv, [Next]_vars
             PROVE  TypeOK' /\ ListInv'
  OBVIOUS
<1>1. TypeOK /\ OrderInv /\ RingInv /\ LoopInv
  BY DEF Inv, ListInv
<1>2. CASE Insmod
  <2>1. UNCHANGED <<file, listVars, cursorVars, taskVars, walkVars, oops>> /\ loader' = "build" /\ loader = "absent"
    BY <1>2 DEF Insmod
  <2>2. TypeOK'
    BY <1>1, <2>1 DEF TypeOK, LoaderPhases, listVars, cursorVars, taskVars, walkVars
  <2>3. OrderInv' /\ RingInv'
    BY <1>1, <2>1, RingStays DEF listVars
  <2>4. \A n \in Nodes : n \notin live /\ ~(n < idx)
    BY <1>1, <2>1, EmptySeq DEF LoopInv, RingInv, Nodes
  <2>5. LoopInv'
    BY <1>1, <2>1, <2>4 DEF LoopInv, listVars
  <2> QED
    BY <2>2, <2>3, <2>5 DEF ListInv
<1>3. CASE MakeNode
  <2>1. /\ file = "linked_list" /\ loader = "build" /\ idx \in Nodes /\ idx \in Processes
        /\ idx' = idx + 1 /\ UNCHANGED <<file, loader, cursorVars, taskVars, walkVars, oops>>
    BY <1>1, <1>3, CountAssumption DEF MakeNode, Bound, TypeOK, Nodes, Processes
  <2>2. idx' \in 0 .. Count
    BY <2>1, CountAssumption DEF Nodes
  <2>3. LoopInv'
    BY <1>1, <2>1 DEF LoopInv
  <2>4. CASE AddNode(idx)
    <3>1. /\ OrderInv' /\ RingInv'
          /\ live' \subseteq Nodes /\ order' \in Seq(Nodes) /\ id' \in [Nodes -> Processes]
          /\ next' \in [Nodes \cup {ListHead} -> Pointers]
          /\ prev' \in [Nodes \cup {ListHead} -> Pointers]
      BY <1>1, <2>1, <2>4, AddKeepsRing
    <3> QED
      BY <1>1, <2>1, <2>2, <2>3, <3>1 DEF TypeOK, ListInv, cursorVars, taskVars, walkVars
  <2>5. CASE UNCHANGED <<live, next, prev, id, order>>
    <3>1. OrderInv' /\ RingInv'
      BY <1>1, <2>1, <2>5, RingStays
    <3> QED
      BY <1>1, <2>1, <2>2, <2>3, <2>5, <3>1 DEF TypeOK, ListInv, cursorVars, taskVars, walkVars
  <2> QED
    BY <1>3, <2>4, <2>5 DEF MakeNode
<1>4. CASE DeleteAll
  <2>1. /\ UNCHANGED <<file, listVars, taskVars, walkVars, oops>> /\ loader' = "delete"
        /\ cursor' = next[ListHead] /\ tmp' = next[next[ListHead]]
    BY <1>4 DEF DeleteAll
  <2>2. next[ListHead] \in Nodes \cup {ListHead}
    BY <1>1, FirstNode
  <2>3. cursor' \in Pointers /\ tmp' \in Pointers
    BY <1>1, <2>1, <2>2, CountAssumption DEF TypeOK, Nodes, ListHead, Pointers
  <2>4. TypeOK'
    BY <1>1, <2>1, <2>3 DEF TypeOK, LoaderPhases, listVars, taskVars, walkVars
  <2>5. OrderInv' /\ RingInv'
    BY <1>1, <2>1, RingStays DEF listVars
  <2>6. LoopInv'
    BY <1>1, <2>1 DEF LoopInv, listVars
  <2> QED
    BY <2>4, <2>5, <2>6 DEF ListInv
<1>5. CASE DeleteNext
  <2>1. /\ loader = "delete" /\ cursor # ListHead /\ DeleteNode /\ cursor' = tmp
        /\ UNCHANGED <<file, loader, idx, id, taskVars, walkVars>>
        /\ cursor = next[ListHead] /\ tmp = next[cursor]
    BY <1>1, <1>5 DEF DeleteNext, NextInLoop, LoopInv
  <2>2. /\ OrderInv' /\ RingInv'
        /\ live' \subseteq Nodes /\ order' \in Seq(Nodes)
        /\ next' \in [Nodes \cup {ListHead} -> Pointers]
        /\ prev' \in [Nodes \cup {ListHead} -> Pointers]
        /\ cursor' = next'[ListHead] /\ cursor' \in live' \cup {ListHead}
    BY <1>1, <2>1, DeleteKeepsRing
  <2>3. tmp' = next'[cursor'] /\ UNCHANGED oops
    BY <1>5, <2>2 DEF DeleteNext
  <2>4. cursor' \in Pointers /\ tmp' \in Pointers
    BY <2>2, <2>3, CountAssumption DEF Nodes, ListHead, Pointers
  <2>5. TypeOK'
    BY <1>1, <2>1, <2>2, <2>3, <2>4 DEF TypeOK, taskVars, walkVars
  <2>6. LoopInv'
    BY <1>1, <2>1, <2>2, <2>3 DEF LoopInv
  <2> QED
    BY <2>2, <2>5, <2>6 DEF ListInv
<1>6. CASE Deleted \/ LlExit
  <2>1. /\ UNCHANGED <<file, listVars, cursorVars, taskVars, walkVars, oops>>
        /\ loader' \in {"live", "unloaded"}
        /\ loader' = "live" => file = "linked_list"
    BY <1>6 DEF Deleted, LlExit
  <2>2. TypeOK'
    BY <1>1, <2>1 DEF TypeOK, LoaderPhases, listVars, cursorVars, taskVars, walkVars
  <2>3. OrderInv' /\ RingInv'
    BY <1>1, <2>1, RingStays DEF listVars
  <2>4. order = <<>>
    BY <1>1, <1>6, FirstNode DEF Deleted, LlExit, LoopInv
  <2>5. LoopInv'
    BY <1>1, <2>1, <2>4 DEF LoopInv, listVars
  <2> QED
    BY <2>2, <2>3, <2>5 DEF ListInv
<1>7. CASE NextTask
  <2>1. /\ UNCHANGED <<file, listVars, cursorVars, taskVars, skipped>>
        /\ file = "proc_info" /\ loader = "build" /\ loader' \in {"live", "node"}
        /\ pro' \in Processes \cup {InitTask} /\ oops' \in BOOLEAN /\ stale' \in BOOLEAN
    BY <1>1, <1>7 DEF NextTask, UseTask, NextOf, Born, Freed, TypeOK
  <2>2. TypeOK'
    BY <1>1, <2>1 DEF TypeOK, LoaderPhases, listVars, cursorVars, taskVars
  <2>3. OrderInv' /\ RingInv'
    BY <1>1, <2>1, RingStays DEF listVars
  <2>4. LoopInv'
    BY <1>1, <2>1 DEF LoopInv, listVars
  <2> QED
    BY <2>2, <2>3, <2>4 DEF ListInv
<1>8. CASE NodeForTask
  <2>1. /\ file = "proc_info" /\ pro \in Processes /\ loader' = "build"
        /\ \A n \in Nodes : n \in live <=> n < idx
        /\ UNCHANGED <<file, cursorVars, taskVars, pro>>
        /\ stale' \in BOOLEAN
    BY <1>8, NodeEffect, RoomForNode DEF NodeForTask
  <2>2. CASE /\ stale => idx < Count
             /\ \E i \in PidOf(pro) : AddNode(i)
             /\ idx' = idx + 1 /\ UseTask(pro) /\ UNCHANGED skipped
    <3>a. idx \in Nodes
      <4>1. ~stale => idx \in Nodes
        BY <1>8, RoomForNode DEF NodeForTask
      <4>2. stale => idx \in Nodes
        BY <1>1, <2>2, CountAssumption DEF TypeOK, Nodes
      <4> QED
        BY <4>1, <4>2
    <3>b. PICK i \in Processes : AddNode(i)
      BY <2>1, <2>2 DEF PidOf
    <3>1. /\ OrderInv' /\ RingInv'
          /\ live' \subseteq Nodes /\ order' \in Seq(Nodes) /\ id' \in [Nodes -> Processes]
          /\ next' \in [Nodes \cup {ListHead} -> Pointers]
          /\ prev' \in [Nodes \cup {ListHead} -> Pointers]
      BY <1>1, <2>2, <3>a, <3>b, AddKeepsRing
    <3>2. oops' \in BOOLEAN /\ idx' \in 0 .. Count
      <4>1. oops' \in BOOLEAN
        BY <2>2 DEF UseTask, Freed
      <4>2. idx' \in 0 .. Count
        BY <2>2, <3>a, CountAssumption DEF Nodes
      <4> QED
        BY <4>1, <4>2
    <3>3. TypeOK'
      BY <1>1, <2>1, <2>2, <3>1, <3>2 DEF TypeOK, LoaderPhases, cursorVars, taskVars
    <3>4. \A n \in Nodes : n \in live' <=> n < idx'
      BY <2>1, <2>2, <3>a, <3>b, CountAssumption DEF AddNode, Nodes
    <3>5. LoopInv'
      BY <1>1, <2>1, <3>4 DEF LoopInv
    <3> QED
      BY <3>1, <3>3, <3>5 DEF ListInv
  <2>3. CASE SkipOnFailure
    <3>1. UNCHANGED <<listVars, oops>> /\ skipped' \subseteq Processes
      BY <1>1, <2>1, <2>3 DEF SkipOnFailure, TypeOK
    <3>2. OrderInv' /\ RingInv'
      BY <1>1, <3>1, RingStays DEF listVars
    <3>3. TypeOK'
      BY <1>1, <2>1, <3>1 DEF TypeOK, LoaderPhases, listVars, cursorVars, taskVars
    <3>4. LoopInv'
      BY <1>1, <2>1, <3>1 DEF LoopInv, listVars
    <3> QED
      BY <3>2, <3>3, <3>4 DEF ListInv
  <2> QED
    BY <1>8, <2>2, <2>3 DEF NodeForTask
<1>9. ASSUME NEW p \in Processes, Fork(p) \/ Exit(p) \/ FreeTask(p)
      PROVE  TypeOK' /\ ListInv'
  <2>1. UNCHANGED <<file, loader, listVars, cursorVars, walkVars, oops>>
    BY <1>9 DEF Fork, Exit, FreeTask
  <2>2. /\ status' \in [Processes -> {"unborn", "running", "exited", "freed"}]
        /\ succ' \in [Processes \cup {InitTask} -> Processes \cup {InitTask}]
        /\ whole' \subseteq Processes
    BY <1>1, <1>9 DEF TypeOK, Fork, Exit, FreeTask
  <2>3. TypeOK'
    BY <1>1, <2>1, <2>2 DEF TypeOK, listVars, cursorVars, walkVars
  <2>4. OrderInv' /\ RingInv'
    BY <1>1, <2>1, RingStays DEF listVars
  <2>5. LoopInv'
    BY <1>1, <2>1 DEF LoopInv, listVars, cursorVars
  <2> QED
    BY <2>3, <2>4, <2>5 DEF ListInv
<1>10. CASE UNCHANGED vars
  <2>1. TypeOK' /\ LoopInv'
    BY <1>1, <1>10 DEF vars, TypeOK, LoopInv
  <2>2. OrderInv' /\ RingInv'
    BY <1>1, <1>10, RingStays DEF vars
  <2> QED
    BY <2>1, <2>2 DEF ListInv
<1> QED
  BY <1>2, <1>3, <1>4, <1>5, <1>6, <1>7, <1>8, <1>9, <1>10 DEF Next, Module

-----------------------------------------------------------------------------
(* The steps, by what they do to the processes that are listed *)

(* A step that leaves the processes and parse alone *)
Quiet ==
    /\ UNCHANGED <<file, status, succ, whole, pro, skipped, stale>>
    /\ loader' = "node" <=> loader = "node"
    /\ file = "proc_info" =>
          /\ live' \subseteq live /\ id' = id
          /\ Making' => Making /\ live' = live
          /\ loader' = "live" => loader = "live" /\ live' = live

LEMMA StepKinds ==
    ASSUME Inv, [Next]_vars
    PROVE  \/ Quiet \/ NextTask \/ NodeForTask
           \/ \E p \in Processes : Fork(p) \/ Exit(p) \/ FreeTask(p)
<1> USE DEF Quiet, Making, taskVars, walkVars, listVars, cursorVars
<1>1. CASE Insmod
  BY <1>1 DEF Insmod
<1>2. CASE MakeNode
  BY <1>2 DEF MakeNode
<1>3. CASE DeleteAll
  BY <1>3 DEF DeleteAll
<1>4. CASE DeleteNext
  <2>1. live' \subseteq live
    BY <1>4 DEF DeleteNext, DeleteNode
  <2> QED
    BY <1>4, <2>1 DEF DeleteNext
<1>5. CASE Deleted \/ LlExit
  BY <1>5 DEF Deleted, LlExit
<1>6. CASE UNCHANGED vars
  BY <1>6 DEF vars
<1> QED
  BY <1>1, <1>2, <1>3, <1>4, <1>5, <1>6 DEF Next, Module

LEMMA NextTaskEffect ==
    ASSUME Inv, NextTask
    PROVE  /\ UNCHANGED <<file, status, succ, whole, skipped, live, id>> /\ Done' = Done
           /\ loader' = IF pro' = InitTask THEN "live" ELSE "node"
           /\ pro' \in Born \cup {InitTask} /\ pro' \in Tasks
           /\ ~stale' => ~stale /\ Making /\ Start = succ[pro] /\ pro' = succ[pro]
<1>1. /\ UNCHANGED <<file, status, succ, whole, skipped, live, id>>
      /\ file = "proc_info" /\ loader = "build"
      /\ loader' = IF pro' = InitTask THEN "live" ELSE "node"
      /\ pro' \in NextOf(pro) /\ stale' = (stale \/ Freed(pro))
  BY DEF NextTask, UseTask, listVars, taskVars
<1>2. Done' = Done
  BY <1>1 DEF Done
<1>3. pro' \in Born \cup {InitTask} /\ pro' \in Tasks
  BY <1>1 DEF NextOf, Born, Inv, TypeOK, WalkInv, BornInv, Tasks
<1>4. ~stale' => ~stale /\ Making /\ Start = succ[pro] /\ pro' = succ[pro]
  BY <1>1 DEF NextOf, Making, Start
<1> QED
  BY <1>1, <1>2, <1>3, <1>4

LEMMA ForkEffect ==
    ASSUME Inv, NEW p \in Processes, Fork(p)
    PROVE  /\ UNCHANGED <<file, loader, live, id, pro, skipped, whole, stale>>
           /\ Done' = Done /\ Making' = Making /\ file = "proc_info"
           /\ Born' = Born \cup {p} /\ p \notin Born /\ p # InitTask
           /\ succ'[p] = InitTask
           /\ \A q \in Tasks \ {p} :
                 succ'[q] = IF q \in InList /\ succ[q] = InitTask THEN p ELSE succ[q]
<1>1. /\ UNCHANGED <<file, loader, live, id, pro, skipped, whole, stale>>
      /\ file = "proc_info" /\ status[p] = "unborn" /\ status' = [status EXCEPT ![p] = "running"]
      /\ succ' = [q \in DOMAIN succ |->
                     IF q \in InList /\ succ[q] = InitTask THEN p
                     ELSE IF q = p THEN InitTask ELSE succ[q]]
  BY DEF Fork, Walking, listVars, walkVars
<1>2. DOMAIN succ = Tasks /\ p \in Tasks
  BY DEF Inv, TypeOK, Tasks
<1>3. p # InitTask
  BY CountAssumption DEF Processes, InitTask
<1>4. p \notin InList
  BY <1>1, <1>3 DEF InList
<1>5. Born' = Born \cup {p} /\ p \notin Born
  BY <1>1 DEF Born, Inv, TypeOK
<1>6. Done' = Done /\ Making' = Making
  BY <1>1 DEF Done, Making
<1> QED
  BY <1>1, <1>2, <1>3, <1>4, <1>5, <1>6

LEMMA ExitEffect ==
    ASSUME Inv, NEW p \in Processes, Exit(p)
    PROVE  /\ UNCHANGED <<file, loader, live, id, pro, skipped, stale>>
           /\ Done' = Done /\ Making' = Making /\ whole' = whole \ {p}
           /\ status' = [status EXCEPT ![p] = "exited"]
           /\ Born' = Born /\ succ'[p] = succ[p]
           /\ \A q \in Tasks : succ'[q] = IF q \in InList /\ succ[q] = p THEN succ[p] ELSE succ[q]
<1>1. /\ UNCHANGED <<file, loader, live, id, pro, skipped, stale>> /\ whole' = whole \ {p}
      /\ status[p] = "running" /\ status' = [status EXCEPT ![p] = "exited"]
      /\ succ' = [q \in DOMAIN succ |->
                     IF q \in InList /\ succ[q] = p THEN succ[p] ELSE succ[q]]
  BY DEF Exit, listVars, walkVars
<1>2. DOMAIN succ = Tasks /\ p \in Tasks
  BY DEF Inv, TypeOK, Tasks
<1>3. Born' = Born
  BY <1>1 DEF Born, Inv, TypeOK
<1>4. Done' = Done /\ Making' = Making
  BY <1>1 DEF Done, Making
<1> QED
  BY <1>1, <1>2, <1>3, <1>4

LEMMA FreeEffect ==
    ASSUME Inv, NEW p \in Processes, FreeTask(p)
    PROVE  /\ UNCHANGED <<file, loader, live, id, pro, skipped, whole, stale, succ>>
           /\ status' = [status EXCEPT ![p] = "freed"] /\ status[p] = "exited"
           /\ Born' = Born /\ Done' = Done /\ Making' = Making /\ Start' = Start
<1>1. /\ UNCHANGED <<file, loader, live, id, pro, skipped, whole, stale, succ>>
      /\ status' = [status EXCEPT ![p] = "freed"] /\ status[p] = "exited"
  BY DEF FreeTask, listVars, walkVars
<1>2. Born' = Born
  BY <1>1 DEF Born, Inv, TypeOK
<1>3. Done' = Done /\ Making' = Making /\ Start' = Start
  BY <1>1 DEF Done, Making, Start
<1> QED
  BY <1>1, <1>2, <1>3

(* What a quiet step leaves alone *)
LEMMA QuietEffect ==
    ASSUME Inv, Quiet
    PROVE  /\ Born' = Born
           /\ Making' => Making /\ Start' = Start /\ Done' = Done
           /\ file = "proc_info" => Done' \subseteq Done
<1>1. Born' = Born
  BY DEF Quiet, Born
<1>2. file = "proc_info" => Done' \subseteq Done
  BY DEF Quiet, Done
<1>3. ASSUME Making'
      PROVE  Making /\ Start' = Start /\ Done' = Done
  <2>1. Making /\ live' = live /\ id' = id /\ UNCHANGED <<succ, pro, skipped>>
    BY <1>3 DEF Quiet, Making
  <2> QED
    BY <2>1 DEF Quiet, Start, Done
<1> QED
  BY <1>1, <1>2, <1>3

(* From a set that is closed before a process is forked or exits to one     *)
(* that is closed afterwards *)
LEMMA ClosedAfter ==
    ASSUME Inv, NEW p \in Processes, NEW S, ClosedTasks(succ, S)
    PROVE  /\ Fork(p) => ClosedTasks(succ', S \cup {p, InitTask})
           /\ Exit(p) => ClosedTasks(succ', S)
<1>1. ASSUME Fork(p)
      PROVE  ClosedTasks(succ', S \cup {p, InitTask})
  <2>1. InitTask \notin Processes /\ succ'[p] = InitTask
    BY <1>1, CountAssumption, ForkEffect DEF Processes, InitTask
  <2>2. \A q \in S \cap Processes : q # p => succ'[q] \in {p, succ[q]}
    BY <1>1, ForkEffect DEF Tasks
  <2> QED
    BY <2>1, <2>2 DEF ClosedTasks, Tasks
<1>2. ASSUME Exit(p)
      PROVE  ClosedTasks(succ', S)
  BY <1>2, ExitEffect DEF ClosedTasks, Tasks
<1> QED
  BY <1>1, <1>2

(* and the other way round. *)
LEMMA ClosedBefore ==
    ASSUME Inv, NEW p \in Processes, NEW S, ClosedTasks(succ', S)
    PROVE  /\ Fork(p) => ClosedTasks(succ, (S \ {p}) \cup {InitTask})
           /\ Exit(p) => ClosedTasks(succ, IF succ[p] \in S THEN S \cup {p} ELSE S)
<1>1. ASSUME Fork(p)
      PROVE  ClosedTasks(succ, (S \ {p}) \cup {InitTask})
  <2>1. \A t \in Tasks : succ[t] # p
    BY <1>1, ForkEffect DEF Inv, WalkInv, BornInv
  <2>2. InitTask \notin Processes
    BY CountAssumption DEF Processes, InitTask
  <2>3. \A t \in (S \ {p}) \cap Processes : succ[t] \in (S \ {p}) \cup {InitTask}
    BY <1>1, <2>1, ForkEffect DEF ClosedTasks, Tasks
  <2> QED
    BY <2>2, <2>3 DEF ClosedTasks, Tasks
<1>2. ASSUME Exit(p)
      PROVE  ClosedTasks(succ, IF succ[p] \in S THEN S \cup {p} ELSE S)
  BY <1>2, ExitEffect DEF ClosedTasks, Tasks
<1> QED
  BY <1>1, <1>2

LEMMA BornNext == Inv /\ [Next]_vars => BornInv'
<1> SUFFICES ASSUME Inv, [Next]_vars
             PROVE  BornInv'
  OBVIOUS
<1>1. BornInv
  BY DEF Inv, WalkInv
<1>2. CASE Quiet
  <2>1. \A t \in Tasks : succ'[t] \in Born' \cup {InitTask}
    BY <1>1, <1>2, QuietEffect DEF BornInv, Quiet
  <2>2. file' = "proc_info" /\ ~stale' => Done' \subseteq Born' /\ \A m, n \in live' : id'[m] = id'[n] => m = n
    BY <1>1, <1>2, QuietEffect DEF BornInv, Quiet
  <2> QED
    BY <1>1, <1>2, <2>1, <2>2, QuietEffect DEF BornInv, Quiet
<1>3. CASE NextTask
  <2>1. Born' = Born
    BY <1>3, NextTaskEffect DEF Born
  <2>2. pro' \in Born \cup {InitTask}
    BY <1>3, NextTaskEffect
  <2> QED
    BY <1>1, <1>3, <2>1, <2>2, NextTaskEffect DEF BornInv
<1>4. CASE NodeForTask
  <2>1. Born' = Born
    BY <1>4, NodeEffect DEF Born
  <2>2. pro \in Born
    BY <1>1, <1>4, NodeEffect DEF BornInv
  <2> QED
    BY <1>1, <1>4, <2>1, <2>2, NodeEffect DEF BornInv
<1>5. ASSUME NEW p \in Processes, Fork(p)
      PROVE  BornInv'
  <2>1. \A t \in Tasks : succ'[t] \in Born' \cup {InitTask}
    BY <1>1, <1>5, ForkEffect DEF BornInv
  <2>2. whole' \subseteq {q \in Processes : status'[q] = "running"}
    <3>1. status' = [status EXCEPT ![p] = "running"]
      BY <1>5 DEF Fork
    <3> QED
      BY <1>1, <1>5, <3>1, ForkEffect DEF BornInv, Inv, TypeOK
  <2> QED
    BY <1>1, <1>5, <2>1, <2>2, ForkEffect DEF BornInv
<1>6. ASSUME NEW p \in Processes, Exit(p)
      PROVE  BornInv'
  <2>1. \A t \in Tasks : succ'[t] \in Born' \cup {InitTask}
    BY <1>1, <1>6, ExitEffect DEF BornInv, Tasks
  <2>2. whole' \subseteq {q \in Processes : status'[q] = "running"}
    BY <1>1, <1>6, ExitEffect DEF BornInv, Inv, TypeOK
  <2> QED
    BY <1>1, <1>6, <2>1, <2>2, ExitEffect DEF BornInv
<1>7. ASSUME NEW p \in Processes, FreeTask(p)
      PROVE  BornInv'
  <2>1. whole' \subseteq {q \in Processes : status'[q] = "running"}
    BY <1>1, <1>7, FreeEffect DEF BornInv, Inv, TypeOK
  <2> QED
    BY <1>1, <1>7, <2>1, FreeEffect DEF BornInv
<1> QED
  BY <1>2, <1>3, <1>4, <1>5, <1>6, <1>7, StepKinds

LEMMA AcyclicNext == Inv /\ [Next]_vars => AcyclicInv'
<1> SUFFICES ASSUME Inv, [Next]_vars, NEW x \in Processes
             PROVE  \E S : ClosedTasks(succ', S) /\ succ'[x] \in S /\ x \notin S
  BY DEF AcyclicInv
<1>1. PICK S : ClosedTasks(succ, S) /\ succ[x] \in S /\ x \notin S
  BY DEF Inv, WalkInv, AcyclicInv
<1>2. x # InitTask /\ x \in Tasks
  BY CountAssumption DEF Processes, InitTask, Tasks
<1>3. CASE succ' = succ
  BY <1>1, <1>3
<1>4. ASSUME NEW p \in Processes, Fork(p)
      PROVE  \E T : ClosedTasks(succ', T) /\ succ'[x] \in T /\ x \notin T
  <2>1. CASE x = p
    <3>1. ClosedTasks(succ', {InitTask})
      BY CountAssumption DEF ClosedTasks, Tasks, Processes, InitTask
    <3> QED
      BY <1>2, <1>4, <2>1, <3>1, ForkEffect
  <2>2. CASE x # p
    <3>1. ClosedTasks(succ', S \cup {p, InitTask})
      BY <1>1, <1>4, ClosedAfter
    <3>2. succ'[x] \in S \cup {p, InitTask}
      BY <1>1, <1>2, <1>4, <2>2, ForkEffect
    <3> QED
      BY <1>1, <1>2, <2>2, <3>1, <3>2
  <2> QED
    BY <2>1, <2>2
<1>5. ASSUME NEW p \in Processes, Exit(p)
      PROVE  \E T : ClosedTasks(succ', T) /\ succ'[x] \in T /\ x \notin T
  <2>1. ClosedTasks(succ', S)
    BY <1>1, <1>5, ClosedAfter
  <2>2. succ'[x] \in S
    BY <1>1, <1>2, <1>5, ExitEffect DEF ClosedTasks
  <2> QED
    BY <1>1, <2>1, <2>2
<1> QED
  BY <1>3, <1>4, <1>5, StepKinds, NextTaskEffect, NodeEffect, FreeEffect DEF Quiet

LEMMA ReachNext == Inv /\ [Next]_vars => ReachInv'
<1> SUFFICES ASSUME Inv, [Next]_vars, Making', NEW S, ClosedTasks(succ', S), Start' \in S
             PROVE  whole' \ Done' \subseteq S
  BY DEF ReachInv
<1>1. /\ BornInv /\ InitTask \notin Processes /\ whole \subseteq Processes /\ pro \in Tasks
      /\ \A T : Making /\ ClosedTasks(succ, T) /\ Start \in T => whole \ Done \subseteq T
  BY CountAssumption DEF Inv, TypeOK, WalkInv, ReachInv, Processes, InitTask, Tasks
<1>2. CASE Quiet
  BY <1>1, <1>2, QuietEffect DEF Quiet
<1>3. CASE NextTask
  BY <1>1, <1>3, NextTaskEffect DEF Start, Making
<1>4. CASE NodeForTask
  <2>1. Making /\ Start = pro /\ Start' = succ[pro] /\ pro \in Processes
    BY <1>4, NodeEffect DEF Making, Start
  <2>2. ClosedTasks(succ, S \cup {pro})
    BY <1>4, <2>1, NodeEffect DEF ClosedTasks, Tasks
  <2>3. ~stale'
    BY DEF Making
  <2> QED
    BY <1>1, <1>4, <2>1, <2>2, <2>3, NodeEffect
<1>5. ASSUME NEW p \in Processes, Fork(p)
      PROVE  whole' \ Done' \subseteq S
  <2> DEFINE T == (S \ {p}) \cup {InitTask}
  <2>1. ClosedTasks(succ, T) /\ Making
    BY <1>5, ClosedBefore, ForkEffect
  <2>2. pro # p /\ succ[pro] # p
    BY <1>1, <1>5, ForkEffect DEF BornInv, Born, Tasks
  <2>3. Start \in T
    BY <1>1, <1>5, <2>2, ForkEffect DEF Start
  <2> QED
    BY <1>1, <1>5, <2>1, <2>3, ForkEffect
<1>6. ASSUME NEW p \in Processes, Exit(p)
      PROVE  whole' \ Done' \subseteq S
  <2> DEFINE T == IF succ[p] \in S THEN S \cup {p} ELSE S
  <2>1. ClosedTasks(succ, T) /\ Making
    BY <1>6, ClosedBefore, ExitEffect
  <2>2. Start \in T
    BY <1>1, <1>6, ExitEffect DEF Start
  <2> QED
    BY <1>1, <1>6, <2>1, <2>2, ExitEffect
<1>7. ASSUME NEW p \in Processes, FreeTask(p)
      PROVE  whole' \ Done' \subseteq S
  BY <1>1, <1>7, FreeEffect
<1> QED
  BY <1>2, <1>3, <1>4, <1>5, <1>6, <1>7, StepKinds

LEMMA AheadNext == Inv /\ [Next]_vars => AheadInv'
<1> SUFFICES ASSUME Inv, [Next]_vars, Making'
             PROVE  \E S : ClosedTasks(succ', S) /\ Start' \in S /\ S \cap Done' = {}
  BY DEF AheadInv
<1>1. /\ BornInv /\ InitTask \notin Processes /\ Done \subseteq Processes /\ pro \in Tasks
      /\ Making => \E S : ClosedTasks(succ, S) /\ Start \in S /\ S \cap Done = {}
  <2>1. Done \subseteq Processes
    BY DEF Inv, TypeOK, Done
  <2>2. InitTask \notin Processes
    BY CountAssumption DEF Processes, InitTask
  <2> QED
    BY <2>1, <2>2 DEF Inv, TypeOK, WalkInv, AheadInv, Tasks
<1>2. CASE Quiet
  BY <1>1, <1>2, QuietEffect DEF Quiet
<1>3. CASE NextTask
  BY <1>1, <1>3, NextTaskEffect DEF Start, Making
<1>4. CASE NodeForTask
  <2>1. Making /\ Start = pro /\ Start' = succ[pro] /\ pro \in Processes
    BY <1>4, NodeEffect DEF Making, Start
  <2>2. PICK S : ClosedTasks(succ, S) /\ pro \in S /\ S \cap Done = {}
    BY <1>1, <2>1
  <2>3. PICK T : ClosedTasks(succ, T) /\ succ[pro] \in T /\ pro \notin T
    BY <2>1 DEF Inv, WalkInv, AcyclicInv
  <2>4. ClosedTasks(succ, S \cap T) /\ succ[pro] \in S \cap T
    BY <2>1, <2>2, <2>3 DEF ClosedTasks
  <2>5. (S \cap T) \cap Done' = {}
    <3>1. ~stale'
      BY DEF Making
    <3> QED
      BY <1>4, <2>2, <2>3, <3>1, NodeEffect
  <2> QED
    BY <1>4, <2>1, <2>4, <2>5, NodeEffect
<1>5. ASSUME NEW p \in Processes, Fork(p)
      PROVE  \E S : ClosedTasks(succ', S) /\ Start' \in S /\ S \cap Done' = {}
  <2>1. PICK S : ClosedTasks(succ, S) /\ Start \in S /\ S \cap Done = {}
    BY <1>1, <1>5, ForkEffect
  <2>2. ClosedTasks(succ', S \cup {p, InitTask})
    BY <1>5, <2>1, ClosedAfter
  <2>3. p \notin Done /\ InitTask \notin Done
    BY <1>1, <1>5, ForkEffect DEF BornInv, Making
  <2>4. Start' \in S \cup {p, InitTask}
    BY <1>1, <1>5, <2>1, ForkEffect DEF Start
  <2>5. (S \cup {p, InitTask}) \cap Done' = {}
    BY <1>5, <2>1, <2>3, ForkEffect
  <2> QED
    BY <2>2, <2>4, <2>5
<1>6. ASSUME NEW p \in Processes, Exit(p)
      PROVE  \E S : ClosedTasks(succ', S) /\ Start' \in S /\ S \cap Done' = {}
  <2>1. PICK S : ClosedTasks(succ, S) /\ Start \in S /\ S \cap Done = {}
    BY <1>1, <1>6, ExitEffect
  <2>2. ClosedTasks(succ', S)
    BY <1>6, <2>1, ClosedAfter
  <2>3. Start' \in S
    BY <1>1, <1>6, <2>1, ExitEffect DEF Start, ClosedTasks
  <2> QED
    BY <1>6, <2>1, <2>2, <2>3, ExitEffect
<1>7. ASSUME NEW p \in Processes, FreeTask(p)
      PROVE  \E S : ClosedTasks(succ', S) /\ Start' \in S /\ S \cap Done' = {}
  BY <1>1, <1>7, FreeEffect
<1> QED
  BY <1>2, <1>3, <1>4, <1>5, <1>6, <1>7, StepKinds

LEMMA EndNext == Inv /\ [Next]_vars => EndInv'
<1> SUFFICES ASSUME Inv, [Next]_vars, file' = "proc_info", loader' = "live", ~stale'
             PROVE  whole' \subseteq Done'
  BY DEF EndInv
<1>1. EndInv /\ whole \subseteq Processes /\ InitTask \notin Processes
  BY CountAssumption DEF Inv, TypeOK, WalkInv, Processes, InitTask
<1>2. CASE Quiet
  <2>1. loader = "live" /\ file = "proc_info" /\ ~stale /\ UNCHANGED <<live, id, skipped, whole>>
    BY <1>2 DEF Quiet
  <2> QED
    BY <1>1, <2>1 DEF EndInv, Done
<1>3. CASE NextTask
  <2>1. ClosedTasks(succ, {InitTask}) /\ Start = InitTask /\ Making
    BY <1>1, <1>3, NextTaskEffect DEF ClosedTasks, Tasks
  <2>2. whole \ Done \subseteq {InitTask}
    BY <2>1 DEF Inv, WalkInv, ReachInv
  <2> QED
    BY <1>1, <1>3, <2>2, NextTaskEffect
<1>4. ASSUME NEW p \in Processes, Fork(p) \/ Exit(p) \/ FreeTask(p)
      PROVE  FALSE
  BY <1>4 DEF Fork, Exit, FreeTask, Walking
<1> QED
  BY <1>2, <1>3, <1>4, StepKinds, NodeEffect

(* Only parse, reading a process that was freed, can fault. *)
LEMMA FaultNext == Inv /\ [Next]_vars => OnlyKnownFaults'
<1> SUFFICES ASSUME Inv, [Next]_vars, oops'
             PROVE  stale' /\ loader' \notin {"delete", "unloaded"}
  BY DEF OnlyKnownFaults
<1>1. CASE oops
  <2>1. UNCHANGED <<stale, loader>>
    BY <1>1 DEF Next, vars
  <2> QED
    BY <1>1, <2>1 DEF Inv, OnlyKnownFaults
<1>2. CASE ~oops
  <2>1. CASE DeleteNext
    <3>1. loader = "delete" /\ cursor # ListHead /\ cursor = next[ListHead] /\ tmp = next[cursor]
      BY <2>1 DEF DeleteNext, Inv, ListInv, LoopInv
    <3>2. tmp \in live' \cup {ListHead}
      BY <2>1, <3>1, DeleteKeepsRing DEF DeleteNext, Inv, ListInv
    <3> QED
      BY <1>2, <2>1, <3>2 DEF DeleteNext, NextInLoop
  <2>2. CASE NextTask
    BY <2>2 DEF NextTask, UseTask
  <2>3. CASE NodeForTask
    BY <1>2, <2>3 DEF NodeForTask, SkipOnFailure, UseTask
  <2> QED
    BY <1>2, <2>1, <2>2, <2>3
       DEF Next, Module, vars, Insmod, MakeNode, DeleteAll, Deleted, LlExit, Fork, Exit, FreeTask
<1> QED
  BY <1>1, <1>2

-----------------------------------------------------------------------------
LEMMA Invariance == Spec => []Inv
<1>1. Init => Inv
  BY InitTypes, InitList, InitWalk DEF Inv
<1>2. Inv /\ [Next]_vars => Inv'
  BY ListNext, BornNext, ReachNext, AheadNext, AcyclicNext, EndNext, FaultNext DEF Inv, WalkInv
<1> QED
  BY <1>1, <1>2, PTL DEF Spec

(* Type correctness, for any number of nodes and of processes: in           *)
(* particular the nodes that proc_info.c makes never run out, because no    *)
(* process gets two, unless the walk was led astray by a freed task.        *)
THEOREM TypeCorrect == Spec => []TypeOK
<1>1. Inv => TypeOK
  BY DEF Inv
<1> QED
  BY <1>1, Invariance, PTL

(* The list is a ring in both directions at every moment, of the nodes that *)
(* are allocated, and nothing is left of it when the module is unloaded.    *)
THEOREM ListStaysRing == Spec => []ListIsRing
<1>1. ASSUME Inv
      PROVE  ListIsRing
  <2>1. TypeOK /\ OrderInv /\ RingInv /\ LoopInv
    BY <1>1 DEF Inv, ListInv
  <2>2. loader = "unloaded" => live = {}
    BY <2>1, EmptySeq DEF LoopInv, RingInv
  <2> QED
    BY <2>1, <2>2, RingMeaning DEF ListIsRing, RingInv
<1> QED
  BY <1>1, Invariance, PTL

(* However many processes are forked, exit and are freed while parse walks  *)
(* the list without a lock: those that stay are all listed, and none twice, *)
(* by every walk that read no task_struct after it was freed.  Without that *)
(* condition it is not so.                                                  *)
THEOREM WalkIsComplete == Spec => []EveryProcessListed
<1>1. Inv => EveryProcessListed
  BY DEF Inv, WalkInv, BornInv, EndInv, Done, EveryProcessListed
<1> QED
  BY <1>1, Invariance, PTL

(* The module's own nodes are never used after kfree: list_for_each_safe    *)
(* has read the next pointer before.  A fault is that of a walk that read a *)
(* freed process.                                                           *)
THEOREM FaultsAreForeign == Spec => []OnlyKnownFaults
<1>1. Inv => OnlyKnownFaults
  BY DEF Inv
<1> QED
  BY <1>1, Invariance, PTL
=============================================================================
