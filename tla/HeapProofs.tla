------------------------------ MODULE HeapProofs ------------------------------
(* Machine-checked theorems about module ReminderHeap, for every set of keys *)
(* and every bound on the times and on the length of the slice.              *)
EXTENDS ReminderHeap, FunctionTheorems, FiniteSetTheorems, SequenceTheorems, TLAPS

-----------------------------------------------------------------------------
(* Types.                                                                    *)

LEMMA SwapType ==
  ASSUME NEW h \in Seq(Items), NEW i \in 1 .. Len(h), NEW j \in 1 .. Len(h)
  PROVE  LET g == [h EXCEPT ![i] = h[j], ![j] = h[i]]
         IN  /\ g \in Seq(Items) /\ Len(g) = Len(h)
             /\ g[i] = h[j] /\ g[j] = h[i]
             /\ \A k \in 1 .. Len(h) : k # i /\ k # j => g[k] = h[k]
  <1> DEFINE g == [h EXCEPT ![i] = h[j], ![j] = h[i]]
  <1>1. Len(h) \in Nat /\ h \in [1 .. Len(h) -> Items]
    OBVIOUS
  <1>2. g \in [1 .. Len(h) -> Items]
    BY <1>1
  <1>3. g \in Seq(Items) /\ Len(g) = Len(h)
    BY <1>1, <1>2
  <1>4. \A k \in 1 .. Len(h) : g[k] = IF k = j THEN h[i] ELSE IF k = i THEN h[j] ELSE h[k]
    BY <1>1
  <1>. QED
    BY <1>3, <1>4

LEMMA ItemTimes ==
  ASSUME NEW h \in Seq(Items), NEW i \in 1 .. Len(h)
  PROVE  h[i] \in Items /\ h[i].key \in Keys /\ h[i].time \in Times /\ h[i].time \in Nat
  <1>1. h[i] \in Items
    OBVIOUS
  <1>2. Times \subseteq Nat
    BY MaxTimeAssumption DEF Times
  <1>. QED
    BY <1>1, <1>2 DEF Items

LEMMA LastGone ==
  ASSUME NEW h \in Seq(Items), h # <<>>
  PROVE  LET g == SubSeq(h, 1, Len(h) - 1)
         IN  /\ g \in Seq(Items) /\ Len(g) = Len(h) - 1 /\ Len(h) >= 1
             /\ \A i \in 1 .. Len(h) - 1 : g[i] = h[i]
  <1>1. Len(h) \in Nat /\ Len(h) >= 1
    OBVIOUS
  <1> DEFINE n == Len(h) - 1
             g == SubSeq(h, 1, n)
  <1>2. n \in Int /\ n >= 0 /\ \A i \in 1 .. n : h[i] \in Items
    BY <1>1
  <1>. HIDE DEF n
  <1>3. /\ g \in Seq(Items) /\ Len(g) = IF 1 <= n THEN n - 1 + 1 ELSE 0
        /\ \A i \in 1 .. n - 1 + 1 : g[i] = h[1 + i - 1]
    BY <1>2, SubSeqProperties
  <1>. HIDE DEF g
  <1>4. Len(g) = n
    BY <1>2, <1>3
  <1>5. \A i \in 1 .. n : g[i] = h[i]
    BY <1>2, <1>3
  <1>. QED
    BY <1>1, <1>3, <1>4, <1>5 DEF g, n

(* The children of a position, and its parent.                               *)
LEMMA Family ==
  ASSUME NEW i \in Nat, i >= 1
  PROVE  /\ (2 * i) \div 2 = i /\ (2 * i + 1) \div 2 = i
         /\ i \div 2 \in Nat /\ i \div 2 < i
         /\ i > 1 => i \div 2 >= 1
         /\ \A c \in Nat : c \div 2 = i => c = 2 * i \/ c = 2 * i + 1
  OBVIOUS

LEMMA ChildIs ==
  ASSUME TypeOK, NEW i \in Nat, i >= 1, 2 * i <= Size
  PROVE  /\ Child(i) \in 2 .. Size /\ Child(i) \div 2 = i /\ Child(i) > i
         /\ Child(i) = 2 * i \/ Child(i) = 2 * i + 1
  <1>1. Size \in Int
    BY DEF TypeOK, Size
  <1>. QED
    BY <1>1, Family DEF Child

THEOREM HeapTyped == Spec => []TypeOK
<1>1. Init => TypeOK
  BY DEF Init, TypeOK
<1>2. TypeOK /\ [Next]_vars => TypeOK'
  <2> SUFFICES ASSUME TypeOK, [Next]_vars PROVE TypeOK'
    OBVIOUS
  <2>0. /\ Len(heap) \in Nat /\ heap \in Seq(Items)
        /\ heap # <<>> <=> Len(heap) >= 1
    BY DEF TypeOK
  <2>1. ASSUME NEW x \in Items, Insert(x) PROVE TypeOK'
    <3>1. heap' \in Seq(Items) /\ Len(heap') = Len(heap) + 1
      BY <2>0, <2>1 DEF Insert, PushLast
    <3>2. /\ op' = "push" /\ phase' = "up" /\ at' = Len(heap) + 1 /\ wanted' = wanted
          /\ start' = start /\ Size' = Len(heap')
      BY <2>1 DEF Insert, Goto, Size
    <3>. QED
      BY <2>0, <3>1, <3>2 DEF TypeOK
  <2>2. ASSUME NEW n \in {"pop", "remove"}, NEW k \in Keys \cup {Nothing},
               NEW i \in 1 .. Len(heap), Extract(n, k, i), n = "pop" => i = 1
        PROVE  TypeOK'
    <3>1. heap' \in Seq(Items) /\ Len(heap') = Len(heap)
      BY <2>0, <2>2, SwapType DEF Extract, Swap
    <3>2. /\ op' = n /\ wanted' = k /\ start' = i /\ at' = i
          /\ phase' = IF n = "remove" /\ i = Len(heap) THEN "take" ELSE "down"
          /\ Size' = Len(heap') - 1
      BY <2>2 DEF Extract, Goto, Size
    <3>. QED
      BY <2>0, <3>1, <3>2 DEF TypeOK
  <2>3. CASE TakeEarliest
    BY <2>0, <2>2, <2>3 DEF TakeEarliest
  <2>4. ASSUME NEW k \in Keys, TakeKey(k) PROVE TypeOK'
    <3>1. CASE UNCHANGED <<heap, loopVars>>
      BY <3>1 DEF TypeOK, loopVars, Size
    <3>. QED
      BY <2>2, <2>4, <3>1 DEF TakeKey
  <2>5. CASE Down
    <3> DEFINE c == Child(at)
    <3>0. /\ phase = "down" /\ at \in 1 .. Len(heap) /\ start \in 1 .. at
          /\ op \in {"pop", "remove"} /\ Size = Len(heap) - 1
          /\ UNCHANGED <<op, wanted, start>> /\ heap # <<>>
      BY <2>5 DEF Down, TypeOK, Size
    <3>1. CASE 2 * at <= Size /\ Less(c, at)
      <4>1. c \in 2 .. Size /\ c > at
        BY <2>0, <3>0, <3>1, ChildIs
      <4>2. Swap(at, c) /\ phase' = "down" /\ at' = c
        BY <2>5, <3>1 DEF Down, Goto
      <4>3. at \in 1 .. Len(heap) /\ c \in 1 .. Len(heap)
        BY <2>0, <3>0, <4>1
      <4> HIDE DEF c
      <4>4. heap' \in Seq(Items) /\ Len(heap') = Len(heap)
        BY <2>0, <4>2, <4>3, SwapType DEF Swap
      <4>. QED
        BY <2>0, <3>0, <4>1, <4>2, <4>4 DEF TypeOK, Size
    <3>2. CASE ~(2 * at <= Size /\ Less(c, at))
      <4>1. heap' = heap /\ at' = at
            /\ phase' = IF op = "remove" /\ at = start THEN "up" ELSE "take"
        BY <2>5, <3>2 DEF Down, Goto
      <4>. QED
        BY <2>0, <3>0, <4>1 DEF TypeOK, Size
    <3>. QED
      BY <3>1, <3>2
  <2>6. CASE Up
    <3>0. /\ phase = "up" /\ at \in 1 .. Size /\ op \in {"push", "remove"}
          /\ Size \in Int /\ Size <= Len(heap) /\ heap # <<>>
      BY <2>0, <2>6 DEF Up, TypeOK, Size
    <3>1. CASE at > 1 /\ Less(at, at \div 2)
      <4>1. at \div 2 \in 1 .. at
        BY <3>0, <3>1, Family
      <4>2. /\ heap' \in Seq(Items) /\ Len(heap') = Len(heap)
            /\ phase' = "up" /\ at' = at \div 2 /\ UNCHANGED <<op, wanted, start>>
        BY <2>0, <2>6, <3>0, <3>1, <4>1, SwapType DEF Up, Swap, Goto
      <4>. QED
        BY <2>0, <3>0, <4>1, <4>2 DEF TypeOK, Size
    <3>2. CASE ~(at > 1 /\ Less(at, at \div 2)) /\ op = "push"
      BY <2>0, <2>6, <3>2 DEF Up, Finish, TypeOK, Size
    <3>3. CASE ~(at > 1 /\ Less(at, at \div 2)) /\ op # "push"
      BY <2>0, <2>6, <3>0, <3>3 DEF Up, Goto, TypeOK, Size
    <3>. QED
      BY <3>1, <3>2, <3>3
  <2>7. CASE Take
    <3>1. Len(heap) - 1 \in 0 .. Len(heap) /\ heap # <<>>
      BY <2>0, <2>7 DEF Take, TypeOK
    <3>2. heap' \in Seq(Items) /\ Len(heap') = Len(heap) - 1
      BY <2>0, <2>7, <3>1, LastGone DEF Take, PopLast
    <3>. QED
      BY <2>7, <3>2 DEF Take, Finish, TypeOK, Size
  <2>8. CASE UNCHANGED vars
    BY <2>8 DEF vars, loopVars, TypeOK, Size
  <2>. QED
    BY <2>1, <2>3, <2>4, <2>5, <2>6, <2>7, <2>8 DEF Next
<1>. QED
  BY <1>1, <1>2, PTL DEF Spec

-----------------------------------------------------------------------------
(* The order.                                                                *)

(* What the steps rely on: where the loops are, and that times are numbers.  *)
LEMMA Placed ==
  ASSUME TypeOK
  PROVE  /\ Len(heap) \in Nat /\ Size \in Int /\ Size \in {Len(heap) - 1, Len(heap)}
         /\ \A i \in 1 .. Len(heap) : heap[i].time \in Nat
         /\ phase = "idle" => Size = Len(heap)
  BY ItemTimes DEF TypeOK, Size

(* The smaller child is no later than the other.                             *)
LEMMA ChildIsLeast ==
  ASSUME TypeOK, NEW i \in Nat, i >= 1, NEW j \in 2 .. Size, j \div 2 = i
  PROVE  2 * i <= Size /\ heap[Child(i)].time <= heap[j].time
  <1> DEFINE l == 2 * i
             r == 2 * i + 1
  <1>0. Len(heap) \in Nat /\ Size \in Int /\ Size <= Len(heap)
    BY Placed
  <1>f. j = l \/ j = r
    BY Family
  <1>1. /\ j = l \/ j = r
        /\ l <= Size /\ l \in 1 .. Len(heap) /\ j \in 1 .. Len(heap)
        /\ j = r => l < Size
        /\ l < Size => r \in 1 .. Len(heap)
    BY <1>0, <1>f
  <1>2. Child(i) = IF l < Size /\ heap[r].time < heap[l].time THEN r ELSE l
    BY DEF Child, Less
  <1>3. /\ heap[l].time \in Nat /\ heap[j].time \in Nat
        /\ l < Size => heap[r].time \in Nat
    BY <1>1, Placed
  <1>. HIDE DEF l, r
  <1>4. CASE l < Size /\ heap[r].time < heap[l].time
    <2>1. heap[r].time <= heap[l].time /\ heap[r].time <= heap[r].time
      BY <1>3, <1>4
    <2>. QED
      BY <1>1, <1>2, <1>4, <2>1 DEF l
  <1>5. CASE ~(l < Size /\ heap[r].time < heap[l].time)
    <2>1. heap[l].time <= heap[l].time /\ (j = r => heap[l].time <= heap[r].time)
      BY <1>1, <1>3, <1>5
    <2>. QED
      BY <1>1, <1>2, <1>5, <2>1 DEF l
  <1>. QED
    BY <1>4, <1>5

LEMMA InsertSifts ==
  ASSUME TypeOK, SiftOrdered, NEW x \in Items, Insert(x)
  PROVE  SiftOrdered'
  <1>1. /\ Len(heap) \in Nat /\ heap' = Append(heap, x) /\ Len(heap') = Len(heap) + 1
        /\ \A i \in 1 .. Len(heap) : heap'[i] = heap[i]
    BY Placed DEF Insert, PushLast, TypeOK
  <1>2. /\ phase = "idle" /\ Size = Len(heap)
        /\ phase' = "up" /\ at' = Len(heap) + 1 /\ Size' = Len(heap) + 1
    BY <1>1, Placed DEF Insert, Goto, Size
  <1>3. ASSUME NEW i \in 2 .. Size', i # at' PROVE Ordered(i)'
    <2>1. i \in 2 .. Size /\ Ordered(i) /\ i \div 2 \in 1 .. Len(heap)
      BY <1>1, <1>2, <1>3, Family DEF SiftOrdered, Settled
    <2>. QED
      BY <1>1, <1>2, <2>1 DEF Ordered
  <1>4. \A i \in 2 .. Size' : i \div 2 # at'
    BY <1>1, <1>2, Family
  <1>. QED
    BY <1>2, <1>3, <1>4 DEF SiftOrdered, Settled

LEMMA ExtractSifts ==
  ASSUME TypeOK, SiftOrdered, phase = "idle",
         NEW n \in {"pop", "remove"}, NEW k, NEW i \in 1 .. Len(heap),
         n = "pop" => i = 1, Extract(n, k, i)
  PROVE  SiftOrdered'
  <1>1. /\ Len(heap) \in Nat /\ Len(heap') = Len(heap)
        /\ \A j \in 1 .. Len(heap) : j # i /\ j # Len(heap) => heap'[j] = heap[j]
    BY Placed, SwapType DEF Extract, Swap, TypeOK
  <1>2. /\ Size = Len(heap) /\ op' = n /\ at' = i /\ start' = i /\ Size' = Len(heap) - 1
        /\ phase' = IF n = "remove" /\ i = Len(heap) THEN "take" ELSE "down"
    BY <1>1, Placed DEF Extract, Goto, Size
  <1>3. ASSUME NEW j \in 2 .. Size', j \div 2 # i, j # i PROVE Ordered(j)'
    <2>1. j \in 2 .. Size /\ Ordered(j) /\ j \div 2 \in 1 .. Len(heap) - 1
      BY <1>1, <1>2, <1>3, Family DEF SiftOrdered, Settled
    <2>. QED
      BY <1>1, <1>2, <1>3, <2>1 DEF Ordered
  <1>4. ASSUME NEW j \in 2 .. Size', Settled(j)' PROVE Ordered(j)'
    <2>1. CASE i = Len(heap)
      <3>1. j \div 2 # i /\ j # i
        BY <1>1, <1>2, <2>1, Family
      <3>. QED
        BY <1>3, <3>1
    <2>2. CASE i # Len(heap)
      <3>1. j \div 2 # i /\ (n = "remove" => j # i)
        BY <1>2, <1>4, <2>2 DEF Settled
      <3>2. j # i
        BY <3>1
      <3>. QED
        BY <1>3, <3>1, <3>2
    <2>. QED
      BY <2>1, <2>2
  <1>5. ASSUME NEW j \in 2 .. Size', j \div 2 = i, i > 1
        PROVE  heap'[i \div 2].time <= heap'[j].time
    <2>1. j \in 2 .. Size /\ i \in 2 .. Size /\ i \div 2 \in 1 .. Len(heap) /\ i < j
      BY <1>1, <1>2, <1>5, Family
    <2>2. Ordered(i) /\ Ordered(j)
      BY <2>1 DEF SiftOrdered, Settled
    <2> DEFINE a == i \div 2
    <2>3. heap'[a] = heap[a] /\ heap'[j] = heap[j]
      <3>1. a \in 1 .. Len(heap) /\ a < i
        BY <2>1
      <3>2. j \in 1 .. Len(heap) /\ j < Len(heap)
        BY <1>1, <1>2, <2>1
      <3> HIDE DEF a
      <3>3. a # i /\ a # Len(heap) /\ j # i /\ j # Len(heap)
        BY <1>1, <2>1, <3>1, <3>2
      <3>. QED
        BY <1>1, <3>1, <3>2, <3>3
    <2>4. /\ heap[i \div 2].time \in Nat /\ heap[i].time \in Nat /\ heap[j].time \in Nat
      BY <1>2, <2>1, Placed
    <2>. QED
      BY <1>5, <2>2, <2>3, <2>4 DEF Ordered
  <1>. QED
    BY <1>2, <1>4, <1>5 DEF SiftOrdered

LEMMA DownSifts ==
  ASSUME TypeOK, SiftOrdered, Down
  PROVE  SiftOrdered'
  <1> DEFINE c == Child(at)
  <1>0. /\ phase = "down" /\ op \in {"pop", "remove"} /\ at \in 1 .. Len(heap)
        /\ start \in 1 .. at /\ Len(heap) \in Nat /\ Size = Len(heap) - 1
        /\ op' = op /\ start' = start
    BY Placed DEF Down, TypeOK, Size
  <1>1. CASE 2 * at <= Size /\ Less(c, at)
    <2>1. c \in 2 .. Size /\ c \div 2 = at /\ c > at
      BY <1>0, <1>1, ChildIs
    <2>2. /\ Len(heap') = Len(heap) /\ heap'[at] = heap[c] /\ heap'[c] = heap[at]
          /\ \A i \in 1 .. Len(heap) : i # at /\ i # c => heap'[i] = heap[i]
      BY <1>0, <1>1, <2>1, SwapType DEF Down, Swap, TypeOK
    <2>3. phase' = "down" /\ at' = c /\ Size' = Size
      BY <1>0, <1>1, <2>2 DEF Down, Goto, Size
    <2>4. \A i \in 1 .. Len(heap) : heap[i].time \in Nat
      BY Placed
    <2>5. heap[c].time < heap[at].time
      BY <1>1 DEF Less
    <2>6. \A i \in 2 .. Size : i \div 2 = at => heap[c].time <= heap[i].time
      BY <1>0, ChildIsLeast
    <2>7. ASSUME NEW i \in 2 .. Size, i \div 2 # c
          PROVE  heap'[i \div 2].time <= heap'[i].time
      <3>0. i \div 2 \in 1 .. Size /\ i \div 2 < i /\ i \in 1 .. Len(heap)
        BY <1>0, Family
      <3>1. CASE i = at
        <4>1. heap'[i \div 2] = heap[i \div 2]
          BY <1>0, <2>1, <2>2, <3>0, <3>1
        <4>2. heap[at \div 2].time <= heap[c].time
          BY <1>0, <2>1, <3>1 DEF SiftOrdered
        <4>. QED
          BY <2>2, <3>1, <4>1, <4>2
      <3>2. CASE i = c
        BY <1>0, <2>1, <2>2, <2>4, <2>5, <3>2
      <3>3. CASE i # at /\ i # c /\ i \div 2 = at
        BY <2>2, <2>6, <3>0, <3>3
      <3>4. CASE i # at /\ i # c /\ i \div 2 # at
        <4>1. Ordered(i)
          BY <1>0, <3>4 DEF SiftOrdered, Settled
        <4>2. heap'[i] = heap[i] /\ heap'[i \div 2] = heap[i \div 2]
          BY <1>0, <2>2, <2>7, <3>0, <3>4
        <4>. QED
          BY <4>1, <4>2 DEF Ordered
      <3>. QED
        BY <3>1, <3>2, <3>3, <3>4
    <2>8. ASSUME NEW i \in 2 .. Size, i \div 2 = c
          PROVE  heap'[at].time <= heap'[i].time
      <3>1. i > c /\ i \in 1 .. Len(heap)
        BY <1>0, <2>1, <2>8, Family
      <3>2. Ordered(i)
        BY <1>0, <2>1, <2>8, <3>1 DEF SiftOrdered, Settled
      <3>. QED
        BY <2>1, <2>2, <2>8, <3>1, <3>2 DEF Ordered
    <2>. QED
      BY <2>1, <2>3, <2>7, <2>8 DEF SiftOrdered, Settled, Ordered
  <1>2. CASE ~(2 * at <= Size /\ Less(c, at))
    <2>1. /\ heap' = heap /\ at' = at /\ Size' = Size
          /\ phase' = IF op = "remove" /\ at = start THEN "up" ELSE "take"
      BY <1>2 DEF Down, Goto, Size
    <2>2. ASSUME NEW i \in 2 .. Size, i \div 2 = at PROVE Ordered(i)
      <3>1. 2 * at <= Size /\ heap[c].time <= heap[i].time
        BY <1>0, <2>2, ChildIsLeast
      <3>2. c \in 1 .. Len(heap) /\ i \in 1 .. Len(heap)
        BY <1>0, <3>1, ChildIs
      <3>3. heap[at].time \in Nat /\ heap[c].time \in Nat /\ heap[i].time \in Nat
        BY <1>0, <3>2, Placed
      <3>4. ~(heap[c].time < heap[at].time)
        BY <1>2, <3>1 DEF Less
      <3> HIDE DEF c
      <3>. QED
        BY <2>2, <3>1, <3>3, <3>4 DEF Ordered
    <2>3. ASSUME NEW i \in 2 .. Size, i = at => phase' # "up" PROVE Ordered(i)
      BY <1>0, <2>1, <2>2, <2>3 DEF SiftOrdered, Settled
    <2>4. at > 1 => \A i \in 2 .. Size : i \div 2 = at => heap[at \div 2].time <= heap[i].time
      BY <1>0 DEF SiftOrdered
    <2>. QED
      BY <2>1, <2>3, <2>4 DEF SiftOrdered, Settled, Ordered
  <1>. QED
    BY <1>1, <1>2

LEMMA UpSifts ==
  ASSUME TypeOK, SiftOrdered, Up
  PROVE  SiftOrdered'
  <1>0. /\ phase = "up" /\ op \in {"push", "remove"} /\ at \in 1 .. Size
        /\ Len(heap) \in Nat /\ Size \in Int /\ Size <= Len(heap)
        /\ op = "push" => Size = Len(heap)
        /\ \A i \in 1 .. Len(heap) : heap[i].time \in Nat
    BY Placed DEF Up, TypeOK, Size
  <1>1. CASE at > 1 /\ Less(at, at \div 2)
    <2> DEFINE p == at \div 2
    <2>1. p \in 1 .. Size /\ p < at
      BY <1>0, <1>1, Family
    <2> HIDE DEF p
    <2>2. /\ Len(heap') = Len(heap) /\ heap'[at] = heap[p] /\ heap'[p] = heap[at]
          /\ \A i \in 1 .. Len(heap) : i # at /\ i # p => heap'[i] = heap[i]
      BY <1>0, <1>1, <2>1, SwapType DEF Up, Swap, TypeOK, p
    <2>3. phase' = "up" /\ at' = p /\ op' = op /\ Size' = Size
      BY <1>0, <1>1, <2>2 DEF Up, Goto, Size, p
    <2>4. heap[at].time < heap[p].time
      BY <1>1 DEF Less, p
    <2>5. ASSUME NEW i \in 2 .. Size, i # at PROVE heap[i \div 2].time <= heap[i].time
      BY <1>0, <2>5 DEF SiftOrdered, Settled, Ordered
    <2>6. ASSUME NEW i \in 2 .. Size, i # p
          PROVE  heap'[i \div 2].time <= heap'[i].time
      <3>0. i \div 2 \in 1 .. Size /\ i \div 2 < i /\ i \in 1 .. Len(heap)
        BY <1>0, Family
      <3>1. CASE i = at
        BY <1>0, <2>1, <2>2, <2>4, <3>1 DEF p
      <3>2. CASE i # at /\ i \div 2 = p
        BY <1>0, <2>1, <2>2, <2>4, <2>5, <2>6, <3>0, <3>2
      <3>3. CASE i # at /\ i \div 2 = at
        <4>1. heap[p].time <= heap[i].time
          BY <1>0, <1>1, <3>3 DEF SiftOrdered, p
        <4>. QED
          BY <2>2, <2>6, <3>0, <3>3, <4>1
      <3>4. CASE i # at /\ i \div 2 # p /\ i \div 2 # at
        <4>1. heap'[i] = heap[i] /\ heap'[i \div 2] = heap[i \div 2]
          BY <1>0, <2>2, <2>6, <3>0, <3>4
        <4>. QED
          BY <2>5, <3>4, <4>1
      <3>. QED
        BY <3>1, <3>2, <3>3, <3>4
    <2>7. ASSUME NEW i \in 2 .. Size, i \div 2 = p, p > 1
          PROVE  heap'[p \div 2].time <= heap'[i].time
      <3>1. /\ p \div 2 \in 1 .. Size /\ p \div 2 < p /\ p < i
        BY <1>0, <2>1, <2>7, Family
      <3>2. heap'[p \div 2] = heap[p \div 2] /\ heap[p \div 2].time <= heap[p].time
        BY <1>0, <2>1, <2>2, <2>5, <2>7, <3>1
      <3>3. CASE i = at
        BY <2>2, <3>2, <3>3
      <3>4. CASE i # at
        <4>1. heap'[i] = heap[i] /\ heap[p].time <= heap[i].time
          BY <1>0, <2>2, <2>5, <2>7, <3>1, <3>4
        <4>2. /\ heap[p \div 2].time \in Nat /\ heap[p].time \in Nat /\ heap[i].time \in Nat
          BY <1>0, <2>1, <3>1
        <4>. QED
          BY <3>2, <4>1, <4>2
      <3>. QED
        BY <3>3, <3>4
    <2>. QED
      BY <2>3, <2>6, <2>7 DEF SiftOrdered, Settled, Ordered
  <1>2. CASE ~(at > 1 /\ Less(at, at \div 2))
    <2>1. /\ heap' = heap /\ phase' \in {"idle", "take"} /\ Size' = Size
      BY <1>0, <1>2 DEF Up, Goto, Finish, Size
    <2>2. ASSUME NEW i \in 2 .. Size PROVE Ordered(i)
      <3>1. CASE i = at
        <4>1. i \div 2 \in 1 .. Len(heap) /\ i \in 1 .. Len(heap) /\ at > 1
          BY <1>0, <3>1, Family
        <4>. QED
          BY <1>0, <1>2, <3>1, <4>1 DEF Ordered, Less
      <3>2. CASE i # at
        BY <1>0, <3>2 DEF SiftOrdered, Settled
      <3>. QED
        BY <3>1, <3>2
    <2>. QED
      BY <2>1, <2>2 DEF SiftOrdered, Settled, Ordered
  <1>. QED
    BY <1>1, <1>2

LEMMA TakeSifts ==
  ASSUME TypeOK, SiftOrdered, Take
  PROVE  SiftOrdered'
  <1>1. /\ phase = "take" /\ Len(heap) \in Nat /\ Size = Len(heap) - 1
        /\ phase' = "idle" /\ op' = "none"
    BY Placed DEF Take, Finish, TypeOK, Size
  <1>2. /\ Len(heap') = Len(heap) - 1 /\ \A i \in 1 .. Len(heap) - 1 : heap'[i] = heap[i]
    BY LastGone DEF Take, PopLast, TypeOK
  <1>3. Size' = Size
    BY <1>1, <1>2 DEF Size
  <1>4. ASSUME NEW i \in 2 .. Size PROVE Ordered(i)'
    <2>1. Ordered(i) /\ i \div 2 \in 1 .. Len(heap) - 1 /\ i \in 1 .. Len(heap) - 1
      BY <1>1, Family DEF SiftOrdered, Settled
    <2>. QED
      BY <1>2, <2>1 DEF Ordered
  <1>. QED
    BY <1>1, <1>3, <1>4 DEF SiftOrdered

THEOREM AlwaysSifts == Spec => []SiftOrdered
<1>1. Init => SiftOrdered
  BY DEF Init, SiftOrdered, Size
<1>2. TypeOK /\ SiftOrdered /\ [Next]_vars => SiftOrdered'
  <2> SUFFICES ASSUME TypeOK, SiftOrdered, [Next]_vars PROVE SiftOrdered'
    OBVIOUS
  <2>1. CASE UNCHANGED <<heap, loopVars>>
    BY <2>1 DEF loopVars, SiftOrdered, Settled, Ordered, Size
  <2>2. CASE TakeEarliest
    <3>1. 1 \in 1 .. Len(heap)
      BY <2>2 DEF TakeEarliest, TypeOK
    <3>. QED
      BY <2>2, <3>1, ExtractSifts DEF TakeEarliest
  <2>3. ASSUME NEW k \in Keys, TakeKey(k) PROVE SiftOrdered'
    BY <2>1, <2>3, ExtractSifts DEF TakeKey
  <2>4. CASE UNCHANGED vars
    BY <2>1, <2>4 DEF vars
  <2>. QED
    BY <2>2, <2>3, <2>4, InsertSifts, DownSifts, UpSifts, TakeSifts DEF Next
<1>. QED
  BY <1>1, <1>2, HeapTyped, PTL DEF Spec

(* Whatever is pushed, popped and removed, the slice is a heap again when    *)
(* the operation ends.                                                       *)
THEOREM StaysHeap == Spec => []HeapOrdered
<1>1. TypeOK /\ SiftOrdered => HeapOrdered
  BY Placed DEF SiftOrdered, Settled, HeapOrdered
<1>. QED
  BY <1>1, HeapTyped, AlwaysSifts, PTL

-----------------------------------------------------------------------------
(* The earliest item is at the root.                                         *)

(* A set of numbers has a least one: the intervals below its members are     *)
(* finite sets, and inclusion is well-founded on these.                      *)
LEMMA LeastNumber ==
  ASSUME NEW S \in SUBSET Nat, S # {}
  PROVE  \E m \in S : \A n \in S : m <= n
  <1> DEFINE T == {0 .. n : n \in S}
  <1>1. IsWellFoundedOn(StrictSubsetOrdering(Nat), FiniteSubsetsOf(Nat))
    BY FS_StrictSubsetOrderingWellFounded
  <1>2. T \subseteq FiniteSubsetsOf(Nat)
    <2> SUFFICES ASSUME NEW n \in S PROVE 0 .. n \in FiniteSubsetsOf(Nat)
      OBVIOUS
    <2>1. n \in Int /\ 0 \in Int /\ 0 .. n \in SUBSET Nat
      OBVIOUS
    <2>2. IsFiniteSet(0 .. n)
      BY <2>1, FS_Interval
    <2>. QED
      BY <2>1, <2>2 DEF FiniteSubsetsOf
  <1>3. T # {}
    OBVIOUS
  <1>4. PICK x \in T : \A y \in T : ~(<<y, x>> \in StrictSubsetOrdering(Nat))
    <2> HIDE DEF T
    <2>. QED
      BY <1>1, <1>2, <1>3, WFMin
  <1>5. PICK m \in S : x = 0 .. m
    BY <1>4
  <1>6. ASSUME NEW n \in S, n < m PROVE FALSE
    <2>1. 0 .. n \in SUBSET Nat /\ 0 .. m \in SUBSET Nat
      OBVIOUS
    <2>2. 0 .. n \subseteq 0 .. m /\ m \in 0 .. m /\ m \notin 0 .. n
      BY <1>6
    <2>3. <<0 .. n, 0 .. m>> \in StrictSubsetOrdering(Nat)
      BY <2>1, <2>2 DEF StrictSubsetOrdering
    <2>. QED
      BY <1>4, <1>5, <2>3
  <1>7. \A n \in S : m <= n
    BY <1>6
  <1>. QED
    BY <1>7

(* Had the root a later time than some item, the first such item would have  *)
(* a later parent.                                                           *)
LEMMA RootIsLeast ==
  ASSUME TypeOK, SiftOrdered, phase = "idle", NEW i \in 1 .. Len(heap)
  PROVE  heap[1].time <= heap[i].time
  <1> DEFINE Earlier == {n \in 1 .. Len(heap) : heap[n].time < heap[1].time}
  <1>0. /\ Len(heap) \in Nat /\ 1 \in 1 .. Len(heap)
        /\ \A n \in 1 .. Len(heap) : heap[n].time \in Nat
    BY Placed
  <1>1. Earlier = {}
    <2> SUFFICES ASSUME Earlier # {} PROVE FALSE
      OBVIOUS
    <2>1. Earlier \in SUBSET Nat
      OBVIOUS
    <2>2. PICK m \in Earlier : \A n \in Earlier : m <= n
      <3> HIDE DEF Earlier
      <3>. QED
        BY <2>1, LeastNumber
    <2>3. m \in 2 .. Len(heap) /\ m \div 2 \in 1 .. Len(heap) /\ m \div 2 < m
      BY <1>0, <2>2, Family
    <2>4. m \div 2 \notin Earlier
      BY <2>2, <2>3
    <2>5. heap[m \div 2].time <= heap[m].time
      BY <2>3, Placed DEF SiftOrdered, Settled, Ordered
    <2>. QED
      BY <1>0, <2>2, <2>3, <2>4, <2>5
  <1>. QED
    BY <1>0, <1>1

THEOREM AlwaysRight == Spec => []RightOneWaits
<1>1. Init => RightOneWaits
  BY DEF Init, RightOneWaits
<1>2. TypeOK /\ SiftOrdered /\ RightOneWaits /\ [Next]_vars => RightOneWaits'
  <2> SUFFICES ASSUME TypeOK, SiftOrdered, RightOneWaits, [Next]_vars PROVE RightOneWaits'
    OBVIOUS
  <2>0. Len(heap) \in Nat
    BY Placed
  <2>1. CASE UNCHANGED <<heap, loopVars>>
    BY <2>1 DEF loopVars, RightOneWaits
  <2>2. CASE TakeEarliest
    <3>1. /\ 1 \in 1 .. Len(heap) /\ Len(heap) \in 1 .. Len(heap) /\ phase = "idle"
          /\ Extract("pop", Nothing, 1)
      BY <2>0, <2>2 DEF TakeEarliest, TypeOK
    <3>2. /\ Len(heap') = Len(heap) /\ heap'[1] = heap[Len(heap)]
          /\ heap'[Len(heap)] = heap[1]
          /\ \A i \in 1 .. Len(heap) : i # 1 /\ i # Len(heap) => heap'[i] = heap[i]
      BY <3>1, SwapType DEF Extract, Swap, TypeOK
    <3>3. \A i \in 1 .. Len(heap) : heap[1].time <= heap[i].time
      BY <3>1, RootIsLeast
    <3>4. op' = "pop" /\ wanted' = Nothing
      BY <3>1 DEF Extract
    <3>. QED
      BY <3>1, <3>2, <3>3, <3>4 DEF RightOneWaits
  <2>3. ASSUME NEW k \in Keys, TakeKey(k) PROVE RightOneWaits'
    <3>1. ASSUME NEW i \in 1 .. Len(heap), heap[i].key = k, Extract("remove", k, i)
          PROVE  RightOneWaits'
      <4>1. /\ Len(heap) \in 1 .. Len(heap) /\ Len(heap') = Len(heap)
            /\ heap'[Len(heap)] = heap[i]
        BY <2>0, <3>1, SwapType DEF Extract, Swap, TypeOK
      <4>2. op' = "remove" /\ wanted' = k
        BY <3>1 DEF Extract
      <4>. QED
        BY <3>1, <4>1, <4>2 DEF RightOneWaits
    <3>. QED
      BY <2>1, <2>3, <3>1 DEF TakeKey
  <2>4. ASSUME NEW i \in 1 .. Size, NEW j \in 1 .. Size, Swap(i, j),
               op' = op, wanted' = wanted, op \in {"pop", "remove", "push"}
        PROVE  RightOneWaits'
    <3>1. CASE op = "push"
      BY <2>4, <3>1 DEF RightOneWaits
    <3>2. CASE op \in {"pop", "remove"}
      <4>1. Size = Len(heap) - 1 /\ i \in 1 .. Len(heap) /\ j \in 1 .. Len(heap)
        BY <2>0, <2>4, <3>2 DEF Size
      <4>2. /\ Len(heap') = Len(heap) /\ heap'[i] = heap[j] /\ heap'[j] = heap[i]
            /\ \A n \in 1 .. Len(heap) : n # i /\ n # j => heap'[n] = heap[n]
        BY <2>4, <4>1, SwapType DEF Swap, TypeOK
      <4>3. heap'[Len(heap)] = heap[Len(heap)]
        BY <2>0, <2>4, <4>1, <4>2
      <4>. QED
        BY <2>4, <4>1, <4>2, <4>3 DEF RightOneWaits
    <3>. QED
      BY <2>4, <3>1, <3>2
  <2>5. CASE Down
    <3>0. /\ at \in 1 .. Len(heap) /\ Size = Len(heap) - 1
          /\ op \in {"pop", "remove"} /\ op' = op /\ wanted' = wanted
      BY <2>5 DEF Down, TypeOK, Size
    <3>1. CASE 2 * at <= Size /\ Less(Child(at), at)
      <4>1. Child(at) \in 1 .. Size /\ at \in 1 .. Size
        BY <2>0, <3>0, <3>1, ChildIs
      <4>. QED
        BY <2>4, <2>5, <3>0, <3>1, <4>1 DEF Down
    <3>. QED
      BY <2>5, <3>0, <3>1 DEF Down, RightOneWaits
  <2>6. CASE Up
    <3>0. /\ at \in 1 .. Size /\ Size \in Int /\ op \in {"push", "remove"}
      BY <2>0, <2>6 DEF Up, TypeOK, Size
    <3>1. CASE at > 1 /\ Less(at, at \div 2)
      <4>1. at \div 2 \in 1 .. Size
        BY <3>0, <3>1, Family
      <4>. QED
        BY <2>4, <2>6, <3>0, <3>1, <4>1 DEF Up
    <3>. QED
      BY <2>6, <3>0, <3>1 DEF Up, Finish, RightOneWaits
  <2>7. CASE Take \/ (\E x \in Items : Insert(x))
    BY <2>7 DEF Take, Finish, Insert, RightOneWaits
  <2>8. CASE UNCHANGED vars
    BY <2>1, <2>8 DEF vars
  <2>. QED
    BY <2>2, <2>3, <2>5, <2>6, <2>7, <2>8 DEF Next
<1>. QED
  BY <1>1, <1>2, HeapTyped, AlwaysSifts, PTL DEF Spec

-----------------------------------------------------------------------------
(* The slice as a bag.                                                       *)

Places(h, x) == {i \in 1 .. Len(h) : h[i] = x}
Count(h, x) == Cardinality(Places(h, x))

LEMMA CountIs ==
  ASSUME NEW h \in Seq(Items), NEW x
  PROVE  /\ IsFiniteSet(Places(h, x)) /\ Count(h, x) \in Nat
         /\ Count(h, x) > 0 <=> \E i \in 1 .. Len(h) : h[i] = x
  <1>1. Len(h) \in Int /\ 1 \in Int /\ Places(h, x) \in SUBSET (1 .. Len(h))
    BY DEF Places
  <1>2. IsFiniteSet(1 .. Len(h))
    BY <1>1, FS_Interval
  <1>3. IsFiniteSet(Places(h, x))
    BY <1>1, <1>2, FS_Subset
  <1>4. Count(h, x) \in Nat /\ (Count(h, x) = 0 <=> Places(h, x) = {})
    BY <1>3, FS_CardinalityType, FS_EmptySet DEF Count
  <1>. QED
    BY <1>3, <1>4 DEF Places

LEMMA CountSwap ==
  ASSUME NEW h \in Seq(Items), NEW i \in 1 .. Len(h), NEW j \in 1 .. Len(h), NEW x
  PROVE  Count([h EXCEPT ![i] = h[j], ![j] = h[i]], x) = Count(h, x)
  <1> DEFINE g == [h EXCEPT ![i] = h[j], ![j] = h[i]]
             swap == [n \in Places(h, x) |-> IF n = i THEN j ELSE IF n = j THEN i ELSE n]
  <1>1. /\ g \in Seq(Items) /\ Len(g) = Len(h) /\ g[i] = h[j] /\ g[j] = h[i]
        /\ \A n \in 1 .. Len(h) : n # i /\ n # j => g[n] = h[n]
    BY SwapType
  <1> HIDE DEF g
  <1>2. swap \in [Places(h, x) -> Places(g, x)]
    BY <1>1 DEF Places
  <1>3. \A m, n \in Places(h, x) : swap[m] = swap[n] => m = n
    OBVIOUS
  <1>4. ASSUME NEW m \in Places(g, x)
        PROVE  \E n \in Places(h, x) : swap[n] = m
    <2>1. CASE m = i
      <3>1. j \in Places(h, x)
        BY <1>1, <1>4, <2>1 DEF Places
      <3>. QED
        BY <2>1, <3>1
    <2>2. CASE m = j
      <3>1. i \in Places(h, x)
        BY <1>1, <1>4, <2>2 DEF Places
      <3>. QED
        BY <2>2, <3>1
    <2>3. CASE m # i /\ m # j
      <3>1. m \in Places(h, x)
        BY <1>1, <1>4, <2>3 DEF Places
      <3>. QED
        BY <2>3, <3>1
    <2>. QED
      BY <2>1, <2>2, <2>3
  <1>5. swap \in Bijection(Places(h, x), Places(g, x))
    <2> HIDE DEF swap
    <2>. QED
      BY <1>2, <1>3, <1>4, Fun_IsBij
  <1>6. ExistsBijection(Places(h, x), Places(g, x))
    BY <1>5 DEF ExistsBijection
  <1>7. Cardinality(Places(g, x)) = Cardinality(Places(h, x))
    BY <1>6, CountIs, FS_Bijection
  <1>. QED
    BY <1>7 DEF Count, g

LEMMA CountPush ==
  ASSUME NEW h \in Seq(Items), NEW y \in Items, NEW x
  PROVE  Count(Append(h, y), x) = IF x = y THEN Count(h, x) + 1 ELSE Count(h, x)
  <1> DEFINE g == Append(h, y)
             last == Len(h) + 1
  <1>1. /\ Len(h) \in Nat /\ Len(g) = last /\ g[last] = y
        /\ \A i \in 1 .. Len(h) : g[i] = h[i]
    OBVIOUS
  <1> HIDE DEF g
  <1>2. last \notin Places(h, x)
    BY <1>1 DEF Places
  <1>3. Places(g, x) = IF x = y THEN Places(h, x) \cup {last} ELSE Places(h, x)
    BY <1>1 DEF Places
  <1>4. Cardinality(Places(h, x) \cup {last}) = Cardinality(Places(h, x)) + 1
    BY <1>2, CountIs, FS_AddElement
  <1>. QED
    BY <1>3, <1>4 DEF Count, g

LEMMA CountTake ==
  ASSUME NEW h \in Seq(Items), h # <<>>, NEW x
  PROVE  Count(SubSeq(h, 1, Len(h) - 1), x) =
           IF x = h[Len(h)] THEN Count(h, x) - 1 ELSE Count(h, x)
  <1> DEFINE g == SubSeq(h, 1, Len(h) - 1)
  <1>1. /\ g \in Seq(Items) /\ Len(g) = Len(h) - 1 /\ Len(h) \in Nat /\ Len(h) >= 1
        /\ \A i \in 1 .. Len(h) - 1 : g[i] = h[i]
    BY LastGone
  <1> HIDE DEF g
  <1>2. Places(g, x) = Places(h, x) \ {Len(h)}
    BY <1>1 DEF Places
  <1>3. Len(h) \in Places(h, x) <=> x = h[Len(h)]
    BY <1>1 DEF Places
  <1>4. Cardinality(Places(h, x) \ {Len(h)}) =
          IF Len(h) \in Places(h, x) THEN Count(h, x) - 1 ELSE Count(h, x)
    BY CountIs, FS_RemoveElement DEF Count
  <1>. QED
    BY <1>2, <1>3, <1>4 DEF Count, g

(* A reminder is its key and its time.                                       *)
LEMMA ItemIs ==
  ASSUME NEW x \in Items, NEW k, NEW t
  PROVE  x = [key |-> k, time |-> t] <=> x.key = k /\ x.time = t
  <1>1. x = [key |-> x.key, time |-> x.time]
    BY DEF Items
  <1>. QED
    BY <1>1

(* What a slice holds, as a bag.                                             *)
BagOf(h) == [k \in Keys |-> [t \in Times |-> Count(h, [key |-> k, time |-> t])]]

LEMMA BagIs == Bag = BagOf(heap) /\ Bag' = BagOf(heap')
  BY DEF Bag, BagOf, Count, Places

LEMMA SameData ==
  /\ Queue!Times = Times /\ Queue!Item = Items
  /\ Queue!Queues = [Keys -> [Times -> Nat]]
  BY DEF Queue!Times, Times, Queue!Item, Items, Queue!Queues

LEMMA BagType ==
  ASSUME NEW h \in Seq(Items)
  PROVE  /\ BagOf(h) \in [Keys -> [Times -> Nat]]
         /\ \A k \in Keys, t \in Times : BagOf(h)[k][t] = Count(h, [key |-> k, time |-> t])
  <1>1. \A k \in Keys, t \in Times : Count(h, [key |-> k, time |-> t]) \in Nat
    BY CountIs
  <1>. HIDE DEF Count
  <1>. QED
    BY <1>1 DEF BagOf

LEMMA SameQueue ==
  ASSUME NEW q \in [Keys -> [Times -> Nat]], NEW r \in [Keys -> [Times -> Nat]],
         \A k \in Keys, t \in Times : q[k][t] = r[k][t]
  PROVE  q = r
  <1>1. ASSUME NEW k \in Keys PROVE q[k] = r[k]
    <2>1. q[k] \in [Times -> Nat] /\ r[k] \in [Times -> Nat]
      OBVIOUS
    <2>2. \A t \in Times : q[k][t] = r[k][t]
      OBVIOUS
    <2>. QED
      BY <2>1, <2>2
  <1>. QED
    BY <1>1

(* The bag holds what has a place.                                           *)
LEMMA BagHolds ==
  ASSUME NEW h \in Seq(Items), NEW k \in Keys, NEW t \in Times
  PROVE  Queue!Holds(BagOf(h), k, t) <=>
           \E i \in 1 .. Len(h) : h[i].key = k /\ h[i].time = t
  <1> DEFINE x == [key |-> k, time |-> t]
  <1>1. BagOf(h)[k][t] = Count(h, x)
    BY BagType
  <1>2. ASSUME NEW i \in 1 .. Len(h)
        PROVE  h[i] = x <=> h[i].key = k /\ h[i].time = t
    <2>1. h[i] \in Items
      OBVIOUS
    <2>. QED
      BY <2>1, ItemIs
  <1>3. Count(h, x) > 0 <=> \E i \in 1 .. Len(h) : h[i] = x
    BY CountIs
  <1>. HIDE DEF x
  <1>. QED
    BY <1>1, <1>2, <1>3 DEF Queue!Holds

(* What the operations of the bag count.                                     *)
LEMMA QueueWith ==
  ASSUME NEW q \in [Keys -> [Times -> Nat]], NEW k \in Keys, NEW t \in Times
  PROVE  /\ Queue!With(q, k, t) \in [Keys -> [Times -> Nat]]
         /\ \A j \in Keys, u \in Times :
              Queue!With(q, k, t)[j][u] = IF j = k /\ u = t THEN q[j][u] + 1 ELSE q[j][u]
  BY DEF Queue!With

LEMMA QueueWithout ==
  ASSUME NEW q \in [Keys -> [Times -> Nat]], NEW k \in Keys, NEW t \in Times,
         Queue!Holds(q, k, t)
  PROVE  /\ Queue!Without(q, k, t) \in [Keys -> [Times -> Nat]]
         /\ \A j \in Keys, u \in Times :
              Queue!Without(q, k, t)[j][u]
                = IF j = k /\ u = t THEN q[j][u] - 1 ELSE q[j][u]
  BY DEF Queue!Without, Queue!Holds

-----------------------------------------------------------------------------
(* The heap is the bag that the scheduler is written against: a turn of a    *)
(* loop leaves the bag alone, and each operation is the bag's.               *)

LEMMA SwapIsStutter ==
  ASSUME TypeOK, NEW i \in 1 .. Len(heap), NEW j \in 1 .. Len(heap), Swap(i, j)
  PROVE  Bag' = Bag
  <1> DEFINE g == [heap EXCEPT ![i] = heap[j], ![j] = heap[i]]
  <1>1. heap' = g /\ heap \in Seq(Items)
    BY DEF Swap, TypeOK
  <1>2. \A x : Count(g, x) = Count(heap, x)
    BY <1>1, CountSwap
  <1>. HIDE DEF g, Count
  <1>3. BagOf(g) = BagOf(heap)
    BY <1>2 DEF BagOf
  <1>. QED
    BY <1>1, <1>3, BagIs

LEMMA InsertIsInsert ==
  ASSUME TypeOK, NEW x \in Items, Insert(x)
  PROVE  Queue!Insert(x)
  <1> DEFINE g == Append(heap, x)
             r == Queue!With(BagOf(heap), x.key, x.time)
  <1>1. heap' = g /\ result' = Nothing /\ heap \in Seq(Items) /\ g \in Seq(Items)
    BY DEF Insert, PushLast, TypeOK
  <1>2. x.key \in Keys /\ x.time \in Times
    BY DEF Items
  <1>3. \A y : Count(g, y) = IF y = x THEN Count(heap, y) + 1 ELSE Count(heap, y)
    BY <1>1, CountPush
  <1>. HIDE DEF g
  <1>4. /\ BagOf(g) \in [Keys -> [Times -> Nat]] /\ BagOf(heap) \in [Keys -> [Times -> Nat]]
        /\ \A k \in Keys, t \in Times : BagOf(g)[k][t] = Count(g, [key |-> k, time |-> t])
        /\ \A k \in Keys, t \in Times : BagOf(heap)[k][t] = Count(heap, [key |-> k, time |-> t])
    BY <1>1, BagType
  <1>5. /\ r \in [Keys -> [Times -> Nat]]
        /\ \A k \in Keys, t \in Times :
             r[k][t] = IF k = x.key /\ t = x.time THEN BagOf(heap)[k][t] + 1
                       ELSE BagOf(heap)[k][t]
    <2>1. BagOf(heap) \in [Keys -> [Times -> Nat]]
      BY <1>4
    <2>. QED
      BY <1>2, <2>1, QueueWith
  <1>. HIDE DEF r
  <1>6. ASSUME NEW k \in Keys, NEW t \in Times
        PROVE  BagOf(g)[k][t] = r[k][t]
    <2>1. [key |-> k, time |-> t] = x <=> k = x.key /\ t = x.time
      BY ItemIs
    <2>2. /\ BagOf(g)[k][t] = Count(g, [key |-> k, time |-> t])
          /\ BagOf(heap)[k][t] = Count(heap, [key |-> k, time |-> t])
      BY <1>4
    <2>3. Count(g, [key |-> k, time |-> t]) =
            IF k = x.key /\ t = x.time THEN BagOf(heap)[k][t] + 1 ELSE BagOf(heap)[k][t]
      BY <1>3, <2>1, <2>2
    <2>. QED
      BY <1>5, <2>2, <2>3
  <1>7. BagOf(g) = r
    BY <1>4, <1>5, <1>6, SameQueue
  <1>. QED
    BY <1>1, <1>7, BagIs DEF Queue!Insert, r

LEMMA TakeIsWithout ==
  ASSUME TypeOK, Take
  PROVE  LET x == heap[Len(heap)]
         IN  /\ x \in Items /\ Queue!Holds(Bag, x.key, x.time)
             /\ Bag' = Queue!Without(Bag, x.key, x.time)
             /\ result' = [op |-> op, key |-> wanted, item |-> x]
  <1> DEFINE x == heap[Len(heap)]
             g == SubSeq(heap, 1, Len(heap) - 1)
             r == Queue!Without(BagOf(heap), x.key, x.time)
  <1>1. /\ heap' = g /\ heap \in Seq(Items) /\ heap # <<>>
        /\ Len(heap) \in 1 .. Len(heap) /\ x \in Items
        /\ result' = [op |-> op, key |-> wanted, item |-> x]
    BY DEF Take, PopLast, TypeOK
  <1>2. g \in Seq(Items)
    BY <1>1, LastGone
  <1>3. x.key \in Keys /\ x.time \in Times
    BY <1>1 DEF Items
  <1>4. \A y : Count(g, y) = IF y = x THEN Count(heap, y) - 1 ELSE Count(heap, y)
    BY <1>1, CountTake
  <1>5. Queue!Holds(BagOf(heap), x.key, x.time)
    BY <1>1, <1>3, BagHolds
  <1>. HIDE DEF g, x
  <1>6. /\ BagOf(g) \in [Keys -> [Times -> Nat]] /\ BagOf(heap) \in [Keys -> [Times -> Nat]]
        /\ \A k \in Keys, t \in Times : BagOf(g)[k][t] = Count(g, [key |-> k, time |-> t])
        /\ \A k \in Keys, t \in Times : BagOf(heap)[k][t] = Count(heap, [key |-> k, time |-> t])
    BY <1>1, <1>2, BagType
  <1>7. /\ r \in [Keys -> [Times -> Nat]]
        /\ \A k \in Keys, t \in Times :
             r[k][t] = IF k = x.key /\ t = x.time THEN BagOf(heap)[k][t] - 1
                       ELSE BagOf(heap)[k][t]
    BY <1>3, <1>5, <1>6, QueueWithout
  <1>. HIDE DEF r
  <1>8. ASSUME NEW k \in Keys, NEW t \in Times
        PROVE  BagOf(g)[k][t] = r[k][t]
    <2>1. [key |-> k, time |-> t] = x <=> k = x.key /\ t = x.time
      BY <1>1, ItemIs
    <2>2. /\ BagOf(g)[k][t] = Count(g, [key |-> k, time |-> t])
          /\ BagOf(heap)[k][t] = Count(heap, [key |-> k, time |-> t])
      BY <1>6
    <2>3. Count(g, [key |-> k, time |-> t]) =
            IF k = x.key /\ t = x.time THEN BagOf(heap)[k][t] - 1 ELSE BagOf(heap)[k][t]
      BY <1>4, <2>1, <2>2
    <2>. QED
      BY <1>7, <2>2, <2>3
  <1>9. BagOf(g) = r
    BY <1>6, <1>7, <1>8, SameQueue
  <1>. QED
    BY <1>1, <1>5, <1>9, BagIs DEF x, r

LEMMA TakeIsTaking ==
  ASSUME TypeOK, RightOneWaits, Take
  PROVE  Queue!TakeEarliest \/ \E k \in Keys : Queue!TakeKey(k)
  <1> DEFINE x == heap[Len(heap)]
  <1>0. heap \in Seq(Items)
    BY DEF TypeOK
  <1>1. /\ x \in Items /\ Queue!Holds(Bag, x.key, x.time)
        /\ Bag' = Queue!Without(Bag, x.key, x.time)
        /\ result' = [op |-> op, key |-> wanted, item |-> x]
    BY TakeIsWithout
  <1>2. x = [key |-> x.key, time |-> x.time] /\ x.key \in Keys /\ x.time \in Times
    BY <1>1 DEF Items
  <1>3. op \in {"pop", "remove"}
    BY DEF Take, TypeOK
  <1>4. CASE op = "pop"
    <2>1. wanted = Nothing /\ \A i \in 1 .. Len(heap) : x.time <= heap[i].time
      BY <1>4 DEF RightOneWaits
    <2>. HIDE DEF x
    <2>2. \A k \in Keys, t \in Times : Queue!Holds(Bag, k, t) => x.time <= t
      BY <1>0, <2>1, BagHolds, BagIs
    <2>3. x \in Queue!Earliest(Bag)
      BY <1>1, <2>2, SameData DEF Queue!Earliest
    <2>. QED
      BY <1>1, <1>4, <2>1, <2>3 DEF Queue!TakeEarliest
  <1>5. CASE op = "remove"
    <2>1. x.key = wanted
      BY <1>5 DEF RightOneWaits
    <2>. HIDE DEF x
    <2>2. Queue!TakeKey(x.key)
      BY <1>1, <1>2, <1>5, <2>1, SameData DEF Queue!TakeKey
    <2>. QED
      BY <1>2, <2>2
  <1>. QED
    BY <1>3, <1>4, <1>5

LEMMA ExtractIsStutter ==
  ASSUME TypeOK, NEW name, NEW key, NEW i \in 1 .. Len(heap), Extract(name, key, i)
  PROVE  UNCHANGED <<Bag, result>>
  <1>1. Len(heap) \in 1 .. Len(heap)
    BY DEF TypeOK
  <1>. QED
    BY <1>1, SwapIsStutter DEF Extract

LEMMA EmptyHeapIsEmpty ==
  ASSUME Init
  PROVE  Queue!Init
  <1>1. heap = <<>> /\ <<>> \in Seq(Items) /\ result = Nothing
    BY DEF Init
  <1>2. \A x : Count(<<>>, x) = 0
    <2>1. \A x : Places(<<>>, x) = {}
      BY DEF Places
    <2>. QED
      BY <2>1, FS_EmptySet DEF Count
  <1>. HIDE DEF Count
  <1>3. BagOf(<<>>) = Queue!EmptyQueue
    BY <1>2, SameData DEF BagOf, Queue!EmptyQueue
  <1>. QED
    BY <1>1, <1>3, BagIs DEF Queue!Init

LEMMA HeapStep ==
  ASSUME TypeOK, RightOneWaits, Next
  PROVE  Queue!Next \/ UNCHANGED <<Bag, result>>
  <1>0. heap \in Seq(Items) /\ Len(heap) \in Nat
    BY DEF TypeOK
  <1>1. CASE TakeEarliest
    <2>1. 1 \in 1 .. Len(heap)
      BY <1>0, <1>1 DEF TakeEarliest
    <2>. QED
      BY <1>1, <2>1, ExtractIsStutter DEF TakeEarliest
  <1>2. ASSUME NEW x \in Items, Insert(x)
        PROVE  Queue!Next
    <2>1. Queue!Insert(x) /\ x \in Queue!Item
      BY <1>2, InsertIsInsert, SameData
    <2>. QED
      BY <2>1 DEF Queue!Next
  <1>3. ASSUME NEW k \in Keys, TakeKey(k)
        PROVE  Queue!Next \/ UNCHANGED <<Bag, result>>
    <2>1. CASE \E i \in 1 .. Len(heap) : Extract("remove", k, i)
      BY <2>1, ExtractIsStutter
    <2>2. CASE /\ \A i \in 1 .. Len(heap) : heap[i].key # k
               /\ result' = [op |-> "absent", key |-> k] /\ UNCHANGED <<heap, loopVars>>
      <3>1. \A t \in Times : ~Queue!Holds(Bag, k, t)
        BY <1>0, <2>2, BagHolds, BagIs
      <3>2. Bag' = Bag
        BY <2>2, BagIs
      <3>3. Queue!TakeKey(k)
        BY <2>2, <3>1, <3>2, SameData DEF Queue!TakeKey
      <3>. QED
        BY <3>3 DEF Queue!Next
    <2>. QED
      BY <1>3, <2>1, <2>2 DEF TakeKey
  <1>4. CASE Down
    <2>1. CASE 2 * at <= Size /\ Less(Child(at), at)
      <3>1. at \in 1 .. Len(heap) /\ Size = Len(heap) - 1
        BY <1>4 DEF Down, TypeOK, Size
      <3>2. Child(at) \in 1 .. Len(heap)
        BY <1>0, <2>1, <3>1, ChildIs
      <3>. QED
        BY <1>4, <2>1, <3>1, <3>2, SwapIsStutter DEF Down
    <2>. QED
      BY <1>4, <2>1, BagIs DEF Down
  <1>5. CASE Up
    <2>1. CASE at > 1 /\ Less(at, at \div 2)
      <3>1. at \in 1 .. Len(heap)
        BY <1>0, <1>5 DEF Up, TypeOK, Size
      <3>2. at \div 2 \in 1 .. Len(heap)
        BY <1>0, <2>1, <3>1, Family
      <3>. QED
        BY <1>5, <2>1, <3>1, <3>2, SwapIsStutter DEF Up
    <2>. QED
      BY <1>5, <2>1, BagIs DEF Up
  <1>6. CASE Take
    BY <1>6, TakeIsTaking DEF Queue!Next
  <1>. QED
    BY <1>1, <1>2, <1>3, <1>4, <1>5, <1>6 DEF Next

(* The slice and the loops of container/heap are the priority queue that     *)
(* ReminderQueue states: what Push adds and Pop and Remove take is what the  *)
(* bag gains and loses, Pop takes an earliest reminder, Remove one of the    *)
(* key it was asked for, and it finds none only when there is none.          *)
THEOREM HeapIsQueue == Spec => ImplementsQueue
<1>1. Init => Queue!Init
  BY EmptyHeapIsEmpty
<1>2. TypeOK /\ RightOneWaits /\ [Next]_vars => [Queue!Next]_(Queue!vars)
  <2>1. CASE UNCHANGED vars
    BY <2>1, BagIs DEF vars, Queue!vars
  <2>. QED
    BY <2>1, HeapStep DEF Queue!vars
<1>. QED
  BY <1>1, <1>2, HeapTyped, AlwaysRight, PTL DEF Spec, ImplementsQueue, Queue!Spec

==============================================================================
