---------------------------- MODULE SegHeapProofs ----------------------------
(***************************************************************************)
(* Proofs about SegHeap: reference counts are exact and a published        *)
(* snapshot never changes.                                                 *)
(*                                                                         *)
(* Every writer is a sequence of edits of the heap.  What an edit does to  *)
(* the counts is said by the slack of a buffer: its count less the places  *)
(* in snapshots and rings that use it.  Between two operations the slack   *)
(* is the number of sends.                                                 *)
(***************************************************************************)
EXTENDS SegHeap, SequenceTheorems, FiniteSetTheorems, FunctionTheorems, TLAPS

One(p) == IF p THEN 1 ELSE 0

Buf == Bufs \cup {NoBuf}
Parts == [ring : Rings \cup {NoSnap}, live : Buf, init : Buf]
RingRec == [rc : Nat, segs : Seq(Buf)]
Heap == [of : [Snaps -> Parts], ring : [Rings -> RingRec], ref : [Bufs -> Int]]

Users(h, L, r) == {s \in L : h.of[s].ring = r}
Lives(h, L, b) == {s \in L : h.of[s].live = b}
Inits(h, L, b) == {s \in L : h.of[s].init = b}
InRings(h, b) == {p \in Rings \X Nat : p[2] \in DOMAIN h.ring[p[1]].segs
                                       /\ h.ring[p[1]].segs[p[2]] = b}

\* A heap with the snapshots L allocated: rings are counted, and a free ring is
\* empty.
HeapOK(h, L) ==
    /\ h \in Heap /\ L \in SUBSET Snaps
    /\ \A s \in L : h.of[s].ring \in Rings
    /\ \A r \in Rings : /\ h.ring[r].rc = Cardinality(Users(h, L, r))
                        /\ h.ring[r].rc = 0 => h.ring[r].segs = <<>>
                        /\ Len(h.ring[r].segs) <= MaxSegs

Account(h, L, b) ==
    Cardinality(InRings(h, b)) + Cardinality(Lives(h, L, b)) + Cardinality(Inits(h, L, b))

Slack(h, L, b) == h.ref[b] - Account(h, L, b)

\* The snapshots K look the same in g as in h.
Kept(h, g, K) == \A s \in K : g.of[s] = h.of[s] /\ Segs(g, s) = Segs(h, s)

-----------------------------------------------------------------------------
(* Counting.                                                               *)

\* A set and the same set with one element decided anew.
LEMMA CardSwap ==
  ASSUME NEW A, NEW B, NEW e, IsFiniteSet(A), A \ {e} = B \ {e}
  PROVE  /\ IsFiniteSet(B) /\ Cardinality(A) \in Nat /\ Cardinality(B) \in Nat
         /\ Cardinality(B) = Cardinality(A) - One(e \in A) + One(e \in B)
<1>1. IsFiniteSet(A \ {e}) /\ Cardinality(A \ {e}) = IF e \in A THEN Cardinality(A) - 1 ELSE Cardinality(A)
  BY FS_RemoveElement
<1>2. IsFiniteSet(B)
  <2>1. IsFiniteSet((B \ {e}) \cup {e})
    BY <1>1, FS_AddElement
  <2>2. B \in SUBSET ((B \ {e}) \cup {e})
    OBVIOUS
  <2>3. QED BY <2>1, <2>2, FS_Subset
<1>3. Cardinality(B \ {e}) = IF e \in B THEN Cardinality(B) - 1 ELSE Cardinality(B)
  BY <1>2, FS_RemoveElement
<1>4. Cardinality(A) \in Nat /\ Cardinality(B) \in Nat
  BY <1>2, FS_CardinalityType
<1>5. QED BY <1>1, <1>2, <1>3, <1>4 DEF One

\* Two sets with a one to one correspondence have the same size.
LEMMA SameCard ==
  ASSUME NEW S, NEW T, IsFiniteSet(S), NEW f \in [S -> T],
         \A x, y \in S : f[x] = f[y] => x = y, \A t \in T : \E x \in S : f[x] = t
  PROVE  IsFiniteSet(T) /\ Cardinality(T) = Cardinality(S)
<1>1. f \in Bijection(S, T)
  BY Fun_IsBij
<1>2. ExistsBijection(S, T)
  BY <1>1 DEF ExistsBijection
<1>3. QED BY <1>2, FS_Bijection

\* How often a buffer occurs in a list is a number.
LEMMA OccursType ==
  ASSUME NEW s \in Seq(Buf), NEW b
  PROVE  /\ IsFiniteSet({i \in DOMAIN s : s[i] = b}) /\ Occurs(b, s) \in Nat
         /\ DOMAIN s = 1..Len(s) /\ Len(s) \in Nat
<1>1. DOMAIN s = 1..Len(s) /\ Len(s) \in Nat
  BY LenProperties
<1>2. IsFiniteSet(1..Len(s))
  BY <1>1, FS_Interval
<1>3. IsFiniteSet({i \in DOMAIN s : s[i] = b})
  <2>1. {i \in DOMAIN s : s[i] = b} \in SUBSET (1..Len(s))
    BY <1>1
  <2>2. QED BY <1>2, <2>1, FS_Subset
<1>4. QED BY <1>1, <1>3, FS_CardinalityType DEF Occurs

\* Nothing occurs in an empty list.
LEMMA OccursEmpty ==
  ASSUME NEW b
  PROVE  Occurs(b, <<>>) = 0
<1>1. {i \in DOMAIN <<>> : <<>>[i] = b} = {}
  OBVIOUS
<1>2. QED BY <1>1, FS_EmptySet DEF Occurs

\* A buffer appended occurs once more.
LEMMA OccursAppend ==
  ASSUME NEW s \in Seq(Buf), NEW e \in Buf, NEW b
  PROVE  Occurs(b, Append(s, e)) = Occurs(b, s) + One(b = e)
<1> DEFINE t == Append(s, e)  n == Len(s) + 1
           A == {i \in DOMAIN s : s[i] = b}  B == {i \in DOMAIN t : t[i] = b}
<1>1. /\ t \in Seq(Buf) /\ Len(t) = n /\ t[n] = e /\ \A i \in 1..Len(s) : t[i] = s[i]
  BY AppendProperties
<1>2. IsFiniteSet(A) /\ Occurs(b, s) \in Nat /\ DOMAIN s = 1..Len(s) /\ Len(s) \in Nat
  BY OccursType
<1>3. DOMAIN t = 1..n
  BY <1>1, LenProperties
<1>4. A \ {n} = B \ {n}
  BY <1>1, <1>2, <1>3
<1>5. n \notin A /\ (n \in B <=> b = e)
  BY <1>1, <1>2, <1>3
<1>6. Cardinality(B) = Cardinality(A) - One(n \in A) + One(n \in B)
  BY <1>2, <1>4, CardSwap
<1>7. One(n \in A) = 0 /\ One(n \in B) = One(b = e) /\ One(b = e) \in Nat
  BY <1>5 DEF One
<1>8. Cardinality(A) = Occurs(b, s) /\ Cardinality(B) = Occurs(b, t)
  BY DEF Occurs
<1> HIDE DEF A, B, n, t
<1>9. Occurs(b, t) = Occurs(b, s) + One(b = e)
  BY <1>2, <1>6, <1>7, <1>8
<1>10. QED BY <1>9 DEF t

\* The first of a list dropped occurs once less.
LEMMA OccursTail ==
  ASSUME NEW s \in Seq(Buf), s # <<>>, NEW b
  PROVE  Occurs(b, s) = Occurs(b, Tail(s)) + One(b = Head(s))
<1> DEFINE t == Tail(s)
           A == {i \in DOMAIN s : s[i] = b}  B == {i \in DOMAIN t : t[i] = b}
           C == A \ {1}
           f == [i \in B |-> i + 1]
<1>1. /\ t \in Seq(Buf) /\ Len(t) = Len(s) - 1 /\ \A i \in 1..Len(t) : t[i] = s[i + 1]
      /\ Head(s) = s[1]
  BY HeadTailProperties
<1>2. IsFiniteSet(A) /\ DOMAIN s = 1..Len(s) /\ Len(s) \in Nat /\ Occurs(b, s) \in Nat
  BY OccursType
<1>3. IsFiniteSet(B) /\ DOMAIN t = 1..Len(t) /\ Len(t) \in Nat /\ Occurs(b, t) \in Nat
  BY <1>1, OccursType
<1>4. Cardinality(C) = Cardinality(B)
  <2>1. \A i \in B : i + 1 \in C
    BY <1>1, <1>2, <1>3
  <2>2. \A i \in C : i - 1 \in B /\ (i - 1) + 1 = i
    <3> TAKE i \in C
    <3>1. i \in 2..Len(s) /\ s[i] = b
      BY <1>2
    <3>2. i - 1 \in 1..Len(t) /\ (i - 1) + 1 = i
      BY <1>1, <1>2, <3>1
    <3>3. t[i - 1] = b
      BY <1>1, <3>1, <3>2
    <3>4. QED BY <1>3, <3>2, <3>3
  <2>3. \A i, j \in B : i + 1 = j + 1 => i = j
    BY <1>3
  <2> HIDE DEF B, C
  <2>4. f \in [B -> C] /\ \A i \in B : f[i] = i + 1
    BY <2>1
  <2> HIDE DEF f
  <2>5. \A i, j \in B : f[i] = f[j] => i = j
    BY <2>3, <2>4
  <2>6. \A c \in C : \E i \in B : f[i] = c
    BY <2>2, <2>4
  <2>7. QED BY <1>3, <2>4, <2>5, <2>6, SameCard DEF B
<1>6. 1 \in A <=> b = Head(s)
  <2>1. Len(s) # 0
    BY <1>2
  <2>2. 1 \in DOMAIN s
    BY <1>2, <2>1
  <2>3. QED BY <1>1, <2>2
<1>7. Cardinality(C) = IF b = Head(s) THEN Cardinality(A) - 1 ELSE Cardinality(A)
  BY <1>2, <1>6, FS_RemoveElement
<1>8. Cardinality(A) = Occurs(b, s) /\ Cardinality(B) = Occurs(b, t)
  BY DEF Occurs
<1> HIDE DEF A, B, C, f, t
<1>9. Occurs(b, s) = Occurs(b, t) + One(b = Head(s))
  <2>1. CASE b = Head(s)
    <3>1. One(b = Head(s)) = 1
      BY <2>1 DEF One
    <3>2. Cardinality(C) = Cardinality(A) - 1
      BY <1>7, <2>1
    <3>3. QED BY <1>2, <1>3, <1>4, <1>8, <3>1, <3>2
  <2>2. CASE b # Head(s)
    <3>1. One(b = Head(s)) = 0
      BY <2>2 DEF One
    <3>2. Cardinality(C) = Cardinality(A)
      BY <1>7, <2>2
    <3>3. QED BY <1>2, <1>3, <1>4, <1>8, <3>1, <3>2
  <2>3. QED BY <2>1, <2>2
<1>10. QED BY <1>9 DEF t

\* What a heap uses can be counted.
LEMMA Finite ==
  ASSUME NEW h, NEW L, HeapOK(h, L), NEW b
  PROVE  /\ IsFiniteSet(L) /\ \A r \in Rings : IsFiniteSet(Users(h, L, r))
         /\ IsFiniteSet(Lives(h, L, b)) /\ Cardinality(Lives(h, L, b)) \in Nat
         /\ IsFiniteSet(Inits(h, L, b)) /\ Cardinality(Inits(h, L, b)) \in Nat
         /\ IsFiniteSet(InRings(h, b)) /\ Cardinality(InRings(h, b)) \in Nat
<1>1. IsFiniteSet(L)
  <2>1. L \in SUBSET Snaps /\ IsFiniteSet(Snaps)
    BY SegHeapAssumption DEF HeapOK
  <2>2. QED BY <2>1, FS_Subset
<1>2. \A r \in Rings : IsFiniteSet(Users(h, L, r))
  <2> TAKE r \in Rings
  <2>1. Users(h, L, r) \in SUBSET L
    BY DEF Users
  <2>2. QED BY <1>1, <2>1, FS_Subset
<1>3. IsFiniteSet(Lives(h, L, b))
  <2>1. Lives(h, L, b) \in SUBSET L
    BY DEF Lives
  <2>2. QED BY <1>1, <2>1, FS_Subset
<1>4. IsFiniteSet(Inits(h, L, b))
  <2>1. Inits(h, L, b) \in SUBSET L
    BY DEF Inits
  <2>2. QED BY <1>1, <2>1, FS_Subset
<1>5. IsFiniteSet(InRings(h, b))
  <2>1. MaxSegs \in Nat /\ IsFiniteSet(Rings)
    BY SegHeapAssumption DEF Rings
  <2>2. IsFiniteSet(1..MaxSegs)
    BY <2>1, FS_Interval
  <2>3. IsFiniteSet(Rings \X (1..MaxSegs))
    BY <2>1, <2>2, FS_Product
  <2>4. InRings(h, b) \in SUBSET (Rings \X (1..MaxSegs))
    <3> SUFFICES ASSUME NEW p \in InRings(h, b)
                 PROVE  p \in Rings \X (1..MaxSegs)
      OBVIOUS
    <3>1. /\ p \in Rings \X Nat /\ p[2] \in DOMAIN h.ring[p[1]].segs
      BY DEF InRings
    <3>2. PICK r \in Rings, i \in Nat : p = <<r, i>>
      BY <3>1
    <3>3. i \in DOMAIN h.ring[r].segs
      BY <3>1, <3>2
    <3>4. h.ring[r].segs \in Seq(Buf) /\ Len(h.ring[r].segs) <= MaxSegs
      BY DEF HeapOK, Heap, RingRec
    <3>5. DOMAIN h.ring[r].segs = 1..Len(h.ring[r].segs) /\ Len(h.ring[r].segs) \in Nat
      BY <3>4, OccursType
    <3>6. i \in 1..MaxSegs
      BY <2>1, <3>3, <3>4, <3>5
    <3>7. QED BY <3>2, <3>6
  <2>5. QED BY <2>3, <2>4, FS_Subset
<1>6. QED BY <1>1, <1>2, <1>3, <1>4, <1>5, FS_CardinalityType

\* The uses of a buffer by one ring are its occurrences in the ring's list.
LEMMA RingPart ==
  ASSUME NEW h \in Heap, NEW r \in Rings, NEW b
  PROVE  LET R == {p \in InRings(h, b) : p[1] = r}
         IN  /\ IsFiniteSet(R) /\ Cardinality(R) = Occurs(b, h.ring[r].segs)
             /\ Occurs(b, h.ring[r].segs) \in Nat
<1> DEFINE s == h.ring[r].segs
           A == {i \in DOMAIN s : s[i] = b}
           R == {p \in InRings(h, b) : p[1] = r}
           f == [i \in A |-> <<r, i>>]
<1>1. s \in Seq(Buf)
  BY DEF Heap, RingRec
<1>2. IsFiniteSet(A) /\ Occurs(b, s) \in Nat /\ DOMAIN s = 1..Len(s) /\ Len(s) \in Nat
  BY <1>1, OccursType
<1>3. Cardinality(A) = Occurs(b, s)
  BY DEF Occurs
<1>4. A \in SUBSET Nat
  BY <1>2
<1>5. \A i \in A : <<r, i>> \in R
  BY <1>4 DEF InRings
<1>6. \A p \in R : p[2] \in A /\ p = <<r, p[2]>>
  BY DEF InRings
<1> HIDE DEF A, R
<1>7. f \in [A -> R] /\ \A i \in A : f[i] = <<r, i>>
  BY <1>5
<1> HIDE DEF f
<1>8. \A i, j \in A : f[i] = f[j] => i = j
  BY <1>7
<1>9. \A p \in R : \E i \in A : f[i] = p
  BY <1>6, <1>7
<1>10. IsFiniteSet(R) /\ Cardinality(R) = Cardinality(A)
  BY <1>2, <1>7, <1>8, <1>9, SameCard
<1>11. QED BY <1>2, <1>3, <1>10 DEF R

\* What the uses by rings lose and gain when one ring's list is replaced.
LEMMA RingCount ==
  ASSUME NEW h \in Heap, NEW g \in Heap, NEW r \in Rings, NEW b, IsFiniteSet(InRings(h, b)),
         \A q \in Rings \ {r} : g.ring[q].segs = h.ring[q].segs
  PROVE  /\ IsFiniteSet(InRings(g, b))
         /\ Cardinality(InRings(h, b)) \in Nat /\ Cardinality(InRings(g, b)) \in Nat
         /\ Cardinality(InRings(g, b)) = Cardinality(InRings(h, b))
                - Occurs(b, h.ring[r].segs) + Occurs(b, g.ring[r].segs)
<1> DEFINE R == {p \in InRings(h, b) : p[1] = r}
           S == {p \in InRings(g, b) : p[1] = r}
           A == {p \in InRings(h, b) : p[1] # r}
<1>1. /\ IsFiniteSet(R) /\ Cardinality(R) = Occurs(b, h.ring[r].segs)
      /\ Occurs(b, h.ring[r].segs) \in Nat
  BY RingPart
<1>2. /\ IsFiniteSet(S) /\ Cardinality(S) = Occurs(b, g.ring[r].segs)
      /\ Occurs(b, g.ring[r].segs) \in Nat
  BY RingPart
<1>3. InRings(h, b) = A \cup R /\ A \cap R = {}
  OBVIOUS
<1>4. InRings(g, b) = A \cup S /\ A \cap S = {}
  <2>1. A = {p \in InRings(g, b) : p[1] # r}
    BY DEF InRings
  <2>2. QED BY <2>1
<1>5. IsFiniteSet(A) /\ Cardinality(A) \in Nat
  <2>1. A \in SUBSET InRings(h, b)
    OBVIOUS
  <2>2. IsFiniteSet(A)
    BY <2>1, FS_Subset
  <2>3. QED BY <2>2, FS_CardinalityType
<1> HIDE DEF A, R, S
<1>6. Cardinality(InRings(h, b)) = Cardinality(A) + Cardinality(R)
  <2>1. Cardinality(A \cup R) = Cardinality(A) + Cardinality(R) - Cardinality(A \cap R)
    BY <1>1, <1>5, FS_Union
  <2>2. Cardinality(A \cap R) = 0
    BY <1>3, FS_EmptySet
  <2>3. QED BY <1>1, <1>3, <1>5, <2>1, <2>2
<1>7. IsFiniteSet(InRings(g, b)) /\ Cardinality(InRings(g, b)) = Cardinality(A) + Cardinality(S)
  <2>1. /\ Cardinality(A \cup S) = Cardinality(A) + Cardinality(S) - Cardinality(A \cap S)
        /\ IsFiniteSet(A \cup S)
    BY <1>2, <1>5, FS_Union
  <2>2. Cardinality(A \cap S) = 0
    BY <1>4, FS_EmptySet
  <2>3. QED BY <1>2, <1>4, <1>5, <2>1, <2>2
<1>8. QED BY <1>1, <1>2, <1>5, <1>6, <1>7

-----------------------------------------------------------------------------
(* One edit.                                                               *)

\* From h with the snapshots L to g with M only snapshot n and the list of
\* ring r may change.
Touch(h, L, g, M, n, r) ==
    /\ g \in Heap /\ M \in SUBSET Snaps /\ L \ {n} = M \ {n}
    /\ \A s \in M \ {n} : g.of[s] = h.of[s]
    /\ \A q \in Rings \ {r} : g.ring[q].segs = h.ring[q].segs

\* uses of b by snapshot n and by ring r
Uses(h, L, n, r, b) ==
    Occurs(b, h.ring[r].segs) + One(n \in Lives(h, L, b)) + One(n \in Inits(h, L, b))

\* What an edit does to the account of a buffer and to the users of a ring.
LEMMA Effect ==
  ASSUME NEW h, NEW L, HeapOK(h, L), NEW g, NEW M, NEW n, NEW r \in Rings,
         Touch(h, L, g, M, n, r)
  PROVE  /\ \A b \in Bufs : /\ Slack(h, L, b) \in Int /\ Slack(g, M, b) \in Int
                            /\ Uses(h, L, n, r, b) \in Nat /\ Uses(g, M, n, r, b) \in Nat
                            /\ h.ref[b] \in Int /\ g.ref[b] \in Int
                            /\ Slack(g, M, b) = Slack(h, L, b) + (g.ref[b] - h.ref[b])
                                   + Uses(h, L, n, r, b) - Uses(g, M, n, r, b)
         /\ \A q \in Rings : /\ Cardinality(Users(h, L, q)) \in Nat
                             /\ Cardinality(Users(g, M, q)) \in Nat
                             /\ Cardinality(Users(g, M, q)) = Cardinality(Users(h, L, q))
                                   - One(n \in Users(h, L, q)) + One(n \in Users(g, M, q))
<1>1. ASSUME NEW b \in Bufs
      PROVE  /\ Slack(h, L, b) \in Int /\ Slack(g, M, b) \in Int
             /\ Uses(h, L, n, r, b) \in Nat /\ Uses(g, M, n, r, b) \in Nat
             /\ h.ref[b] \in Int /\ g.ref[b] \in Int
             /\ Slack(g, M, b) = Slack(h, L, b) + (g.ref[b] - h.ref[b])
                    + Uses(h, L, n, r, b) - Uses(g, M, n, r, b)
  <2>1. /\ IsFiniteSet(Lives(h, L, b)) /\ IsFiniteSet(Inits(h, L, b)) /\ IsFiniteSet(InRings(h, b))
    BY Finite
  <2>2. h \in Heap /\ g \in Heap
    BY DEF HeapOK, Touch
  <2>3. \A q \in Rings \ {r} : g.ring[q].segs = h.ring[q].segs
    BY DEF Touch
  <2>4. /\ Cardinality(InRings(h, b)) \in Nat /\ Cardinality(InRings(g, b)) \in Nat
        /\ Cardinality(InRings(g, b)) = Cardinality(InRings(h, b))
                - Occurs(b, h.ring[r].segs) + Occurs(b, g.ring[r].segs)
    BY <2>1, <2>2, <2>3, RingCount
  <2>5. Lives(h, L, b) \ {n} = Lives(g, M, b) \ {n}
    BY DEF Touch, Lives
  <2>6. /\ Cardinality(Lives(h, L, b)) \in Nat /\ Cardinality(Lives(g, M, b)) \in Nat
        /\ Cardinality(Lives(g, M, b)) = Cardinality(Lives(h, L, b))
               - One(n \in Lives(h, L, b)) + One(n \in Lives(g, M, b))
    BY <2>1, <2>5, CardSwap
  <2>7. Inits(h, L, b) \ {n} = Inits(g, M, b) \ {n}
    BY DEF Touch, Inits
  <2>8. /\ Cardinality(Inits(h, L, b)) \in Nat /\ Cardinality(Inits(g, M, b)) \in Nat
        /\ Cardinality(Inits(g, M, b)) = Cardinality(Inits(h, L, b))
               - One(n \in Inits(h, L, b)) + One(n \in Inits(g, M, b))
    BY <2>1, <2>7, CardSwap
  <2>9. h.ring[r].segs \in Seq(Buf) /\ g.ring[r].segs \in Seq(Buf) /\ h.ref[b] \in Int /\ g.ref[b] \in Int
    BY <2>2 DEF Heap, RingRec
  <2>10. PICK o1 \in Nat, o2 \in Nat : o1 = Occurs(b, h.ring[r].segs) /\ o2 = Occurs(b, g.ring[r].segs)
    BY <2>9, OccursType
  <2>11. PICK l1 \in Nat, l2 \in Nat : l1 = One(n \in Lives(h, L, b)) /\ l2 = One(n \in Lives(g, M, b))
    BY DEF One
  <2>12. PICK i1 \in Nat, i2 \in Nat : i1 = One(n \in Inits(h, L, b)) /\ i2 = One(n \in Inits(g, M, b))
    BY DEF One
  <2>13. Uses(h, L, n, r, b) = o1 + l1 + i1 /\ Uses(g, M, n, r, b) = o2 + l2 + i2
    BY <2>10, <2>11, <2>12 DEF Uses
  <2>14. /\ Slack(h, L, b) = h.ref[b] - (Cardinality(InRings(h, b)) + Cardinality(Lives(h, L, b)) + Cardinality(Inits(h, L, b)))
         /\ Slack(g, M, b) = g.ref[b] - (Cardinality(InRings(g, b)) + Cardinality(Lives(g, M, b)) + Cardinality(Inits(g, M, b)))
    BY DEF Slack, Account
  <2>15. /\ Cardinality(InRings(g, b)) = Cardinality(InRings(h, b)) - o1 + o2
         /\ Cardinality(Lives(g, M, b)) = Cardinality(Lives(h, L, b)) - l1 + l2
         /\ Cardinality(Inits(g, M, b)) = Cardinality(Inits(h, L, b)) - i1 + i2
    BY <2>4, <2>6, <2>8, <2>10, <2>11, <2>12
  <2>16. PICK x \in Nat, y \in Nat, z \in Nat : /\ x = Cardinality(InRings(h, b))
                                                /\ y = Cardinality(Lives(h, L, b))
                                                /\ z = Cardinality(Inits(h, L, b))
    BY <2>4, <2>6, <2>8
  <2>17. PICK u \in Int, v \in Int : u = h.ref[b] /\ v = g.ref[b]
    BY <2>9
  <2>18. /\ Slack(h, L, b) = u - (x + y + z)
         /\ Slack(g, M, b) = v - ((x - o1 + o2) + (y - l1 + l2) + (z - i1 + i2))
    BY <2>14, <2>15, <2>16, <2>17
  <2>19. Slack(h, L, b) \in Int /\ Slack(g, M, b) \in Int
    BY <2>18
  <2>20. Slack(g, M, b) = Slack(h, L, b) + (v - u) + (o1 + l1 + i1) - (o2 + l2 + i2)
    BY <2>18
  <2>21. Uses(h, L, n, r, b) \in Nat /\ Uses(g, M, n, r, b) \in Nat
    BY <2>13
  <2>22. QED BY <2>9, <2>13, <2>17, <2>19, <2>20, <2>21
<1>2. ASSUME NEW q \in Rings
      PROVE  /\ Cardinality(Users(h, L, q)) \in Nat /\ Cardinality(Users(g, M, q)) \in Nat
             /\ Cardinality(Users(g, M, q)) = Cardinality(Users(h, L, q))
                   - One(n \in Users(h, L, q)) + One(n \in Users(g, M, q))
  <2>1. IsFiniteSet(Users(h, L, q))
    BY Finite
  <2>2. Users(h, L, q) \ {n} = Users(g, M, q) \ {n}
    BY DEF Touch, Users
  <2>3. QED BY <2>1, <2>2, CardSwap
<1>3. QED BY <1>1, <1>2

\* One more reference to a buffer.
LEMMA RefFields ==
  ASSUME NEW h \in Heap, NEW b \in Buf
  PROVE  /\ seg_buf_ref(h, b) \in Heap
         /\ seg_buf_ref(h, b).of = h.of /\ seg_buf_ref(h, b).ring = h.ring
         /\ \A c \in Bufs : h.ref[c] \in Int /\ seg_buf_ref(h, b).ref[c] = h.ref[c] + One(c = b)
<1>1. NoBuf \notin Bufs
  BY SegHeapAssumption
<1>2. CASE b = NoBuf
  <2>1. \A c \in Bufs : One(c = b) = 0 /\ h.ref[c] \in Int
    BY <1>1, <1>2 DEF One, Heap
  <2>2. seg_buf_ref(h, b) = h
    BY <1>2 DEF seg_buf_ref
  <2>3. QED BY <2>1, <2>2
<1>3. CASE b # NoBuf
  <2>1. b \in Bufs /\ h.ref \in [Bufs -> Int]
    BY <1>3 DEF Buf, Heap
  <2>2. seg_buf_ref(h, b) = [h EXCEPT !.ref = [h.ref EXCEPT ![b] = h.ref[b] + 1]]
    BY <1>3 DEF seg_buf_ref
  <2>3. PICK f \in [Bufs -> Int] : f = [h.ref EXCEPT ![b] = h.ref[b] + 1]
    <3>1. PICK u \in [Bufs -> Int] : u = h.ref
      BY <2>1
    <3>2. [u EXCEPT ![b] = u[b] + 1] \in [Bufs -> Int]
      BY <2>1
    <3>3. QED BY <3>1, <3>2
  <2>4. seg_buf_ref(h, b) = [h EXCEPT !.ref = f]
    BY <2>2, <2>3, Zenon
  <2>5. \A c \in Bufs : f[c] = h.ref[c] + One(c = b)
    BY <2>1, <2>3 DEF One
  <2>6. QED BY <2>1, <2>4, <2>5 DEF Heap
<1>4. QED BY <1>2, <1>3

\* One reference to a buffer less.
LEMMA UnrefFields ==
  ASSUME NEW h \in Heap, NEW b \in Buf
  PROVE  /\ seg_buf_unref(h, b) \in Heap
         /\ seg_buf_unref(h, b).of = h.of /\ seg_buf_unref(h, b).ring = h.ring
         /\ \A c \in Bufs : h.ref[c] \in Int /\ seg_buf_unref(h, b).ref[c] = h.ref[c] - One(c = b)
<1>1. NoBuf \notin Bufs
  BY SegHeapAssumption
<1>2. CASE b = NoBuf
  <2>1. \A c \in Bufs : One(c = b) = 0 /\ h.ref[c] \in Int
    BY <1>1, <1>2 DEF One, Heap
  <2>2. seg_buf_unref(h, b) = h
    BY <1>2 DEF seg_buf_unref
  <2>3. QED BY <2>1, <2>2
<1>3. CASE b # NoBuf
  <2>1. b \in Bufs /\ h.ref \in [Bufs -> Int]
    BY <1>3 DEF Buf, Heap
  <2>2. seg_buf_unref(h, b) = [h EXCEPT !.ref = [h.ref EXCEPT ![b] = h.ref[b] - 1]]
    BY <1>3 DEF seg_buf_unref
  <2>3. PICK f \in [Bufs -> Int] : f = [h.ref EXCEPT ![b] = h.ref[b] - 1]
    <3>1. PICK u \in [Bufs -> Int] : u = h.ref
      BY <2>1
    <3>2. [u EXCEPT ![b] = u[b] - 1] \in [Bufs -> Int]
      BY <2>1
    <3>3. QED BY <3>1, <3>2
  <2>4. seg_buf_unref(h, b) = [h EXCEPT !.ref = f]
    BY <2>2, <2>3, Zenon
  <2>5. \A c \in Bufs : f[c] = h.ref[c] - One(c = b)
    BY <2>1, <2>3 DEF One
  <2>6. QED BY <2>1, <2>4, <2>5 DEF Heap
<1>4. QED BY <1>2, <1>3

\* One more or one less reference to every buffer of a list.
LEMMA RefAllFields ==
  ASSUME NEW h \in Heap, NEW s \in Seq(Buf), NEW d \in {-1, 1}
  PROVE  /\ RefAll(h, s, d) \in Heap
         /\ RefAll(h, s, d).of = h.of /\ RefAll(h, s, d).ring = h.ring
         /\ \A c \in Bufs : /\ h.ref[c] \in Int /\ Occurs(c, s) \in Nat
                            /\ RefAll(h, s, d).ref[c] = h.ref[c] + d * Occurs(c, s)
<1>1. h.ref \in [Bufs -> Int] /\ \A c \in Bufs : Occurs(c, s) \in Nat
  BY OccursType DEF Heap
<1>2. \A c \in Bufs : h.ref[c] + d * Occurs(c, s) \in Int
  <2> TAKE c \in Bufs
  <2>1. PICK x \in Int, y \in Nat : x = h.ref[c] /\ y = Occurs(c, s)
    BY <1>1
  <2>2. CASE d = 1
    BY <2>1, <2>2
  <2>3. CASE d = -1
    BY <2>1, <2>3
  <2>4. QED BY <2>2, <2>3
<1>3. PICK f \in [Bufs -> Int] : \A c \in Bufs : f[c] = h.ref[c] + d * Occurs(c, s)
  <2> DEFINE f == [c \in Bufs |-> h.ref[c] + d * Occurs(c, s)]
  <2>1. f \in [Bufs -> Int] /\ \A c \in Bufs : f[c] = h.ref[c] + d * Occurs(c, s)
    BY <1>2
  <2>2. QED BY <2>1
<1>4. f = [c \in Bufs |-> h.ref[c] + d * Occurs(c, s)]
  BY <1>3
<1>5. RefAll(h, s, d) = [h EXCEPT !.ref = f]
  BY <1>4 DEF RefAll
<1>6. QED BY <1>1, <1>3, <1>5 DEF Heap

\* ring counts follow snapshot n, and a ring no longer used is emptied
CountsMove(h, L, g, M, n) == \A q \in Rings :
    /\ g.ring[q].rc = h.ring[q].rc - One(n \in Users(h, L, q)) + One(n \in Users(g, M, q))
    /\ g.ring[q].rc = 0 => g.ring[q].segs = <<>>

\* An edit that leaves ring counts and lists in order gives a heap in order.
LEMMA EditOK ==
  ASSUME NEW h, NEW L, HeapOK(h, L), NEW g, NEW M, NEW n, NEW r \in Rings,
         Touch(h, L, g, M, n, r),
         n \in M => g.of[n].ring \in Rings,
         CountsMove(h, L, g, M, n),
         Len(g.ring[r].segs) <= MaxSegs
  PROVE  HeapOK(g, M)
<1>1. g \in Heap /\ M \in SUBSET Snaps
  BY DEF Touch
<1>2. \A s \in M : g.of[s].ring \in Rings
  BY DEF Touch, HeapOK
<1>3. \A q \in Rings : Len(g.ring[q].segs) <= MaxSegs
  BY DEF Touch, HeapOK
<1>4. \A q \in Rings : g.ring[q].rc = Cardinality(Users(g, M, q))
  <2> TAKE q \in Rings
  <2>1. Cardinality(Users(g, M, q)) = Cardinality(Users(h, L, q))
                - One(n \in Users(h, L, q)) + One(n \in Users(g, M, q))
    BY Effect
  <2>2. h.ring[q].rc = Cardinality(Users(h, L, q))
    BY DEF HeapOK
  <2>3. QED BY <2>1, <2>2 DEF CountsMove
<1>5. QED BY <1>1, <1>2, <1>3, <1>4 DEF HeapOK, CountsMove

-----------------------------------------------------------------------------
(* Rings and their users.                                                  *)

\* A ring counted once belongs to one snapshot only.
LEMMA Alone ==
  ASSUME NEW h, NEW L, HeapOK(h, L), NEW ns \in L, h.ring[h.of[ns].ring].rc = 1
  PROVE  \A s \in L \ {ns} : h.of[s].ring # h.of[ns].ring
<1> DEFINE r == h.of[ns].ring
<1>1. r \in Rings
  BY DEF HeapOK
<1>2. Cardinality(Users(h, L, r)) = 1 /\ IsFiniteSet(Users(h, L, r))
  BY <1>1, Finite DEF HeapOK
<1>3. PICK x : Users(h, L, r) = {x}
  BY <1>2, FS_Singleton
<1>4. QED BY <1>3 DEF Users

\* A ring counted more than once has another user.
LEMMA Shared ==
  ASSUME NEW h, NEW L, HeapOK(h, L), NEW ns \in L, h.ring[h.of[ns].ring].rc # 1
  PROVE  /\ \E s \in L \ {ns} : h.of[s].ring = h.of[ns].ring
         /\ h.of[ns].ring \in Rings /\ h.ring[h.of[ns].ring].rc \in Nat \ {0, 1}
<1> DEFINE r == h.of[ns].ring
<1>1. r \in Rings /\ h.ring[r].rc \in Nat
  BY DEF HeapOK, Heap, RingRec
<1>2. Cardinality(Users(h, L, r)) # 1 /\ IsFiniteSet(Users(h, L, r))
  BY <1>1, Finite DEF HeapOK
<1>3. ns \in Users(h, L, r)
  BY DEF Users
<1>4. Users(h, L, r) # {ns}
  BY <1>2, FS_Singleton
<1>5. \E s \in L \ {ns} : s \in Users(h, L, r)
  BY <1>3, <1>4 DEF Users
<1>6. Cardinality(Users(h, L, r)) # 0
  BY <1>2, <1>3, FS_EmptySet
<1>7. h.ring[r].rc # 0
  BY <1>1, <1>6 DEF HeapOK
<1>8. \E s \in L \ {ns} : h.of[s].ring = r
  BY <1>5 DEF Users
<1>9. QED BY <1>1, <1>7, <1>8

\* There is a free ring when fewer than all snapshots suffice to use the others.
LEMMA FreeRingExists ==
  ASSUME NEW h, NEW L, HeapOK(h, L), NEW K \in SUBSET L, K # Snaps,
         \A r \in Rings : h.ring[r].rc # 0 => \E s \in K : h.of[s].ring = r
  PROVE  FreeRing(h) \in Rings /\ h.ring[FreeRing(h)].rc = 0
<1>1. \E r \in Rings : h.ring[r].rc = 0
  <2> SUFFICES ASSUME \A r \in Rings : h.ring[r].rc # 0
               PROVE  FALSE
    OBVIOUS
  <2> DEFINE f == [s \in K |-> h.of[s].ring]
  <2>1. K \in SUBSET Snaps /\ IsFiniteSet(Snaps) /\ Rings = Snaps
    BY SegHeapAssumption DEF HeapOK, Rings
  <2>2. IsFiniteSet(K) /\ Cardinality(K) <= Cardinality(Snaps)
        /\ (Cardinality(Snaps) = Cardinality(K) => Snaps = K)
    BY <2>1, FS_Subset
  <2>3. \A s \in K : h.of[s].ring \in Snaps
    BY <2>1 DEF HeapOK
  <2>4. f \in [K -> Snaps] /\ \A s \in K : f[s] = h.of[s].ring
    BY <2>3
  <2> HIDE DEF f
  <2>5. \A r \in Snaps : \E s \in K : f[s] = r
    BY <2>1, <2>4
  <2>6. f \in Surjection(K, Snaps)
    BY <2>4, <2>5, Fun_IsSurj
  <2>7. Cardinality(Snaps) <= Cardinality(K)
    BY <2>2, <2>6, FS_Surjection
  <2>8. Cardinality(K) \in Nat /\ Cardinality(Snaps) \in Nat
    BY <2>1, <2>2, FS_CardinalityType
  <2>9. Cardinality(Snaps) = Cardinality(K)
    BY <2>2, <2>7, <2>8
  <2>10. QED BY <2>2, <2>9
<1>2. QED BY <1>1 DEF FreeRing

\* A ring in use has a user.
LEMMA SomeUser ==
  ASSUME NEW h, NEW L, HeapOK(h, L), NEW r \in Rings, h.ring[r].rc # 0
  PROVE  \E s \in L : h.of[s].ring = r
<1>1. Cardinality(Users(h, L, r)) # 0 /\ IsFiniteSet(Users(h, L, r))
  BY Finite DEF HeapOK
<1>2. Users(h, L, r) # {}
  BY <1>1, FS_EmptySet
<1>3. QED BY <1>2 DEF Users

\* There is a free ring for a snapshot that starts empty.
LEMMA FreeRingForNew ==
  ASSUME NEW h, NEW L, HeapOK(h, L), NEW ns \in Snaps \ L
  PROVE  FreeRing(h) \in Rings /\ h.ring[FreeRing(h)].rc = 0
<1>1. \A r \in Rings : h.ring[r].rc # 0 => \E s \in L : h.of[s].ring = r
  BY SomeUser
<1>2. QED BY <1>1, FreeRingExists

\* There is a free ring for the copy of a shared one.
LEMMA FreeRingForCopy ==
  ASSUME NEW h, NEW L, HeapOK(h, L), NEW ns \in L, h.ring[h.of[ns].ring].rc # 1
  PROVE  FreeRing(h) \in Rings /\ h.ring[FreeRing(h)].rc = 0
<1>1. \A r \in Rings : h.ring[r].rc # 0 => \E s \in L \ {ns} : h.of[s].ring = r
  <2> SUFFICES ASSUME NEW r \in Rings, h.ring[r].rc # 0
               PROVE  \E s \in L \ {ns} : h.of[s].ring = r
    OBVIOUS
  <2>1. PICK s \in L : h.of[s].ring = r
    BY SomeUser
  <2>2. \E t \in L \ {ns} : h.of[t].ring = h.of[ns].ring
    BY Shared
  <2>3. QED BY <2>1, <2>2
<1>2. L \ {ns} \in SUBSET L /\ L \ {ns} # Snaps
  BY DEF HeapOK
<1>3. QED BY <1>1, <1>2, FreeRingExists

\* the slack of every buffer is the same
SameSlack(h, L, g, M) == \A c \in Bufs : Slack(g, M, c) = Slack(h, L, c)

\* snap_clone without a base: a snapshot with an empty ring of its own.
LEMMA CloneEmpty ==
  ASSUME NEW h, NEW L, HeapOK(h, L), NEW ns \in Snaps \ L
  PROVE  LET g == snap_clone(h, ns, NoSnap)
         IN  /\ HeapOK(g, L \cup {ns}) /\ SameSlack(h, L, g, L \cup {ns}) /\ Kept(h, g, L)
<1> DEFINE g == snap_clone(h, ns, NoSnap)
           M == L \cup {ns}
           r == FreeRing(h)
           P == [ring |-> r, live |-> NoBuf, init |-> NoBuf]
           Q == [rc |-> 1, segs |-> <<>>]
           F == [h.of EXCEPT ![ns] = P]
           G == [h.ring EXCEPT ![r] = Q]
<1>1. r \in Rings /\ h.ring[r].rc = 0
  BY FreeRingForNew
<1>2. h \in Heap /\ L \in SUBSET Snaps /\ h.ring[r].segs = <<>>
  BY <1>1 DEF HeapOK
<1>3. P \in Parts /\ Q \in RingRec /\ P.ring = r /\ P.live = NoBuf /\ P.init = NoBuf
      /\ Q.rc = 1 /\ Q.segs = <<>>
  BY <1>1 DEF Parts, RingRec, Buf
<1>4. g = [h EXCEPT !.of = F, !.ring = G]
  BY DEF snap_clone
<1> HIDE DEF P, Q, g, r
<1>5. h.of \in [Snaps -> Parts] /\ h.ring \in [Rings -> RingRec]
  BY <1>2 DEF Heap
<1>6. F \in [Snaps -> Parts] /\ G \in [Rings -> RingRec]
  BY <1>3, <1>5
<1>7. /\ F[ns] = P /\ \A s \in L : F[s] = h.of[s]
      /\ G[r] = Q /\ \A q \in Rings \ {r} : G[q] = h.ring[q]
  BY <1>1, <1>2, <1>5
<1> HIDE DEF F, G
<1>8. g \in Heap /\ g.of = F /\ g.ring = G /\ g.ref = h.ref
  BY <1>2, <1>4, <1>6 DEF Heap
<1>9. Touch(h, L, g, M, ns, r)
  BY <1>2, <1>7, <1>8 DEF Touch
<1>10. \A q \in Rings : ns \notin Users(h, L, q) /\ (ns \in Users(g, M, q) <=> q = r)
  BY <1>3, <1>7, <1>8 DEF Users
<1>11. \A q \in Rings : g.ring[q].segs = h.ring[q].segs
  BY <1>2, <1>3, <1>7, <1>8
<1>12. HeapOK(g, M)
  <2>1. g.of[ns].ring \in Rings
    BY <1>1, <1>3, <1>7, <1>8
  <2>2. ASSUME NEW q \in Rings
        PROVE  /\ g.ring[q].rc = h.ring[q].rc - One(ns \in Users(h, L, q)) + One(ns \in Users(g, M, q))
               /\ g.ring[q].rc = 0 => g.ring[q].segs = <<>>
    <3>1. h.ring[q].rc \in Nat
      BY <1>5 DEF RingRec
    <3>2. One(ns \in Users(h, L, q)) = 0
      BY <1>10 DEF One
    <3>3. CASE q = r
      <4>1. One(ns \in Users(g, M, q)) = 1
        BY <1>10, <3>3 DEF One
      <4>2. g.ring[q].rc = 1
        BY <1>3, <1>7, <1>8, <3>3
      <4>3. QED BY <1>1, <3>2, <3>3, <4>1, <4>2
    <3>4. CASE q # r
      <4>1. One(ns \in Users(g, M, q)) = 0
        BY <1>10, <3>4 DEF One
      <4>2. g.ring[q] = h.ring[q]
        BY <1>7, <1>8, <3>4
      <4>3. h.ring[q].rc = 0 => h.ring[q].segs = <<>>
        BY DEF HeapOK
      <4>4. QED BY <3>1, <3>2, <4>1, <4>2, <4>3
    <3>5. QED BY <3>3, <3>4
  <2>3. Len(g.ring[r].segs) <= MaxSegs
    BY <1>1, <1>11 DEF HeapOK
  <2>4. CountsMove(h, L, g, M, ns)
    BY <2>2 DEF CountsMove
  <2>5. QED BY <1>1, <1>9, <2>1, <2>3, <2>4, EditOK
<1>13. SameSlack(h, L, g, M)
  <2> SUFFICES ASSUME NEW c \in Bufs
               PROVE  Slack(g, M, c) = Slack(h, L, c)
    BY DEF SameSlack
  <2>1. c # NoBuf
    BY SegHeapAssumption
  <2>2. /\ ns \notin Lives(h, L, c) /\ ns \notin Inits(h, L, c)
        /\ ns \notin Lives(g, M, c) /\ ns \notin Inits(g, M, c)
    BY <1>3, <1>7, <1>8, <2>1 DEF Lives, Inits
  <2>3. Uses(h, L, ns, r, c) = Uses(g, M, ns, r, c)
    BY <1>1, <1>11, <2>2 DEF Uses
  <2>4. g.ref[c] = h.ref[c]
    BY <1>8
  <2>5. QED BY <1>1, <1>9, <2>3, <2>4, Effect
<1>14. Kept(h, g, L)
  BY <1>7, <1>8, <1>11 DEF Kept, Segs, HeapOK
<1>15. QED BY <1>12, <1>13, <1>14 DEF g

\* snap_clone of a snapshot: it shares ring, live and init buffer with its base.
LEMMA CloneBase ==
  ASSUME NEW h, NEW L, HeapOK(h, L), NEW ns \in Snaps \ L, NEW base \in L
  PROVE  LET g == snap_clone(h, ns, base)
         IN  /\ HeapOK(g, L \cup {ns}) /\ SameSlack(h, L, g, L \cup {ns}) /\ Kept(h, g, L)
<1> DEFINE g == snap_clone(h, ns, base)
           M == L \cup {ns}
           P == h.of[base]
           r == P.ring
           Q == [h.ring[r] EXCEPT !.rc = @ + 1]
           F == [h.of EXCEPT ![ns] = P]
           G == [h.ring EXCEPT ![r] = Q]
           k == [h EXCEPT !.of = F, !.ring = G]
           m == seg_buf_ref(k, P.live)
<1>1. h \in Heap /\ L \in SUBSET Snaps /\ r \in Rings /\ base # NoSnap /\ base \in Snaps
  BY SegHeapAssumption DEF HeapOK
<1>2. h.of \in [Snaps -> Parts] /\ h.ring \in [Rings -> RingRec]
  BY <1>1 DEF Heap
<1>3. P \in Parts /\ P.live \in Buf /\ P.init \in Buf
  BY <1>1, <1>2 DEF Parts
<1>4. g = seg_buf_ref(m, P.init)
  BY <1>1 DEF snap_clone
<1>5. Q \in RingRec /\ h.ring[r].rc \in Nat /\ Q.rc = h.ring[r].rc + 1 /\ Q.segs = h.ring[r].segs
  <2>1. PICK z \in RingRec : z = h.ring[r]
    BY <1>1, <1>2
  <2>2. [z EXCEPT !.rc = z.rc + 1] \in RingRec /\ z.rc \in Nat
    BY DEF RingRec
  <2>3. [z EXCEPT !.rc = z.rc + 1].rc = z.rc + 1 /\ [z EXCEPT !.rc = z.rc + 1].segs = z.segs
    BY DEF RingRec
  <2>4. QED BY <2>1, <2>2, <2>3
<1> HIDE DEF P, Q, g, r
<1>6. F \in [Snaps -> Parts] /\ G \in [Rings -> RingRec]
  BY <1>2, <1>3, <1>5
<1>7. /\ F[ns] = P /\ \A s \in L : F[s] = h.of[s]
      /\ G[r] = Q /\ \A q \in Rings \ {r} : G[q] = h.ring[q]
  BY <1>1, <1>2
<1> HIDE DEF F, G
<1>8. k \in Heap /\ k.of = F /\ k.ring = G /\ k.ref = h.ref
  BY <1>1, <1>6 DEF Heap
<1> HIDE DEF k
<1>9. /\ m \in Heap /\ m.of = F /\ m.ring = G
      /\ \A c \in Bufs : h.ref[c] \in Int /\ m.ref[c] = h.ref[c] + One(c = P.live)
  BY <1>3, <1>8, RefFields
<1> HIDE DEF m
<1>10. /\ g \in Heap /\ g.of = F /\ g.ring = G
       /\ \A c \in Bufs : g.ref[c] = m.ref[c] + One(c = P.init)
  BY <1>3, <1>4, <1>9, RefFields
<1>11. Touch(h, L, g, M, ns, r)
  BY <1>1, <1>7, <1>10 DEF Touch
<1>12. \A q \in Rings : ns \notin Users(h, L, q) /\ (ns \in Users(g, M, q) <=> q = r)
  BY <1>7, <1>10 DEF Users, r
<1>13. \A q \in Rings : g.ring[q].segs = h.ring[q].segs
  BY <1>5, <1>7, <1>10
<1>14. HeapOK(g, M)
  <2>1. g.of[ns].ring \in Rings
    BY <1>1, <1>7, <1>10 DEF r
  <2>2. ASSUME NEW q \in Rings
        PROVE  /\ g.ring[q].rc = h.ring[q].rc - One(ns \in Users(h, L, q)) + One(ns \in Users(g, M, q))
               /\ g.ring[q].rc = 0 => g.ring[q].segs = <<>>
    <3>1. h.ring[q].rc \in Nat
      BY <1>2 DEF RingRec
    <3>2. One(ns \in Users(h, L, q)) = 0
      BY <1>12 DEF One
    <3>3. CASE q = r
      <4>1. One(ns \in Users(g, M, q)) = 1
        BY <1>12, <3>3 DEF One
      <4>2. g.ring[q].rc = h.ring[q].rc + 1
        BY <1>5, <1>7, <1>10, <3>3
      <4>3. QED BY <3>1, <3>2, <4>1, <4>2
    <3>4. CASE q # r
      <4>1. One(ns \in Users(g, M, q)) = 0
        BY <1>12, <3>4 DEF One
      <4>2. g.ring[q] = h.ring[q]
        BY <1>7, <1>10, <3>4
      <4>3. h.ring[q].rc = 0 => h.ring[q].segs = <<>>
        BY DEF HeapOK
      <4>4. QED BY <3>1, <3>2, <4>1, <4>2, <4>3
    <3>5. QED BY <3>3, <3>4
  <2>3. Len(g.ring[r].segs) <= MaxSegs
    BY <1>1, <1>13 DEF HeapOK
  <2>4. CountsMove(h, L, g, M, ns)
    BY <2>2 DEF CountsMove
  <2>5. QED BY <1>1, <1>11, <2>1, <2>3, <2>4, EditOK
<1>15. SameSlack(h, L, g, M)
  <2> SUFFICES ASSUME NEW c \in Bufs
               PROVE  Slack(g, M, c) = Slack(h, L, c)
    BY DEF SameSlack
  <2>1. /\ ns \notin Lives(h, L, c) /\ ns \notin Inits(h, L, c)
        /\ ns \in Lives(g, M, c) <=> c = P.live
        /\ ns \in Inits(g, M, c) <=> c = P.init
    BY <1>7, <1>10 DEF Lives, Inits
  <2>2. PICK x \in Nat, y \in Nat : x = One(c = P.live) /\ y = One(c = P.init)
    BY DEF One
  <2>3. /\ One(ns \in Lives(h, L, c)) = 0 /\ One(ns \in Inits(h, L, c)) = 0
        /\ One(ns \in Lives(g, M, c)) = x /\ One(ns \in Inits(g, M, c)) = y
    BY <2>1, <2>2 DEF One
  <2>4. PICK o \in Nat : o = Occurs(c, h.ring[r].segs)
    <3>1. h.ring[r].segs \in Seq(Buf)
      BY <1>1, <1>2 DEF RingRec
    <3>2. QED BY <3>1, OccursType
  <2>5. Uses(h, L, ns, r, c) = o + 0 + 0 /\ Uses(g, M, ns, r, c) = o + x + y
    BY <1>1, <1>13, <2>3, <2>4 DEF Uses
  <2>6. PICK u \in Int, v \in Int : u = h.ref[c] /\ v = Slack(h, L, c)
    BY <1>1, <1>11, Effect
  <2>7. g.ref[c] = (u + x) + y
    BY <1>9, <1>10, <2>2, <2>6
  <2>8. Slack(g, M, c) = v + (g.ref[c] - u) + Uses(h, L, ns, r, c) - Uses(g, M, ns, r, c)
    BY <1>1, <1>11, <2>6, Effect
  <2>9. Slack(g, M, c) = v
    BY <2>5, <2>7, <2>8
  <2>10. QED BY <2>6, <2>9
<1>16. Kept(h, g, L)
  BY <1>7, <1>10, <1>13 DEF Kept, Segs, HeapOK
<1>17. QED BY <1>14, <1>15, <1>16 DEF g

\* the ring of ns is its own, all else about L is as it was
OwnRing(h, g, L, ns) ==
    /\ HeapOK(g, L) /\ SameSlack(h, L, g, L) /\ Kept(h, g, L \ {ns})
    /\ g.ring[g.of[ns].ring].rc = 1 /\ Segs(g, ns) = Segs(h, ns)
    /\ g.of[ns].live = h.of[ns].live /\ g.of[ns].init = h.of[ns].init

\* ring_cow copies a shared ring: the snapshot then has a ring of its own with
\* the same segments, each with one more reference.
LEMMA CowCopies ==
  ASSUME NEW h, NEW L, HeapOK(h, L), NEW ns \in L, h.ring[h.of[ns].ring].rc # 1
  PROVE  OwnRing(h, ring_cow(h, ns), L, ns)
<1> DEFINE g == ring_cow(h, ns)
           r == h.of[ns].ring
           nr == FreeRing(h)
           S == h.ring[r].segs
           P == [h.of[ns] EXCEPT !.ring = nr]
           N == [rc |-> 1, segs |-> S]
           F == [h.of EXCEPT ![ns] = P]
           G == [h.ring EXCEPT ![nr] = N]
           Q == [G[r] EXCEPT !.rc = @ - 1]
           H == [G EXCEPT ![r] = Q]
           k == [h EXCEPT !.of = F, !.ring = G]
           m == RefAll(k, S, 1)
<1>1. h \in Heap /\ L \in SUBSET Snaps /\ ns \in Snaps
  BY DEF HeapOK
<1>2. h.of \in [Snaps -> Parts] /\ h.ring \in [Rings -> RingRec]
  BY <1>1 DEF Heap
<1>3. r \in Rings /\ h.ring[r].rc \in Nat \ {0, 1} /\ S \in Seq(Buf)
  BY <1>2, Shared DEF RingRec
<1>4. nr \in Rings /\ h.ring[nr].rc = 0 /\ nr # r /\ h.ring[nr].segs = <<>>
  <2>1. nr \in Rings /\ h.ring[nr].rc = 0
    BY FreeRingForCopy
  <2>2. QED BY <1>3, <2>1 DEF HeapOK
<1>5. CopyRing(h, ns, nr) = k
  BY DEF CopyRing
<1>6. g = ring_unref(m, r)
  BY <1>5 DEF ring_cow
<1>7. /\ P \in Parts /\ P.ring = nr /\ P.live = h.of[ns].live /\ P.init = h.of[ns].init
      /\ N \in RingRec /\ N.rc = 1 /\ N.segs = S
  <2>1. PICK z \in Parts : z = h.of[ns]
    BY <1>1, <1>2
  <2>2. /\ [z EXCEPT !.ring = nr] \in Parts /\ [z EXCEPT !.ring = nr].ring = nr
        /\ [z EXCEPT !.ring = nr].live = z.live /\ [z EXCEPT !.ring = nr].init = z.init
    BY <1>4 DEF Parts
  <2>3. N \in RingRec /\ N.rc = 1 /\ N.segs = S
    BY <1>3 DEF RingRec
  <2>4. QED BY <2>1, <2>2, <2>3
<1> HIDE DEF P, N, nr, r, S, g
<1>8. F \in [Snaps -> Parts] /\ G \in [Rings -> RingRec]
  BY <1>2, <1>7
<1>9. /\ F[ns] = P /\ \A s \in L \ {ns} : F[s] = h.of[s]
      /\ G[nr] = N /\ \A q \in Rings \ {nr} : G[q] = h.ring[q]
  BY <1>1, <1>2, <1>4
<1> HIDE DEF F, G
<1>10. k \in Heap /\ k.of = F /\ k.ring = G /\ k.ref = h.ref
  BY <1>1, <1>8 DEF Heap
<1> HIDE DEF k
<1>11. /\ m \in Heap /\ m.of = F /\ m.ring = G
       /\ \A c \in Bufs : h.ref[c] \in Int /\ Occurs(c, S) \in Nat /\ m.ref[c] = h.ref[c] + 1 * Occurs(c, S)
  BY <1>3, <1>10, RefAllFields
<1> HIDE DEF m
<1>12. G[r] = h.ring[r]
  BY <1>3, <1>4, <1>9
<1>13. Q \in RingRec /\ Q.rc = h.ring[r].rc - 1 /\ Q.segs = S
  <2>1. PICK z \in RingRec : z = G[r] /\ z.rc \in Nat \ {0, 1} /\ z.segs = S
    BY <1>2, <1>3, <1>12 DEF S
  <2>2. [z EXCEPT !.rc = z.rc - 1] \in RingRec
    BY <2>1 DEF RingRec
  <2>3. [z EXCEPT !.rc = z.rc - 1].rc = z.rc - 1 /\ [z EXCEPT !.rc = z.rc - 1].segs = z.segs
    BY <2>1 DEF RingRec
  <2>4. QED BY <1>12, <2>1, <2>2, <2>3
<1>14. g = [m EXCEPT !.ring = H]
  <2>1. m.ring[r].rc # 1
    BY <1>3, <1>11, <1>12
  <2>2. g = [m EXCEPT !.ring[r].rc = @ - 1]
    BY <1>6, <2>1 DEF ring_unref
  <2>3. QED BY <1>11, <2>2
<1> HIDE DEF Q
<1>15. H \in [Rings -> RingRec] /\ H[r] = Q /\ \A q \in Rings \ {r} : H[q] = G[q]
  BY <1>3, <1>8, <1>13
<1> HIDE DEF H
<1>16. g \in Heap /\ g.of = F /\ g.ring = H /\ g.ref = m.ref
  BY <1>11, <1>14, <1>15 DEF Heap
<1>17. /\ g.ring[nr].segs = S /\ g.ring[nr].rc = 1
       /\ \A q \in Rings \ {nr} : g.ring[q].segs = h.ring[q].segs
  <2>1. g.ring[nr] = N
    BY <1>4, <1>9, <1>15, <1>16
  <2>2. \A q \in Rings \ {nr} : g.ring[q].segs = h.ring[q].segs
    BY <1>9, <1>13, <1>15, <1>16 DEF S
  <2>3. QED BY <1>7, <2>1, <2>2
<1>18. Touch(h, L, g, L, ns, nr)
  BY <1>1, <1>9, <1>16, <1>17 DEF Touch
<1>19. \A q \in Rings : (ns \in Users(h, L, q) <=> q = r) /\ (ns \in Users(g, L, q) <=> q = nr)
  BY <1>7, <1>9, <1>16 DEF Users, r
<1>20. HeapOK(g, L)
  <2>1. g.of[ns].ring \in Rings
    BY <1>4, <1>7, <1>9, <1>16
  <2>2. ASSUME NEW q \in Rings
        PROVE  /\ g.ring[q].rc = h.ring[q].rc - One(ns \in Users(h, L, q)) + One(ns \in Users(g, L, q))
               /\ g.ring[q].rc = 0 => g.ring[q].segs = <<>>
    <3>1. h.ring[q].rc \in Nat
      BY <1>2 DEF RingRec
    <3>2. CASE q = r
      <4>1. One(ns \in Users(h, L, q)) = 1 /\ One(ns \in Users(g, L, q)) = 0
        BY <1>4, <1>19, <3>2 DEF One
      <4>2. g.ring[q].rc = h.ring[q].rc - 1 /\ h.ring[q].rc \in Nat \ {0, 1}
        BY <1>3, <1>13, <1>15, <1>16, <3>2
      <4>3. QED BY <4>1, <4>2
    <3>3. CASE q = nr
      <4>1. One(ns \in Users(h, L, q)) = 0 /\ One(ns \in Users(g, L, q)) = 1
        BY <1>4, <1>19, <3>3 DEF One
      <4>2. g.ring[q].rc = 1 /\ h.ring[q].rc = 0
        BY <1>4, <1>17, <3>3
      <4>3. QED BY <4>1, <4>2
    <3>4. CASE q # r /\ q # nr
      <4>1. One(ns \in Users(h, L, q)) = 0 /\ One(ns \in Users(g, L, q)) = 0
        BY <1>19, <3>4 DEF One
      <4>2. g.ring[q] = h.ring[q]
        BY <1>9, <1>15, <1>16, <3>4
      <4>3. h.ring[q].rc = 0 => h.ring[q].segs = <<>>
        BY DEF HeapOK
      <4>4. QED BY <3>1, <4>1, <4>2, <4>3
    <3>5. QED BY <3>2, <3>3, <3>4
  <2>3. Len(g.ring[nr].segs) <= MaxSegs
    BY <1>3, <1>17 DEF HeapOK, S
  <2>4. CountsMove(h, L, g, L, ns)
    BY <2>2 DEF CountsMove
  <2>5. QED BY <1>4, <1>18, <2>1, <2>3, <2>4, EditOK
<1>21. SameSlack(h, L, g, L)
  <2> SUFFICES ASSUME NEW c \in Bufs
               PROVE  Slack(g, L, c) = Slack(h, L, c)
    BY DEF SameSlack
  <2>1. /\ ns \in Lives(h, L, c) <=> ns \in Lives(g, L, c)
        /\ ns \in Inits(h, L, c) <=> ns \in Inits(g, L, c)
    BY <1>7, <1>9, <1>16 DEF Lives, Inits
  <2>2. PICK x \in Nat, y \in Nat : x = One(ns \in Lives(h, L, c)) /\ y = One(ns \in Inits(h, L, c))
    BY DEF One
  <2>3. One(ns \in Lives(g, L, c)) = x /\ One(ns \in Inits(g, L, c)) = y
    BY <2>1, <2>2 DEF One
  <2>4. PICK o \in Nat : o = Occurs(c, S)
    BY <1>11
  <2>5. Uses(h, L, ns, nr, c) = 0 + x + y
    BY <1>4, <2>2, OccursEmpty DEF Uses
  <2>6. Uses(g, L, ns, nr, c) = o + x + y
    BY <1>17, <2>3, <2>4 DEF Uses
  <2>7. PICK u \in Int, v \in Int : u = h.ref[c] /\ v = Slack(h, L, c)
    BY <1>4, <1>18, Effect
  <2>8. g.ref[c] = u + o
    BY <1>11, <1>16, <2>4, <2>7
  <2>9. Slack(g, L, c) = v + (g.ref[c] - u) + Uses(h, L, ns, nr, c) - Uses(g, L, ns, nr, c)
    BY <1>4, <1>18, <2>7, Effect
  <2>10. Slack(g, L, c) = v
    BY <2>5, <2>6, <2>8, <2>9
  <2>11. QED BY <2>7, <2>10
<1>22. Kept(h, g, L \ {ns})
  <2> SUFFICES ASSUME NEW s \in L \ {ns}
               PROVE  g.of[s] = h.of[s] /\ Segs(g, s) = Segs(h, s)
    BY DEF Kept
  <2>1. g.of[s] = h.of[s]
    BY <1>9, <1>16
  <2>2. h.of[s].ring \in Rings /\ h.of[s].ring # nr
    <3>1. h.of[s].ring \in Rings
      BY DEF HeapOK
    <3>2. ASSUME h.of[s].ring = nr PROVE FALSE
      <4>1. s \in Users(h, L, nr)
        BY <3>2 DEF Users
      <4>2. Cardinality(Users(h, L, nr)) = 0 /\ IsFiniteSet(Users(h, L, nr))
        BY <1>4, Finite DEF HeapOK
      <4>3. QED BY <4>1, <4>2, FS_EmptySet
    <3>3. QED BY <3>1, <3>2
  <2>3. QED BY <1>17, <2>1, <2>2 DEF Segs
<1>23. /\ g.of[ns].ring = nr /\ g.of[ns].live = h.of[ns].live /\ g.of[ns].init = h.of[ns].init
  BY <1>7, <1>9, <1>16
<1>24. QED BY <1>17, <1>20, <1>21, <1>22, <1>23 DEF OwnRing, Segs, S, r, g

\* After ring_cow the snapshot has a ring of its own.
LEMMA Cow ==
  ASSUME NEW h, NEW L, HeapOK(h, L), NEW ns \in L
  PROVE  OwnRing(h, ring_cow(h, ns), L, ns)
<1>1. CASE h.ring[h.of[ns].ring].rc = 1
  <2>1. ring_cow(h, ns) = h
    BY <1>1 DEF ring_cow
  <2>2. QED BY <1>1, <2>1 DEF OwnRing, SameSlack, Kept
<1>2. QED BY <1>1, CowCopies

-----------------------------------------------------------------------------
(* Writes to one snapshot.                                                 *)

\* g differs from h in the parts of ns but its ring, in the list of the ring
\* and in counts; a list that changes belongs to ns alone
Written(h, L, g, ns) ==
    LET r == h.of[ns].ring
    IN  /\ g \in Heap /\ g.of[ns].ring = r /\ g.ring[r].rc = h.ring[r].rc
        /\ \A s \in L \ {ns} : g.of[s] = h.of[s]
        /\ \A q \in Rings \ {r} : g.ring[q] = h.ring[q]
        /\ g.ring[r].segs = h.ring[r].segs \/ h.ring[r].rc = 1
        /\ Len(g.ring[r].segs) <= MaxSegs

\* uses of b by ns, the ring included
Holds(h, ns, b) ==
    Occurs(b, h.ring[h.of[ns].ring].segs) + One(b = h.of[ns].live) + One(b = h.of[ns].init)

\* the slack of a buffer moves with its count and with the uses by ns
SlackMoves(h, L, g, ns) == \A c \in Bufs :
    /\ h.ref[c] \in Int /\ g.ref[c] \in Int /\ Slack(h, L, c) \in Int
    /\ Holds(h, ns, c) \in Nat /\ Holds(g, ns, c) \in Nat
    /\ Slack(g, L, c) = Slack(h, L, c) + (g.ref[c] - h.ref[c]) + Holds(h, ns, c) - Holds(g, ns, c)

\* What a write does: other snapshots stay as they were, and the slack of a
\* buffer moves with its count and with the uses by ns.
LEMMA Write ==
  ASSUME NEW h, NEW L, HeapOK(h, L), NEW ns \in L, NEW g, Written(h, L, g, ns)
  PROVE  HeapOK(g, L) /\ Kept(h, g, L \ {ns}) /\ SlackMoves(h, L, g, ns)
<1> DEFINE r == h.of[ns].ring
<1>1. /\ h \in Heap /\ L \in SUBSET Snaps /\ r \in Rings
      /\ h.of \in [Snaps -> Parts] /\ h.ring \in [Rings -> RingRec]
  BY DEF HeapOK, Heap
<1>2. /\ g \in Heap /\ g.of[ns].ring = r /\ g.ring[r].rc = h.ring[r].rc
      /\ \A s \in L \ {ns} : g.of[s] = h.of[s]
      /\ \A q \in Rings \ {r} : g.ring[q] = h.ring[q]
      /\ g.ring[r].segs = h.ring[r].segs \/ h.ring[r].rc = 1
      /\ Len(g.ring[r].segs) <= MaxSegs
  BY DEF Written
<1> HIDE DEF r
<1>3. Touch(h, L, g, L, ns, r)
  BY <1>1, <1>2 DEF Touch
<1>4. \A q \in Rings : ns \in Users(h, L, q) <=> ns \in Users(g, L, q)
  BY <1>2 DEF Users, r
<1>5. \A q \in Rings : g.ring[q].rc = h.ring[q].rc /\ h.ring[q].rc \in Nat
  BY <1>1, <1>2 DEF RingRec
<1>6. CountsMove(h, L, g, L, ns)
  <2> SUFFICES ASSUME NEW q \in Rings
               PROVE  /\ g.ring[q].rc = h.ring[q].rc - One(ns \in Users(h, L, q)) + One(ns \in Users(g, L, q))
                      /\ g.ring[q].rc = 0 => g.ring[q].segs = <<>>
    BY DEF CountsMove
  <2>1. PICK z \in Nat : z = One(ns \in Users(h, L, q))
    BY DEF One
  <2>2. One(ns \in Users(g, L, q)) = z
    BY <1>4, <2>1 DEF One
  <2>3. h.ring[q].rc = 0 => h.ring[q].segs = <<>>
    BY DEF HeapOK
  <2>4. g.ring[q].rc = 0 => g.ring[q].segs = <<>>
    BY <1>2, <1>5, <2>3
  <2>5. QED BY <1>5, <2>1, <2>2, <2>4
<1>7. HeapOK(g, L)
  BY <1>1, <1>2, <1>3, <1>6, EditOK
<1>8. Kept(h, g, L \ {ns})
  <2> SUFFICES ASSUME NEW s \in L \ {ns}
               PROVE  g.of[s] = h.of[s] /\ Segs(g, s) = Segs(h, s)
    BY DEF Kept
  <2>1. h.of[s].ring \in Rings
    BY DEF HeapOK
  <2>2. h.ring[r].rc = 1 => h.of[s].ring # r
    BY Alone DEF r
  <2>3. QED BY <1>2, <2>1, <2>2 DEF Segs
<1>9. ASSUME NEW c \in Bufs
      PROVE  /\ h.ref[c] \in Int /\ g.ref[c] \in Int /\ Slack(h, L, c) \in Int
             /\ Holds(h, ns, c) \in Nat /\ Holds(g, ns, c) \in Nat
             /\ Slack(g, L, c) = Slack(h, L, c) + (g.ref[c] - h.ref[c])
                                 + Holds(h, ns, c) - Holds(g, ns, c)
  <2>1. /\ ns \in Lives(h, L, c) <=> c = h.of[ns].live
        /\ ns \in Inits(h, L, c) <=> c = h.of[ns].init
        /\ ns \in Lives(g, L, c) <=> c = g.of[ns].live
        /\ ns \in Inits(g, L, c) <=> c = g.of[ns].init
    BY DEF Lives, Inits
  <2>2. /\ One(ns \in Lives(h, L, c)) = One(c = h.of[ns].live)
        /\ One(ns \in Inits(h, L, c)) = One(c = h.of[ns].init)
        /\ One(ns \in Lives(g, L, c)) = One(c = g.of[ns].live)
        /\ One(ns \in Inits(g, L, c)) = One(c = g.of[ns].init)
    BY <2>1 DEF One
  <2>3. Uses(h, L, ns, r, c) = Holds(h, ns, c)
    BY <2>2 DEF Uses, Holds, r
  <2>4. Uses(g, L, ns, r, c) = Holds(g, ns, c)
    BY <1>2, <2>2 DEF Uses, Holds
  <2>5. QED BY <1>1, <1>3, <2>3, <2>4, Effect
<1>10. QED BY <1>7, <1>8, <1>9 DEF SlackMoves

\* A change of counts only.
LEMMA RefOnly ==
  ASSUME NEW h, NEW L, HeapOK(h, L), NEW g \in Heap, g.of = h.of, g.ring = h.ring
  PROVE  /\ HeapOK(g, L) /\ Kept(h, g, L)
         /\ \A c \in Bufs : /\ h.ref[c] \in Int /\ g.ref[c] \in Int /\ Slack(h, L, c) \in Int
                            /\ Slack(g, L, c) = Slack(h, L, c) + (g.ref[c] - h.ref[c])
<1>1. \A q \in Rings : Users(g, L, q) = Users(h, L, q)
  BY DEF Users
<1>2. HeapOK(g, L)
  BY <1>1 DEF HeapOK
<1>3. Kept(h, g, L)
  BY DEF Kept, Segs
<1>4. ASSUME NEW c \in Bufs
      PROVE  /\ h.ref[c] \in Int /\ g.ref[c] \in Int /\ Slack(h, L, c) \in Int
             /\ Slack(g, L, c) = Slack(h, L, c) + (g.ref[c] - h.ref[c])
  <2>1. InRings(g, c) = InRings(h, c) /\ Lives(g, L, c) = Lives(h, L, c) /\ Inits(g, L, c) = Inits(h, L, c)
    BY DEF InRings, Lives, Inits
  <2>2. Account(g, L, c) = Account(h, L, c)
    BY <2>1 DEF Account
  <2>3. Account(h, L, c) \in Nat
    BY Finite DEF Account
  <2>4. h.ref[c] \in Int /\ g.ref[c] \in Int
    BY DEF HeapOK, Heap
  <2>5. Slack(h, L, c) = h.ref[c] - Account(h, L, c) /\ Slack(g, L, c) = g.ref[c] - Account(h, L, c)
    BY <2>2 DEF Slack
  <2>6. QED BY <2>3, <2>4, <2>5
<1>5. QED BY <1>2, <1>3, <1>4

PutLive(h, ns, b) == [h EXCEPT !.of[ns].live = b]
PutInit(h, ns, b) == [h EXCEPT !.of[ns].init = b]

\* the slack of a is one more, then that of b one less
SlackSwap(h, L, g, a, b) == \A c \in Bufs :
    Slack(h, L, c) \in Int /\ Slack(g, L, c) = Slack(h, L, c) + One(c = a) - One(c = b)

\* The live buffer of a snapshot is replaced.
LEMMA SetLive ==
  ASSUME NEW h, NEW L, HeapOK(h, L), NEW ns \in L, NEW b \in Buf
  PROVE  LET g == PutLive(h, ns, b)
         IN  HeapOK(g, L) /\ Kept(h, g, L \ {ns}) /\ SlackSwap(h, L, g, h.of[ns].live, b)
<1> DEFINE P == [h.of[ns] EXCEPT !.live = b]
           F == [h.of EXCEPT ![ns] = P]
           g == [h EXCEPT !.of = F]
           r == h.of[ns].ring
<1>1. /\ h \in Heap /\ L \in SUBSET Snaps /\ ns \in Snaps /\ r \in Rings
      /\ h.of \in [Snaps -> Parts] /\ h.ring \in [Rings -> RingRec]
  BY DEF HeapOK, Heap
<1>2. P \in Parts /\ P.ring = r /\ P.live = b /\ P.init = h.of[ns].init
  <2>1. PICK z \in Parts : z = h.of[ns]
    BY <1>1
  <2>2. /\ [z EXCEPT !.live = b] \in Parts /\ [z EXCEPT !.live = b].live = b
        /\ [z EXCEPT !.live = b].ring = z.ring /\ [z EXCEPT !.live = b].init = z.init
    BY DEF Parts
  <2>3. QED BY <2>1, <2>2
<1> HIDE DEF P, r
<1>3. F \in [Snaps -> Parts] /\ F[ns] = P /\ \A s \in L \ {ns} : F[s] = h.of[s]
  BY <1>1, <1>2
<1> HIDE DEF F
<1>4. g \in Heap /\ g.of = F /\ g.ring = h.ring /\ g.ref = h.ref
  BY <1>1, <1>3 DEF Heap
<1> HIDE DEF g
<1>5. Written(h, L, g, ns)
  <2>1. Len(h.ring[r].segs) <= MaxSegs
    BY <1>1 DEF HeapOK
  <2>2. QED BY <1>2, <1>3, <1>4, <2>1 DEF Written, r
<1>6. HeapOK(g, L) /\ Kept(h, g, L \ {ns}) /\ SlackMoves(h, L, g, ns)
  BY <1>5, Write
<1>7. ASSUME NEW c \in Bufs
      PROVE  /\ Slack(h, L, c) \in Int
             /\ Slack(g, L, c) = Slack(h, L, c) + One(c = h.of[ns].live) - One(c = b)
  <2>1. PICK x \in Nat, y \in Nat, z \in Nat : /\ x = One(c = h.of[ns].live)
                                              /\ y = One(c = b)
                                              /\ z = One(c = h.of[ns].init)
    BY DEF One
  <2>2. PICK o \in Nat : o = Occurs(c, h.ring[r].segs)
    <3>1. h.ring[r].segs \in Seq(Buf)
      BY <1>1 DEF RingRec
    <3>2. QED BY <3>1, OccursType
  <2>3. Holds(h, ns, c) = o + x + z
    BY <2>1, <2>2 DEF Holds, r
  <2>4. Holds(g, ns, c) = o + y + z
    BY <1>2, <1>3, <1>4, <2>1, <2>2 DEF Holds
  <2>5. /\ h.ref[c] \in Int /\ g.ref[c] \in Int /\ Slack(h, L, c) \in Int
        /\ Slack(g, L, c) = Slack(h, L, c) + (g.ref[c] - h.ref[c])
                            + Holds(h, ns, c) - Holds(g, ns, c)
    BY <1>6 DEF SlackMoves
  <2>6. PICK u \in Int, v \in Int : u = h.ref[c] /\ v = Slack(h, L, c)
    BY <2>5
  <2>7. g.ref[c] = u
    BY <1>4, <2>6
  <2>8. Slack(g, L, c) = v + x - y
    BY <2>3, <2>4, <2>5, <2>6, <2>7
  <2>9. QED BY <2>1, <2>6, <2>8
<1>8. PutLive(h, ns, b) = g
  BY DEF PutLive, g, F, P
<1>9. QED BY <1>6, <1>7, <1>8 DEF SlackSwap

\* The init buffer of a snapshot is replaced.
LEMMA SetInit ==
  ASSUME NEW h, NEW L, HeapOK(h, L), NEW ns \in L, NEW b \in Buf
  PROVE  LET g == PutInit(h, ns, b)
         IN  HeapOK(g, L) /\ Kept(h, g, L \ {ns}) /\ SlackSwap(h, L, g, h.of[ns].init, b)
<1> DEFINE P == [h.of[ns] EXCEPT !.init = b]
           F == [h.of EXCEPT ![ns] = P]
           g == [h EXCEPT !.of = F]
           r == h.of[ns].ring
<1>1. /\ h \in Heap /\ L \in SUBSET Snaps /\ ns \in Snaps /\ r \in Rings
      /\ h.of \in [Snaps -> Parts] /\ h.ring \in [Rings -> RingRec]
  BY DEF HeapOK, Heap
<1>2. P \in Parts /\ P.ring = r /\ P.init = b /\ P.live = h.of[ns].live
  <2>1. PICK z \in Parts : z = h.of[ns]
    BY <1>1
  <2>2. /\ [z EXCEPT !.init = b] \in Parts /\ [z EXCEPT !.init = b].init = b
        /\ [z EXCEPT !.init = b].ring = z.ring /\ [z EXCEPT !.init = b].live = z.live
    BY DEF Parts
  <2>3. QED BY <2>1, <2>2
<1> HIDE DEF P, r
<1>3. F \in [Snaps -> Parts] /\ F[ns] = P /\ \A s \in L \ {ns} : F[s] = h.of[s]
  BY <1>1, <1>2
<1> HIDE DEF F
<1>4. g \in Heap /\ g.of = F /\ g.ring = h.ring /\ g.ref = h.ref
  BY <1>1, <1>3 DEF Heap
<1> HIDE DEF g
<1>5. Written(h, L, g, ns)
  <2>1. Len(h.ring[r].segs) <= MaxSegs
    BY <1>1 DEF HeapOK
  <2>2. QED BY <1>2, <1>3, <1>4, <2>1 DEF Written, r
<1>6. HeapOK(g, L) /\ Kept(h, g, L \ {ns}) /\ SlackMoves(h, L, g, ns)
  BY <1>5, Write
<1>7. ASSUME NEW c \in Bufs
      PROVE  /\ Slack(h, L, c) \in Int
             /\ Slack(g, L, c) = Slack(h, L, c) + One(c = h.of[ns].init) - One(c = b)
  <2>1. PICK x \in Nat, y \in Nat, z \in Nat : /\ x = One(c = h.of[ns].init)
                                              /\ y = One(c = b)
                                              /\ z = One(c = h.of[ns].live)
    BY DEF One
  <2>2. PICK o \in Nat : o = Occurs(c, h.ring[r].segs)
    <3>1. h.ring[r].segs \in Seq(Buf)
      BY <1>1 DEF RingRec
    <3>2. QED BY <3>1, OccursType
  <2>3. Holds(h, ns, c) = o + z + x
    BY <2>1, <2>2 DEF Holds, r
  <2>4. Holds(g, ns, c) = o + z + y
    BY <1>2, <1>3, <1>4, <2>1, <2>2 DEF Holds
  <2>5. /\ h.ref[c] \in Int /\ g.ref[c] \in Int /\ Slack(h, L, c) \in Int
        /\ Slack(g, L, c) = Slack(h, L, c) + (g.ref[c] - h.ref[c])
                            + Holds(h, ns, c) - Holds(g, ns, c)
    BY <1>6 DEF SlackMoves
  <2>6. PICK u \in Int, v \in Int : u = h.ref[c] /\ v = Slack(h, L, c)
    BY <2>5
  <2>7. g.ref[c] = u
    BY <1>4, <2>6
  <2>8. Slack(g, L, c) = v + x - y
    BY <2>3, <2>4, <2>5, <2>6, <2>7
  <2>9. QED BY <2>1, <2>6, <2>8
<1>8. PutInit(h, ns, b) = g
  BY DEF PutInit, g, F, P
<1>9. QED BY <1>6, <1>7, <1>8 DEF SlackSwap

\* the slack of a buffer moves with its count and with a list S replaced by T
ListMoves(h, L, g0, g, S, T) == \A c \in Bufs :
    /\ Slack(h, L, c) \in Int /\ Occurs(c, T) \in Nat /\ Occurs(c, S) \in Nat
    /\ h.ref[c] \in Int /\ g0.ref[c] \in Int
    /\ Slack(g, L, c) = Slack(h, L, c) + (g0.ref[c] - h.ref[c]) + Occurs(c, S) - Occurs(c, T)

\* no snapshot refers to anything else
SameParts(h, g) == g.of = h.of

\* the list of ring r is T
SetList(h, r, T) == [h EXCEPT !.ring[r].segs = T]

\* A list written to the ring of a snapshot that nobody else uses; g0 is h with
\* other counts.
LEMMA WriteList ==
  ASSUME NEW h, NEW L, HeapOK(h, L), NEW ns \in L, h.ring[h.of[ns].ring].rc = 1,
         NEW g0 \in Heap, g0.of = h.of, g0.ring = h.ring,
         NEW T \in Seq(Buf), Len(T) <= MaxSegs,
         NEW g, g = SetList(g0, h.of[ns].ring, T)
  PROVE  /\ HeapOK(g, L) /\ Kept(h, g, L \ {ns}) /\ SameParts(h, g)
         /\ ListMoves(h, L, g0, g, h.ring[h.of[ns].ring].segs, T)
<1> DEFINE r == h.of[ns].ring
           Q == [h.ring[r] EXCEPT !.segs = T]
           G == [h.ring EXCEPT ![r] = Q]
<1>1. /\ h \in Heap /\ L \in SUBSET Snaps /\ ns \in Snaps /\ r \in Rings
      /\ h.of \in [Snaps -> Parts] /\ h.ring \in [Rings -> RingRec]
  BY DEF HeapOK, Heap
<1>2. Q \in RingRec /\ Q.rc = h.ring[r].rc /\ Q.segs = T
  <2>1. PICK z \in RingRec : z = h.ring[r]
    BY <1>1
  <2>2. /\ [z EXCEPT !.segs = T] \in RingRec
        /\ [z EXCEPT !.segs = T].rc = z.rc /\ [z EXCEPT !.segs = T].segs = T
    BY DEF RingRec
  <2>3. QED BY <2>1, <2>2
<1>3. g = [g0 EXCEPT !.ring = G]
  BY DEF SetList
<1> HIDE DEF Q
<1>4. G \in [Rings -> RingRec] /\ G[r] = Q /\ \A q \in Rings \ {r} : G[q] = h.ring[q]
  BY <1>1, <1>2
<1> HIDE DEF G
<1>5. g \in Heap /\ g.of = h.of /\ g.ring = G /\ g.ref = g0.ref
  BY <1>3, <1>4 DEF Heap
<1>6. Written(h, L, g, ns)
  BY <1>2, <1>4, <1>5 DEF Written
<1> HIDE DEF r
<1>7. HeapOK(g, L) /\ Kept(h, g, L \ {ns}) /\ SlackMoves(h, L, g, ns)
  BY <1>6, Write
<1>8. ASSUME NEW c \in Bufs
      PROVE  /\ Slack(h, L, c) \in Int /\ Occurs(c, T) \in Nat
             /\ Occurs(c, h.ring[r].segs) \in Nat
             /\ h.ref[c] \in Int /\ g0.ref[c] \in Int
             /\ Slack(g, L, c) = Slack(h, L, c) + (g0.ref[c] - h.ref[c])
                    + Occurs(c, h.ring[r].segs) - Occurs(c, T)
  <2>1. PICK y \in Nat, z \in Nat : y = One(c = h.of[ns].live) /\ z = One(c = h.of[ns].init)
    BY DEF One
  <2>2. PICK o \in Nat, p \in Nat : o = Occurs(c, h.ring[r].segs) /\ p = Occurs(c, T)
    <3>1. h.ring[r].segs \in Seq(Buf)
      BY <1>1 DEF RingRec
    <3>2. QED BY <3>1, OccursType
  <2>3. Holds(h, ns, c) = o + y + z
    BY <2>1, <2>2 DEF Holds, r
  <2>4. Holds(g, ns, c) = p + y + z
    BY <1>2, <1>4, <1>5, <2>1, <2>2 DEF Holds, r
  <2>5. /\ h.ref[c] \in Int /\ g.ref[c] \in Int /\ Slack(h, L, c) \in Int
        /\ Slack(g, L, c) = Slack(h, L, c) + (g.ref[c] - h.ref[c])
                            + Holds(h, ns, c) - Holds(g, ns, c)
    BY <1>7 DEF SlackMoves
  <2>6. PICK u \in Int, v \in Int, w \in Int : u = h.ref[c] /\ v = Slack(h, L, c) /\ w = g.ref[c]
    BY <2>5
  <2>7. w = g0.ref[c]
    BY <1>5, <2>6
  <2>8. Slack(g, L, c) = v + (w - u) + o - p
    BY <2>3, <2>4, <2>5, <2>6
  <2>9. QED BY <2>2, <2>6, <2>7, <2>8
<1>9. ListMoves(h, L, g0, g, h.ring[r].segs, T)
  BY <1>8 DEF ListMoves
<1>10. QED BY <1>5, <1>7, <1>9 DEF r, SameParts

\* the slack of b is one less
SlackLess(h, L, g, b) == \A c \in Bufs :
    Slack(h, L, c) \in Int /\ Slack(g, L, c) = Slack(h, L, c) - One(c = b)

\* AppendSeg on a ring of one's own takes over one reference to the segment.
LEMMA AppendOK ==
  ASSUME NEW h, NEW L, HeapOK(h, L), NEW ns \in L, h.ring[h.of[ns].ring].rc = 1, NEW b \in Buf
  PROVE  LET g == AppendSeg(h, ns, b)
         IN  HeapOK(g, L) /\ Kept(h, g, L \ {ns}) /\ SameParts(h, g) /\ SlackLess(h, L, g, b)
<1> DEFINE r == h.of[ns].ring
           S == h.ring[r].segs
           g == AppendSeg(h, ns, b)
<1>1. /\ h \in Heap /\ r \in Rings /\ S \in Seq(Buf) /\ Len(S) <= MaxSegs /\ MaxSegs \in Nat \ {0}
  BY SegHeapAssumption DEF HeapOK, Heap, RingRec
<1>2. Segs(h, ns) = S /\ Len(S) \in Nat
  BY <1>1, LenProperties DEF Segs
<1>3. CASE Len(S) >= MaxSegs
  <2> DEFINE g0 == seg_buf_unref(h, Head(S))
             T == Append(Tail(S), b)
  <2>1. S # <<>> /\ Head(S) \in Buf /\ Tail(S) \in Seq(Buf) /\ Len(Tail(S)) = Len(S) - 1
    <3>1. S # <<>>
      BY <1>1, <1>2, <1>3
    <3>2. QED BY <1>1, <3>1, HeadTailProperties
  <2>2. T \in Seq(Buf) /\ Len(T) <= MaxSegs
    <3>1. T \in Seq(Buf) /\ Len(T) = Len(Tail(S)) + 1
      BY <2>1, AppendProperties, SMTT(60)
    <3>2. QED BY <1>1, <1>2, <2>1, <3>1
  <2>3. /\ g0 \in Heap /\ g0.of = h.of /\ g0.ring = h.ring
        /\ \A c \in Bufs : h.ref[c] \in Int /\ g0.ref[c] = h.ref[c] - One(c = Head(S))
    BY <1>1, <2>1, UnrefFields
  <2>4. g = SetList(g0, r, T)
    <3>1. g = [g0 EXCEPT !.ring[r].segs = Append(Tail(@), b)]
      BY <1>2, <1>3 DEF AppendSeg
    <3>2. QED BY <2>3, <3>1 DEF SetList
  <2> HIDE DEF g0, T, g, S, r
  <2>5. HeapOK(g, L) /\ Kept(h, g, L \ {ns}) /\ SameParts(h, g) /\ ListMoves(h, L, g0, g, S, T)
    BY <2>2, <2>3, <2>4, WriteList DEF r, S
  <2>6. ASSUME NEW c \in Bufs
        PROVE  Slack(h, L, c) \in Int /\ Slack(g, L, c) = Slack(h, L, c) - One(c = b)
    <3>1. PICK x \in Nat, y \in Nat : x = One(c = Head(S)) /\ y = One(c = b)
      BY DEF One
    <3>2. PICK o \in Nat : o = Occurs(c, Tail(S))
      BY <2>1, OccursType
    <3>3. Occurs(c, S) = o + x
      BY <1>1, <2>1, <3>1, <3>2, OccursTail
    <3>4. Occurs(c, T) = o + y
      <4>1. PICK W \in Seq(Buf) : W = Tail(S)
        BY <2>1
      <4>2. Occurs(c, Append(W, b)) = Occurs(c, W) + One(c = b)
        BY OccursAppend
      <4>3. QED BY <3>1, <3>2, <4>1, <4>2 DEF T
    <3>5. PICK u \in Int, v \in Int : u = h.ref[c] /\ v = Slack(h, L, c)
      BY <2>5 DEF ListMoves
    <3>6. g0.ref[c] = u - x
      BY <2>3, <3>1, <3>5
    <3>7. Slack(g, L, c) = Slack(h, L, c) + (g0.ref[c] - h.ref[c]) + Occurs(c, S) - Occurs(c, T)
      BY <2>5 DEF ListMoves
    <3>8. Slack(g, L, c) = v + ((u - x) - u) + (o + x) - (o + y)
      BY <3>3, <3>4, <3>5, <3>6, <3>7
    <3>9. Slack(g, L, c) = v - y
      BY <3>8
    <3>10. QED BY <3>1, <3>5, <3>9
  <2>7. QED BY <2>5, <2>6 DEF SlackLess, g
<1>4. CASE ~(Len(S) >= MaxSegs)
  <2> DEFINE T == Append(S, b)
  <2>1. T \in Seq(Buf) /\ Len(T) <= MaxSegs
    <3>1. T \in Seq(Buf) /\ Len(T) = Len(S) + 1
      BY <1>1, AppendProperties, SMTT(60)
    <3>2. QED BY <1>1, <1>2, <1>4, <3>1
  <2>2. g = SetList(h, r, T)
    BY <1>2, <1>4 DEF AppendSeg, SetList
  <2> HIDE DEF T, g, S, r
  <2>3. HeapOK(g, L) /\ Kept(h, g, L \ {ns}) /\ SameParts(h, g) /\ ListMoves(h, L, h, g, S, T)
    BY <1>1, <2>1, <2>2, WriteList DEF r, S
  <2>4. ASSUME NEW c \in Bufs
        PROVE  Slack(h, L, c) \in Int /\ Slack(g, L, c) = Slack(h, L, c) - One(c = b)
    <3>1. PICK y \in Nat : y = One(c = b)
      BY DEF One
    <3>2. PICK o \in Nat : o = Occurs(c, S)
      BY <1>1, OccursType
    <3>3. Occurs(c, T) = o + y
      BY <1>1, <3>1, <3>2, OccursAppend DEF T
    <3>4. PICK u \in Int, v \in Int : u = h.ref[c] /\ v = Slack(h, L, c)
      BY <2>3 DEF ListMoves
    <3>5. Slack(g, L, c) = Slack(h, L, c) + (h.ref[c] - h.ref[c]) + Occurs(c, S) - Occurs(c, T)
      BY <2>3 DEF ListMoves
    <3>6. Slack(g, L, c) = v + (u - u) + o - (o + y)
      BY <3>2, <3>3, <3>4, <3>5
    <3>7. Slack(g, L, c) = v - y
      BY <3>6
    <3>8. QED BY <3>1, <3>4, <3>7
  <2>5. QED BY <2>3, <2>4 DEF SlackLess, g
<1>5. QED BY <1>3, <1>4

\* the slack of b is one more
SlackMore(h, L, g, b) == \A c \in Bufs :
    Slack(h, L, c) \in Int /\ Slack(g, L, c) = Slack(h, L, c) + One(c = b)

\* A reference taken with nobody to hold it yet.
LEMMA RefOne ==
  ASSUME NEW h, NEW L, HeapOK(h, L), NEW b \in Buf
  PROVE  LET g == seg_buf_ref(h, b)
         IN  HeapOK(g, L) /\ Kept(h, g, L) /\ SameParts(h, g) /\ SlackMore(h, L, g, b)
<1> DEFINE g == seg_buf_ref(h, b)
<1>1. h \in Heap
  BY DEF HeapOK
<1>2. /\ g \in Heap /\ g.of = h.of /\ g.ring = h.ring
      /\ \A c \in Bufs : h.ref[c] \in Int /\ g.ref[c] = h.ref[c] + One(c = b)
  BY <1>1, RefFields
<1> HIDE DEF g
<1>3. /\ HeapOK(g, L) /\ Kept(h, g, L)
      /\ \A c \in Bufs : /\ h.ref[c] \in Int /\ g.ref[c] \in Int /\ Slack(h, L, c) \in Int
                         /\ Slack(g, L, c) = Slack(h, L, c) + (g.ref[c] - h.ref[c])
  BY <1>2, RefOnly
<1>4. ASSUME NEW c \in Bufs
      PROVE  Slack(h, L, c) \in Int /\ Slack(g, L, c) = Slack(h, L, c) + One(c = b)
  <2>1. PICK x \in Int, v \in Int, y \in Nat : x = h.ref[c] /\ v = Slack(h, L, c) /\ y = One(c = b)
    BY <1>3 DEF One
  <2>2. Slack(g, L, c) = v + ((x + y) - x)
    BY <1>2, <1>3, <2>1
  <2>3. QED BY <2>1, <2>2
<1>5. QED BY <1>2, <1>3, <1>4 DEF SameParts, SlackMore, g

\* A reference given back.
LEMMA UnrefOne ==
  ASSUME NEW h, NEW L, HeapOK(h, L), NEW b \in Buf
  PROVE  LET g == seg_buf_unref(h, b)
         IN  HeapOK(g, L) /\ Kept(h, g, L) /\ SameParts(h, g) /\ SlackLess(h, L, g, b)
<1> DEFINE g == seg_buf_unref(h, b)
<1>1. h \in Heap
  BY DEF HeapOK
<1>2. /\ g \in Heap /\ g.of = h.of /\ g.ring = h.ring
      /\ \A c \in Bufs : h.ref[c] \in Int /\ g.ref[c] = h.ref[c] - One(c = b)
  BY <1>1, UnrefFields
<1> HIDE DEF g
<1>3. /\ HeapOK(g, L) /\ Kept(h, g, L)
      /\ \A c \in Bufs : /\ h.ref[c] \in Int /\ g.ref[c] \in Int /\ Slack(h, L, c) \in Int
                         /\ Slack(g, L, c) = Slack(h, L, c) + (g.ref[c] - h.ref[c])
  BY <1>2, RefOnly
<1>4. ASSUME NEW c \in Bufs
      PROVE  Slack(h, L, c) \in Int /\ Slack(g, L, c) = Slack(h, L, c) - One(c = b)
  <2>1. PICK x \in Int, v \in Int, y \in Nat : x = h.ref[c] /\ v = Slack(h, L, c) /\ y = One(c = b)
    BY <1>3 DEF One
  <2>2. Slack(g, L, c) = v + ((x - y) - x)
    BY <1>2, <1>3, <2>1
  <2>3. QED BY <2>1, <2>2
<1>5. QED BY <1>2, <1>3, <1>4 DEF SameParts, SlackLess, g

-----------------------------------------------------------------------------
(* The writers.                                                            *)

\* a push on ns leaves counts exact and the other snapshots alone
Safe(h, L, g, ns) == HeapOK(g, L) /\ SameSlack(h, L, g, L) /\ Kept(h, g, L \ {ns})

\* hls_push_segment_at: the reference of the new buffer goes to the ring.
LEMMA PushSegmentSafe ==
  ASSUME NEW h, NEW L, HeapOK(h, L), NEW ns \in L, NEW b \in Buf
  PROVE  Safe(h, L, hls_push_segment_at(h, ns, b), ns)
<1> DEFINE h1 == seg_buf_ref(h, b)
           h2 == ring_cow(h1, ns)
           h3 == AppendSeg(h2, ns, b)
<1>1. HeapOK(h1, L) /\ Kept(h, h1, L) /\ SlackMore(h, L, h1, b)
  BY RefOne
<1> HIDE DEF h1
<1>2. OwnRing(h1, h2, L, ns)
  BY <1>1, Cow
<1>3. /\ HeapOK(h2, L) /\ SameSlack(h1, L, h2, L) /\ Kept(h1, h2, L \ {ns})
      /\ h2.ring[h2.of[ns].ring].rc = 1
  BY <1>2 DEF OwnRing
<1> HIDE DEF h2
<1>4. HeapOK(h3, L) /\ Kept(h2, h3, L \ {ns}) /\ SlackLess(h2, L, h3, b)
  BY <1>3, AppendOK
<1> HIDE DEF h3
<1>5. Kept(h, h3, L \ {ns})
  BY <1>1, <1>3, <1>4 DEF Kept
<1>6. SameSlack(h, L, h3, L)
  <2> SUFFICES ASSUME NEW c \in Bufs
               PROVE  Slack(h3, L, c) = Slack(h, L, c)
    BY DEF SameSlack
  <2>1. PICK v \in Int, y \in Nat : v = Slack(h, L, c) /\ y = One(c = b)
    BY <1>1 DEF SlackMore, One
  <2>2. Slack(h1, L, c) = v + y
    BY <1>1, <2>1 DEF SlackMore
  <2>3. Slack(h2, L, c) = v + y
    BY <1>3, <2>2 DEF SameSlack
  <2>4. Slack(h3, L, c) = (v + y) - y
    BY <1>4, <2>1, <2>3 DEF SlackLess
  <2>5. QED BY <2>1, <2>4
<1>7. hls_push_segment_at(h, ns, b) = h3
  BY DEF hls_push_segment_at, h1, h2, h3
<1>8. QED BY <1>4, <1>5, <1>6, <1>7 DEF Safe

\* hls_push_segment_ll_at: the live buffer's reference moves to the ring.
LEMMA PushLLSafe ==
  ASSUME NEW h, NEW L, HeapOK(h, L), NEW ns \in L
  PROVE  Safe(h, L, hls_push_segment_ll_at(h, ns), ns)
<1> DEFINE b == h.of[ns].live
           h2 == ring_cow(h, ns)
           h3 == AppendSeg(h2, ns, b)
           h4 == PutLive(h3, ns, NoBuf)
<1>1. b \in Buf /\ NoBuf \in Buf /\ NoBuf \notin Bufs
  BY SegHeapAssumption DEF HeapOK, Heap, Parts, Buf
<1>2. OwnRing(h, h2, L, ns)
  BY Cow
<1>3. /\ HeapOK(h2, L) /\ SameSlack(h, L, h2, L) /\ Kept(h, h2, L \ {ns})
      /\ h2.ring[h2.of[ns].ring].rc = 1 /\ h2.of[ns].live = b
  BY <1>2 DEF OwnRing
<1> HIDE DEF h2, b
<1>4. HeapOK(h3, L) /\ Kept(h2, h3, L \ {ns}) /\ SameParts(h2, h3) /\ SlackLess(h2, L, h3, b)
  BY <1>1, <1>3, AppendOK
<1> HIDE DEF h3
<1>5. h3.of[ns].live = b
  BY <1>3, <1>4 DEF SameParts
<1>6. HeapOK(h4, L) /\ Kept(h3, h4, L \ {ns}) /\ SlackSwap(h3, L, h4, h3.of[ns].live, NoBuf)
  BY <1>1, <1>4, SetLive
<1> HIDE DEF h4
<1>7. Kept(h, h4, L \ {ns})
  BY <1>3, <1>4, <1>6 DEF Kept
<1>8. SameSlack(h, L, h4, L)
  <2> SUFFICES ASSUME NEW c \in Bufs
               PROVE  Slack(h4, L, c) = Slack(h, L, c)
    BY DEF SameSlack
  <2>1. PICK v \in Int, y \in Nat : v = Slack(h2, L, c) /\ y = One(c = b)
    BY <1>4 DEF SlackLess, One
  <2>2. Slack(h3, L, c) = v - y
    BY <1>4, <2>1 DEF SlackLess
  <2>3. One(c = NoBuf) = 0
    BY <1>1 DEF One
  <2>4. Slack(h4, L, c) = (v - y) + y - 0
    BY <1>5, <1>6, <2>1, <2>2, <2>3 DEF SlackSwap
  <2>5. Slack(h, L, c) = v
    BY <1>3, <2>1 DEF SameSlack
  <2>6. QED BY <2>4, <2>5
<1>9. hls_push_segment_ll_at(h, ns) = h4
  BY DEF hls_push_segment_ll_at, PutLive, b, h2, h3, h4
<1>10. QED BY <1>6, <1>7, <1>8, <1>9 DEF Safe

\* live_buf_ensure: the new live buffer gets a reference, the old one loses its.
LEMMA LiveEnsureSafe ==
  ASSUME NEW h, NEW L, HeapOK(h, L), NEW ns \in L, NEW b \in Buf
  PROVE  Safe(h, L, live_buf_ensure(h, ns, b), ns)
<1> DEFINE a == h.of[ns].live
           h1 == seg_buf_ref(h, b)
           h2 == seg_buf_unref(h1, a)
           h3 == PutLive(h2, ns, b)
<1>1. a \in Buf
  BY DEF HeapOK, Heap, Parts
<1> HIDE DEF a
<1>2. HeapOK(h1, L) /\ Kept(h, h1, L) /\ SameParts(h, h1) /\ SlackMore(h, L, h1, b)
  BY RefOne
<1> HIDE DEF h1
<1>3. HeapOK(h2, L) /\ Kept(h1, h2, L) /\ SameParts(h1, h2) /\ SlackLess(h1, L, h2, a)
  BY <1>1, <1>2, UnrefOne
<1> HIDE DEF h2
<1>4. h2.of[ns].live = a
  BY <1>2, <1>3 DEF SameParts, a
<1>5. HeapOK(h3, L) /\ Kept(h2, h3, L \ {ns}) /\ SlackSwap(h2, L, h3, h2.of[ns].live, b)
  BY <1>3, SetLive
<1> HIDE DEF h3
<1>6. Kept(h, h3, L \ {ns})
  BY <1>2, <1>3, <1>5 DEF Kept
<1>7. SameSlack(h, L, h3, L)
  <2> SUFFICES ASSUME NEW c \in Bufs
               PROVE  Slack(h3, L, c) = Slack(h, L, c)
    BY DEF SameSlack
  <2>1. PICK v \in Int, x \in Nat, y \in Nat : v = Slack(h, L, c) /\ x = One(c = a) /\ y = One(c = b)
    BY <1>2 DEF SlackMore, One
  <2>2. Slack(h1, L, c) = v + y
    BY <1>2, <2>1 DEF SlackMore
  <2>3. Slack(h2, L, c) = (v + y) - x
    BY <1>3, <2>1, <2>2 DEF SlackLess
  <2>4. Slack(h3, L, c) = ((v + y) - x) + x - y
    BY <1>4, <1>5, <2>1, <2>3 DEF SlackSwap
  <2>5. QED BY <2>1, <2>4
<1>8. live_buf_ensure(h, ns, b) = h3
  BY DEF live_buf_ensure, PutLive, a, h1, h2, h3
<1>9. QED BY <1>5, <1>6, <1>7, <1>8 DEF Safe

\* hls_set_init_segment_at: the new init buffer gets a reference, the old one loses its.
LEMMA SetInitSegmentSafe ==
  ASSUME NEW h, NEW L, HeapOK(h, L), NEW ns \in L, NEW b \in Buf
  PROVE  Safe(h, L, hls_set_init_segment_at(h, ns, b), ns)
<1> DEFINE a == h.of[ns].init
           h1 == seg_buf_ref(h, b)
           h2 == seg_buf_unref(h1, a)
           h3 == PutInit(h2, ns, b)
<1>1. a \in Buf
  BY DEF HeapOK, Heap, Parts
<1> HIDE DEF a
<1>2. HeapOK(h1, L) /\ Kept(h, h1, L) /\ SameParts(h, h1) /\ SlackMore(h, L, h1, b)
  BY RefOne
<1> HIDE DEF h1
<1>3. HeapOK(h2, L) /\ Kept(h1, h2, L) /\ SameParts(h1, h2) /\ SlackLess(h1, L, h2, a)
  BY <1>1, <1>2, UnrefOne
<1> HIDE DEF h2
<1>4. h2.of[ns].init = a
  BY <1>2, <1>3 DEF SameParts, a
<1>5. HeapOK(h3, L) /\ Kept(h2, h3, L \ {ns}) /\ SlackSwap(h2, L, h3, h2.of[ns].init, b)
  BY <1>3, SetInit
<1> HIDE DEF h3
<1>6. Kept(h, h3, L \ {ns})
  BY <1>2, <1>3, <1>5 DEF Kept
<1>7. SameSlack(h, L, h3, L)
  <2> SUFFICES ASSUME NEW c \in Bufs
               PROVE  Slack(h3, L, c) = Slack(h, L, c)
    BY DEF SameSlack
  <2>1. PICK v \in Int, x \in Nat, y \in Nat : v = Slack(h, L, c) /\ x = One(c = a) /\ y = One(c = b)
    BY <1>2 DEF SlackMore, One
  <2>2. Slack(h1, L, c) = v + y
    BY <1>2, <2>1 DEF SlackMore
  <2>3. Slack(h2, L, c) = (v + y) - x
    BY <1>3, <2>1, <2>2 DEF SlackLess
  <2>4. Slack(h3, L, c) = ((v + y) - x) + x - y
    BY <1>4, <1>5, <2>1, <2>3 DEF SlackSwap
  <2>5. QED BY <2>1, <2>4
<1>8. hls_set_init_segment_at(h, ns, b) = h3
  BY DEF hls_set_init_segment_at, PutInit, a, h1, h2, h3
<1>9. QED BY <1>5, <1>6, <1>7, <1>8 DEF Safe

\* hls_store_discontinuity_at: every segment and the live buffer are given back.
LEMMA DiscontinuitySafe ==
  ASSUME NEW h, NEW L, HeapOK(h, L), NEW ns \in L
  PROVE  Safe(h, L, hls_store_discontinuity_at(h, ns), ns)
<1> DEFINE g == ring_cow(h, ns)
           r == g.of[ns].ring
           S == g.ring[r].segs
           a == g.of[ns].live
           h1 == RefAll(g, S, -1)
           h2 == seg_buf_unref(h1, a)
           h3 == SetList(h2, r, <<>>)
           h4 == PutLive(h3, ns, NoBuf)
<1>1. OwnRing(h, g, L, ns)
  BY Cow
<1>2. HeapOK(g, L) /\ SameSlack(h, L, g, L) /\ Kept(h, g, L \ {ns}) /\ g.ring[r].rc = 1
  BY <1>1 DEF OwnRing
<1>3. hls_store_discontinuity_at(h, ns) = h4
  BY DEF hls_store_discontinuity_at, Segs, SetList, PutLive
<1> HIDE DEF g
<1>4. g \in Heap /\ r \in Rings /\ S \in Seq(Buf) /\ a \in Buf
  <2>1. g \in Heap /\ r \in Rings /\ ns \in Snaps
    BY <1>2 DEF HeapOK
  <2>2. QED BY <2>1 DEF Heap, RingRec, Parts
<1>5. NoBuf \in Buf /\ NoBuf \notin Bufs /\ MaxSegs \in Nat
  BY SegHeapAssumption DEF Buf
<1>6. /\ h1 \in Heap /\ h1.of = g.of /\ h1.ring = g.ring
      /\ \A c \in Bufs : g.ref[c] \in Int /\ Occurs(c, S) \in Nat /\ h1.ref[c] = g.ref[c] + (-1) * Occurs(c, S)
  BY <1>4, RefAllFields
<1> HIDE DEF h1
<1>7. /\ h2 \in Heap /\ h2.of = g.of /\ h2.ring = g.ring
      /\ \A c \in Bufs : h1.ref[c] \in Int /\ h2.ref[c] = h1.ref[c] - One(c = a)
  BY <1>4, <1>6, UnrefFields
<1> HIDE DEF h2
<1>8. <<>> \in Seq(Buf) /\ Len(<<>>) <= MaxSegs
  BY <1>5
<1>9. HeapOK(h3, L) /\ Kept(g, h3, L \ {ns}) /\ SameParts(g, h3) /\ ListMoves(g, L, h2, h3, S, <<>>)
  BY <1>2, <1>7, <1>8, WriteList
<1> HIDE DEF h3
<1>10. HeapOK(h4, L) /\ Kept(h3, h4, L \ {ns}) /\ SlackSwap(h3, L, h4, h3.of[ns].live, NoBuf)
  BY <1>5, <1>9, SetLive
<1> HIDE DEF h4
<1>11. h3.of[ns].live = a
  BY <1>9 DEF SameParts
<1> HIDE DEF a, S, r
<1>12. Kept(h, h4, L \ {ns})
  BY <1>2, <1>9, <1>10 DEF Kept
<1>13. SameSlack(h, L, h4, L)
  <2> SUFFICES ASSUME NEW c \in Bufs
               PROVE  Slack(h4, L, c) = Slack(h, L, c)
    BY DEF SameSlack
  <2>1. PICK v \in Int, x \in Nat, o \in Nat, u \in Int :
            v = Slack(g, L, c) /\ x = One(c = a) /\ o = Occurs(c, S) /\ u = g.ref[c]
    BY <1>9 DEF ListMoves, One
  <2>2. h1.ref[c] = u - o
    <3>1. h1.ref[c] = g.ref[c] + (-1) * Occurs(c, S)
      BY <1>6
    <3>2. QED BY <2>1, <3>1
  <2>3. h2.ref[c] = (u - o) - x
    BY <1>7, <2>1, <2>2
  <2>4. Slack(h3, L, c) = v + (((u - o) - x) - u) + o - 0
    <3>1. Slack(h3, L, c) = Slack(g, L, c) + (h2.ref[c] - g.ref[c]) + Occurs(c, S) - Occurs(c, <<>>)
      BY <1>9 DEF ListMoves
    <3>2. Occurs(c, <<>>) = 0
      BY OccursEmpty
    <3>3. QED BY <2>1, <2>3, <3>1, <3>2
  <2>5. Slack(h3, L, c) = v - x
    BY <2>4
  <2>6. One(c = NoBuf) = 0
    BY <1>5 DEF One
  <2>7. Slack(h4, L, c) = (v - x) + x - 0
    BY <1>10, <1>11, <2>1, <2>5, <2>6 DEF SlackSwap
  <2>8. Slack(h, L, c) = v
    BY <1>2, <2>1 DEF SameSlack
  <2>9. QED BY <2>7, <2>8
<1>14. QED BY <1>3, <1>10, <1>12, <1>13 DEF Safe

\* snap_free: a snapshot gives back its ring, its live and its init buffer, and
\* the last user of a ring every segment of it.
LEMMA FreeSafe ==
  ASSUME NEW h, NEW L, HeapOK(h, L), NEW s \in L
  PROVE  LET g == snap_free(h, s)
         IN  HeapOK(g, L \ {s}) /\ SameSlack(h, L, g, L \ {s}) /\ Kept(h, g, L \ {s})
<1> DEFINE g == snap_free(h, s)
           M == L \ {s}
           r == h.of[s].ring
           S == h.ring[r].segs
           a == h.of[s].live
           b == h.of[s].init
           last == h.ring[r].rc = 1
           T == IF last THEN <<>> ELSE S
           h1 == ring_unref(h, r)
           h2 == seg_buf_unref(h1, a)
           h3 == seg_buf_unref(h2, b)
           F == [h.of EXCEPT ![s] = NoParts]
<1>1. /\ h \in Heap /\ r \in Rings /\ s \in Snaps /\ L \in SUBSET Snaps
      /\ h.of \in [Snaps -> Parts] /\ h.ring \in [Rings -> RingRec]
  BY DEF HeapOK, Heap
<1>2. S \in Seq(Buf) /\ a \in Buf /\ b \in Buf /\ NoParts \in Parts /\ h.ring[r].rc \in Nat
  <2>1. NoParts \in Parts
    BY DEF NoParts, Parts, Buf
  <2>2. QED BY <1>1, <2>1 DEF Parts, RingRec
<1>3. h.ring[r].rc # 0
  <2>1. s \in Users(h, L, r)
    BY DEF Users
  <2>2. IsFiniteSet(Users(h, L, r)) /\ h.ring[r].rc = Cardinality(Users(h, L, r))
    BY <1>1, Finite DEF HeapOK
  <2>3. QED BY <2>1, <2>2, FS_EmptySet
<1>4. g = [h3 EXCEPT !.of[s] = NoParts]
  BY DEF snap_free
<1> HIDE DEF g, a, b
<1>5. /\ h1 \in Heap /\ h1.of = h.of /\ h1.ring[r].rc = h.ring[r].rc - 1 /\ h1.ring[r].segs = T
      /\ \A q \in Rings \ {r} : h1.ring[q] = h.ring[q]
      /\ \A c \in Bufs : /\ h.ref[c] \in Int /\ Occurs(c, S) \in Nat /\ Occurs(c, T) \in Nat
                         /\ h1.ref[c] = h.ref[c] - (Occurs(c, S) - Occurs(c, T))
  <2>1. CASE last
    <3> DEFINE k == RefAll(h, S, -1)
               Q == [rc |-> 0, segs |-> <<>>]
               G == [h.ring EXCEPT ![r] = Q]
    <3>1. /\ k \in Heap /\ k.of = h.of /\ k.ring = h.ring
          /\ \A c \in Bufs : h.ref[c] \in Int /\ Occurs(c, S) \in Nat /\ k.ref[c] = h.ref[c] + (-1) * Occurs(c, S)
      BY <1>1, <1>2, RefAllFields, SMTT(60)
    <3>2. h1 = [k EXCEPT !.ring = G]
      <4>1. h1 = [k EXCEPT !.ring[r] = Q]
        BY <2>1 DEF ring_unref
      <4>2. QED BY <3>1, <4>1
    <3>3. Q \in RingRec /\ Q.rc = 0 /\ Q.segs = <<>>
      BY DEF RingRec
    <3> HIDE DEF k, Q, h1
    <3>4. G \in [Rings -> RingRec] /\ G[r] = Q /\ \A q \in Rings \ {r} : G[q] = h.ring[q]
      BY <1>1, <3>3
    <3> HIDE DEF G
    <3>5. h1 \in Heap /\ h1.of = h.of /\ h1.ring = G /\ h1.ref = k.ref
      BY <3>1, <3>2, <3>4 DEF Heap
    <3>6. h1.ring[r].rc = h.ring[r].rc - 1 /\ h1.ring[r].segs = T
      BY <2>1, <3>3, <3>4, <3>5, SMTT(60)
    <3>7. ASSUME NEW c \in Bufs
          PROVE  /\ h.ref[c] \in Int /\ Occurs(c, S) \in Nat /\ Occurs(c, T) \in Nat
                 /\ h1.ref[c] = h.ref[c] - (Occurs(c, S) - Occurs(c, T))
      <4>1. Occurs(c, T) = 0
        BY <2>1, OccursEmpty
      <4>2. PICK u \in Int, o \in Nat : u = h.ref[c] /\ o = Occurs(c, S)
        BY <3>1
      <4>3. h1.ref[c] = u + (-1) * o
        BY <3>1, <3>5, <4>2, SMTT(60)
      <4>4. QED BY <4>1, <4>2, <4>3
    <3>8. QED BY <3>4, <3>5, <3>6, <3>7
  <2>2. CASE ~last
    <3> DEFINE Q == [h.ring[r] EXCEPT !.rc = @ - 1]
               G == [h.ring EXCEPT ![r] = Q]
    <3>1. h1 = [h EXCEPT !.ring = G]
      BY <2>2 DEF ring_unref
    <3>2. Q \in RingRec /\ Q.rc = h.ring[r].rc - 1 /\ Q.segs = S
      <4>1. PICK z \in RingRec : z = h.ring[r] /\ z.rc \in Nat \ {0} /\ z.segs = S
        BY <1>1, <1>2, <1>3
      <4>2. [z EXCEPT !.rc = z.rc - 1] \in RingRec
        BY <4>1 DEF RingRec
      <4>3. [z EXCEPT !.rc = z.rc - 1].rc = z.rc - 1 /\ [z EXCEPT !.rc = z.rc - 1].segs = z.segs
        BY <4>1 DEF RingRec
      <4>4. QED BY <4>1, <4>2, <4>3
    <3> HIDE DEF Q, h1
    <3>3. G \in [Rings -> RingRec] /\ G[r] = Q /\ \A q \in Rings \ {r} : G[q] = h.ring[q]
      BY <1>1, <3>2
    <3> HIDE DEF G
    <3>4. h1 \in Heap /\ h1.of = h.of /\ h1.ring = G /\ h1.ref = h.ref
      BY <1>1, <3>1, <3>3 DEF Heap
    <3>5. h1.ring[r].rc = h.ring[r].rc - 1 /\ h1.ring[r].segs = T
      BY <2>2, <3>2, <3>3, <3>4
    <3>6. ASSUME NEW c \in Bufs
          PROVE  /\ h.ref[c] \in Int /\ Occurs(c, S) \in Nat /\ Occurs(c, T) \in Nat
                 /\ h1.ref[c] = h.ref[c] - (Occurs(c, S) - Occurs(c, T))
      <4>1. T = S
        BY <2>2
      <4>2. PICK u \in Int, o \in Nat : u = h.ref[c] /\ o = Occurs(c, S)
        <5>1. h.ref[c] \in Int
          BY <1>1 DEF Heap
        <5>2. Occurs(c, S) \in Nat
          BY <1>2, OccursType
        <5>3. QED BY <5>1, <5>2
      <4>3. h1.ref[c] = u
        BY <3>4, <4>2
      <4>4. QED BY <4>1, <4>2, <4>3
    <3>7. QED BY <3>3, <3>4, <3>5, <3>6
  <2>3. QED BY <2>1, <2>2, SMTT(60)
<1>6. (T = <<>> /\ h.ring[r].rc = 1) \/ (T = S /\ h.ring[r].rc # 1)
  OBVIOUS
<1>7. Len(T) <= MaxSegs
  <2>1. Len(S) <= MaxSegs /\ Len(<<>>) <= MaxSegs
    BY <1>1, SegHeapAssumption DEF HeapOK
  <2>2. QED BY <1>6, <2>1
<1> HIDE DEF h1, T, S
<1>8. /\ h2 \in Heap /\ h2.of = h1.of /\ h2.ring = h1.ring
      /\ \A c \in Bufs : h1.ref[c] \in Int /\ h2.ref[c] = h1.ref[c] - One(c = a)
  BY <1>2, <1>5, UnrefFields
<1> HIDE DEF h2
<1>9. /\ h3 \in Heap /\ h3.of = h2.of /\ h3.ring = h2.ring
      /\ \A c \in Bufs : h2.ref[c] \in Int /\ h3.ref[c] = h2.ref[c] - One(c = b)
  BY <1>2, <1>8, UnrefFields
<1> HIDE DEF h3
<1>10. F \in [Snaps -> Parts] /\ \A t \in M : F[t] = h.of[t]
  BY <1>1, <1>2
<1>11. g = [h3 EXCEPT !.of = F]
  BY <1>4, <1>5, <1>8, <1>9
<1> HIDE DEF F
<1>12. g \in Heap /\ g.of = F /\ g.ring = h1.ring /\ g.ref = h3.ref
  BY <1>8, <1>9, <1>10, <1>11 DEF Heap
<1>13. g.ring[r].segs = T /\ g.ring[r].rc = h.ring[r].rc - 1 /\ \A q \in Rings \ {r} : g.ring[q] = h.ring[q]
  BY <1>5, <1>12
<1>14. Touch(h, L, g, M, s, r)
  BY <1>1, <1>10, <1>12, <1>13 DEF Touch
<1>15. \A q \in Rings : (s \in Users(h, L, q) <=> q = r) /\ s \notin Users(g, M, q)
  BY DEF Users
<1> HIDE DEF r
<1>16. CountsMove(h, L, g, M, s)
  <2> SUFFICES ASSUME NEW q \in Rings
               PROVE  /\ g.ring[q].rc = h.ring[q].rc - One(s \in Users(h, L, q)) + One(s \in Users(g, M, q))
                      /\ g.ring[q].rc = 0 => g.ring[q].segs = <<>>
    BY DEF CountsMove
  <2>1. One(s \in Users(g, M, q)) = 0
    BY <1>15 DEF One
  <2>2. CASE q = r
    <3>1. One(s \in Users(h, L, q)) = 1
      BY <1>15, <2>2 DEF One
    <3>2. g.ring[q].rc = h.ring[q].rc - 1 /\ h.ring[q].rc \in Nat /\ g.ring[q].segs = T
      BY <1>2, <1>13, <2>2
    <3>3. g.ring[q].rc = 0 => h.ring[q].rc = 1
      BY <3>2
    <3>4. g.ring[q].rc = 0 => g.ring[q].segs = <<>>
      BY <1>6, <2>2, <3>2, <3>3
    <3>5. QED BY <2>1, <3>1, <3>2, <3>4
  <2>3. CASE q # r
    <3>1. One(s \in Users(h, L, q)) = 0
      BY <1>15, <2>3 DEF One
    <3>2. g.ring[q] = h.ring[q] /\ h.ring[q].rc \in Nat
      BY <1>1, <1>13, <2>3 DEF RingRec
    <3>3. h.ring[q].rc = 0 => h.ring[q].segs = <<>>
      BY DEF HeapOK
    <3>4. QED BY <2>1, <3>1, <3>2, <3>3
  <2>4. QED BY <2>2, <2>3
<1>17. HeapOK(g, M)
  <2>1. s \notin M
    OBVIOUS
  <2>2. Len(g.ring[r].segs) <= MaxSegs
    BY <1>7, <1>13
  <2>3. QED BY <1>1, <1>14, <1>16, <2>1, <2>2, EditOK
<1>18. SameSlack(h, L, g, M)
  <2> SUFFICES ASSUME NEW c \in Bufs
               PROVE  Slack(g, M, c) = Slack(h, L, c)
    BY DEF SameSlack
  <2>1. /\ s \in Lives(h, L, c) <=> c = a
        /\ s \in Inits(h, L, c) <=> c = b
        /\ s \notin Lives(g, M, c) /\ s \notin Inits(g, M, c)
    BY DEF Lives, Inits, a, b
  <2>2. PICK x \in Nat, y \in Nat : x = One(c = a) /\ y = One(c = b)
    BY DEF One
  <2>3. /\ One(s \in Lives(h, L, c)) = x /\ One(s \in Inits(h, L, c)) = y
        /\ One(s \in Lives(g, M, c)) = 0 /\ One(s \in Inits(g, M, c)) = 0
    BY <2>1, <2>2 DEF One
  <2>4. PICK o \in Nat, p \in Nat, u \in Int : o = Occurs(c, S) /\ p = Occurs(c, T) /\ u = h.ref[c]
    BY <1>5
  <2>5. Uses(h, L, s, r, c) = o + x + y
    BY <2>3, <2>4 DEF Uses, S
  <2>6. Uses(g, M, s, r, c) = p + 0 + 0
    BY <1>13, <2>3, <2>4 DEF Uses
  <2>7. h1.ref[c] = u - (o - p)
    BY <1>5, <2>4
  <2>8. g.ref[c] = ((u - (o - p)) - x) - y
    BY <1>8, <1>9, <1>12, <2>2, <2>7
  <2>9. /\ Slack(h, L, c) \in Int
        /\ Slack(g, M, c) = Slack(h, L, c) + (g.ref[c] - h.ref[c])
                            + Uses(h, L, s, r, c) - Uses(g, M, s, r, c)
    BY <1>1, <1>14, Effect
  <2>10. PICK v \in Int : v = Slack(h, L, c)
    BY <2>9
  <2>11. Slack(g, M, c) = v + ((((u - (o - p)) - x) - y) - u) + (o + x + y) - (p + 0 + 0)
    BY <2>4, <2>5, <2>6, <2>8, <2>9, <2>10
  <2>12. QED BY <2>10, <2>11
<1>19. Kept(h, g, M)
  <2> SUFFICES ASSUME NEW t \in M
               PROVE  g.of[t] = h.of[t] /\ Segs(g, t) = Segs(h, t)
    BY DEF Kept
  <2>1. g.of[t] = h.of[t] /\ h.of[t].ring \in Rings
    BY <1>10, <1>12 DEF HeapOK
  <2>2. h.ring[r].rc = 1 => h.of[t].ring # r
    BY Alone DEF r
  <2>3. h.of[t].ring = r => T = S
    BY <1>6, <2>2
  <2>4. QED BY <1>13, <2>1, <2>3 DEF Segs, S
<1>20. QED BY <1>17, <1>18, <1>19 DEF g

-----------------------------------------------------------------------------
(* The invariant.                                                          *)

Senders(b) == {c \in Sends : send[c] = b}

\* Between two operations the slack of a buffer is the number of its sends.
IInv ==
    /\ HeapOK(heap, live)
    /\ cur \in live \cup {NoSnap}
    /\ send \in [Sends -> Buf]
    /\ \A b \in Bufs : Slack(heap, live, b) = Cardinality(Senders(b))

\* The store starts with an exact account.
LEMMA InitInv ==
  ASSUME Init
  PROVE  IInv
<1>1. heap.of = [s \in Snaps |-> NoParts] /\ heap.ring = [r \in Rings |-> [rc |-> 0, segs |-> <<>>]]
      /\ heap.ref = [b \in Bufs |-> 0] /\ live = {} /\ cur = NoSnap /\ send = [c \in Sends |-> NoBuf]
  BY DEF Init
<1>2. heap \in Heap
  <2>1. NoParts \in Parts
    BY DEF NoParts, Parts, Buf
  <2>2. [rc |-> 0, segs |-> <<>>] \in RingRec
    BY DEF RingRec
  <2>3. heap.of \in [Snaps -> Parts] /\ heap.ring \in [Rings -> RingRec] /\ heap.ref \in [Bufs -> Int]
    BY <1>1, <2>1, <2>2
  <2>4. heap = [of |-> heap.of, ring |-> heap.ring, ref |-> heap.ref]
    BY DEF Init
  <2>5. QED BY <2>3, <2>4 DEF Heap
<1>3. \A r \in Rings : heap.ring[r].rc = 0 /\ heap.ring[r].segs = <<>>
  BY <1>1
<1>4. HeapOK(heap, live)
  <2>1. \A r \in Rings : Users(heap, live, r) = {}
    BY <1>1 DEF Users
  <2>2. \A r \in Rings : heap.ring[r].rc = Cardinality(Users(heap, live, r))
    BY <1>3, <2>1, FS_EmptySet
  <2>3. Len(<<>>) <= MaxSegs
    BY SegHeapAssumption
  <2>4. QED BY <1>1, <1>2, <1>3, <2>2, <2>3 DEF HeapOK
<1>5. ASSUME NEW b \in Bufs
      PROVE  Slack(heap, live, b) = Cardinality(Senders(b))
  <2>1. b # NoBuf
    BY SegHeapAssumption
  <2>2. Lives(heap, live, b) = {} /\ Inits(heap, live, b) = {} /\ Senders(b) = {}
    BY <1>1, <2>1 DEF Lives, Inits, Senders
  <2>3. InRings(heap, b) = {}
    BY <1>3 DEF InRings
  <2>4. heap.ref[b] = 0
    BY <1>1
  <2>5. Slack(heap, live, b) = 0 - (0 + 0 + 0) /\ Cardinality(Senders(b)) = 0
    BY <2>2, <2>3, <2>4, FS_EmptySet DEF Slack, Account
  <2>6. QED BY <2>5
<1>6. cur \in live \cup {NoSnap} /\ send \in [Sends -> Buf]
  BY <1>1 DEF Buf
<1>7. QED BY <1>4, <1>5, <1>6 DEF IInv

\* what a step that touches no send does
Clean == /\ HeapOK(heap', live') /\ SameSlack(heap, live, heap', live')
         /\ Kept(heap, heap', live \cap live')

\* Push: a clone of the current snapshot and one writer's edits on it.
LEMMA PushStep ==
  ASSUME IInv, Push
  PROVE  Clean
<1>1. PICK ns \in Snaps \ live : heap' \in Pushed(ns) /\ live' = live \cup {ns}
  BY DEF Push
<1> DEFINE h == snap_clone(heap, ns, cur)
           M == live \cup {ns}
<1>2. HeapOK(heap, live) /\ cur \in live \cup {NoSnap}
  BY DEF IInv
<1>3. live \cap live' = live /\ M \ {ns} = live /\ ns \in M
  BY <1>1
<1>4. HeapOK(h, M) /\ SameSlack(heap, live, h, M) /\ Kept(heap, h, live)
  <2>1. CASE cur = NoSnap
    BY <1>2, <2>1, CloneEmpty
  <2>2. CASE cur \in live
    BY <1>2, <2>2, CloneBase
  <2>3. QED BY <1>2, <2>1, <2>2
<1>5. \/ heap' = h \/ heap' = hls_push_segment_ll_at(h, ns) \/ heap' = snap_clone(heap, ns, NoSnap)
      \/ \E b \in FreeBufs(h) : heap' = hls_push_segment_at(h, ns, b)
      \/ \E b \in FreeBufs(h) : heap' = live_buf_ensure(h, ns, b)
      \/ \E b \in FreeBufs(h) : heap' = hls_set_init_segment_at(h, ns, b)
      \/ heap' = hls_store_discontinuity_at(h, ns)
  BY <1>1, Zenon DEF Pushed
<1>6. \A b \in FreeBufs(h) : b \in Buf
  BY DEF FreeBufs, Buf
<1> HIDE DEF h, M
<1>7. ASSUME Safe(h, M, heap', ns)
      PROVE  Clean
  <2>1. HeapOK(heap', M) /\ SameSlack(h, M, heap', M) /\ Kept(h, heap', live)
    BY <1>3, <1>7 DEF Safe
  <2>2. Kept(heap, heap', live)
    BY <1>4, <2>1 DEF Kept
  <2>3. SameSlack(heap, live, heap', M)
    BY <1>4, <2>1 DEF SameSlack
  <2>4. QED BY <1>1, <1>3, <2>1, <2>2, <2>3 DEF Clean, M
<1>8. CASE heap' = h
  BY <1>1, <1>3, <1>4, <1>8 DEF Clean, M
<1>9. CASE heap' = hls_push_segment_ll_at(h, ns)
  BY <1>3, <1>4, <1>7, <1>9, PushLLSafe
<1>10. CASE heap' = snap_clone(heap, ns, NoSnap)
  <2>1. HeapOK(heap', M) /\ SameSlack(heap, live, heap', M) /\ Kept(heap, heap', live)
    BY <1>2, <1>10, CloneEmpty DEF M
  <2>2. QED BY <1>1, <1>3, <2>1 DEF Clean, M
<1>11. CASE \E b \in FreeBufs(h) : heap' = hls_push_segment_at(h, ns, b)
  BY <1>3, <1>4, <1>6, <1>7, <1>11, PushSegmentSafe
<1>12. CASE \E b \in FreeBufs(h) : heap' = live_buf_ensure(h, ns, b)
  BY <1>3, <1>4, <1>6, <1>7, <1>12, LiveEnsureSafe
<1>13. CASE \E b \in FreeBufs(h) : heap' = hls_set_init_segment_at(h, ns, b)
  BY <1>3, <1>4, <1>6, <1>7, <1>13, SetInitSegmentSafe
<1>14. CASE heap' = hls_store_discontinuity_at(h, ns)
  BY <1>3, <1>4, <1>7, <1>14, DiscontinuitySafe
<1>15. QED BY <1>5, <1>8, <1>9, <1>10, <1>11, <1>12, <1>13, <1>14

\* A step that touches no send keeps the invariant.
LEMMA CleanInv ==
  ASSUME IInv, Clean, cur' \in live' \cup {NoSnap}, send' = send
  PROVE  IInv'
<1>1. \A b \in Bufs : Senders(b)' = Senders(b)
  BY DEF Senders
<1>2. \A b \in Bufs : Slack(heap', live', b) = Cardinality(Senders(b)')
  BY <1>1 DEF IInv, Clean, SameSlack
<1>3. HeapOK(heap', live') /\ send' \in [Sends -> Buf]
  BY DEF Clean, IInv
<1>4. QED BY <1>2, <1>3 DEF IInv

\* What a snapshot holds are buffers.
LEMMA BufsOfType ==
  ASSUME IInv, NEW s \in live
  PROVE  BufsOf(s) \in SUBSET Bufs
<1>1. heap \in Heap /\ s \in Snaps /\ heap.of[s].ring \in Rings
  BY DEF IInv, HeapOK
<1>2. heap.of[s].live \in Buf /\ heap.of[s].init \in Buf
  BY <1>1 DEF Heap, Parts
<1>3. Segs(heap, s) \in Seq(Buf)
  BY <1>1 DEF Heap, RingRec, Segs
<1>4. \A i \in DOMAIN Segs(heap, s) : Segs(heap, s)[i] \in Buf
  BY <1>3, ElementOfSeq, LenProperties
<1>5. QED BY <1>2, <1>4 DEF BufsOf, Buf

\* A send that starts or ends moves one buffer's slack and its senders alike.
LEMMA SendMoves ==
  ASSUME IInv, NEW c \in Sends, NEW a \in Buf, NEW b \in Buf, send[c] = a,
         send' = [send EXCEPT ![c] = b], live' = live, cur' = cur,
         HeapOK(heap', live), SlackSwap(heap, live, heap', b, a)
  PROVE  IInv'
<1>1. send \in [Sends -> Buf] /\ IsFiniteSet(Sends)
  BY SegHeapAssumption DEF IInv
<1>2. send' \in [Sends -> Buf]
  BY <1>1
<1>3. ASSUME NEW d \in Bufs
      PROVE  Slack(heap', live', d) = Cardinality(Senders(d)')
  <2> DEFINE S == {k \in Sends : send[k] = d}
             T == {k \in Sends : send'[k] = d}
  <2>1. Senders(d) = S /\ Senders(d)' = T
    BY DEF Senders
  <2>2. IsFiniteSet(S)
    <3>1. S \in SUBSET Sends
      OBVIOUS
    <3>2. QED BY <1>1, <3>1, FS_Subset
  <2>3. S \ {c} = T \ {c}
    BY <1>1
  <2>4. (c \in S <=> d = a) /\ (c \in T <=> d = b)
    BY <1>1
  <2> HIDE DEF S, T
  <2>5. /\ Cardinality(S) \in Nat /\ Cardinality(T) \in Nat
        /\ Cardinality(T) = Cardinality(S) - One(c \in S) + One(c \in T)
    BY <2>2, <2>3, CardSwap
  <2>6. PICK x \in Nat, y \in Nat : x = One(d = a) /\ y = One(d = b)
    BY DEF One
  <2>7. One(c \in S) = x /\ One(c \in T) = y
    BY <2>4, <2>6 DEF One
  <2>8. PICK v \in Nat : v = Cardinality(S)
    BY <2>5
  <2>9. Slack(heap, live, d) = v
    BY <2>1, <2>8 DEF IInv
  <2>10. Slack(heap', live, d) = v + y - x
    BY <2>6, <2>9 DEF SlackSwap
  <2>11. Cardinality(T) = v - x + y
    BY <2>5, <2>7, <2>8
  <2>12. QED BY <2>1, <2>10, <2>11
<1>4. HeapOK(heap', live') /\ cur' \in live' \cup {NoSnap}
  BY DEF IInv
<1>5. QED BY <1>2, <1>3, <1>4 DEF IInv

\* Every step keeps the invariant and leaves published snapshots as they are.
LEMMA NextInv ==
  ASSUME IInv, [Next]_vars
  PROVE  IInv' /\ Kept(heap, heap', live \cap live')
<1>1. CASE Push
  <2>1. Clean
    BY <1>1, PushStep
  <2>2. send' = send /\ cur' \in live' \cup {NoSnap}
    BY <1>1 DEF Push
  <2>3. QED BY <2>1, <2>2, CleanInv DEF Clean
<1>2. CASE Close
  <2>1. heap' = heap /\ live' = live /\ send' = send /\ cur' = NoSnap
    BY <1>2 DEF Close
  <2>2. Clean
    BY <2>1 DEF Clean, IInv, SameSlack, Kept
  <2>3. QED BY <2>1, <2>2, CleanInv DEF Clean
<1>3. CASE Reclaim
  <2>1. PICK s \in live \ {cur} : heap' = snap_free(heap, s) /\ live' = live \ {s}
    BY <1>3 DEF Reclaim
  <2>2. cur' = cur /\ send' = send /\ cur' \in live' \cup {NoSnap}
    BY <1>3, <2>1 DEF Reclaim, IInv
  <2>3. /\ HeapOK(heap', live \ {s}) /\ SameSlack(heap, live, heap', live \ {s})
        /\ Kept(heap, heap', live \ {s})
    BY <2>1, FreeSafe DEF IInv
  <2>4. live \cap live' = live \ {s}
    BY <2>1
  <2>5. Clean
    BY <2>1, <2>3, <2>4 DEF Clean
  <2>6. QED BY <2>2, <2>5, CleanInv DEF Clean
<1>4. ASSUME NEW c \in Sends, SendStart(c)
      PROVE  IInv' /\ Kept(heap, heap', live \cap live')
  <2>1. PICK s \in live : \E b \in BufsOf(s) : send' = [send EXCEPT ![c] = b] /\ heap' = seg_buf_ref(heap, b)
    BY <1>4, Zenon DEF SendStart
  <2>2. PICK b \in BufsOf(s) : send' = [send EXCEPT ![c] = b] /\ heap' = seg_buf_ref(heap, b)
    BY <2>1
  <2>3. send[c] = NoBuf /\ live' = live /\ cur' = cur
    BY <1>4, Zenon DEF SendStart
  <2>4. b \in Buf /\ NoBuf \in Buf /\ NoBuf \notin Bufs
    BY BufsOfType, SegHeapAssumption DEF Buf
  <2>5. HeapOK(heap', live) /\ Kept(heap, heap', live) /\ SlackMore(heap, live, heap', b)
    BY <2>2, <2>4, RefOne DEF IInv
  <2>6. SlackSwap(heap, live, heap', b, NoBuf)
    <3> SUFFICES ASSUME NEW d \in Bufs
                 PROVE  /\ Slack(heap, live, d) \in Int
                        /\ Slack(heap', live, d) = Slack(heap, live, d) + One(d = b) - One(d = NoBuf)
      BY DEF SlackSwap
    <3>1. PICK v \in Int, y \in Nat : v = Slack(heap, live, d) /\ y = One(d = b)
      BY <2>5 DEF SlackMore, One
    <3>2. One(d = NoBuf) = 0
      BY <2>4 DEF One
    <3>3. Slack(heap', live, d) = v + y
      BY <2>5, <3>1 DEF SlackMore
    <3>4. QED BY <3>1, <3>2, <3>3
  <2>7. IInv'
    BY <2>2, <2>3, <2>4, <2>5, <2>6, SendMoves
  <2>8. QED BY <2>3, <2>5, <2>7
<1>5. ASSUME NEW c \in Sends, seg_buf_release_cb(c)
      PROVE  IInv' /\ Kept(heap, heap', live \cap live')
  <2>1. PICK a \in Buf : a = send[c]
    BY DEF IInv
  <2>2. send' = [send EXCEPT ![c] = NoBuf] /\ heap' = seg_buf_unref(heap, a) /\ live' = live /\ cur' = cur
    BY <1>5, <2>1 DEF seg_buf_release_cb
  <2>3. NoBuf \in Buf /\ NoBuf \notin Bufs
    BY SegHeapAssumption DEF Buf
  <2>4. HeapOK(heap', live) /\ Kept(heap, heap', live) /\ SlackLess(heap, live, heap', a)
    BY <2>2, UnrefOne DEF IInv
  <2>5. SlackSwap(heap, live, heap', NoBuf, a)
    <3> SUFFICES ASSUME NEW d \in Bufs
                 PROVE  /\ Slack(heap, live, d) \in Int
                        /\ Slack(heap', live, d) = Slack(heap, live, d) + One(d = NoBuf) - One(d = a)
      BY DEF SlackSwap
    <3>1. PICK v \in Int, y \in Nat : v = Slack(heap, live, d) /\ y = One(d = a)
      BY <2>4 DEF SlackLess, One
    <3>2. One(d = NoBuf) = 0
      BY <2>3 DEF One
    <3>3. Slack(heap', live, d) = v - y
      BY <2>4, <3>1 DEF SlackLess
    <3>4. QED BY <3>1, <3>2, <3>3
  <2>6. IInv'
    BY <2>1, <2>2, <2>3, <2>4, <2>5, SendMoves
  <2>7. QED BY <2>2, <2>4, <2>6
<1>6. CASE UNCHANGED vars
  <2>1. heap' = heap /\ live' = live /\ send' = send /\ cur' = cur
    BY <1>6 DEF vars
  <2>2. Clean
    BY <2>1 DEF Clean, IInv, SameSlack, Kept
  <2>3. cur' \in live' \cup {NoSnap}
    BY <2>1 DEF IInv
  <2>4. QED BY <2>1, <2>2, <2>3, CleanInv DEF Clean
<1>7. QED BY <1>1, <1>2, <1>3, <1>4, <1>5, <1>6, Zenon DEF Next

\* The invariant holds of every behaviour.
LEMMA Invariance ==
  Spec => []IInv
<1>1. Init => IInv
  BY InitInv
<1>2. IInv /\ [Next]_vars => IInv'
  BY NextInv
<1>3. QED BY <1>1, <1>2, PTL DEF Spec

\* Exact counts follow from the invariant.
LEMMA InvExact ==
  ASSUME IInv
  PROVE  RefsExact
<1>1. \A r \in Rings : heap.ring[r].rc = Cardinality({s \in live : heap.of[s].ring = r})
  BY DEF IInv, HeapOK, Users
<1>2. ASSUME NEW b \in Bufs
      PROVE  heap.ref[b] = Cardinality(RingUses(b))
                 + Cardinality({s \in live : heap.of[s].live = b})
                 + Cardinality({s \in live : heap.of[s].init = b})
                 + Cardinality({c \in Sends : send[c] = b})
  <2>1. HeapOK(heap, live) /\ heap \in Heap
    BY DEF IInv, HeapOK
  <2>2. RingUses(b) = InRings(heap, b)
    <3>1. \A r \in Rings : DOMAIN heap.ring[r].segs \in SUBSET Nat
      <4> TAKE r \in Rings
      <4>1. heap.ring[r].segs \in Seq(Buf)
        BY <2>1 DEF Heap, RingRec
      <4>2. DOMAIN heap.ring[r].segs = 1..Len(heap.ring[r].segs) /\ Len(heap.ring[r].segs) \in Nat
        BY <4>1, OccursType
      <4>3. QED BY <4>2
    <3>2. ASSUME NEW p \in RingUses(b)
          PROVE  p \in InRings(heap, b)
      <4>1. PICK r \in Rings : p \in {<<r, i>> : i \in {j \in DOMAIN heap.ring[r].segs : heap.ring[r].segs[j] = b}}
        BY DEF RingUses
      <4>2. PICK i \in DOMAIN heap.ring[r].segs : heap.ring[r].segs[i] = b /\ p = <<r, i>>
        BY <4>1
      <4>3. i \in Nat
        BY <3>1
      <4>4. QED BY <4>2, <4>3 DEF InRings
    <3>3. ASSUME NEW p \in InRings(heap, b)
          PROVE  p \in RingUses(b)
      <4>1. PICK r \in Rings, i \in Nat : p = <<r, i>>
        BY DEF InRings
      <4>2. i \in DOMAIN heap.ring[r].segs /\ heap.ring[r].segs[i] = b
        BY <4>1 DEF InRings
      <4>3. QED BY <4>1, <4>2 DEF RingUses
    <3>4. QED BY <3>2, <3>3
  <2>3. PICK x \in Nat, y \in Nat, z \in Nat : /\ x = Cardinality(InRings(heap, b))
                                               /\ y = Cardinality(Lives(heap, live, b))
                                               /\ z = Cardinality(Inits(heap, live, b))
    BY <2>1, Finite
  <2>4. PICK u \in Int : u = heap.ref[b]
    BY <2>1 DEF Heap
  <2>5. Cardinality(Senders(b)) = u - (x + y + z)
    BY <2>3, <2>4 DEF IInv, Slack, Account
  <2>6. PICK w \in Int : w = Cardinality(Senders(b))
    BY <2>5
  <2>7. u = x + y + z + w
    BY <2>5, <2>6
  <2>8. QED BY <2>2, <2>3, <2>4, <2>6, <2>7 DEF Lives, Inits, Senders
<1>3. QED BY <1>1, <1>2 DEF RefsExact

\* The type invariant follows from the exact counts.
LEMMA InvType ==
  ASSUME IInv
  PROVE  TypeOK
<1>1. HeapOK(heap, live) /\ heap \in Heap
  BY DEF IInv, HeapOK
<1>2. ASSUME NEW b \in Bufs
      PROVE  heap.ref[b] \in Nat
  <2>1. PICK x \in Nat : x = Account(heap, live, b)
    BY <1>1, Finite DEF Account
  <2>2. PICK u \in Int : u = heap.ref[b]
    BY <1>1 DEF Heap
  <2>3. Cardinality(Senders(b)) \in Nat
    <3>1. Senders(b) \in SUBSET Sends /\ IsFiniteSet(Sends)
      BY SegHeapAssumption DEF Senders
    <3>2. IsFiniteSet(Senders(b))
      BY <3>1, FS_Subset
    <3>3. QED BY <3>2, FS_CardinalityType
  <2>4. Cardinality(Senders(b)) = u - x
    BY <2>1, <2>2 DEF IInv, Slack
  <2>5. QED BY <2>2, <2>3, <2>4
<1>3. \A r \in Rings : heap.ring[r].rc \in Nat /\ Len(heap.ring[r].segs) <= MaxSegs
  BY <1>1 DEF HeapOK, Heap, RingRec
<1>4. live \subseteq Snaps /\ cur \in live \cup {NoSnap} /\ send \in [Sends -> Bufs \cup {NoBuf}]
  BY DEF IInv, HeapOK, Buf
<1>5. QED BY <1>2, <1>3, <1>4 DEF TypeOK

-----------------------------------------------------------------------------
(* The theorems.                                                           *)

\* No count of a ring or a buffer ever becomes negative and no window exceeds
\* max_segs, for any number of snapshots, buffers and sends.
THEOREM TypeCorrect ==
  Spec => []TypeOK
<1>1. IInv => TypeOK
  BY InvType
<1>2. QED BY <1>1, Invariance, PTL

\* Reference counts are exact: ring_unref, seg_buf_unref and the copy on write
\* give back a buffer when, and only when, its last user is gone.
THEOREM RefsExactCorrect ==
  Spec => []RefsExact
<1>1. IInv => RefsExact
  BY InvExact
<1>2. QED BY <1>1, Invariance, PTL

\* A published snapshot never changes: ring_cow keeps every writer off a ring
\* that another snapshot shares.
THEOREM FrozenCorrect ==
  Spec => Frozen
<1>1. IInv /\ [Next]_vars => [\A s \in live \cap live' :
        /\ Segs(heap, s) = Segs(heap', s)
        /\ heap.of[s].live = heap'.of[s].live /\ heap.of[s].init = heap'.of[s].init]_vars
  <2> SUFFICES ASSUME IInv, [Next]_vars, NEW s \in live \cap live'
               PROVE  /\ Segs(heap, s) = Segs(heap', s)
                      /\ heap.of[s].live = heap'.of[s].live /\ heap.of[s].init = heap'.of[s].init
    OBVIOUS
  <2>1. Kept(heap, heap', live \cap live')
    BY NextInv
  <2>2. QED BY <2>1 DEF Kept
<1>2. QED BY <1>1, Invariance, PTL DEF Spec, Frozen
=============================================================================
