--------------------------- MODULE CircKernel_proofs ---------------------------
(***************************************************************************)
(* Facts about the index arithmetic and the copies of CircKernel, for      *)
(* every capacity, and about what the overwriting writes make of them.     *)
(***************************************************************************)
EXTENDS CircKernel, Filtering, Integers, TLAPS

\* A larger factor makes a larger product.
LEMMA LargerProduct ==
  ASSUME NEW a \in Int, NEW b \in Int, NEW c \in Nat, a <= b
  PROVE  a * c <= b * c
<1>1. (b - a) * c >= 0
  BY SMT
<1> QED BY <1>1, SMT

\* Heads that advance by at most the capacity stay in range.
LEMMA AdvanceHeadType ==
  ASSUME NEW head \in Index, NEW n \in 0 .. MaxLen
  PROVE  ExtendAdvanceHead(head, n) \in Index /\ AppendAdvanceHead(head) \in Index
  BY MaxLenAssumption DEF ExtendAdvanceHead, AppendAdvanceHead, Index

\* An unlocked view reads size and write_head one after the other, while a writer stores
\* them one after the other: whatever mix of old and new values it reads, the cell of each
\* index it accepts (__getitem__ subtracts the capacity at most once) is in the array.
THEOREM TornViewStaysInside ==
  ASSUME NEW head \in Index, NEW n \in 0 .. MaxLen, NEW k \in 0 .. n - 1
  PROVE  LET i == GetStartPos(head, n) + k
         IN  (IF i >= MaxLen THEN i - MaxLen ELSE i) \in Index
  BY MaxLenAssumption DEF GetStartPos, Index

\* write_data of a block that is not longer than the buffer leaves items in it.
LEMMA WriteDataType ==
  ASSUME NEW S, NEW b \in [Index -> S], NEW src \in Seq(S), NEW start \in Index,
         Len(src) <= MaxLen
  PROVE  WriteData(b, src, start) \in [Index -> S]
<1> DEFINE p1 == FirstPart(start, Len(src))
<1>1. p1 \in 0 .. Len(src) /\ start + p1 <= MaxLen
  BY MaxLenAssumption DEF FirstPart, Index
<1>2. ASSUME NEW i \in Index
      PROVE  (IF i >= start /\ i < start + p1 THEN src[i - start + 1]
              ELSE IF i < Len(src) - p1 THEN src[p1 + i + 1] ELSE b[i]) \in S
  <2>1. CASE i >= start /\ i < start + p1
    <3>1. i - start + 1 \in 1 .. Len(src)
      BY <1>1, <2>1, MaxLenAssumption DEF Index
    <3> QED BY <2>1, <3>1
  <2>2. CASE ~(i >= start /\ i < start + p1) /\ i < Len(src) - p1
    <3>1. p1 + i + 1 \in 1 .. Len(src)
      BY <1>1, <2>2, MaxLenAssumption DEF Index
    <3> QED BY <2>2, <3>1
  <2>3. CASE ~(i >= start /\ i < start + p1) /\ ~(i < Len(src) - p1)
    BY <2>3
  <2> QED BY <2>1, <2>2, <2>3
<1> QED BY <1>2 DEF WriteData

\* read_data returns n items.
LEMMA ReadDataType ==
  ASSUME NEW S, NEW b \in [Index -> S], NEW start \in Index, NEW n \in 0 .. MaxLen
  PROVE  /\ ReadData(b, start, n) \in Seq(S)
         /\ Len(ReadData(b, start, n)) = n
<1> DEFINE p1 == FirstPart(start, n)
<1>1. p1 \in 0 .. n /\ start + p1 <= MaxLen /\ n - p1 <= MaxLen
  BY MaxLenAssumption DEF FirstPart, Index
<1>2. ASSUME NEW i \in 1 .. n
      PROVE  (IF i <= p1 THEN b[start + i - 1] ELSE b[i - p1 - 1]) \in S
  <2>1. CASE i <= p1
    <3>1. start + i - 1 \in Index
      BY <1>1, <2>1, MaxLenAssumption DEF Index
    <3> QED BY <2>1, <3>1
  <2>2. CASE ~(i <= p1)
    <3>1. i - p1 - 1 \in Index
      BY <1>1, <2>2, MaxLenAssumption DEF Index
    <3> QED BY <2>2, <3>1
  <2> QED BY <2>1, <2>2
<1>3. ReadData(b, start, n) \in [1 .. n -> S]
  BY <1>2 DEF ReadData
<1> QED BY <1>3

\* The cell d places behind start, going round once.
At(start, d) == IF start + d < MaxLen THEN start + d ELSE start + d - MaxLen

LEMMA AtType ==
  ASSUME NEW start \in Index, NEW d \in 0 .. MaxLen
  PROVE  At(start, d) \in Index
  BY MaxLenAssumption DEF At, Index

LEMMA StartPosType ==
  ASSUME NEW head \in Index, NEW n \in 0 .. MaxLen
  PROVE  /\ GetStartPos(head, n) \in Index
         /\ head = At(GetStartPos(head, n), n)
  BY MaxLenAssumption DEF GetStartPos, At, Index

\* read_data returns the cells from start on.
LEMMA ReadDataAt ==
  ASSUME NEW S, NEW b \in [Index -> S], NEW start \in Index, NEW n \in 0 .. MaxLen,
         NEW i \in 1 .. n
  PROVE  ReadData(b, start, n)[i] = b[At(start, i - 1)]
<1> DEFINE p1 == FirstPart(start, n)
<1>1. ReadData(b, start, n)[i] = IF i <= p1 THEN b[start + i - 1] ELSE b[i - p1 - 1]
  BY DEF ReadData
<1>2. p1 = IF start + n <= MaxLen THEN n ELSE MaxLen - start
  BY DEF FirstPart
<1>3. At(start, i - 1) = IF i <= p1 THEN start + i - 1 ELSE i - p1 - 1
  BY <1>2, MaxLenAssumption DEF At, Index
<1> QED BY <1>1, <1>3

\* write_data puts a block into the cells from start on and leaves the others alone.
LEMMA WriteDataAt ==
  ASSUME NEW S, NEW b \in [Index -> S], NEW src \in Seq(S), NEW start \in Index,
         Len(src) <= MaxLen, NEW d \in 0 .. MaxLen - 1
  PROVE  WriteData(b, src, start)[At(start, d)] =
           IF d < Len(src) THEN src[d + 1] ELSE b[At(start, d)]
<1> DEFINE p1 == FirstPart(start, Len(src))
           i  == At(start, d)
<1>1. i \in Index
  BY AtType, MaxLenAssumption
<1>2. WriteData(b, src, start)[i] =
        IF i >= start /\ i < start + p1 THEN src[i - start + 1]
        ELSE IF i < Len(src) - p1 THEN src[p1 + i + 1] ELSE b[i]
  BY <1>1 DEF WriteData
<1>3. Len(src) \in 0 .. MaxLen
  OBVIOUS
<1>4. p1 = IF start + Len(src) <= MaxLen THEN Len(src) ELSE MaxLen - start
  BY DEF FirstPart
<1>5. i = IF start + d < MaxLen THEN start + d ELSE start + d - MaxLen
  BY DEF At
<1> HIDE DEF p1, i
<1>6. CASE d < Len(src)
  <2>1. CASE start + d < MaxLen
    <3>1. i >= start /\ i < start + p1 /\ i - start + 1 = d + 1
      BY <1>3, <1>4, <1>5, <1>6, <2>1, MaxLenAssumption DEF Index
    <3> QED BY <1>2, <1>6, <3>1 DEF i
  <2>2. CASE ~(start + d < MaxLen)
    <3>1. ~(i >= start /\ i < start + p1) /\ i < Len(src) - p1 /\ p1 + i + 1 = d + 1
      BY <1>3, <1>4, <1>5, <1>6, <2>2, MaxLenAssumption DEF Index
    <3> QED BY <1>2, <1>6, <3>1 DEF i
  <2> QED BY <2>1, <2>2
<1>7. CASE ~(d < Len(src))
  <2>1. ~(i >= start /\ i < start + p1) /\ ~(i < Len(src) - p1)
    BY <1>3, <1>4, <1>5, <1>7, MaxLenAssumption DEF Index
  <2> QED BY <1>2, <1>7, <2>1 DEF i
<1> QED BY <1>6, <1>7

\* Two sequences with the same items are the same.
LEMMA SameItems ==
  ASSUME NEW S, NEW s \in Seq(S), NEW t \in Seq(S), Len(s) = Len(t),
         \A i \in 1 .. Len(s) : s[i] = t[i]
  PROVE  s = t
  OBVIOUS

\* A function on the first n numbers is a sequence.
LEMMA FunctionIsSeq ==
  ASSUME NEW S, NEW n \in Nat, NEW f \in [1 .. n -> S]
  PROVE  f \in Seq(S) /\ Len(f) = n
  OBVIOUS

\* Two sequences, one after the other.
LEMMA ConcatType ==
  ASSUME NEW S, NEW s \in Seq(S), NEW t \in Seq(S)
  PROVE  s \o t \in Seq(S) /\ Len(s \o t) = Len(s) + Len(t)
  OBVIOUS

LEMMA ConcatAt ==
  ASSUME NEW S, NEW s \in Seq(S), NEW t \in Seq(S), NEW i \in 1 .. Len(s) + Len(t)
  PROVE  (s \o t)[i] = IF i <= Len(s) THEN s[i] ELSE t[i - Len(s)]
  OBVIOUS

\* A read of no items.
LEMMA NothingRead ==
  ASSUME NEW S, NEW b \in [Index -> S], NEW start \in Index
  PROVE  ReadData(b, start, 0) = <<>>
<1>1. 0 \in 0 .. MaxLen
  BY MaxLenAssumption
<1>2. ReadData(b, start, 0) \in Seq(S) /\ Len(ReadData(b, start, 0)) = 0
  BY <1>1, ReadDataType
<1> QED BY <1>2

\* A shorter read is the beginning of a longer one.
LEMMA FirstRead ==
  ASSUME NEW S, NEW b \in [Index -> S], NEW start \in Index, NEW n \in 0 .. MaxLen,
         NEW m \in 0 .. n
  PROVE  ReadData(b, start, m) = SubSeq(ReadData(b, start, n), 1, m)
<1> DEFINE all == ReadData(b, start, n)
<1>1. m \in 0 .. MaxLen /\ all \in Seq(S) /\ Len(all) = n
  <2>1. m \in 0 .. MaxLen
    BY MaxLenAssumption
  <2> QED BY <2>1, ReadDataType
<1>2. ReadData(b, start, m) \in Seq(S) /\ Len(ReadData(b, start, m)) = m
  BY <1>1, ReadDataType
<1>3. SubSeq(all, 1, m) \in Seq(S) /\ Len(SubSeq(all, 1, m)) = m
      /\ \A i \in 1 .. m : SubSeq(all, 1, m)[i] = all[i]
  <2> HIDE DEF all
  <2> QED BY <1>1
<1>4. ASSUME NEW i \in 1 .. m
      PROVE  ReadData(b, start, m)[i] = SubSeq(all, 1, m)[i]
  <2>1. i \in 1 .. n
    OBVIOUS
  <2>2. all[i] = b[At(start, i - 1)]
    BY <2>1, ReadDataAt
  <2>3. ReadData(b, start, m)[i] = b[At(start, i - 1)]
    BY <1>1, ReadDataAt
  <2> QED BY <1>3, <2>2, <2>3
<1> QED BY <1>2, <1>3, <1>4, SameItems

\* The indices a filter keeps make a shorter sequence of the same items.
LEMMA KeptItems ==
  ASSUME NEW S, NEW items \in Seq(S), NEW target, NEW f \in KeptOrder(items, target)
  PROVE  LET kept == [i \in 1 .. Len(f) |-> items[f[i]]]
         IN  kept \in Seq(S) /\ Len(kept) \in 0 .. Len(items)
<1>1. PICK m \in 0 .. Len(items) :
        f \in [1 .. m -> {i \in 1 .. Len(items) : items[i] \notin target}]
  BY DEF KeptOrder
<1>2. m \in Nat /\ f \in [1 .. m -> 1 .. Len(items)]
  BY <1>1
<1>3. f \in Seq(1 .. Len(items)) /\ Len(f) = m
  BY <1>2
<1>4. [i \in 1 .. Len(f) |-> items[f[i]]] \in [1 .. m -> S]
  BY <1>2, <1>3
<1> QED BY <1>1, <1>2, <1>4
-------------------------------------------------------------------------------
(* A buffer that keeps no read head.                                       *)

\* Its items, oldest first.
Held(b, head, n) == ReadData(b, GetStartPos(head, n), n)

LEMMA HeldType ==
  ASSUME NEW S, NEW b \in [Index -> S], NEW head \in Index, NEW n \in 0 .. MaxLen
  PROVE  Held(b, head, n) \in Seq(S) /\ Len(Held(b, head, n)) = n
  BY StartPosType, ReadDataType DEF Held

LEMMA HeldAt ==
  ASSUME NEW S, NEW b \in [Index -> S], NEW head \in Index, NEW n \in 0 .. MaxLen,
         NEW i \in 1 .. n
  PROVE  Held(b, head, n)[i] = b[At(GetStartPos(head, n), i - 1)]
  BY StartPosType, ReadDataAt DEF Held

\* A block of at most the capacity leaves the end of what was held, and itself.
LEMMA BlockType ==
  ASSUME NEW S, NEW b \in [Index -> S], NEW head \in Index, NEW n \in 0 .. MaxLen,
         NEW block \in Seq(S), Len(block) \in 1 .. MaxLen
  PROVE  /\ WriteData(b, block, head) \in [Index -> S]
         /\ ExtendAdvanceHead(head, Len(block)) \in Index
         /\ MinSz(MaxLen, n + Len(block)) \in 0 .. MaxLen
<1>1. Len(block) \in 0 .. MaxLen /\ Len(block) <= MaxLen
  BY MaxLenAssumption
<1>2. MinSz(MaxLen, n + Len(block)) \in 0 .. MaxLen
  BY <1>1, MaxLenAssumption DEF MinSz
<1> QED BY <1>1, <1>2, WriteDataType, AdvanceHeadType

LEMMA BlockSlides ==
  ASSUME NEW S, NEW b \in [Index -> S], NEW head \in Index, NEW n \in 0 .. MaxLen,
         NEW block \in Seq(S), Len(block) \in 1 .. MaxLen,
         NEW i \in 1 .. MinSz(MaxLen, n + Len(block))
  PROVE  LET m     == MinSz(MaxLen, n + Len(block))
             j     == i + (n + Len(block) - m)
             after == Held(WriteData(b, block, head), ExtendAdvanceHead(head, Len(block)), m)
         IN  after[i] = IF j <= n THEN Held(b, head, n)[j] ELSE block[j - n]
<1> DEFINE k     == Len(block)
           m     == MinSz(MaxLen, n + k)
           j     == i + (n + k - m)
           c     == WriteData(b, block, head)
           moved == ExtendAdvanceHead(head, k)
           start == GetStartPos(head, n)
           first == GetStartPos(moved, m)
           d     == IF j <= n THEN MaxLen - n + j - 1 ELSE j - n - 1
<1>1. /\ c \in [Index -> S] /\ moved \in Index /\ m \in 0 .. MaxLen
      /\ k \in 1 .. MaxLen /\ k <= MaxLen /\ head \in Index /\ n \in 0 .. MaxLen
      /\ i \in 1 .. m
  BY BlockType
<1>2. Held(c, moved, m)[i] = c[At(first, i - 1)]
  BY <1>1, HeldAt
<1>3. m = IF MaxLen < n + k THEN MaxLen ELSE n + k
  BY DEF MinSz
<1>4. moved = IF head + k >= MaxLen THEN head + k - MaxLen ELSE head + k
  BY DEF ExtendAdvanceHead
<1>5. first = IF moved >= m THEN moved - m ELSE moved + MaxLen - m
  BY DEF GetStartPos
<1> HIDE DEF k, m, moved, first
<1>6. d \in 0 .. MaxLen - 1 /\ At(first, i - 1) = At(head, d)
  BY <1>1, <1>3, <1>4, <1>5, MaxLenAssumption DEF At, Index
<1>7. c[At(head, d)] = IF d < k THEN block[d + 1] ELSE b[At(head, d)]
  <2>1. Len(block) <= MaxLen
    BY <1>1 DEF k
  <2> HIDE DEF d
  <2> QED BY <1>6, <2>1, WriteDataAt DEF k
<1>8. CASE j <= n
  <2>1. ~(d < k) /\ j \in 1 .. n /\ At(head, d) = At(start, j - 1)
    BY <1>1, <1>3, <1>8, MaxLenAssumption DEF GetStartPos, At, Index
  <2>2. Held(b, head, n)[j] = b[At(start, j - 1)]
    BY <2>1, HeldAt
  <2> QED BY <1>2, <1>6, <1>7, <1>8, <2>1, <2>2 DEF k, m, moved
<1>9. CASE ~(j <= n)
  <2>1. d < k /\ d + 1 = j - n
    BY <1>1, <1>3, <1>9, MaxLenAssumption
  <2> QED BY <1>2, <1>6, <1>7, <1>9, <2>1 DEF k, m, moved
<1> QED BY <1>8, <1>9

\* The items that are gone, followed by the ones held after a block, are the ones held before
\* it, followed by the block.
Slides(S, gone, after, before, block) ==
  /\ gone \in Seq(S) /\ after \in Seq(S) /\ before \in Seq(S)
  /\ gone \o after = before \o block

\* What a block drives out is what lies at the oldest end.
LEMMA ComingAndGoing ==
  ASSUME NEW S, NEW b \in [Index -> S], NEW head \in Index, NEW n \in 0 .. MaxLen,
         NEW block \in Seq(S), Len(block) \in 1 .. MaxLen
  PROVE  LET m     == MinSz(MaxLen, n + Len(block))
             k     == n + Len(block) - m
             gone  == ReadData(b, GetStartPos(head, n), k)
             after == Held(WriteData(b, block, head), ExtendAdvanceHead(head, Len(block)), m)
         IN  /\ k \in 0 .. n /\ Len(gone) = k /\ Len(after) = m
             /\ Slides(S, gone, after, Held(b, head, n), block)
<1> DEFINE l     == Len(block)
           m     == MinSz(MaxLen, n + l)
           k     == n + l - m
           held  == Held(b, head, n)
           gone  == ReadData(b, GetStartPos(head, n), k)
           after == Held(WriteData(b, block, head), ExtendAdvanceHead(head, l), m)
<1>1. held \in Seq(S) /\ Len(held) = n
  BY HeldType
<1>2. after \in Seq(S) /\ Len(after) = m
  <2> DEFINE c     == WriteData(b, block, head)
             moved == ExtendAdvanceHead(head, l)
  <2>1. c \in [Index -> S] /\ moved \in Index /\ m \in 0 .. MaxLen
    BY BlockType
  <2> HIDE DEF c, moved, m
  <2>2. Held(c, moved, m) \in Seq(S) /\ Len(Held(c, moved, m)) = m
    BY <2>1, HeldType
  <2> QED BY <2>2 DEF c, moved
<1>3. k \in 0 .. n /\ k + m = n + l /\ m \in 0 .. MaxLen /\ l \in Nat /\ n \in Nat
  BY MaxLenAssumption DEF MinSz
<1>4. ASSUME NEW i \in 1 .. m
      PROVE  after[i] = IF i + k <= n THEN held[i + k] ELSE block[(i + k) - n]
  BY BlockSlides
<1>5. gone = SubSeq(held, 1, k)
  BY <1>3, StartPosType, FirstRead DEF Held
<1> HIDE DEF held, after, gone, k, m
<1>6. /\ gone \in Seq(S) /\ Len(gone) = k
      /\ \A i \in 1 .. k : gone[i] = held[i]
  BY <1>1, <1>3, <1>5
<1> HIDE DEF l
<1>7. ASSUME NEW i \in 1 .. n + l
      PROVE  (gone \o after)[i] = (held \o block)[i]
  <2>1. (held \o block)[i] = IF i <= n THEN held[i] ELSE block[i - n]
    BY <1>1, ConcatAt DEF l
  <2>2. (gone \o after)[i] = IF i <= k THEN gone[i] ELSE after[i - k]
    BY <1>2, <1>3, <1>6, ConcatAt
  <2>3. CASE i <= k
    BY <1>3, <1>6, <2>1, <2>2, <2>3
  <2>4. CASE ~(i <= k)
    <3> DEFINE j == i - k
    <3>1. j \in 1 .. m /\ j + k = i
      BY <1>3, <2>4
    <3>2. after[j] = IF j + k <= n THEN held[j + k] ELSE block[(j + k) - n]
      BY <1>4, <3>1
    <3> QED BY <2>1, <2>2, <2>4, <3>1, <3>2
  <2> QED BY <2>3, <2>4
<1>8. gone \o after \in Seq(S) /\ Len(gone \o after) = n + l
  <2>1. gone \o after \in Seq(S) /\ Len(gone \o after) = Len(gone) + Len(after)
    BY <1>2, <1>6, ConcatType
  <2> QED BY <1>2, <1>3, <1>6, <2>1
<1>9. held \o block \in Seq(S) /\ Len(held \o block) = n + l
  BY <1>1, ConcatType DEF l
<1>10. gone \o after = held \o block
  BY <1>7, <1>8, <1>9, SameItems
<1>11. Slides(S, gone, after, held, block)
  BY <1>1, <1>2, <1>6, <1>10 DEF Slides
<1> QED BY <1>2, <1>3, <1>6, <1>11 DEF gone, after, held, k, m, l

\* A single item is written as a block of one.
LEMMA ItemIsBlock ==
  ASSUME NEW S, NEW b \in [Index -> S], NEW head \in Index, NEW v \in S
  PROVE  /\ <<v>> \in Seq(S) /\ Len(<<v>>) = 1 /\ Len(<<v>>) \in 1 .. MaxLen
         /\ [b EXCEPT ![head] = v] = WriteData(b, <<v>>, head)
         /\ AppendAdvanceHead(head) = ExtendAdvanceHead(head, 1)
<1>1. Len(<<v>>) = 1 /\ <<v>>[1] = v
  OBVIOUS
<1>2. FirstPart(head, 1) = 1
  BY MaxLenAssumption DEF FirstPart, Index
<1>3. \A i \in Index : (IF i >= head /\ i < head + 1 THEN <<v>>[i - head + 1]
                       ELSE IF i < 1 - 1 THEN <<v>>[1 + i + 1] ELSE b[i])
                      = IF i = head THEN v ELSE b[i]
  BY <1>1, MaxLenAssumption DEF Index
<1>4. WriteData(b, <<v>>, head) = [i \in Index |-> IF i = head THEN v ELSE b[i]]
  BY <1>1, <1>2, <1>3 DEF WriteData
<1>5. AppendAdvanceHead(head) = ExtendAdvanceHead(head, 1)
  BY MaxLenAssumption DEF AppendAdvanceHead, ExtendAdvanceHead, Index
<1>6. [b EXCEPT ![head] = v] = WriteData(b, <<v>>, head)
  BY <1>4
<1>7. <<v>> \in Seq(S) /\ Len(<<v>>) \in 1 .. MaxLen
  BY <1>1, MaxLenAssumption
<1> QED BY <1>1, <1>5, <1>6, <1>7

\* The item a full buffer loses next is the one at its write head.
LEMMA OldestOfFull ==
  ASSUME NEW S, NEW b \in [Index -> S], NEW head \in Index
  PROVE  ReadData(b, GetStartPos(head, MaxLen), 1) = <<b[head]>>
<1> DEFINE one == ReadData(b, GetStartPos(head, MaxLen), 1)
<1>1. GetStartPos(head, MaxLen) = head /\ 1 \in 0 .. MaxLen /\ 1 \in 1 .. 1
  BY MaxLenAssumption DEF GetStartPos, Index
<1>2. one \in Seq(S) /\ Len(one) = 1
  BY <1>1, ReadDataType
<1>3. one[1] = b[At(head, 1 - 1)]
  BY <1>1, ReadDataAt
<1>4. At(head, 1 - 1) = head
  BY MaxLenAssumption DEF At, Index
<1> HIDE DEF one
<1>5. <<b[head]>> \in Seq(S) /\ Len(<<b[head]>>) = 1 /\ <<b[head]>>[1] = b[head]
  OBVIOUS
<1>6. \A i \in 1 .. Len(one) : one[i] = <<b[head]>>[i]
  BY <1>2, <1>3, <1>4, <1>5
<1>7. one = <<b[head]>>
  BY <1>2, <1>5, <1>6, SameItems
<1> QED BY <1>7 DEF one

\* What a filter keeps, moved together behind the oldest item, is what is then held.
LEMMA Compacts ==
  ASSUME NEW S, NEW b \in [Index -> S], NEW head \in Index, NEW n \in 0 .. MaxLen,
         NEW kept \in Seq(S), Len(kept) \in 0 .. n
  PROVE  LET start == GetStartPos(head, n)
             c     == WriteData(b, kept, start)
             moved == ExtendAdvanceHead(start, Len(kept))
         IN  /\ c \in [Index -> S] /\ moved \in Index /\ Len(kept) \in 0 .. MaxLen
             /\ Held(c, moved, Len(kept)) = kept
<1> DEFINE start == GetStartPos(head, n)
           c     == WriteData(b, kept, start)
           m     == Len(kept)
           moved == ExtendAdvanceHead(start, m)
<1>1. start \in Index /\ m \in 0 .. MaxLen /\ m <= MaxLen
  BY StartPosType, MaxLenAssumption
<1>2. c \in [Index -> S] /\ moved \in Index
  BY <1>1, WriteDataType, AdvanceHeadType
<1> HIDE DEF start
<1>3. GetStartPos(moved, m) = start
  <2> HIDE DEF m
  <2> QED BY <1>1, MaxLenAssumption DEF ExtendAdvanceHead, GetStartPos, Index
<1>4. Held(c, moved, m) = ReadData(c, start, m)
  BY <1>3 DEF Held
<1>5. ReadData(c, start, m) \in Seq(S) /\ Len(ReadData(c, start, m)) = m
  BY <1>1, <1>2, ReadDataType
<1>6. ASSUME NEW i \in 1 .. m
      PROVE  ReadData(c, start, m)[i] = kept[i]
  <2>1. i - 1 \in 0 .. MaxLen - 1 /\ i - 1 < Len(kept) /\ (i - 1) + 1 = i
    BY <1>1, MaxLenAssumption
  <2>2. ReadData(c, start, m)[i] = c[At(start, i - 1)]
    BY <1>1, <1>2, ReadDataAt
  <2>3. WriteData(b, kept, start)[At(start, i - 1)] = kept[(i - 1) + 1]
    BY <1>1, <2>1, WriteDataAt
  <2> QED BY <2>1, <2>2, <2>3
<1>7. ReadData(c, start, m) = kept
  BY <1>5, <1>6, SameItems
<1> QED BY <1>1, <1>2, <1>4, <1>7 DEF start
================================================================================
