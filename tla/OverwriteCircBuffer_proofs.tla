---------------------- MODULE OverwriteCircBuffer_proofs ----------------------
(***************************************************************************)
(* OverwriteCircBuffer keeps its types and implements SlidingWindow,       *)
(* RefPythonNumPyCircBuffer follows it, and a view of the buffer finds     *)
(* each item by its index, slices and copies the items in order and        *)
(* iterates over them in order while the owner writes, for every capacity, *)
(* set of items, blocks, policies, filters and slices.                     *)
(***************************************************************************)
EXTENDS LiveView, ReferenceBuffer, CircKernel_proofs, FiniteSetTheorems

-------------------------------------------------------------------------------
(* The window and its cells.                                               *)

LEMMA WindowHeld == Window = Held(buf, write_head, size)
  BY DEF Window, Oldest, Held

LEMMA WindowType ==
  ASSUME TypeOK
  PROVE  Window \in Seq(Item) /\ Len(Window) = size
  BY WindowHeld, HeldType DEF TypeOK

LEMMA WindowAt ==
  ASSUME TypeOK, NEW i \in 1 .. size
  PROVE  Window[i] = buf[At(GetStartPos(write_head, size), i - 1)]
  BY WindowHeld, HeldAt DEF TypeOK

\* read_overwritten: the beginning of the window.
LEMMA OldestIsPrefix ==
  ASSUME TypeOK, NEW n \in 0 .. size
  PROVE  Oldest(n) = SubSeq(Window, 1, n)
  BY StartPosType, FirstRead DEF TypeOK, Window, Oldest

\* A block of at most the capacity: what is left of the window, then the block.
LEMMA PushPartCells ==
  ASSUME TypeOK, NEW block \in Seq(Value), Len(block) \in 1 .. MaxLen, PushPart(block)
  PROVE  /\ block \in Seq(Item) /\ buf \in [Index -> Item]
         /\ buf' = WriteData(buf, block, write_head)
         /\ write_head' = ExtendAdvanceHead(write_head, Len(block))
         /\ size' = MinSz(MaxLen, size + Len(block))
<1>1. size' = MinSz(MaxLen, size + Len(block))
  BY MaxLenAssumption DEF PushPart, TypeOK, MinSz
<1> QED BY <1>1 DEF PushPart, TypeOK, Item

LEMMA PushPartType ==
  ASSUME TypeOK, NEW block \in Seq(Value), Len(block) \in 1 .. MaxLen, PushPart(block)
  PROVE  /\ buf' \in [Index -> Item] /\ write_head' \in Index /\ size' \in 0 .. MaxLen
         /\ size' = MinSz(MaxLen, size + Len(block))
         /\ Window' \in Seq(Item) /\ Len(Window') = size'
<1>1. buf' \in [Index -> Item] /\ write_head' \in Index /\ size' \in 0 .. MaxLen
  BY PushPartCells, BlockType DEF TypeOK
<1>2. Window' = Held(buf', write_head', size')
  BY DEF Window, Oldest, Held
<1> QED BY <1>1, <1>2, PushPartCells, HeldType

LEMMA PushPartWindow ==
  ASSUME TypeOK, NEW block \in Seq(Value), Len(block) \in 1 .. MaxLen, PushPart(block),
         NEW i \in 1 .. size'
  PROVE  Window'[i] = LET j == i + (size + Len(block) - size')
                      IN IF j <= size THEN Window[j] ELSE block[j - size]
<1>1. Window' = Held(buf', write_head', size')
  BY DEF Window, Oldest, Held
<1> QED BY <1>1, PushPartCells, WindowHeld, BlockSlides DEF TypeOK

\* A single append is a block of one.
LEMMA PushIsPart ==
  ASSUME TypeOK, NEW v \in Value, Push(v)
  PROVE  PushPart(<<v>>)
<1>1. write_head \in Index /\ buf \in [Index -> Item] /\ size \in 0 .. MaxLen /\ v \in Item
  BY DEF TypeOK, Item
<1>2. size' = IF size # MaxLen THEN MinSz(MaxLen, size + 1) ELSE size
  BY <1>1, MaxLenAssumption DEF Push, MinSz
<1>3. /\ <<v>> \in Seq(Item) /\ Len(<<v>>) = 1 /\ Len(<<v>>) \in 1 .. MaxLen
      /\ [buf EXCEPT ![write_head] = v] = WriteData(buf, <<v>>, write_head)
      /\ AppendAdvanceHead(write_head) = ExtendAdvanceHead(write_head, 1)
  BY <1>1, ItemIsBlock, Zenon
<1>4. /\ buf' = [buf EXCEPT ![write_head] = v]
      /\ write_head' = AppendAdvanceHead(write_head)
  BY DEF Push
<1> QED BY <1>2, <1>3, <1>4, Zenon DEF PushPart

\* A block of the capacity or more: its end.
LEMMA PushWholeWindow ==
  ASSUME TypeOK, NEW block \in Seq(Value), Len(block) >= MaxLen, PushWhole(block)
  PROVE  /\ buf' \in [Index -> Item] /\ write_head' = 0 /\ size' = MaxLen
         /\ Window' \in Seq(Item) /\ Len(Window') = MaxLen
         /\ \A i \in 1 .. MaxLen : Window'[i] = block[Len(block) - MaxLen + i]
<1>1. /\ buf' = [i \in Index |-> block[Len(block) - MaxLen + i + 1]]
      /\ write_head' = 0 /\ size' = MaxLen
  BY DEF PushWhole
<1>2. \A i \in Index : Len(block) - MaxLen + i + 1 \in 1 .. Len(block)
  BY MaxLenAssumption DEF Index
<1>3. buf' \in [Index -> Item]
  BY <1>1, <1>2 DEF Item
<1>4. GetStartPos(0, MaxLen) = 0 /\ 0 \in Index /\ MaxLen \in 0 .. MaxLen
  BY MaxLenAssumption DEF GetStartPos, Index
<1>5. Window' = ReadData(buf', 0, MaxLen)
  BY <1>1, <1>4 DEF Window, Oldest
<1>6. Window' \in Seq(Item) /\ Len(Window') = MaxLen
  BY <1>3, <1>4, <1>5, ReadDataType
<1>7. ASSUME NEW i \in 1 .. MaxLen
      PROVE  Window'[i] = block[Len(block) - MaxLen + i]
  <2>1. Window'[i] = buf'[At(0, i - 1)]
    BY <1>3, <1>4, <1>5, ReadDataAt
  <2>2. At(0, i - 1) = i - 1 /\ i - 1 \in Index
    BY MaxLenAssumption DEF At, Index
  <2>3. buf'[i - 1] = block[Len(block) - MaxLen + (i - 1) + 1]
    BY <1>1, <2>2
  <2> QED BY <2>1, <2>2, <2>3, MaxLenAssumption
<1> QED BY <1>1, <1>3, <1>6, <1>7

\* After a filter the window is what was kept.
LEMMA FilterWindow ==
  ASSUME TypeOK, NEW target, Filter(target)
  PROVE  /\ buf' \in [Index -> Item] /\ write_head' \in Index /\ size' \in 0 .. MaxLen
         /\ \E f \in KeptOrder(Window, target) :
              Window' = [i \in 1 .. Len(f) |-> Window[f[i]]]
<1> DEFINE start == GetStartPos(write_head, size)
<1>1. PICK f \in KeptOrder(Window, target) :
        /\ buf' = WriteData(buf, [i \in 1 .. Len(f) |-> Window[f[i]]], start)
        /\ size' = Len([i \in 1 .. Len(f) |-> Window[f[i]]])
        /\ write_head' = ExtendAdvanceHead(start, Len([i \in 1 .. Len(f) |-> Window[f[i]]]))
  BY DEF Filter
<1> DEFINE kept == [i \in 1 .. Len(f) |-> Window[f[i]]]
<1>2. kept \in Seq(Item) /\ Len(kept) \in 0 .. size
  BY WindowType, KeptItems
<1>3. Window' = Held(buf', write_head', size')
  BY DEF Window, Oldest, Held
<1>4. /\ buf' \in [Index -> Item] /\ write_head' \in Index /\ size' \in 0 .. MaxLen
      /\ Window' = kept
  <2>1. buf' = WriteData(buf, kept, start) /\ size' = Len(kept)
        /\ write_head' = ExtendAdvanceHead(start, Len(kept))
    BY <1>1
  <2> HIDE DEF kept
  <2> QED BY <1>2, <1>3, <2>1, Compacts DEF TypeOK
<1> QED BY <1>4
-------------------------------------------------------------------------------
(* Type correctness.                                                       *)

LEMMA ReturnedType ==
  ASSUME TypeOK, NEW n \in 0 .. size
  PROVE  Oldest(n) \in Seq(Item)
  BY StartPosType, ReadDataType, MaxLenAssumption DEF TypeOK, Oldest

LEMMA AppendValueType ==
  ASSUME TypeOK, NEW v \in Value, NEW ret \in BOOLEAN, AppendValue(v, ret)
  PROVE  TypeOK'
<1>1. Push(v)
  BY DEF AppendValue
<1>2. <<v>> \in Seq(Value) /\ Len(<<v>>) \in 1 .. MaxLen
  BY MaxLenAssumption
<1>3. buf' \in [Index -> Item] /\ write_head' \in Index /\ size' \in 0 .. MaxLen
  BY <1>1, <1>2, PushIsPart, PushPartType
<1>4. returned' \in Seq(Item) /\ policy' \in Policies
  BY DEF AppendValue, TypeOK
<1> QED BY <1>3, <1>4 DEF TypeOK

LEMMA ExtendWholeType ==
  ASSUME TypeOK, NEW block \in Blocks, NEW ret \in BOOLEAN, ExtendWhole(block, ret)
  PROVE  TypeOK'
<1>1. block \in Seq(Value) /\ PushWhole(block) /\ Len(block) >= MaxLen
  BY BlocksAssumption DEF ExtendWhole
<1>2. buf' \in [Index -> Item] /\ write_head' \in Index /\ size' \in 0 .. MaxLen
  BY <1>1, PushWholeWindow, MaxLenAssumption DEF Index
<1>3. size \in 0 .. size
  BY DEF TypeOK
<1>4. returned' \in Seq(Item) /\ policy' \in Policies
  BY <1>3, ReturnedType DEF ExtendWhole, TypeOK
<1> QED BY <1>2, <1>4 DEF TypeOK

LEMMA ExtendPartType ==
  ASSUME TypeOK, NEW block \in Blocks, NEW ret \in BOOLEAN, ExtendPart(block, ret)
  PROVE  TypeOK'
<1>1. block \in Seq(Value) /\ PushPart(block) /\ Len(block) \in 1 .. MaxLen - 1
  BY BlocksAssumption, MaxLenAssumption DEF ExtendPart
<1>2. Len(block) \in 1 .. MaxLen
  BY <1>1, MaxLenAssumption
<1>3. buf' \in [Index -> Item] /\ write_head' \in Index /\ size' \in 0 .. MaxLen
  BY <1>1, <1>2, PushPartType
<1>4. size + Len(block) > MaxLen => size + Len(block) - MaxLen \in 0 .. size
  BY <1>1, MaxLenAssumption DEF TypeOK
<1>5. returned' \in Seq(Item) /\ policy' \in Policies
  BY <1>4, ReturnedType DEF ExtendPart, TypeOK
<1> QED BY <1>3, <1>5 DEF TypeOK

LEMMA TypeInit == Init => TypeOK
  BY MaxLenAssumption DEF Init, InitRing, TypeOK, Index, Item

LEMMA TypeStep ==
  ASSUME TypeOK, [Next]_vars
  PROVE  TypeOK'
<1>1. ASSUME NEW ret \in BOOLEAN, NEW v \in Value, AppendValue(v, ret)
      PROVE  TypeOK'
  BY <1>1, AppendValueType
<1>2. ASSUME NEW ret \in BOOLEAN, NEW block \in Blocks, ExtendWhole(block, ret)
      PROVE  TypeOK'
  BY <1>2, ExtendWholeType
<1>3. ASSUME NEW ret \in BOOLEAN, NEW block \in Blocks, ExtendPart(block, ret)
      PROVE  TypeOK'
  BY <1>3, ExtendPartType
<1>4. ASSUME NEW block \in Blocks, ExtendEmpty(block)
      PROVE  TypeOK'
  BY <1>4 DEF ExtendEmpty, TypeOK
<1>5. CASE Clear
  BY <1>5, MaxLenAssumption DEF Clear, Reset, TypeOK, Index
<1>6. ASSUME NEW target \in Targets, Remove(target)
      PROVE  TypeOK'
  <2>1. Filter(target) /\ returned' = <<>> /\ policy' = policy
    BY <1>6 DEF Remove
  <2>2. buf' \in [Index -> Item] /\ write_head' \in Index /\ size' \in 0 .. MaxLen
    BY <2>1, FilterWindow
  <2> QED BY <2>1, <2>2 DEF TypeOK
<1>7. CASE UNCHANGED vars
  BY <1>7 DEF vars, TypeOK
<1> QED BY <1>1, <1>2, <1>3, <1>4, <1>5, <1>6, <1>7 DEF Next

\* Whatever is appended, extended, cleared or filtered, under each policy: the head stays
\* in the cells, the size within the capacity, and what a call returns are items.
THEOREM TypeCorrect == Spec => []TypeOK
<1>1. Init => TypeOK
  BY TypeInit
<1>2. TypeOK /\ [Next]_vars => TypeOK'
  BY TypeStep
<1> QED BY <1>1, <1>2, PTL DEF Spec
-------------------------------------------------------------------------------
(* The refinement.                                                         *)

\* A write of one block in the terms of SlidingWindow.
LEMMA WriteIsSliding ==
  ASSUME TypeOK, NEW block \in Seq(Value), NEW ret \in BOOLEAN,
         Window' \in Seq(Item), Len(Window') = size',
         size' = MinSz(MaxLen, size + Len(block)),
         \A i \in 1 .. size' : Window'[i] = LET j == i + (size + Len(block) - size')
                                           IN IF j <= size THEN Window[j] ELSE block[j - size],
         UNCHANGED policy,
         returned' = IF Captures(ret) THEN Oldest(Sliding!Evicted(Len(block))) ELSE <<>>
  PROVE  Sliding!Write(block, ret)
<1> DEFINE all  == Window \o block
           last == SubSeq(all, Len(all) - MaxLen + 1, Len(all))
<1>1. Window \in Seq(Item) /\ Len(Window) = size /\ size \in 0 .. MaxLen
  BY WindowType DEF TypeOK
<1>2. block \in Seq(Item) /\ Len(block) \in Nat
  BY DEF Item
<1>3. all \in Seq(Item) /\ Len(all) = size + Len(block)
  BY <1>1, <1>2
<1>4. \A j \in 1 .. Len(all) : all[j] = IF j <= size THEN Window[j] ELSE block[j - size]
  BY <1>1, <1>2
<1> HIDE DEF all
<1>5. Window' = IF Len(all) <= MaxLen THEN all ELSE last
  <2>1. CASE Len(all) <= MaxLen
    <3>1. size' = Len(all)
      BY <1>1, <1>2, <1>3, <2>1, MaxLenAssumption DEF MinSz
    <3>2. ASSUME NEW i \in 1 .. Len(Window')
          PROVE  Window'[i] = all[i]
      <4>1. i \in 1 .. size' /\ i + (size + Len(block) - size') = i
        BY <1>1, <1>2, <1>3, <3>1
      <4> QED BY <1>3, <1>4, <3>1, <4>1
    <3>3. Len(Window') = Len(all)
      BY <3>1
    <3>4. Window' = all
      BY <1>3, <3>2, <3>3, SameItems
    <3> QED BY <2>1, <3>4
  <2>2. CASE ~(Len(all) <= MaxLen)
    <3>1. size' = MaxLen /\ Len(all) \in Nat /\ Len(all) > MaxLen
      BY <1>1, <1>2, <1>3, <2>2, MaxLenAssumption DEF MinSz
    <3>2. last \in Seq(Item) /\ Len(last) = MaxLen
      BY <1>3, <3>1, MaxLenAssumption
    <3>3. ASSUME NEW i \in 1 .. MaxLen
          PROVE  Window'[i] = last[i]
      <4> DEFINE j == i + (size + Len(block) - size')
      <4>1. j \in 1 .. Len(all) /\ Len(all) - MaxLen + 1 + i - 1 = j
        BY <1>1, <1>2, <1>3, <3>1, MaxLenAssumption
      <4>2. last[i] = all[Len(all) - MaxLen + 1 + i - 1]
        BY <1>3, <3>1, MaxLenAssumption
      <4>3. Window'[i] = IF j <= size THEN Window[j] ELSE block[j - size]
        BY <3>1
      <4> HIDE DEF j
      <4> QED BY <1>4, <4>1, <4>2, <4>3
    <3>4. Window' = last
      BY <3>1, <3>2, <3>3, SameItems
    <3> QED BY <2>2, <3>4
  <2> QED BY <2>1, <2>2
<1>6. Sliding!Evicted(Len(block)) \in 0 .. size
  BY <1>1, <1>2, MaxLenAssumption DEF Sliding!Evicted
<1>7. Oldest(Sliding!Evicted(Len(block))) = SubSeq(Window, 1, Sliding!Evicted(Len(block)))
  BY <1>6, OldestIsPrefix
<1> QED BY <1>5, <1>7 DEF Sliding!Write, Captures, all

LEMMA NothingOldest ==
  ASSUME TypeOK
  PROVE  Oldest(0) = <<>>
<1>1. Oldest(0) = SubSeq(Window, 1, 0)
  BY OldestIsPrefix DEF TypeOK
<1> QED BY <1>1, WindowType

LEMMA AppendSlides ==
  ASSUME TypeOK, NEW v \in Value, NEW ret \in BOOLEAN, AppendValue(v, ret)
  PROVE  Sliding!Write(<<v>>, ret)
<1>1. PushPart(<<v>>) /\ UNCHANGED policy
  BY PushIsPart DEF AppendValue
<1>2. <<v>> \in Seq(Value) /\ Len(<<v>>) = 1 /\ Len(<<v>>) \in 1 .. MaxLen
  BY MaxLenAssumption
<1>3. /\ size' = MinSz(MaxLen, size + Len(<<v>>))
      /\ Window' \in Seq(Item) /\ Len(Window') = size'
  BY <1>1, <1>2, PushPartType
<1>4. \A i \in 1 .. size' : Window'[i] = LET j == i + (size + Len(<<v>>) - size')
                                        IN IF j <= size THEN Window[j] ELSE <<v>>[j - size]
  BY <1>1, <1>2, PushPartWindow
<1>5. size \in 0 .. MaxLen /\ Len(Window) = size
  BY WindowType DEF TypeOK
<1>6. CASE size = MaxLen
  <2>1. Sliding!Evicted(Len(<<v>>)) = 1
    BY <1>2, <1>5, <1>6, MaxLenAssumption DEF Sliding!Evicted
  <2>2. Oldest(1) = <<buf[write_head]>>
    BY <1>6, OldestOfFull DEF TypeOK, Oldest
  <2>3. returned' = IF Captures(ret) THEN <<buf[write_head]>> ELSE <<>>
    BY <1>6 DEF AppendValue
  <2>4. returned' = IF Captures(ret) THEN Oldest(Sliding!Evicted(Len(<<v>>))) ELSE <<>>
    BY <2>1, <2>2, <2>3
  <2> QED BY <1>1, <1>2, <1>3, <1>4, <2>4, WriteIsSliding
<1>7. CASE size # MaxLen
  <2>1. Sliding!Evicted(Len(<<v>>)) = 0
    BY <1>2, <1>5, <1>7, MaxLenAssumption DEF Sliding!Evicted
  <2>2. returned' = <<>>
    BY <1>7 DEF AppendValue
  <2>3. returned' = IF Captures(ret) THEN Oldest(Sliding!Evicted(Len(<<v>>))) ELSE <<>>
    BY <2>1, <2>2, NothingOldest
  <2> QED BY <1>1, <1>2, <1>3, <1>4, <2>3, WriteIsSliding
<1> QED BY <1>6, <1>7

LEMMA ExtendWholeSlides ==
  ASSUME TypeOK, NEW block \in Blocks, NEW ret \in BOOLEAN, ExtendWhole(block, ret)
  PROVE  Sliding!Write(block, ret)
<1> DEFINE n == Len(block)
<1>1. block \in Seq(Value) /\ PushWhole(block) /\ n >= MaxLen /\ UNCHANGED policy
  BY BlocksAssumption DEF ExtendWhole
<1>2. /\ size' = MaxLen /\ Window' \in Seq(Item) /\ Len(Window') = MaxLen
      /\ \A i \in 1 .. MaxLen : Window'[i] = block[n - MaxLen + i]
  BY <1>1, PushWholeWindow
<1>3. size \in 0 .. MaxLen /\ Len(Window) = size /\ n \in Nat
  BY <1>1, WindowType DEF TypeOK
<1> HIDE DEF n
<1>4. size' = MinSz(MaxLen, size + n)
  BY <1>1, <1>2, <1>3, MaxLenAssumption DEF MinSz
<1>5. ASSUME NEW i \in 1 .. size'
      PROVE  Window'[i] = LET j == i + (size + n - size')
                          IN IF j <= size THEN Window[j] ELSE block[j - size]
  <2> DEFINE j == i + (size + n - size')
  <2>1. ~(j <= size) /\ j - size = n - MaxLen + i
    BY <1>1, <1>2, <1>3, MaxLenAssumption
  <2> QED BY <1>2, <2>1
<1>6. Sliding!Evicted(n) = size
  BY <1>1, <1>3, MaxLenAssumption DEF Sliding!Evicted
<1>7. returned' = IF Captures(ret) THEN Oldest(Sliding!Evicted(n)) ELSE <<>>
  BY <1>6 DEF ExtendWhole
<1> QED BY <1>1, <1>2, <1>4, <1>5, <1>7, WriteIsSliding DEF n

LEMMA ExtendPartSlides ==
  ASSUME TypeOK, NEW block \in Blocks, NEW ret \in BOOLEAN, ExtendPart(block, ret)
  PROVE  Sliding!Write(block, ret)
<1> DEFINE n == Len(block)
<1>1. /\ block \in Seq(Value) /\ PushPart(block) /\ UNCHANGED policy
      /\ n \in Nat /\ n > 0 /\ n < MaxLen
  BY BlocksAssumption DEF ExtendPart
<1>2. Len(block) \in 1 .. MaxLen
  BY <1>1, MaxLenAssumption
<1>3. /\ size' = MinSz(MaxLen, size + Len(block))
      /\ Window' \in Seq(Item) /\ Len(Window') = size'
  BY <1>1, <1>2, PushPartType
<1>4. \A i \in 1 .. size' : Window'[i] = LET j == i + (size + Len(block) - size')
                                        IN IF j <= size THEN Window[j] ELSE block[j - size]
  BY <1>1, <1>2, PushPartWindow
<1>5. size \in 0 .. MaxLen /\ Len(Window) = size
  BY WindowType DEF TypeOK
<1>6. Sliding!Evicted(n) = IF size + n <= MaxLen THEN 0 ELSE size + n - MaxLen
  BY <1>1, <1>5, MaxLenAssumption DEF Sliding!Evicted
<1>7. returned' = IF Captures(ret) /\ size + n > MaxLen THEN Oldest(size + n - MaxLen)
                  ELSE <<>>
  BY DEF ExtendPart
<1> HIDE DEF n
<1>8. size + n <= MaxLen <=> ~(size + n > MaxLen)
  BY <1>1, <1>5, MaxLenAssumption
<1>9. returned' = IF Captures(ret) THEN Oldest(Sliding!Evicted(n)) ELSE <<>>
  BY <1>6, <1>7, <1>8, NothingOldest
<1> QED BY <1>1, <1>3, <1>4, <1>9, WriteIsSliding DEF n

LEMMA ExtendEmptySlides ==
  ASSUME TypeOK, NEW block \in Blocks, ExtendEmpty(block)
  PROVE  Sliding!Write(block, FALSE)
<1>1. block \in Seq(Value) /\ Len(block) = 0 /\ returned' = <<>>
      /\ UNCHANGED <<buf, write_head, size, policy>>
  BY BlocksAssumption DEF ExtendEmpty
<1>2. size \in 0 .. MaxLen /\ Window \in Seq(Item) /\ Len(Window) = size
  BY WindowType DEF TypeOK
<1>3. Window' = Window
  BY <1>1 DEF Window, Oldest
<1>4. size' = MinSz(MaxLen, size + Len(block))
  BY <1>1, <1>2, MaxLenAssumption DEF MinSz
<1>5. ASSUME NEW i \in 1 .. size'
      PROVE  Window'[i] = LET j == i + (size + Len(block) - size')
                          IN IF j <= size THEN Window[j] ELSE block[j - size]
  <2>1. i + (size + Len(block) - size') = i /\ i <= size
    BY <1>1, <1>2
  <2> QED BY <1>3, <2>1
<1>6. Sliding!Evicted(Len(block)) = 0
  BY <1>1, <1>2, MaxLenAssumption DEF Sliding!Evicted
<1>7. returned' = IF Captures(FALSE) THEN Oldest(Sliding!Evicted(Len(block))) ELSE <<>>
  BY <1>1, <1>6, NothingOldest
<1> QED BY <1>1, <1>2, <1>3, <1>4, <1>5, <1>7, WriteIsSliding

\* An empty ring has an empty window.
LEMMA EmptyWindow ==
  ASSUME NEW b \in [Index -> Item]
  PROVE  ReadData(b, GetStartPos(0, 0), 0) = <<>>
<1>1. GetStartPos(0, 0) \in Index
  BY MaxLenAssumption DEF GetStartPos, Index
<1> QED BY <1>1, NothingRead

\* Every step of the buffer is a step of the sliding window.
LEMMA EveryStepSlides ==
  ASSUME TypeOK, [Next]_vars
  PROVE  [Sliding!Next]_Sliding!vars
<1>1. ASSUME NEW ret \in BOOLEAN, NEW v \in Value, AppendValue(v, ret)
      PROVE  Sliding!Next
  BY <1>1, AppendSlides DEF Sliding!Next
<1>2. ASSUME NEW ret \in BOOLEAN, NEW block \in Blocks,
             ExtendWhole(block, ret) \/ ExtendPart(block, ret)
      PROVE  Sliding!Next
  BY <1>2, ExtendWholeSlides, ExtendPartSlides DEF Sliding!Next
<1>3. ASSUME NEW block \in Blocks, ExtendEmpty(block)
      PROVE  Sliding!Next
  BY <1>3, ExtendEmptySlides DEF Sliding!Next
<1>4. CASE Clear
  <2>1. write_head' = 0 /\ size' = 0 /\ buf' \in [Index -> Item]
    BY <1>4 DEF Clear, Reset, TypeOK
  <2>2. Window' = <<>>
    BY <2>1, EmptyWindow DEF Window, Oldest
  <2>3. Sliding!Clear
    BY <1>4, <2>2 DEF Clear, Sliding!Clear
  <2> QED BY <2>3 DEF Sliding!Next
<1>5. ASSUME NEW target \in Targets, Remove(target)
      PROVE  Sliding!Next
  <2>1. Filter(target) /\ returned' = <<>> /\ policy' = policy
    BY <1>5 DEF Remove
  <2>2. \E f \in KeptOrder(Window, target) : Window' = [i \in 1 .. Len(f) |-> Window[f[i]]]
    BY <2>1, FilterWindow
  <2>3. Sliding!KeptOrder(Window, target) = KeptOrder(Window, target)
    BY DEF Sliding!KeptOrder, KeptOrder
  <2>4. Sliding!Remove(target)
    BY <2>1, <2>2, <2>3 DEF Sliding!Remove
  <2> QED BY <2>4 DEF Sliding!Next
<1>6. CASE UNCHANGED vars
  <2>1. Window' = Window
    BY <1>6 DEF vars, Window, Oldest
  <2> QED BY <1>6, <2>1 DEF vars, Sliding!vars
<1> QED BY <1>1, <1>2, <1>3, <1>4, <1>5, <1>6 DEF Next

\* The buffer behaves as a sliding window over everything written since it was cleared,
\* and what a write returns is what left the window.
THEOREM BufferSlides == Spec => ImplementsWindow
<1>1. Init => Sliding!Init
  <2> SUFFICES ASSUME Init
               PROVE  Sliding!Init
    OBVIOUS
  <2>1. buf \in [Index -> Item] /\ write_head = 0 /\ size = 0
    BY DEF Init, InitRing, Item
  <2>2. Window = <<>>
    BY <2>1, EmptyWindow DEF Window, Oldest
  <2> QED BY <2>2 DEF Init, Sliding!Init
<1>2. TypeOK /\ [Next]_vars => [Sliding!Next]_Sliding!vars
  BY EveryStepSlides
<1> QED BY <1>1, <1>2, TypeCorrect, PTL DEF Spec, ImplementsWindow, Sliding!Spec
-------------------------------------------------------------------------------
(* The baseline of the benchmarks.                                         *)

\* Two rings that hold the same items hold the same after the same block, wherever their
\* heads are.
LEMMA SlideTogether ==
  ASSUME NEW S, NEW b \in [Index -> S], NEW c \in [Index -> S],
         NEW g \in Index, NEW h \in Index, NEW n \in 0 .. MaxLen,
         Held(b, g, n) = Held(c, h, n),
         NEW block \in Seq(S), Len(block) \in 1 .. MaxLen
  PROVE  LET m == MinSz(MaxLen, n + Len(block))
         IN  Held(WriteData(b, block, g), ExtendAdvanceHead(g, Len(block)), m)
               = Held(WriteData(c, block, h), ExtendAdvanceHead(h, Len(block)), m)
<1> DEFINE m == MinSz(MaxLen, n + Len(block))
           s == Held(WriteData(b, block, g), ExtendAdvanceHead(g, Len(block)), m)
           t == Held(WriteData(c, block, h), ExtendAdvanceHead(h, Len(block)), m)
<1>1. s \in Seq(S) /\ t \in Seq(S) /\ Len(s) = m /\ Len(t) = m
  <2>1. /\ WriteData(b, block, g) \in [Index -> S]
        /\ ExtendAdvanceHead(g, Len(block)) \in Index /\ m \in 0 .. MaxLen
    BY BlockType
  <2>2. /\ WriteData(c, block, h) \in [Index -> S]
        /\ ExtendAdvanceHead(h, Len(block)) \in Index
    BY BlockType
  <2> HIDE DEF m
  <2>3. s \in Seq(S) /\ Len(s) = m
    BY <2>1, HeldType, ZenonT(60)
  <2>4. t \in Seq(S) /\ Len(t) = m
    BY <2>1, <2>2, HeldType, ZenonT(60)
  <2> QED BY <2>3, <2>4
<1>2. ASSUME NEW i \in 1 .. m
      PROVE  s[i] = t[i]
  <2> DEFINE j == i + (n + Len(block) - m)
  <2>1. s[i] = IF j <= n THEN Held(b, g, n)[j] ELSE block[j - n]
    BY BlockSlides
  <2>2. t[i] = IF j <= n THEN Held(c, h, n)[j] ELSE block[j - n]
    BY BlockSlides
  <2> QED BY <2>1, <2>2
<1> HIDE DEF s, t, m
<1>3. s = t
  BY <1>1, <1>2, SameItems
<1> QED BY <1>3 DEF s, t, m

\* The baseline's types.
RefTypeOK ==
  ref_buffer \in [Index -> Item] /\ ref_head \in Index /\ ref_size \in 0 .. MaxLen

\* What a paired step keeps.
RefInv == paired => RefTypeOK /\ RefFollowsBuffer

\* What the baseline holds behind its head, as many items as the buffer.
LEMMA RefHolds ==
  ASSUME paired
  PROVE  RefFollowsBuffer <=>
           /\ ref_head \in Index
           /\ Held(ref_buffer, ref_head, size) = Window
           /\ ref_size = size \/ (size = MaxLen /\ ref_size < MaxLen)
  BY DEF RefFollowsBuffer, Held

\* extend_unchecked is the two-part copy of the kernels, for a block that fits.
LEMMA RefExtendCells ==
  ASSUME RefTypeOK, NEW block \in Seq(Item), Len(block) \in 1 .. MaxLen, RefExtend(block)
  PROVE  /\ ref_buffer' = WriteData(ref_buffer, block, ref_head)
         /\ ref_head' = ExtendAdvanceHead(ref_head, Len(block))
         /\ ref_size' = IF ref_size + Len(block) <= MaxLen THEN ref_size + Len(block)
                        ELSE ref_size
<1> DEFINE n    == Len(block)
           to   == ref_head + n
           part == IF to <= MaxLen THEN n ELSE MaxLen - ref_head
<1>1. /\ n # 0
      /\ ref_buffer' = [i \in Index |->
               IF i \in ref_head .. ref_head + part - 1 THEN block[i - ref_head + 1]
               ELSE IF i < n - part THEN block[part + i + 1] ELSE ref_buffer[i]]
      /\ ref_head' = IF to >= MaxLen THEN to - MaxLen ELSE to
      /\ ref_size' = IF ref_size + n <= MaxLen THEN ref_size + n ELSE ref_size
  BY DEF RefExtend
<1>2. part = FirstPart(ref_head, n) /\ part \in Nat /\ n \in Nat /\ ref_head \in Nat
  BY MaxLenAssumption DEF FirstPart, RefTypeOK, Index
<1>3. \A i \in Index : i \in ref_head .. ref_head + part - 1
                         <=> i >= ref_head /\ i < ref_head + part
  BY <1>2 DEF Index
<1>4. ref_buffer' = WriteData(ref_buffer, block, ref_head)
  <2> HIDE DEF part, n
  <2> QED BY <1>1, <1>2, <1>3 DEF WriteData, n
<1>5. ref_head' = ExtendAdvanceHead(ref_head, Len(block))
  <2>1. ref_head' = IF to >= MaxLen THEN to - MaxLen ELSE to
    BY <1>1
  <2> QED BY <1>2, <2>1, MaxLenAssumption DEF ExtendAdvanceHead
<1>6. ref_size' = IF ref_size + Len(block) <= MaxLen THEN ref_size + Len(block) ELSE ref_size
  BY <1>2 DEF RefExtend, RefTypeOK
<1> QED BY <1>4, <1>5, <1>6

\* A block that fits, in both.
LEMMA ExtendBoth ==
  ASSUME TypeOK, paired, paired', RefTypeOK, RefFollowsBuffer,
         NEW block \in Seq(Item), Len(block) \in 1 .. MaxLen,
         Window' = Held(WriteData(buf, block, write_head),
                        ExtendAdvanceHead(write_head, Len(block)),
                        MinSz(MaxLen, size + Len(block))),
         size' = MinSz(MaxLen, size + Len(block)),
         ref_buffer' = WriteData(ref_buffer, block, ref_head),
         ref_head' = ExtendAdvanceHead(ref_head, Len(block)),
         \/ ref_size' = IF ref_size + Len(block) <= MaxLen THEN ref_size + Len(block)
                        ELSE ref_size
         \/ ref_size' = MinSz(MaxLen, ref_size + Len(block))
  PROVE  RefTypeOK' /\ RefFollowsBuffer'
<1>1. /\ ref_buffer \in [Index -> Item] /\ ref_head \in Index /\ ref_size \in 0 .. MaxLen
      /\ buf \in [Index -> Item] /\ write_head \in Index /\ size \in 0 .. MaxLen
  BY DEF TypeOK, RefTypeOK
<1>2. Held(ref_buffer, ref_head, size) = Held(buf, write_head, size)
  BY RefHolds, WindowHeld
<1>3. ref_size = size \/ (size = MaxLen /\ ref_size < MaxLen)
  BY RefHolds
<1>4. ref_buffer' \in [Index -> Item] /\ ref_head' \in Index
  BY <1>1, BlockType
<1>5. ref_size' \in 0 .. MaxLen /\ (ref_size' = size' \/ (size' = MaxLen /\ ref_size' < MaxLen))
  BY <1>1, <1>3, MaxLenAssumption DEF MinSz
<1>6. Held(ref_buffer', ref_head', size') = Window'
  BY <1>1, <1>2, SlideTogether
<1>7. RefFollowsBuffer'
  BY <1>4, <1>5, <1>6 DEF RefFollowsBuffer, Held
<1> QED BY <1>4, <1>5, <1>7 DEF RefTypeOK

\* A block of the capacity rewinds the buffer; what it holds is the block all the same.
LEMMA WholeIsBlock ==
  ASSUME TypeOK, NEW block \in Seq(Value), Len(block) >= MaxLen, Len(block) <= MaxLen,
         PushWhole(block)
  PROVE  LET m == MinSz(MaxLen, size + Len(block))
         IN  /\ size' = m
             /\ Window' = Held(WriteData(buf, block, write_head),
                               ExtendAdvanceHead(write_head, Len(block)), m)
<1> DEFINE m == MinSz(MaxLen, size + Len(block))
           c == WriteData(buf, block, write_head)
           h == ExtendAdvanceHead(write_head, Len(block))
           t == Held(c, h, m)
<1>1. /\ size' = MaxLen /\ Window' \in Seq(Item) /\ Len(Window') = MaxLen
      /\ \A i \in 1 .. MaxLen : Window'[i] = block[Len(block) - MaxLen + i]
  BY PushWholeWindow, MaxLenAssumption
<1>2. /\ buf \in [Index -> Item] /\ write_head \in Index /\ size \in 0 .. MaxLen
      /\ block \in Seq(Item) /\ Len(block) \in 1 .. MaxLen
  BY MaxLenAssumption DEF TypeOK, Item
<1>3. m = MaxLen
  BY <1>2, MaxLenAssumption DEF MinSz
<1>4. c \in [Index -> Item] /\ h \in Index /\ m \in 0 .. MaxLen
  BY <1>2, BlockType
<1>5. t \in Seq(Item) /\ Len(t) = m
  <2> HIDE DEF c, h, m
  <2> QED BY <1>4, HeldType
<1>6. ASSUME NEW i \in 1 .. m
      PROVE  t[i] = Window'[i]
  <2> DEFINE j == i + (size + Len(block) - m)
  <2>1. t[i] = IF j <= size THEN Held(buf, write_head, size)[j] ELSE block[j - size]
    BY <1>2, BlockSlides, SMTT(30)
  <2> HIDE DEF t, m
  <2>2. ~(j <= size) /\ j - size = i /\ i \in 1 .. MaxLen /\ Len(block) - MaxLen + i = i
    <3>1. i \in 1 .. MaxLen
      BY <1>3
    <3>2. j = i + size
      BY <1>2, <1>3, <3>1, MaxLenAssumption
    <3>3. Len(block) - MaxLen + i = i
      BY <1>2, <3>1, MaxLenAssumption
    <3> HIDE DEF j
    <3> QED BY <1>2, <3>1, <3>2, <3>3
  <2>3. Window'[i] = block[i]
    <3>1. Window'[i] = block[Len(block) - MaxLen + i]
      BY <1>1, <2>2
    <3> QED BY <2>2, <3>1
  <2>4. t[i] = block[i]
    BY <2>1, <2>2
  <2> QED BY <2>3, <2>4
<1> HIDE DEF t, m
<1>7. Window' = t
  BY <1>1, <1>3, <1>5, <1>6, SameItems
<1> QED BY <1>1, <1>3, <1>7 DEF t, m

\* Each call on both keeps them together.
LEMMA RefStep ==
  ASSUME TypeOK, RefInv, [PairNext]_<<vars, paired, refVars>>
  PROVE  RefInv'
<1> SUFFICES ASSUME paired'
             PROVE  RefTypeOK' /\ RefFollowsBuffer'
  BY DEF RefInv
<1>0. paired /\ RefTypeOK /\ RefFollowsBuffer
  BY DEF PairNext, RefInv
<1>1. CASE UNCHANGED <<vars, paired, refVars>>
  <2>1. UNCHANGED <<buf, write_head, size, ref_buffer, ref_head, ref_size>>
    BY <1>1 DEF vars, refVars
  <2>2. RefTypeOK'
    BY <1>0, <2>1 DEF RefTypeOK
  <2>3. Window' = Window
    BY <2>1 DEF Window, Oldest
  <2> QED BY <1>0, <2>1, <2>2, <2>3 DEF RefFollowsBuffer
<1>2. ASSUME NEW v \in Value, AppendValue(v, FALSE), RefAppend(v)
      PROVE  RefTypeOK' /\ RefFollowsBuffer'
  <2>1. /\ ref_head \in Index /\ ref_buffer \in [Index -> Item] /\ ref_size \in 0 .. MaxLen
        /\ v \in Item
    BY <1>0 DEF RefTypeOK, Item
  <2>2. /\ <<v>> \in Seq(Value) /\ <<v>> \in Seq(Item) /\ Len(<<v>>) = 1
        /\ Len(<<v>>) \in 1 .. MaxLen
        /\ [ref_buffer EXCEPT ![ref_head] = v] = WriteData(ref_buffer, <<v>>, ref_head)
        /\ AppendAdvanceHead(ref_head) = ExtendAdvanceHead(ref_head, Len(<<v>>))
    <3>1. <<v>> \in Seq(Value)
      OBVIOUS
    <3>2. /\ <<v>> \in Seq(Item) /\ Len(<<v>>) = 1 /\ Len(<<v>>) \in 1 .. MaxLen
          /\ [ref_buffer EXCEPT ![ref_head] = v] = WriteData(ref_buffer, <<v>>, ref_head)
          /\ AppendAdvanceHead(ref_head) = ExtendAdvanceHead(ref_head, 1)
      BY <2>1, ItemIsBlock, Zenon
    <3> QED BY <3>1, <3>2, Zenon
  <2>3. PushPart(<<v>>)
    BY <1>2, PushIsPart DEF AppendValue
  <2>4. /\ size' = MinSz(MaxLen, size + Len(<<v>>))
        /\ Window' = Held(WriteData(buf, <<v>>, write_head),
                          ExtendAdvanceHead(write_head, Len(<<v>>)),
                          MinSz(MaxLen, size + Len(<<v>>)))
    <3>1. /\ buf' = WriteData(buf, <<v>>, write_head)
          /\ write_head' = ExtendAdvanceHead(write_head, Len(<<v>>))
          /\ size' = MinSz(MaxLen, size + Len(<<v>>))
      BY <2>2, <2>3, PushPartCells
    <3>2. Window' = Held(buf', write_head', size')
      BY DEF Window, Oldest, Held
    <3> QED BY <3>1, <3>2
  <2>5. /\ ref_buffer' = WriteData(ref_buffer, <<v>>, ref_head)
        /\ ref_head' = ExtendAdvanceHead(ref_head, Len(<<v>>))
    BY <1>2, <2>2 DEF RefAppend, AppendAdvanceHead
  <2>6. ref_size' = MinSz(MaxLen, ref_size + Len(<<v>>))
    BY <1>2, <2>1, <2>2, MaxLenAssumption DEF RefAppend, MinSz
  <2> QED BY <1>0, <2>2, <2>4, <2>5, <2>6, ExtendBoth
<1>3. ASSUME NEW block \in Blocks, Len(block) <= MaxLen, RefExtend(block),
             ExtendEmpty(block) \/ ExtendPart(block, FALSE) \/ ExtendWhole(block, FALSE)
      PROVE  RefTypeOK' /\ RefFollowsBuffer'
  <2>0. block \in Seq(Value) /\ block \in Seq(Item) /\ Len(block) \in Nat
    BY BlocksAssumption DEF Item
  <2>1. CASE ExtendEmpty(block)
    <3>1. UNCHANGED <<buf, write_head, size, ref_buffer, ref_head, ref_size>>
      BY <1>3, <2>1 DEF ExtendEmpty, RefExtend, refVars
    <3>2. Window' = Window
      BY <3>1 DEF Window, Oldest
    <3>3. RefTypeOK'
      BY <1>0, <3>1 DEF RefTypeOK
    <3> QED BY <1>0, <3>1, <3>2, <3>3 DEF RefFollowsBuffer
  <2>2. CASE ExtendPart(block, FALSE)
    <3>1. Len(block) \in 1 .. MaxLen /\ PushPart(block)
      BY <2>0, <2>2, MaxLenAssumption DEF ExtendPart
    <3>2. /\ buf' = WriteData(buf, block, write_head)
          /\ write_head' = ExtendAdvanceHead(write_head, Len(block))
          /\ size' = MinSz(MaxLen, size + Len(block))
      BY <2>0, <3>1, PushPartCells
    <3>3. Window' = Held(buf', write_head', size')
      BY DEF Window, Oldest, Held
    <3>4. /\ ref_buffer' = WriteData(ref_buffer, block, ref_head)
          /\ ref_head' = ExtendAdvanceHead(ref_head, Len(block))
          /\ ref_size' = IF ref_size + Len(block) <= MaxLen THEN ref_size + Len(block)
                         ELSE ref_size
      BY <1>0, <1>3, <2>0, <3>1, RefExtendCells
    <3> QED BY <1>0, <2>0, <3>1, <3>2, <3>3, <3>4, ExtendBoth
  <2>3. CASE ExtendWhole(block, FALSE)
    <3>1. /\ Len(block) >= MaxLen /\ Len(block) <= MaxLen /\ Len(block) \in 1 .. MaxLen
          /\ PushWhole(block)
      BY <1>3, <2>0, <2>3, MaxLenAssumption DEF ExtendWhole
    <3>2. /\ size' = MinSz(MaxLen, size + Len(block))
          /\ Window' = Held(WriteData(buf, block, write_head),
                            ExtendAdvanceHead(write_head, Len(block)),
                            MinSz(MaxLen, size + Len(block)))
      BY <2>0, <3>1, WholeIsBlock
    <3>3. /\ ref_buffer' = WriteData(ref_buffer, block, ref_head)
          /\ ref_head' = ExtendAdvanceHead(ref_head, Len(block))
          /\ ref_size' = IF ref_size + Len(block) <= MaxLen THEN ref_size + Len(block)
                         ELSE ref_size
      BY <1>0, <1>3, <2>0, <3>1, RefExtendCells
    <3> QED BY <1>0, <2>0, <3>1, <3>2, <3>3, ExtendBoth
  <2> QED BY <1>3, <2>1, <2>2, <2>3
<1>4. CASE Clear /\ RefClear
  <2>1. /\ ref_head' = 0 /\ ref_size' = 0 /\ ref_buffer' = ref_buffer
        /\ write_head' = 0 /\ size' = 0 /\ buf' = buf
    BY <1>4 DEF Clear, Reset, RefClear
  <2>2. 0 \in Index /\ GetStartPos(0, 0) = 0
    BY MaxLenAssumption DEF Index, GetStartPos
  <2>3. Window' = <<>> /\ ReadData(ref_buffer', GetStartPos(ref_head', size'), size') = <<>>
    BY <1>0, <2>1, <2>2, NothingRead DEF Window, Oldest, TypeOK, RefTypeOK
  <2>4. RefTypeOK'
    BY <1>0, <2>1, <2>2, MaxLenAssumption DEF RefTypeOK
  <2> QED BY <2>1, <2>2, <2>3, <2>4 DEF RefFollowsBuffer
<1> QED BY <1>0, <1>1, <1>2, <1>3, <1>4 DEF PairNext, BothCalls

\* What both get is a call of the buffer.
LEMMA BothAreSteps == PairNext => [Next]_vars
<1> SUFFICES ASSUME PairNext
             PROVE  [Next]_vars
  OBVIOUS
<1>1. CASE BothCalls
  BY <1>1 DEF BothCalls, Next
<1> QED BY <1>1 DEF PairNext

\* Whatever the benchmarks call, RefPythonNumPyCircBuffer holds the items the buffer holds,
\* and its size falls short of a full buffer at most; for every capacity and all blocks.
THEOREM BaselineFollows == PairSpec => []RefFollowsBuffer
<1>1. PairInit => TypeOK /\ RefInv
  <2> SUFFICES ASSUME PairInit
               PROVE  TypeOK /\ RefInv
    OBVIOUS
  <2>1. TypeOK
    BY TypeInit DEF PairInit
  <2>2. RefTypeOK
    BY MaxLenAssumption DEF PairInit, RefTypeOK, Index, Item
  <2>3. size = 0 /\ ref_size = 0 /\ ref_head = 0 /\ write_head = 0
    BY DEF PairInit, Init, InitRing
  <2>4. GetStartPos(0, 0) = 0 /\ 0 \in Index
    BY MaxLenAssumption DEF Index, GetStartPos
  <2>5. Window = <<>> /\ ReadData(ref_buffer, GetStartPos(ref_head, size), size) = <<>>
    BY <2>1, <2>2, <2>3, <2>4, NothingRead DEF Window, Oldest, TypeOK, RefTypeOK
  <2> QED BY <2>1, <2>2, <2>3, <2>4, <2>5 DEF RefInv, RefFollowsBuffer
<1>2. TypeOK /\ RefInv /\ [PairNext]_<<vars, paired, refVars>> => TypeOK' /\ RefInv'
  <2>1. [PairNext]_<<vars, paired, refVars>> => [Next]_vars
    BY BothAreSteps
  <2> QED BY <2>1, TypeStep, RefStep
<1>3. RefInv => RefFollowsBuffer
  BY DEF RefInv, RefFollowsBuffer
<1> QED BY <1>1, <1>2, <1>3, PTL DEF PairSpec
-------------------------------------------------------------------------------
(* The live view.                                                          *)

LEMMA ViewKeepsType ==
  ASSUME TypeOK, [ViewNext]_viewVars
  PROVE  TypeOK'
<1>1. CASE Next
  BY <1>1, TypeStep
<1>2. CASE UNCHANGED vars
  BY <1>2, TypeStep
<1> QED BY <1>1, <1>2
        DEF ViewNext, viewVars, vars, OwnerWrites, TakeSlice, IterOpen, IterNext, IterStop

LEMMA ViewType == ViewSpec => []TypeOK
<1>1. ViewInit => TypeOK
  BY TypeInit DEF ViewInit
<1>2. TypeOK /\ [ViewNext]_viewVars => TypeOK'
  BY ViewKeepsType
<1> QED BY <1>1, <1>2, PTL DEF ViewSpec
-------------------------------------------------------------------------------
(* Indices and copies.                                                     *)

LEMMA IndexFinds ==
  ASSUME TypeOK, NEW idx \in -(size + 2) .. size + 1
  PROVE  LET k == IF idx < 0 THEN idx + size ELSE idx
         IN IF k \in 0 .. size - 1
            THEN GetIndex(idx) # None /\ buf[GetIndex(idx)] = Window[k + 1]
            ELSE GetIndex(idx) = None
<1> DEFINE k == IF idx < 0 THEN idx + size ELSE idx
<1>1. StartPos \in Index /\ size \in 0 .. MaxLen /\ k \in Int
  BY StartPosType DEF TypeOK, StartPos
<1>2. GetIndex(idx) = IF k < 0 \/ k >= size THEN None
                      ELSE IF k + StartPos >= MaxLen THEN k + StartPos - MaxLen
                      ELSE k + StartPos
  BY DEF GetIndex
<1> HIDE DEF k
<1>3. CASE k \in 0 .. size - 1
  <2>1. GetIndex(idx) = At(StartPos, k) /\ k + 1 \in 1 .. size /\ (k + 1) - 1 = k
    BY <1>1, <1>2, <1>3, MaxLenAssumption DEF At, Index
  <2>2. At(StartPos, k) \in Int
    BY <1>1, <1>3, MaxLenAssumption DEF At, Index
  <2>3. Window[k + 1] = buf[At(StartPos, k)]
    BY <2>1, WindowAt DEF StartPos
  <2> QED BY <1>3, <2>1, <2>2, <2>3, NoneAssumption DEF k
<1>4. CASE k \notin 0 .. size - 1
  <2>1. GetIndex(idx) = None
    BY <1>1, <1>2, <1>4
  <2> QED BY <1>4, <2>1 DEF k
<1> QED BY <1>3, <1>4

LEMMA TwoPieces ==
  ASSUME NEW S, NEW s \in Seq(S), NEW t \in Seq(S)
  PROVE  /\ s \o t \in Seq(S) /\ Len(s \o t) = Len(s) + Len(t)
         /\ \A i \in 1 .. Len(s) + Len(t) :
              (s \o t)[i] = IF i <= Len(s) THEN s[i] ELSE t[i - Len(s)]
  OBVIOUS

LEMMA CopyIsWindow ==
  ASSUME TypeOK
  PROVE  ToNumpy = Window
<1> DEFINE start == StartPos
           end == start + size
           part(from, to) == [k \in 1 .. to - from |-> buf[from + k - 1]]
<1>1. /\ start \in Index /\ size \in 0 .. MaxLen /\ buf \in [Index -> Item]
      /\ Window \in Seq(Item) /\ Len(Window) = size
  BY StartPosType, WindowType DEF TypeOK, StartPos
<1>2. \A i \in 1 .. size : Window[i] = buf[At(start, i - 1)]
  BY WindowAt DEF StartPos
<1>3. ToNumpy = IF size = 0 THEN <<>>
                ELSE IF end <= MaxLen THEN part(start, end)
                ELSE part(start, MaxLen) \o part(0, end - MaxLen)
  BY DEF ToNumpy
<1>4. ASSUME NEW from \in 0 .. MaxLen, NEW to \in from .. MaxLen
      PROVE  /\ part(from, to) \in Seq(Item) /\ Len(part(from, to)) = to - from
             /\ \A k \in 1 .. to - from : part(from, to)[k] = buf[from + k - 1]
  <2>1. \A k \in 1 .. to - from : from + k - 1 \in Index
    BY MaxLenAssumption DEF Index
  <2>2. part(from, to) \in [1 .. to - from -> Item]
    BY <1>1, <2>1
  <2>3. to - from \in Nat
    BY MaxLenAssumption
  <2> QED BY <2>2, <2>3
<1> HIDE DEF part, start
<1>5. CASE size = 0
  BY <1>1, <1>3, <1>5
<1>6. CASE size # 0 /\ end <= MaxLen
  <2>1. start \in 0 .. MaxLen /\ end \in start .. MaxLen /\ end - start = size
    BY <1>1, <1>6, MaxLenAssumption DEF Index
  <2> DEFINE p == part(start, end)
  <2>2. /\ p \in Seq(Item) /\ Len(p) = size
        /\ \A k \in 1 .. size : p[k] = buf[start + k - 1]
    BY <1>4, <2>1
  <2>3. \A i \in 1 .. size : At(start, i - 1) = start + i - 1
    BY <1>1, <1>6, MaxLenAssumption DEF At, Index
  <2> HIDE DEF p
  <2>4. p = Window
    BY <1>1, <1>2, <2>2, <2>3, SameItems
  <2> QED BY <1>3, <1>6, <2>4 DEF p
<1>7. CASE size # 0 /\ ~(end <= MaxLen)
  <2>1. /\ start \in 0 .. MaxLen /\ MaxLen \in start .. MaxLen
        /\ 0 \in 0 .. MaxLen /\ end - MaxLen \in 0 .. MaxLen
        /\ MaxLen - start \in Nat /\ end - MaxLen \in Nat
        /\ (MaxLen - start) + (end - MaxLen) = size
    BY <1>1, <1>7, MaxLenAssumption DEF Index
  <2> DEFINE p == part(start, MaxLen)
             r == part(0, end - MaxLen)
  <2>2. /\ p \in Seq(Item) /\ Len(p) = MaxLen - start
        /\ \A k \in 1 .. MaxLen - start : p[k] = buf[start + k - 1]
    BY <1>4, <2>1
  <2>3. /\ r \in Seq(Item) /\ Len(r) = end - MaxLen
        /\ \A k \in 1 .. end - MaxLen : r[k] = buf[0 + k - 1]
    <3> DEFINE m == end - MaxLen
    <3>1. m \in 0 .. MaxLen /\ m - 0 = m
      BY <2>1, MaxLenAssumption
    <3> HIDE DEF m
    <3>2. /\ part(0, m) \in Seq(Item) /\ Len(part(0, m)) = m - 0
          /\ \A k \in 1 .. m - 0 : part(0, m)[k] = buf[0 + k - 1]
      BY <1>4, <2>1, <3>1
    <3> QED BY <3>1, <3>2 DEF m
  <2> HIDE DEF p, r
  <2> DEFINE all == p \o r
  <2>4. /\ all \in Seq(Item) /\ Len(all) = size
        /\ \A i \in 1 .. size : all[i] = IF i <= MaxLen - start THEN p[i]
                                         ELSE r[i - (MaxLen - start)]
    <3>1. /\ all \in Seq(Item) /\ Len(all) = Len(p) + Len(r)
          /\ \A i \in 1 .. Len(p) + Len(r) :
               all[i] = IF i <= Len(p) THEN p[i] ELSE r[i - Len(p)]
      BY <2>2, <2>3, TwoPieces
    <3> HIDE DEF all
    <3> QED BY <2>1, <2>2, <2>3, <3>1
  <2> HIDE DEF all
  <2>5. ASSUME NEW i \in 1 .. size
        PROVE  all[i] = Window[i]
    <3>1. CASE i <= MaxLen - start
      <4>1. At(start, i - 1) = start + i - 1 /\ i \in 1 .. MaxLen - start
        BY <1>1, <3>1, MaxLenAssumption DEF At, Index
      <4> QED BY <1>2, <2>2, <2>4, <3>1, <4>1
    <3>2. CASE ~(i <= MaxLen - start)
      <4> DEFINE j == i - (MaxLen - start)
      <4>1. At(start, i - 1) = 0 + j - 1 /\ j \in 1 .. end - MaxLen
        BY <1>1, <2>1, <3>2, MaxLenAssumption DEF At, Index
      <4> HIDE DEF j
      <4>2. all[i] = r[j]
        BY <2>4, <3>2 DEF j
      <4> QED BY <1>2, <2>3, <4>1, <4>2
    <3> QED BY <3>1, <3>2
  <2>6. all = Window
    BY <1>1, <2>4, <2>5, SameItems
  <2> QED BY <1>3, <1>7, <2>6 DEF all, p, r
<1> QED BY <1>5, <1>6, <1>7

\* An index from either end finds the item of that position, wherever the ring wraps,
\* one outside the buffer fails, and to_numpy copies the whole sequence.
THEOREM ViewIndexes == ViewSpec => []IndexInOrder
<1>1. TypeOK => IndexInOrder
  BY IndexFinds, CopyIsWindow DEF IndexInOrder
<1> QED BY <1>1, ViewType, PTL
-------------------------------------------------------------------------------
(* Iteration.                                                              *)

IterType ==
  iter \in [at : {"none", "first", "second"}, i : Nat, end : Nat, wrap_limit : Nat,
            out : Seq(Item), opened : Seq(Item), changed : BOOLEAN]

\* The cell at which the iteration began.
Begin == iter.end + iter.wrap_limit - Len(iter.opened)

\* Where an iteration is: in one piece, or in the one before the end of the array and
\* then in the one from its beginning.
IterPlace ==
  /\ Begin \in Index /\ Begin < iter.end /\ iter.end <= MaxLen
  /\ iter.wrap_limit <= Begin
  /\ iter.wrap_limit > 0 => iter.end = MaxLen
  /\ iter.at = "first" => /\ iter.i \in Begin .. iter.end
                          /\ Len(iter.out) = iter.i - Begin
  /\ iter.at = "second" => /\ iter.i \in 1 .. iter.wrap_limit
                           /\ Len(iter.out) = MaxLen - Begin + iter.i

\* What it yielded, as long as nothing was written.
IterItems ==
  ~iter.changed => /\ iter.opened = Window /\ Begin = StartPos
                   /\ \A k \in 1 .. Len(iter.out) : iter.out[k] = iter.opened[k]

IterInv == IterType /\ IF iter.at = "none" THEN iter = Idle ELSE IterPlace /\ IterItems

LEMMA IterInit == ViewInit => IterInv
  BY DEF ViewInit, Idle, IterInv, IterType

LEMMA OpenKeeps ==
  ASSUME TypeOK, IterInv, IterOpen
  PROVE  IterInv'
<1> DEFINE end  == StartPos + size
           last == IF end > MaxLen THEN MaxLen ELSE end
           rest == IF end > MaxLen THEN end - MaxLen ELSE 0
<1>1. /\ StartPos \in Index /\ size \in 0 .. MaxLen /\ size # 0
      /\ Window \in Seq(Item) /\ Len(Window) = size
      /\ UNCHANGED <<buf, write_head, size>>
  BY StartPosType, WindowType DEF TypeOK, StartPos, IterOpen
<1>2. iter = Idle
  BY DEF IterOpen, IterInv
<1>3. iter' = [iter EXCEPT !.at = "first", !.i = StartPos, !.end = last,
                           !.wrap_limit = rest, !.opened = Window]
  BY DEF IterOpen
<1>4. /\ last \in Nat /\ rest \in Nat /\ last + rest = end /\ last <= MaxLen
      /\ rest <= StartPos /\ StartPos < last /\ StartPos \in Nat
      /\ rest > 0 => last = MaxLen
      /\ last + rest - size = StartPos
  BY <1>1, MaxLenAssumption DEF Index
<1> HIDE DEF last, rest
<1>5. iter' = [at |-> "first", i |-> StartPos, end |-> last, wrap_limit |-> rest,
               out |-> <<>>, opened |-> Window, changed |-> FALSE]
  BY <1>2, <1>3 DEF Idle
<1>6. IterType'
  BY <1>1, <1>4, <1>5 DEF IterType
<1>7. StartPos' = StartPos /\ Window' = Window
  BY <1>1 DEF StartPos, Window, Oldest
<1>8. Begin' = StartPos
  BY <1>1, <1>4, <1>5 DEF Begin
<1>9. IterPlace'
  BY <1>1, <1>4, <1>5, <1>8 DEF IterPlace
<1>10. IterItems'
  BY <1>5, <1>7, <1>8 DEF IterItems
<1> QED BY <1>5, <1>6, <1>9, <1>10 DEF IterInv

\* The cell of the next item, in the first piece, at the seam and in the second.
LEMMA Places ==
  ASSUME NEW b \in Index, NEW e \in Nat, NEW w \in Nat, NEW i \in Nat, NEW n \in Nat,
         b < e, e <= MaxLen, w <= b, w > 0 => e = MaxLen
  PROVE  /\ i \in b .. e /\ i < e /\ n = i - b
              => /\ i \in Index /\ n < e + w - b /\ i = At(b, n)
                 /\ i + 1 \in b .. e /\ n + 1 = (i + 1) - b
         /\ i \in b .. e /\ i = e /\ w > 0 /\ n = i - b
              => /\ 0 \in Index /\ n < e + w - b /\ 0 = At(b, n)
                 /\ 0 + 1 \in 1 .. w /\ n + 1 = MaxLen - b + (0 + 1)
         /\ i \in 1 .. w /\ i < w /\ n = MaxLen - b + i
              => /\ i \in Index /\ n < e + w - b /\ i = At(b, n)
                 /\ i + 1 \in 1 .. w /\ n + 1 = MaxLen - b + (i + 1)
  BY MaxLenAssumption DEF At, Index

\* An iteration that goes on yields the item of its place.
LEMMA NextKeeps ==
  ASSUME TypeOK, IterInv, IterNext
  PROVE  IterInv'
<1>1. /\ IterType /\ IterPlace /\ IterItems /\ iter.at \in {"first", "second"}
      /\ UNCHANGED <<buf, write_head, size>>
  BY DEF IterInv, IterNext
<1>2. /\ Window' = Window /\ StartPos' = StartPos
      /\ StartPos \in Index /\ Window \in Seq(Item) /\ Len(Window) = size
      /\ buf \in [Index -> Item] /\ size \in 0 .. MaxLen
  BY <1>1, StartPosType, WindowType DEF TypeOK, StartPos, Window, Oldest
<1> DEFINE place == IF (iter.at = "first" /\ iter.i < iter.end)
                       \/ iter.at = "second"
                    THEN iter.i ELSE 0
           at    == IF iter.at = "first" /\ iter.i < iter.end THEN "first" ELSE "second"
           count == Len(iter.out)
<1>4. /\ Begin \in Index /\ Begin < iter.end /\ iter.end <= MaxLen /\ iter.end \in Nat
      /\ iter.wrap_limit \in Nat /\ iter.wrap_limit <= Begin /\ iter.i \in Nat
      /\ iter.wrap_limit > 0 => iter.end = MaxLen
      /\ count \in Nat /\ Len(iter.opened) = iter.end + iter.wrap_limit - Begin
  BY <1>1 DEF IterType, IterPlace, Begin
<1>5. /\ place \in Index
      /\ count < Len(iter.opened)
      /\ place = At(Begin, count)
      /\ at = "first" => place + 1 \in Begin .. iter.end /\ count + 1 = (place + 1) - Begin
      /\ at = "second" => /\ place + 1 \in 1 .. iter.wrap_limit
                          /\ count + 1 = MaxLen - Begin + (place + 1)
  <2>1. CASE iter.at = "first" /\ iter.i < iter.end
    <3>1. iter.i \in Begin .. iter.end /\ count = iter.i - Begin
      BY <1>1, <2>1 DEF IterPlace
    <3>2. place = iter.i /\ at = "first"
      BY <2>1
    <3> HIDE DEF count, place, at
    <3>3. /\ iter.i \in Index /\ count < iter.end + iter.wrap_limit - Begin
          /\ iter.i = At(Begin, count)
          /\ iter.i + 1 \in Begin .. iter.end /\ count + 1 = (iter.i + 1) - Begin
      <4>1. iter.i \in Nat /\ count \in Nat /\ Begin \in Index
        BY <1>4
      <4>2. iter.end \in Nat /\ iter.wrap_limit \in Nat /\ Begin < iter.end
        BY <1>4
      <4>3. iter.end <= MaxLen /\ iter.wrap_limit <= Begin
        BY <1>4
      <4>4. iter.wrap_limit > 0 => iter.end = MaxLen
        BY <1>4
      <4>5. iter.i \in Begin .. iter.end /\ iter.i < iter.end /\ count = iter.i - Begin
        BY <2>1, <3>1
      <4> QED BY <4>1, <4>2, <4>3, <4>4, <4>5, Places, SMTT(30)
    <3> QED BY <1>4, <3>2, <3>3
  <2>2. CASE iter.at = "first" /\ iter.i = iter.end /\ iter.wrap_limit > 0
    <3>1. iter.i \in Begin .. iter.end /\ count = iter.i - Begin
      BY <1>1, <2>2 DEF IterPlace
    <3>2. place = 0 /\ at = "second"
      BY <1>4, <2>2
    <3> HIDE DEF count, place, at
    <3> QED BY <1>4, <2>2, <3>1, <3>2, Places
  <2>3. CASE iter.at = "second" /\ iter.i < iter.wrap_limit
    <3>1. iter.i \in 1 .. iter.wrap_limit /\ count = MaxLen - Begin + iter.i
      BY <1>1, <2>3 DEF IterPlace
    <3>2. place = iter.i /\ at = "second"
      BY <2>3
    <3> HIDE DEF count, place, at
    <3>3. /\ iter.i \in Index /\ count < iter.end + iter.wrap_limit - Begin
          /\ iter.i = At(Begin, count)
          /\ iter.i + 1 \in 1 .. iter.wrap_limit
          /\ count + 1 = MaxLen - Begin + (iter.i + 1)
      <4>1. iter.i \in Nat /\ count \in Nat /\ Begin \in Index
        BY <1>4
      <4>2. iter.end \in Nat /\ iter.wrap_limit \in Nat /\ Begin < iter.end
        BY <1>4
      <4>3. iter.end <= MaxLen /\ iter.wrap_limit <= Begin
        BY <1>4
      <4>4. iter.wrap_limit > 0 => iter.end = MaxLen
        BY <1>4
      <4>5. iter.i \in 1 .. iter.wrap_limit /\ iter.i < iter.wrap_limit
            /\ count = MaxLen - Begin + iter.i
        BY <2>3, <3>1
      <4> QED BY <4>1, <4>2, <4>3, <4>4, <4>5, Places, SMTT(30)
    <3> QED BY <1>4, <3>2, <3>3
  <2> QED BY <2>1, <2>2, <2>3 DEF IterNext
<1>6. at \in {"first", "second"}
  OBVIOUS
<1>7. /\ iter'.at = at /\ iter'.i = place + 1 /\ iter'.out = Append(iter.out, buf[place])
      /\ iter'.end = iter.end /\ iter'.wrap_limit = iter.wrap_limit
      /\ iter'.opened = iter.opened /\ iter'.changed = iter.changed
      /\ iter' = [at |-> iter'.at, i |-> iter'.i, end |-> iter'.end,
                  wrap_limit |-> iter'.wrap_limit, out |-> iter'.out,
                  opened |-> iter'.opened, changed |-> iter'.changed]
  <2>1. CASE iter.at = "first" /\ iter.i < iter.end
    <3>1. iter' = [iter EXCEPT !.out = Append(@, buf[iter.i]), !.i = @ + 1]
      BY <1>4, <2>1 DEF IterNext
    <3>2. place = iter.i /\ at = "first"
      BY <2>1
    <3> QED BY <1>1, <2>1, <3>1, <3>2 DEF IterType
  <2>2. CASE iter.at = "first" /\ iter.i = iter.end /\ iter.wrap_limit > 0
    <3>1. iter' = [iter EXCEPT !.at = "second", !.out = Append(@, buf[0]), !.i = 1]
      BY <1>4, <2>2 DEF IterNext
    <3>2. place = 0 /\ at = "second" /\ place + 1 = 1
      BY <1>4, <2>2
    <3> QED BY <1>1, <2>2, <3>1, <3>2 DEF IterType
  <2>3. CASE iter.at = "second" /\ iter.i < iter.wrap_limit
    <3>1. iter' = [iter EXCEPT !.out = Append(@, buf[iter.i]), !.i = @ + 1]
      BY <2>3 DEF IterNext
    <3>2. place = iter.i /\ at = "second"
      BY <2>3
    <3> QED BY <1>1, <2>3, <3>1, <3>2 DEF IterType
  <2> QED BY <2>1, <2>2, <2>3 DEF IterNext
<1> HIDE DEF place, at
<1>8. /\ buf[place] \in Item /\ iter.out \in Seq(Item)
      /\ Append(iter.out, buf[place]) \in Seq(Item)
      /\ Len(Append(iter.out, buf[place])) = count + 1
      /\ \A k \in 1 .. count : Append(iter.out, buf[place])[k] = iter.out[k]
      /\ Append(iter.out, buf[place])[count + 1] = buf[place]
  BY <1>1, <1>2, <1>5 DEF IterType
<1>9. IterType'
  <2>1. place + 1 \in Nat
    BY <1>5, MaxLenAssumption DEF Index
  <2>2. /\ iter'.at \in {"none", "first", "second"} /\ iter'.i \in Nat /\ iter'.end \in Nat
        /\ iter'.wrap_limit \in Nat /\ iter'.out \in Seq(Item)
        /\ iter'.opened \in Seq(Item) /\ iter'.changed \in BOOLEAN
    BY <1>1, <1>6, <1>7, <1>8, <2>1 DEF IterType
  <2> QED BY <1>7, <2>2 DEF IterType
<1>10. Begin' = Begin
  BY <1>7 DEF Begin
<1>11. IterPlace'
  BY <1>4, <1>5, <1>7, <1>8, <1>10 DEF IterPlace
<1>12. IterItems'
  <2> SUFFICES ASSUME ~iter.changed
               PROVE  /\ iter.opened = Window /\ Begin = StartPos
                      /\ \A k \in 1 .. count + 1 : iter'.out[k] = Window[k]
    BY <1>2, <1>7, <1>8, <1>10 DEF IterItems
  <2>1. /\ iter.opened = Window /\ Begin = StartPos
        /\ \A k \in 1 .. count : iter.out[k] = Window[k]
    BY <1>1 DEF IterItems
  <2>2. count + 1 \in 1 .. size /\ (count + 1) - 1 = count
    BY <1>2, <1>4, <1>5, <2>1
  <2>3. Window[count + 1] = buf[place]
    BY <1>5, <2>1, <2>2, WindowAt DEF StartPos
  <2> HIDE DEF count
  <2>4. count \in Nat
    BY <1>4
  <2> QED BY <1>7, <1>8, <2>1, <2>3, <2>4
<1> QED BY <1>6, <1>7, <1>9, <1>11, <1>12 DEF IterInv

\* Writes of the owner leave the iteration its place.
LEMMA WritesKeep ==
  ASSUME IterInv, OwnerWrites
  PROVE  IterInv'
<1>1. CASE iter.at = "none"
  BY <1>1 DEF OwnerWrites, IterInv, IterType, Idle
<1>2. CASE iter.at # "none"
  <2> DEFINE new == iter.changed \/ ringVars' # ringVars
  <2>1. iter' = [iter EXCEPT !.changed = new] /\ new \in BOOLEAN
    BY <1>2 DEF OwnerWrites
  <2>2. IterType /\ IterPlace /\ IterItems
    BY <1>2 DEF IterInv
  <2>3. /\ iter'.at = iter.at /\ iter'.i = iter.i /\ iter'.out = iter.out
        /\ iter'.end = iter.end /\ iter'.wrap_limit = iter.wrap_limit
        /\ iter'.opened = iter.opened /\ iter'.changed = new
    BY <2>1, <2>2 DEF IterType
  <2>4. IterType'
    BY <2>1, <2>2 DEF IterType
  <2>5. IterPlace' /\ Begin' = Begin
    BY <2>2, <2>3 DEF IterPlace, Begin
  <2>6. IterItems'
    <3> SUFFICES ASSUME ~new
                 PROVE  IterItems'
      BY <2>3 DEF IterItems
    <3>1. UNCHANGED <<buf, write_head, size>> /\ ~iter.changed
      BY DEF ringVars
    <3>2. Window' = Window /\ StartPos' = StartPos
      BY <3>1 DEF StartPos, Window, Oldest
    <3> QED BY <2>2, <2>3, <2>5, <3>1, <3>2 DEF IterItems
  <2> QED BY <1>2, <2>3, <2>4, <2>5, <2>6 DEF IterInv
<1> QED BY <1>1, <1>2

LEMMA IterStep ==
  ASSUME TypeOK, IterInv, [ViewNext]_viewVars
  PROVE  IterInv'
<1>1. ASSUME UNCHANGED <<buf, write_head, size, iter>>
      PROVE  IterInv'
  <2>1. Window' = Window /\ StartPos' = StartPos
    BY <1>1 DEF StartPos, Window, Oldest
  <2> QED BY <1>1, <2>1 DEF IterInv, IterType, IterPlace, IterItems, Begin
<1>2. CASE OwnerWrites
  BY <1>2, WritesKeep
<1>3. CASE IterOpen
  BY <1>3, OpenKeeps
<1>4. CASE IterNext
  BY <1>4, NextKeeps
<1>5. CASE IterStop
  BY <1>5 DEF IterStop, IterInv, IterType, Idle
<1>6. ASSUME NEW s \in KeptSlices, TakeSlice(s)
      PROVE  IterInv'
  BY <1>1, <1>6 DEF TakeSlice
<1>7. CASE UNCHANGED viewVars
  BY <1>1, <1>7 DEF viewVars
<1> QED BY <1>2, <1>3, <1>4, <1>5, <1>6, <1>7 DEF ViewNext

LEMMA PlaceIsInOrder ==
  ASSUME IterInv
  PROVE  IterationInOrder
<1> SUFFICES ASSUME iter.at # "none"
             PROVE  /\ iter.end <= MaxLen /\ iter.i <= MaxLen /\ iter.wrap_limit < MaxLen
                    /\ Len(iter.out) <= Len(iter.opened)
                    /\ IterEnds => Len(iter.out) = Len(iter.opened)
                    /\ ~iter.changed => iter.out = SubSeq(iter.opened, 1, Len(iter.out))
  BY DEF IterationInOrder
<1>1. IterType /\ IterPlace /\ IterItems /\ iter.at \in {"first", "second"}
  BY DEF IterInv, IterType
<1> DEFINE count == Len(iter.out)
           total == Len(iter.opened)
<1>2. /\ Begin \in Index /\ Begin < iter.end /\ iter.end <= MaxLen /\ iter.end \in Nat
      /\ iter.wrap_limit \in Nat /\ iter.wrap_limit <= Begin /\ iter.i \in Nat
      /\ iter.wrap_limit > 0 => iter.end = MaxLen
      /\ count \in Nat /\ total \in Nat /\ total = iter.end + iter.wrap_limit - Begin
  BY <1>1 DEF IterType, IterPlace, Begin
<1>3. ASSUME iter.at = "first"
      PROVE  /\ iter.i <= MaxLen /\ iter.wrap_limit < MaxLen /\ count <= total
             /\ IterEnds => count = total
  <2>1. iter.i \in Begin .. iter.end /\ count = iter.i - Begin
    BY <1>1, <1>3 DEF IterPlace
  <2>2. IterEnds => iter.i = iter.end /\ iter.wrap_limit = 0
    BY <1>3 DEF IterEnds
  <2> HIDE DEF count, total
  <2>3. /\ iter.i <= MaxLen /\ iter.wrap_limit < MaxLen /\ count <= total
        /\ IterEnds => count = total
    BY <1>2, <2>1, <2>2, MaxLenAssumption DEF Index
  <2> QED BY <1>2, <2>3 DEF count, total
<1>4. ASSUME iter.at = "second"
      PROVE  /\ iter.i <= MaxLen /\ iter.wrap_limit < MaxLen /\ count <= total
             /\ IterEnds => count = total
  <2>1. iter.i \in 1 .. iter.wrap_limit /\ count = MaxLen - Begin + iter.i
    BY <1>1, <1>4 DEF IterPlace
  <2>2. IterEnds => iter.i = iter.wrap_limit
    BY <1>4 DEF IterEnds
  <2> HIDE DEF count, total
  <2>3. /\ iter.i <= MaxLen /\ iter.wrap_limit < MaxLen /\ count <= total
        /\ IterEnds => count = total
    BY <1>2, <2>1, <2>2, MaxLenAssumption DEF Index
  <2> QED BY <1>2, <2>3 DEF count, total
<1>5. ASSUME ~iter.changed, count <= total
      PROVE  iter.out = SubSeq(iter.opened, 1, count)
  <2> DEFINE s == SubSeq(iter.opened, 1, count)
  <2>1. iter.out \in Seq(Item) /\ iter.opened \in Seq(Item)
    BY <1>1 DEF IterType
  <2>2. /\ s \in Seq(Item) /\ Len(s) = count
        /\ \A k \in 1 .. count : s[k] = iter.opened[k]
    BY <1>2, <1>5, <2>1
  <2>3. \A k \in 1 .. count : iter.out[k] = iter.opened[k]
    BY <1>1, <1>5 DEF IterItems
  <2> HIDE DEF s
  <2>4. iter.out = s
    BY <2>1, <2>2, <2>3, SameItems
  <2> QED BY <2>4 DEF s
<1> QED BY <1>1, <1>2, <1>3, <1>4, <1>5

\* However the owner writes between two steps of an iteration, it stays inside the array
\* and yields as many items as there were when it began; and those, when nothing was
\* written.
THEOREM ViewIterates == ViewSpec => []IterationInOrder
<1>1. ViewInit => IterInv
  BY IterInit
<1>2. TypeOK /\ IterInv /\ [ViewNext]_viewVars => IterInv'
  BY IterStep
<1>3. IterInv => IterationInOrder
  BY PlaceIsInOrder
<1> QED BY <1>1, <1>2, <1>3, ViewType, PTL DEF ViewSpec
-------------------------------------------------------------------------------
(* Slices.                                                                 *)

\* With a negative factor the smaller one makes the larger product.
LEMMA SmallerProduct ==
  ASSUME NEW a \in Int, NEW b \in Int, NEW c \in Int, c < 0, a <= b
  PROVE  b * c <= a * c
<1> DEFINE d == -c
<1>1. d \in Nat /\ a * c = -(a * d) /\ b * c = -(b * d)
  BY SMT
<1>2. a * d \in Int /\ b * d \in Int
  BY <1>1
<1> HIDE DEF d
<1>3. a * d <= b * d
  BY <1>1, LargerProduct
<1> QED BY <1>1, <1>2, <1>3

\* One step more.
LEMMA OneStep ==
  ASSUME NEW n \in Int, NEW c \in Int
  PROVE  (n - 1) * c = n * c - c /\ n * c \in Int /\ (n - 1) * c \in Int
  BY SMT

\* How many steps it takes to reach a distance.
LEMMA StepsToReach ==
  ASSUME NEW d \in Nat \ {0}, NEW c \in Nat \ {0}
  PROVE  LET n == (d + c - 1) \div c
         IN  n \in Nat \ {0} /\ (n - 1) * c < d /\ n * c >= d
<1> DEFINE n == (d + c - 1) \div c
<1>1. n \in Nat /\ c * n <= d + c - 1 /\ d + c - 1 < c * n + c
  BY SMT
<1> HIDE DEF n
<1>2. n # 0
  BY <1>1
<1>3. c * n = n * c /\ (n - 1) * c = n * c - c /\ n * c \in Int
  BY <1>1
<1> QED BY <1>1, <1>2, <1>3 DEF n

\* A number that is a Py_ssize_t is assigned as it is.
LEMMA SsizeStays ==
  ASSUME NEW x \in Int, -MaxSsize - 1 <= x, x <= MaxSsize
  PROVE  Ssize(x) = x
<1> DEFINE y == x + MaxSsize + 1
           w == 2 * MaxSsize + 2
<1>1. MaxSsize \in Nat
  BY SlicesAssumption
<1>2. y \in Nat /\ w \in Nat \ {0} /\ y < w
  BY <1>1
<1>3. y % w = y
  <2> HIDE DEF y, w
  <2> QED BY <1>2
<1> QED BY <1>1, <1>3 DEF Ssize

\* C divides numbers of one sign as their magnitudes.
LEMMA CDivUp ==
  ASSUME NEW x \in Nat, NEW y \in Nat \ {0}
  PROVE  CDiv(x, y) = x \div y
  BY DEF CDiv, Magnitude

LEMMA CDivDown ==
  ASSUME NEW x \in Int, x < 0, NEW y \in Int, y < 0
  PROVE  CDiv(x, y) = (-x) \div (-y)
  BY DEF CDiv, Magnitude

\* slice.indices, for a step that goes up: both bounds lie between 0 and the length.
LEMMA ResolveUp ==
  ASSUME NEW s, s.step \in Nat \ {0}, s.start \in Int \cup {None}, s.stop \in Int \cup {None},
         NEW len \in Nat
  PROVE  /\ Resolve(s, len) = [start |-> Resolve(s, len).start, stop |-> Resolve(s, len).stop]
         /\ Resolve(s, len).start \in 0 .. len /\ Resolve(s, len).stop \in 0 .. len
<1> DEFINE clamp(x) == LET y == IF x < 0 THEN x + len ELSE x
                       IN IF y < 0 THEN 0 ELSE IF y > len THEN len ELSE y
<1>1. s.step > 0
  OBVIOUS
<1>2. \A x \in Int : clamp(x) \in 0 .. len
  OBVIOUS
<1> HIDE DEF clamp
<1>3. Resolve(s, len) = [start |-> IF s.start # None THEN clamp(s.start) ELSE 0,
                         stop  |-> IF s.stop # None THEN clamp(s.stop) ELSE len]
  BY <1>1 DEF Resolve, clamp
<1> QED BY <1>2, <1>3

\* For a step that goes down, between -1 and the last position.
LEMMA ResolveDown ==
  ASSUME NEW s, s.step \in Int, s.step < 0,
         s.start \in Int \cup {None}, s.stop \in Int \cup {None}, NEW len \in Nat
  PROVE  /\ Resolve(s, len) = [start |-> Resolve(s, len).start, stop |-> Resolve(s, len).stop]
         /\ Resolve(s, len).start \in -1 .. len - 1 /\ Resolve(s, len).stop \in -1 .. len - 1
<1> DEFINE clamp(x) == LET y == IF x < 0 THEN x + len ELSE x
                       IN IF y < -1 THEN -1 ELSE IF y > len - 1 THEN len - 1 ELSE y
<1>1. ~(s.step > 0)
  OBVIOUS
<1>2. \A x \in Int : clamp(x) \in -1 .. len - 1
  OBVIOUS
<1> HIDE DEF clamp
<1>3. Resolve(s, len) = [start |-> IF s.start # None THEN clamp(s.start) ELSE len - 1,
                         stop  |-> IF s.stop # None THEN clamp(s.stop) ELSE -1]
  BY <1>1 DEF Resolve, clamp
<1> QED BY <1>2, <1>3

\* n places from a on, step apart.
Stride(a, n, step) == [j \in 1 .. n |-> a + (j - 1) * step]

\* A slice selects as many positions as it takes steps from its start to its stop: n,
\* when n - 1 steps from a stay before b and n do not.
LEMMA SelectUp ==
  ASSUME NEW s, NEW len \in Nat, s.step \in Nat \ {0},
         NEW a \in 0 .. len, NEW b \in 0 .. len,
         Resolve(s, len) = [start |-> a, stop |-> b],
         NEW n \in Nat, n = 0 \/ a + (n - 1) * s.step < b, a + n * s.step >= b
  PROVE  Selected(s, len) = Stride(a, n, s.step)
<1> DEFINE step == s.step
           steps == {j \in 0 .. len - 1 : a + j * step < b}
<1>0. step \in Nat \ {0} /\ step \in Nat /\ a \in Int /\ b \in Int
  OBVIOUS
<1>1. Selected(s, len) = Stride(a, Cardinality(steps), step)
  <2> DEFINE r == Resolve(s, len)
  <2>1. Selected(s, len) =
          Stride(r.start, Cardinality({j \in 0 .. len - 1 : r.start + j * s.step < r.stop}), s.step)
    <3>1. s.step > 0
      OBVIOUS
    <3> HIDE DEF step, steps
    <3> QED BY <3>1 DEF Selected, Stride
  <2>2. r.start = a /\ r.stop = b
    OBVIOUS
  <2> HIDE DEF r
  <2> QED BY <2>1, <2>2
<1> HIDE DEF step
<1>2. n <= len
  <2>1. CASE n # 0
    <3>1. a + (n - 1) * step < b
      BY <2>1 DEF step
    <3>2. (n - 1) * 1 <= (n - 1) * step
      <4>1. n - 1 \in Nat /\ 1 <= step /\ 1 \in Int /\ step \in Int
        BY <1>0, <2>1
      <4>2. 1 * (n - 1) <= step * (n - 1)
        BY <4>1, LargerProduct
      <4> QED BY <1>0, <4>2
    <3>3. (n - 1) * step \in Int
      BY <1>0
    <3> QED BY <1>0, <3>1, <3>2, <3>3
  <2> QED BY <2>1
<1>3. ASSUME NEW j \in 0 .. len - 1
      PROVE  a + j * step < b <=> j <= n - 1
  <2>1. j * step \in Int /\ n * step \in Int /\ (n - 1) * step \in Int
    BY <1>0
  <2>2. CASE j <= n - 1
    <3>1. j * step <= (n - 1) * step
      BY <1>0, <2>2, LargerProduct
    <3>2. a + (n - 1) * step < b
      BY <2>2 DEF step
    <3> QED BY <1>0, <2>1, <2>2, <3>1, <3>2
  <2>3. CASE ~(j <= n - 1)
    <3>1. n * step <= j * step
      BY <1>0, <2>3, LargerProduct
    <3>2. a + n * step >= b
      BY DEF step
    <3> QED BY <1>0, <2>1, <2>3, <3>1, <3>2
  <2> QED BY <2>2, <2>3
<1>4. steps = 0 .. n - 1
  BY <1>2, <1>3
<1>5. Cardinality(0 .. n - 1) = n
  <2>1. 0 \in Int /\ n - 1 \in Int
    OBVIOUS
  <2>2. Cardinality(0 .. n - 1) = IF 0 > n - 1 THEN 0 ELSE (n - 1) - 0 + 1
    BY <2>1, FS_Interval
  <2> QED BY <2>2
<1> QED BY <1>1, <1>4, <1>5 DEF step

\* The same, going down.
LEMMA SelectDown ==
  ASSUME NEW s, NEW len \in Nat, s.step \in Int, s.step < 0,
         NEW a \in -1 .. len - 1, NEW b \in -1 .. len - 1,
         Resolve(s, len) = [start |-> a, stop |-> b],
         NEW n \in Nat, n = 0 \/ a + (n - 1) * s.step > b, a + n * s.step <= b
  PROVE  Selected(s, len) = Stride(a, n, s.step)
<1> DEFINE step == s.step
           down == -step
           steps == {j \in 0 .. len - 1 : a + j * step > b}
<1>0. step \in Int /\ step < 0 /\ down \in Nat \ {0} /\ down \in Nat /\ a \in Int /\ b \in Int
  OBVIOUS
<1>1. Selected(s, len) = Stride(a, Cardinality(steps), step)
  <2> DEFINE r == Resolve(s, len)
  <2>1. ~(s.step > 0)
    OBVIOUS
  <2>2. Selected(s, len) =
          Stride(r.start, Cardinality({j \in 0 .. len - 1 : r.start + j * s.step > r.stop}), s.step)
    BY <2>1 DEF Selected, Stride
  <2>3. r.start = a /\ r.stop = b
    OBVIOUS
  <2> HIDE DEF r
  <2> QED BY <2>2, <2>3
<1> HIDE DEF step
<1>2. \A k \in Int : k * step = -(k * down) /\ k * step \in Int /\ k * down \in Int
  BY <1>0
<1>3. n <= len
  <2>1. CASE n # 0
    <3>1. a + (n - 1) * step > b
      BY <2>1 DEF step
    <3>2. 1 * (n - 1) <= down * (n - 1)
      <4>1. n - 1 \in Nat /\ 1 <= down /\ 1 \in Int /\ down \in Int
        BY <1>0, <2>1
      <4> HIDE DEF down
      <4> QED BY <4>1, LargerProduct
    <3>3. n - 1 <= (n - 1) * down /\ n - 1 \in Int
      BY <1>0, <3>2
    <3>4. (n - 1) * step = -((n - 1) * down) /\ (n - 1) * step \in Int /\ (n - 1) * down \in Int
      BY <1>2
    <3> HIDE DEF down
    <3> QED BY <1>0, <3>1, <3>3, <3>4
  <2> QED BY <2>1
<1>4. ASSUME NEW j \in 0 .. len - 1
      PROVE  a + j * step > b <=> j <= n - 1
  <2>1. /\ j * step = -(j * down) /\ j * step \in Int /\ j * down \in Int
        /\ n * step = -(n * down) /\ n * step \in Int /\ n * down \in Int
        /\ (n - 1) * step = -((n - 1) * down)
        /\ (n - 1) * step \in Int /\ (n - 1) * down \in Int
    BY <1>2
  <2>2. CASE j <= n - 1
    <3>1. j * down <= (n - 1) * down
      <4> HIDE DEF down
      <4> QED BY <1>0, <2>2, LargerProduct
    <3>2. a + (n - 1) * step > b
      BY <2>2 DEF step
    <3> HIDE DEF down
    <3> QED BY <1>0, <2>1, <2>2, <3>1, <3>2
  <2>3. CASE ~(j <= n - 1)
    <3>1. n * down <= j * down
      <4> HIDE DEF down
      <4> QED BY <1>0, <2>3, LargerProduct
    <3>2. a + n * step <= b
      BY DEF step
    <3> HIDE DEF down
    <3> QED BY <1>0, <2>1, <2>3, <3>1, <3>2
  <2> QED BY <2>2, <2>3
<1>5. steps = 0 .. n - 1
  BY <1>3, <1>4
<1>6. Cardinality(0 .. n - 1) = n
  <2>1. 0 \in Int /\ n - 1 \in Int
    OBVIOUS
  <2>2. Cardinality(0 .. n - 1) = IF 0 > n - 1 THEN 0 ELSE (n - 1) - 0 + 1
    BY <2>1, FS_Interval
  <2> QED BY <2>2
<1> QED BY <1>1, <1>5, <1>6 DEF step

\* Stride as a sequence.
LEMMA StrideType ==
  ASSUME NEW a \in Int, NEW n \in Nat, NEW step \in Int
  PROVE  /\ Stride(a, n, step) \in Seq(Int) /\ Len(Stride(a, n, step)) = n
         /\ \A k \in 1 .. n : Stride(a, n, step)[k] = a + (k - 1) * step
<1>1. Stride(a, n, step) \in [1 .. n -> Int]
  BY DEF Stride
<1> QED BY <1>1 DEF Stride

\* The cells of a piece that goes up: it ends before stop and before the array ends.
LEMMA CellsUp ==
  ASSUME NEW i \in Index, NEW stop \in Nat, NEW step \in Nat \ {0}, NEW n \in Nat \ {0},
         i + (n - 1) * step < stop, i + (n - 1) * step < MaxLen,
         i + n * step >= stop \/ i + n * step >= MaxLen
  PROVE  Cells(i, stop, step) = Stride(i, n, step)
<1> DEFINE s == [start |-> i, stop |-> stop, step |-> step]
           b == IF stop > MaxLen THEN MaxLen ELSE stop
<1>1. i # None /\ stop # None /\ step > 0 /\ i \in Nat /\ i <= MaxLen /\ MaxLen \in Nat
  BY NoneAssumption, MaxLenAssumption DEF Index
<1>2. Resolve(s, MaxLen) = [start |-> i, stop |-> b]
  BY <1>1 DEF Resolve
<1>3. i \in 0 .. MaxLen /\ b \in 0 .. MaxLen
  BY <1>1
<1>4. (n - 1) * step \in Int /\ n * step \in Int
  OBVIOUS
<1>5. i + (n - 1) * step < b /\ i + n * step >= b
  BY <1>1, <1>4
<1> HIDE DEF b
<1>6. s.step = step
  OBVIOUS
<1> HIDE DEF s
<1>7. Selected(s, MaxLen) = Stride(i, n, step)
  BY <1>1, <1>2, <1>3, <1>5, <1>6, SelectUp
<1> QED BY <1>7 DEF Cells, s

\* The cells of a piece that goes down: its end, if it lies before the array, is None.
LEMMA CellsDown ==
  ASSUME NEW i \in Index, NEW stop \in Int, stop < MaxLen, NEW step \in Int, step < 0,
         NEW n \in Nat \ {0},
         i + (n - 1) * step > stop, i + (n - 1) * step >= 0,
         i + n * step <= stop \/ i + n * step < 0
  PROVE  Cells(i, IF stop < 0 THEN None ELSE stop, step) = Stride(i, n, step)
<1> DEFINE s == [start |-> i, stop |-> IF stop < 0 THEN None ELSE stop, step |-> step]
           b == IF stop < 0 THEN -1 ELSE stop
<1>1. /\ i # None /\ stop # None /\ ~(step > 0) /\ i \in Nat /\ i <= MaxLen - 1
      /\ MaxLen \in Nat
  BY NoneAssumption, MaxLenAssumption DEF Index
<1>2. Resolve(s, MaxLen) = [start |-> i, stop |-> b]
  BY <1>1 DEF Resolve
<1>3. i \in -1 .. MaxLen - 1 /\ b \in -1 .. MaxLen - 1
  BY <1>1
<1>4. (n - 1) * step \in Int /\ n * step \in Int
  OBVIOUS
<1>5. i + (n - 1) * step > b /\ i + n * step <= b
  BY <1>1, <1>4
<1> HIDE DEF b
<1>6. s.step = step
  OBVIOUS
<1> HIDE DEF s
<1>7. Selected(s, MaxLen) = Stride(i, n, step)
  BY <1>1, <1>2, <1>3, <1>5, <1>6, SelectDown
<1> QED BY <1>7 DEF Cells, s

\* Where the n items from position a on, step apart, lie in a ring that starts at start.
InRing(cells, start, a, n, step) ==
  /\ cells \in Seq(Int) /\ Len(cells) = n
  /\ \A k \in 1 .. n : cells[k] = At(start, a + (k - 1) * step)

\* n1 places from a on, step apart, and n2 more from b on.
Joined(c, a, n1, b, n2, step) ==
  /\ c \in Seq(Int) /\ Len(c) = n1 + n2
  /\ \A k \in 1 .. n1 + n2 :
       c[k] = IF k <= n1 THEN a + (k - 1) * step ELSE b + (k - n1 - 1) * step

\* The second of two pieces goes on at a place of its own.
LEMMA TwoStrides ==
  ASSUME NEW a \in Int, NEW b \in Int, NEW n1 \in Nat, NEW n2 \in Nat, NEW step \in Int
  PROVE  Joined(Stride(a, n1, step) \o Stride(b, n2, step), a, n1, b, n2, step)
<1> DEFINE s == Stride(a, n1, step)
           t == Stride(b, n2, step)
<1>1. /\ s \in Seq(Int) /\ Len(s) = n1
      /\ \A k \in 1 .. n1 : s[k] = a + (k - 1) * step
  BY StrideType
<1>2. /\ t \in Seq(Int) /\ Len(t) = n2
      /\ \A k \in 1 .. n2 : t[k] = b + (k - 1) * step
  BY StrideType
<1> HIDE DEF s, t
<1>3. /\ s \o t \in Seq(Int) /\ Len(s \o t) = n1 + n2
      /\ \A k \in 1 .. n1 + n2 : (s \o t)[k] = IF k <= n1 THEN s[k] ELSE t[k - n1]
  BY <1>1, <1>2, TwoPieces, ZenonT(60)
<1>4. ASSUME NEW k \in 1 .. n1 + n2
      PROVE  (s \o t)[k] = IF k <= n1 THEN a + (k - 1) * step ELSE b + (k - n1 - 1) * step
  <2>1. CASE k <= n1
    <3>1. k \in 1 .. n1
      BY <2>1
    <3> QED BY <1>1, <1>3, <2>1, <3>1
  <2>2. CASE ~(k <= n1)
    <3> DEFINE l == k - n1
    <3>1. l \in 1 .. n2
      BY <2>2
    <3>2. (s \o t)[k] = t[l]
      BY <1>3, <2>2
    <3>3. t[l] = b + (l - 1) * step
      BY <1>2, <3>1
    <3> QED BY <2>2, <3>2, <3>3
  <2> QED BY <2>1, <2>2
<1> QED BY <1>3, <1>4 DEF s, t, Joined

\* A slice that goes up, in one piece or in two, takes the cells at n places of the ring
\* that lie step apart.
LEMMA UpFinds ==
  ASSUME NEW start \in Index, NEW a \in Nat, NEW step \in Nat \ {0}, NEW n \in Nat \ {0},
         a + (n - 1) * step < MaxLen, StepFits(step)
  PROVE  InRing(SliceUp(At(start, a), n, step).cells, start, a, n, step)
<1> DEFINE i == At(start, a)
           n1 == (MaxLen - i + step - 1) \div step
           p2 == i + n1 * step - MaxLen
           cells == SliceUp(i, n, step).cells
<1>1. /\ (n - 1) * step \in Nat /\ n * step \in Nat /\ n * step = (n - 1) * step + step
      /\ a \in 0 .. MaxLen - 1
  <2>1. (n - 1) * step \in Int /\ n * step \in Int /\ n * step = (n - 1) * step + step
    BY OneStep
  <2>2. 0 * step <= (n - 1) * step /\ 0 * step = 0
    BY LargerProduct
  <2> QED BY <2>1, <2>2, MaxLenAssumption
<1>2. i \in Index /\ i \in Nat /\ i < MaxLen
  BY <1>1, AtType, MaxLenAssumption DEF Index
<1>3. i = IF start + a < MaxLen THEN start + a ELSE start + a - MaxLen
  BY DEF At
<1>4. /\ MaxLen + step <= MaxSsize /\ 2 * MaxLen <= MaxSsize
      /\ MaxSsize \in Nat /\ MaxLen \in Nat \ {0} /\ step \in Nat \ {0}
  BY SlicesAssumption, MaxLenAssumption DEF StepFits, Magnitude
<1>5. ASSUME NEW k \in 1 .. n
      PROVE  (k - 1) * step \in Nat /\ (k - 1) * step <= (n - 1) * step
  <2>1. (k - 1) * step <= (n - 1) * step /\ 0 * step <= (k - 1) * step /\ 0 * step = 0
    BY LargerProduct
  <2>2. (k - 1) * step \in Int
    OBVIOUS
  <2> QED BY <2>1, <2>2
<1>6. CASE i + (n - 1) * step < MaxLen
  <2>1. Cells(i, i + n * step, step) = Stride(i, n, step)
    <3> DEFINE stop == i + n * step
    <3>1. stop \in Nat /\ i + (n - 1) * step < stop
      BY <1>1, <1>2
    <3>2. i + n * step >= stop
      BY <1>1, <1>2
    <3> HIDE DEF stop, i
    <3>3. Cells(i, stop, step) = Stride(i, n, step)
      BY <1>2, <1>6, <3>1, <3>2, CellsUp
    <3> QED BY <3>3 DEF stop
  <2>2. cells = Stride(i, n, step)
    <3>1. /\ Ssize(i + (n - 1) * step) = i + (n - 1) * step
          /\ Ssize(i + n * step) = i + n * step
      <4> DEFINE u == i + (n - 1) * step
                 v == i + n * step
      <4>1. /\ u \in Int /\ -MaxSsize - 1 <= u /\ u <= MaxSsize
            /\ v \in Int /\ -MaxSsize - 1 <= v /\ v <= MaxSsize
        <5> HIDE DEF i
        <5> QED BY <1>1, <1>2, <1>4, <1>6
      <4> HIDE DEF u, v
      <4>2. Ssize(u) = u /\ Ssize(v) = v
        BY <4>1, SsizeStays
      <4> QED BY <4>2 DEF u, v
    <3> HIDE DEF i
    <3>2. SliceUp(i, n, step).cells = Cells(i, i + n * step, step)
      BY <1>6, <3>1 DEF SliceUp
    <3> QED BY <2>1, <3>2
  <2>3. /\ cells \in Seq(Int) /\ Len(cells) = n
        /\ \A k \in 1 .. n : cells[k] = i + (k - 1) * step
    <3>1. i \in Int /\ n \in Nat /\ step \in Int
      BY <1>2
    <3> HIDE DEF cells, i
    <3>2. /\ Stride(i, n, step) \in Seq(Int) /\ Len(Stride(i, n, step)) = n
          /\ \A k \in 1 .. n : Stride(i, n, step)[k] = i + (k - 1) * step
      BY <3>1, StrideType, Zenon
    <3> QED BY <2>2, <3>2
  <2> HIDE DEF cells, i
  <2>4. ASSUME NEW k \in 1 .. n
        PROVE  cells[k] = At(start, a + (k - 1) * step)
    <3> DEFINE x == (k - 1) * step
    <3>1. x \in Nat /\ x <= (n - 1) * step /\ cells[k] = i + x
      BY <1>5, <2>3
    <3> HIDE DEF x
    <3>2. At(start, a + x) = i + x
      BY <1>1, <1>2, <1>3, <1>6, <3>1, MaxLenAssumption DEF At, Index
    <3> QED BY <3>1, <3>2 DEF x
  <2> QED BY <2>3, <2>4 DEF InRing, cells, i
<1>7. CASE ~(i + (n - 1) * step < MaxLen)
  <2>1. n1 \in Nat \ {0} /\ (n1 - 1) * step < MaxLen - i /\ n1 * step >= MaxLen - i
    <3>1. MaxLen - i \in Nat \ {0}
      BY <1>2, MaxLenAssumption
    <3> HIDE DEF i
    <3> QED BY <3>1, StepsToReach
  <2>2. (n1 - 1) * step = n1 * step - step /\ n1 * step \in Int /\ (n1 - 1) * step \in Int
    <3> HIDE DEF n1
    <3> QED BY <2>1, OneStep
  <2>3. n1 < n
    <3>1. CASE n1 >= n
      <4>1. (n - 1) * step <= (n1 - 1) * step
        <5> HIDE DEF n1
        <5> QED BY <2>1, <3>1, LargerProduct
      <4> DEFINE u == (n - 1) * step
                 v == (n1 - 1) * step
      <4>2. /\ u \in Int /\ v \in Int /\ u <= v /\ v < MaxLen - i /\ ~(i + u < MaxLen)
        BY <1>1, <1>7, <2>1, <2>2, <4>1
      <4> HIDE DEF n1, i, u, v
      <4> QED BY <1>2, <4>2, MaxLenAssumption
    <3> HIDE DEF n1
    <3> QED BY <2>1, <3>1
  <2> DEFINE n2 == n - n1
             stop2 == p2 + n2 * step
  <2>4. n2 \in Nat \ {0}
    <3> HIDE DEF n1
    <3> QED BY <2>1, <2>3
  <2>5. /\ n2 * step \in Int /\ (n2 - 1) * step \in Int
        /\ n2 * step = n * step - n1 * step /\ n2 * step = (n2 - 1) * step + step
        /\ (n2 - 1) * step >= 0
    <3> HIDE DEF n1
    <3>1. /\ n2 * step \in Int /\ (n2 - 1) * step \in Int
          /\ n2 * step = (n2 - 1) * step + step
      <4> HIDE DEF n2
      <4> QED BY <2>4, OneStep
    <3>2. n2 * step = n * step - n1 * step
      BY <2>1, SMT
    <3>3. 0 * step <= (n2 - 1) * step /\ 0 * step = 0
      <4> HIDE DEF n2
      <4> QED BY <2>4, LargerProduct
    <3> QED BY <3>1, <3>2, <3>3
  <2> HIDE DEF n1
  <2>6. /\ p2 \in Nat /\ p2 + (n2 - 1) * step < MaxLen /\ p2 \in Index
        /\ i = start + a
    <3> HIDE DEF i, n2
    <3> QED BY <1>1, <1>2, <1>3, <1>7, <2>1, <2>2, <2>5, MaxLenAssumption DEF Index
  <2>7. Cells(i, MaxLen, step) = Stride(i, n1, step)
    <3> HIDE DEF i
    <3>1. i + (n1 - 1) * step < MaxLen /\ i + n1 * step >= MaxLen /\ MaxLen \in Nat
      BY <1>2, <2>1, <2>2, MaxLenAssumption
    <3> QED BY <1>2, <2>1, <3>1, CellsUp
  <2>8. Cells(p2, stop2, step) = Stride(p2, n2, step)
    <3> HIDE DEF n2, p2
    <3>1. stop2 \in Nat /\ p2 + (n2 - 1) * step < stop2 /\ p2 + n2 * step >= stop2
      BY <2>5, <2>6
    <3> HIDE DEF stop2
    <3> QED BY <2>4, <2>6, <3>1, CellsUp
  <2>9. cells = Stride(i, n1, step) \o Stride(p2, n2, step)
    <3>1. /\ Ssize(i + (n - 1) * step) = i + (n - 1) * step
          /\ Ssize(MaxLen - i + step - 1) = MaxLen - i + step - 1
          /\ Ssize(p2) = p2 /\ Ssize(stop2) = stop2
      <4> DEFINE u == i + (n - 1) * step
                 v == MaxLen - i + step - 1
      <4>1. /\ u \in Int /\ -MaxSsize - 1 <= u /\ u <= MaxSsize
            /\ v \in Int /\ -MaxSsize - 1 <= v /\ v <= MaxSsize
        <5> HIDE DEF i
        <5> QED BY <1>1, <1>2, <1>3, <1>4, <2>6 DEF Index
      <4>2. /\ p2 \in Int /\ -MaxSsize - 1 <= p2 /\ p2 <= MaxSsize
            /\ stop2 \in Int /\ -MaxSsize - 1 <= stop2 /\ stop2 <= MaxSsize
        <5> HIDE DEF p2, n2
        <5> QED BY <1>4, <2>5, <2>6 DEF Index
      <4> HIDE DEF u, v, p2, stop2
      <4>3. Ssize(u) = u /\ Ssize(v) = v /\ Ssize(p2) = p2 /\ Ssize(stop2) = stop2
        BY <4>1, <4>2, SsizeStays
      <4> QED BY <4>3 DEF u, v
    <3>2. CDiv(MaxLen - i + step - 1, step) = n1
      <4> DEFINE v == MaxLen - i + step - 1
      <4>1. v \in Nat
        <5> HIDE DEF i
        <5> QED BY <1>2, <1>4
      <4> HIDE DEF v, i
      <4>2. CDiv(v, step) = v \div step
        BY <1>4, <4>1, CDivUp
      <4> QED BY <4>2 DEF n1, v
    <3> HIDE DEF i
    <3>3. cells = Cells(i, MaxLen, step) \o Cells(p2, stop2, step)
      BY <1>7, <3>1, <3>2 DEF SliceUp
    <3> QED BY <2>7, <2>8, <3>3
  <2>10. /\ cells \in Seq(Int) /\ Len(cells) = n1 + n2
         /\ \A k \in 1 .. n1 + n2 :
               cells[k] = IF k <= n1 THEN i + (k - 1) * step ELSE p2 + (k - n1 - 1) * step
    <3> HIDE DEF n2, p2, i
    <3>1. i \in Int /\ p2 \in Int /\ n1 \in Nat /\ n2 \in Nat /\ step \in Int
      BY <1>2, <2>1, <2>4, <2>6
    <3> HIDE DEF cells
    <3>2. Joined(Stride(i, n1, step) \o Stride(p2, n2, step), i, n1, p2, n2, step)
      BY <3>1, TwoStrides
    <3> QED BY <2>9, <3>2 DEF Joined
  <2>11. n1 + n2 = n
    BY <2>1
  <2> HIDE DEF cells, i, n2
  <2>12. ASSUME NEW k \in 1 .. n
         PROVE  cells[k] = At(start, a + (k - 1) * step)
    <3> DEFINE x == (k - 1) * step
               y == (k - n1 - 1) * step
    <3>1. x \in Nat /\ x <= (n - 1) * step
      BY <1>5
    <3>2. y = x - n1 * step /\ y \in Int
      BY <2>1, SMT
    <3>3. cells[k] = IF k <= n1 THEN i + x ELSE p2 + y
      BY <2>10, <2>11
    <3>4. k <= n1 => x <= (n1 - 1) * step
      <4> SUFFICES ASSUME k <= n1
                   PROVE  x <= (n1 - 1) * step
        OBVIOUS
      <4>1. k - 1 \in Int /\ n1 - 1 \in Int /\ k - 1 <= n1 - 1 /\ step \in Nat
        BY <2>1
      <4> QED BY <4>1, LargerProduct
    <3>5. ~(k <= n1) => x >= n1 * step
      <4> SUFFICES ASSUME ~(k <= n1)
                   PROVE  n1 * step <= x
        BY <2>2, <3>1
      <4>1. k - 1 \in Int /\ n1 \in Int /\ n1 <= k - 1 /\ step \in Nat
        BY <2>1
      <4> QED BY <4>1, LargerProduct
    <3> HIDE DEF x, y
    <3>6. cells[k] = At(start, a + x)
      BY <1>1, <1>2, <2>1, <2>2, <2>6, <3>1, <3>2, <3>3, <3>4, <3>5, MaxLenAssumption
      DEF At, Index
    <3> QED BY <3>6 DEF x
  <2> QED BY <2>10, <2>11, <2>12 DEF InRing, cells, i
<1> QED BY <1>6, <1>7

\* So does a slice that goes down.
LEMMA DownFinds ==
  ASSUME NEW start \in Index, NEW a \in Nat, a < MaxLen, NEW step \in Int, step < 0,
         NEW n \in Nat \ {0}, a + (n - 1) * step >= 0, StepFits(step)
  PROVE  InRing(SliceDown(At(start, a), n, step).cells, start, a, n, step)
<1> DEFINE i == At(start, a)
           n1 == i \div (-step) + 1
           p2 == i + n1 * step + MaxLen
           cells == SliceDown(i, n, step).cells
           end == i + n * step
<1>1. /\ (n - 1) * step \in Int /\ n * step \in Int /\ (n - 1) * step = n * step - step
      /\ (n - 1) * step <= 0 /\ n * step < 0
  <2>1. (n - 1) * step \in Int /\ n * step \in Int /\ (n - 1) * step = n * step - step
    BY OneStep
  <2>2. (n - 1) * step <= 0 * step /\ 0 * step = 0
    BY SmallerProduct
  <2> QED BY <2>1, <2>2
<1>2. i \in Index /\ i \in Nat /\ i < MaxLen
  BY AtType, MaxLenAssumption DEF Index
<1>3. i = IF start + a < MaxLen THEN start + a ELSE start + a - MaxLen
  BY DEF At
<1>4. /\ MaxLen - step <= MaxSsize /\ 2 * MaxLen <= MaxSsize
      /\ MaxSsize \in Nat /\ MaxLen \in Nat \ {0}
  BY SlicesAssumption, MaxLenAssumption DEF StepFits, Magnitude
<1>5. ASSUME NEW k \in 1 .. n
      PROVE  /\ (k - 1) * step \in Int /\ (k - 1) * step <= 0
             /\ (n - 1) * step <= (k - 1) * step
  <2>1. (n - 1) * step <= (k - 1) * step /\ (k - 1) * step <= 0 * step /\ 0 * step = 0
    BY SmallerProduct
  <2>2. (k - 1) * step \in Int
    OBVIOUS
  <2> QED BY <2>1, <2>2
<1>6. CASE i + (n - 1) * step >= 0
  <2>1. Cells(i, IF end < 0 THEN None ELSE end, step) = Stride(i, n, step)
    <3>1. /\ end \in Int /\ end < MaxLen /\ i + (n - 1) * step > end
          /\ i + n * step <= end
      BY <1>1, <1>2, MaxLenAssumption
    <3> HIDE DEF end, i
    <3> QED BY <1>2, <1>6, <3>1, CellsDown
  <2>2. cells = Stride(i, n, step)
    <3>1. Ssize(i + (n - 1) * step) = i + (n - 1) * step /\ Ssize(end) = end
      <4> DEFINE u == i + (n - 1) * step
      <4>1. /\ u \in Int /\ -MaxSsize - 1 <= u /\ u <= MaxSsize
            /\ end \in Int /\ -MaxSsize - 1 <= end /\ end <= MaxSsize
        <5> HIDE DEF i
        <5> QED BY <1>1, <1>2, <1>4, <1>6
      <4> HIDE DEF u, end
      <4>2. Ssize(u) = u /\ Ssize(end) = end
        BY <4>1, SsizeStays
      <4> QED BY <4>2 DEF u
    <3> HIDE DEF i
    <3>2. SliceDown(i, n, step).cells = Cells(i, IF end < 0 THEN None ELSE end, step)
      BY <1>6, <3>1 DEF SliceDown
    <3> QED BY <2>1, <3>2
  <2>3. /\ cells \in Seq(Int) /\ Len(cells) = n
        /\ \A k \in 1 .. n : cells[k] = i + (k - 1) * step
    <3>1. i \in Int /\ n \in Nat /\ step \in Int
      BY <1>2
    <3> HIDE DEF cells, i
    <3>2. /\ Stride(i, n, step) \in Seq(Int) /\ Len(Stride(i, n, step)) = n
          /\ \A k \in 1 .. n : Stride(i, n, step)[k] = i + (k - 1) * step
      BY <3>1, StrideType, Zenon
    <3> QED BY <2>2, <3>2
  <2> HIDE DEF cells, i
  <2>4. ASSUME NEW k \in 1 .. n
        PROVE  cells[k] = At(start, a + (k - 1) * step)
    <3> DEFINE x == (k - 1) * step
    <3>1. x \in Int /\ x <= 0 /\ (n - 1) * step <= x /\ cells[k] = i + x
      BY <1>5, <2>3
    <3> HIDE DEF x
    <3>2. At(start, a + x) = i + x
      BY <1>1, <1>2, <1>3, <1>6, <3>1, MaxLenAssumption DEF At, Index
    <3> QED BY <3>1, <3>2 DEF x
  <2> QED BY <2>3, <2>4 DEF InRing, cells, i
<1>7. CASE ~(i + (n - 1) * step >= 0)
  <2>1. /\ n1 \in Nat \ {0} /\ (n1 - 1) * step \in Int /\ n1 * step \in Int
        /\ (n1 - 1) * step = n1 * step - step
        /\ i + (n1 - 1) * step >= 0 /\ i + n1 * step < 0
    <3> DEFINE down == -step
               q == i \div down
    <3>1. down \in Nat \ {0}
      OBVIOUS
    <3>2. q \in Nat /\ down * q <= i /\ i < down * q + down
      <4> HIDE DEF down, i
      <4> QED BY <1>2, <3>1
    <3>3. n1 = q + 1 /\ n1 - 1 = q
      BY <3>2
    <3> HIDE DEF n1, q
    <3>4. /\ (n1 - 1) * step \in Int /\ n1 * step \in Int
          /\ (n1 - 1) * step = n1 * step - step
      BY <3>2, <3>3, OneStep
    <3>5. q * step = -(down * q) /\ down * q \in Int
      BY <3>2
    <3> HIDE DEF down, i
    <3>6. (n1 - 1) * step = -(down * q) /\ step = -down
      BY <3>3, <3>5 DEF down
    <3> QED BY <1>2, <3>1, <3>2, <3>3, <3>4, <3>5, <3>6
  <2>2. n1 < n
    <3>1. CASE n1 >= n
      <4>1. (n1 - 1) * step <= (n - 1) * step
        <5> HIDE DEF n1
        <5> QED BY <2>1, <3>1, SmallerProduct
      <4> HIDE DEF n1, i
      <4> QED BY <1>1, <1>2, <1>7, <2>1, <4>1
    <3> HIDE DEF n1
    <3> QED BY <2>1, <3>1
  <2> DEFINE n2 == n - n1
             stop2 == p2 + n2 * step
  <2>3. n2 \in Nat \ {0}
    <3> HIDE DEF n1
    <3> QED BY <2>1, <2>2
  <2>4. /\ n2 * step \in Int /\ (n2 - 1) * step \in Int
        /\ n2 * step = n * step - n1 * step /\ (n2 - 1) * step = n2 * step - step
        /\ (n2 - 1) * step <= 0
    <3> HIDE DEF n1
    <3>1. /\ n2 * step \in Int /\ (n2 - 1) * step \in Int
          /\ (n2 - 1) * step = n2 * step - step
      <4> HIDE DEF n2
      <4> QED BY <2>3, OneStep
    <3>2. n2 * step = n * step - n1 * step
      BY <2>1, SMT
    <3>3. (n2 - 1) * step <= 0 * step /\ 0 * step = 0
      <4> HIDE DEF n2
      <4> QED BY <2>3, SmallerProduct
    <3> QED BY <3>1, <3>2, <3>3
  <2> HIDE DEF n1
  <2>5. i = start + a - MaxLen
    <3> HIDE DEF i
    <3> QED BY <1>1, <1>2, <1>3, <1>7, MaxLenAssumption DEF Index
  <2>6. p2 \in Index /\ p2 \in Int /\ p2 + (n2 - 1) * step >= 0
    <3> HIDE DEF i, n2
    <3> QED BY <1>1, <1>2, <2>1, <2>4, <2>5, MaxLenAssumption DEF Index
  <2>7. Cells(i, None, step) = Stride(i, n1, step)
    <3> HIDE DEF i
    <3>1. /\ -1 \in Int /\ -1 < MaxLen /\ i + (n1 - 1) * step > -1
          /\ i + n1 * step <= -1 /\ -1 < 0
      BY <1>2, <2>1, MaxLenAssumption
    <3>2. Cells(i, IF -1 < 0 THEN None ELSE -1, step) = Stride(i, n1, step)
      BY <1>2, <2>1, <3>1, CellsDown
    <3> QED BY <3>1, <3>2
  <2>8. Cells(p2, IF stop2 < 0 THEN None ELSE stop2, step) = Stride(p2, n2, step)
    <3> HIDE DEF n2, p2
    <3>1. /\ stop2 \in Int /\ stop2 < MaxLen /\ p2 + (n2 - 1) * step > stop2
          /\ p2 + n2 * step <= stop2
      BY <2>4, <2>6, MaxLenAssumption DEF Index
    <3> HIDE DEF stop2
    <3> QED BY <2>3, <2>6, <3>1, CellsDown
  <2>9. cells = Stride(i, n1, step) \o Stride(p2, n2, step)
    <3>1. /\ Ssize(i + (n - 1) * step) = i + (n - 1) * step /\ Ssize(-step) = -step
          /\ Ssize(p2) = p2 /\ Ssize(stop2) = stop2
      <4> DEFINE u == i + (n - 1) * step
                 down == -step
      <4>1. /\ u \in Int /\ -MaxSsize - 1 <= u /\ u <= MaxSsize
            /\ down \in Int /\ -MaxSsize - 1 <= down /\ down <= MaxSsize
        <5> HIDE DEF i
        <5> QED BY <1>1, <1>2, <1>3, <1>4, <2>5 DEF Index
      <4>2. /\ p2 \in Int /\ -MaxSsize - 1 <= p2 /\ p2 <= MaxSsize
            /\ stop2 \in Int /\ -MaxSsize - 1 <= stop2 /\ stop2 <= MaxSsize
        <5> HIDE DEF p2, n2
        <5> QED BY <1>4, <2>4, <2>6 DEF Index
      <4> HIDE DEF u, down, p2, stop2
      <4>3. Ssize(u) = u /\ Ssize(down) = down /\ Ssize(p2) = p2 /\ Ssize(stop2) = stop2
        BY <4>1, <4>2, SsizeStays
      <4> QED BY <4>3 DEF u, down
    <3>2. CDiv(i, -step) = i \div (-step)
      <4> DEFINE down == -step
      <4>1. down \in Nat \ {0}
        OBVIOUS
      <4> HIDE DEF down, i
      <4>2. CDiv(i, down) = i \div down
        BY <1>2, <4>1, CDivUp
      <4> QED BY <4>2 DEF down
    <3>3. CDiv(i, Ssize(-step)) + 1 = n1
      BY <3>1, <3>2 DEF n1
    <3> HIDE DEF i
    <3>4. cells = Cells(i, None, step)
                    \o Cells(p2, IF stop2 < 0 THEN None ELSE stop2, step)
      BY <1>7, <3>1, <3>3 DEF SliceDown
    <3> QED BY <2>7, <2>8, <3>4
  <2>10. /\ cells \in Seq(Int) /\ Len(cells) = n1 + n2
         /\ \A k \in 1 .. n1 + n2 :
               cells[k] = IF k <= n1 THEN i + (k - 1) * step ELSE p2 + (k - n1 - 1) * step
    <3> HIDE DEF n2, p2, i
    <3>1. i \in Int /\ p2 \in Int /\ n1 \in Nat /\ n2 \in Nat /\ step \in Int
      BY <1>2, <2>1, <2>3, <2>6
    <3> HIDE DEF cells
    <3>2. Joined(Stride(i, n1, step) \o Stride(p2, n2, step), i, n1, p2, n2, step)
      BY <3>1, TwoStrides
    <3> QED BY <2>9, <3>2 DEF Joined
  <2>11. n1 + n2 = n
    BY <2>1
  <2> HIDE DEF cells, i, n2
  <2>12. ASSUME NEW k \in 1 .. n
         PROVE  cells[k] = At(start, a + (k - 1) * step)
    <3> DEFINE x == (k - 1) * step
               y == (k - n1 - 1) * step
    <3>1. x \in Int /\ x <= 0 /\ (n - 1) * step <= x
      BY <1>5
    <3>2. y = x - n1 * step /\ y \in Int
      BY <2>1, SMT
    <3>3. cells[k] = IF k <= n1 THEN i + x ELSE p2 + y
      BY <2>10, <2>11
    <3>4. k <= n1 => (n1 - 1) * step <= x
      <4> SUFFICES ASSUME k <= n1
                   PROVE  (n1 - 1) * step <= x
        OBVIOUS
      <4>1. k - 1 \in Int /\ n1 - 1 \in Int /\ k - 1 <= n1 - 1
        BY <2>1
      <4> QED BY <4>1, SmallerProduct
    <3>5. ~(k <= n1) => x <= n1 * step
      <4> SUFFICES ASSUME ~(k <= n1)
                   PROVE  x <= n1 * step
        OBVIOUS
      <4>1. k - 1 \in Int /\ n1 \in Int /\ n1 <= k - 1
        BY <2>1
      <4> QED BY <4>1, SmallerProduct
    <3> HIDE DEF x, y
    <3>6. cells[k] = At(start, a + x)
      BY <1>1, <1>2, <2>1, <2>5, <3>1, <3>2, <3>3, <3>4, <3>5, MaxLenAssumption
      DEF At, Index
    <3> QED BY <3>6 DEF x
  <2> QED BY <2>10, <2>11, <2>12 DEF InRing, cells, i
<1> QED BY <1>6, <1>7

\* The cells hold the items at these positions of the buffer.
Shows(cells, at) == Items(cells) = [k \in 1 .. Len(at) |-> Window[at[k] + 1]]

\* Cells that lie step apart in the ring hold the items of the positions step apart.
LEMMA ItemsInRing ==
  ASSUME TypeOK, NEW cells, NEW a \in Int, NEW n \in Nat, NEW step \in Int,
         InRing(cells, StartPos, a, n, step),
         \A k \in 1 .. n : a + (k - 1) * step \in 0 .. size - 1
  PROVE  Shows(cells, Stride(a, n, step))
<1> DEFINE at == Stride(a, n, step)
<1>1. Len(at) = n /\ \A k \in 1 .. n : at[k] = a + (k - 1) * step
  BY StrideType
<1> HIDE DEF at
<1>2. Len(cells) = n /\ \A k \in 1 .. n : cells[k] = At(StartPos, a + (k - 1) * step)
  BY DEF InRing
<1>3. ASSUME NEW k \in 1 .. n
      PROVE  buf[cells[k]] = Window[at[k] + 1]
  <2>1. at[k] \in 0 .. size - 1 /\ cells[k] = At(StartPos, at[k])
    BY <1>1, <1>2
  <2>2. at[k] + 1 \in 1 .. size /\ (at[k] + 1) - 1 = at[k]
    BY <2>1, MaxLenAssumption DEF TypeOK
  <2> QED BY <2>1, <2>2, WindowAt DEF StartPos
<1> QED BY <1>1, <1>2, <1>3 DEF Items, Shows, at

\* A slice with a positive step finds the items it selects.
LEMMA UpInOrder ==
  ASSUME TypeOK, NEW s \in Slices, s.step > 0, StepFits(s.step)
  PROVE  Shows(GetSlice(s).cells, Selected(s, size))
<1> DEFINE r == Resolve(s, size)
           a == r.start
           b == r.stop
           step == s.step
           n == IF a < b THEN (b - a + step - 1) \div step ELSE 0
           cells == GetSlice(s).cells
<1>1. /\ step \in Nat \ {0} /\ s.start \in Int \cup {None} /\ s.stop \in Int \cup {None}
      /\ size \in Nat /\ size <= MaxLen /\ StartPos \in Index
      /\ MaxLen + step <= MaxSsize /\ MaxSsize \in Nat
  BY SlicesAssumption, StartPosType, MaxLenAssumption
  DEF TypeOK, StartPos, StepFits, Magnitude, PySsize
<1>2. r = [start |-> a, stop |-> b] /\ a \in 0 .. size /\ b \in 0 .. size
  BY <1>1, ResolveUp
<1>3. /\ n \in Nat /\ a + n * step >= b
      /\ n = 0 \/ a + (n - 1) * step < b
      /\ a < b => n # 0
  <2>1. CASE a < b
    <3> DEFINE d == b - a
    <3>1. d \in Nat \ {0}
      BY <1>2, <2>1
    <3> HIDE DEF d, r, step
    <3>2. LET m == (d + step - 1) \div step
          IN  m \in Nat \ {0} /\ (m - 1) * step < d /\ m * step >= d
      BY <1>1, <3>1, StepsToReach
    <3>3. n = (d + step - 1) \div step
      BY <2>1 DEF d
    <3> HIDE DEF n
    <3>4. n \in Nat \ {0} /\ (n - 1) * step < d /\ n * step >= d
      BY <3>2, <3>3
    <3>5. n * step \in Int /\ (n - 1) * step \in Int
      BY <1>1, <3>4, OneStep
    <3> QED BY <1>2, <3>4, <3>5 DEF d
  <2>2. CASE ~(a < b)
    <3>1. n = 0 /\ 0 * step = 0
      BY <1>1, <2>2
    <3> HIDE DEF n, r, step
    <3> QED BY <1>2, <2>2, <3>1
  <2> QED BY <2>1, <2>2
<1>4. Selected(s, size) = Stride(a, n, step)
  <2> HIDE DEF r, n
  <2> QED BY <1>1, <1>2, <1>3, SelectUp DEF r
<1>5. cells = IF a < b THEN SliceUp(At(StartPos, a), n, step).cells ELSE <<>>
  <2>1. GetSlice(s) = IF a >= b THEN [shared |-> FALSE, cells |-> <<>>]
                      ELSE SliceUp(At(StartPos, a), (b - a + step - 1) \div step, step)
    <3> DEFINE i == IF a + StartPos >= MaxLen THEN a + StartPos - MaxLen ELSE a + StartPos
    <3>1. a < b => CDiv(Ssize(b - a + step - 1), step) = (b - a + step - 1) \div step
      <4> DEFINE v == b - a + step - 1
      <4> SUFFICES ASSUME a < b
                   PROVE  CDiv(Ssize(v), step) = v \div step
        OBVIOUS
      <4>1. v \in Nat /\ -MaxSsize - 1 <= v /\ v <= MaxSsize
        <5> HIDE DEF r
        <5> QED BY <1>1, <1>2, MaxLenAssumption
      <4> HIDE DEF v, step, r
      <4>2. Ssize(v) = v
        BY <4>1, SsizeStays
      <4> QED BY <1>1, <4>1, <4>2, CDivUp
    <3>2. a >= b <=> ~(a < b)
      <4> HIDE DEF r
      <4> QED BY <1>1, <1>2
    <3>3. GetSlice(s) = IF a >= b THEN [shared |-> FALSE, cells |-> <<>>]
                        ELSE SliceUp(i, (b - a + step - 1) \div step, step)
      BY <3>1, <3>2 DEF GetSlice
    <3>4. i = At(StartPos, a)
      <4> HIDE DEF r
      <4> QED BY <1>1, <1>2, MaxLenAssumption DEF At, Index
    <3> HIDE DEF i
    <3> QED BY <3>3, <3>4
  <2>2. a >= b <=> ~(a < b)
    <3> HIDE DEF r
    <3> QED BY <1>1, <1>2
  <2> HIDE DEF r, step
  <2> QED BY <2>1, <2>2
<1> HIDE DEF r, n, cells, step
<1>6. ASSUME NEW k \in 1 .. n
      PROVE  a + (k - 1) * step \in 0 .. size - 1
  <2>1. (k - 1) * step <= (n - 1) * step /\ 0 * step <= (k - 1) * step /\ 0 * step = 0
    BY <1>1, <1>3, LargerProduct
  <2>2. (k - 1) * step \in Int /\ (n - 1) * step \in Int
    BY <1>1, <1>3
  <2> QED BY <1>1, <1>2, <1>3, <2>1, <2>2
<1>7. InRing(cells, StartPos, a, n, step)
  <2>1. CASE a < b
    <3>1. a + (n - 1) * step < MaxLen
      <4>1. (n - 1) * step \in Int
        BY <1>1, <1>3
      <4> QED BY <1>1, <1>2, <1>3, <2>1, <4>1, MaxLenAssumption
    <3>2. a \in Nat /\ n \in Nat \ {0} /\ step \in Nat \ {0}
      BY <1>1, <1>2, <1>3, <2>1
    <3> QED BY <1>1, <1>5, <2>1, <3>1, <3>2, UpFinds DEF step
  <2>2. CASE ~(a < b)
    <3>1. n = 0
      BY <2>2 DEF n
    <3> QED BY <1>5, <2>2, <3>1 DEF InRing
  <2> QED BY <2>1, <2>2
<1>8. a \in Int /\ step \in Int /\ n \in Nat
  BY <1>1, <1>2, <1>3
<1>9. Shows(cells, Stride(a, n, step))
  BY <1>6, <1>7, <1>8, ItemsInRing
<1> QED BY <1>4, <1>9 DEF cells

\* A slice with a negative step finds the items it selects.
LEMMA DownInOrder ==
  ASSUME TypeOK, NEW s \in Slices, ~(s.step > 0), StepFits(s.step)
  PROVE  Shows(GetSlice(s).cells, Selected(s, size))
<1> DEFINE r == Resolve(s, size)
           a == r.start
           b == r.stop
           step == s.step
           down == -step
           n == IF a > b THEN (a - b - step - 1) \div (-step) ELSE 0
           cells == GetSlice(s).cells
<1>1. /\ step \in Int /\ step < 0
      /\ s.start \in Int \cup {None} /\ s.stop \in Int \cup {None}
      /\ size \in Nat /\ size <= MaxLen /\ StartPos \in Index
      /\ MaxLen - step <= MaxSsize /\ MaxSsize \in Nat
  BY SlicesAssumption, StartPosType, MaxLenAssumption
  DEF TypeOK, StartPos, StepFits, Magnitude, PySsize
<1>2. /\ r = [start |-> a, stop |-> b]
      /\ a \in -1 .. size - 1 /\ b \in -1 .. size - 1
  BY <1>1, ResolveDown
<1>3. /\ n \in Nat /\ a + n * step <= b
      /\ n = 0 \/ a + (n - 1) * step > b
      /\ a > b => n # 0
  <2>1. CASE a > b
    <3> DEFINE d == a - b
    <3>1. d \in Nat \ {0} /\ down \in Nat \ {0}
      BY <1>1, <1>2, <2>1
    <3> HIDE DEF d, down
    <3>2. LET m == (d + down - 1) \div down
          IN  m \in Nat \ {0} /\ (m - 1) * down < d /\ m * down >= d
      BY <3>1, StepsToReach
    <3>3. n = (d + down - 1) \div down
      <4>1. a - b - step - 1 = d + down - 1
        <5> HIDE DEF r, step
        <5> QED BY <1>1, <1>2 DEF d, down
      <4> QED BY <2>1, <4>1 DEF down
    <3> HIDE DEF n, r, step
    <3>4. n \in Nat \ {0} /\ (n - 1) * down < d /\ n * down >= d
      BY <3>2, <3>3
    <3>5. /\ n * step = -(n * down) /\ (n - 1) * step = -((n - 1) * down)
          /\ n * down \in Int /\ (n - 1) * down \in Int
      BY <1>1, <3>4 DEF down
    <3> QED BY <1>2, <3>4, <3>5 DEF d
  <2>2. CASE ~(a > b)
    <3>1. n = 0 /\ 0 * step = 0
      BY <1>1, <2>2
    <3> HIDE DEF n, r, step
    <3> QED BY <1>2, <2>2, <3>1
  <2> QED BY <2>1, <2>2
<1>4. Selected(s, size) = Stride(a, n, step)
  <2> HIDE DEF r, n
  <2> QED BY <1>1, <1>2, <1>3, SelectDown DEF r
<1>5. cells = IF a > b THEN SliceDown(At(StartPos, a), n, step).cells ELSE <<>>
  <2>1. GetSlice(s) = IF a <= b THEN [shared |-> FALSE, cells |-> <<>>]
                      ELSE SliceDown(At(StartPos, a), (a - b - step - 1) \div (-step), step)
    <3> DEFINE i == IF a + StartPos >= MaxLen THEN a + StartPos - MaxLen ELSE a + StartPos
    <3>1. a > b => CDiv(Ssize(b - a + step + 1), step) = (a - b - step - 1) \div (-step)
      <4> DEFINE v == b - a + step + 1
      <4> SUFFICES ASSUME a > b
                   PROVE  CDiv(Ssize(v), step) = (a - b - step - 1) \div (-step)
        OBVIOUS
      <4>1. /\ v \in Int /\ v < 0 /\ -MaxSsize - 1 <= v /\ v <= MaxSsize
            /\ -v = a - b - step - 1
        <5> HIDE DEF r, step
        <5> QED BY <1>1, <1>2, MaxLenAssumption
      <4> HIDE DEF v, step, r
      <4>2. Ssize(v) = v
        BY <4>1, SsizeStays
      <4>3. CDiv(v, step) = (-v) \div (-step)
        BY <1>1, <4>1, CDivDown
      <4> QED BY <4>1, <4>2, <4>3
    <3>2. a <= b <=> ~(a > b)
      <4> HIDE DEF r
      <4> QED BY <1>1, <1>2
    <3>3. GetSlice(s) = IF a <= b THEN [shared |-> FALSE, cells |-> <<>>]
                        ELSE SliceDown(i, (a - b - step - 1) \div (-step), step)
      BY <3>1, <3>2 DEF GetSlice
    <3>4. i = At(StartPos, a)
      <4> HIDE DEF r
      <4> QED BY <1>1, <1>2, MaxLenAssumption DEF At, Index
    <3> HIDE DEF i
    <3> QED BY <3>3, <3>4
  <2>2. a <= b <=> ~(a > b)
    <3> HIDE DEF r
    <3> QED BY <1>1, <1>2
  <2> HIDE DEF r, step
  <2> QED BY <2>1, <2>2
<1> HIDE DEF r, n, cells, step
<1>6. ASSUME NEW k \in 1 .. n
      PROVE  a + (k - 1) * step \in 0 .. size - 1
  <2>1. (n - 1) * step <= (k - 1) * step /\ (k - 1) * step <= 0 * step /\ 0 * step = 0
    BY <1>1, <1>3, SmallerProduct
  <2>2. (k - 1) * step \in Int /\ (n - 1) * step \in Int
    BY <1>1, <1>3
  <2> QED BY <1>1, <1>2, <1>3, <2>1, <2>2
<1>7. InRing(cells, StartPos, a, n, step)
  <2>1. CASE a > b
    <3>1. a + (n - 1) * step >= 0 /\ a \in Nat /\ a < MaxLen /\ n \in Nat \ {0}
      <4>1. (n - 1) * step \in Int
        BY <1>1, <1>3
      <4> QED BY <1>1, <1>2, <1>3, <2>1, <4>1, MaxLenAssumption
    <3> QED BY <1>1, <1>5, <2>1, <3>1, DownFinds DEF step
  <2>2. CASE ~(a > b)
    <3>1. n = 0
      BY <2>2 DEF n
    <3> QED BY <1>5, <2>2, <3>1 DEF InRing
  <2> QED BY <2>1, <2>2
<1>8. a \in Int /\ step \in Int /\ n \in Nat
  BY <1>1, <1>2, <1>3
<1>9. Shows(cells, Stride(a, n, step))
  BY <1>6, <1>7, <1>8, ItemsInRing
<1> QED BY <1>4, <1>9 DEF cells

\* A slice with any bounds and any step that leaves room for its arithmetic in Py_ssize_t
\* selects the items that the same slice of the sequence of its items selects, in the same
\* order, wherever the buffer wraps and whether the slice crosses the end of the array or
\* not.
THEOREM ViewSlices == ViewSpec => []SlicesInOrder
<1>1. TypeOK => SlicesInOrder
  BY UpInOrder, DownInOrder DEF SlicesInOrder, Shows
<1> QED BY <1>1, ViewType, PTL
===============================================================================
