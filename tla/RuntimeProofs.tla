--------------------------- MODULE RuntimeProofs ---------------------------
(***************************************************************************)
(* Proofs about the two parts of the runtime that stand on integers of a   *)
(* fixed width: the arena allocator, whose sizes wrap, and the checked     *)
(* arithmetic, which must not.  They share no state.                       *)
(*                                                                         *)
(* For any width, alignment, page size and request sizes no two            *)
(* allocations overlap, all of them lie in their blocks, and only a reset  *)
(* can lose a block.  For any width the arithmetic is exact.               *)
(***************************************************************************)
EXTENDS OscArena, CheckedArith, TLAPS

\* Rounding a size that does not overflow loses nothing.
LEMMA RoundUpCovers ==
  ASSUME NEW n \in Nat, NEW unit \in Nat \ {0}, n + unit - 1 <= SizeMax
  PROVE  RoundUp(n, unit) \in Nat /\ RoundUp(n, unit) >= n
<1> DEFINE up == n + unit - 1
<1>1. 2^W \in Nat /\ up \in 0 .. 2^W - 1
  BY WidthAssumption DEF SizeMax
<1>2. Wrap(up) = up
  BY <1>1 DEF Wrap
<1>3. up % unit \in 0 .. unit - 1
  OBVIOUS
<1>4. RoundUp(n, unit) = up - (up % unit)
  BY <1>2 DEF RoundUp
<1> QED
  BY <1>1, <1>3, <1>4

\* The bytes reserved for a size that passed the guard cover it.
LEMMA AlignedCovers ==
  ASSUME NEW size \in Sizes, ~SizeOverflows(size)
  PROVE  Aligned(size) \in Nat /\ Aligned(size) >= size /\ size \in Nat
<1>1. size \in Nat /\ Align \in Nat \ {0} /\ SizeMax \in Nat
  BY SizesAssumption, AlignAssumption, WidthAssumption DEF SizeMax
<1>2. size + Align - 1 <= SizeMax
  BY <1>1 DEF SizeOverflows
<1> QED
  BY <1>1, <1>2, RoundUpCovers DEF Aligned

\* A block that passed the guard has at least the capacity asked for.
LEMMA BlockCapCovers ==
  ASSUME NEW c \in Nat, ~BlockOverflows(c)
  PROVE  BlockCap(c) \in Nat /\ BlockCap(c) >= c
<1>1. /\ Header \in Nat /\ Page \in Nat \ {0}
      /\ SizeMax \in Nat /\ SizeMax = 2^W - 1 /\ 2^W \in Nat
  BY BlockAssumption, WidthAssumption DEF SizeMax
<1>2. Header + c + Page - 1 <= SizeMax
  BY <1>1 DEF BlockOverflows
<1>3. Wrap(Header + c) = Header + c
  BY <1>1, <1>2 DEF Wrap
<1>4. PICK r \in Nat : r = RoundUp(Header + c, Page) /\ r >= Header + c
  BY <1>1, <1>2, RoundUpCovers
<1>5. r <= SizeMax
  <2> DEFINE up == Header + c + Page - 1
  <2>1. Wrap(up) = up
    BY <1>1, <1>2 DEF Wrap
  <2>2. up % Page \in 0 .. Page - 1
    BY <1>1
  <2>3. r = up - (up % Page)
    BY <1>4, <2>1 DEF RoundUp
  <2> QED
    BY <1>1, <1>2, <2>2, <2>3
<1>6. r - Header \in 0 .. SizeMax
  BY <1>1, <1>4, <1>5
<1>7. Wrap(r - Header) = r - Header
  BY <1>1, <1>6 DEF Wrap
<1> QED
  BY <1>1, <1>3, <1>4, <1>7 DEF BlockCap

\* No block is used beyond its capacity.
UseOK == \A b \in 1 .. Len(blocks) : blocks[b].used <= blocks[b].cap

\* Every allocation lies below the high-water mark of its block.
LiveOK ==
  \A i \in 1 .. Len(live) :
    /\ live[i].block \in 1 .. Len(blocks)
    /\ live[i].off + live[i].size <= blocks[live[i].block].used

\* Nothing is freed before the arena is destroyed, and then nothing is live.
FreedOK ==
  /\ pc # "destroyed" => freed = {}
  /\ pc = "destroyed" => live = <<>>

\* Until a reset the current block is the last one, so linking cuts nothing.
CurrentLast == resets = 0 => cur = Len(chain)

\* The inductive invariant.
IInv == /\ TypeOK /\ UseOK /\ LiveOK /\ FreedOK /\ CurrentLast
        /\ Disjoint /\ FreedOnce /\ LostOnlyByReset

\* The invariant gives the bounds.
LEMMA IInvInBounds == IInv => InBounds
<1> SUFFICES ASSUME IInv, NEW i \in 1 .. Len(live)
             PROVE  /\ live[i].block \in 1 .. Len(blocks)
                    /\ live[i].block \notin freed
                    /\ live[i].off + live[i].size <= blocks[live[i].block].cap
  BY DEF InBounds
<1>1. live[i] \in Allocation
  BY DEF IInv, TypeOK
<1>2. /\ live[i].block \in 1 .. Len(blocks)
      /\ live[i].off + live[i].size <= blocks[live[i].block].used
  BY DEF IInv, LiveOK
<1>3. blocks[live[i].block] \in Block
  BY <1>2 DEF IInv, TypeOK
<1>4. blocks[live[i].block].used <= blocks[live[i].block].cap
  BY <1>2 DEF IInv, UseOK
<1>5. pc # "destroyed"
  BY DEF IInv, FreedOK, TypeOK
<1> QED
  BY <1>1, <1>2, <1>3, <1>4, <1>5 DEF IInv, FreedOK, Allocation, Block

\* A new arena satisfies the invariant.
LEMMA InitIInv == Init => IInv
<1> SUFFICES ASSUME Init PROVE IInv
  OBVIOUS
<1>0. /\ block_size \in 1 .. SizeMax /\ block_size \in Nat
      /\ ~BlockOverflows(block_size)
  BY SizesAssumption, BlockAssumption, WidthAssumption
  DEF Init, BlockOverflows, SizeMax
<1>1. BlockCap(block_size) \in Nat
  BY <1>0, BlockCapCovers
<1>2. NewBlock(block_size, 0) \in Block
  BY <1>1 DEF NewBlock, Block
<1>3. blocks = <<NewBlock(block_size, 0)>> /\ Len(blocks) = 1
  BY DEF Init
<1>4. TypeOK
  BY <1>0, <1>2, <1>3 DEF Init, TypeOK
<1>5. UseOK
  BY <1>1, <1>3 DEF UseOK, NewBlock
<1>6. LiveOK /\ FreedOK /\ Disjoint
  BY DEF Init, LiveOK, FreedOK, Disjoint
<1>7. FreedOnce /\ LostOnlyByReset /\ CurrentLast
  BY <1>3 DEF Init, FreedOnce, LostOnlyByReset, OnChain, CurrentLast
<1> QED
  BY <1>4, <1>5, <1>6, <1>7 DEF IInv

\* A new allocation above everything live in its block overlaps nothing.
LEMMA AppendDisjoint ==
  ASSUME IInv, NEW b \in Nat, NEW off \in Nat, NEW size \in Nat,
         live' = Append(live, Alloc(b, off, size)),
         \A i \in 1 .. Len(live) :
           live[i].block = b => live[i].off + live[i].size <= off
  PROVE  /\ live' \in Seq(Allocation) /\ Len(live') = Len(live) + 1
         /\ live'[Len(live) + 1] = Alloc(b, off, size)
         /\ \A i \in 1 .. Len(live) : live'[i] = live[i]
         /\ Disjoint'
<1>1. live \in Seq(Allocation) /\ Alloc(b, off, size) \in Allocation
  BY DEF IInv, TypeOK, Alloc, Allocation
<1>2. /\ live' \in Seq(Allocation) /\ Len(live') = Len(live) + 1
      /\ live'[Len(live) + 1] = Alloc(b, off, size)
      /\ \A i \in 1 .. Len(live) : live'[i] = live[i]
  BY <1>1
<1>3. ASSUME NEW i \in 1 .. Len(live'), NEW j \in 1 .. Len(live'),
             i < j, live'[i].block = live'[j].block
      PROVE  \/ live'[i].off + live'[i].size <= live'[j].off
             \/ live'[j].off + live'[j].size <= live'[i].off
  <2>0. Len(live) \in Nat
    BY <1>1
  <2>1. i \in 1 .. Len(live) /\ live'[i] = live[i]
    BY <1>2, <1>3, <2>0
  <2>2. CASE j = Len(live) + 1
    <3>1. live'[j].block = b /\ live'[j].off = off
      BY <1>2, <2>2 DEF Alloc
    <3> QED
      BY <1>3, <2>1, <3>1
  <2>3. CASE j \in 1 .. Len(live)
    BY <1>2, <1>3, <2>1, <2>3 DEF IInv, Disjoint
  <2> QED
    BY <1>2, <2>0, <2>2, <2>3
<1>4. Disjoint'
  BY <1>3 DEF Disjoint
<1> QED
  BY <1>2, <1>4

\* The fast path hands out the free tail of the current block.
LEMMA AllocFastIInv ==
  ASSUME IInv, NEW size \in Sizes, AllocFast(size)
  PROVE  IInv'
<1> DEFINE c == Current
           n == blocks[c].used
<1>0. /\ pc = "ready" /\ pc' = pc /\ chain' = chain /\ cur' = cur
      /\ block_size' = block_size /\ freed' = freed /\ resets' = resets
      /\ live' = Append(live, Alloc(c, n, size))
      /\ blocks' = [blocks EXCEPT ![c].used = @ + Aligned(size)]
      /\ Fits(size) /\ ~SizeOverflows(size)
  BY DEF AllocFast
<1>1. c \in 1 .. Len(blocks) /\ blocks \in Seq(Block)
  BY DEF IInv, TypeOK, Current
<1>2. Aligned(size) \in Nat /\ Aligned(size) >= size /\ size \in Nat
  BY <1>0, AlignedCovers
<1>3. n \in Nat /\ blocks[c].cap \in Nat /\ n + Aligned(size) <= blocks[c].cap
  <2>1. blocks[c] \in Block
    BY <1>1
  <2> QED
    BY <1>0, <1>2, <2>1 DEF Fits, Block
<1>4. /\ blocks' \in Seq(Block) /\ Len(blocks') = Len(blocks)
      /\ blocks'[c].cap = blocks[c].cap
      /\ blocks'[c].used = n + Aligned(size)
      /\ \A b \in 1 .. Len(blocks) : b # c => blocks'[b] = blocks[b]
  <2> DEFINE e == [blocks[c] EXCEPT !.used = @ + Aligned(size)]
  <2>1. blocks[c] \in Block
    BY <1>1
  <2>2. e \in Block /\ e.cap = blocks[c].cap /\ e.used = n + Aligned(size)
    BY <1>2, <1>3, <2>1 DEF Block
  <2>3. blocks' = [blocks EXCEPT ![c] = e]
    BY <1>0
  <2> HIDE DEF e, n, c
  <2>4. blocks'[c] = e /\ \A b \in 1 .. Len(blocks) : b # c => blocks'[b] = blocks[b]
    BY <1>1, <2>3
  <2>5. blocks' \in Seq(Block) /\ Len(blocks') = Len(blocks)
    BY <1>1, <2>2, <2>3
  <2> QED
    BY <2>2, <2>4, <2>5
<1>5. \A i \in 1 .. Len(live) :
        live[i].block = c => live[i].off + live[i].size <= n
  BY DEF IInv, LiveOK
<1>6. /\ live' \in Seq(Allocation) /\ Len(live') = Len(live) + 1
      /\ live'[Len(live) + 1] = Alloc(c, n, size)
      /\ \A i \in 1 .. Len(live) : live'[i] = live[i]
      /\ Disjoint'
  <2>1. c \in Nat /\ n \in Nat /\ size \in Nat
    BY <1>1, <1>2, <1>3
  <2>2. live' = Append(live, Alloc(c, n, size))
    BY <1>0
  <2> HIDE DEF c, n
  <2> QED
    BY <1>5, <2>1, <2>2, AppendDisjoint
<1> HIDE DEF c, n
<1>7. TypeOK'
  <2>1. UNCHANGED <<chain, cur, block_size, freed, resets, pc>>
    BY <1>0
  <2>2. Len(blocks') = Len(blocks) /\ blocks' \in Seq(Block) /\ live' \in Seq(Allocation)
    BY <1>4, <1>6
  <2> QED
    BY <2>1, <2>2 DEF IInv, TypeOK
<1>8. UseOK'
  BY <1>3, <1>4 DEF IInv, UseOK
<1>9. LiveOK'
  <2> SUFFICES ASSUME NEW i \in 1 .. Len(live')
               PROVE  /\ live'[i].block \in 1 .. Len(blocks')
                      /\ live'[i].off + live'[i].size <= blocks'[live'[i].block].used
    BY DEF LiveOK
  <2>0. Len(live) \in Nat
    BY DEF IInv, TypeOK
  <2>1. CASE i = Len(live) + 1
    BY <1>1, <1>2, <1>3, <1>4, <1>6, <2>1 DEF Alloc
  <2>2. CASE i \in 1 .. Len(live)
    <3>1. /\ live[i].block \in 1 .. Len(blocks)
          /\ live[i].off + live[i].size <= blocks[live[i].block].used
      BY <2>2 DEF IInv, LiveOK
    <3>2. live[i] \in Allocation
      BY <2>2 DEF IInv, TypeOK
    <3>3. live'[i] = live[i]
      BY <1>6, <2>2
    <3>4. CASE live[i].block = c
      BY <1>2, <1>3, <1>4, <3>1, <3>2, <3>3, <3>4 DEF Allocation, n
    <3>5. CASE live[i].block # c
      BY <1>4, <3>1, <3>3, <3>5
    <3> QED
      BY <3>4, <3>5
  <2> QED
    BY <1>6, <2>0, <2>1, <2>2
<1>10. FreedOK' /\ FreedOnce' /\ LostOnlyByReset' /\ CurrentLast'
  BY <1>0, <1>4 DEF IInv, FreedOK, FreedOnce, LostOnlyByReset, OnChain, CurrentLast
<1> QED
  BY <1>6, <1>7, <1>8, <1>9, <1>10 DEF IInv

\* The slow path starts a block of its own and links it after the current.
LEMMA AllocSlowIInv ==
  ASSUME IInv, NEW size \in Sizes, AllocSlow(size)
  PROVE  IInv'
<1> DEFINE b == Len(blocks) + 1
           new == NewBlock(NewCap(size), Aligned(size))
<1>0. /\ pc = "ready" /\ pc' = pc /\ cur' = cur + 1
      /\ block_size' = block_size /\ freed' = freed /\ resets' = resets
      /\ live' = Append(live, Alloc(b, 0, size))
      /\ blocks' = Append(blocks, new)
      /\ chain' = Append(SubSeq(chain, 1, cur), b)
      /\ ~SizeOverflows(size) /\ ~BlockOverflows(NewCap(size))
  BY DEF AllocSlow, AllocLinks
<1>1. /\ blocks \in Seq(Block) /\ Len(blocks) \in Nat
      /\ chain \in Seq(1 .. Len(blocks)) /\ cur \in 1 .. Len(chain)
      /\ Len(chain) \in Nat /\ block_size \in Nat /\ Len(live) \in Nat
  BY WidthAssumption DEF IInv, TypeOK, SizeMax
<1>2. Aligned(size) \in Nat /\ Aligned(size) >= size /\ size \in Nat
  BY <1>0, AlignedCovers
<1>3. NewCap(size) \in Nat /\ NewCap(size) >= Aligned(size)
  BY <1>1, <1>2 DEF NewCap
<1>4. BlockCap(NewCap(size)) \in Nat /\ BlockCap(NewCap(size)) >= Aligned(size)
  BY <1>0, <1>2, <1>3, BlockCapCovers
<1>5. new \in Block /\ new.used = Aligned(size) /\ new.used <= new.cap
  BY <1>2, <1>4 DEF NewBlock, Block
<1> HIDE DEF new
<1>6. /\ blocks' \in Seq(Block) /\ Len(blocks') = b /\ blocks'[b] = new
      /\ \A i \in 1 .. Len(blocks) : blocks'[i] = blocks[i]
  BY <1>0, <1>1, <1>5
<1>7. \A i \in 1 .. Len(live) : live[i].block \in 1 .. Len(blocks)
  BY DEF IInv, LiveOK
<1>8. /\ live' \in Seq(Allocation) /\ Len(live') = Len(live) + 1
      /\ live'[Len(live) + 1] = Alloc(b, 0, size)
      /\ \A i \in 1 .. Len(live) : live'[i] = live[i]
      /\ Disjoint'
  <2>1. b \in Nat /\ size \in Nat /\ live' = Append(live, Alloc(b, 0, size))
    BY <1>0, <1>1, <1>2
  <2>2. \A i \in 1 .. Len(live) : live[i].block # b
    BY <1>1, <1>7
  <2> HIDE DEF b
  <2> QED
    BY <2>1, <2>2, AppendDisjoint
<1>9. /\ chain' \in Seq(1 .. Len(blocks')) /\ Len(chain') = cur + 1
      /\ chain'[cur + 1] = b
      /\ \A i \in 1 .. cur : chain'[i] = chain[i] /\ chain[i] \in 1 .. Len(blocks)
  <2>1. /\ SubSeq(chain, 1, cur) \in Seq(1 .. b) /\ Len(SubSeq(chain, 1, cur)) = cur
        /\ \A i \in 1 .. cur : SubSeq(chain, 1, cur)[i] = chain[i]
        /\ \A i \in 1 .. cur : chain[i] \in 1 .. Len(blocks)
    <3>1. \A i \in 1 .. cur : chain[i] \in 1 .. Len(blocks)
      BY <1>1
    <3> QED
      BY <1>1, <3>1
  <2> DEFINE kept == SubSeq(chain, 1, cur)
  <2> HIDE DEF kept
  <2>2. /\ kept \in Seq(1 .. b) /\ Len(kept) = cur
        /\ \A i \in 1 .. cur : kept[i] = chain[i] /\ chain[i] \in 1 .. Len(blocks)
    BY <2>1 DEF kept
  <2>3. chain' = Append(kept, b)
    BY <1>0 DEF kept
  <2> QED
    BY <1>1, <1>6, <2>2, <2>3
<1>10. TypeOK'
  <2>1. UNCHANGED <<block_size, freed, resets, pc>> /\ cur' = cur + 1
    BY <1>0
  <2>2. cur' \in 1 .. Len(chain') /\ freed' \subseteq 1 .. Len(blocks')
    BY <1>1, <1>6, <1>9, <2>1 DEF IInv, TypeOK
  <2> QED
    BY <1>6, <1>8, <1>9, <2>1, <2>2 DEF IInv, TypeOK
<1>11. UseOK'
  <2> SUFFICES ASSUME NEW i \in 1 .. Len(blocks')
               PROVE  blocks'[i].used <= blocks'[i].cap
    BY DEF UseOK
  <2>1. CASE i = b
    BY <1>5, <1>6, <2>1
  <2>2. CASE i \in 1 .. Len(blocks)
    <3>1. blocks[i].used <= blocks[i].cap
      BY <2>2 DEF IInv, UseOK
    <3> QED
      BY <1>6, <2>2, <3>1
  <2>3. i = b \/ i \in 1 .. Len(blocks)
    BY <1>1, <1>6
  <2> QED
    BY <2>1, <2>2, <2>3
<1>12. LiveOK'
  <2> SUFFICES ASSUME NEW i \in 1 .. Len(live')
               PROVE  /\ live'[i].block \in 1 .. Len(blocks')
                      /\ live'[i].off + live'[i].size <= blocks'[live'[i].block].used
    BY DEF LiveOK
  <2>1. CASE i = Len(live) + 1
    BY <1>1, <1>2, <1>5, <1>6, <1>8, <2>1 DEF Alloc
  <2>2. CASE i \in 1 .. Len(live)
    <3>1. /\ live[i].block \in 1 .. Len(blocks)
          /\ live[i].off + live[i].size <= blocks[live[i].block].used
      BY <2>2 DEF IInv, LiveOK
    <3>2. blocks'[live[i].block] = blocks[live[i].block]
      BY <1>6, <3>1
    <3> QED
      BY <1>1, <1>6, <1>8, <2>2, <3>1, <3>2
  <2> QED
    BY <1>1, <1>8, <2>1, <2>2
<1>13. FreedOK'
  BY <1>0 DEF IInv, FreedOK
<1>14. FreedOnce'
  <2> SUFFICES ASSUME NEW i \in 1 .. cur + 1, NEW j \in 1 .. cur + 1,
                      chain'[i] = chain'[j]
               PROVE  i = j
    BY <1>9 DEF FreedOnce
  <2>1. CASE i \in 1 .. cur /\ j \in 1 .. cur
    <3>1. i \in 1 .. Len(chain) /\ j \in 1 .. Len(chain) /\ chain[i] = chain[j]
      <4>1. Len(chain) \in Nat /\ cur \in Nat /\ cur <= Len(chain)
        BY <1>1
      <4>2. chain'[i] = chain[i] /\ chain'[j] = chain[j]
        BY <1>9, <2>1
      <4>3. i \in 1 .. Len(chain) /\ j \in 1 .. Len(chain)
        BY <2>1, <4>1
      <4> QED
        BY <4>2, <4>3, Zenon
    <3> QED
      BY <3>1 DEF IInv, FreedOnce
  <2>2. \A m \in 1 .. cur : chain'[m] # b
    <3>1. Len(blocks) + 1 \notin 1 .. Len(blocks)
      BY <1>1
    <3> QED
      BY <1>9, <3>1
  <2>3. chain'[cur + 1] = b /\ cur \in Nat
    BY <1>1, <1>9
  <2>4. (i \in 1 .. cur \/ i = cur + 1) /\ (j \in 1 .. cur \/ j = cur + 1)
    BY <2>3
  <2> HIDE DEF b
  <2> QED
    BY <2>1, <2>2, <2>3, <2>4
<1>15. LostOnlyByReset' /\ CurrentLast'
  <2> SUFFICES ASSUME resets = 0
               PROVE  OnChain' = 1 .. Len(blocks') /\ cur' = Len(chain')
    BY <1>0 DEF LostOnlyByReset, CurrentLast
  <2>1. cur = Len(chain) /\ OnChain = 1 .. Len(blocks)
    BY DEF IInv, LostOnlyByReset, CurrentLast
  <2>2. OnChain' = {chain'[i] : i \in 1 .. cur + 1}
    BY <1>9 DEF OnChain
  <2>3. {chain'[i] : i \in 1 .. cur + 1} = {chain[i] : i \in 1 .. cur} \cup {b}
    <3>1. \A i \in 1 .. cur + 1 : i \in 1 .. cur \/ i = cur + 1
      BY <1>1
    <3>2. \A i \in 1 .. cur : i \in 1 .. cur + 1
      BY <1>1
    <3>3. cur + 1 \in 1 .. cur + 1
      BY <1>1
    <3> QED
      BY <1>9, <3>1, <3>2, <3>3
  <2>4. OnChain = {chain[i] : i \in 1 .. cur}
    BY <2>1 DEF OnChain
  <2> QED
    <3>1. OnChain' = 1 .. Len(blocks) \cup {b}
      BY <2>1, <2>2, <2>3, <2>4
    <3>2. 1 .. Len(blocks) \cup {Len(blocks) + 1} = 1 .. Len(blocks) + 1
      BY <1>1
    <3>3. Len(blocks') = b /\ cur' = cur + 1 /\ Len(chain') = cur + 1
      BY <1>0, <1>6, <1>9
    <3> QED
      BY <3>1, <3>2, <3>3
<1> QED
  BY <1>8, <1>10, <1>11, <1>12, <1>13, <1>14, <1>15 DEF IInv

\* A panic leaves the arena alone.
LEMMA AllocPanicsIInv ==
  ASSUME IInv, NEW size \in Sizes, AllocPanics(size)
  PROVE  IInv'
<1>1. /\ UNCHANGED <<blocks, chain, cur, block_size, live, freed, resets>>
      /\ pc' = "panic" /\ pc = "ready"
  BY DEF AllocPanics
<1> QED
  BY <1>1 DEF IInv, TypeOK, UseOK, LiveOK, FreedOK, CurrentLast, Disjoint,
              FreedOnce, LostOnlyByReset, OnChain

\* A reset keeps every block and its capacity, and leaves nothing live.
LEMMA ResetIInv == ASSUME IInv, osc_arena_reset PROVE IInv'
<1>0. /\ pc = "ready" /\ cur' = 1 /\ live' = <<>> /\ resets' = resets + 1
      /\ UNCHANGED <<chain, block_size, freed, pc>>
  BY DEF osc_arena_reset
<1>1. blocks \in Seq(Block) /\ resets \in Nat /\ cur \in 1 .. Len(chain)
  BY DEF IInv, TypeOK
<1>2. /\ blocks' \in Seq(Block) /\ Len(blocks') = Len(blocks)
      /\ \A b \in 1 .. Len(blocks) : blocks'[b].used <= blocks'[b].cap
  <2> DEFINE f(b) == IF b \in OnChain THEN [blocks[b] EXCEPT !.used = 0]
                                      ELSE blocks[b]
  <2>1. \A b \in 1 .. Len(blocks) : f(b) \in Block /\ f(b).used <= f(b).cap
    <3> SUFFICES ASSUME NEW b \in 1 .. Len(blocks)
                 PROVE  f(b) \in Block /\ f(b).used <= f(b).cap
      OBVIOUS
    <3>1. blocks[b] \in Block /\ blocks[b].used <= blocks[b].cap
      BY <1>1 DEF IInv, UseOK
    <3> QED
      BY <3>1 DEF Block
  <2>2. blocks' = [b \in 1 .. Len(blocks) |-> f(b)]
    BY <1>1 DEF osc_arena_reset
  <2> HIDE DEF f
  <2> QED
    BY <1>1, <2>1, <2>2
<1>3. TypeOK'
  <2>1. 1 \in 1 .. Len(chain) /\ resets' \in Nat /\ live' \in Seq(Allocation)
    BY <1>0, <1>1 DEF IInv, TypeOK
  <2> QED
    BY <1>0, <1>2, <2>1 DEF IInv, TypeOK
<1>4. UseOK'
  BY <1>2 DEF UseOK
<1>5. LiveOK' /\ FreedOK' /\ Disjoint' /\ CurrentLast' /\ LostOnlyByReset'
  BY <1>0, <1>1
  DEF IInv, LiveOK, FreedOK, Disjoint, CurrentLast, LostOnlyByReset
<1>6. FreedOnce'
  BY <1>0 DEF IInv, FreedOnce
<1> QED
  BY <1>3, <1>4, <1>5, <1>6 DEF IInv

\* Destroying frees blocks of the arena and leaves nothing live.
LEMMA DestroyIInv == ASSUME IInv, osc_arena_destroy PROVE IInv'
<1>0. /\ live' = <<>> /\ freed' = OnChain /\ pc' = "destroyed"
      /\ UNCHANGED <<blocks, chain, cur, block_size, resets>>
  BY DEF osc_arena_destroy
<1>1. OnChain \subseteq 1 .. Len(blocks)
  BY DEF IInv, TypeOK, OnChain
<1>2. TypeOK'
  BY <1>0, <1>1 DEF IInv, TypeOK
<1>3. LiveOK' /\ FreedOK' /\ Disjoint' /\ UseOK'
  BY <1>0 DEF IInv, LiveOK, FreedOK, Disjoint, UseOK
<1>4. FreedOnce' /\ LostOnlyByReset' /\ CurrentLast'
  BY <1>0 DEF IInv, FreedOnce, LostOnlyByReset, CurrentLast, OnChain
<1> QED
  BY <1>2, <1>3, <1>4 DEF IInv

\* Every step keeps the invariant.
LEMMA NextIInv == IInv /\ [Next]_vars => IInv'
<1> SUFFICES ASSUME IInv, [Next]_vars PROVE IInv'
  OBVIOUS
<1>1. CASE UNCHANGED vars
  BY <1>1 DEF vars, IInv, TypeOK, UseOK, LiveOK, FreedOK, CurrentLast, Disjoint,
              FreedOnce, LostOnlyByReset, OnChain
<1> QED
  BY <1>1, AllocFastIInv, AllocSlowIInv, AllocPanicsIInv, ResetIInv, DestroyIInv
  DEF Next

\* The state of an arena stays well typed.
THEOREM ArenaTypeCorrect == Spec => []TypeOK
<1>1. IInv => TypeOK
  BY DEF IInv
<1> QED
  BY <1>1, InitIInv, NextIInv, PTL DEF Spec

\* Every allocation fits in a block the arena still owns, whatever the width
\* of size_t and the sizes asked for.
THEOREM AllocationsInBounds == Spec => []InBounds
<1> QED
  BY IInvInBounds, InitIInv, NextIInv, PTL DEF Spec

\* No two live allocations overlap.
THEOREM AllocationsDisjoint == Spec => []Disjoint
<1>1. IInv => Disjoint
  BY DEF IInv
<1> QED
  BY <1>1, InitIInv, NextIInv, PTL DEF Spec

\* An arena that is never reset loses no block, and frees none twice.
THEOREM DestroyFreesAll == Spec => [](LostOnlyByReset /\ FreedOnce)
<1>1. IInv => LostOnlyByReset /\ FreedOnce
  BY DEF IInv
<1> QED
  BY <1>1, InitIInv, NextIInv, PTL DEF Spec
-----------------------------------------------------------------------------
\* Quotient and remainder.
LEMMA DivBounds ==
  ASSUME NEW n \in Nat, NEW d \in Nat \ {0}
  PROVE  /\ n \div d \in Nat
         /\ d * (n \div d) <= n
         /\ n < d * (n \div d) + d
  OBVIOUS

\* Products keep an order.
LEMMA ProductMonotone ==
  ASSUME NEW p \in Nat, NEW q \in Nat, NEW d \in Nat, p <= q
  PROVE  d * p <= d * q /\ p * d <= q * d
  OBVIOUS

\* A product exceeds n exactly when a factor exceeds the quotient.
LEMMA ProductExceeds ==
  ASSUME NEW n \in Nat, NEW d \in Nat \ {0}, NEW p \in Nat
  PROVE  (p > n \div d) <=> (p * d > n)
<1> DEFINE q == n \div d
<1>1. q \in Nat /\ d * q <= n /\ n < d * q + d
  BY DivBounds
<1> HIDE DEF q
<1>2. CASE p > q
  <2>1. q + 1 <= p
    BY <1>1, <1>2
  <2>2. d * (q + 1) <= d * p
    BY <1>1, <2>1, ProductMonotone
  <2>3. d * (q + 1) = d * q + d /\ d * p = p * d
    BY <1>1
  <2> QED BY <1>1, <1>2, <2>2, <2>3 DEF q
<1>3. CASE p <= q
  <2>1. d * p <= d * q /\ d * p = p * d
    BY <1>1, <1>3, ProductMonotone
  <2> QED BY <1>1, <1>3, <2>1 DEF q
<1> QED BY <1>1, <1>2, <1>3

\* The case analysis of osc_mul_i64 is right for every width: it finds an
\* overflow exactly when the product is not a value of the type.
LEMMA MulOverflowsExact ==
  ASSUME NEW a \in Ints, NEW b \in Ints
  PROVE  MulOverflows(a, b) <=> a * b \notin Ints
<1> USE MaxAssumption DEF Ints, MIN
<1>0. a \in Int /\ b \in Int /\ MAX \in Nat /\ MAX + 1 \in Nat /\ MAX > 0
  OBVIOUS
<1>1. CASE a > 0 /\ b > 0
  <2>1. CDiv(MAX, b) = MAX \div b
    BY <1>0, <1>1 DEF CDiv, Abs
  <2>2. (a > MAX \div b) <=> (a * b > MAX)
    BY <1>0, <1>1, ProductExceeds
  <2>3. a * b >= 0
    BY <1>0, <1>1
  <2> QED BY <1>0, <1>1, <2>1, <2>2, <2>3 DEF MulOverflows
<1>2. CASE a > 0 /\ b < 0
  <2> DEFINE c == -b
  <2>0. c \in Nat /\ c > 0
    BY <1>0, <1>2
  <2>1. CDiv(-MAX - 1, a) = -((MAX + 1) \div a)
    BY <1>0, <1>2 DEF CDiv, Abs
  <2>2. (c > (MAX + 1) \div a) <=> (c * a > MAX + 1)
    BY <1>0, <1>2, <2>0, ProductExceeds
  <2>3. a * b = -(c * a) /\ c * a >= 0
    BY <1>0, <1>2, <2>0
  <2>4. (MAX + 1) \div a \in Nat
    BY <1>0, <1>2, DivBounds
  <2> QED BY <1>0, <1>2, <2>1, <2>2, <2>3, <2>4 DEF MulOverflows
<1>3. CASE a < 0 /\ b > 0
  <2> DEFINE c == -a
  <2>0. c \in Nat /\ c > 0
    BY <1>0, <1>3
  <2>1. CDiv(-MAX - 1, b) = -((MAX + 1) \div b)
    BY <1>0, <1>3 DEF CDiv, Abs
  <2>2. (c > (MAX + 1) \div b) <=> (c * b > MAX + 1)
    BY <1>0, <1>3, <2>0, ProductExceeds
  <2>3. a * b = -(c * b) /\ c * b >= 0
    BY <1>0, <1>3, <2>0
  <2>4. (MAX + 1) \div b \in Nat
    BY <1>0, <1>3, DivBounds
  <2> QED BY <1>0, <1>3, <2>1, <2>2, <2>3, <2>4 DEF MulOverflows
<1>4. CASE a < 0 /\ b < 0
  <2> DEFINE c == -a
             d == -b
  <2>0. c \in Nat /\ c > 0 /\ d \in Nat /\ d > 0
    BY <1>0, <1>4
  <2>1. CDiv(MAX, a) = -(MAX \div c)
    BY <1>0, <1>4 DEF CDiv, Abs
  <2>2. (d > MAX \div c) <=> (d * c > MAX)
    BY <1>0, <2>0, ProductExceeds
  <2>3. a * b = d * c /\ d * c >= 0
    BY <1>0, <1>4, <2>0
  <2>4. MAX \div c \in Nat
    BY <1>0, <2>0, DivBounds
  <2> QED BY <1>0, <1>4, <2>1, <2>2, <2>3, <2>4 DEF MulOverflows
<1>5. CASE a = 0 \/ b = 0
  <2>1. a * b = 0
    BY <1>0, <1>5
  <2> QED BY <1>0, <1>5, <2>1 DEF MulOverflows
<1> QED BY <1>0, <1>1, <1>2, <1>3, <1>4, <1>5

\* A quotient and a remainder are values of the type except for MIN / -1.
LEMMA QuotientInRange ==
  ASSUME NEW a \in Ints, NEW b \in Ints, b # 0
  PROVE  /\ CDiv(a, b) \in Int
         /\ CDiv(a, b) \in Ints <=> ~(a = MIN /\ b = -1)
         /\ CMod(a, b) \in Ints
<1> USE MaxAssumption DEF Ints, MIN
<1> DEFINE n == Abs(a)
           d == Abs(b)
           q == n \div d
<1>0. a \in Int /\ b \in Int /\ MAX \in Nat /\ MAX > 0
  OBVIOUS
<1>1. n \in Nat /\ d \in Nat \ {0} /\ n <= MAX + 1 /\ d <= MAX + 1
  BY <1>0 DEF Abs
<1>2. q \in Nat /\ d * q <= n /\ n < d * q + d
  BY <1>1, DivBounds
<1>3. CDiv(a, b) = IF (a < 0) = (b < 0) THEN q ELSE -q
  BY DEF CDiv
<1> HIDE DEF q
<1>4. CMod(a, b) = IF a < 0 THEN -(n - d * q) ELSE n - d * q
  <2>1. CASE a < 0 /\ b < 0
    <3>1. CDiv(a, b) = q /\ b = -d /\ a = -n
      BY <1>0, <1>3, <2>1 DEF Abs
    <3>2. (-d) * q = -(d * q)
      BY <1>1, <1>2
    <3> HIDE DEF n, d
    <3> QED BY <1>0, <1>1, <1>2, <2>1, <3>1, <3>2 DEF CMod
  <2>2. CASE a < 0 /\ b > 0
    <3>1. CDiv(a, b) = -q /\ b = d /\ a = -n
      BY <1>0, <1>3, <2>2 DEF Abs
    <3>2. d * (-q) = -(d * q)
      BY <1>1, <1>2
    <3> HIDE DEF n, d
    <3> QED BY <1>0, <1>1, <1>2, <2>2, <3>1, <3>2 DEF CMod
  <2>3. CASE a >= 0 /\ b < 0
    <3>1. CDiv(a, b) = -q /\ b = -d /\ a = n
      BY <1>0, <1>3, <2>3 DEF Abs
    <3>2. (-d) * (-q) = d * q
      BY <1>1, <1>2
    <3> HIDE DEF n, d
    <3> QED BY <1>0, <1>1, <1>2, <2>3, <3>1, <3>2 DEF CMod
  <2>4. CASE a >= 0 /\ b > 0
    <3>1. CDiv(a, b) = q /\ b = d /\ a = n
      BY <1>0, <1>3, <2>4 DEF Abs
    <3>2. d * q \in Int
      BY <1>1, <1>2
    <3> HIDE DEF n, d
    <3> QED BY <1>0, <1>1, <1>2, <2>4, <3>1, <3>2 DEF CMod
  <2> QED BY <1>0, <2>1, <2>2, <2>3, <2>4
<1>5. d * q \in Int
  BY <1>1, <1>2
<1>6. CMod(a, b) \in Ints
  BY <1>0, <1>1, <1>2, <1>4, <1>5
<1>7. CASE d = 1
  <2>1. q = n
    BY <1>1, <1>2, <1>7
  <2>2. b = 1 \/ b = -1
    BY <1>0, <1>7 DEF Abs
  <2>3. CASE b = 1
    BY <1>0, <1>3, <1>6, <2>1, <2>3 DEF Abs
  <2>4. CASE b = -1
    BY <1>0, <1>3, <1>6, <2>1, <2>4 DEF Abs
  <2> QED BY <1>6, <2>2, <2>3, <2>4
<1>8. CASE d >= 2
  <2>1. 2 * q <= d * q
    BY <1>1, <1>2, <1>8, ProductMonotone
  <2>2. q <= MAX
    BY <1>0, <1>1, <1>2, <1>5, <2>1
  <2>3. b # -1
    BY <1>8 DEF Abs
  <2> QED BY <1>0, <1>2, <1>3, <1>6, <2>2, <2>3
<1> QED BY <1>1, <1>7, <1>8

\* Mathematical results are integers.
LEMMA ExactInt ==
  ASSUME NEW op \in Ops, NEW a \in Ints, NEW b \in Ints, Defined(op, b)
  PROVE  Exact(op, a, b) \in Int
<1> USE MaxAssumption DEF Ints, MIN
<1>1. CASE op \in {"div", "mod"}
  BY <1>1, QuotientInRange DEF Exact, Defined
<1>2. CASE op \in Ops \ {"div", "mod"}
  BY <1>2 DEF Exact, Ops
<1> QED BY <1>1, <1>2

\* Each checked function is exact.
LEMMA CallExact ==
  ASSUME NEW op \in Ops, NEW a \in Ints, NEW b \in Ints
  PROVE  Call(op, a, b) = IF HasValue(op, a, b) THEN <<Exact(op, a, b)>> ELSE Panic
<1>0. a \in Int /\ b \in Int /\ MAX \in Nat /\ MIN = -MAX - 1
  BY MaxAssumption DEF Ints, MIN
<1>1. CASE op = "add"
  <2>1. HasValue(op, a, b) <=> a + b \in MIN .. MAX
    BY <1>1 DEF HasValue, Defined, Exact, Ints
  <2> QED BY <1>0, <1>1, <2>1 DEF Call, Exact, osc_add, Checked, Ints
<1>2. CASE op = "sub"
  <2>1. HasValue(op, a, b) <=> a - b \in MIN .. MAX
    BY <1>2 DEF HasValue, Defined, Exact, Ints
  <2> QED BY <1>0, <1>2, <2>1 DEF Call, Exact, osc_sub, Checked, Ints
<1>3. CASE op = "mul_i32"
  <2>1. HasValue(op, a, b) <=> a * b \in MIN .. MAX
    BY <1>3 DEF HasValue, Defined, Exact, Ints
  <2> QED BY <1>0, <1>3, <2>1 DEF Call, Exact, osc_mul_i32, Checked
<1>4. CASE op = "mul_i64"
  <2>1. HasValue(op, a, b) <=> a * b \in Ints
    BY <1>4 DEF HasValue, Defined, Exact
  <2> QED BY <1>4, <2>1, MulOverflowsExact DEF Call, Exact, osc_mul_i64, Checked
<1>5. CASE op = "div"
  <2>1. HasValue(op, a, b) <=> b # 0 /\ CDiv(a, b) \in Ints
    BY <1>5 DEF HasValue, Defined, Exact
  <2>2. HasValue(op, a, b) <=> ~DivPanics(a, b)
    BY <2>1, QuotientInRange DEF DivPanics
  <2> QED BY <1>5, <2>2 DEF Call, Exact, osc_div
<1>6. CASE op = "mod"
  <2>1. HasValue(op, a, b) <=> b # 0 /\ CMod(a, b) \in Ints /\ ~(a = MIN /\ b = -1)
    BY <1>6 DEF HasValue, Defined, Exact
  <2>2. HasValue(op, a, b) <=> ~DivPanics(a, b)
    BY <2>1, QuotientInRange DEF DivPanics
  <2> QED BY <1>6, <2>2 DEF Call, Exact, osc_mod
<1> QED BY <1>1, <1>2, <1>3, <1>4, <1>5, <1>6 DEF Ops

\* A wrapped result is a value of the type.
LEMMA WrapIntInRange ==
  ASSUME NEW n \in Int
  PROVE  WrapInt(n) \in Ints
  BY MaxAssumption DEF WrapInt, Size, Ints, MIN

\* So is the result of a checked function, when there is one.
LEMMA CallInRange ==
  ASSUME NEW op \in Ops, NEW a \in Ints, NEW b \in Ints
  PROVE  Call(op, a, b) \in Results /\ CResults(op, a, b) \subseteq Results
<1>1. Call(op, a, b) \in Results
  BY CallExact DEF HasValue, Results
<1>2. CResults(op, a, b) \subseteq Results
  <2>1. CASE op \in {"div", "mod"} /\ DivPanics(a, b)
    <3>1. ArmAnswer(op, a, b) \in Ints
      BY MaxAssumption DEF ArmAnswer, Ints, MIN
    <3> QED BY <2>1, <3>1 DEF CResults, Results
  <2>2. CASE ~(op \in {"div", "mod"} /\ DivPanics(a, b))
    <3>1. Defined(op, b)
      BY <2>2 DEF Defined, DivPanics
    <3>2. WrapInt(Exact(op, a, b)) \in Ints
      BY <3>1, ExactInt, WrapIntInRange
    <3> QED BY <2>2, <3>2 DEF CResults, Results
  <2> QED BY <2>1, <2>2
<1> QED BY <1>1, <1>2

\* Negation and absolute value.
LEMMA UnaryExact ==
  ASSUME NEW a \in Ints
  PROVE  /\ osc_neg(a) = IF -a \in Ints THEN <<-a>> ELSE Panic
         /\ osc_abs(a) = IF Abs(a) \in Ints THEN <<Abs(a)>> ELSE Panic
  BY MaxAssumption DEF osc_neg, osc_abs, Checked, Abs, Ints, MIN

\* A statement whose result is a value or a panic keeps the types.
LEMMA YieldsTyped ==
  ASSUME ArithTypeOK,
         NEW stmt \in {"assign", "compound"}, NEW op \in Ops \cup {"neg", "abs"},
         NEW b \in Ints, NEW result \in Results,
         Yields(stmt, op, b, result)
  PROVE  ArithTypeOK'
<1>1. result = Panic \/ \E v \in Ints : result = <<v>>
  BY DEF Results
<1>2. x' \in Ints
  BY <1>1 DEF Yields, ArithTypeOK
<1>3. last' = [stmt |-> stmt, op |-> op, a |-> x, b |-> b, result |-> result]
  BY DEF Yields
<1>4. x \in Ints
  BY DEF ArithTypeOK
<1>5. last' \in [stmt : {"none", "assign", "compound"},
                 op : Ops \cup {"none", "neg", "abs"},
                 a : Ints, b : Ints, result : Results]
  BY <1>3, <1>4
<1> QED BY <1>2, <1>5 DEF ArithTypeOK, Yields

\* A variable starts with a value of its type.
LEMMA ArithStarts == ArithInit => ArithTypeOK /\ ChecksExact
<1> SUFFICES ASSUME ArithInit PROVE ArithTypeOK /\ ChecksExact
  OBVIOUS
<1>1. x \in Ints /\ 0 \in Ints /\ <<x>> \in Results
  BY MaxAssumption DEF ArithInit, Ints, MIN, Results
<1>2. ArithTypeOK
  BY <1>1, OperandsAssumption DEF ArithInit, ArithTypeOK
<1>3. last.op = "none"
  BY DEF ArithInit
<1>4. ChecksExact
  BY <1>3 DEF ChecksExact, Correct, Unary, Ops
<1> QED BY <1>2, <1>4

\* The invariant is inductive.
LEMMA ArithStep ==
  ArithTypeOK /\ ChecksExact /\ [ArithNext]_arithVars => ArithTypeOK' /\ ChecksExact'
<1> SUFFICES ASSUME ArithTypeOK, ChecksExact, [ArithNext]_arithVars
             PROVE  ArithTypeOK' /\ ChecksExact'
  OBVIOUS
<1>0. x \in Ints /\ 0 \in Ints
  BY MaxAssumption DEF ArithTypeOK, Ints, MIN
<1>1. ASSUME NEW op \in Ops, NEW b \in Operands, Binary(op, b)
      PROVE  ArithTypeOK' /\ ChecksExact'
  <2>1. b \in Ints
    BY OperandsAssumption
  <2>2. ArithTypeOK'
    BY <1>0, <1>1, <2>1, CallInRange, YieldsTyped DEF Binary
  <2>3. /\ last'.op = op /\ last'.a = x /\ last'.b = b
        /\ last'.result = Call(op, x, b)
    BY <1>1 DEF Binary, Yields
  <2>4. op \notin {"neg", "abs"}
    BY DEF Ops
  <2>5. ChecksExact'
    BY <1>0, <2>1, <2>3, <2>4, CallExact DEF ChecksExact, Correct, Unary
  <2> QED BY <2>2, <2>5
<1>2. ASSUME NEW op \in Ops, NEW b \in Operands, CompoundAssign(op, b)
      PROVE  ArithTypeOK' /\ ChecksExact'
  <2>1. b \in Ints
    BY OperandsAssumption
  <2>2. PICK r \in IF backend = "c" THEN CResults(op, x, b) ELSE {Call(op, x, b)} :
               Yields("compound", op, b, r)
    BY <1>2 DEF CompoundAssign
  <2>3. r \in Results
    BY <1>0, <2>1, CallInRange
  <2>4. ArithTypeOK'
    BY <2>1, <2>2, <2>3, YieldsTyped
  <2>5. /\ last'.op = op /\ last'.a = x /\ last'.b = b /\ last'.stmt = "compound"
        /\ backend' = backend
        /\ backend # "c" => last'.result = Call(op, x, b)
    BY <2>2 DEF Yields
  <2>6. op \notin {"neg", "abs"}
    BY DEF Ops
  <2>7. ChecksExact'
    BY <1>0, <2>1, <2>5, <2>6, CallExact DEF ChecksExact, Correct, Unary
  <2> QED BY <2>4, <2>7
<1>3. CASE Negate
  <2>1. osc_neg(x) \in Results
    BY <1>0, UnaryExact DEF Results
  <2>2. ArithTypeOK'
    BY <1>0, <1>3, <2>1, YieldsTyped DEF Negate
  <2>3. last'.op = "neg" /\ last'.a = x /\ last'.result = osc_neg(x)
    BY <1>3 DEF Negate, Yields
  <2>4. ChecksExact'
    BY <1>0, <2>3, UnaryExact DEF ChecksExact, Correct, Unary, Ops
  <2> QED BY <2>2, <2>4
<1>4. CASE AbsOf
  <2>1. osc_abs(x) \in Results
    BY <1>0, UnaryExact DEF Results
  <2>2. ArithTypeOK'
    BY <1>0, <1>4, <2>1, YieldsTyped DEF AbsOf
  <2>3. last'.op = "abs" /\ last'.a = x /\ last'.result = osc_abs(x)
    BY <1>4 DEF AbsOf, Yields
  <2>4. ChecksExact'
    BY <1>0, <2>3, UnaryExact DEF ChecksExact, Correct, Unary, Ops
  <2> QED BY <2>2, <2>4
<1>5. CASE UNCHANGED arithVars
  BY <1>5 DEF arithVars, ArithTypeOK, ChecksExact, Correct, Unary
<1> QED BY <1>1, <1>2, <1>3, <1>4, <1>5 DEF ArithNext

\* The variable of a program never leaves its type, in either back end.
THEOREM ArithTypeCorrect == ArithSpec => []ArithTypeOK
<1>1. ArithInit => ArithTypeOK /\ ChecksExact
  BY ArithStarts
<1>2. ArithTypeOK /\ ChecksExact /\ [ArithNext]_arithVars => (ArithTypeOK /\ ChecksExact)'
  BY ArithStep
<1> QED BY <1>1, <1>2, PTL DEF ArithSpec

\* For every width, each statement that uses the checked functions of the
\* runtime yields the mathematical result or panics, and panics only when the
\* result is not a value of the type.
THEOREM ArithmeticExact == ArithSpec => []ChecksExact
<1>1. ArithInit => ArithTypeOK /\ ChecksExact
  BY ArithStarts
<1>2. ArithTypeOK /\ ChecksExact /\ [ArithNext]_arithVars => (ArithTypeOK /\ ChecksExact)'
  BY ArithStep
<1> QED BY <1>1, <1>2, PTL DEF ArithSpec
=============================================================================
