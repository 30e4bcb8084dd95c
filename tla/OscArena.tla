------------------------------ MODULE OscArena ------------------------------
(***************************************************************************)
(* The arena allocator of the runtime (runtime/osc_runtime.c, "Arena       *)
(* allocator"): a list of blocks that never move, bump allocation in the   *)
(* current block, a new block when it is full, everything freed at once.   *)
(*                                                                         *)
(* size_t has W bits and its arithmetic wraps, so the overflow guards of   *)
(* the code matter.  A block is one malloc of the requested capacity in    *)
(* the hosted build (Header = 0, Page = 1) and whole pages that also hold  *)
(* the block header in the freestanding one.                               *)
(*                                                                         *)
(* The list is the sequence chain; "current->next = new_block" cuts it     *)
(* after current, which is what the code does to the rest of the list.     *)
(***************************************************************************)
EXTENDS Integers, Sequences

CONSTANTS W,          \* width of size_t in bits
          Align,      \* alignment of allocations: 8 in the code
          Header,     \* bytes of a block taken by its header
          Page,       \* granularity of the operating system
          InitSizes,  \* the capacities arenas are created with
          Sizes,      \* the sizes the program asks for
          MaxAllocs,  \* bound: allocations between two resets
          MaxBlocks,  \* bound: blocks of an arena
          MaxResets   \* bound: resets

SizeMax == 2^W - 1

ASSUME WidthAssumption == W \in Nat /\ 2^W \in Nat \ {0}
ASSUME AlignAssumption == Align \in 1 .. SizeMax
ASSUME BlockAssumption == /\ Header \in Nat /\ Page \in Nat \ {0}
                          /\ Header + Page <= SizeMax
ASSUME SizesAssumption ==
  /\ Sizes \subseteq 0 .. SizeMax
  /\ InitSizes \subseteq 1 .. SizeMax - Header - (Page - 1)

VARIABLES blocks,     \* every block ever obtained: its capacity and its use
          chain,      \* the blocks on the arena's list, in order
          cur,        \* the position of arena->current in chain
          block_size, \* the default capacity of a new block
          live,       \* the allocations since the last reset
          freed,      \* the blocks given back to the system
          resets,     \* how often the arena was reset
          pc          \* "ready", "panic" or "destroyed"

vars == <<blocks, chain, cur, block_size, live, freed, resets, pc>>

Wrap(n) == n % 2^W

\* "(n + unit - 1) & ~(unit - 1)" in size_t.
RoundUp(n, unit) == LET up == Wrap(n + unit - 1) IN up - (up % unit)

\* osc_arena_block_new: the capacity a block gets for a requested one.
BlockOverflows(c) == c > SizeMax - Header - (Page - 1)
BlockCap(c) == Wrap(RoundUp(Wrap(Header + c), Page) - Header)

NewBlock(c, used) == [cap |-> BlockCap(c), used |-> used]

Init ==
  /\ block_size \in InitSizes
  /\ blocks = <<NewBlock(block_size, 0)>>
  /\ chain = <<1>>
  /\ cur = 1
  /\ live = <<>>
  /\ freed = {}
  /\ resets = 0
  /\ pc = "ready"

Current == chain[cur]

Alloc(b, off, size) == [block |-> b, off |-> off, size |-> size]

\* Mutant: no guard against the wrap of size + 7.
NeverOverflows(size) == FALSE

\* "size > (size_t)-1 - 7u"
SizeOverflows(size) == size > SizeMax - (Align - 1)

Aligned(size) == RoundUp(size, Align)

\* Mutant: the comparison is done by adding, which wraps.
FitsByAdding(size) ==
  Wrap(blocks[Current].used + Aligned(size)) <= blocks[Current].cap

Fits(size) == Aligned(size) <= blocks[Current].cap - blocks[Current].used

\* Fast path of osc_arena_alloc: the current block has room.
AllocFast(size) ==
  /\ pc = "ready" /\ Len(live) < MaxAllocs
  /\ ~SizeOverflows(size)
  /\ Fits(size)
  /\ live' = Append(live, Alloc(Current, blocks[Current].used, size))
  /\ blocks' = [blocks EXCEPT ![Current].used = @ + Aligned(size)]
  /\ UNCHANGED <<chain, cur, block_size, freed, resets, pc>>

NewCap(size) == IF block_size < Aligned(size) THEN Aligned(size) ELSE block_size

\* Slow path with the new block linked where "link" says.
AllocLinks(size, link) ==
  /\ pc = "ready" /\ Len(live) < MaxAllocs /\ Len(blocks) < MaxBlocks
  /\ ~SizeOverflows(size)
  /\ ~Fits(size)
  /\ ~BlockOverflows(NewCap(size))
  /\ live' = Append(live, Alloc(Len(blocks) + 1, 0, size))
  /\ blocks' = Append(blocks, NewBlock(NewCap(size), Aligned(size)))
  /\ chain' = link
  /\ cur' = cur + 1
  /\ UNCHANGED <<block_size, freed, resets, pc>>

\* Mutants: the new block is not linked; it takes the place of the current
\* one.
AllocSlowUnlinked(size) == AllocLinks(size, chain)
AllocSlowReplaces(size) ==
  AllocLinks(size, Append(SubSeq(chain, 1, cur - 1), Len(blocks) + 1))

AllocSlow(size) ==
  AllocLinks(size, Append(SubSeq(chain, 1, cur), Len(blocks) + 1))

\* Either size guard fails, or the system has no memory.
AllocPanics(size) ==
  /\ pc = "ready" /\ Len(live) < MaxAllocs
  /\ \/ SizeOverflows(size)
     \/ ~Fits(size)
  /\ pc' = "panic"
  /\ UNCHANGED <<blocks, chain, cur, block_size, live, freed, resets>>

OnChain == {chain[i] : i \in 1 .. Len(chain)}

osc_arena_reset ==
  /\ pc = "ready" /\ resets < MaxResets
  /\ blocks' = [b \in DOMAIN blocks |->
                  IF b \in OnChain THEN [blocks[b] EXCEPT !.used = 0]
                                   ELSE blocks[b]]
  /\ cur' = 1
  /\ live' = <<>>
  /\ resets' = resets + 1
  /\ UNCHANGED <<chain, block_size, freed, pc>>

osc_arena_destroy ==
  /\ pc = "ready"
  /\ freed' = OnChain
  /\ live' = <<>>
  /\ pc' = "destroyed"
  /\ UNCHANGED <<blocks, chain, cur, block_size, resets>>

Next ==
  \/ \E size \in Sizes : AllocFast(size) \/ AllocSlow(size) \/ AllocPanics(size)
  \/ osc_arena_reset
  \/ osc_arena_destroy

Spec == Init /\ [][Next]_vars
-----------------------------------------------------------------------------
Block == [cap : Nat, used : Nat]
Allocation == [block : Nat, off : Nat, size : Nat]

\* The type of the state: the list is made of blocks of the arena.
TypeOK ==
  /\ blocks \in Seq(Block)
  /\ chain \in Seq(1 .. Len(blocks))
  /\ cur \in 1 .. Len(chain)
  /\ block_size \in 1 .. SizeMax
  /\ live \in Seq(Allocation)
  /\ freed \subseteq 1 .. Len(blocks)
  /\ resets \in Nat
  /\ pc \in {"ready", "panic", "destroyed"}

\* Every allocation lies inside a block that is still owned: a size that
\* wraps would give a pointer to fewer bytes than were asked for.
InBounds ==
  \A i \in 1 .. Len(live) :
    /\ live[i].block \in 1 .. Len(blocks)
    /\ live[i].block \notin freed
    /\ live[i].off + live[i].size <= blocks[live[i].block].cap

\* No two allocations since the last reset share a byte.
Disjoint ==
  \A i, j \in 1 .. Len(live) :
    i < j /\ live[i].block = live[j].block =>
      \/ live[i].off + live[i].size <= live[j].off
      \/ live[j].off + live[j].size <= live[i].off

\* A block is on the list at most once, so destroy frees nothing twice.
FreedOnce == \A i, j \in 1 .. Len(chain) : chain[i] = chain[j] => i = j

\* Without a reset the list holds every block, so destroy leaks nothing.
LostOnlyByReset == resets = 0 => OnChain = 1 .. Len(blocks)
=============================================================================
