------------------------------- MODULE Arena -------------------------------
(***************************************************************************)
(* The memory arena (src/memory.c).                                        *)
(*                                                                         *)
(* Blocks are cut from the front of the last chunk, or of a new one when   *)
(* the last has no room; nothing is given back until the whole arena is.   *)
(* An address is a chunk and an offset from its start, where its header    *)
(* lies.  malloc is external: it returns fresh, aligned memory or fails.   *)
(***************************************************************************)
EXTENDS Integers, Sequences

CONSTANTS
    Align,      \* alignof(max_align_t)
    Header,     \* sizeof(struct apigen_MemoryArenaChunk)
    ChunkSize,  \* chunk_size
    Sizes,      \* the sizes asked for
    MaxBlocks   \* bound: the number of blocks asked for

ASSUME ConstantsAssumption ==
    /\ Align \in Nat \ {0}
    /\ Header \in Nat /\ ChunkSize \in Nat
    /\ Sizes \subseteq Nat
    /\ MaxBlocks \in Nat

VARIABLES
    chunks,     \* every chunk ever allocated, the nth at index n
    first, last,\* first_chunk, last_chunk: indices into chunks, 0 for NULL
    phase,      \* "live", "freeing", "dead" (after deinit), "panic"
    cursor,     \* during "freeing": the next chunk of the list
    freed,      \* how often each chunk was handed to free
    blocks,     \* the blocks handed out, oldest first
    filled      \* the bytes last written by memset, as a block

vars == <<chunks, first, last, phase, cursor, freed, blocks, filled>>

Nowhere == [chunk |-> 0, from |-> 0, asked |-> 0, taken |-> 0]

Init ==
    /\ chunks = <<>> /\ first = 0 /\ last = 0
    /\ phase = "live" /\ cursor = 0
    /\ freed = <<>>
    /\ blocks = <<>> /\ filled = Nowhere

\* Mutated forms: sizes are rounded down; sizes are not rounded.
AlignSizeBackward(size) == size - (size % Align)
SizeAsAsked(size) == size

\* Sizes are rounded up, by clearing the low bits.
AlignSizeForward(size) == (size + Align - 1) - ((size + Align - 1) % Align)

HeaderSize == AlignSizeForward(Header)

\* Mutated form: large blocks get an ordinary chunk.
UsualChunkSize(taken) == ChunkSize

NewChunkSize(taken) == IF ChunkSize > taken THEN ChunkSize ELSE taken

\* Mutated form: the block at the front is not cut off.
CutInPlace(chunk, taken) == [chunk EXCEPT !.size = @ - taken]

\* What is left of a chunk when a block is cut from its front.
Cut(chunk, taken) ==
    [memory |-> chunk.memory + taken, size |-> chunk.size - taken,
     next |-> chunk.next, length |-> chunk.length]

HasRoom(taken) == last # 0 /\ chunks[last].size >= taken

HandOut(chunk, from, size) ==
    LET block == [chunk |-> chunk, from |-> from,
                  asked |-> size, taken |-> AlignSizeForward(size)]
    IN  blocks' = Append(blocks, block) /\ filled' = block

\* apigen_memory_arena_alloc, with room in the last chunk.
AllocFromLast(size) ==
    /\ phase = "live" /\ Len(blocks) < MaxBlocks
    /\ HasRoom(AlignSizeForward(size))
    /\ chunks' = [chunks EXCEPT ![last] = Cut(@, AlignSizeForward(size))]
    /\ HandOut(last, chunks[last].memory, size)
    /\ UNCHANGED <<first, last, phase, cursor, freed>>

\* The list of chunks with a new one at its end; the first starts the list.
Linked(chunk) == [n \in 1 .. Len(chunks) |->
                    IF n = last THEN [chunks[n] EXCEPT !.next = chunk] ELSE chunks[n]]

\* apigen_memory_arena_alloc, with a new chunk.
AllocNewChunk(size) ==
    /\ phase = "live" /\ Len(blocks) < MaxBlocks
    /\ ~HasRoom(AlignSizeForward(size))
    /\ LET taken == AlignSizeForward(size)
           new   == Len(chunks) + 1
           chunk == [memory |-> HeaderSize, size |-> NewChunkSize(taken), next |-> 0,
                     length |-> HeaderSize + NewChunkSize(taken)]
       IN  chunks' = Append(Linked(new), Cut(chunk, taken))
    /\ last' = Len(chunks) + 1
    /\ first' = IF last = 0 THEN Len(chunks) + 1 ELSE first
    /\ freed' = Append(freed, 0)
    /\ HandOut(Len(chunks) + 1, HeaderSize, size)
    /\ UNCHANGED <<phase, cursor>>

\* apigen_alloc panics when malloc fails.
OutOfMemory(size) ==
    /\ phase = "live" /\ Len(blocks) < MaxBlocks
    /\ ~HasRoom(AlignSizeForward(size))
    /\ phase' = "panic"
    /\ UNCHANGED <<chunks, first, last, cursor, freed, blocks, filled>>

\* apigen_memory_arena_deinit: one chunk after the other, its link read first.
Deinit ==
    /\ phase = "live"
    /\ phase' = "freeing"
    /\ cursor' = first
    /\ UNCHANGED <<chunks, first, last, freed, blocks, filled>>

FreeChunk ==
    /\ phase = "freeing" /\ cursor # 0
    /\ cursor' = chunks[cursor].next
    /\ freed' = [freed EXCEPT ![cursor] = @ + 1]
    /\ UNCHANGED <<chunks, first, last, phase, blocks, filled>>

Poison ==
    /\ phase = "freeing" /\ cursor = 0
    /\ phase' = "dead"
    /\ UNCHANGED <<chunks, first, last, cursor, freed, blocks, filled>>

Next ==
    \/ \E size \in Sizes : AllocFromLast(size) \/ AllocNewChunk(size) \/ OutOfMemory(size)
    \/ Deinit \/ FreeChunk \/ Poison

Spec == Init /\ [][Next]_vars

-----------------------------------------------------------------------------
(* Properties.                                                             *)

Chunk == [memory : Nat, size : Nat, next : Nat, length : Nat]
Block == [chunk : Nat, from : Nat, asked : Nat, taken : Nat]

\* Type correctness; in particular no chunk ever has a negative rest.
TypeOK ==
    /\ chunks \in Seq(Chunk)
    /\ first \in 0 .. Len(chunks) /\ last \in 0 .. Len(chunks)
    /\ phase \in {"live", "freeing", "dead", "panic"}
    /\ cursor \in 0 .. Len(chunks)
    /\ freed \in Seq(Nat) /\ Len(freed) = Len(chunks)
    /\ blocks \in Seq(Block)
    /\ filled \in Block

\* A block lies behind the header and before the unused rest of its chunk.
InItsChunk(block) ==
    /\ block.chunk \in 1 .. Len(chunks)
    /\ HeaderSize <= block.from
    /\ block.asked <= block.taken
    /\ block.from + block.taken <= chunks[block.chunk].memory

\* The rest of a chunk ends where the memory from malloc ends.
RestFits(chunk) == chunk.memory + chunk.size = chunk.length

\* No block is smaller than asked for, and none reaches into a header, into
\* unused memory, or beyond its chunk.
BlocksStayInside ==
    /\ \A n \in 1 .. Len(chunks) : RestFits(chunks[n])
    /\ \A b \in 1 .. Len(blocks) : InItsChunk(blocks[b])

\* Two blocks of one chunk share no byte: the later one begins behind the other.
BlocksAreDisjoint ==
    \A a, b \in 1 .. Len(blocks) :
        a < b /\ blocks[a].chunk = blocks[b].chunk =>
            blocks[a].from + blocks[a].taken <= blocks[b].from

\* Every block can hold an object of any type.
BlocksAreAligned == \A b \in 1 .. Len(blocks) : blocks[b].from % Align = 0

Overlap(a, b) == /\ a.chunk = b.chunk
                 /\ a.from < b.from + b.taken /\ b.from < a.from + a.taken

\* Filling a new block, and handing it out, leaves every older block as it was,
\* so that what the program stored there survives until deinit.
OldBlocksSurvive ==
    [][/\ \A b \in 1 .. Len(blocks) : blocks'[b] = blocks[b]
       /\ filled' # filled => \A b \in 1 .. Len(blocks) : ~Overlap(filled', blocks[b])]_vars

\* deinit gives back every chunk, and none of them twice.
ChunksAreFreedOnce ==
    /\ \A n \in 1 .. Len(freed) : freed[n] <= 1
    /\ phase = "dead" => \A n \in 1 .. Len(freed) : freed[n] = 1
=============================================================================
