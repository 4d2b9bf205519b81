---------------------------- MODULE ArenaProofs ----------------------------
(***************************************************************************)
(* Proofs about Arena, for any alignment, chunk size and sizes asked for,  *)
(* and any number of blocks.                                               *)
(***************************************************************************)
EXTENDS Arena, TLAPS

\* The list of chunks holds them in the order of their allocation, without gaps.
ListIsComplete ==
    /\ first = IF Len(chunks) = 0 THEN 0 ELSE 1
    /\ last = Len(chunks)
    /\ \A n \in 1 .. Len(chunks) :
          chunks[n].next = IF n = Len(chunks) THEN 0 ELSE n + 1

\* While the list is walked, the chunks before the cursor are freed.
FreedSoFar ==
    /\ phase \in {"live", "panic"} => \A n \in 1 .. Len(freed) : freed[n] = 0
    /\ phase = "freeing" =>
          \A n \in 1 .. Len(freed) : freed[n] = IF cursor = 0 \/ n < cursor THEN 1 ELSE 0
    /\ phase = "dead" => \A n \in 1 .. Len(freed) : freed[n] = 1

\* A chunk begins with its header.
ChunksBeginWithHeader == \A n \in 1 .. Len(chunks) : HeaderSize <= chunks[n].memory

IInv ==
    /\ TypeOK
    /\ ListIsComplete
    /\ FreedSoFar
    /\ ChunksBeginWithHeader
    /\ BlocksStayInside
    /\ BlocksAreDisjoint

-----------------------------------------------------------------------------
(* Sizes and chunks.                                                       *)

\* A block before the border stays before it when the border moves on.
LEMMA BorderMovesOn ==
    ASSUME NEW from \in Nat, NEW taken \in Nat, NEW border \in Nat, NEW later \in Nat,
           from + taken <= border, border <= later
    PROVE  from + taken <= later
OBVIOUS

\* A size is rounded up, if at all.
LEMMA RoundsUp ==
    ASSUME NEW size \in Nat
    PROVE  AlignSizeForward(size) \in Nat /\ AlignSizeForward(size) >= size
<1>1. Align \in Nat \ {0}
  BY ConstantsAssumption
<1>2. (size + Align - 1) % Align \in 0 .. Align - 1
  BY <1>1
<1> QED
  BY <1>1, <1>2 DEF AlignSizeForward

LEMMA HeaderIsSize == HeaderSize \in Nat
BY RoundsUp, ConstantsAssumption DEF HeaderSize

\* A new chunk has room for the block it is allocated for.
LEMMA NewChunkHasRoom ==
    ASSUME NEW taken \in Nat
    PROVE  NewChunkSize(taken) \in Nat /\ NewChunkSize(taken) >= taken
BY ConstantsAssumption DEF NewChunkSize

\* Cutting a block that has room moves the border between used and unused.
LEMMA CutMovesBorder ==
    ASSUME NEW chunk \in Chunk, NEW taken \in Nat, chunk.size >= taken
    PROVE  /\ Cut(chunk, taken) \in Chunk
           /\ Cut(chunk, taken).memory = chunk.memory + taken
           /\ Cut(chunk, taken).next = chunk.next
           /\ RestFits(chunk) => RestFits(Cut(chunk, taken))
<1>1. chunk.memory \in Nat /\ chunk.size \in Nat /\ chunk.next \in Nat /\ chunk.length \in Nat
  BY DEF Chunk
<1>2. Cut(chunk, taken) = [memory |-> chunk.memory + taken, size |-> chunk.size - taken,
                           next |-> chunk.next, length |-> chunk.length]
  BY DEF Cut, Chunk
<1>3. chunk.memory + taken \in Nat /\ chunk.size - taken \in Nat
  BY <1>1
<1> QED
  BY <1>1, <1>2, <1>3 DEF Chunk, RestFits

\* Linking a chunk to the next one leaves its memory alone.
LEMMA LinkKeepsChunk ==
    ASSUME NEW chunk \in Chunk, NEW n \in Nat
    PROVE  LET linked == [chunk EXCEPT !.next = n]
           IN  /\ linked \in Chunk /\ linked.next = n
               /\ linked.memory = chunk.memory
               /\ linked.size = chunk.size /\ linked.length = chunk.length
BY DEF Chunk

\* The arena has no chunk.
LEMMA InitIInv == Init => IInv
<1> SUFFICES ASSUME Init PROVE IInv
  OBVIOUS
<1>1. /\ chunks = <<>> /\ freed = <<>> /\ blocks = <<>>
      /\ Len(chunks) = 0 /\ Len(freed) = 0 /\ Len(blocks) = 0
  BY DEF Init
<1>2. filled \in Block
  BY DEF Init, Nowhere, Block
<1>3. chunks \in Seq(Chunk) /\ freed \in Seq(Nat) /\ blocks \in Seq(Block)
  BY <1>1
<1>4. TypeOK
  BY <1>1, <1>2, <1>3 DEF Init, TypeOK
<1> QED
  BY <1>1, <1>4 DEF Init, IInv, ListIsComplete, FreedSoFar, ChunksBeginWithHeader,
                    BlocksStayInside, BlocksAreDisjoint

\* What both ways of handing out a block share: the block lies at the border of
\* the used part of a chunk, so it begins behind all blocks of that chunk.
LEMMA HandOutAtBorder ==
    ASSUME IInv, TypeOK', NEW n \in 1 .. Len(chunks'), NEW from \in Nat, NEW size \in Nat,
           HandOut(n, from, size),
           HeaderSize <= from,
           from + AlignSizeForward(size) <= chunks'[n].memory,
           \A m \in 1 .. Len(chunks') : RestFits(chunks'[m]),
           \A m \in 1 .. Len(chunks) :
              m \in 1 .. Len(chunks') /\ chunks[m].memory <= chunks'[m].memory,
           \A b \in 1 .. Len(blocks) : blocks[b].chunk = n =>
              blocks[b].from + blocks[b].taken <= from
    PROVE  BlocksStayInside' /\ BlocksAreDisjoint'
<1> DEFINE block == [chunk |-> n, from |-> from, asked |-> size, taken |-> AlignSizeForward(size)]
<1>1. /\ blocks' = Append(blocks, block)
      /\ blocks \in Seq(Block) /\ chunks \in Seq(Chunk) /\ chunks' \in Seq(Chunk)
  BY DEF HandOut, IInv, TypeOK
<1>2. /\ Len(blocks') = Len(blocks) + 1
      /\ blocks'[Len(blocks) + 1] = block
      /\ \A b \in 1 .. Len(blocks) : blocks'[b] = blocks[b]
  BY <1>1
<1>3. /\ HeaderSize \in Nat /\ AlignSizeForward(size) \in Nat /\ AlignSizeForward(size) >= size
      /\ \A b \in 1 .. Len(blocks) : blocks[b] \in Block
      /\ \A m \in 1 .. Len(chunks) : chunks[m].memory \in Nat /\ chunks'[m].memory \in Nat
  <2>1. \A m \in 1 .. Len(chunks) : chunks[m] \in Chunk /\ chunks'[m] \in Chunk
    BY <1>1
  <2>2. \A m \in 1 .. Len(chunks) : chunks[m].memory \in Nat /\ chunks'[m].memory \in Nat
    BY <2>1 DEF Chunk
  <2>3. \A b \in 1 .. Len(blocks) : blocks[b] \in Block
    BY <1>1
  <2> QED
    BY <2>2, <2>3, HeaderIsSize, RoundsUp
<1>4. BlocksStayInside'
  <2>1. ASSUME NEW b \in 1 .. Len(blocks)
        PROVE  InItsChunk(blocks[b])'
    <3>1. InItsChunk(blocks[b])
      BY DEF IInv, BlocksStayInside
    <3>2. blocks'[b] = blocks[b] /\ blocks[b] \in Block
      BY <1>2, <1>3
    <3> DEFINE home == blocks[b].chunk
    <3>3. /\ home \in 1 .. Len(chunks) /\ HeaderSize <= blocks[b].from
          /\ blocks[b].asked <= blocks[b].taken
          /\ blocks[b].from + blocks[b].taken <= chunks[home].memory
      BY <3>1 DEF InItsChunk
    <3>4. home \in 1 .. Len(chunks') /\ chunks[home].memory <= chunks'[home].memory
      BY <3>3
    <3>5. /\ blocks[b].from \in Nat /\ blocks[b].taken \in Nat
          /\ chunks[home].memory \in Nat /\ chunks'[home].memory \in Nat
      BY <1>3, <3>2, <3>3 DEF Block
    <3>6. blocks[b].from + blocks[b].taken <= chunks'[home].memory
      BY <3>3, <3>4, <3>5, BorderMovesOn
    <3>7. HeaderSize' = HeaderSize
      BY DEF HeaderSize, AlignSizeForward
    <3> QED
      BY <3>2, <3>3, <3>4, <3>6, <3>7 DEF InItsChunk
  <2>2. InItsChunk(blocks[Len(blocks)])'
    BY <1>2, <1>3 DEF InItsChunk
  <2> QED
    BY <2>1, <2>2, <1>1, <1>2 DEF BlocksStayInside
<1>5. BlocksAreDisjoint'
  <2> SUFFICES ASSUME NEW a \in 1 .. Len(blocks'), NEW b \in 1 .. Len(blocks'),
                      a < b, blocks'[a].chunk = blocks'[b].chunk
               PROVE  blocks'[a].from + blocks'[a].taken <= blocks'[b].from
    BY DEF BlocksAreDisjoint
  <2>1. a \in 1 .. Len(blocks) /\ blocks'[a] = blocks[a]
    BY <1>1, <1>2
  <2>2. CASE b \in 1 .. Len(blocks)
    BY <2>1, <2>2, <1>2 DEF IInv, BlocksAreDisjoint
  <2>3. CASE b = Len(blocks) + 1
    BY <2>1, <2>3, <1>2
  <2> QED
    BY <2>2, <2>3, <1>1, <1>2
<1> QED
  BY <1>4, <1>5

\* A block is an element of Block.
LEMMA HandOutIsBlock ==
    ASSUME TypeOK, NEW n \in Nat, NEW from \in Nat, NEW size \in Nat, HandOut(n, from, size)
    PROVE  blocks' \in Seq(Block) /\ filled' \in Block
<1>1. AlignSizeForward(size) \in Nat
  BY RoundsUp
<1>2. [chunk |-> n, from |-> from, asked |-> size, taken |-> AlignSizeForward(size)] \in Block
  BY <1>1 DEF Block
<1> QED
  BY <1>2 DEF HandOut, TypeOK

-----------------------------------------------------------------------------
(* The steps.                                                              *)

LEMMA AllocFromLastStep ==
    ASSUME IInv, NEW size \in Sizes, AllocFromLast(size)
    PROVE  IInv'
<1> DEFINE taken == AlignSizeForward(size)
<1>1. size \in Nat /\ taken \in Nat
  BY RoundsUp, ConstantsAssumption
<1>2. /\ last \in 1 .. Len(chunks) /\ chunks[last] \in Chunk /\ chunks[last].size >= taken
      /\ chunks \in Seq(Chunk) /\ last = Len(chunks)
  BY DEF AllocFromLast, HasRoom, IInv, TypeOK, ListIsComplete
<1> HIDE DEF taken
<1>3. /\ Cut(chunks[last], taken) \in Chunk
      /\ Cut(chunks[last], taken).memory = chunks[last].memory + taken
      /\ Cut(chunks[last], taken).next = chunks[last].next
      /\ RestFits(chunks[last]) => RestFits(Cut(chunks[last], taken))
  BY <1>1, <1>2, CutMovesBorder
<1>4. /\ chunks' \in Seq(Chunk) /\ Len(chunks') = Len(chunks)
      /\ \A n \in 1 .. Len(chunks) :
            chunks'[n] = IF n = last THEN Cut(chunks[last], taken) ELSE chunks[n]
  BY <1>2, <1>3 DEF AllocFromLast, taken
<1>5. chunks[last].memory \in Nat
  BY <1>2 DEF Chunk
<1>6. TypeOK'
  <2>1. blocks' \in Seq(Block) /\ filled' \in Block
    BY <1>1, <1>2, <1>5, HandOutIsBlock DEF AllocFromLast, IInv
  <2> QED
    BY <2>1, <1>4 DEF AllocFromLast, IInv, TypeOK
<1>7. ListIsComplete' /\ FreedSoFar'
  BY <1>3, <1>4 DEF AllocFromLast, IInv, ListIsComplete, FreedSoFar
<1>8. \A m \in 1 .. Len(chunks) : chunks[m].memory \in Nat /\ chunks[m].memory <= chunks'[m].memory
  <2> SUFFICES ASSUME NEW m \in 1 .. Len(chunks)
               PROVE  chunks[m].memory \in Nat /\ chunks[m].memory <= chunks'[m].memory
    OBVIOUS
  <2>1. chunks[m] \in Chunk
    BY <1>2
  <2>2. chunks[m].memory \in Nat
    BY <2>1 DEF Chunk
  <2> QED
    BY <2>2, <1>1, <1>3, <1>4
<1>9. ChunksBeginWithHeader'
  <2>1. HeaderSize \in Nat /\ HeaderSize' = HeaderSize
    BY HeaderIsSize DEF HeaderSize, AlignSizeForward
  <2>2. \A m \in 1 .. Len(chunks) : chunks'[m].memory \in Nat
    BY <1>4, <1>8, <1>3, <1>1
  <2> QED
    BY <2>1, <2>2, <1>4, <1>8 DEF IInv, ChunksBeginWithHeader
<1>10. \A m \in 1 .. Len(chunks') : RestFits(chunks'[m])
  BY <1>3, <1>4 DEF IInv, BlocksStayInside
<1>11. \A b \in 1 .. Len(blocks) : blocks[b].chunk = last =>
          blocks[b].from + blocks[b].taken <= chunks[last].memory
  BY DEF IInv, BlocksStayInside, InItsChunk
<1>12. HeaderSize <= chunks[last].memory
  BY <1>2 DEF IInv, ChunksBeginWithHeader
<1>13. chunks[last].memory + taken <= chunks'[last].memory
  BY <1>1, <1>2, <1>3, <1>4, <1>5
<1>14. HandOut(last, chunks[last].memory, size)
  BY DEF AllocFromLast
<1>15. BlocksStayInside' /\ BlocksAreDisjoint'
  BY <1>1, <1>2, <1>4, <1>5, <1>6, <1>8, <1>10, <1>11, <1>12, <1>13, <1>14, HandOutAtBorder DEF taken
<1> QED
  BY <1>6, <1>7, <1>9, <1>15 DEF IInv

LEMMA AllocNewChunkStep ==
    ASSUME IInv, NEW size \in Sizes, AllocNewChunk(size)
    PROVE  IInv'
<1> DEFINE taken == AlignSizeForward(size)
           new   == Len(chunks) + 1
           chunk == [memory |-> HeaderSize, size |-> NewChunkSize(taken), next |-> 0,
                     length |-> HeaderSize + NewChunkSize(taken)]
<1>1. /\ size \in Nat /\ taken \in Nat /\ HeaderSize \in Nat
      /\ NewChunkSize(taken) \in Nat /\ NewChunkSize(taken) >= taken
  BY RoundsUp, ConstantsAssumption, HeaderIsSize, NewChunkHasRoom
<1>2. chunk \in Chunk /\ chunk.size >= taken /\ RestFits(chunk)
      /\ chunk.memory = HeaderSize /\ chunk.next = 0
  BY <1>1 DEF Chunk, RestFits
<1>3. chunks' = Append(Linked(new), Cut(chunk, taken)) /\ HandOut(new, HeaderSize, size)
  BY DEF AllocNewChunk
<1> HIDE DEF taken, chunk
<1>4. /\ Cut(chunk, taken) \in Chunk
      /\ Cut(chunk, taken).memory = HeaderSize + taken
      /\ Cut(chunk, taken).next = 0
      /\ RestFits(Cut(chunk, taken))
  BY <1>1, <1>2, CutMovesBorder
<1>5. /\ chunks \in Seq(Chunk) /\ last = Len(chunks) /\ Len(chunks) \in Nat
      /\ first = IF Len(chunks) = 0 THEN 0 ELSE 1
  BY DEF IInv, TypeOK, ListIsComplete
<1>6. \A n \in 1 .. Len(chunks) :
        /\ chunks[n] \in Chunk
        /\ Linked(new)[n] \in Chunk
        /\ Linked(new)[n].memory = chunks[n].memory /\ chunks[n].memory \in Nat
        /\ Linked(new)[n].next = n + 1
        /\ RestFits(Linked(new)[n])
  <2> SUFFICES ASSUME NEW n \in 1 .. Len(chunks)
               PROVE  /\ chunks[n] \in Chunk
                      /\ Linked(new)[n] \in Chunk
                      /\ Linked(new)[n].memory = chunks[n].memory /\ chunks[n].memory \in Nat
                      /\ Linked(new)[n].next = n + 1
                      /\ RestFits(Linked(new)[n])
    OBVIOUS
  <2>1. chunks[n] \in Chunk /\ RestFits(chunks[n])
    BY <1>5 DEF IInv, BlocksStayInside
  <2>2. Linked(new)[n] = IF n = last THEN [chunks[n] EXCEPT !.next = new] ELSE chunks[n]
    BY DEF Linked
  <2>3. n # last => chunks[n].next = n + 1
    BY <1>5 DEF IInv, ListIsComplete
  <2>4. chunks[n].memory \in Nat
    BY <2>1 DEF Chunk
  <2>5. CASE n = last
    <3> DEFINE linked == [chunks[n] EXCEPT !.next = new]
    <3>1. Linked(new)[n] = linked
      BY <2>2, <2>5
    <3>2. new \in Nat /\ n + 1 = new
      BY <1>5, <2>5
    <3>3. /\ linked \in Chunk /\ linked.next = new
          /\ linked.memory = chunks[n].memory
          /\ linked.size = chunks[n].size /\ linked.length = chunks[n].length
      BY <2>1, <3>2, LinkKeepsChunk
    <3> HIDE DEF linked
    <3>4. RestFits(linked)
      BY <2>1, <3>3 DEF RestFits
    <3> QED
      BY <2>1, <2>4, <3>1, <3>2, <3>3, <3>4
  <2>6. CASE n # last
    BY <2>1, <2>2, <2>3, <2>4, <2>6
  <2> QED
    BY <2>5, <2>6
<1>7. Linked(new) \in Seq(Chunk) /\ Len(Linked(new)) = Len(chunks)
  <2>1. Linked(new) \in [1 .. Len(chunks) -> Chunk]
    BY <1>6 DEF Linked
  <2> QED
    BY <2>1, <1>5
<1>8. /\ chunks' \in Seq(Chunk) /\ Len(chunks') = new
      /\ chunks'[new] = Cut(chunk, taken)
      /\ \A n \in 1 .. Len(chunks) : chunks'[n] = Linked(new)[n]
  BY <1>3, <1>4, <1>5, <1>7
<1>9. freed' \in Seq(Nat) /\ Len(freed') = new
      /\ freed'[new] = 0 /\ \A n \in 1 .. Len(freed) : freed'[n] = freed[n]
  BY <1>5 DEF AllocNewChunk, IInv, TypeOK
<1>10. TypeOK'
  <2>1. blocks' \in Seq(Block) /\ filled' \in Block
    BY <1>1, <1>3, <1>5, HandOutIsBlock DEF IInv
  <2>2. /\ first' \in 0 .. new /\ last' \in 0 .. new /\ cursor' \in 0 .. new
        /\ phase' \in {"live", "freeing", "dead", "panic"}
    BY <1>5 DEF AllocNewChunk, IInv, TypeOK
  <2> QED
    BY <2>1, <2>2, <1>8, <1>9 DEF TypeOK
<1>11. ListIsComplete'
  <2>1. last' = new /\ first' = 1
    BY <1>5 DEF AllocNewChunk
  <2>2. \A n \in 1 .. new : chunks'[n].next = IF n = new THEN 0 ELSE n + 1
    BY <1>4, <1>5, <1>6, <1>8
  <2> QED
    BY <2>1, <2>2, <1>5, <1>8 DEF ListIsComplete
<1>12. FreedSoFar'
  <2>1. phase' = "live" /\ phase = "live"
    BY DEF AllocNewChunk
  <2>2. \A n \in 1 .. Len(freed) : freed[n] = 0
    BY <2>1 DEF IInv, FreedSoFar
  <2>3. Len(freed) = Len(chunks)
    BY DEF IInv, TypeOK
  <2> QED
    BY <2>1, <2>2, <2>3, <1>5, <1>9 DEF FreedSoFar
<1>13. ChunksBeginWithHeader'
  <2>1. HeaderSize' = HeaderSize
    BY DEF HeaderSize, AlignSizeForward
  <2> SUFFICES ASSUME NEW n \in 1 .. new PROVE HeaderSize <= chunks'[n].memory
    BY <2>1, <1>8 DEF ChunksBeginWithHeader
  <2>2. CASE n = new
    <3>1. chunks'[n].memory = HeaderSize + taken
      BY <2>2, <1>4, <1>8
    <3> QED
      BY <3>1, <1>1
  <2>3. CASE n \in 1 .. Len(chunks)
    <3>1. chunks'[n].memory = chunks[n].memory
      BY <2>3, <1>6, <1>8
    <3>2. HeaderSize <= chunks[n].memory
      BY <2>3 DEF IInv, ChunksBeginWithHeader
    <3> QED
      BY <3>1, <3>2
  <2>4. n = new \/ n \in 1 .. Len(chunks)
    BY <1>5
  <2> QED
    BY <2>2, <2>3, <2>4
<1>14. /\ \A m \in 1 .. Len(chunks') : RestFits(chunks'[m])
       /\ \A m \in 1 .. Len(chunks) :
             m \in 1 .. Len(chunks') /\ chunks[m].memory <= chunks'[m].memory
  BY <1>4, <1>5, <1>6, <1>8
<1>15. \A b \in 1 .. Len(blocks) : blocks[b].chunk # new
  BY <1>5 DEF IInv, BlocksStayInside, InItsChunk
<1>16. new \in 1 .. Len(chunks') /\ HeaderSize <= HeaderSize
       /\ HeaderSize + taken <= chunks'[new].memory
  BY <1>1, <1>4, <1>5, <1>8
<1>17. BlocksStayInside' /\ BlocksAreDisjoint'
  BY <1>1, <1>3, <1>10, <1>14, <1>15, <1>16, HandOutAtBorder DEF taken
<1> QED
  BY <1>10, <1>11, <1>12, <1>13, <1>17 DEF IInv

\* Steps that leave the chunks and the blocks alone.
LEMMA OtherSteps ==
    ASSUME IInv,
           \/ \E size \in Sizes : OutOfMemory(size)
           \/ Deinit \/ FreeChunk \/ Poison
           \/ UNCHANGED vars
    PROVE  IInv'
<1>1. UNCHANGED <<chunks, first, last, blocks, filled>>
  BY DEF OutOfMemory, Deinit, FreeChunk, Poison, vars
<1>2. /\ ListIsComplete' /\ ChunksBeginWithHeader' /\ BlocksStayInside' /\ BlocksAreDisjoint'
      /\ (TypeOK /\ freed' \in Seq(Nat) /\ Len(freed') = Len(chunks)
            /\ cursor' \in 0 .. Len(chunks)
            /\ phase' \in {"live", "freeing", "dead", "panic"} => TypeOK')
  BY <1>1 DEF IInv, TypeOK, ListIsComplete, ChunksBeginWithHeader, BlocksStayInside,
              BlocksAreDisjoint, InItsChunk
<1>3. /\ Len(freed) = Len(chunks) /\ freed \in Seq(Nat) /\ cursor \in 0 .. Len(chunks)
      /\ first = IF Len(chunks) = 0 THEN 0 ELSE 1
      /\ Len(chunks) \in Nat
  BY DEF IInv, TypeOK, ListIsComplete
<1>4. CASE \E size \in Sizes : OutOfMemory(size)
  BY <1>2, <1>3, <1>4 DEF OutOfMemory, IInv, TypeOK, FreedSoFar
<1>5. CASE Deinit
  BY <1>2, <1>3, <1>5 DEF Deinit, IInv, TypeOK, FreedSoFar
<1>6. CASE FreeChunk
  <2>1. /\ cursor \in 1 .. Len(chunks)
        /\ chunks[cursor].next = IF cursor = Len(chunks) THEN 0 ELSE cursor + 1
    BY <1>3, <1>6 DEF FreeChunk, IInv, ListIsComplete
  <2>2. \A n \in 1 .. Len(freed) : freed[n] = IF n < cursor THEN 1 ELSE 0
    BY <1>6 DEF FreeChunk, IInv, FreedSoFar
  <2>3. /\ freed' = [freed EXCEPT ![cursor] = @ + 1]
        /\ cursor' = chunks[cursor].next /\ phase' = "freeing"
    BY <1>6 DEF FreeChunk
  <2>4. /\ freed' \in Seq(Nat) /\ Len(freed') = Len(freed)
        /\ \A n \in 1 .. Len(freed) : freed'[n] = IF n = cursor THEN freed[n] + 1 ELSE freed[n]
    BY <2>1, <2>3, <1>3
  <2>5. FreedSoFar'
    BY <2>1, <2>2, <2>3, <2>4, <1>3 DEF FreedSoFar
  <2>6. TypeOK'
    BY <2>1, <2>3, <2>4, <1>2, <1>3 DEF IInv
  <2> QED
    BY <2>5, <2>6, <1>2 DEF IInv
<1>7. CASE Poison
  BY <1>2, <1>3, <1>7 DEF Poison, IInv, TypeOK, FreedSoFar
<1>8. CASE UNCHANGED vars
  BY <1>2, <1>3, <1>8 DEF vars, IInv, TypeOK, FreedSoFar
<1> QED
  BY <1>4, <1>5, <1>6, <1>7, <1>8

LEMMA StepKeepsIInv == IInv /\ [Next]_vars => IInv'
BY AllocFromLastStep, AllocNewChunkStep, OtherSteps DEF Next

\* Invariance: every reachable state satisfies the inductive invariant.
THEOREM Invariance == Spec => []IInv
BY InitIInv, StepKeepsIInv, PTL DEF Spec

-----------------------------------------------------------------------------
(* What the invariant gives.                                               *)

\* No chunk has a negative rest, and no link leads out of the list
\* (apigen_memory_arena_alloc).
THEOREM TypeCorrect == Spec => []TypeOK
<1>1. IInv => TypeOK
  BY DEF IInv
<1> QED
  BY <1>1, Invariance, PTL

\* apigen_memory_arena_alloc never hands out memory it does not own.
THEOREM Inside == Spec => []BlocksStayInside
<1>1. IInv => BlocksStayInside
  BY DEF IInv
<1> QED
  BY <1>1, Invariance, PTL

\* Two calls of apigen_memory_arena_alloc never return overlapping blocks.
THEOREM Disjoint == Spec => []BlocksAreDisjoint
<1>1. IInv => BlocksAreDisjoint
  BY DEF IInv
<1> QED
  BY <1>1, Invariance, PTL

\* apigen_memory_arena_deinit gives back every chunk once.
THEOREM FreedOnce == Spec => []ChunksAreFreedOnce
<1>1. IInv => ChunksAreFreedOnce
  <2> SUFFICES ASSUME IInv, NEW n \in 1 .. Len(freed)
               PROVE  freed[n] <= 1 /\ (phase = "dead" => freed[n] = 1)
    BY DEF ChunksAreFreedOnce
  <2>1. phase \in {"live", "freeing", "dead", "panic"}
    BY DEF IInv, TypeOK
  <2> QED
    BY <2>1 DEF IInv, FreedSoFar
<1> QED
  BY <1>1, Invariance, PTL

\* Filling a new block (the memset of apigen_memory_arena_alloc) touches no
\* block the program still uses.
THEOREM ContentsSurvive == Spec => OldBlocksSurvive
<1> DEFINE Survive == /\ \A b \in 1 .. Len(blocks) : blocks'[b] = blocks[b]
                      /\ filled' # filled =>
                            \A b \in 1 .. Len(blocks) : ~Overlap(filled', blocks[b])
<1>1. IInv /\ IInv' /\ [Next]_vars => Survive
  <2> SUFFICES ASSUME IInv, IInv', [Next]_vars PROVE Survive
    OBVIOUS
  <2>1. CASE UNCHANGED <<blocks, filled>>
    BY <2>1
  <2>2. ASSUME NEW n \in Nat, NEW from \in Nat, NEW size \in Nat, HandOut(n, from, size)
        PROVE  Survive
    <3>1. /\ blocks \in Seq(Block) /\ blocks' = Append(blocks, filled') /\ filled' \in Block
      BY <2>2 DEF HandOut, IInv, TypeOK
    <3>2. /\ Len(blocks') = Len(blocks) + 1 /\ blocks'[Len(blocks) + 1] = filled'
          /\ \A b \in 1 .. Len(blocks) : blocks'[b] = blocks[b] /\ blocks[b] \in Block
      BY <3>1
    <3>3. ASSUME NEW b \in 1 .. Len(blocks), blocks[b].chunk = filled'.chunk
          PROVE  blocks[b].from + blocks[b].taken <= filled'.from
      <4>1. /\ b \in 1 .. Len(blocks') /\ Len(blocks) + 1 \in 1 .. Len(blocks')
            /\ b < Len(blocks) + 1
        BY <3>1, <3>2
      <4>2. BlocksAreDisjoint'
        BY DEF IInv
      <4> QED
        BY <3>2, <3>3, <4>1, <4>2 DEF BlocksAreDisjoint
    <3>4. ASSUME NEW b \in 1 .. Len(blocks) PROVE ~Overlap(filled', blocks[b])
      <4>1. /\ blocks[b].from \in Nat /\ blocks[b].taken \in Nat
            /\ filled'.from \in Nat /\ filled'.taken \in Nat
        BY <3>1, <3>2 DEF Block
      <4>2. CASE blocks[b].chunk = filled'.chunk
        <5>1. blocks[b].from + blocks[b].taken <= filled'.from
          BY <3>3, <4>2
        <5>2. ~(filled'.from < blocks[b].from + blocks[b].taken)
          BY <4>1, <5>1
        <5> QED
          BY <5>2 DEF Overlap
      <4>3. CASE blocks[b].chunk # filled'.chunk
        BY <4>3 DEF Overlap
      <4> QED
        BY <4>2, <4>3
    <3> QED
      BY <3>2, <3>4
  <2>3. ASSUME NEW size \in Sizes, AllocFromLast(size) PROVE Survive
    <3>1. last \in Nat /\ size \in Nat /\ chunks[last] \in Chunk
      BY <2>3, ConstantsAssumption DEF AllocFromLast, HasRoom, IInv, TypeOK
    <3>2. chunks[last].memory \in Nat
      BY <3>1 DEF Chunk
    <3> QED
      BY <3>1, <3>2, <2>2, <2>3 DEF AllocFromLast
  <2>4. ASSUME NEW size \in Sizes, AllocNewChunk(size) PROVE Survive
    <3>1. Len(chunks) + 1 \in Nat /\ size \in Nat /\ HeaderSize \in Nat
      BY HeaderIsSize, ConstantsAssumption DEF IInv, TypeOK
    <3> QED
      BY <3>1, <2>2, <2>4 DEF AllocNewChunk
  <2> QED
    BY <2>1, <2>3, <2>4 DEF Next, OutOfMemory, Deinit, FreeChunk, Poison, vars
<1>2. Survive => [Survive]_vars
  OBVIOUS
<1> QED
  BY <1>1, Invariance, PTL DEF Spec, OldBlocksSurvive

-----------------------------------------------------------------------------
(* Alignment.                                                              *)

IsAligned(n) == \E k \in Nat : n = Align * k

\* Chunks are cut at multiples of the alignment, so the blocks begin at such.
AlignedInv ==
    /\ \A n \in 1 .. Len(chunks) : IsAligned(chunks[n].memory)
    /\ \A b \in 1 .. Len(blocks) : IsAligned(blocks[b].from)

\* Aligned blocks one behind the other end at an aligned offset.
LEMMA AlignedSum ==
    ASSUME NEW m, NEW n, IsAligned(m), IsAligned(n)
    PROVE  IsAligned(m + n)
<1>1. PICK i \in Nat : m = Align * i
  BY DEF IsAligned
<1>2. PICK j \in Nat : n = Align * j
  BY DEF IsAligned
<1>3. m + n = Align * (i + j) /\ i + j \in Nat
  BY <1>1, <1>2, ConstantsAssumption
<1> QED
  BY <1>3 DEF IsAligned

\* Clearing the remainder rounds to a multiple of the alignment.
LEMMA RoundedIsAligned ==
    ASSUME NEW size \in Nat
    PROVE  IsAligned(AlignSizeForward(size))
<1> DEFINE x == size + Align - 1
<1>1. Align \in Nat \ {0} /\ x \in Nat
  BY ConstantsAssumption
<1> HIDE DEF x
<1>2. x = Align * (x \div Align) + (x % Align) /\ x \div Align \in Nat /\ x % Align \in Nat
  BY <1>1
<1>3. Align * (x \div Align) \in Nat
  BY <1>1, <1>2
<1>4. x - (x % Align) = Align * (x \div Align)
  BY <1>1, <1>2, <1>3
<1> QED
  BY <1>2, <1>4 DEF AlignSizeForward, IsAligned, x

\* A multiple of the alignment leaves no remainder.
LEMMA AlignedHasNoRest == ASSUME NEW n, IsAligned(n) PROVE n % Align = 0
<1>1. PICK k \in Nat : n = Align * k
  BY DEF IsAligned
<1>2. Align \in Nat \ {0}
  BY ConstantsAssumption
<1>3. (Align * k) % Align = 0
  BY <1>2
<1> QED
  BY <1>1, <1>3

\* The block handed out begins where the chunk was cut before.
LEMMA HandOutAligned ==
    ASSUME IInv, AlignedInv, NEW n, NEW from, NEW size, HandOut(n, from, size), IsAligned(from)
    PROVE  \A b \in 1 .. Len(blocks') : IsAligned(blocks'[b].from)
<1> DEFINE block == [chunk |-> n, from |-> from, asked |-> size, taken |-> AlignSizeForward(size)]
<1>1. blocks' = Append(blocks, block) /\ blocks \in Seq(Block) /\ block.from = from
  BY DEF HandOut, IInv, TypeOK
<1> HIDE DEF block
<1>2. /\ Len(blocks') = Len(blocks) + 1 /\ Len(blocks) \in Nat
      /\ blocks'[Len(blocks) + 1] = block
      /\ \A b \in 1 .. Len(blocks) : blocks'[b] = blocks[b]
  BY <1>1
<1> SUFFICES ASSUME NEW b \in 1 .. Len(blocks') PROVE IsAligned(blocks'[b].from)
  OBVIOUS
<1>3. CASE b \in 1 .. Len(blocks)
  BY <1>2, <1>3 DEF AlignedInv
<1>4. CASE b = Len(blocks) + 1
  BY <1>1, <1>2, <1>4
<1> QED
  BY <1>2, <1>3, <1>4

\* Both ways of handing out a block cut a chunk at an aligned offset.
LEMMA StepKeepsAligned == IInv /\ AlignedInv /\ [Next]_vars => AlignedInv'
<1> SUFFICES ASSUME IInv, AlignedInv, [Next]_vars PROVE AlignedInv'
  OBVIOUS
<1>1. chunks \in Seq(Chunk) /\ Len(chunks) \in Nat
  BY DEF IInv, TypeOK
<1>2. ASSUME NEW size \in Sizes, AllocFromLast(size) PROVE AlignedInv'
  <2> DEFINE taken == AlignSizeForward(size)
  <2>1. size \in Nat /\ taken \in Nat /\ IsAligned(taken)
    BY RoundsUp, RoundedIsAligned, ConstantsAssumption
  <2>2. /\ last \in 1 .. Len(chunks) /\ chunks[last] \in Chunk /\ chunks[last].size >= taken
        /\ IsAligned(chunks[last].memory)
    BY <1>1, <1>2 DEF AllocFromLast, HasRoom, IInv, TypeOK, ListIsComplete, AlignedInv
  <2>3. Cut(chunks[last], taken).memory = chunks[last].memory + taken
    BY <2>1, <2>2, CutMovesBorder
  <2>4. IsAligned(Cut(chunks[last], taken).memory)
    BY <2>1, <2>2, <2>3, AlignedSum
  <2>5. /\ Len(chunks') = Len(chunks)
        /\ \A n \in 1 .. Len(chunks) :
              chunks'[n] = IF n = last THEN Cut(chunks[last], taken) ELSE chunks[n]
    BY <1>1, <1>2, <2>2 DEF AllocFromLast
  <2>6. \A n \in 1 .. Len(chunks') : IsAligned(chunks'[n].memory)
    BY <2>4, <2>5 DEF AlignedInv
  <2>7. \A b \in 1 .. Len(blocks') : IsAligned(blocks'[b].from)
    BY <1>2, <2>2, HandOutAligned DEF AllocFromLast
  <2> QED
    BY <2>6, <2>7 DEF AlignedInv, IsAligned
<1>3. ASSUME NEW size \in Sizes, AllocNewChunk(size) PROVE AlignedInv'
  <2> DEFINE taken == AlignSizeForward(size)
             new   == Len(chunks) + 1
             chunk == [memory |-> HeaderSize, size |-> NewChunkSize(taken), next |-> 0,
                       length |-> HeaderSize + NewChunkSize(taken)]
  <2>1. /\ size \in Nat /\ taken \in Nat /\ HeaderSize \in Nat
        /\ IsAligned(taken) /\ IsAligned(HeaderSize)
        /\ NewChunkSize(taken) \in Nat /\ NewChunkSize(taken) >= taken
    BY RoundsUp, RoundedIsAligned, ConstantsAssumption, HeaderIsSize, NewChunkHasRoom DEF HeaderSize
  <2>2. chunk \in Chunk /\ chunk.size >= taken /\ chunk.memory = HeaderSize
    BY <2>1 DEF Chunk
  <2>3. chunks' = Append(Linked(new), Cut(chunk, taken)) /\ HandOut(new, HeaderSize, size)
    BY <1>3 DEF AllocNewChunk
  <2> HIDE DEF taken, chunk
  <2>4. IsAligned(Cut(chunk, taken).memory)
    BY <2>1, <2>2, CutMovesBorder, AlignedSum
  <2>5. ASSUME NEW n \in 1 .. Len(chunks) PROVE IsAligned(Linked(new)[n].memory)
    <3>1. chunks[n] \in Chunk /\ new \in Nat
      BY <1>1
    <3>2. [chunks[n] EXCEPT !.next = new].memory = chunks[n].memory
      BY <3>1, LinkKeepsChunk
    <3>3. Linked(new)[n].memory = chunks[n].memory
      BY <3>2 DEF Linked
    <3> QED
      BY <3>3 DEF AlignedInv
  <2>6. /\ Len(chunks') = new /\ chunks'[new] = Cut(chunk, taken)
        /\ \A n \in 1 .. Len(chunks) : chunks'[n] = Linked(new)[n]
    <3> DEFINE linked == Linked(new)
    <3>1. linked \in Seq({linked[n] : n \in 1 .. Len(chunks)}) /\ Len(linked) = Len(chunks)
      <4>1. linked = [n \in 1 .. Len(chunks) |-> linked[n]]
        BY DEF Linked
      <4> HIDE DEF linked
      <4> QED
        BY <1>1, <4>1
    <3> HIDE DEF linked
    <3> QED
      BY <1>1, <2>3, <3>1 DEF linked
  <2>7. \A n \in 1 .. Len(chunks') : IsAligned(chunks'[n].memory)
    BY <1>1, <2>4, <2>5, <2>6
  <2>8. \A b \in 1 .. Len(blocks') : IsAligned(blocks'[b].from)
    BY <2>1, <2>3, HandOutAligned
  <2> QED
    BY <2>7, <2>8 DEF AlignedInv, IsAligned
<1>4. CASE UNCHANGED <<chunks, blocks>>
  BY <1>4 DEF AlignedInv
<1> QED
  BY <1>2, <1>3, <1>4 DEF Next, OutOfMemory, Deinit, FreeChunk, Poison, vars

\* Every block from apigen_memory_arena_alloc can hold an object of any type.
THEOREM Aligned == Spec => []BlocksAreAligned
<1>1. Init => AlignedInv
  BY DEF Init, AlignedInv
<1>2. AlignedInv => BlocksAreAligned
  BY AlignedHasNoRest DEF AlignedInv, BlocksAreAligned
<1> QED
  BY <1>1, <1>2, StepKeepsAligned, Invariance, PTL DEF Spec
=============================================================================
