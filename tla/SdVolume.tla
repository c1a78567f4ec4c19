----------------------------- MODULE SdVolume -----------------------------
(***************************************************************************)
(* The volume of the SD library: a FAT16 file system on a card of blocks,  *)
(* seen through a cache of one block (SdVolume.cpp).                       *)
(*                                                                         *)
(* An operation is an operator on a record `s': the card, the static       *)
(* members of SdVolume, the file handle, the block writes sent so far, and *)
(* `ok', the result.  Once it is false an operation does nothing more, as  *)
(* every function of the library returns at the first failure: so a        *)
(* sequence of calls is a composition of operators.  A value a function    *)
(* returns through a pointer is s.val.                                     *)
(*                                                                         *)
(* The layout of a block number is kept, its arithmetic is not: a block is *)
(* a region of the card and a number in it.  A block of data holds units   *)
(* instead of bytes.                                                       *)
(***************************************************************************)
EXTENDS Integers, Sequences, FiniteSets, TLC

CONSTANTS ClusterCount,     \* clusters of the volume, numbered from 2
          BlocksPerCluster,
          BlockSize,        \* units in a block
          RootEntries,      \* entries of the root directory (FAT16: fixed)
          EntriesPerBlock,
          FatPerBlock,      \* entries of the FAT in a block
          FatCount,         \* tables: with two, the second mirrors the first
          Names             \* the names of files

ASSUME VolumeAssumption ==
  /\ {ClusterCount, BlocksPerCluster, BlockSize, RootEntries, EntriesPerBlock,
      FatPerBlock} \subseteq Nat \ {0}
  /\ FatCount \in {1, 2}
  /\ {"free", "deleted"} \cap Names = {}

-----------------------------------------------------------------------------
FatEnd   == ClusterCount + 1
Clusters == 2..FatEnd
EOC      == FatEnd + 1      \* what marks the end of a chain; 0 is a free cluster
isEOC(c) == c >= EOC

Block(region, n) == [region |-> region, n |-> n]
NoBlock          == Block("none", 0)            \* 0XFFFFFFFF
FatBlock(c)      == Block("fat", c \div FatPerBlock)
Mirror(b)        == Block("mirror", b.n)
RootBlock(i)     == Block("root", i \div EntriesPerBlock)

\* blockNumber: the block of a cluster that holds a position of the file.
blockOfCluster(pos) == (pos \div BlockSize) % BlocksPerCluster
DataBlock(c, pos)   == Block("data", (c - 2) * BlocksPerCluster + blockOfCluster(pos))

FreeEntry == [name |-> "free", first |-> 0, size |-> 0]

\* The card as formatted.
FatContent(b) == [i \in 0..FatPerBlock - 1 |->
                    IF b.n * FatPerBlock + i \in Clusters THEN 0 ELSE EOC]
FormattedCard ==
  [b \in {FatBlock(c) : c \in 0..FatEnd} |-> FatContent(b)]
  @@ [b \in {Mirror(FatBlock(c)) : c \in IF FatCount = 2 THEN 0..FatEnd ELSE {}} |->
        FatContent(b)]
  @@ [b \in {RootBlock(i) : i \in 0..RootEntries - 1} |->
        [i \in 0..EntriesPerBlock - 1 |-> FreeEntry]]
  @@ [b \in {Block("data", i) : i \in 0..ClusterCount * BlocksPerCluster - 1} |->
        [i \in 0..BlockSize - 1 |-> "old"]]

-----------------------------------------------------------------------------
(* The card and the cache.                                                 *)

Failed(s) == [s EXCEPT !.ok = FALSE]

\* A block leaves for the card.  Only blocks of the card can be written.
writeBlock(s, b, content) ==
  IF ~s.ok \/ b \notin DOMAIN s.card THEN Failed(s)
  ELSE [s EXCEPT !.card[b] = content,
                 !.writes = Append(@, [block |-> b, content |-> content])]

\* Mutant: the mirror block is still set when a block of another kind is flushed.
writeMirrorKept(s) ==
  IF ~s.ok \/ s.mirror = NoBlock THEN s ELSE writeBlock(s, s.mirror, s.buffer)

writeMirror(s) ==
  IF ~s.ok \/ s.mirror = NoBlock THEN s
  ELSE [writeBlock(s, s.mirror, s.buffer) EXCEPT !.mirror = NoBlock]

Clean(s) == [s EXCEPT !.dirty = @ /\ ~s.ok]

cacheFlush(s) ==
  IF ~s.ok \/ ~s.dirty THEN s
  ELSE Clean(writeMirror(writeBlock(s, s.cached, s.buffer)))

readBlock(s, b) ==
  IF ~s.ok \/ b \notin DOMAIN s.card THEN Failed(s)
  ELSE IF s.cached = b THEN s
  ELSE [s EXCEPT !.cached = b, !.buffer = s.card[b]]

Marked(s, forWrite) == [s EXCEPT !.dirty = @ \/ (forWrite /\ s.ok)]

\* Mutant: the block in the cache is given up without being written.
cacheRawBlockDropped(s, b, forWrite) ==
  Marked(readBlock(IF s.cached = b THEN s ELSE Clean(s), b), forWrite)

cacheRawBlock(s, b, forWrite) ==
  Marked(readBlock(IF s.cached = b THEN s ELSE cacheFlush(s), b), forWrite)

-----------------------------------------------------------------------------
(* The FAT.                                                                *)

EntryRead(s, c) == IF s.ok THEN [s EXCEPT !.val = s.buffer[c % FatPerBlock]] ELSE s

fatGet(s, c) ==
  IF ~s.ok \/ c > FatEnd THEN Failed(s)
  ELSE EntryRead(cacheRawBlock(s, FatBlock(c), FALSE), c)

EntrySet(s, c, value) ==
  IF ~s.ok THEN s
  ELSE [s EXCEPT !.buffer[c % FatPerBlock] = value, !.dirty = TRUE,
                 !.mirror = IF FatCount > 1 THEN Mirror(FatBlock(c)) ELSE @]

fatPut(s, c, value) ==
  IF ~s.ok \/ c < 2 \/ c > FatEnd THEN Failed(s)
  ELSE EntrySet(cacheRawBlock(s, FatBlock(c), FALSE), c, value)

\* The clusters from s.val on.
RECURSIVE FreeRest(_)
FreeRest(s) ==
  IF ~s.ok \/ isEOC(s.val) THEN s ELSE FreeRest(fatPut(fatGet(s, s.val), s.val, 0))

freeChain(s, c) == IF s.ok THEN FreeRest([s EXCEPT !.search = 2, !.val = c]) ELSE s

\* The search of allocContiguous for one cluster: the entry of c, the n-th, has
\* been looked at.
AfterLast(c) == IF c > FatEnd THEN 2 ELSE c

RECURSIVE FindFree(_, _, _)
FindFree(s, n, c) ==
  IF ~s.ok THEN s
  ELSE IF s.val = 0 THEN [s EXCEPT !.val = c]
  ELSE IF n >= ClusterCount THEN Failed(s)
  ELSE FindFree(fatGet(s, AfterLast(c + 1)), n + 1, AfterLast(c + 1))

LinkBehind(s, cur) ==
  IF cur # 0 THEN fatPut(s, cur, s.val)
  ELSE IF s.ok THEN [s EXCEPT !.search = s.val + 1] ELSE s

\* s.val is the new cluster, the end of the chain that goes on behind cur.
TakeCluster(s, cur) == LinkBehind(fatPut(s, s.val, EOC), cur)

\* Mutant: a cluster that is added to a chain is not looked for but taken.
allocNext(s, cur) ==
  TakeCluster(IF cur = 0 THEN FindFree(fatGet(s, AfterLast(s.search)), 1, AfterLast(s.search))
              ELSE [s EXCEPT !.val = cur + 1], cur)

\* allocContiguous(1, &cur): s.val is the new cluster.
allocContiguous(s, cur) ==
  LET first == AfterLast(IF cur # 0 THEN cur + 1 ELSE s.search)
  IN  TakeCluster(FindFree(fatGet(s, first), 1, first), cur)

=============================================================================
