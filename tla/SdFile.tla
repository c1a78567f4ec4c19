------------------------------ MODULE SdFile ------------------------------
(***************************************************************************)
(* Files of the SD library in the root directory: SdFile.cpp, and what     *)
(* SDClass and File (SD.cpp, File.cpp) make of it.                         *)
(*                                                                         *)
(* s.f is the SdFile object the operation works on.  Time stamps, the      *)
(* attributes of an entry, subdirectories and long names are left out; a   *)
(* path is the name of a file, made83Name having accepted it.              *)
(***************************************************************************)
EXTENDS SdVolume

O_READ  == "read"
O_WRITE == "write"
O_CREAT == "create"
FILE_READ  == {O_READ}
FILE_WRITE == {O_READ, O_WRITE, O_CREAT}

Closed == [type |-> "closed", flags |-> {}, dirDirty |-> FALSE, slot |-> 0,
           firstCluster |-> 0, curCluster |-> 0, curPosition |-> 0, fileSize |-> 0]

Smaller(a, b) == IF a <= b THEN a ELSE b
ClusterSize   == BlocksPerCluster * BlockSize

\* The entry of the file; dirBlock_ and dirIndex_ are the number of its slot.
cacheDirEntry(s, forWrite) == cacheRawBlock(s, RootBlock(s.f.slot), forWrite)
EntryIndex(s) == s.f.slot % EntriesPerBlock

-----------------------------------------------------------------------------
(* Positions.                                                              *)

NextCluster(s) == IF s.ok THEN [s EXCEPT !.f.curCluster = s.val] ELSE s

RECURSIVE Follow(_, _)
Follow(s, n) ==
  IF ~s.ok \/ n = 0 THEN s ELSE Follow(NextCluster(fatGet(s, s.f.curCluster)), n - 1)

\* Whether the chain is followed from its beginning, and how far.
nCur(s)   == (s.f.curPosition - 1) \div ClusterSize
nNew(pos) == (pos - 1) \div ClusterSize
FromStart(s, pos) == nNew(pos) < nCur(s) \/ s.f.curPosition = 0

At(s, pos) == IF s.ok THEN [s EXCEPT !.f.curPosition = pos] ELSE s

seekSet(s, pos) ==
  IF ~s.ok \/ s.f.type = "closed" \/ pos > s.f.fileSize THEN Failed(s)
  ELSE IF pos = 0 THEN [s EXCEPT !.f.curCluster = 0, !.f.curPosition = 0]
  ELSE IF FromStart(s, pos)
       THEN At(Follow([s EXCEPT !.f.curCluster = s.f.firstCluster], nNew(pos)), pos)
       ELSE At(Follow(s, nNew(pos) - nCur(s)), pos)

\* blockOfCluster and the offset in the block are both 0.
AtClusterStart(s) == s.f.curPosition % ClusterSize = 0

-----------------------------------------------------------------------------
(* Writing to the card what a handle knows.                                *)

\* Mutant: the entry keeps the first cluster it had.
EntryStoredPartly(s) ==
  IF ~s.ok THEN s
  ELSE [s EXCEPT !.buffer[EntryIndex(s)].size = s.f.fileSize, !.f.dirDirty = FALSE]

EntryStored(s) ==
  IF ~s.ok THEN s
  ELSE [s EXCEPT !.buffer[EntryIndex(s)].size = s.f.fileSize,
                 !.buffer[EntryIndex(s)].first = s.f.firstCluster,
                 !.f.dirDirty = FALSE]

sync(s) ==
  IF ~s.ok \/ s.f.type = "closed" THEN Failed(s)
  ELSE cacheFlush(IF s.f.dirDirty THEN EntryStored(cacheDirEntry(s, TRUE)) ELSE s)

Released(s) == IF s.ok THEN [s EXCEPT !.f = Closed] ELSE s
close(s)    == Released(sync(s))

\* The chain ends with the current cluster.
CutBehind(s) ==
  IF ~s.ok \/ isEOC(s.val) THEN s
  ELSE fatPut(freeChain(s, s.val), s.f.curCluster, EOC)

NoCluster(s) == IF s.ok THEN [s EXCEPT !.f.firstCluster = 0] ELSE s

CutAt(s, length) ==
  IF length = 0 THEN NoCluster(freeChain(s, s.f.firstCluster))
  ELSE CutBehind(fatGet(s, s.f.curCluster))

Shortened(s, length) ==
  IF s.ok THEN sync([s EXCEPT !.f.fileSize = length, !.f.dirDirty = TRUE]) ELSE s

truncate(s, length) ==
  IF ~s.ok \/ s.f.type # "normal" \/ O_WRITE \notin s.f.flags \/ length > s.f.fileSize
  THEN Failed(s)
  ELSE IF s.f.fileSize = 0 THEN s
  ELSE seekSet(Shortened(CutAt(seekSet(s, length), length), length),
               Smaller(s.f.curPosition, length))

-----------------------------------------------------------------------------
(* Opening.                                                                *)

\* The loop over the directory, the block of slot i being in the cache: s.val is
\* where it stops, and the first empty slot before that (RootEntries: none).
RECURSIVE Search(_, _, _, _)
Search(s, name, i, empty) ==
  LET e      == s.buffer[i % EntriesPerBlock].name
      empty1 == IF e \in {"free", "deleted"} /\ empty = RootEntries THEN i ELSE empty
      Stop(found, slot) == [s EXCEPT !.val = [found |-> found, slot |-> slot]]
  IN  IF ~s.ok THEN s
      ELSE IF e = name THEN Stop(TRUE, i)
      ELSE IF e = "free" \/ i = RootEntries - 1 THEN Stop(FALSE, empty1)
      ELSE Search(cacheRawBlock(s, RootBlock(i + 1), FALSE), name, i + 1, empty1)

openCachedEntry(s, slot, oflag) ==
  LET e == s.buffer[slot % EntriesPerBlock]
  IN  IF ~s.ok THEN s
      ELSE [s EXCEPT !.f = [Closed EXCEPT !.type = "normal",
                                          !.flags = oflag \cap {O_READ, O_WRITE},
                                          !.slot = slot,
                                          !.firstCluster = e.first,
                                          !.fileSize = e.size]]

EntryNamed(s, slot, name) ==
  IF s.ok THEN [s EXCEPT !.buffer[slot % EntriesPerBlock] = [FreeEntry EXCEPT !.name = name]]
  ELSE s

\* A new entry is on the card before the file is open.
CreateEntry(s, slot, name) ==
  cacheFlush(EntryNamed(cacheRawBlock(s, RootBlock(slot), TRUE), slot, name))

OpenFound(s, name, oflag) ==
  IF ~s.ok THEN s
  ELSE IF s.val.found THEN openCachedEntry(s, s.val.slot, oflag)
  ELSE IF ~{O_CREAT, O_WRITE} \subseteq oflag \/ s.val.slot = RootEntries THEN Failed(s)
  ELSE openCachedEntry(CreateEntry(s, s.val.slot, name), s.val.slot, oflag)

\* SdFile::open on a closed handle.
open(s, name, oflag) ==
  OpenFound(Search(cacheRawBlock([s EXCEPT !.f = Closed], RootBlock(0), FALSE),
                   name, 0, RootEntries), name, oflag)

\* SDClass::open: to write is to append.
AtEnd(s)              == IF s.ok THEN seekSet(s, s.f.fileSize) ELSE s
SDopen(s, name, mode) == IF O_WRITE \in mode THEN AtEnd(open(s, name, mode))
                         ELSE open(s, name, mode)

\* SDClass::exists opens the file and closes it again.
SDexists(s, name) == close(open(s, name, FILE_READ))

Deleted(s) ==
  IF s.ok THEN [s EXCEPT !.buffer[EntryIndex(s)].name = "deleted", !.f = Closed] ELSE s

\* Mutant: the entry goes, and its clusters stay allocated.
removeEntryOnly(s) == cacheFlush(Deleted(cacheDirEntry(s, TRUE)))

remove(s) == cacheFlush(Deleted(cacheDirEntry(truncate(s, 0), TRUE)))

\* SDClass::remove and SdFile::remove(dirFile, fileName).
SDremove(s, name) == remove(open(s, name, {O_WRITE}))

-----------------------------------------------------------------------------
(* Reading and writing.                                                    *)

CurrentBlock(s)     == DataBlock(s.f.curCluster, s.f.curPosition)
Offset(s)           == s.f.curPosition % BlockSize
Advanced(s, n)      == IF s.ok THEN [s EXCEPT !.f.curPosition = @ + n] ELSE s

\* Mutant: a position on the border is taken to lie in the cluster before it.
readClusterBehind(s) ==
  IF s.f.curPosition = 0 THEN [s EXCEPT !.f.curCluster = s.f.firstCluster]
  ELSE IF s.f.curPosition % ClusterSize = 1 /\ s.f.curPosition > 1 THEN Follow(s, 1)
  ELSE s

\* The cluster read() goes on in.
readCluster(s) ==
  IF ~AtClusterStart(s) THEN s
  ELSE IF s.f.curPosition = 0 THEN [s EXCEPT !.f.curCluster = s.f.firstCluster]
  ELSE Follow(s, 1)

Taken(s, content, offset, n) ==
  [s EXCEPT !.val = @ \o [i \in 1..n |-> content[offset + i - 1]]]
FromCache(s, offset, n) == IF s.ok THEN Taken(s, s.buffer, offset, n) ELSE s

\* n units at an offset of the current block.  A whole block that is not cached
\* goes past the cache.
ReadBlock(s, n, offset) ==
  LET b == CurrentBlock(s)
  IN  IF ~s.ok \/ b \notin DOMAIN s.card THEN Failed(s)
      ELSE IF n = BlockSize /\ s.cached # b THEN Taken(s, s.card[b], offset, n)
      ELSE FromCache(cacheRawBlock(s, b, FALSE), offset, n)

RECURSIVE ReadUnits(_, _)
ReadUnits(s, toRead) ==
  IF ~s.ok \/ toRead = 0 THEN s
  ELSE LET n == Smaller(toRead, BlockSize - Offset(s))
       IN  ReadUnits(Advanced(ReadBlock([readCluster(s) EXCEPT !.val = s.val], n, Offset(s)),
                              n), toRead - n)

\* read(): s.val is what was read.  What is left of the file is an unsigned
\* difference, huge for a position behind the end.
read(s, nbyte) ==
  IF s.f.type = "closed" \/ O_READ \notin s.f.flags THEN Failed(s)
  ELSE ReadUnits([s EXCEPT !.val = <<>>],
                 IF s.f.curPosition > s.f.fileSize THEN nbyte
                 ELSE Smaller(nbyte, s.f.fileSize - s.f.curPosition))

NewCluster(s) ==
  IF ~s.ok THEN s
  ELSE IF s.f.firstCluster # 0 THEN [s EXCEPT !.f.curCluster = s.val]
  ELSE [s EXCEPT !.f.curCluster = s.val, !.f.firstCluster = s.val, !.f.dirDirty = TRUE]

addCluster(s) == NewCluster(allocContiguous(s, s.f.curCluster))

OnOrAdd(s) ==
  IF ~s.ok THEN s ELSE IF isEOC(s.val) THEN addCluster(s) ELSE NextCluster(s)

\* The cluster write() goes on in: at the end of the chain, a new one.
writeCluster(s) ==
  IF ~AtClusterStart(s) THEN s
  ELSE IF s.f.curCluster # 0 THEN OnOrAdd(fatGet(s, s.f.curCluster))
  ELSE IF s.f.firstCluster # 0 THEN [s EXCEPT !.f.curCluster = s.f.firstCluster]
  ELSE addCluster(s)

\* The content of a block, from an offset on, replaced by some units.
Put(content, offset, units) ==
  [i \in 0..BlockSize - 1 |->
     IF i \in offset..offset + Len(units) - 1 THEN units[i - offset + 1] ELSE content[i]]

\* What a block that was not read holds where nothing has been written yet.
NotRead == [i \in 0..BlockSize - 1 |-> "old"]

FreshBlock(s, b) ==
  IF s.ok THEN [s EXCEPT !.cached = b, !.buffer = NotRead, !.dirty = TRUE] ELSE s

\* Mutant: the block is not read although part of it is kept.
BlockToWriteFresh(s, offset) ==
  IF s.cached = CurrentBlock(s) THEN Marked(s, TRUE)
  ELSE FreshBlock(cacheFlush(s), CurrentBlock(s))

\* A block that begins at the end of the file is not read, another one is.
BlockToWrite(s, offset) ==
  IF offset # 0 \/ s.f.curPosition < s.f.fileSize
  THEN cacheRawBlock(s, CurrentBlock(s), TRUE)
  ELSE FreshBlock(cacheFlush(s), CurrentBlock(s))

Filled(s, offset, units) ==
  IF s.ok THEN [s EXCEPT !.buffer = Put(@, offset, units)] ELSE s

PastCache(s) == [s EXCEPT !.cached = IF @ = CurrentBlock(s) THEN NoBlock ELSE @]

\* Some units at an offset of the current block; a whole block goes past the cache.
WriteBlock(s, offset, units) ==
  IF ~s.ok THEN s
  ELSE IF Len(units) = BlockSize
  THEN writeBlock(PastCache(s), CurrentBlock(s), Put(NotRead, 0, units))
  ELSE Filled(BlockToWrite(s, offset), offset, units)

RECURSIVE WriteUnits(_, _)
WriteUnits(s, units) ==
  IF ~s.ok \/ units = <<>> THEN s
  ELSE LET n == Smaller(Len(units), BlockSize - Offset(s))
       IN  WriteUnits(Advanced(WriteBlock(writeCluster(s), Offset(s), SubSeq(units, 1, n)), n),
                      SubSeq(units, n + 1, Len(units)))

Grown(s) ==
  IF s.ok /\ s.f.curPosition > s.f.fileSize
  THEN [s EXCEPT !.f.fileSize = s.f.curPosition, !.f.dirDirty = TRUE] ELSE s

write(s, units) ==
  IF s.f.type # "normal" \/ O_WRITE \notin s.f.flags THEN Failed(s)
  ELSE Grown(WriteUnits(s, units))
=============================================================================
