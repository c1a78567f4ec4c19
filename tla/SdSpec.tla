------------------------------ MODULE SdSpec ------------------------------
(***************************************************************************)
(* A program with one file open at a time on a card whose power may fail   *)
(* between any two block writes, and what the library owes it.             *)
(*                                                                         *)
(* A call runs in RAM at once; the blocks it writes are queued and reach   *)
(* the card one by one, before the next call.  A power cut drops the rest. *)
(***************************************************************************)
EXTENDS SdFile

CONSTANTS Data,          \* what one call writes to a file: for each name, sequences of units
          ReadSizes,     \* how much is read by one call
          Positions,     \* where a file is positioned or cut off
          MaxSize,       \* bound: a file is not written to from this size on
          MaxCuts,       \* bound: power cuts
          CutsInRemove   \* may one hit a remove or a truncate?

VARIABLES card,      \* its blocks
          cache,     \* the static members of SdVolume
          file,      \* the File of the program
          name,      \* and its name, "none" when no file is open
          op,        \* the call whose block writes are under way
          queue,     \* the block writes of that call still to come
          kept,      \* what a restart would find on the card: OnCard(card)
          written,   \* history: what the program has stored, by name
          full,      \* history: a write has failed since the card was formatted
          cuts

vars == <<card, kept, cache, file, name, op, queue, written, full, cuts>>

ColdCache == [cached |-> NoBlock, dirty |-> FALSE, mirror |-> NoBlock,
              buffer |-> NotRead, search |-> 2]
NoFile    == [exists |-> FALSE, data |-> <<>>]

Session(f) == [card |-> card, cached |-> cache.cached, dirty |-> cache.dirty,
               mirror |-> cache.mirror, buffer |-> cache.buffer,
               search |-> cache.search, f |-> f, writes |-> <<>>, ok |-> TRUE,
               val |-> 0]

\* The call `what' has left s behind.
Done(what, s) ==
  /\ cache' = [cached |-> s.cached, dirty |-> s.dirty, mirror |-> s.mirror,
               buffer |-> s.buffer, search |-> s.search]
  /\ queue' = s.writes
  /\ op' = IF s.writes = <<>> THEN "none" ELSE what
  /\ UNCHANGED <<card, kept, cuts>>

Ready == queue = <<>>
Is(type) == file.type = type

-----------------------------------------------------------------------------
(* The calls.                                                              *)

Open(n, mode) ==
  LET s == SDopen(Session(Closed), n, mode) IN
  /\ Ready /\ Is("closed")
  /\ Done("open", s)
  /\ file' = IF s.ok THEN s.f ELSE Closed
  /\ name' = IF s.ok THEN n ELSE "none"
  /\ written' = IF s.ok THEN [written EXCEPT ![n].exists = TRUE] ELSE written
  /\ UNCHANGED full

\* After a failed write the program does what the sketch does: it closes.
Write(units) ==
  LET s == write(Session(file), units) IN
  /\ Ready /\ Is("normal") /\ O_WRITE \in file.flags
  /\ file.curPosition = file.fileSize /\ file.fileSize < MaxSize
  /\ Done("write", s)
  /\ file' = s.f
  /\ written' = IF s.ok THEN [written EXCEPT ![name].data = @ \o units] ELSE written
  /\ full' = (full \/ ~s.ok)
  /\ UNCHANGED name

\* A failed write leaves the position behind the end; nothing is read there.
Read(n) ==
  LET s == read(Session(file), n) IN
  /\ Ready /\ Is("normal") /\ file.curPosition <= file.fileSize
  /\ Done("read", s)
  /\ file' = s.f
  /\ UNCHANGED <<name, written, full>>

\* Positions are changed in files opened for reading.
Seek(pos) ==
  LET s == seekSet(Session(file), pos) IN
  /\ Ready /\ Is("normal") /\ file.flags = FILE_READ
  /\ Done("seek", s)
  /\ file' = s.f
  /\ UNCHANGED <<name, written, full>>

Truncate(length) ==
  LET s == truncate(Session(file), length) IN
  /\ Ready /\ Is("normal") /\ O_WRITE \in file.flags
  /\ file.curPosition = file.fileSize
  /\ Done("truncate", s)
  /\ file' = s.f
  /\ written' = IF ~s.ok THEN written
                ELSE [written EXCEPT ![name].data = SubSeq(@, 1, Smaller(length, Len(@)))]
  /\ UNCHANGED <<name, full>>

Close ==
  LET s == close(Session(file)) IN
  /\ Ready /\ Is("normal")
  /\ Done("close", s)
  /\ file' = s.f
  /\ name' = IF s.ok THEN "none" ELSE name
  /\ UNCHANGED <<written, full>>

Exists(n) ==
  /\ Ready
  /\ Done("exists", SDexists(Session(Closed), n))
  /\ UNCHANGED <<file, name, written, full>>

Remove(n) ==
  LET s == SDremove(Session(Closed), n) IN
  /\ Ready /\ n # name
  /\ Done("remove", s)
  /\ written' = IF s.ok THEN [written EXCEPT ![n] = NoFile] ELSE written
  /\ UNCHANGED <<file, name, full>>

-----------------------------------------------------------------------------
(* The card.                                                               *)

\* The entry of a name: the first before a free slot.
Slots(c, n) ==
  {i \in 0..RootEntries - 1 :
     /\ c[RootBlock(i)][i % EntriesPerBlock].name = n
     /\ \A j \in 0..i - 1 : c[RootBlock(j)][j % EntriesPerBlock].name \notin {n, "free"}}
Entry(c, i) == c[RootBlock(i)][i % EntriesPerBlock]
Fat(c, k)   == c[FatBlock(k)][k % FatPerBlock]

\* The clusters of a file; a chain that is damaged ends where it cannot go on.
RECURSIVE Chain(_, _)
Chain(c, k) == IF k \notin Clusters THEN <<>>
               ELSE IF isEOC(Fat(c, k)) THEN <<k>>
               ELSE <<k>> \o Chain([c EXCEPT ![FatBlock(k)][k % FatPerBlock] = EOC], Fat(c, k))

DataAt(c, chain, size) ==
  [i \in 1..size |->
     LET k == chain[((i - 1) \div ClusterSize) + 1]
     IN  c[DataBlock(k, i - 1)][(i - 1) % BlockSize]]

\* What a program finds on the card after a restart.
OnCard(c) ==
  [n \in Names |->
     LET slot == Slots(c, n)
         e == Entry(c, CHOOSE i \in slot : TRUE)
         chain == Chain(c, e.first)
     IN  IF slot = {} THEN NoFile
         ELSE [exists |-> TRUE,
               data |-> DataAt(c, chain, Smaller(e.size, ClusterSize * Len(chain)))]]

BlockWritten ==
  /\ queue # <<>>
  /\ card' = [card EXCEPT ![Head(queue).block] = Head(queue).content]
  /\ kept' = OnCard(card')
  /\ queue' = Tail(queue)
  /\ op' = IF queue' = <<>> THEN "none" ELSE op
  /\ UNCHANGED <<cache, file, name, written, full, cuts>>

\* A call that frees clusters has begun.
Freeing == op \in {"remove", "truncate"}

PowerCut ==
  /\ cuts < MaxCuts
  /\ CutsInRemove \/ Ready \/ ~Freeing
  /\ cuts' = cuts + 1
  /\ cache' = ColdCache
  /\ file' = Closed
  /\ queue' = <<>>
  /\ op' = "none"
  /\ name' = "none"
  /\ written' = kept
  /\ UNCHANGED <<card, kept, full>>

-----------------------------------------------------------------------------
Init ==
  /\ card = FormattedCard
  /\ kept = [n \in Names |-> NoFile]
  /\ cache = ColdCache
  /\ file = Closed
  /\ name = "none"
  /\ op = "none"
  /\ queue = <<>>
  /\ written = [n \in Names |-> NoFile]
  /\ full = FALSE
  /\ cuts = 0

Next ==
  \/ \E n \in Names : Open(n, FILE_READ) \/ Open(n, FILE_WRITE) \/ Exists(n) \/ Remove(n)
  \/ Is("normal") /\ \E units \in Data[name] : Write(units)
  \/ \E n \in ReadSizes : Read(n)
  \/ \E pos \in Positions : pos <= file.fileSize /\ (Seek(pos) \/ Truncate(pos))
  \/ Close
  \/ BlockWritten
  \/ PowerCut

Spec == Init /\ [][Next]_vars

-----------------------------------------------------------------------------
(* What the library owes the program.                                      *)

Live == {i \in 0..RootEntries - 1 : Entry(card, i).name \in Names}
Used(i) == Chain(card, Entry(card, i).first)
ClustersOf(i) == {Used(i)[j] : j \in DOMAIN Used(i)}

\* After every block written no cluster belongs to two files, and, unless a
\* remove or a truncate is under way, no file is longer than its chain and no
\* chain runs into a free cluster: the order in which addCluster, sync and
\* cacheRawBlock let the FAT, the data and the entry leave the one cache block.
WellFormed ==
  /\ \A i, j \in Live : i # j => ClustersOf(i) \cap ClustersOf(j) = {}
  /\ Ready \/ ~Freeing =>
       \A i \in Live : /\ Entry(card, i).size <= ClusterSize * Len(Used(i))
                       /\ \A k \in ClustersOf(i) : Fat(card, k) # 0

\* As long as no cut came between the two writes of cacheFlush, the second FAT is
\* a copy of the first whenever the cache is clean: cacheMirrorBlock_ is set by
\* fatPut and used up by the next flush, whatever block that flush is about.
MirrorAgrees ==
  (Ready /\ cuts = 0 /\ ~cache.dirty /\ FatCount = 2) =>
    \A k \in Clusters : card[Mirror(FatBlock(k))] = card[FatBlock(k)]

\* Without power cuts and full cards no cluster is lost: when no file is open,
\* every allocated cluster is reached from some entry of the directory.
NothingLost ==
  (Ready /\ cuts = 0 /\ ~full /\ Is("closed")) =>
    \A k \in Clusters : Fat(card, k) # 0 => \E i \in Live : k \in ClustersOf(i)

\* A file that is closed is on the card as it was written, and stays there
\* whatever other files go through the same cache and whenever the power fails:
\* close and remove flush all they changed.
ClosedIsKept ==
  Ready => \A n \in Names : n # name => kept[n] = written[n]

\* At every moment the open file reads back what was written before, from the
\* card or the cache, at every position that seekSet and read reach.
ReadsBack ==
  (Ready /\ Is("normal") /\ file.curPosition <= file.fileSize) =>
    \A n \in ReadSizes :
      LET s == read(Session(file), n)
          d == written[name].data
      IN  s.ok /\ s.val = SubSeq(d, file.curPosition + 1,
                                    Smaller(file.curPosition + n, Len(d)))

\* remove succeeds on every file that exists: none of the reasons SdFile.cpp
\* documents for its failure ("the file is a directory, is read only, dirFile is
\* not a directory, fileName is not found or an I/O error occurred") applies.
RemoveFailsAsDocumented ==
  Ready => \A n \in Names :
    n # name => (SDremove(Session(Closed), n).ok <=> written[n].exists)

\* Seen from the card after a restart at any moment, files only change as Files
\* allows, one whole step at a time, although each call is several block writes.
FileUnits == UNION {{d[i] : i \in DOMAIN d} : d \in UNION {Data[n] : n \in Names}}
F == INSTANCE Files WITH FileNames <- Names, contents <- kept
FilesSpec == F!Spec
=============================================================================
