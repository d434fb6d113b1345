------------------------------ MODULE FileWrite ------------------------------
(***************************************************************************)
(* The write path of one regular xk file (kernel/file.c: filewrite and     *)
(* fileread; kernel/fs.c: writei, appendi, getstartblkno, updatei, readi) *)
(* over the write-ahead log, with a crash possible between any two disk   *)
(* writes.                                                                 *)
(*                                                                         *)
(* Abstractions.  Sizes and offsets count whole blocks: every write and   *)
(* read is a multiple of BSIZE, so each turn of a copy loop moves one     *)
(* block (m = BSIZE).  An extent holds EXTB blocks (8 in the code) and an *)
(* inode EXTENT_N extents (EXTENT_N = 7).  The bitmap is the NGROUP bytes     *)
(* getstartblkno scans, in scan order; byte j stands for the group at     *)
(* GroupStart(j).  Blocks 0 .. EXTB-1 stand for the boot block,           *)
(* superblock and bitmap below the data area.  A block written at file   *)
(* offset o by a write tagged t holds <<t, o>>, the source byte it was    *)
(* copied from.  Transactions run through the write-ahead log of Log.tla *)
(* (L): the copy loops log_write into log_cache, log_commit_tx and        *)
(* log_recover are L's steps, and a crash is L's CrashBoot followed by the *)
(* boot-time recovery.  The dinode is one more home block, DinodeBlk,     *)
(* written by updatei's writei of the inode file in a transaction of its  *)
(* own.  The bitmap is bwritten outside the log.                          *)
(***************************************************************************)
EXTENDS Integers, Sequences, SequencesExt, FiniteSets

CONSTANTS
  EXTB,      \* blocks per extent (8)
  EXTENT_N,  \* extents per inode (7)
  NGROUP,    \* bitmap bytes, i.e. extents the allocator can hand out
  Fds,       \* ftable slots open on the file, each with its own offset
  Tags,      \* which write produced a block
  MaxW,      \* largest write, in blocks
  MaxFile,   \* bound on offsets and on the file size
  LOGSIZE    \* entries of log_cache and payload blocks of the log

NoData == <<"none", 0>>
Offsets == 0 .. MaxFile
DataBlocks == 0 .. (NGROUP + 1) * EXTB - 1
Reserved == 0 .. EXTB - 1
Contents == {NoData} \cup (Tags \X Offsets)
Extent == [start : DataBlocks, nb : {0, EXTB}]
NoExtent == [start |-> 0, nb |-> 0]
EmptyInode == [size |-> 0, ext |-> [d \in 0 .. EXTENT_N - 1 |-> NoExtent]]
Inodes == [size : Offsets, ext : [0 .. EXTENT_N - 1 -> Extent]]

(* The dinode's bytes in its block of the inode file, and back.          *)
DinodeOf(ip) == <<"dinode", ip.size, ip.ext>>
InodeOf(v) == [size |-> v[2], ext |-> v[3]]
Dinodes == {"dinode"} \X Offsets \X [0 .. EXTENT_N - 1 -> Extent]

(* The home blocks of the log: the data area and the inode-file block    *)
(* that holds the file's dinode.                                          *)
DinodeBlk == (NGROUP + 1) * EXTB
LBlocks == DataBlocks \cup {DinodeBlk}
InitImage == [b \in LBlocks |-> IF b = DinodeBlk THEN DinodeOf(EmptyInode) ELSE NoData]

VARIABLES
  disk,      \* home blocks on disk: data blocks and the dinode
  cache,     \* home blocks as the buffer cache holds them
  staged,    \* log_cache: <<blockno, contents>> pairs not yet committed
  logdisk,   \* the log's payload blocks on disk
  cb,        \* the log's commit block on disk
  phase,     \* log_commit_tx / log_recover progress (Log.tla)
  li,        \* their loop index
  cbm,       \* log_commit_tx's local commit block
  bitmap,    \* bitmap[j]: byte j is 0xFF (bwritten at once, so disk = cache)
  inode,     \* the file's in-memory inode (icache)
  off,       \* off[f]: ftable.file_table[f].offset
  wpc,       \* "idle", "append" (in appendi's loop), "commit" (writei's
             \* transaction), "update", "upcommit" (updatei's), "boot"
             \* (recovery after a crash), or "ub" (an extent walk ran
             \* past data[EXTENT_N - 1])
  w,         \* the running filewrite's locals
  content    \* history: the file contents committed writes define

logvars == <<disk, cache, staged, logdisk, cb, phase, li, cbm>>
fwvars == <<bitmap, inode, off, wpc, w, content>>
vars == <<logvars, fwvars>>

L == INSTANCE Log WITH Blocks <- LBlocks, Vals <- Contents \cup Dinodes,
       InitVal <- NoData, InitDisk <- InitImage, lcache <- staged, i <- li

(* getCapacity, in blocks.                                                *)
Capacity(ext) == FoldFunction(LAMBDA x, y : x + y, 0,
                              [d \in 0 .. EXTENT_N - 1 |-> ext[d].nb])

(* Mutation-analysis variant: the start formula without the + 1 in      *)
(* (j + 1) * 8, which points byte 0 past the end of the data area.       *)
GroupStartNoPlusOne(j) == (NGROUP - j + 1) * EXTB

(* The first block of the group bitmap byte j stands for: the code's    *)
(* (nblocks + inodestart) - (inodestart - 1 - i) * BSIZE - (j + 1) * 8    *)
(* within the last bitmap block, so byte 0 is the top group.             *)
GroupStart(j) == (NGROUP - j) * EXTB

(* getstartblkno: the first byte that is 0 in scan order, or none.       *)
FreeGroup(bm) ==
  IF \E j \in 0 .. NGROUP - 1 : ~bm[j]
  THEN CHOOSE j \in 0 .. NGROUP - 1 : ~bm[j] /\ \A k \in 0 .. j - 1 : bm[k]
  ELSE -1

(* Mutation-analysis variant: the byte is found but never set to 0xFF.  *)
GetStartBlkNoNoMark(bm) ==
  LET j == FreeGroup(bm) IN
  IF j = -1 THEN [start |-> 0, bitmap |-> bm]
  ELSE [start |-> GroupStart(j), bitmap |-> bm]

(* Marks the byte, bwrites the bitmap block, and returns the start, or   *)
(* returns 0 when every byte is taken.                                    *)
GetStartBlkNo(bm) ==
  LET j == FreeGroup(bm) IN
  IF j = -1 THEN [start |-> 0, bitmap |-> bm]
  ELSE [start |-> GroupStart(j), bitmap |-> [bm EXCEPT ![j] = TRUE]]

(* The while loop of readi and writei that finds the extent holding off: *)
(* <<extent index, offset within it>>.  An index of EXTENT_N means the loop  *)
(* read past data[EXTENT_N - 1].                                          *)
RECURSIVE SeekExtent(_, _, _, _)
SeekExtent(ext, d, size, o) ==
  IF d >= EXTENT_N THEN <<EXTENT_N, 0>>
  ELSE IF size + ext[d].nb < o THEN SeekExtent(ext, d + 1, size + ext[d].nb, o)
  ELSE <<d, o - size>>

(* The copy loop of readi and writei: the block each of the n blocks     *)
(* from offset o goes to, in order.  When size reaches the extent's end  *)
(* the loop does data++ and size = off - size.  ok is FALSE when the     *)
(* loop reads past the extent array.                                      *)
RECURSIVE CopyLoop(_, _, _, _, _, _)
CopyLoop(ext, d, size, o, tot, n) ==
  IF tot >= n THEN [ok |-> TRUE, blks |-> <<>>]
  ELSE IF d >= EXTENT_N THEN [ok |-> FALSE, blks |-> <<>>]
  ELSE IF size < ext[d].nb
       THEN LET r == CopyLoop(ext, d, size + 1, o + 1, tot + 1, n)
            IN [r EXCEPT !.blks = <<ext[d].start + size>> \o @]
  ELSE CopyLoop(ext, d + 1, o - size, o, tot, n)

ExtentBlocks(ext, o, n) ==
  LET s == SeekExtent(ext, 0, 0, o)
  IN IF n = 0 THEN [ok |-> TRUE, blks |-> <<>>]
     ELSE CopyLoop(ext, s[1], s[2], o, 0, n)

(* appendi's first while loop: the first extent with nblocks 0.          *)
FirstEmpty(ext) ==
  IF \E d \in 0 .. EXTENT_N - 1 : ext[d].nb = 0
  THEN CHOOSE d \in 0 .. EXTENT_N - 1 : ext[d].nb = 0 /\ \A k \in 0 .. d - 1 : ext[k].nb # 0
  ELSE EXTENT_N

(* filewrite's locals outside a write (they are dead there).           *)
NoLocals == [f |-> CHOOSE f \in Fds : TRUE, tag |-> CHOOSE t \in Tags : TRUE,
             o |-> 0, n |-> 0, append |-> 0, d |-> 0, size |-> 0, tot |-> 0]

Init ==
  /\ L!Init
  /\ bitmap = [j \in 0 .. NGROUP - 1 |-> FALSE]
  /\ inode = EmptyInode
  /\ off = [f \in Fds |-> 0]
  /\ wpc = "idle"
  /\ w = NoLocals
  /\ content = [o \in 0 .. MaxFile - 1 |-> NoData]

-----------------------------------------------------------------------------
(* The log_write calls of a copy loop: block blks[k] gets the source     *)
(* block for file offset base + k - 1 of the write tagged t.              *)
Writes(blks, t, base) ==
  [k \in 1 .. Len(blks) |-> <<blks[k], <<t, base + k - 1>>>>]

(* sys_write of n blocks on ftable slot f: filewrite takes the inode      *)
(* lock and calls writei at f's offset.  writei splits off what lies past *)
(* the capacity as append, walks the extents and log_writes each block   *)
(* of the rest; then it either calls appendi or commits.  An offset past *)
(* the capacity (reachable through fileread, since size can exceed it)   *)
(* makes n = capacity - off wrap, and the loop runs off the extents.     *)
WriteBegin(f, t, n) ==
  /\ wpc = "idle"
  /\ off[f] + n <= MaxFile /\ inode.size + n <= MaxFile
  /\ LET o == off[f]
         cap == Capacity(inode.ext)
         nin == IF o + n > cap THEN cap - o ELSE n
         r == ExtentBlocks(inode.ext, o, nin)
         ws == Writes(r.blks, t, o)
     IN IF o > cap \/ ~r.ok
        THEN /\ wpc' = "ub"
             /\ UNCHANGED <<logvars, bitmap, inode, off, w, content>>
        ELSE /\ staged' = staged \o ws
             /\ cache' = L!Applied(cache, ws)
             /\ w' = [f |-> f, tag |-> t, o |-> o, n |-> nin, append |-> n - nin,
                      d |-> FirstEmpty(inode.ext), size |-> 0, tot |-> 0]
             /\ wpc' = IF n > nin THEN "append" ELSE "commit"
             /\ UNCHANGED <<disk, logdisk, cb, phase, li, cbm, bitmap, inode, off, content>>

(* One turn of appendi's for loop.  An empty extent gets a group from    *)
(* getstartblkno (whose bitmap bwrite reaches the disk at once) and      *)
(* nblocks 8.  If size is inside the extent the next source block goes  *)
(* to start + size; otherwise the body does data++ and size = 0.  The    *)
(* loop's increment then does size += m and data++ in every turn.        *)
AppendStep ==
  /\ wpc = "append"
  /\ w.tot < w.append
  /\ IF w.d >= EXTENT_N
     THEN /\ wpc' = "ub"
          /\ UNCHANGED <<logvars, bitmap, inode, off, w, content>>
     ELSE LET e == inode.ext[w.d]
              g == GetStartBlkNo(bitmap)
              e2 == IF e.nb = 0 THEN [start |-> g.start, nb |-> EXTB] ELSE e
              ws == Writes(<<e2.start + w.size>>, w.tag, w.o + w.n + w.tot)
              put == w.size < e2.nb
              w2 == IF put THEN [w EXCEPT !.d = @ + 1, !.size = @ + 1, !.tot = @ + 1]
                           ELSE [w EXCEPT !.d = @ + 2, !.size = 0]
          IN /\ bitmap' = IF e.nb = 0 THEN g.bitmap ELSE bitmap
             /\ inode' = [inode EXCEPT !.ext[w.d] = e2]
             /\ staged' = IF put THEN staged \o ws ELSE staged
             /\ cache' = IF put THEN L!Applied(cache, ws) ELSE cache
             /\ w' = w2
             /\ wpc' = IF w2.tot >= w.append THEN "commit" ELSE "append"
             /\ UNCHANGED <<disk, logdisk, cb, phase, li, cbm, off, content>>

(* log_commit_tx at the end of writei or appendi, or of updatei: it     *)
(* begins once the caller's log_writes are done; the copy into the log,  *)
(* the commit-block bwrite and the replay are L's steps.                 *)
TxCommit ==
  /\ wpc \in {"commit", "upcommit"}
  /\ L!CommitBegin
  /\ UNCHANGED fwvars

LogStep ==
  /\ L!CommitLog \/ L!CommitMark \/ L!RecoverApply
  /\ UNCHANGED fwvars

(* log_recover's end returns to its caller: writei returns to filewrite, *)
(* whose history records what the write meant each written offset to     *)
(* hold; updatei returns and filewrite with it; at boot, iinit is done   *)
(* and the file's inode is read back from its dinode.                     *)
TxEnd ==
  /\ L!RecoverEnd
  /\ CASE phase = "recover" /\ wpc = "commit" ->
           /\ content' = [o \in DOMAIN content |->
                            IF w.o <= o /\ o < w.o + w.n + w.append
                            THEN <<w.tag, o>> ELSE content[o]]
           /\ wpc' = "update"
           /\ UNCHANGED <<bitmap, inode, off, w>>
       [] phase = "recover" /\ wpc = "upcommit" ->
           /\ wpc' = "idle"
           /\ UNCHANGED <<bitmap, inode, off, w, content>>
       [] phase = "boot" ->
           /\ inode' = InodeOf(cache[DinodeBlk])
           /\ wpc' = "idle"
           /\ UNCHANGED <<bitmap, off, w, content>>

(* Mutation-analysis variant: updatei writes the new size but leaves    *)
(* the dinode's extents as they were.                                     *)
UpdateNoExtents ==
  /\ wpc = "update"
  /\ LET res == w.n + w.append
         ip == [inode EXCEPT !.size = @ + res]
         cur == InodeOf(cache[DinodeBlk])
     IN /\ off' = [off EXCEPT ![w.f] = @ + res]
        /\ inode' = ip
        /\ IF cur.size # ip.size
           THEN /\ L!LogWrite(DinodeBlk, DinodeOf([cur EXCEPT !.size = ip.size]))
                /\ wpc' = "upcommit"
           ELSE /\ wpc' = "idle"
                /\ UNCHANGED logvars
  /\ w' = NoLocals
  /\ UNCHANGED <<bitmap, content>>

(* Back in filewrite: offset and size both grow by writei's result, and  *)
(* updatei reads the dinode (read_dinode, through the buffer cache) and, *)
(* when its size differs from the inode's, writei's it with the inode's  *)
(* size and extents: one log_write, then log_commit_tx.                  *)
Update ==
  /\ wpc = "update"
  /\ LET res == w.n + w.append
         ip == [inode EXCEPT !.size = @ + res]
     IN /\ off' = [off EXCEPT ![w.f] = @ + res]
        /\ inode' = ip
        /\ IF InodeOf(cache[DinodeBlk]).size # ip.size
           THEN /\ L!LogWrite(DinodeBlk, DinodeOf(ip))
                /\ wpc' = "upcommit"
           ELSE /\ wpc' = "idle"
                /\ UNCHANGED logvars
  /\ w' = NoLocals
  /\ UNCHANGED <<bitmap, content>>

(* sys_read of n blocks on slot f: readi fails past the size, clips n to *)
(* the size, and walks the extents like writei; fileread adds the count  *)
(* to the offset.                                                         *)
FileRead(f, n) ==
  /\ wpc = "idle"
  /\ off[f] <= inode.size
  /\ LET k == IF off[f] + n > inode.size THEN inode.size - off[f] ELSE n
         r == ExtentBlocks(inode.ext, off[f], k)
     IN IF r.ok
        THEN /\ off' = [off EXCEPT ![f] = @ + k]
             /\ UNCHANGED wpc
        ELSE /\ wpc' = "ub"
             /\ UNCHANGED off
  /\ UNCHANGED <<logvars, bitmap, inode, w, content>>

(* Power loss anywhere, then reboot (L's CrashBoot): the buffer cache,   *)
(* log_cache, the icache and the open files are gone, and iinit runs     *)
(* log_recover before the file is opened again at offset 0.  The bitmap  *)
(* block was bwritten, so it survives as it is.                          *)
Crash ==
  /\ L!CrashBoot
  /\ inode' = EmptyInode
  /\ off' = [f \in Fds |-> 0]
  /\ wpc' = "boot"
  /\ w' = NoLocals
  /\ UNCHANGED <<bitmap, content>>

Next ==
  \/ \E f \in Fds, t \in Tags, n \in 1 .. MaxW : WriteBegin(f, t, n)
  \/ AppendStep
  \/ TxCommit
  \/ LogStep
  \/ TxEnd
  \/ Update
  \/ \E f \in Fds, n \in 1 .. MaxW : FileRead(f, n)
  \/ Crash

Spec == Init /\ [][Next]_vars

-----------------------------------------------------------------------------
Locals == [f : Fds, tag : Tags, o : Offsets, n : 0 .. MaxW, append : 0 .. MaxW,
           d : 0 .. EXTENT_N + 2 * MaxW, size : 0 .. EXTB, tot : 0 .. MaxW]

TypeOK ==
  /\ L!TypeOK
  /\ \A b \in DataBlocks : disk[b] \in Contents /\ cache[b] \in Contents
  /\ disk[DinodeBlk] \in Dinodes /\ cache[DinodeBlk] \in Dinodes
  /\ bitmap \in [0 .. NGROUP - 1 -> BOOLEAN]
  /\ inode \in Inodes
  /\ off \in [Fds -> Offsets]
  /\ wpc \in {"idle", "append", "commit", "update", "upcommit", "boot", "ub"}
  /\ w \in Locals
  /\ content \in [0 .. MaxFile - 1 -> Contents]

(* The dinode a reboot would find: the disk with a committed log replayed. *)
Din == InodeOf((IF cb.flag = 1 THEN L!Applied(disk, L!Logged) ELSE disk)[DinodeBlk])

(* The extents an inode uses.                                             *)
Used(ip) == {ip.ext[d] : d \in {k \in 0 .. EXTENT_N - 1 : ip.ext[k].nb > 0}}

(* The bitmap byte that owns an extent, if any.                           *)
Owner(e) == {j \in 0 .. NGROUP - 1 : GroupStart(j) = e.start}

(* Every extent of the in-memory inode and of its dinode on disk that    *)
(* lies in the data area is a group whose bitmap byte is set, in memory  *)
(* and after any crash, and no two such extents of the inode share a     *)
(* group: getstartblkno's bwrite of the byte precedes the commit that    *)
(* makes the extent durable.  (An extent at block 0, handed out when the *)
(* bitmap is full, is NoReservedWrite's concern.)                         *)
Allocated(ip) == {e \in Used(ip) : e.start \notin Reserved}

ExtentsOwned ==
  /\ \A e \in Allocated(inode) \cup Allocated(Din) : \E j \in Owner(e) : bitmap[j]
  /\ \A d1, d2 \in 0 .. EXTENT_N - 1 :
        /\ d1 # d2
        /\ inode.ext[d1] \in Allocated(inode) /\ inode.ext[d2] \in Allocated(inode)
        => inode.ext[d1].start # inode.ext[d2].start

(* Between writes the dinode on disk is the in-memory inode: filewrite's *)
(* updatei persists every size and extent change it makes, so a reboot   *)
(* sees the file as the last returned write left it.                     *)
InodeSynced == wpc = "idle" => Din = inode

(* Write then read at the same offset yields the same bytes (spec 7):    *)
(* between writes, reading the whole file through readi's extent walk    *)
(* returns, for every offset below the size, what the committed writes   *)
(* put there.                                                             *)
ReadBack ==
  wpc = "idle" =>
    LET r == ExtentBlocks(inode.ext, 0, inode.size)
    IN /\ r.ok
       /\ \A k \in 1 .. inode.size : cache[r.blks[k]] = content[k - 1]

(* Between writes every bitmap byte that is set belongs to an extent of  *)
(* the file on disk: a crash never leaves a group allocated and unused.  *)
NoLeakedGroup ==
  wpc = "idle" =>
    \A j \in 0 .. NGROUP - 1 :
      bitmap[j] => \E e \in Used(Din) : j \in Owner(e)

(* The log, as FileWrite drives it: between transactions the buffer      *)
(* cache is the committed disk plus log_cache, and every step of writei, *)
(* appendi, updatei, the commits, recovery and crashes is a step of the  *)
(* atomic log (AtomicLog) on the home blocks.                             *)
CacheCoherent == L!CacheCoherent
LogAtomic == L!LogAtomic

====
