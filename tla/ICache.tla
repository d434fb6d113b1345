------------------------------- MODULE ICache -------------------------------
(***************************************************************************)
(* The inode cache and the open path of xk (kernel/fs.c, file.c,           *)
(* sysfile.c): iget, irelease, read_dinode, namex over the root directory  *)
(* (dirlookup), icreate, updatei, and sys_open / fileopen / sys_close.     *)
(*                                                                         *)
(* System calls run with interrupts on (the syscall gate is a trap gate)   *)
(* and the timer yields in kernel mode, so a process may be switched out   *)
(* wherever it holds no spinlock, and it sleeps in bread and acquiresleep. *)
(* A step is one icache.lock / ftable.lock section, or one unlocked run    *)
(* of code between two of them.                                            *)
(*                                                                         *)
(* Data is abstracted to what the properties tell apart: the inode file is *)
(* the type and first extent of each dinode and the sizes of dinodes 0    *)
(* (the inode file, in dinodes) and 1 (the root, in dirents).  An extent  *)
(* is a block group (8 blocks, 256 dirents, more than a run creates):     *)
(* 0 when data[0].nblocks is 0, a group of Groups whose dirents the model *)
(* keeps, or ForeignExt, the data of another file.  A slot keeps ref,     *)
(* inum, type, size and ext.                                              *)
(***************************************************************************)
EXTENDS Integers, Sequences, FiniteSets

CONSTANTS
  Procs,      \* processes issuing open and close
  Names,      \* file names (one path element under "/")
  InitNames,  \* names present in the root directory at boot
  NINODE,     \* icache slots
  NFILE,      \* global file table slots
  NOFILE,     \* per-process descriptors
  MaxFiles,   \* creates start only while the root has fewer dirents
  NoProc,
  NoName,     \* the name field of a zeroed dirent
  MaxRef      \* calls start only while every ref is below this bound

INODEFILEINO == 0
ROOTINO == 1
Slots == 1..NINODE
Inums == 0..(1 + MaxFiles + Cardinality(Procs))
Types == {"none", "file", "dir", "junk"}   \* "none" is type 0
Groups == 1..(1 + MaxFiles)  \* bound: group 1 holds the root at boot
ForeignExt == -1   \* the data of a file other than the root and the inode file
InodeExt == -2     \* the inode file's own data
Exts == {0, ForeignExt, InodeExt} \cup Groups
Modes == [create : BOOLEAN, valid : BOOLEAN]

VARIABLES
  dtype,    \* type of each dinode written to the inode file
  dsize,    \* dsize[0]: inode-file size, dsize[1]: root size, on disk
  dext,     \* data[0] of each dinode written to the inode file
  blk,      \* the dirents stored in each block group: <<[name, inum], ...>>
  nexte,    \* the next group getstartblkno hands out
  slot,     \* icache.inode[]: [ref, inum, type, size, ext]
  gif,      \* icache.inodefile.size: the copy read_dinode reads through
  holder,   \* holder of each slot's sleep lock
  valid,    \* ftable.valid_flags
  fslot,    \* ftable.file_table[i].inode
  fdt,      \* proc->file_table: descriptor -> global slot (0: NULL)
  pc,       \* where each process is in its system call
  nm, md,   \* sys_open's filepath and mode
  hold,     \* the inode pointers a call holds: ip and next of namex,
            \* inodefile and rootino of icreate, ptr of sys_open
  dinum     \* icreate's dir->inum

vars == <<dtype, dsize, dext, blk, nexte, slot, gif, holder, valid, fslot, fdt,
          pc, nm, md, hold, dinum>>
Locals == {"ip", "ptr", "inodefile", "rootino"}
NoHold == [v \in Locals |-> 0]

MinOf(S) == CHOOSE x \in S : \A y \in S : x <= y

Init ==
  LET n == Cardinality(InitNames)
      order == CHOOSE f \in [1..n -> InitNames] : \A y \in InitNames : \E k \in 1..n : f[k] = y
  IN
  /\ blk = [g \in Groups |->
             IF g = 1 THEN [k \in 1..n |-> [name |-> order[k], inum |-> k + 1]]
             ELSE <<>>]
  /\ nexte = 2
  /\ dtype = [i \in Inums |-> CASE i = INODEFILEINO -> "file"
                                [] i = ROOTINO -> "dir"
                                [] i <= n + 1 -> "file"
                                [] OTHER -> "none"]
  /\ dsize = [i \in {INODEFILEINO, ROOTINO} |-> IF i = ROOTINO THEN n ELSE n + 2]
  /\ dext = [i \in Inums |-> CASE i = INODEFILEINO -> InodeExt
                               [] i = ROOTINO -> 1
                               [] i <= n + 1 -> ForeignExt
                               [] OTHER -> 0]
  /\ gif = n + 2
  /\ slot = [s \in Slots |-> [ref |-> 0, inum |-> 0, type |-> "none", size |-> 0, ext |-> 0]]
  /\ holder = [s \in Slots |-> NoProc]
  /\ valid = [i \in 1..NFILE |-> FALSE]
  /\ fslot = [i \in 1..NFILE |-> 0]
  /\ fdt = [p \in Procs |-> [d \in 1..NOFILE |-> 0]]
  /\ pc = [p \in Procs |-> "idle"]
  /\ nm = [p \in Procs |-> CHOOSE x \in Names : TRUE]
  /\ md = [p \in Procs |-> [create |-> FALSE, valid |-> TRUE]]
  /\ hold = [p \in Procs |-> NoHold]
  /\ dinum = [p \in Procs |-> 0]

-----------------------------------------------------------------------------
(* iget's icache.lock section.  A cached entry (ref > 0, same inum) gets   *)
(* ref++ and is returned at once; otherwise the first empty slot is       *)
(* claimed with ref 1 and the inum, its type and size left as the         *)
(* previous occupant had them, and the caller goes on to read_dinode (pc  *)
(* fill); with no empty slot the kernel panics.  sl is the slot array as  *)
(* the caller left it, h the caller's held pointers.                      *)
Cached(sl, i) == {s \in Slots : sl[s].ref > 0 /\ sl[s].inum = i}
Free(sl) == {s \in Slots : sl[s].ref = 0}
(* Mutation-analysis variant: a cache hit returns the entry without     *)
(* taking a reference.                                                    *)
IgetHitNoRef(p, sl, h, i, v, cont, fill) ==
  IF Cached(sl, i) # {}
  THEN LET s == MinOf(Cached(sl, i)) IN
       /\ slot' = sl
       /\ hold' = [hold EXCEPT ![p] = [h EXCEPT ![v] = s]]
       /\ pc' = [pc EXCEPT ![p] = cont]
  ELSE IF Free(sl) = {}
  THEN /\ slot' = sl /\ hold' = [hold EXCEPT ![p] = h]
       /\ pc' = [pc EXCEPT ![p] = "panic"]
  ELSE LET s == MinOf(Free(sl)) IN
       /\ slot' = [sl EXCEPT ![s].ref = 1, ![s].inum = i]
       /\ hold' = [hold EXCEPT ![p] = [h EXCEPT ![v] = s]]
       /\ pc' = [pc EXCEPT ![p] = fill]

Iget(p, sl, h, i, v, cont, fill) ==
  IF Cached(sl, i) # {}
  THEN LET s == MinOf(Cached(sl, i)) IN
       /\ slot' = [sl EXCEPT ![s].ref = @ + 1]
       /\ hold' = [hold EXCEPT ![p] = [h EXCEPT ![v] = s]]
       /\ pc' = [pc EXCEPT ![p] = cont]
  ELSE IF Free(sl) = {}
  THEN /\ slot' = sl /\ hold' = [hold EXCEPT ![p] = h]
       /\ pc' = [pc EXCEPT ![p] = "panic"]
  ELSE LET s == MinOf(Free(sl)) IN
       /\ slot' = [sl EXCEPT ![s].ref = 1, ![s].inum = i]
       /\ hold' = [hold EXCEPT ![p] = [h EXCEPT ![v] = s]]
       /\ pc' = [pc EXCEPT ![p] = fill]

(* irelease: the last reference clears the in-memory type.                 *)
Irelease(sl, s) ==
  [sl EXCEPT ![s].type = IF sl[s].ref = 1 THEN "none" ELSE @, ![s].ref = @ - 1]

(* read_dinode(inum) reads through icache.inodefile: readi returns 0 bytes *)
(* for an offset at or past its size, and the dinode on iget's stack is    *)
(* then left uninitialised: its type and extents are whatever the stack    *)
(* held.                                                                  *)
DiskSize(i) == IF i \in {INODEFILEINO, ROOTINO} THEN dsize[i] ELSE 0
ReadDinode(i) ==
  IF i < gif THEN {[type |-> dtype[i], size |-> DiskSize(i), ext |-> dext[i]]}
  ELSE {[type |-> t, size |-> 0, ext |-> e] : t \in {"none", "junk"}, e \in {ForeignExt}}

(* The first n dirents readi returns from a directory whose data[0] is e: *)
(* bytes of the group never written read as zero.                         *)
Hole == [name |-> NoName, inum |-> 0]
Entries(e, n) ==
  [k \in 1..n |-> IF e \in Groups /\ k <= Len(blk[e]) THEN blk[e][k] ELSE Hole]

(* fileopen under ftable.lock: the first invalid global slot, then the    *)
(* first NULL descriptor; with no descriptor the slot is reset and -1 is  *)
(* returned.  No failure path drops the inode reference.                  *)
Fileopen(p, s) ==
  LET gs == {g \in 1..NFILE : ~valid[g]}
      fs == {d \in 1..NOFILE : fdt[p][d] = 0}
  IN
  IF gs # {} /\ fs # {}
  THEN /\ valid' = [valid EXCEPT ![MinOf(gs)] = TRUE]
       /\ fslot' = [fslot EXCEPT ![MinOf(gs)] = s]
       /\ fdt' = [fdt EXCEPT ![p][MinOf(fs)] = MinOf(gs)]
  ELSE UNCHANGED <<valid, fslot, fdt>>

Return(p) ==
  /\ pc' = [pc EXCEPT ![p] = "idle"]
  /\ hold' = [hold EXCEPT ![p] = NoHold]
  /\ dinum' = [dinum EXCEPT ![p] = 0]

Goto(p, l) == pc' = [pc EXCEPT ![p] = l]

-----------------------------------------------------------------------------
(* sys_open(filepath = "/" name, mode): namex starts with iget(ROOTINO).  *)
SysOpen(p, n, m) ==
  /\ pc[p] = "idle"
  /\ m.create => dsize[ROOTINO] < MaxFiles
  /\ \A s \in Slots : slot[s].ref < MaxRef
  /\ nm' = [nm EXCEPT ![p] = n] /\ md' = [md EXCEPT ![p] = m]
  /\ Iget(p, slot, NoHold, ROOTINO, "ip", "o_dir", "o_rload")
  /\ UNCHANGED <<dtype, dsize, dext, blk, nexte, gif, holder, valid, fslot, fdt, dinum>>

(* The unlocked half of iget: read_dinode into the claimed slot, then     *)
(* panic("iget: no type") on type 0.  Fill names, per call site, the      *)
(* pointer being filled and where the caller goes on.                     *)
Fill == [o_rload  |-> [v |-> "ip",        next |-> "o_dir"],
         o_fload  |-> [v |-> "ptr",       next |-> "o_rel"],
         c_ifload |-> [v |-> "inodefile", next |-> "c_lock"],
         c_rload  |-> [v |-> "rootino",   next |-> "c_wdir"],
         c_nload  |-> [v |-> "ptr",       next |-> "c_unlock"]]
IgetFill(p) ==
  /\ pc[p] \in DOMAIN Fill
  /\ LET s == hold[p][Fill[pc[p]].v] IN
     \E d \in ReadDinode(slot[s].inum) :
       /\ slot' = [slot EXCEPT ![s].type = d.type, ![s].size = d.size, ![s].ext = d.ext]
       /\ Goto(p, IF d.type = "none" THEN "panic" ELSE Fill[pc[p]].next)
  /\ UNCHANGED <<dtype, dsize, dext, blk, nexte, gif, holder, valid, fslot, fdt, nm, md, hold, dinum>>

(* What sys_open does once namei has returned ptr (0: not found), with sl *)
(* the slot array after namex's last irelease: -1 unless O_CREATE when    *)
(* not found; -1 on a bad mode (ptr's reference kept); icreate, starting  *)
(* with iget(INODEFILEINO), when not found; fileopen otherwise.           *)
AfterNamei(p, sl, ptr) ==
  LET h == [hold[p] EXCEPT !.ip = 0, !.ptr = ptr] IN
  CASE (~md[p].create /\ ptr = 0) \/ ~md[p].valid ->
         /\ slot' = sl /\ Return(p) /\ UNCHANGED <<valid, fslot, fdt>>
    [] ptr = 0 ->
         /\ Iget(p, sl, h, INODEFILEINO, "inodefile", "c_lock", "c_ifload")
         /\ UNCHANGED <<valid, fslot, fdt, dinum>>
    [] OTHER ->
         /\ slot' = sl /\ Fileopen(p, ptr) /\ Return(p)

(* namex's loop over "/name" with ip the root: a root whose type is not   *)
(* T_DIR is notfound; otherwise dirlookup reads the dirents below ip's    *)
(* size, skipping inum 0, and igets the first match.  Not found, namex    *)
(* releases ip and returns 0.                                             *)
Match(p, s) ==
  LET de == Entries(slot[s].ext, slot[s].size) IN
  {k \in 1..slot[s].size : de[k].inum # 0 /\ de[k].name = nm[p]}
NamexLookup(p) ==
  LET s == hold[p].ip IN
  /\ pc[p] = "o_dir"
  /\ IF slot[s].type = "dir" /\ Match(p, s) # {}
     THEN Iget(p, slot, hold[p], Entries(slot[s].ext, slot[s].size)[MinOf(Match(p, s))].inum,
               "ptr", "o_rel", "o_fload")
          /\ UNCHANGED <<valid, fslot, fdt, dinum>>
     ELSE AfterNamei(p, Irelease(slot, s), 0)
  /\ UNCHANGED <<dtype, dsize, dext, blk, nexte, gif, holder, nm, md>>

(* Mutation-analysis variant: the loop releases next as well as ip.      *)
NamexNextDoubleRelease(p) ==
  /\ pc[p] = "o_rel"
  /\ AfterNamei(p, Irelease(Irelease(slot, hold[p].ip), hold[p].ptr), hold[p].ptr)
  /\ UNCHANGED <<dtype, dsize, dext, blk, nexte, gif, holder, nm, md>>

(* namex: irelease(ip) and ip = next; the path has no further element.    *)
NamexNext(p) ==
  /\ pc[p] = "o_rel"
  /\ AfterNamei(p, Irelease(slot, hold[p].ip), hold[p].ptr)
  /\ UNCHANGED <<dtype, dsize, dext, blk, nexte, gif, holder, nm, md>>

(* icreate: acquiresleep(&inodefile->lock) sleeps while it is held.      *)
CreateLock(p) ==
  /\ pc[p] = "c_lock"
  /\ holder[hold[p].inodefile] = NoProc
  /\ holder' = [holder EXCEPT ![hold[p].inodefile] = p]
  /\ Goto(p, "c_wdin")
  /\ UNCHANGED <<dtype, dsize, dext, blk, nexte, slot, gif, valid, fslot, fdt, nm, md, hold, dinum>>

(* icreate: writei the new dinode (T_FILE, size 0, no extents) at        *)
(* inodefile->size, then iget(ROOTINO).  Written over dinode 0 or 1, it   *)
(* replaces that dinode's type, size and extents.  Through an entry still *)
(* unfilled, the stale extents are another file's: the dinode lands in    *)
(* its data, in bytes the model does not track, and the model stops that  *)
(* behaviour there ("untracked").                                         *)
CreateDinode(p) ==
  LET k == slot[hold[p].inodefile].size IN
  /\ pc[p] = "c_wdin"
  /\ IF slot[hold[p].inodefile].ext = InodeExt
     THEN /\ k \in Inums
          /\ dtype' = [dtype EXCEPT ![k] = "file"]
          /\ dsize' = [j \in DOMAIN dsize |-> IF j = k THEN 0 ELSE dsize[j]]
          /\ dext' = [dext EXCEPT ![k] = 0]
          /\ Iget(p, slot, hold[p], ROOTINO, "rootino", "c_wdir", "c_rload")
     ELSE Goto(p, "untracked") /\ UNCHANGED <<dtype, dsize, dext, slot, hold>>
  /\ UNCHANGED <<blk, nexte, gif, holder, valid, fslot, fdt, nm, md, dinum>>

(* icreate: dir->inum = inodefile->size / sizeof(dinode); writei the      *)
(* dirent at rootino->size through rootino's own extents.  Inside a group *)
(* it lands at that offset; bytes skipped over read as zero.  Through     *)
(* another file's extents it lands in that file.  With no extent,         *)
(* capacity is 0: at offset 0 appendi takes a new group from             *)
(* getstartblkno and writes the dirent first in it; at a larger offset    *)
(* n = capacity - off wraps and writei's extent walk runs off data[].     *)
PutEntry(seq, k, e) ==
  [j \in 1..(IF k > Len(seq) THEN k ELSE Len(seq)) |->
     IF j = k THEN e ELSE IF j <= Len(seq) THEN seq[j] ELSE Hole]
(* appendi(ip, e, 16) on an inode with no extent: data[0] gets the group *)
(* getstartblkno hands out, and the dirent is written first in it.        *)
AppendDirent(r, e) ==
  /\ nexte \in Groups
  /\ blk' = [blk EXCEPT ![nexte] = <<e>>]
  /\ slot' = [slot EXCEPT ![r].ext = nexte]
  /\ nexte' = nexte + 1
CreateDirent(p) ==
  LET r == hold[p].rootino
      e == [name |-> nm[p], inum |-> slot[hold[p].inodefile].size]
  IN
  /\ pc[p] = "c_wdir"
  /\ dinum' = [dinum EXCEPT ![p] = e.inum]
  /\ CASE slot[r].ext \in Groups ->
            /\ blk' = [blk EXCEPT ![slot[r].ext] = PutEntry(@, slot[r].size + 1, e)]
            /\ Goto(p, "c_upif") /\ UNCHANGED <<slot, nexte>>
       [] slot[r].ext = ForeignExt ->
            Goto(p, "c_upif") /\ UNCHANGED <<blk, slot, nexte>>
       [] slot[r].size = 0 -> AppendDirent(r, e) /\ Goto(p, "c_upif")
       [] OTHER -> Goto(p, "ub") /\ UNCHANGED <<blk, slot, nexte>>
  /\ UNCHANGED <<dtype, dsize, dext, gif, holder, valid, fslot, fdt, nm, md, hold>>

(* updatei(ip) with sl the slot array: iget(INODEFILEINO) finds the entry *)
(* icreate holds and takes a reference nothing drops; read_dinode(inum);  *)
(* only if the dinode's size differs from ip->size is the dinode written  *)
(* back with ip's size and extents.                                       *)
Updatei(sl, s) ==
  LET i == sl[s].inum IN
  /\ slot' = [sl EXCEPT ![MinOf(Cached(sl, INODEFILEINO))].ref = @ + 1]
  /\ IF DiskSize(i) # sl[s].size
     THEN /\ dsize' = [dsize EXCEPT ![i] = sl[s].size]
          /\ dext' = [dext EXCEPT ![i] = sl[s].ext]
     ELSE UNCHANGED <<dsize, dext>>

(* icreate: inodefile->size and rootino->size grow by one entry, then     *)
(* updatei(inodefile).                                                    *)
UpdateInodefile(p) ==
  LET f == hold[p].inodefile
      r == hold[p].rootino
  IN
  /\ pc[p] = "c_upif"
  /\ Updatei([slot EXCEPT ![f].size = @ + 1, ![r].size = @ + 1], f)
  /\ Goto(p, "c_uproot")
  /\ UNCHANGED <<dtype, blk, nexte, gif, holder, valid, fslot, fdt, nm, md, hold, dinum>>

(* icreate: updatei(rootino).                                             *)
UpdateRoot(p) ==
  /\ pc[p] = "c_uproot"
  /\ Updatei(slot, hold[p].rootino)
  /\ Goto(p, "c_pub")
  /\ UNCHANGED <<dtype, blk, nexte, gif, holder, valid, fslot, fdt, nm, md, hold, dinum>>

(* icreate: icache.inodefile = *inodefile, then iget(dir->inum).          *)
Publish(p) ==
  LET f == hold[p].inodefile IN
  /\ pc[p] = "c_pub"
  /\ gif' = slot[f].size
  /\ Iget(p, slot, hold[p], dinum[p], "ptr", "c_unlock", "c_nload")
  /\ UNCHANGED <<dtype, dsize, dext, blk, nexte, holder, valid, fslot, fdt, nm, md, dinum>>

(* Mutation-analysis variant: icreate returns without releasesleep.      *)
CreateDoneNoRelease(p) ==
  /\ pc[p] = "c_unlock"
  /\ Fileopen(p, hold[p].ptr)
  /\ Return(p)
  /\ UNCHANGED <<dtype, dsize, dext, blk, nexte, slot, gif, holder, nm, md>>

(* icreate: releasesleep(&inodefile->lock) wakes the sleepers; sys_open   *)
(* then calls fileopen.  Neither inodefile nor rootino is released.       *)
CreateDone(p) ==
  /\ pc[p] = "c_unlock"
  /\ holder' = [holder EXCEPT ![hold[p].inodefile] = NoProc]
  /\ Fileopen(p, hold[p].ptr)
  /\ Return(p)
  /\ UNCHANGED <<dtype, dsize, dext, blk, nexte, slot, gif, nm, md>>

(* sys_close(fd) on an open disk file: fileclose under ftable.lock with   *)
(* ref_count 1 clears the valid flag and calls irelease.                  *)
SysClose(p, d) ==
  LET g == fdt[p][d] IN
  /\ pc[p] = "idle"
  /\ g # 0 /\ valid[g]
  /\ valid' = [valid EXCEPT ![g] = FALSE]
  /\ slot' = Irelease(slot, fslot[g])
  /\ fdt' = [fdt EXCEPT ![p][d] = 0]
  /\ UNCHANGED <<dtype, dsize, dext, blk, nexte, gif, holder, fslot, pc, nm, md, hold, dinum>>

(* A panic stops the kernel; so, in the model, do the runs of writei it  *)
(* does not follow ("ub", "untracked").                                   *)
Running == \A p \in Procs : pc[p] \notin {"panic", "ub", "untracked"}

(* The steps of a system call already under way: the kernel code between *)
(* its entry and its return.                                              *)
InKernel(p) ==
  \/ IgetFill(p)
  \/ NamexLookup(p)
  \/ NamexNext(p)
  \/ CreateLock(p)
  \/ CreateDinode(p)
  \/ CreateDirent(p)
  \/ UpdateInodefile(p)
  \/ UpdateRoot(p)
  \/ Publish(p)
  \/ CreateDone(p)

Next ==
  /\ Running
  /\ \E p \in Procs :
       \/ \E n \in Names, m \in Modes : SysOpen(p, n, m)
       \/ InKernel(p)
       \/ \E d \in 1..NOFILE : SysClose(p, d)

Spec == Init /\ [][Next]_vars

(* The scheduler runs every RUNNABLE process round-robin, and            *)
(* releasesleep wakes the sleepers on the lock, so a process inside the  *)
(* kernel whose next step stays enabled takes it.  Nothing is assumed    *)
(* about the system calls user code makes.                                *)
FairSpec == Spec /\ \A p \in Procs : WF_vars(Running /\ InKernel(p))

-----------------------------------------------------------------------------
TypeOK ==
  /\ dtype \in [Inums -> Types]
  /\ dsize \in [{INODEFILEINO, ROOTINO} -> Nat]
  /\ dext \in [Inums -> Exts]
  /\ \A g \in Groups : \A k \in 1..Len(blk[g]) : blk[g][k] \in [name : Names \cup {NoName}, inum : Inums]
  /\ nexte \in 2..(2 + MaxFiles)
  /\ slot \in [Slots -> [ref : Nat, inum : Inums, type : Types, size : Nat, ext : Exts]]
  /\ holder \in [Slots -> Procs \cup {NoProc}]
  /\ valid \in [1..NFILE -> BOOLEAN]
  /\ fslot \in [1..NFILE -> 0..NINODE]
  /\ fdt \in [Procs -> [1..NOFILE -> 0..NFILE]]
  /\ hold \in [Procs -> [Locals -> 0..NINODE]]
  /\ dinum \in [Procs -> Inums]

(* References to an icache entry: open files of the global table and the *)
(* pointers the running calls hold (namex's ip and next, icreate's        *)
(* inodefile and rootino, the inode sys_open passes to fileopen).          *)
Holders(s) ==
  Cardinality({g \in 1..NFILE : valid[g] /\ fslot[g] = s})
    + Cardinality({pv \in Procs \X Locals : hold[pv[1]][pv[2]] = s})

(* No icache entry is recycled while it is in use: every entry has at    *)
(* least as many references as holders, so iget never hands a slot an   *)
(* open file or a running namex/icreate still points to to another inum. *)
(* Needs ref++ on every cache hit, irelease on every path that drops a   *)
(* pointer and exactly once, across interleaved opens, creates, closes.  *)
RefsCoverHolders == \A s \in Slots : slot[s].ref >= Holders(s)

(* The root directory as the disk holds it: the first dsize[1] dirents of *)
(* the group dinode 1 points to.                                          *)
RootView == Entries(dext[ROOTINO], dsize[ROOTINO])

(* create appends a dirent to the root directory (spec, section 4.3): a  *)
(* name the root directory binds on disk stays bound to the same inode   *)
(* across every create, whatever icreate's writei and updatei(rootino)   *)
(* write through the root's icache entry.                                 *)
DirentsAppendOnly ==
  [][\A k \in 1..dsize[ROOTINO] :
       RootView[k].inum # 0 => k <= dsize'[ROOTINO] /\ RootView'[k] = RootView[k]]_vars


(* Every open returns (sys_open, namex, icreate): a process that entered *)
(* sys_open gets back to user mode, unless the kernel panics.  Needs     *)
(* icreate's releasesleep to hand the inode-file lock on, and iget and   *)
(* irelease never to leave a call waiting on a slot.                      *)
OpenReturns == \A p \in Procs : pc[p] # "idle" ~> (pc[p] = "idle" \/ ~Running)

====
