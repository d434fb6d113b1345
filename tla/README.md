# TLA+ models of the xk kernel (cse451-wi18)

This directory holds TLA+ models of the xk teaching kernel under
`src/cse451-wi18-master`, the TLC configurations that check them, and
`PROJECT.json`. That file records components, runs, mutants, the
definition-to-source map, findings and hazards.

## The system

xk is a small x86-64 kernel. The parts this repository implements are:

| Part | Source | What it does |
|---|---|---|
| Frame allocator and swap | `kernel/kalloc.c` | `core_map` (one entry per physical frame: available, user, va, ref_count), `kalloc`/`kfree`, `free_pages`; when `free_pages < 10` kalloc evicts a frame chosen by `lru_evict` to a swap slot (`swap_map`, `getavailablespn`, `diskwrite`) |
| Address spaces | `kernel/vspace.c`, `inc/vspace.h` | per-process regions (code, heap, stack) of `vpage_info` (used, present, writable, cow, swap, ppn, spn); `vregionaddmap`, `vspaceinvalidate` (rebuild PTEs), `vspaceshallowcopy` (copy-on-write fork), `free_page_desc_list`/`vspacefree`, `vawasaccessed` |
| Page-fault handler | `kernel/trap.c` | swap-in, cow copy, cow promote, `growustack`, or kill |
| Processes | `kernel/proc.c` | `fork`, `exit`, `wait`, `sbrk`, `kill`, scheduler, sleep/wakeup, and `updatevpages`, which retargets every process's page at a va when a frame moves to or from swap |
| Open files and pipes | `kernel/file.c`, `kernel/sysfile.c`, `readp`/`writep` in `kernel/fs.c` | global `ftable`, per-process fd tables, dup/close/open, pipes with a ring buffer |
| File system | `kernel/fs.c` | inodes with up to `EXTENT_N` extents, bitmap allocation, `readi`/`writei`/`appendi`/`updatei`, root directory lookup |
| Inode cache and open | `kernel/fs.c`, `kernel/file.c`, `kernel/sysfile.c` | `icache` slots (`iget`, `irelease`, `read_dinode` through the cached inode file), `namex`/`dirlookup`, `icreate`, `sys_open`/`fileopen`/`sys_close` |
| Log | `kernel/fs.c` | `log_write`, `log_commit_tx`, `log_recover`: a redo log with a commit block |
| exec | `kernel/exec.c`, `kernel/vspace.c` | a new address space built in a temporary vspace and copied into the process |

How the parts interact, as far as the memory model is concerned:
- Every allocation can evict. `kalloc`, called from `sbrk`, `growustack`,
  the cow-copy fault and the swap-in fault, may write some frame out to swap.
- The eviction calls `updatevpages`. That rewrites the VPIs of *every*
  process mapping the victim, in the middle of the calling handler.
- A swap-in calls `updatevpages` in the other direction.
- Fork shares frames and slots by reference count. The cow faults, eviction,
  swap-in, `kfree` and `free_page_desc_list` all move those counts.

The file side:
- `filewrite` runs `writei` (and `appendi`) as one log transaction, then
  `updatei` as a second one that rewrites the file's dinode in the inode
  file. `getstartblkno` writes the bitmap outside the log.
- `sys_open` walks `namex`, whose `iget`s fill icache slots. When the name is
  absent it calls `icreate`, which appends a dinode and a dirent and calls
  `updatei` twice.

Where a system call can be switched out: the syscall gate is a trap gate
(trap.c:24), and the timer interrupt yields in kernel mode too
(trap.c:238-241). So a call is preempted wherever it holds no spinlock,
besides sleeping in `bread`, `acquiresleep` and the pipe and wait loops.
The spec (sections 3 and 7) calls the kernel cooperative. `ICache` steps at
every unlocked window. `ProcFile` takes a call as one step between the
sleeps it makes (the pipe and wait loops). `CowSwap` is coarser: each
handler is one step even across its disk sleeps (`diskwrite` and
`acquiresleep` in eviction, kalloc.c:279-281; `diskread` in swap-in,
kalloc.c:220-222), so another process running while a handler waits on
the disk is not modelled.

## Modules

### `CowSwap.tla`: frames, slots, VPIs, fork, exec, faults, exit/reap

State (VARIABLES) and its counterpart in the code:
- `core_map`, `swap_map`, `free_pages`, `evict_i`: the globals of kalloc.c
  with the same names. Frame 0 stands for kernel memory.
- `vpi[p][v]`: the `vpage_info` of page v of process p. Page 0 is code,
  pages `1..NHeap` are heap, and the top `NStack` pages are stack.
  `used` stands for "inside a region".
- `accessed[p][v]`: the PTE_A bit. `vspaceinvalidate` keeps it only for
  present pages, and `vawasaccessed` clears it.
- `live`, `killed`, `zombie`, `parent`: the process states fork, exit and
  wait move between.
- `frame_data`, `slot_data`: one value per page content. `kfree` writes
  `Junk`, the memset of freed pages.
- `expected[p][v]`: a history variable, the value p last stored at v. It is
  not kernel state.

Operations:
- `KAlloc` is an *operator*. It returns the frame and the whole post-state
  of the call: first fit, or eviction via `GetAvailableSpn`, `LruScan`,
  `UpdateVpages` and `MarkUserMem`. Each handler that calls kalloc composes
  it in code order, so an eviction happens inside that handler's step.
  `LruScan` is RECURSIVE with a fuel bound of two passes over core_map.
  When the fuel runs out, lru_evict would spin forever, and the handler is
  not enabled. `VaWasAccessed` is vawasaccessed. `DiskWrite`, `DiskRead`
  and `SwapIn` are diskwrite, diskread and swapin, at one value per page.
  `KAllocAt(s, cur)` is kalloc applied to a state record `s` (`Now` is the
  current state). `Then` chains calls, so the four kallocs of exec follow
  each other inside one step.
- Actions:
  - `Sbrk`: sbrk of one page, through `VregionAddMap` (vregionaddmap), which `FaultGrowStack` uses too.
  - `Fork`: vspaceshallowcopy plus the invalidations.
  - `FaultSwapIn`, `FaultCowCopy`, `FaultCowPromote`, `FaultGrowStack`,
    `FaultKill`: the branches of the T_PGFLT handler, with its
    if/else-if chain as guards.
  - `Exit`.
  - `Reap`: wait's process_zombie_child with vspacefree.
  - `Exec(p, d, a)`: the success path of exec, with program text `d` and
    arguments `a`, composed from the vspace.c calls it makes:
    - `VspaceLoadCode` and `VspaceInitStack` build the temporary vspace
      `TempVspace` and mark its frames as user memory (`MarkTempUser`).
    - `VspaceWriteToVa` writes the arguments.
    - `VregionFree` and `VspaceInit` clear the current regions and give a
      fresh page table. The old page table, which still maps `oldf`, is
      kept.
    - `CopyVpiPage` runs once per region, then `VspaceCopyDone`.
    - `VspaceFree` frees the temporary vspace, and `KFreeSet` is freevm of
      the old page table.
    - While the code region is copied, the current stack region still
      aliases the temporary page list, because vspacecopy memmoves the
      regions first. An eviction's updatevpages can therefore retarget the
      temporary stack page.
    - ELF parsing, the trap frame and the failure returns are not modelled.
      A kalloc that fails or hangs disables the step.
    - `Exec` is in `NextExec` and `SpecExec`, used by the exec run. `Next`
      leaves it out, so the pass runs stay within their time.
  - `Touch` and `Store`: what the MMU does on a user access.
- Each handler is one atomic step. A page fault enters through an
  interrupt gate, so the timer cannot preempt it, and the model has one
  CPU. The handler still sleeps in the disk calls of eviction and
  swap-in, and the model does not split it there. `Sbrk` and `Fork` are
  taken as atomic too.

Properties:
- `TypeOK`.
- `ViewConsistent`: every mapped page of every live process reads what that
  process last stored there (spec: swap correctness; a shallow copy plus a
  write behaves as a deep copy).
- `RefCountExact`: a frame's ref_count equals the number of present VPIs
  mapping it, and it is available exactly when none does. The same holds for
  allocated slots, and a free slot is referenced by none.
- `NoSharedWritable`: a writable mapping is never shared.
- `FreePagesAccurate`: the counter that drives eviction equals the number of
  available frames.
- `KAllocReturns`: whenever a running process could call kalloc, a call
  below the low-water mark finds a victim within lru_evict's scan. A
  frame left with user = 0, or an accessed bit never cleared, would make the
  loop spin.

`MCCowSwap.tla` declares the process model values.

### `ProcFile.tla`: processes, open files and pipes

State and its counterpart in the code:
- `state`, `chan`, `parent`, `killed`: `struct proc` fields; `chan` is the
  sleep channel as `<<"front"|"tail"|"wait", page or pid>>`.
- `pc`, `arg`: where a sleeping system call resumes (`readp`, `writep`,
  `wait`) and its arguments.
- `fdt[p][fd]`: `p->file_table`, an ftable slot or `NoFile`.
- `valid`, `ftab`: `ftable.valid_flags` and `ftable.file_table` (ref count,
  disk or pipe, mode, pipe page).
- `pipe[g]`: the pipe on page g: `read_fd`, `write_fd`, `front`, `tail`.
  `front` and `tail` are `int`s of `IntBits` bits (`Wrap`).

Each system call is one atomic step (`SysOpen`, `SysDup`, `SysClose`,
`SysPipe`, `SysRead`, `SysWrite`, `SysFork`, `SysExit`, `SysWait`,
`SysKill`). Each call runs as one step until it returns or sleeps; this
follows the spec's cooperative kernel (see above for the preemption the
code allows). A call that sleeps inside `readp`, `writep` or `wait`
continues as `Resume`, which re-runs the loop it slept in. `fileclose`,
exit's reparenting and fork's reference counting are operators
(`FileClose`, `Reparent`, `ForkRefs`) that the actions compose in code order.
The return-to-user check of trap.c (a killed process exits) is the guard
`UserMode` plus the `killed` disjunct of `SysExit`. `SysKill` follows
`kill`'s pid match: live processes have distinct pids, and every UNUSED slot
has pid 0, so `kill(0)` marks the first UNUSED slot. `allocproc` does not
clear `killed`, and `SysFork` keeps it, so the next child there starts
killed.

The pipe counters wrap at `IntBits` bits, so the pipes run reaches the
overflow of `front` and `tail`. No property is kept for their range alone:
`Wrap` keeps them in range by construction.

Properties:
- `FileRefsExact`: a slot's ref count is the number of descriptors naming it,
  and a slot is valid exactly when some descriptor does.
- `PipeEndsLive`: a live pipe's page is named by some open slot.
- `SleepingWriterFull`: a writer sleeps on `&tail` only when the buffer is
  full.
- `ZombieReparented`: a zombie has initcode or a live process as parent.
- `WaitReturns` (liveness): a parent in `wait` with a zombie child leaves
  `wait`. It needs `exit`'s `wakeup1(parent)` to reach a parent that slept
  before the child died.
- `ReaderHasWriter`, `KilledExits`: see the violation runs.

### `Log.tla` and `AtomicLog.tla`: the write-ahead log

`Log` keeps the durable state: home blocks `disk`, payload blocks `logdisk`,
and the commit block `cb`. It also keeps the volatile state: the buffer
`cache`, `log_cache` as `lcache`, and the loop index `i` and local commit
block `cbm` of the running `log_commit_tx` or `log_recover`.
- `LogWrite` is `log_write` (a caller changes a cached block, then stages it).
- `CommitBegin`, `CommitLog`, `CommitMark` are `log_commit_tx`, one `bwrite`
  per step. The `bwrite` of the commit block is the single step that commits.
- `RecoverApply`, `RecoverEnd` are `log_recover`.
- `CrashBoot` loses the volatile state and reboots into `iinit`'s
  `log_recover`.

So a crash can fall between any two disk writes, including in the middle of
a recovery.

`AtomicLog` is what the spec (section 4.2) promises: staged writes reach the
disk only through a commit, all at once, and a crash drops what is staged.
`Log` refines it. `Abs == INSTANCE AtomicLog WITH ...` maps the durable disk
to the home blocks, with the committed transaction replayed over them while
`commit_flag` is 1. It maps the staged writes to `log_cache` until the commit
block is written. `LogAtomic == Abs!ASpec` is checked as a PROPERTY.
`CacheCoherent` says that between transactions the commit block is clear
and the cache is the disk with the staged writes applied.

`Log` has no run of its own: `FileWrite` instantiates it, and the `write`
run checks `CacheCoherent` and `LogAtomic` over the blocks the file layer
writes. `AtomicLog`'s `Stage` adds one or more staged writes at once, because
`FileWrite`'s `WriteBegin` stages every block of one `writei` in a single
step.

### `FileWrite.tla`: one file's write path through `Log`

This models `filewrite`/`fileread` (file.c) with `writei`, `appendi`,
`getstartblkno`, `updatei` and `readi` (fs.c) on one regular file. Sizes
and offsets count whole blocks. An extent has `EXTB` blocks (8 in the code)
and an inode `EXTENT_N` extents. The bitmap is a row of `NGROUP` bytes in
scan order, and byte j names the group at `GroupStart(j)`. A block written
for file offset o by a write tagged t holds `<<t, o>>`, so a block in the
wrong place is visible.
- `WriteBegin` is `writei`: the capacity split, the extent walk
  (`SeekExtent`, `CopyLoop`: the code's `while` and `for` loops, its
  `size = off - size` included) and the `log_write`s.
- `AppendStep` is one turn of `appendi`'s loop. A turn can call
  `getstartblkno`, whose `bwrite` of the bitmap reaches the disk at once, so
  every turn is a crash point.
- The log is `L == INSTANCE Log WITH ...`. Its blocks are the data blocks
  plus the dinode block `DinodeBlk`, which holds `<<"dinode", size, ext>>`
  (`DinodeOf`, `InodeOf`). `log_write` of data is `L!Applied` on the cache
  and the staged list.
- `TxCommit` is the start of `log_commit_tx`. `LogStep` is one `bwrite` of
  the commit or one block of `log_recover`'s replay (Log's actions).
  `TxEnd` is the end of `log_recover`, returning to `writei`'s caller, to
  `updatei`'s, or, at boot, to `iinit`, which reads the inode back from
  the dinode.
- `Update` is the rest of `filewrite`: `offset += res`, `size += res`, and
  `updatei`, which reads the dinode and, when its size differs, logs the new
  dinode and commits it as its own transaction.
- `FileRead` is `readi` through `fileread`.
- `Crash` is `L!CrashBoot`: the cache, `log_cache`, the open files and the
  in-memory inode are lost, and boot recovers the log.

A walk that runs past `data[EXTENT_N-1]` is undefined behaviour in C. The
model records it as `wpc = "ub"`, from which only a crash leaves.

Properties:
- `TypeOK`.
- `ExtentsOwned`: every data-area extent of the inode and of the dinode has
  its bitmap byte set, even after crashes, and no two extents of the inode
  share a group.
- `InodeSynced`: between writes the dinode, after the committed log is
  replayed, equals the inode.
- `CacheCoherent`, `LogAtomic`: `Log`'s properties over this workload.
- `ReadBack`: see the violation runs.
- `NoLeakedGroup`: every group marked in the bitmap is used by the dinode
  once the log is replayed. No run checks it any more (see the fs.c:57 defect below).

### `ICache.tla`: the inode cache and the open path

State and its counterpart in the code:
- `slot[s]`: `icache.inode[s]` as `ref`, `inum`, `type`, `size` (the
  root's size counts dirents) and `ext`, its `data[0]`. An extent is 0 (no
  blocks), a block group of `Groups`, `ForeignExt` (another file's data)
  or `InodeExt` (the inode file's). A freed slot keeps its old extents and
  size, as `irelease` leaves them.
- `dtype`, `dsize`, `dext`: the inode file on disk, as the type and extent
  of each dinode and the sizes of dinodes 0 (the inode file) and 1 (the
  root).
- `blk`, `nexte`: the dirents stored in each group, and the next group
  `getstartblkno` hands out. At boot the root's dirents are in group 1.
- `gif`: `icache.inodefile.size`, the copy `read_dinode` reads through. It
  is refreshed only at the end of `icreate` (fs.c:236).
- `holder`: each slot's sleep-lock holder.
- `valid`, `fslot`, `fdt`: the global file table and the descriptors.
- `pc`, `nm`, `md`, `hold`, `dinum`: where each call is, its name and mode,
  the inode pointers it holds, and `icreate`'s `dir->inum`.

`Iget` is `iget`'s locked half: a cache hit, a claimed empty slot, or the
"no inodes" panic. `IgetFill` is the unlocked `read_dinode` into the
claimed slot, with the "no type" panic. A dinode past `gif` reads as the
uninitialised stack: type 0 or junk. Its extents are taken to be another
file's, which narrows what the uninitialised bytes could hold. `SysOpen`, `NamexLookup`,
`NamexNext` and `AfterNamei` are `sys_open` and `namex` over "/name".
`CreateLock` to `CreateDone` are `icreate`, split at each `iget`, at its
sleep lock and at its two `updatei` calls. `CreateDirent` is `writei` of
the dirent through the root entry's own extent. In a group, the dirent
lands at the entry's size. In another file's data, it lands there. With no
extent and size 0, `AppendDirent` (`appendi`) puts it first in a new group
and sets the entry's `data[0]`. With no extent and a larger size, `writei`'s
extent walk runs off `data[]`; the model stops there (`"ub"`). `Updatei`
compares the dinode's size with the entry's and, only if they differ,
writes the entry's size and extent into the dinode. `CreateDinode` writes
through the inode-file entry. If that entry is unfilled and its stale
extents are not the inode file's, the model stops there too
(`"untracked"`). `SysClose` is `sys_close` with
`fileclose` and `irelease`. The code's leaks are kept:
- the bad-mode return and `fileopen`'s failure paths keep the inode
  reference;
- `icreate` never releases `inodefile` or `rootino`;
- each `updatei` leaks an `iget` of the inode file.

A run starts a call only while every ref is below `MaxRef`, so the leaks
stay finite.

Properties:
- `TypeOK`.
- `RefsCoverHolders`: every slot has at least as many references as open
  files and in-flight pointers naming it. So `iget` never recycles a slot
  in use, across interleaved opens, creates and closes.
- `OpenReturns` (liveness, under `FairSpec`): a process inside
  `sys_open` gets back to user mode unless the kernel panics. It needs
  `icreate` to hand the inode-file sleep lock on.
- `DirentsAppendOnly` (action property): every name the root directory
  binds on disk (`RootView`: the first `dsize[1]` dirents of dinode 1's
  group) stays bound to the same inode. See the violation runs.

## Runs

| Run | Config | Bounds | Checks | Result |
|---|---|---|---|---|
| swap | `MCCowSwap_swap.cfg` | 1 process, 3 frames, 4 slots, 1 heap + 2 stack pages, eviction below 1 free frame | TypeOK, ViewConsistent, RefCountExact, FreePagesAccurate, KAllocReturns | pass, 7.5k states |
| cow | `MCCowSwap_cow.cfg` | 2 processes, 3 frames, no eviction | ViewConsistent, RefCountExact, NoSharedWritable | pass, 596k states, about 1 min |
| cowswap | `MCCowSwap_cowswap.cfg` | 2 processes, 3 frames, 3 slots | RefCountExact | **violation** |
| exec | `MCCowSwap_exec.cfg` | 1 process, 4 frames, 4 slots, eviction below 1 free frame, `SpecExec` | ViewConsistent | **violation** |
| pipes | `MCProcFile_pipes.cfg` | 2 processes, 2 slots, 2 fds, 1-byte pipe, 2-bit counters | FileRefsExact, PipeEndsLive, SleepingWriterFull | pass, 267k states |
| procs | `MCProcFile_procs.cfg` | 4 processes, 1 slot, 1 fd, fairness | ZombieReparented, WaitReturns (liveness) | pass, 285k states, about 3.5 min |
| eof | `MCProcFile_eof.cfg` | as pipes, 1-byte calls | ReaderHasWriter | **violation** |
| waitkill | `MCProcFile_waitkill.cfg` | 3 processes, fairness | KilledExits (liveness) | **violation** |
| write | `MCFileWrite_write.cfg` | 2-block extents, 3 extents, 3 groups, 2 opens, 1 tag, writes of 1-2 blocks, file up to 3 blocks, 2 log slots, VIEW | TypeOK, ExtentsOwned, InodeSynced, CacheCoherent, LogAtomic | pass, 101k states |
| readback | `MCFileWrite_readback.cfg` | as write, 1 open | ReadBack | **violation** |
| icache | `MCICache_open.cfg` | 2 processes, 2 names (1 at boot), 4 icache slots, 1 file slot, 1 fd, up to 2 files, refs below 3, fairness | TypeOK, RefsCoverHolders, OpenReturns (liveness) | pass, 156k states, about 1.5 min |
| appendonly | `MCICache_append.cfg` | as icache, both names at boot, 2 file slots, up to 3 files, refs below 4, no symmetry | DirentsAppendOnly | **violation** |

Why the bounds are enough:
- **ProcFile:**
  - **Pipe buffer:** a 1-byte buffer makes every second byte block a
    writer. 2-bit counters wrap within a few bytes.
  - **Slots:** two ftable slots are the two ends of one pipe, so an open
    after a close reuses a slot.
  - **Processes:** `procs` needs init, a parent, a child and a grandchild
    for reparenting.
- **Log (inside write):** two log slots give a transaction of two blocks,
  or a block and the dinode. A crash is possible at every step of commit
  and of recovery.
- **FileWrite:**
  - **Extents:** 2-block extents and writes of up to 2 blocks reach a write
    that crosses an extent boundary and an append of several blocks.
  - **Groups:** three groups are enough for three extents.
  - **Opens:** two opens give an overwrite at an offset behind the end.
  - **Tags:** one tag is enough, since a block's content already names the
    offset it was written for. The VIEW drops log payload blocks past the
    live log and the commit locals of an idle log, which no later step
    reads.
- **ICache:**
  - **Processes and names:** two processes and two names, one present at
    boot, give a lookup racing a create, two creates of one name, and an
    open of a file another process created.
  - **Slots:** four icache slots hold the inode file, the root and two
    files. Leaked references fill them within a few creates, so the
    "no inodes" panic is reached.
  - `MaxRef` 3 and one global file slot keep the pass run at 156k
    states. With two file slots it takes over four minutes, and with
    `MaxRef` 4 over fifteen. With `MaxRef` 3 no new open starts once a
    create has finished (its leaked references reach the bound), so the
    run covers the opens and creates up to the first completed create,
    and everything that interleaves with it. It has no symmetry, since it
    checks liveness.
  - **appendonly** has both names at boot. A create through the unfilled
    root then makes the root's size 1 where the dinode says 2, so
    `updatei(rootino)` writes. With one name at boot the sizes agree and
    the dinode is not rewritten: the new dirent is lost, but no name is.

CowSwap bounds:
- **swap:** four pages in three frames forces eviction on every further
  allocation. It covers a swap-in that evicts, the stack growing into a full
  memory, and the cursor wrapping.
- **cow:** two processes with three frames reach fork, a cow copy that fails
  for lack of a frame, promote after the sibling's copy, and reaping a child
  that shares frames with its parent.
- **exec:** four frames give exec two free frames for the temporary
  vspace, and the copy must then evict. With three frames the copy's last
  kalloc finds no victim, and exec hangs. With six frames and no eviction
  (`LowWater = 0`), `SpecExec` keeps TypeOK, ViewConsistent, RefCountExact
  and FreePagesAccurate (2.4k states). That run is a check of the model,
  not one of the runs.
- **Values:** `Vals = {0,1}` is enough to tell a wrong page from a right
  one.

The cowswap violation is a real bug (finding in PROJECT.json):
1. p1 forks p2.
2. p2 grows its heap.
3. p1's cow copy evicts p1's heap page to slot 0.
4. p1 faults the page back in.
5. `updatevpages(va, mem, VPI_PRESENT, 0, 0)` (proc.c:462) matches on
   `vpi->spn == 0` alone, so it also retargets p2's *present* heap page,
   whose spn is still the default 0.

The result: p2's frame leaks (ref_count 1, no mapper), and p1 and p2 now
share one writable frame.

Mutation analysis:
- Each property of the passing runs has a mutant in PROJECT.json. Each mutant
  is a plausible bug in the modelled code, and the property catches it under
  the run's own config:
  - the cursor not reset in lru_evict;
  - the present bit not cleared on swap-out;
  - an inverted slot test;
  - a missing `free_pages--`;
  - a missing swap-in branch;
  - kfree ignoring ref counts or not decrementing;
  - a promote test of `>= 1` (CowSwap);
  - a slot test or a reference count per slot instead of per descriptor, a
    close freeing either end, a missing final wakeup in `readp`, reparenting
    only live children, `exit` not waking its parent (ProcFile);
  - a recovery that leaves the commit flag set, a commit block written
    early, a `log_write` that stages a stale value (Log);
  - a group start off by one, an allocation not marked, an `updatei` that
    drops the extents (FileWrite);
  - a cache hit without `ref++`, a double `irelease` in `namex`, `icreate`
    returning without `releasesleep` (ICache);
  - `vawasaccessed` not clearing the accessed bit (CowSwap, `KAllocReturns`).
- These variants are the operators preceded by a "Mutation-analysis
  variant" comment in each module.

### What the violation runs show

Each is recorded as a finding in PROJECT.json.
- **eof** (fs.c:336):
  1. `readp` sleeps while `ftable.valid_flags[write_fd]` is set.
  2. Closing the write end frees that global slot, and a later `open` takes
     it.
  3. The reader sleeps with no write end left.
- **waitkill** (proc.c:257): `wait` never tests `p->killed`. A killed parent
  whose child keeps running goes back to sleep and never exits, though the
  scheduler and trap.c give it every chance.
- **readback** (fs.c:374): `appendi`'s `for` increments `data` on every
  turn. Writing 2 blocks to an empty file puts the second block in extent 1
  at offset 1, and reading back finds block 1 of extent 0 unwritten.
- **exec** (exec.c:82): one exec step with four frames.
  1. The code page and the temporary stack page take the two free frames.
  2. `vregionfree` clears the current regions, but the old page table
     still maps the old frames. The new page table has no PTE_A bits, so
     lru_evict takes the next user frame.
  3. Copying the code page evicts the old stack frame, which then holds the
     new code page.
  4. Copying the stack page evicts the temporary stack frame. updatevpages
     cannot reach it, so the copy reads the junk kfree left there.
  5. `vspacefree(&temp)` frees the new stack frame, and `freevm(pgtbl)`
     frees the new code frame.

  The new image reads junk from free frames. Without memory pressure
  the same model keeps every invariant.
- **appendonly** (fs.c:183):
  1. The root holds n1 and n2 (both at boot). p1 opens "/n1" and claims a
     never-used slot for the root. `iget` releases `icache.lock` before
     `read_dinode` has filled in the type, size and extents.
  2. p2 opens "/n1" with `O_CREATE`. Its `iget` of the root hits p1's
     unfilled slot: type 0, size 0, no extents.
  3. `namex` finds the root "not a directory" and returns 0, and `icreate`
     runs. Its `iget(ROOTINO)` hits the same unfilled slot.
  4. `writei` of the dirent sees capacity 0 at offset 0, so `appendi`
     takes a new group and writes the dirent first in it. The slot's
     `data[0]` is now that group, and its size becomes 1.
  5. `updatei(rootino)` reads dinode 1 (size 2), finds the size differs, and
     writes size 1 and the new group into dinode 1.
  The spec (section 4.3) says create appends. On disk the root now holds
  only the new dirent: n1 and n2 are no longer bound.

More defects are recorded as hazards with the trace that shows them:
- `writep` returning -1 for a killed writer after bytes of the same call
  went in, which skips `wakeup(&front)` and leaves a reader asleep beside
  data (fs.c:484);
- references leaked by `sys_open`, `fileopen` and `icreate`, leading to the
  "no inodes" panic where the spec says -1 and unwinding (sysfile.c:200,
  fs.c:400);
- the pipe page leaked on slot reuse (file.c:51);
- `size += res` on overwrites, making size exceed capacity (file.c:99);
- initcode exiting and orphaning zombies (proc.c:181);
- ring counters overflowing after 2^31 bytes (fs.c:491);
- `getstartblkno` `bwrite`-ing the bitmap outside the log (fs.c:57).
  - A crash before `updatei` commits leaves a group marked and owned by no
    dinode. `NoLeakedGroup` fails in the write configuration with one open.
  - That violation run made way for exec's; the hazard remains.
  - Enough such crashes fill the bitmap. `getstartblkno` then returns 0, and
    `appendi` writes file data over blocks 0..7 (hazard fs.c:69).

## Fairness

- **CowSwap and FileWrite (with Log):** check only safety, so they assume
  no fairness.
- **ICache:** `FairSpec` assumes weak fairness of each process's in-kernel
  steps (`InKernel(p)`), not of `SysOpen` or `SysClose`.
  - The round-robin scheduler runs every `RUNNABLE` process.
  - `releasesleep` wakes the waiters on the inode-file lock.
- **ProcFile:** assumes weak fairness of `Resume(p)` and of a killed process
  exiting.
  - xk's scheduler runs every `RUNNABLE` process round-robin, so a woken
    kernel loop eventually runs again.
  - trap.c:61-69 exits a killed process at its next kernel entry or return
    to user mode.
  - No fairness is assumed for what user code does (open, write, close):
    a user program need not make progress.
- **Deadlock checking:** off in the ProcFile and CowSwap runs, since every
  process may end up asleep on a pipe or exited and the kernel then idles.
  FileWrite's `Crash` is always enabled. ICache's runs stop at a kernel
  panic (a halt, not a deadlock), so they do not check deadlock either.

## Not modelled (yet), and why

- **Kernel metadata frames:** kstacks, page tables and VPI pages.
  - kalloc is therefore never called for them by fork or exec in the
    model, and a fork never fails half-way (hazard vspace.c:506).
  - `vm.c` is not in the repository.
- **Concurrency across CPUs:** the unlocked `ref_count` read in trap.c.
- **Two files writing at once:** `log_cache` is global, and only the inode
  lock serialises writers (hazard fs.c:504).
- **The inode cache together with the write path:** `ICache` and
  `FileWrite` are separate models. `ICache` keeps sizes, types and the root's extents, and
  `FileWrite` runs one file with its inode already cached. `ICache` keeps
  the root's dirents by block group; other files' data is not kept, so a
  write landing there (a stale entry's extents) changes nothing modelled,
  and a dinode written through such an entry stops the behaviour.
- **Paths below the root, `idup`, `stati`, devices:** the kernel only
  creates files in the root.
- **The stray store through icreate's uninitialised `dir` pointer**
  (fs.c:223): its target depends on the compiled stack layout.
- **The bitmap stride overlap beyond 64 groups** (fs.c:60): out of TLC's
  reach with per-block contents.
- **Log overflow past 40 staged blocks** (fs.c:504): the model caps a
  transaction at `LOGSIZE`.
- **exec's failure paths and the ELF loader:**
  - A kalloc failure or a bad ELF header makes `Exec` disabled rather than
    returning -1.
  - With the code's low-water mark of 10, the first-fit path never fails.
  - ELF parsing is data layout.
- **Console and disk drivers:** I/O.
- **A pipe-index property:** the C remainder of an overflowed counter is
  negative (fs.c:491). With a 2-byte buffer it shows four steps after
  `pipe`; it has no run of its own.

## Plan

1. **Two files sharing `log_cache`:** compose two `FileWrite` writers over
   one `Log`, with the inode lock as the only serialisation (hazard fs.c:504).
2. **CowSwap:** a run with slot exhaustion (kalloc.c:198). The swap
   configuration with `NSlots = 1` already fails RefCountExact after 89
   states: a swap-in's eviction reuses slot 0. All twelve runs are taken.
   `KAllocReturns` is checked in the swap run. In the cowswap configuration
   it ran to 890k states at depth 9 without a hang, which is beyond a
   5-minute run.
3. **ICache:** a property that an `iget` of a created file reads its own
   dinode (fs.c:236), once a run slot is free.
4. **ProcFile:** preemption inside `sys_close`, whose copy of the file
   entry is read before `ftable.lock` (sysfile.c:137), and `exit` calling
   `fileclose` without the lock (proc.c:172). Both are recorded as hazards.
5. **CowSwap:** exec in a forked child, whose old frames are shared
   copy-on-write with its parent. The exec run has one process.
