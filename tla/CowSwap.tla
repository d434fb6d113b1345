------------------------------- MODULE CowSwap -------------------------------
(***************************************************************************)
(* User memory of the xk kernel: the frame table and its allocator        *)
(* (kernel/kalloc.c), the swap-slot table, the per-process virtual page   *)
(* infos (kernel/vspace.c), copy-on-write fork (vspaceshallowcopy), the   *)
(* page-fault handler (kernel/trap.c) and updatevpages (kernel/proc.c).   *)
(*                                                                         *)
(* Every handler runs as one atomic step of the faulting or calling       *)
(* process: the page fault enters through an interrupt gate, so the timer *)
(* cannot preempt it, and the model has one CPU; sbrk and fork, which the *)
(* code lets the timer preempt, are taken as atomic too.  kalloc          *)
(* is an operator composed into every handler that calls it, so that the *)
(* eviction it may perform happens inside that handler, in code order.    *)
(*                                                                         *)
(* Data is abstracted to one value per page: frame_data and slot_data hold*)
(* the page contents, expected[p][v] is the value process p last stored   *)
(* at page v (a history variable, not kernel state).                      *)
(***************************************************************************)
EXTENDS Integers, FiniteSets, FiniteSetsExt

CONSTANTS
  Procs,      \* process-table slots
  InitProc,   \* the slot of the first user process
  NFrames,    \* user frames 1..NFrames; index 0 is a kernel frame
  NSlots,     \* swap slots 0..NSlots-1 (2048 in the code)
  NHeap,      \* heap pages above the single code page 0
  NStack,     \* stack pages; also the growustack cap (10 in the code)
  LowWater,   \* kalloc evicts while free_pages < LowWater (10 in the code)
  Vals        \* values a user store can write; 0 is the zero page

ASSUME InitProc \in Procs
ASSUME NFrames \in Nat \ {0} /\ NSlots \in Nat \ {0}
ASSUME NHeap \in Nat /\ NStack \in Nat \ {0} /\ LowWater \in Nat
ASSUME 0 \in Vals

Junk == -1                               \* kfree fills a page with junk
Top == NHeap + NStack                    \* highest user page (just below SZ_2G)
VAs == 0 .. Top
HeapVAs == 1 .. NHeap
StackVAs == (NHeap + 1) .. Top           \* [SZ_2G - 10*PGSIZE, SZ_2G)
CMIdx == 0 .. NFrames                    \* core_map indices (npages)
UserFrames == 1 .. NFrames
Slots == 0 .. NSlots - 1

VARIABLES
  live,         \* process slots that are not UNUSED
  killed,       \* processes whose killed flag is set
  zombie,       \* processes that have exited and wait to be reaped
  parent,       \* parent[p]: the process that reaps p
  vpi,          \* vpi[p][v]: struct vpage_info of page v of process p
  core_map,     \* core_map[i]: struct core_map_entry
  swap_map,     \* swap_map[s]: struct swap_entry
  free_pages,   \* the free_pages counter
  evict_i,      \* lru_evict's cursor
  accessed,     \* hardware PTE_A bit of p's page-table entry for v
  frame_data,   \* contents of each frame
  slot_data,    \* contents of each swap slot (8 disk blocks)
  expected      \* history: what p last stored at v

vars == <<live, killed, zombie, parent, vpi, core_map, swap_map, free_pages, evict_i,
          accessed, frame_data, slot_data, expected>>

NoVpi == [used |-> FALSE, present |-> FALSE, writable |-> FALSE,
          cow |-> FALSE, swap |-> FALSE, ppn |-> 0, spn |-> 0]
FreeEntry == [available |-> TRUE, user |-> FALSE, va |-> 0, ref_count |-> 0]

-----------------------------------------------------------------------------
(* vspaceinvalidate(p): rebuild p's PTEs from its VPIs.  The accessed bit *)
(* survives only for pages that stay present; installing a user mapping   *)
(* records the owning va in the frame's entry (mark_user_mem).            *)
(* The operators take the set P of processes whose vspace is invalidated. *)
InvalidatedAcc(acc, vp, P) ==
  [q \in Procs |-> IF q \in P THEN [v \in VAs |-> acc[q][v] /\ vp[q][v].present]
                                ELSE acc[q]]

MarkUserMem(cm, vp, P) ==
  [i \in CMIdx |->
     IF \E q \in P, v \in VAs : vp[q][v].present /\ vp[q][v].ppn = i
     THEN [cm[i] EXCEPT !.user = TRUE,
                        !.va = CHOOSE v \in VAs :
                                 \E q \in P : vp[q][v].present /\ vp[q][v].ppn = i]
     ELSE cm[i]]

(* getavailablespn: the lowest free slot, or 0 when every slot is in use. *)
(* Mutation-analysis variant: the slot test is inverted.                *)
GetAvailableSpnInUse(sm) ==
  IF \E s \in Slots : ~sm[s].available
  THEN Min({s \in Slots : ~sm[s].available})
  ELSE 0

GetAvailableSpn(sm) ==
  IF \E s \in Slots : sm[s].available
  THEN Min({s \in Slots : sm[s].available})
  ELSE 0

(* vawasaccessed(vs, va): 0 unless va's PTE is present; otherwise the    *)
(* PTE_A bit, which the call then clears (the caller clears acc[va]).     *)
VaWasAccessed(vp, v, acc) == vp[v].present /\ acc[v]

(* lru_evict: scan from evict_i+1 for an allocated user frame with va#0   *)
(* whose page is not marked accessed in the CALLER's page table; the test *)
(* (vawasaccessed) clears the bit it reads.  fuel = 0 means the loop     *)
(* would spin forever.                                                    *)
(* Mutation-analysis variant: the cursor is left at the raw counter     *)
(* instead of being set to the victim (evict_i = index dropped).         *)
RECURSIVE LruScanNoReset(_, _, _, _, _)
LruScanNoReset(vp, cm, i, acc, fuel) ==
  LET idx == i % (NFrames + 1)
      v == cm[idx].va
  IN IF fuel = 0 THEN [found |-> FALSE, victim |-> 0, cursor |-> 0, acc |-> acc]
     ELSE IF ~cm[idx].available /\ v # 0 /\ cm[idx].user
          THEN IF vp[v].present /\ acc[v]
               THEN LruScanNoReset(vp, cm, i + 1, [acc EXCEPT ![v] = FALSE], fuel - 1)
               ELSE [found |-> TRUE, victim |-> idx, cursor |-> i, acc |-> acc]
          ELSE LruScanNoReset(vp, cm, i + 1, acc, fuel - 1)

(* Mutation-analysis variant: vawasaccessed reads the accessed bit but  *)
(* does not clear it.                                                     *)
RECURSIVE LruScanNoClear(_, _, _, _, _)
LruScanNoClear(vp, cm, i, acc, fuel) ==
  LET idx == i % (NFrames + 1)
      v == cm[idx].va
  IN IF fuel = 0 THEN [found |-> FALSE, victim |-> 0, cursor |-> 0, acc |-> acc]
     ELSE IF ~cm[idx].available /\ v # 0 /\ cm[idx].user
          THEN IF vp[v].present /\ acc[v]
               THEN LruScanNoClear(vp, cm, i + 1, acc, fuel - 1)
               ELSE [found |-> TRUE, victim |-> idx, cursor |-> idx, acc |-> acc]
          ELSE LruScanNoClear(vp, cm, i + 1, acc, fuel - 1)

RECURSIVE LruScan(_, _, _, _, _)
LruScan(vp, cm, i, acc, fuel) ==
  LET idx == i % (NFrames + 1)
      v == cm[idx].va
  IN IF fuel = 0 THEN [found |-> FALSE, victim |-> 0, cursor |-> 0, acc |-> acc]
     ELSE IF ~cm[idx].available /\ v # 0 /\ cm[idx].user
          THEN IF VaWasAccessed(vp, v, acc)
               THEN LruScan(vp, cm, i + 1, [acc EXCEPT ![v] = FALSE], fuel - 1)
               ELSE [found |-> TRUE, victim |-> idx, cursor |-> idx, acc |-> acc]
          ELSE LruScan(vp, cm, i + 1, acc, fuel - 1)

(* The state a kalloc call reads and writes, as a record, so that the     *)
(* several kalloc calls of one handler (exec) can be chained.            *)
(* ok, hang and frame carry the outcome of the last call.                *)
Now == [ok |-> TRUE, hang |-> FALSE, frame |-> 0,
        cm |-> core_map, sm |-> swap_map, vpi |-> vpi, acc |-> accessed,
        evict_i |-> evict_i, free_pages |-> free_pages, fdata |-> frame_data,
        sdata |-> slot_data]

(* The result k of a kalloc made after the calls that led to s: it has    *)
(* failed or hung if any of them did.                                     *)
Then(s, k) == [k EXCEPT !.ok = s.ok /\ @, !.hang = s.hang \/ @]

(* Result of a kalloc call: the frame (0 on failure), whether the call    *)
(* hangs, and the state s it leaves behind.                               *)
KResult(ok, f, s) ==
  [ok |-> ok, hang |-> FALSE, frame |-> f, cm |-> s.cm, sm |-> s.sm, vpi |-> s.vpi,
   acc |-> s.acc, evict_i |-> s.evict_i, free_pages |-> s.free_pages,
   fdata |-> s.fdata, sdata |-> s.sdata]

(* kalloc, first-fit path: the lowest available frame gets ref_count 1.   *)
(* Mutation-analysis variant: free_pages-- is missing.                  *)
FirstFitNoCount(s) ==
  LET avail == {f \in UserFrames : s.cm[f].available} IN
  IF avail = {} THEN KResult(FALSE, 0, s)
  ELSE LET f == Min(avail) IN
       KResult(TRUE, f, [s EXCEPT !.cm[f].available = FALSE, !.cm[f].ref_count = 1])

FirstFit(s) ==
  LET avail == {f \in UserFrames : s.cm[f].available} IN
  IF avail = {} THEN KResult(FALSE, 0, s)
  ELSE LET f == Min(avail) IN
       KResult(TRUE, f, [s EXCEPT !.cm[f].available = FALSE, !.cm[f].ref_count = 1,
                                  !.free_pages = @ - 1])

(* updatevpages(va, ppn, present, spn, swap): in every process whose     *)
(* regions contain va, retarget the page.  Moving in matches on the spn   *)
(* alone, moving out on the ppn alone; neither test looks at the page's   *)
(* own present/swap bits.                                                 *)
UpdateHit(vp, q, va, ppn, present, spn, swap) ==
  /\ vp[q][va].used
  /\ \/ present /\ vp[q][va].spn = spn
     \/ ~present /\ swap /\ vp[q][va].ppn = ppn

(* Mutation-analysis variant: moving out forgets vpi->present = 0.     *)
UpdateVpagesKeepPresent(vp, va, ppn, present, spn, swap) ==
  [q \in Procs |->
     IF ~UpdateHit(vp, q, va, ppn, present, spn, swap) THEN vp[q]
     ELSE IF present
          THEN [vp[q] EXCEPT ![va] = [@ EXCEPT !.ppn = ppn, !.present = TRUE,
                                              !.spn = 0, !.swap = FALSE]]
          ELSE [vp[q] EXCEPT ![va] = [@ EXCEPT !.spn = spn, !.swap = TRUE,
                                              !.ppn = 0]]]

UpdateVpages(vp, va, ppn, present, spn, swap) ==
  [q \in Procs |->
     IF ~UpdateHit(vp, q, va, ppn, present, spn, swap) THEN vp[q]
     ELSE IF present
          THEN [vp[q] EXCEPT ![va] = [@ EXCEPT !.ppn = ppn, !.present = TRUE,
                                              !.spn = 0, !.swap = FALSE]]
          ELSE [vp[q] EXCEPT ![va] = [@ EXCEPT !.spn = spn, !.swap = TRUE,
                                              !.ppn = 0, !.present = FALSE]]]

(* diskwrite(va, spn): the page's eight blocks go to swap blocks         *)
(* spn*8+2 ..; the pages_in_swap count, which nothing reads, is left out. *)
DiskWrite(sd, spn, page) == [sd EXCEPT ![spn] = page]

(* diskread(dst, spn): the eight blocks of slot spn are copied into the   *)
(* frame at dst.                                                          *)
DiskRead(fd, mem, sd, spn) == [fd EXCEPT ![mem] = sd[spn]]

(* swapin(spn, va, dst): diskread into dst, then                          *)
(* updatevpages(va, dst, VPI_PRESENT, spn, 0).                            *)
SwapIn(vp, fd, sd, spn, va, mem) ==
  [vpi |-> UpdateVpages(vp, va, mem, TRUE, spn, FALSE),
   fdata |-> DiskRead(fd, mem, sd, spn)]

(* kalloc, eviction path: pick a slot and a victim, copy the slot entry   *)
(* from the frame entry, write the page out, kfree the frame, retarget    *)
(* every VPI mapping it (updatevpages with VPI_SWAP), hand the frame out. *)
EvictAlloc(s, cur) ==
  LET cm   == s.cm
      spn  == GetAvailableSpn(s.sm)
      scan == LruScan(s.vpi[cur], cm, s.evict_i + 1, s.acc[cur], 2 * (NFrames + 1) + 1)
      i    == scan.victim
      va   == cm[i].va
      hits == {q \in Procs : UpdateHit(s.vpi, q, va, i, FALSE, spn, TRUE)}
      vp1  == UpdateVpages(s.vpi, va, i, FALSE, spn, TRUE)
      acc1 == [s.acc EXCEPT ![cur] = scan.acc]
      cm1  == [cm EXCEPT ![i] = [available |-> FALSE, user |-> FALSE, va |-> 0,
                                 ref_count |-> 1]]
  IN IF ~scan.found
     THEN [KResult(FALSE, 0, s) EXCEPT !.hang = TRUE]
     ELSE KResult(TRUE, i,
                  [cm |-> MarkUserMem(cm1, vp1, hits),
                   sm |-> [s.sm EXCEPT ![spn] = [available |-> FALSE, user |-> cm[i].user,
                                                 va |-> va, ref_count |-> cm[i].ref_count]],
                   vpi |-> vp1, acc |-> InvalidatedAcc(acc1, vp1, hits),
                   evict_i |-> scan.cursor, free_pages |-> s.free_pages,
                   fdata |-> [s.fdata EXCEPT ![i] = Junk],
                   sdata |-> DiskWrite(s.sdata, spn, s.fdata[i])])

(* kalloc(void) called by process cur from state s.                      *)
KAllocAt(s, cur) ==
  IF s.free_pages < LowWater THEN EvictAlloc(s, cur) ELSE FirstFit(s)

KAlloc(cur, cm) == KAllocAt([Now EXCEPT !.cm = cm], cur)

(* Adopt the state a kalloc call leaves behind, except the variables the *)
(* caller overrides.                                                      *)
TakeSwap(k) ==
  /\ swap_map' = k.sm
  /\ evict_i' = k.evict_i
  /\ free_pages' = k.free_pages
  /\ slot_data' = k.sdata

HeapSize(p) == Cardinality({v \in HeapVAs : vpi[p][v].used})
StackSize(p) == Cardinality({v \in StackVAs : vpi[p][v].used})
Running(p) == p \in live \ (killed \cup zombie)

-----------------------------------------------------------------------------
(* The state after userinit and exec of init: the code page 0 and the top *)
(* stack page are mapped, present and writable, in frames 1 and 2.        *)
Init ==
  LET page(f) == [NoVpi EXCEPT !.used = TRUE, !.present = TRUE,
                               !.writable = TRUE, !.ppn = f]
  IN
  /\ live = {InitProc}
  /\ killed = {}
  /\ zombie = {}
  /\ parent = [p \in Procs |-> InitProc]
  /\ vpi = [p \in Procs |-> [v \in VAs |->
              IF p = InitProc /\ v = 0 THEN page(1)
              ELSE IF p = InitProc /\ v = Top THEN page(2)
              ELSE NoVpi]]
  /\ core_map = [i \in CMIdx |->
                   IF i = 0 THEN [FreeEntry EXCEPT !.available = FALSE]
                   ELSE IF i = 1 THEN [available |-> FALSE, user |-> TRUE,
                                        va |-> 0, ref_count |-> 1]
                   ELSE IF i = 2 THEN [available |-> FALSE, user |-> TRUE,
                                        va |-> Top, ref_count |-> 1]
                   ELSE FreeEntry]
  /\ swap_map = [s \in Slots |-> FreeEntry]
  /\ free_pages = NFrames - 2
  /\ evict_i = 0
  /\ accessed = [p \in Procs |-> [v \in VAs |-> FALSE]]
  /\ frame_data = [i \in CMIdx |-> IF i \in {1, 2} THEN 0 ELSE Junk]
  /\ slot_data = [s \in Slots |-> 0]
  /\ expected = [p \in Procs |-> [v \in VAs |-> 0]]

-----------------------------------------------------------------------------
(* A user load or store that hits a present (and for a store, writable)   *)
(* page: the MMU sets the accessed bit; a store changes the frame.        *)
Touch(p, v) ==
  /\ Running(p)
  /\ vpi[p][v].used /\ vpi[p][v].present
  /\ accessed' = [accessed EXCEPT ![p][v] = TRUE]
  /\ UNCHANGED <<live, killed, zombie, parent, vpi, core_map, swap_map, free_pages, evict_i,
                 frame_data, slot_data, expected>>

Store(p, v, d) ==
  /\ Running(p)
  /\ vpi[p][v].used /\ vpi[p][v].present /\ vpi[p][v].writable
  /\ frame_data' = [frame_data EXCEPT ![vpi[p][v].ppn] = d]
  /\ expected' = [expected EXCEPT ![p][v] = d]
  /\ accessed' = [accessed EXCEPT ![p][v] = TRUE]
  /\ UNCHANGED <<live, killed, zombie, parent, vpi, core_map, swap_map, free_pages, evict_i,
                 slot_data>>

(* vregionaddmap of the one page v of p: kalloc, zero the frame, and    *)
(* make the VPI used, present and writable in it; a failed kalloc        *)
(* returns -1 with the VPI untouched.                                     *)
VregionAddMap(s, p, v) ==
  LET k == Then(s, KAllocAt(s, p)) IN
  IF ~k.ok THEN k
  ELSE [k EXCEPT !.fdata[k.frame] = 0,
                 !.vpi[p][v] = [@ EXCEPT !.used = TRUE, !.present = TRUE,
                                         !.writable = TRUE, !.ppn = k.frame]]

(* sbrk(PGSIZE): vregionaddmap of one zeroed page at the heap top, then   *)
(* grow the region and invalidate.  A failed kalloc returns -1.           *)
Sbrk(p) ==
  LET h == 1 + HeapSize(p)
      k == VregionAddMap(Now, p, h)
  IN
  /\ Running(p)
  /\ h \in HeapVAs
  /\ ~k.hang
  /\ IF k.ok
     THEN /\ vpi' = k.vpi
          /\ core_map' = MarkUserMem(k.cm, k.vpi, {p})
          /\ accessed' = InvalidatedAcc(k.acc, k.vpi, {p})
          /\ frame_data' = k.fdata
          /\ expected' = [expected EXCEPT ![p][h] = 0]
     ELSE UNCHANGED <<vpi, core_map, accessed, frame_data, expected>>
  /\ TakeSwap(k)
  /\ UNCHANGED <<live, killed, zombie, parent>>

(* fork: allocproc takes an UNUSED slot c; vspaceshallowcopy copies every *)
(* used VPI into c and marks it cow and read-only on both sides, adding   *)
(* one reference to the frame (or, for a swapped page, the slot); both   *)
(* vspaces are invalidated.                                               *)
(* shallow_copy_vpi_page on the source side: every used entry becomes   *)
(* cow and read-only; the copy takes these entries and is zero elsewhere. *)
ShallowCopyVpi(vq) ==
  [v \in VAs |-> IF vq[v].used THEN [vq[v] EXCEPT !.cow = TRUE, !.writable = FALSE]
                ELSE vq[v]]

Fork(p) ==
  \E c \in Procs \ live :
    LET used(v) == vpi[p][v].used
        pv == ShallowCopyVpi(vpi[p])
        cv == [v \in VAs |-> IF used(v) THEN pv[v] ELSE NoVpi]
        vp1 == [vpi EXCEPT ![p] = pv, ![c] = cv]
        fshare(i) == Cardinality({v \in VAs : used(v) /\ ~vpi[p][v].swap
                                              /\ vpi[p][v].ppn = i})
        sshare(s) == Cardinality({v \in VAs : used(v) /\ vpi[p][v].swap
                                              /\ vpi[p][v].spn = s})
        cm1 == [i \in CMIdx |-> [core_map[i] EXCEPT !.ref_count = @ + fshare(i)]]
    IN
    /\ Running(p)
    /\ live' = live \cup {c}
    /\ vpi' = vp1
    /\ core_map' = MarkUserMem(MarkUserMem(cm1, vp1, {c}), vp1, {p})
    /\ swap_map' = [s \in Slots |-> [swap_map[s] EXCEPT !.ref_count = @ + sshare(s)]]
    /\ accessed' = InvalidatedAcc([accessed EXCEPT ![c] = [v \in VAs |-> FALSE]],
                                   vp1, {p})
    /\ expected' = [expected EXCEPT ![c] = expected[p]]
    /\ parent' = [parent EXCEPT ![c] = p]
    /\ UNCHANGED <<killed, zombie, free_pages, evict_i, frame_data, slot_data>>

-----------------------------------------------------------------------------
(* trap(), T_PGFLT.  An access to page v traps when v is outside every    *)
(* region, not present, or written while read-only; the handler's        *)
(* branches are the actions below, their guards its if/else-if chain.     *)

(* Branch 1: the page is on swap.  kalloc a frame (possibly evicting),   *)
(* give it the slot's owner and ref_count, read the slot in, retarget     *)
(* every VPI at this va whose spn matches (updatevpages with VPI_PRESENT) *)
(* and mark the slot available.  A failed kalloc just returns.            *)
FaultSwapIn(p, v) ==
  LET spn == vpi[p][v].spn
      k   == KAlloc(p, core_map)
      se  == k.sm[spn]
      mem == k.frame
      hits == {q \in Procs : UpdateHit(k.vpi, q, v, mem, TRUE, spn, FALSE)}
      si  == SwapIn(k.vpi, k.fdata, k.sdata, spn, v, mem)
      vp1 == si.vpi
      cm1 == [k.cm EXCEPT ![mem].user = se.user, ![mem].va = se.va,
                          ![mem].ref_count = se.ref_count]
  IN
  /\ Running(p)
  /\ vpi[p][v].used /\ ~vpi[p][v].present /\ vpi[p][v].swap
  /\ ~k.hang
  /\ IF k.ok
     THEN /\ vpi' = vp1
          /\ core_map' = MarkUserMem(cm1, vp1, hits)
          /\ accessed' = InvalidatedAcc(k.acc, vp1, hits)
          /\ frame_data' = si.fdata
          /\ swap_map' = [k.sm EXCEPT ![spn].available = TRUE]
     ELSE UNCHANGED <<vpi, core_map, accessed, frame_data, swap_map>>
  /\ evict_i' = k.evict_i
  /\ free_pages' = k.free_pages
  /\ slot_data' = k.sdata
  /\ UNCHANGED <<live, killed, zombie, parent, expected>>

(* Branch 2: a write to a shared cow page (ref_count > 1).  The old frame *)
(* is hidden from eviction (user = 0) around kalloc; the page is copied,  *)
(* the VPI retargeted writable, the old frame loses one reference.  When *)
(* kalloc fails the handler breaks out and the old frame keeps user = 0.  *)
FaultCowCopy(p, v) ==
  LET old == vpi[p][v].ppn
      cm0 == [core_map EXCEPT ![old].user = FALSE]
      k   == KAlloc(p, cm0)
      mem == k.frame
      vp1 == [k.vpi EXCEPT ![p][v] = [@ EXCEPT !.used = TRUE, !.present = TRUE,
                                               !.writable = TRUE, !.cow = FALSE,
                                               !.swap = FALSE, !.ppn = mem]]
      cm1 == [k.cm EXCEPT ![old].ref_count = @ - 1, ![old].user = TRUE]
  IN
  /\ Running(p)
  /\ vpi[p][v].used /\ ~(~vpi[p][v].present /\ vpi[p][v].swap)
  /\ ~vpi[p][v].writable /\ vpi[p][v].cow /\ core_map[old].ref_count > 1
  /\ ~k.hang
  /\ IF k.ok
     THEN /\ vpi' = vp1
          /\ core_map' = MarkUserMem(cm1, vp1, {p})
          /\ accessed' = InvalidatedAcc(k.acc, vp1, {p})
          /\ frame_data' = [k.fdata EXCEPT ![mem] = k.fdata[old]]
     ELSE /\ core_map' = cm0
          /\ UNCHANGED <<vpi, accessed, frame_data>>
  /\ TakeSwap(k)
  /\ UNCHANGED <<live, killed, zombie, parent, expected>>

(* Branch 3: a write to the last reference of a cow page: make it        *)
(* writable in place.                                                     *)
(* Mutation-analysis variant: the last-reference test is ref_count >= 1. *)
FaultCowPromoteShared(p, v) ==
  LET f == vpi[p][v].ppn
      vp1 == [vpi EXCEPT ![p][v] = [@ EXCEPT !.writable = TRUE, !.cow = FALSE,
                                             !.swap = FALSE]]
  IN
  /\ Running(p)
  /\ vpi[p][v].used /\ ~(~vpi[p][v].present /\ vpi[p][v].swap)
  /\ ~vpi[p][v].writable /\ vpi[p][v].cow /\ core_map[f].ref_count >= 1
  /\ vpi' = vp1
  /\ core_map' = MarkUserMem([core_map EXCEPT ![f].user = TRUE], vp1, {p})
  /\ accessed' = InvalidatedAcc(accessed, vp1, {p})
  /\ UNCHANGED <<live, killed, zombie, parent, swap_map, free_pages, evict_i,
                 frame_data, slot_data, expected>>

FaultCowPromote(p, v) ==
  LET f == vpi[p][v].ppn
      vp1 == [vpi EXCEPT ![p][v] = [@ EXCEPT !.writable = TRUE, !.cow = FALSE,
                                             !.swap = FALSE]]
  IN
  /\ Running(p)
  /\ vpi[p][v].used /\ ~(~vpi[p][v].present /\ vpi[p][v].swap)
  /\ ~vpi[p][v].writable /\ vpi[p][v].cow /\ core_map[f].ref_count = 1
  /\ vpi' = vp1
  /\ core_map' = MarkUserMem([core_map EXCEPT ![f].user = TRUE], vp1, {p})
  /\ accessed' = InvalidatedAcc(accessed, vp1, {p})
  /\ UNCHANGED <<live, killed, zombie, parent, swap_map, free_pages, evict_i, frame_data,
                 slot_data, expected>>

(* A trapping access that none of the branches above handles.           *)
Unhandled(p, v) ==
  LET e == vpi[p][v] IN
  /\ ~e.used \/ ~e.present \/ ~e.writable
  /\ ~(e.used /\ ~e.present /\ e.swap)
  /\ ~(e.used /\ ~e.writable /\ e.cow /\ core_map[e.ppn].ref_count >= 1)

(* growustack: below SZ_2G and under the cap, map one more page at the    *)
(* bottom of the stack (not necessarily the faulting page).               *)
FaultGrowStack(p, v) ==
  LET b == Top - StackSize(p)
      k == VregionAddMap(Now, p, b)
      vp1 == k.vpi
  IN
  /\ Running(p)
  /\ Unhandled(p, v)
  /\ v \in StackVAs /\ StackSize(p) < NStack
  /\ k.ok
  /\ vpi' = vp1
  /\ core_map' = MarkUserMem(k.cm, vp1, {p})
  /\ accessed' = InvalidatedAcc(k.acc, vp1, {p})
  /\ frame_data' = k.fdata
  /\ expected' = [expected EXCEPT ![p][b] = 0]
  /\ TakeSwap(k)
  /\ UNCHANGED <<live, killed, zombie, parent>>

(* Otherwise the process misbehaved: set its killed flag.  A failed      *)
(* growustack kalloc leaves no state behind (first-fit found nothing).    *)
FaultKill(p, v) ==
  /\ Running(p)
  /\ Unhandled(p, v)
  /\ \/ v \notin StackVAs
     \/ StackSize(p) >= NStack
     \/ LET k == KAlloc(p, core_map) IN ~k.ok /\ ~k.hang
  /\ killed' = killed \cup {p}
  /\ UNCHANGED <<live, zombie, parent, vpi, core_map, swap_map, free_pages, evict_i, accessed,
                 frame_data, slot_data, expected>>

-----------------------------------------------------------------------------
(* exit: reparent p's children to the init process, become a zombie.     *)
(* Frames and slots stay allocated until the parent reaps p.             *)
Exit(p) ==
  /\ p \in live \ zombie
  /\ zombie' = zombie \cup {p}
  /\ parent' = [q \in Procs |-> IF parent[q] = p THEN InitProc ELSE parent[q]]
  /\ UNCHANGED <<live, killed, vpi, core_map, swap_map, free_pages, evict_i,
                 accessed, frame_data, slot_data, expected>>

(* free_page_desc_list: drop c's reference to every slot one of its      *)
(* pages is swapped to; the last reference makes the slot available.     *)
FreeSlotRefs(sm, vq) ==
  [s \in Slots |->
     IF \E v \in VAs : vq[v].swap /\ ~vq[v].present /\ vq[v].spn = s
     THEN IF sm[s].ref_count <= 1 THEN FreeEntry
          ELSE [sm[s] EXCEPT !.ref_count = @ - 1]
     ELSE sm[s]]

FreePageDescList(c) == FreeSlotRefs(swap_map, vpi[c])

(* freevm: kfree every frame mapped by a present PTE of c (kfree drops   *)
(* one reference, or frees the frame when it holds the last one).        *)
(* Mutation-analysis variant: kfree ignores the reference count.         *)
FreedFramesIgnoringRefs(c) ==
  {f \in UserFrames : \E v \in VAs : vpi[c][v].present /\ vpi[c][v].ppn = f}

FreedFrames(c) ==
  {f \in UserFrames : \E v \in VAs : vpi[c][v].present /\ vpi[c][v].ppn = f
                                   /\ core_map[f].ref_count <= 1}
(* Mutation-analysis variant: kfree's ref_count-- branch is missing.     *)
FreeVmFramesNoDecrement(c) ==
  [i \in CMIdx |-> IF i \in FreedFrames(c) THEN FreeEntry ELSE core_map[i]]

FreeVmFrames(c) ==
  [i \in CMIdx |->
     IF i \in FreedFrames(c) THEN FreeEntry
     ELSE IF \E v \in VAs : vpi[c][v].present /\ vpi[c][v].ppn = i
          THEN [core_map[i] EXCEPT !.ref_count = @ - 1]
          ELSE core_map[i]]

(* wait: p finds its zombie child c, marks the slot UNUSED and frees its *)
(* vspace (vspacefree = free_page_desc_list on every region, then freevm).*)
Reap(p, c) ==
  /\ Running(p)
  /\ c \in zombie /\ parent[c] = p
  /\ live' = live \ {c}
  /\ zombie' = zombie \ {c}
  /\ killed' = killed \ {c}
  /\ parent' = [parent EXCEPT ![c] = InitProc]
  /\ vpi' = [vpi EXCEPT ![c] = [v \in VAs |-> NoVpi]]
  /\ swap_map' = FreePageDescList(c)
  /\ core_map' = FreeVmFrames(c)
  /\ free_pages' = free_pages + Cardinality(FreedFrames(c))
  /\ frame_data' = [i \in CMIdx |-> IF i \in FreedFrames(c) THEN Junk
                                     ELSE frame_data[i]]
  /\ accessed' = [accessed EXCEPT ![c] = [v \in VAs |-> FALSE]]
  /\ expected' = [expected EXCEPT ![c] = [v \in VAs |-> 0]]
  /\ UNCHANGED <<evict_i, slot_data>>

(* A present, writable page in frame f.                                   *)
Page(f) == [NoVpi EXCEPT !.used = TRUE, !.present = TRUE, !.writable = TRUE, !.ppn = f]

(* The temporary vspace exec builds: code page 0 in frame c (the program  *)
(* ends in one page) and one stack page just below SZ_2G in frame t.      *)
TempVspace(c, t) == [v \in VAs |-> IF v = 0 THEN Page(c)
                                   ELSE IF v = Top THEN Page(t) ELSE NoVpi]

(* vspaceinvalidate of a vspace that is in no process: mappages marks    *)
(* each present frame user memory at its va.                              *)
MarkTempUser(cm, tv) ==
  [i \in CMIdx |->
     IF \E v \in VAs : tv[v].present /\ tv[v].ppn = i
     THEN [cm[i] EXCEPT !.user = TRUE,
                        !.va = CHOOSE v \in VAs : tv[v].present /\ tv[v].ppn = i]
     ELSE cm[i]]

(* vspaceloadcode: vregionaddmap kallocs and zeroes the code page (the    *)
(* vspace is not invalidated, so the frame stays user = 0); vrloaddata    *)
(* copies the program text d into it.  ELF parsing is abstracted to d.    *)
VspaceLoadCode(s, p, d) ==
  LET k == Then(s, KAllocAt(s, p)) IN [k EXCEPT !.fdata[k.frame] = d]

(* vspaceinitstack: kalloc and zero one stack page, then invalidate the   *)
(* temporary vspace, whose code page is in frame c.                       *)
VspaceInitStack(s, p, c) ==
  LET k == Then(s, KAllocAt(s, p)) IN
  [k EXCEPT !.cm = MarkTempUser(@, TempVspace(c, k.frame)), !.fdata[k.frame] = 0]

(* vspacewritetova: the argument strings and pointers a go to the stack  *)
(* page in frame f (exec's two calls, one value for the page).           *)
VspaceWriteToVa(s, f, a) == [s EXCEPT !.fdata[f] = a]

(* vregionfree: free_page_desc_list on p's regions, then zero them; the  *)
(* page table and its frames are left alone.                              *)
VregionFree(s, p) ==
  [s EXCEPT !.sm = FreeSlotRefs(s.sm, s.vpi[p]), !.vpi[p] = [v \in VAs |-> NoVpi]]

(* vspaceinit: a fresh page table with no user mappings, so no PTE_A.    *)
VspaceInit(s, p) == [s EXCEPT !.acc[p] = [v \in VAs |-> FALSE]]

(* copy_vpi_page for the page v of p's region, whose list is still the   *)
(* source's (vspacecopy's memmove of the regions): the new VPI gets used, *)
(* present and writable, then kalloc runs (and may evict through          *)
(* updatevpages), then the new VPI gets the frame and the frame a copy of *)
(* the source page.                                                       *)
CopyVpiPage(s, p, v) ==
  LET src == s.vpi[p][v]
      dst == [NoVpi EXCEPT !.used = TRUE, !.present = src.present,
                           !.writable = src.writable]
      k == Then(s, KAllocAt([s EXCEPT !.vpi[p][v] = dst], p))
  IN [k EXCEPT !.vpi[p][v].ppn = k.frame, !.fdata[k.frame] = k.fdata[src.ppn]]

(* The end of vspacecopy: vspaceinvalidate of p's new vspace.             *)
VspaceCopyDone(s, p) ==
  [s EXCEPT !.cm = MarkUserMem(@, s.vpi, {p}), !.acc = InvalidatedAcc(@, s.vpi, {p})]

(* kfree of every frame in F (frames that are all distinct): the last    *)
(* reference frees the frame and fills it with junk, any other drops one. *)
KFreeSet(s, F) ==
  LET freed == {f \in F : s.cm[f].ref_count <= 1} IN
  [s EXCEPT !.cm = [i \in CMIdx |->
                      IF i \in freed THEN FreeEntry
                      ELSE IF i \in F THEN [@[i] EXCEPT !.ref_count = @ - 1]
                      ELSE @[i]],
            !.free_pages = @ + Cardinality(freed),
            !.fdata = [i \in CMIdx |-> IF i \in freed THEN Junk ELSE @[i]]]

(* vspacefree of a vspace tv whose page table maps the frames F:          *)
(* free_page_desc_list on its regions, then freevm.                       *)
VspaceFree(s, tv, F) == KFreeSet([s EXCEPT !.sm = FreeSlotRefs(@, tv)], F)

(* exec(n, path, argv), success path: build the temporary vspace, write  *)
(* the arguments, free the current regions but keep the old page table    *)
(* (whose present PTEs map oldf), reinitialise and vspacecopy the         *)
(* temporary vspace in, region by region, then vspacefree the temporary  *)
(* one and freevm the old page table.  Every kalloc may evict; the         *)
(* temporary vspace is in no process, so updatevpages reaches it only     *)
(* through the current vspace's regions that still alias its lists.  The *)
(* page-table and page-list frames and the failure returns are not        *)
(* modelled: a failing or hanging kalloc disables the step.               *)
Exec(p, d, a) ==
  /\ Running(p)
  /\ \E k1 \in {VspaceLoadCode(Now, p, d)} :
     \E k2 \in {VspaceInitStack(k1, p, k1.frame)} :
     LET c == k1.frame
         t == k2.frame
         oldf == {k2.vpi[p][v].ppn : v \in {w \in VAs : k2.vpi[p][w].present}}
     IN
     \E s3 \in {VspaceInit(VregionFree(VspaceWriteToVa(k2, t, a), p), p)} :
     \E s4 \in {CopyVpiPage([s3 EXCEPT !.vpi[p] = TempVspace(c, t)], p, 0)} :
     \E s5 \in {CopyVpiPage(s4, p, Top)} :
     \E s7 \in {KFreeSet(VspaceFree(VspaceCopyDone(s5, p),
                                    [TempVspace(c, t) EXCEPT ![Top] = s4.vpi[p][Top]],
                                    {c, t}),
                         oldf)} :
       /\ s5.ok /\ ~s5.hang
       /\ core_map' = s7.cm
       /\ swap_map' = s7.sm
       /\ vpi' = s7.vpi
       /\ accessed' = s7.acc
       /\ evict_i' = s7.evict_i
       /\ free_pages' = s7.free_pages
       /\ frame_data' = s7.fdata
       /\ slot_data' = s7.sdata
       /\ expected' = [expected EXCEPT ![p] = [v \in VAs |-> IF v = 0 THEN d
                                                            ELSE IF v = Top THEN a ELSE 0]]
       /\ UNCHANGED <<live, killed, zombie, parent>>

-----------------------------------------------------------------------------
Next ==
  \E p \in Procs :
    \/ Sbrk(p)
    \/ Fork(p)
    \/ Exit(p)
    \/ \E c \in Procs : Reap(p, c)
    \/ \E v \in VAs :
          \/ Touch(p, v)
          \/ \E d \in Vals : Store(p, v, d)
          \/ FaultSwapIn(p, v)
          \/ FaultCowCopy(p, v)
          \/ FaultCowPromote(p, v)
          \/ FaultGrowStack(p, v)
          \/ FaultKill(p, v)

Spec == Init /\ [][Next]_vars

(* The same system with exec: every process may also replace its image, *)
(* with program text and arguments from Vals.                            *)
NextExec == Next \/ \E p \in Procs, d, a \in Vals : Exec(p, d, a)

SpecExec == Init /\ [][NextExec]_vars

-----------------------------------------------------------------------------
(* Properties *)

TypeOK ==
  /\ live \subseteq Procs /\ killed \subseteq live
  /\ vpi \in [Procs -> [VAs -> [used : BOOLEAN, present : BOOLEAN,
                                 writable : BOOLEAN, cow : BOOLEAN,
                                 swap : BOOLEAN, ppn : CMIdx, spn : Slots]]]
  /\ core_map \in [CMIdx -> [available : BOOLEAN, user : BOOLEAN, va : VAs,
                              ref_count : Int]]
  /\ swap_map \in [Slots -> [available : BOOLEAN, user : BOOLEAN, va : VAs,
                              ref_count : Int]]
  /\ free_pages \in Int /\ evict_i \in CMIdx
  /\ accessed \in [Procs -> [VAs -> BOOLEAN]]
  /\ frame_data \in [CMIdx -> Vals \cup {Junk}]
  /\ slot_data \in [Slots -> Vals \cup {Junk}]
  /\ expected \in [Procs -> [VAs -> Vals]]

(* What process p reads at page v: its frame, or its swap slot.          *)
Content(p, v) ==
  IF vpi[p][v].present THEN frame_data[vpi[p][v].ppn] ELSE slot_data[vpi[p][v].spn]

(* Memory integrity: every mapped page of every process holds the value  *)
(* that process last stored there, through any interleaving of fork,     *)
(* cow faults, eviction in kalloc and swap-in (spec 8: swap correctness, *)
(* and shallow copy then write equals deep copy).                        *)
ViewConsistent ==
  \A p \in live, v \in VAs : vpi[p][v].used => Content(p, v) = expected[p][v]

Mappers(f) == {<<q, v>> \in live \X VAs : vpi[q][v].used /\ vpi[q][v].present
                                          /\ vpi[q][v].ppn = f}
SlotUsers(s) == {<<q, v>> \in live \X VAs : vpi[q][v].used /\ vpi[q][v].swap
                                            /\ ~vpi[q][v].present /\ vpi[q][v].spn = s}

(* Spec 8 invariant 2: a frame's ref_count is the number of VPIs mapping *)
(* it and it is available exactly when none does; an allocated slot's     *)
(* ref_count is the number of VPIs swapped to it, and a free slot is      *)
(* referenced by none.  fork, the cow paths, eviction and swap-in all     *)
(* move references between these counts.                                  *)
RefCountExact ==
  /\ \A f \in UserFrames :
       /\ core_map[f].available <=> Mappers(f) = {}
       /\ ~core_map[f].available => core_map[f].ref_count = Cardinality(Mappers(f))
  /\ \A s \in Slots :
       /\ swap_map[s].available => SlotUsers(s) = {}
       /\ ~swap_map[s].available => swap_map[s].ref_count = Cardinality(SlotUsers(s))

(* Isolation: a frame mapped writable by one page is mapped by no other  *)
(* page of any process; sharing only ever happens read-only under cow.   *)
NoSharedWritable ==
  \A p, q \in live, v, w \in VAs :
     /\ <<p, v>> # <<q, w>>
     /\ vpi[p][v].used /\ vpi[p][v].present /\ vpi[p][v].writable
     /\ vpi[q][w].used /\ vpi[q][w].present
     => vpi[p][v].ppn # vpi[q][w].ppn

(* The free_pages counter that drives eviction equals the number of      *)
(* available frames (kfree and kalloc each adjust it on their own path). *)
FreePagesAccurate ==
  free_pages = Cardinality({f \in UserFrames : core_map[f].available})

(* kalloc always returns (kalloc.c:241-261): whenever a running process  *)
(* could call kalloc, a call below the low-water mark finds an eviction  *)
(* victim, an allocated user frame with va # 0, within lru_evict's scan,  *)
(* which clears the accessed bits it passes.  A frame left with user = 0 *)
(* or a bit that is never cleared makes the loop spin for good.           *)
KAllocReturns ==
  \A p \in Procs : Running(p) => ~KAlloc(p, core_map).hang

=============================================================================
