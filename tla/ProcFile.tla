------------------------------ MODULE ProcFile ------------------------------
(***************************************************************************)
(* Processes, open files and pipes of the xk kernel: the process table    *)
(* (kernel/proc.c: fork, exit, wait, kill, sleep/wakeup), the global open- *)
(* file table and per-process descriptor arrays (kernel/file.c,           *)
(* kernel/sysfile.c) and the pipe ring buffer (readp/writep in fs.c).     *)
(*                                                                         *)
(* As the spec states the kernel cooperative, a system call runs without *)
(* interruption until it returns to user mode or sleeps (the code's timer *)
(* can preempt a call outside its spinlocks; ICache models that).  A      *)
(* system call is therefore one step, and a call that sleeps resumes, when woken and scheduled, as *)
(* a further step that re-runs its loop (pc records where).  Data bytes   *)
(* are not modelled; the ring counters front and tail are.  Disk files    *)
(* appear only as open-file slots (reads and writes of their contents    *)
(* belong to the file-system model).                                      *)
(***************************************************************************)
EXTENDS Integers, FiniteSets, FiniteSetsExt

CONSTANTS
  NPROC,     \* process-table slots 1..NPROC; slot 1 runs initcode
  NFILE,     \* global open-file slots 0..NFILE-1
  NOFILE,    \* descriptors per process 0..NOFILE-1
  NPIPE,     \* pages kalloc can hand out as pipe buffers
  SIZE,      \* pipe buffer size (2048 in the code)
  IntBits,   \* width of the int counters front and tail (32 in the code)
  MaxN       \* largest byte count one read or write asks for

ASSUME NPROC >= 1 /\ NFILE >= 1 /\ NOFILE >= 1 /\ NPIPE >= 1
ASSUME SIZE >= 1 /\ IntBits >= 2 /\ MaxN >= 1

Procs == 1 .. NPROC
InitProc == 1
Slots == 0 .. NFILE - 1
Fds == 0 .. NOFILE - 1
Pages == 1 .. NPIPE
NoFile == -1                  \* a NULL entry of p->file_table
NoProc == 0                   \* a NULL parent pointer
NoChan == <<"none", 0>>
Modes == {"R", "W", "RW"}     \* O_RDONLY, O_WRONLY, O_RDWR (O_CREATE acts as RW)

IntMin == -(2 ^ (IntBits - 1))
IntMax == 2 ^ (IntBits - 1) - 1
(* int arithmetic of an IntBits-wide two's-complement machine.            *)
Wrap(x) == ((x - IntMin) % (2 ^ IntBits)) + IntMin

VARIABLES
  state,    \* state[p]: UNUSED, RUNNABLE, SLEEPING or ZOMBIE
  chan,     \* chan[p]: the channel p sleeps on
  pc,       \* pc[p]: "user", or the kernel loop p resumes in
  arg,      \* arg[p]: the pipe and remaining byte count of that loop
  killed,   \* killed[p]: p->killed
  parent,   \* parent[p]: p->parent
  fdt,      \* fdt[p][fd]: the global slot p->file_table[fd] points to
  valid,    \* valid[s]: ftable.valid_flags[s]
  ftab,     \* ftab[s]: ftable.file_table[s]
  pipe      \* pipe[g]: the struct pipe in page g, and whether it is allocated

vars == <<state, chan, pc, arg, killed, parent, fdt, valid, ftab, pipe>>

NoArg == [pg |-> 0, n |-> 0]
(* A zeroed struct file: ON_DISK, O_RDONLY.                               *)
ZeroFile == [ref |-> 0, type |-> "disk", mode |-> "R", pg |-> 0]
ZeroPipe == [alive |-> FALSE, read_fd |-> 0, write_fd |-> 0, front |-> 0, tail |-> 0]

FreeFds(p) == {fd \in Fds : fdt[p][fd] = NoFile}
FreeSlots == {s \in Slots : ~valid[s]}

(* wakeup(chan) for every channel in chs: sleepers become RUNNABLE.       *)
WakeAll(st, chs) ==
  [q \in Procs |-> IF st[q] = "SLEEPING" /\ chan[q] \in chs THEN "RUNNABLE" ELSE st[q]]

-----------------------------------------------------------------------------
(* Mutation-analysis variant: the pipe page is freed once EITHER end's  *)
(* slot is invalid.                                                      *)
FileCloseEitherEnd(v, ft, pp, s) ==
  LET f == ft[s]
      v1 == [v EXCEPT ![s] = FALSE]
      P == pp[f.pg]
  IN IF f.ref > 1
     THEN [valid |-> v, ftab |-> [ft EXCEPT ![s].ref = @ - 1], pipe |-> pp, wake |-> {}]
     ELSE IF f.type = "disk"
     THEN [valid |-> v1, ftab |-> ft, pipe |-> pp, wake |-> {}]
     ELSE [valid |-> v1, ftab |-> ft,
           pipe |-> IF ~v1[P.read_fd] \/ ~v1[P.write_fd]
                    THEN [pp EXCEPT ![f.pg].alive = FALSE] ELSE pp,
           wake |-> IF f.mode = "R" THEN {<<"tail", f.pg>>}
                    ELSE IF f.mode = "W" THEN {<<"front", f.pg>>} ELSE {}]

(* fileclose(p, f, fd) on global slot s, as a function of the table state *)
(* it reads: the last reference clears the slot's valid flag, wakes the  *)
(* peer end of a pipe, and frees the pipe page once the valid flags of    *)
(* BOTH of the pipe's recorded slots are clear.                           *)
FileClose(v, ft, pp, s) ==
  LET f == ft[s]
      v1 == [v EXCEPT ![s] = FALSE]
      P == pp[f.pg]
  IN IF f.ref > 1
     THEN [valid |-> v, ftab |-> [ft EXCEPT ![s].ref = @ - 1], pipe |-> pp, wake |-> {}]
     ELSE IF f.type = "disk"
     THEN [valid |-> v1, ftab |-> ft, pipe |-> pp, wake |-> {}]
     ELSE [valid |-> v1, ftab |-> ft,
           pipe |-> IF ~v1[P.read_fd] /\ ~v1[P.write_fd]
                    THEN [pp EXCEPT ![f.pg].alive = FALSE] ELSE pp,
           wake |-> IF f.mode = "R" THEN {<<"tail", f.pg>>}
                    ELSE IF f.mode = "W" THEN {<<"front", f.pg>>} ELSE {}]

(* exit's loop: fileclose every open descriptor of p in index order,      *)
(* threading the table state through the calls.                          *)
RECURSIVE CloseFrom(_, _, _)
CloseFrom(p, fd, r) ==
  IF fd > NOFILE - 1 THEN r
  ELSE IF fdt[p][fd] = NoFile THEN CloseFrom(p, fd + 1, r)
  ELSE LET c == FileClose(r.valid, r.ftab, r.pipe, fdt[p][fd])
       IN CloseFrom(p, fd + 1, [c EXCEPT !.wake = @ \cup r.wake])

Init ==
  /\ state = [p \in Procs |-> IF p = InitProc THEN "RUNNABLE" ELSE "UNUSED"]
  /\ chan = [p \in Procs |-> NoChan]
  /\ pc = [p \in Procs |-> "user"]
  /\ arg = [p \in Procs |-> NoArg]
  /\ killed = [p \in Procs |-> FALSE]
  /\ parent = [p \in Procs |-> NoProc]
  /\ fdt = [p \in Procs |-> [fd \in Fds |-> NoFile]]
  /\ valid = [s \in Slots |-> FALSE]
  /\ ftab = [s \in Slots |-> ZeroFile]
  /\ pipe = [g \in Pages |-> ZeroPipe]

-----------------------------------------------------------------------------
(* A process in user mode that has not been killed may make a system     *)
(* call.  Error returns that change nothing are stuttering steps and are *)
(* left out.                                                              *)
UserMode(p) == state[p] = "RUNNABLE" /\ pc[p] = "user" /\ ~killed[p]

(* sys_open + fileopen: claim the first invalid slot; bind the first free *)
(* descriptor, or clear the slot's flag again when there is none (the     *)
(* slot's contents stay overwritten).                                     *)
SysOpen(p, m) ==
  LET s == Min(FreeSlots) IN
  /\ UserMode(p)
  /\ FreeSlots # {}
  /\ ftab' = [ftab EXCEPT ![s] = [ref |-> 1, type |-> "disk", mode |-> m, pg |-> 0]]
  /\ IF FreeFds(p) = {} THEN UNCHANGED <<valid, fdt>>
     ELSE /\ valid' = [valid EXCEPT ![s] = TRUE]
          /\ fdt' = [fdt EXCEPT ![p][Min(FreeFds(p))] = s]
  /\ UNCHANGED <<state, chan, pc, arg, killed, parent, pipe>>

(* sys_dup + filedup: the descriptor's slot must be valid.                *)
SysDup(p, fd) ==
  LET s == fdt[p][fd] IN
  /\ UserMode(p)
  /\ s # NoFile /\ valid[s] /\ FreeFds(p) # {}
  /\ fdt' = [fdt EXCEPT ![p][Min(FreeFds(p))] = s]
  /\ ftab' = [ftab EXCEPT ![s].ref = @ + 1]
  /\ UNCHANGED <<state, chan, pc, arg, killed, parent, valid, pipe>>

(* sys_close + fileclose.                                                 *)
SysClose(p, fd) ==
  LET s == fdt[p][fd]
      r == FileClose(valid, ftab, pipe, s)
  IN
  /\ UserMode(p)
  /\ s # NoFile /\ valid[s]
  /\ valid' = r.valid /\ ftab' = r.ftab /\ pipe' = r.pipe
  /\ state' = WakeAll(state, r.wake)
  /\ fdt' = [fdt EXCEPT ![p][fd] = NoFile]
  /\ UNCHANGED <<chan, pc, arg, killed, parent>>

(* sys_pipe + pipe: a page from kalloc, the first two free descriptors    *)
(* (checkProcFileTable) and the first two invalid slots.  Each failure    *)
(* path undoes what it took and returns -1.                               *)
SysPipe(p) ==
  LET g == Min({h \in Pages : ~pipe[h].alive})
      r == Min(FreeSlots)
      w == Min(FreeSlots \ {r})
      fd0 == Min(FreeFds(p))
      fd1 == Min(FreeFds(p) \ {fd0})
  IN
  /\ UserMode(p)
  /\ \E h \in Pages : ~pipe[h].alive
  /\ Cardinality(FreeFds(p)) >= 2 /\ Cardinality(FreeSlots) >= 2
  /\ pipe' = [pipe EXCEPT ![g] = [alive |-> TRUE, read_fd |-> r, write_fd |-> w,
                                  front |-> 0, tail |-> 0]]
  /\ ftab' = [ftab EXCEPT ![r] = [ref |-> 1, type |-> "pipe", mode |-> "R", pg |-> g],
                          ![w] = [ref |-> 1, type |-> "pipe", mode |-> "W", pg |-> g]]
  /\ valid' = [valid EXCEPT ![r] = TRUE, ![w] = TRUE]
  /\ fdt' = [fdt EXCEPT ![p][fd0] = r, ![p][fd1] = w]
  /\ UNCHANGED <<state, chan, pc, arg, killed, parent>>

-----------------------------------------------------------------------------
(* Return to user mode from a kernel loop (sleep's tidy-up clears chan).  *)
Leave(p) ==
  /\ pc' = [pc EXCEPT ![p] = "user"]
  /\ arg' = [arg EXCEPT ![p] = NoArg]
  /\ chan' = [chan EXCEPT ![p] = NoChan]

(* ip->front++ / ip->tail++, k times, on an int.                          *)
Advance(x, k) == Wrap(x + k)

(* Mutation-analysis variant: readp that does not wake writers after    *)
(* consuming.                                                             *)
ReadPNoFinalWake(p, g, n) ==
  LET P == pipe[g]
      cnt == Wrap(P.tail - P.front)
  IN
  IF cnt = 0 /\ valid[P.write_fd] /\ ~killed[p]
  THEN /\ state' = [WakeAll(state, {<<"tail", g>>}) EXCEPT ![p] = "SLEEPING"]
       /\ chan' = [chan EXCEPT ![p] = <<"front", g>>]
       /\ pc' = [pc EXCEPT ![p] = "readp"]
       /\ arg' = [arg EXCEPT ![p] = [pg |-> g, n |-> n]]
       /\ UNCHANGED pipe
  ELSE IF killed[p]
  THEN Leave(p) /\ UNCHANGED <<state, pipe>>
  ELSE /\ pipe' = [pipe EXCEPT ![g].front = Advance(@, Min({n, cnt}))]
       /\ Leave(p) /\ UNCHANGED state

(* readp(ip, dst, off, n), run from the top of its loop by p: while the  *)
(* pipe is empty and the slot recorded as its write end is valid, return *)
(* -1 if killed, else wake writers and sleep on &front; then copy up to  *)
(* n bytes (checking killed before each) and wake writers.               *)
ReadP(p, g, n) ==
  LET P == pipe[g]
      cnt == Wrap(P.tail - P.front)
  IN
  IF cnt = 0 /\ valid[P.write_fd] /\ ~killed[p]
  THEN /\ state' = [WakeAll(state, {<<"tail", g>>}) EXCEPT ![p] = "SLEEPING"]
       /\ chan' = [chan EXCEPT ![p] = <<"front", g>>]
       /\ pc' = [pc EXCEPT ![p] = "readp"]
       /\ arg' = [arg EXCEPT ![p] = [pg |-> g, n |-> n]]
       /\ UNCHANGED pipe
  ELSE IF killed[p]
  THEN Leave(p) /\ UNCHANGED <<state, pipe>>
  ELSE /\ pipe' = [pipe EXCEPT ![g].front = Advance(@, Min({n, cnt}))]
       /\ state' = WakeAll(state, {<<"tail", g>>})
       /\ Leave(p)

(* writep(ip, src, off, n), run from where p's loop stands with left      *)
(* bytes to go: fill the buffer; while it is full, return -1 if the slot *)
(* recorded as the read end is invalid or p is killed, else wake readers *)
(* and sleep on &tail; after the last byte wake readers.                  *)
WriteP(p, g, left) ==
  LET P == pipe[g]
      space == SIZE - Wrap(P.tail - P.front)
      k == Min({left, space})
      pipe1 == [pipe EXCEPT ![g].tail = Advance(@, k)]
  IN
  IF left <= space
  THEN /\ pipe' = pipe1
       /\ state' = WakeAll(state, {<<"front", g>>})
       /\ Leave(p)
  ELSE IF ~valid[P.read_fd] \/ killed[p]
  THEN /\ pipe' = pipe1
       /\ Leave(p) /\ UNCHANGED state
  ELSE /\ pipe' = pipe1
       /\ state' = [WakeAll(state, {<<"front", g>>}) EXCEPT ![p] = "SLEEPING"]
       /\ chan' = [chan EXCEPT ![p] = <<"tail", g>>]
       /\ pc' = [pc EXCEPT ![p] = "writep"]
       /\ arg' = [arg EXCEPT ![p] = [pg |-> g, n |-> left - k]]

(* sys_read's and sys_write's checks under ftable.lock: argfd found an   *)
(* open descriptor, its slot is valid, and its permissions are not        *)
(* O_WRONLY (for a read) or O_RDONLY (for a write).                       *)
ReadPermitted(p, fd) ==
  fdt[p][fd] # NoFile /\ valid[fdt[p][fd]] /\ ftab[fdt[p][fd]].mode # "W"
WritePermitted(p, fd) ==
  fdt[p][fd] # NoFile /\ valid[fdt[p][fd]] /\ ftab[fdt[p][fd]].mode # "R"

(* sys_read + fileread on the read end of a pipe (its mode is O_RDONLY   *)
(* and its slot is the pipe's read_fd).                                   *)
SysRead(p, fd, n) ==
  LET s == fdt[p][fd]
      f == ftab[s]
  IN
  /\ UserMode(p)
  /\ ReadPermitted(p, fd)
  /\ f.type = "pipe" /\ s = pipe[f.pg].read_fd
  /\ ReadP(p, f.pg, n)
  /\ UNCHANGED <<killed, parent, fdt, valid, ftab>>

(* sys_write + filewrite on the write end of a pipe.                      *)
SysWrite(p, fd, n) ==
  LET s == fdt[p][fd]
      f == ftab[s]
  IN
  /\ UserMode(p)
  /\ WritePermitted(p, fd)
  /\ f.type = "pipe" /\ s = pipe[f.pg].write_fd
  /\ WriteP(p, f.pg, n)
  /\ UNCHANGED <<killed, parent, fdt, valid, ftab>>

-----------------------------------------------------------------------------
(* fork's descriptor loop: the child gets the parent's pointers and each *)
(* pointer adds one to its slot's ref_count.                              *)
(* Mutation-analysis variant: one increment per slot, not per pointer.  *)
ForkRefsPerSlot(p) ==
  [s \in Slots |-> [ftab[s] EXCEPT !.ref = @ + (IF \E fd \in Fds : fdt[p][fd] = s
                                                THEN 1 ELSE 0)]]
ForkRefs(p) ==
  [s \in Slots |-> [ftab[s] EXCEPT !.ref = @ + Cardinality({fd \in Fds : fdt[p][fd] = s})]]

(* allocproc: under ptable.lock, the first UNUSED slot of the table, or  *)
(* none (fork returns -1).  The slot's EMBRYO state and pid are not       *)
(* visible to the other calls; its kernel stack is outside this model.    *)
AllocProc == {q \in Procs : state[q] = "UNUSED" /\ \A r \in Procs : state[r] = "UNUSED" => q <= r}

(* fork: the child takes the slot allocproc found.                        *)
SysFork(p) ==
  \E c \in AllocProc :
    /\ UserMode(p)
    /\ state' = [state EXCEPT ![c] = "RUNNABLE"]
    /\ fdt' = [fdt EXCEPT ![c] = fdt[p]]
    /\ ftab' = ForkRefs(p)
    /\ parent' = [parent EXCEPT ![c] = p]
    /\ UNCHANGED <<chan, pc, arg, killed, valid, pipe>>

(* exit's reparenting loop: every process whose parent is p.              *)
(* Mutation-analysis variant: zombie children are not handed to init.   *)
ReparentLiveOnly(p) ==
  [q \in Procs |-> IF parent[q] = p /\ state[q] # "ZOMBIE" THEN InitProc ELSE parent[q]]
Reparent(p) ==
  [q \in Procs |-> IF parent[q] = p THEN InitProc ELSE parent[q]]

(* Mutation-analysis variant: exit does not wake the parent.             *)
SysExitNoWakeParent(p) ==
  LET r == CloseFrom(p, 0, [valid |-> valid, ftab |-> ftab, pipe |-> pipe, wake |-> {}])
      kids == {q \in Procs : parent[q] = p}
      wk == r.wake \cup (IF kids # {} THEN {<<"proc", InitProc>>} ELSE {})
  IN
  /\ state[p] = "RUNNABLE" /\ pc[p] = "user"
  /\ valid' = r.valid /\ ftab' = r.ftab /\ pipe' = r.pipe
  /\ fdt' = [fdt EXCEPT ![p] = [fd \in Fds |-> NoFile]]
  /\ parent' = Reparent(p)
  /\ state' = [WakeAll(state, wk) EXCEPT ![p] = "ZOMBIE"]
  /\ UNCHANGED <<chan, pc, arg, killed>>

(* exit: close every descriptor, hand the children to init (waking it),  *)
(* wake the parent, become a zombie.  Reached by the exit system call or *)
(* by a killed process on its way back to user mode.  Nothing stops      *)
(* initcode itself from exiting (its parent is NULL).                     *)
SysExit(p) ==
  LET r == CloseFrom(p, 0, [valid |-> valid, ftab |-> ftab, pipe |-> pipe, wake |-> {}])
      kids == {q \in Procs : parent[q] = p}
      wk == r.wake \cup {<<"proc", parent[p]>>}
                   \cup (IF kids # {} THEN {<<"proc", InitProc>>} ELSE {})
  IN
  /\ state[p] = "RUNNABLE" /\ pc[p] = "user"
  /\ valid' = r.valid /\ ftab' = r.ftab /\ pipe' = r.pipe
  /\ fdt' = [fdt EXCEPT ![p] = [fd \in Fds |-> NoFile]]
  /\ parent' = Reparent(p)
  /\ state' = [WakeAll(state, wk) EXCEPT ![p] = "ZOMBIE"]
  /\ UNCHANGED <<chan, pc, arg, killed>>

(* wait's loop after the has_child test: reap the first zombie child     *)
(* (process_zombie_child), or sleep on p.  killed is never tested.        *)
WaitLoop(p) ==
  LET zs == {c \in Procs : parent[c] = p /\ state[c] = "ZOMBIE"}
      c == Min(zs)
  IN
  IF zs # {}
  THEN /\ state' = [state EXCEPT ![c] = "UNUSED"]
       /\ parent' = [parent EXCEPT ![c] = NoProc]
       /\ killed' = [killed EXCEPT ![c] = FALSE]
       /\ Leave(p)
  ELSE /\ state' = [state EXCEPT ![p] = "SLEEPING"]
       /\ chan' = [chan EXCEPT ![p] = <<"proc", p>>]
       /\ pc' = [pc EXCEPT ![p] = "wait"]
       /\ UNCHANGED <<arg, killed, parent>>

(* wait: -1 (no step) unless p has a child that is not UNUSED.            *)
SysWait(p) ==
  /\ UserMode(p)
  /\ \E c \in Procs : parent[c] = p /\ state[c] # "UNUSED"
  /\ WaitLoop(p)
  /\ UNCHANGED <<fdt, valid, ftab, pipe>>

(* kill(pid): the first slot in table order with that pid is marked      *)
(* killed and woken if it sleeps.  Live processes have distinct pids from *)
(* 1; an UNUSED slot has pid 0 (zeroed, or cleared by wait), so kill(0)   *)
(* marks the first UNUSED slot, the one allocproc hands out next, and     *)
(* allocproc does not clear killed.                                       *)
SysKill(p, q) ==
  /\ UserMode(p)
  /\ state[q] # "UNUSED" \/ q \in AllocProc
  /\ killed' = [killed EXCEPT ![q] = TRUE]
  /\ state' = IF state[q] = "SLEEPING" THEN [state EXCEPT ![q] = "RUNNABLE"] ELSE state
  /\ UNCHANGED <<chan, pc, arg, parent, fdt, valid, ftab, pipe>>

(* A woken process scheduled again re-runs the loop it slept in.         *)
Resume(p) ==
  /\ state[p] = "RUNNABLE" /\ pc[p] # "user"
  /\ \/ /\ pc[p] = "readp"
        /\ ReadP(p, arg[p].pg, arg[p].n)
        /\ UNCHANGED <<killed, parent, fdt, valid, ftab>>
     \/ /\ pc[p] = "writep"
        /\ WriteP(p, arg[p].pg, arg[p].n)
        /\ UNCHANGED <<killed, parent, fdt, valid, ftab>>
     \/ /\ pc[p] = "wait"
        /\ WaitLoop(p)
        /\ UNCHANGED <<fdt, valid, ftab, pipe>>

Next ==
  \E p \in Procs :
    \/ \E m \in Modes : SysOpen(p, m)
    \/ SysPipe(p)
    \/ SysFork(p)
    \/ SysExit(p)
    \/ SysWait(p)
    \/ Resume(p)
    \/ \E q \in Procs : SysKill(p, q)
    \/ \E fd \in Fds :
         \/ SysDup(p, fd)
         \/ SysClose(p, fd)
         \/ \E n \in 1 .. MaxN : SysRead(p, fd, n) \/ SysWrite(p, fd, n)

(* The scheduler runs every RUNNABLE process in turn, so a woken kernel  *)
(* loop eventually resumes and a killed process eventually reaches the   *)
(* return-to-user check and exits.  What user code does next is not      *)
(* assumed to happen.                                                     *)
Fairness ==
  \A p \in Procs : WF_vars(Resume(p)) /\ WF_vars(killed[p] /\ SysExit(p))

Spec == Init /\ [][Next]_vars /\ Fairness

-----------------------------------------------------------------------------
(* References to slot s: descriptors of processes that have not exited.   *)
Holders(s) == {<<p, fd>> \in Procs \X Fds : fdt[p][fd] = s}

(* The ref_count of a valid open-file slot equals the number of          *)
(* descriptors pointing at it, over open/dup/close/pipe/fork/exit, and no *)
(* descriptor points at an invalid slot.  A wrong count frees a file      *)
(* while a descriptor still uses it, or never frees it.                   *)
FileRefsExact ==
  \A s \in Slots :
    /\ valid[s] => ftab[s].ref = Cardinality(Holders(s))
    /\ ~valid[s] => Holders(s) = {}

(* Every valid pipe slot refers to an allocated pipe page whose recorded *)
(* read_fd or write_fd is that slot (its mode picks which): fileclose's  *)
(* kfree never frees a page an open end still uses.                       *)
PipeEndsLive ==
  \A s \in Slots :
    valid[s] /\ ftab[s].type = "pipe" =>
      /\ pipe[ftab[s].pg].alive
      /\ s = IF ftab[s].mode = "R" THEN pipe[ftab[s].pg].read_fd
             ELSE pipe[ftab[s].pg].write_fd

(* A writer sleeps on &tail only while the pipe is full: readp wakes     *)
(* &tail before it sleeps and after it consumes, so a writer never sleeps *)
(* beside free buffer space.                                              *)
SleepingWriterFull ==
  \A p \in Procs :
    state[p] = "SLEEPING" /\ chan[p][1] = "tail" =>
      Wrap(pipe[chan[p][2]].tail - pipe[chan[p][2]].front) = SIZE

(* exit hands the children of an exiting process to initcode: a zombie   *)
(* other than initcode has initcode or a live process as its parent.      *)
ZombieReparented ==
  \A z \in Procs :
    state[z] = "ZOMBIE" =>
      \/ z = InitProc
      \/ parent[z] = InitProc
      \/ state[parent[z]] \in {"RUNNABLE", "SLEEPING"}

(* Spec 4.9: a read of an empty pipe blocks only while a write end is   *)
(* open.  So a reader asleep on a pipe has some open write end of it.     *)
ReaderHasWriter ==
  \A p \in Procs :
    state[p] = "SLEEPING" /\ chan[p][1] = "front" =>
      \E s \in Slots : valid[s] /\ ftab[s].type = "pipe"
                       /\ ftab[s].pg = chan[p][2] /\ ftab[s].mode = "W"

(* Spec: kill marks the process, which then exits.  A killed process     *)
(* eventually becomes a zombie (or is reaped).                            *)
KilledExits ==
  \A p \in Procs : killed[p] ~> state[p] \in {"ZOMBIE", "UNUSED"}

(* A parent asleep in wait while one of its children is a zombie leaves  *)
(* wait: exit's wakeup1(parent) (and the wakeup of init when zombies are  *)
(* reparented to it) is never lost, whatever the order of exits, kills    *)
(* and reparenting.                                                       *)
WaitReturns ==
  \A p \in Procs :
    (pc[p] = "wait" /\ \E c \in Procs : parent[c] = p /\ state[c] = "ZOMBIE")
      ~> pc[p] # "wait"

====
