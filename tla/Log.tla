-------------------------------- MODULE Log --------------------------------
(***************************************************************************)
(* The write-ahead log of the xk file system (kernel/fs.c: log_write,     *)
(* log_commit_tx, log_recover, and the recovery iinit runs at boot).      *)
(*                                                                         *)
(* Disk state survives a crash: the home blocks, the LOGSIZE payload      *)
(* blocks after the commit block, and the commit block itself.  Memory   *)
(* state is lost: the buffer cache's view of the home blocks (callers    *)
(* change a cached block before they log it), the staged log_cache, and  *)
(* the local variables of the commit and recovery loops.  Every bwrite   *)
(* is one step, so a crash can fall between any two of them.  Block      *)
(* contents are abstracted to a small set of values.                      *)
(***************************************************************************)
EXTENDS Integers, Sequences, SequencesExt

CONSTANTS
  Blocks,    \* home block numbers transactions write
  Vals,      \* block contents
  InitVal,   \* contents of the log payload blocks at boot
  InitDisk,  \* the home blocks as mkfs leaves them
  LOGSIZE    \* payload blocks of the log region and entries of log_cache

ASSUME InitVal \in Vals /\ LOGSIZE >= 1

Slots == 0 .. LOGSIZE - 1

(* A zeroed commit block: commit_flag 0, size 0, dst_blocknos all 0.     *)
ZeroCB == [flag |-> 0, size |-> 0, dst |-> [k \in Slots |-> 0]]

VARIABLES
  disk,      \* disk[b]: home block b on disk
  logdisk,   \* logdisk[k]: payload block logstart+k+1 on disk
  cb,        \* the commit block on disk
  cache,     \* cache[b]: home block b as the buffer cache holds it
  lcache,    \* log_cache.bufs[0 .. size-1] as <<blockno, contents>>
  phase,     \* "idle", "log" (commit copying), "recover", or "boot"
  i,         \* the loop index of the running commit or recovery
  cbm        \* log_commit_tx's local struct commit_block cb

vars == <<disk, logdisk, cb, cache, lcache, phase, i, cbm>>

Put(d, w) == [d EXCEPT ![w[1]] = w[2]]
Applied(d, s) == FoldLeft(Put, d, s)

(* The transaction the on-disk commit block describes, as a sequence.    *)
Logged == [k \in 1 .. cb.size |-> <<cb.dst[k - 1], logdisk[k - 1]>>]

Init ==
  /\ disk = InitDisk
  /\ logdisk = [k \in Slots |-> InitVal]
  /\ cb = ZeroCB
  /\ cache = disk
  /\ lcache = <<>>
  /\ phase = "idle"
  /\ i = 0
  /\ cbm = ZeroCB

-----------------------------------------------------------------------------
(* Mutation-analysis variant: the buffer is copied into log_cache before  *)
(* the caller's change to it.                                             *)
LogWriteStale(b, v) ==
  /\ phase = "idle"
  /\ Len(lcache) < LOGSIZE
  /\ cache' = [cache EXCEPT ![b] = v]
  /\ lcache' = Append(lcache, <<b, cache[b]>>)
  /\ UNCHANGED <<disk, logdisk, cb, phase, i, cbm>>

(* A caller (writei, appendi) changes block b in its cached buffer and   *)
(* calls log_write, which copies the buffer into log_cache.  log_write   *)
(* does not check log_cache.size against its 40 entries; the model never *)
(* stages more than LOGSIZE.                                              *)
LogWrite(b, v) ==
  /\ phase = "idle"
  /\ Len(lcache) < LOGSIZE
  /\ cache' = [cache EXCEPT ![b] = v]
  /\ lcache' = Append(lcache, <<b, cache'[b]>>)
  /\ UNCHANGED <<disk, logdisk, cb, phase, i, cbm>>

(* log_commit_tx: read the commit block into the local cb, then, one     *)
(* bwrite per step, copy log_cache.bufs[i] into payload block i while    *)
(* recording its destination in the local cb.                             *)
CommitBegin ==
  /\ phase = "idle"
  /\ phase' = "log"
  /\ i' = 0
  /\ cbm' = cb
  /\ UNCHANGED <<disk, logdisk, cb, cache, lcache>>

CommitLog ==
  /\ phase = "log"
  /\ i < Len(lcache)
  /\ logdisk' = [logdisk EXCEPT ![i] = lcache[i + 1][2]]
  /\ cbm' = [cbm EXCEPT !.dst[i] = lcache[i + 1][1], !.size = @ + 1]
  /\ i' = i + 1
  /\ UNCHANGED <<disk, cb, cache, lcache, phase>>

(* Mutation-analysis variant: the commit block is written before every   *)
(* payload block is.                                                      *)
CommitMarkEarly ==
  /\ phase = "log"
  /\ cb' = [cbm EXCEPT !.flag = 1]
  /\ lcache' = <<>>
  /\ phase' = "recover"
  /\ i' = 0
  /\ UNCHANGED <<disk, logdisk, cache, cbm>>

(* Empty log_cache, then write the commit block with commit_flag 1: the  *)
(* single bwrite that commits.  log_recover follows.                      *)
CommitMark ==
  /\ phase = "log"
  /\ i = Len(lcache)
  /\ cb' = [cbm EXCEPT !.flag = 1]
  /\ lcache' = <<>>
  /\ phase' = "recover"
  /\ i' = 0
  /\ UNCHANGED <<disk, logdisk, cache, cbm>>

(* log_recover, after a commit or at boot: if commit_flag is 1, copy     *)
(* payload block i to dst_blocknos[i], one bwrite per step, through the  *)
(* buffer cache.                                                          *)
RecoverApply ==
  /\ phase \in {"recover", "boot"}
  /\ cb.flag = 1 /\ i < cb.size
  /\ disk' = [disk EXCEPT ![cb.dst[i]] = logdisk[i]]
  /\ cache' = [cache EXCEPT ![cb.dst[i]] = logdisk[i]]
  /\ i' = i + 1
  /\ UNCHANGED <<logdisk, cb, lcache, phase, cbm>>

(* Mutation-analysis variant: the commit block is left as it is.        *)
RecoverEndNoClear ==
  /\ phase \in {"recover", "boot"}
  /\ cb.flag = 1 => i = cb.size
  /\ phase' = "idle"
  /\ UNCHANGED <<disk, logdisk, cb, cache, lcache, i, cbm>>

(* Then zero the commit block (or find commit_flag 0 and do nothing).    *)
RecoverEnd ==
  /\ phase \in {"recover", "boot"}
  /\ cb.flag = 1 => i = cb.size
  /\ cb' = ZeroCB
  /\ phase' = "idle"
  /\ UNCHANGED <<disk, logdisk, cache, lcache, i, cbm>>

(* Power loss at any point, then reboot: memory is gone, the buffer      *)
(* cache starts from the disk, and iinit runs log_recover.               *)
CrashBoot ==
  /\ cache' = disk
  /\ lcache' = <<>>
  /\ phase' = "boot"
  /\ i' = 0
  /\ cbm' = ZeroCB
  /\ UNCHANGED <<disk, logdisk, cb>>

Next ==
  \/ \E b \in Blocks, v \in Vals : LogWrite(b, v)
  \/ CommitBegin
  \/ CommitLog
  \/ CommitMark
  \/ RecoverApply
  \/ RecoverEnd
  \/ CrashBoot

Spec == Init /\ [][Next]_vars

-----------------------------------------------------------------------------
TypeOK ==
  /\ disk \in [Blocks -> Vals] /\ cache \in [Blocks -> Vals]
  /\ logdisk \in [Slots -> Vals]
  /\ cb.flag \in {0, 1} /\ cb.size \in 0 .. LOGSIZE
  /\ cb.dst \in [Slots -> Blocks \cup {0}]
  /\ lcache \in Seq(Blocks \X Vals) /\ Len(lcache) <= LOGSIZE
  /\ phase \in {"idle", "log", "recover", "boot"}

(* The log's promise, as a refinement: the durable disk is the home      *)
(* blocks with the committed transaction replayed over them whenever     *)
(* commit_flag is 1, and the open transaction is log_cache until the     *)
(* commit block is written.  Every step of log_write, log_commit_tx,     *)
(* log_recover and a crash anywhere in them is a step of AtomicLog.       *)
Abs == INSTANCE AtomicLog WITH
         Blocks <- Blocks, InitDisk <- InitDisk,
         adisk <- IF cb.flag = 1 THEN Applied(disk, Logged) ELSE disk,
         apend <- IF phase \in {"idle", "log"} THEN lcache ELSE <<>>

LogAtomic == Abs!ASpec

(* Between transactions the commit block is clear and the buffer cache  *)
(* shows exactly the committed disk with the staged writes applied: a    *)
(* read never sees a value the log would not make durable.               *)
CacheCoherent ==
  phase = "idle" => cb = ZeroCB /\ cache = Applied(disk, lcache)

=============================================================================
