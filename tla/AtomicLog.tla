----------------------------- MODULE AtomicLog -----------------------------
(***************************************************************************)
(* What the xk write-ahead log promises (spec section 4.2): block writes   *)
(* staged with log_write reach the disk only by a commit, and a commit    *)
(* reaches the disk entirely or not at all; a crash discards whatever is  *)
(* staged and not committed.  Later writes to a block in one transaction  *)
(* win over earlier ones.                                                 *)
(***************************************************************************)
EXTENDS Sequences, SequencesExt

CONSTANTS
  Blocks,    \* home block numbers the log may target
  Vals,      \* block contents
  InitDisk,  \* the home blocks as mkfs leaves them
  LOGSIZE    \* staged writes one transaction may hold (40 in the code)

VARIABLES
  adisk,     \* the durable contents of every home block
  apend      \* the staged writes of the open transaction, in order

avars == <<adisk, apend>>

(* Write one staged <<block, contents>> pair over a disk image.           *)
Put(d, w) == [d EXCEPT ![w[1]] = w[2]]

(* A disk image with the staged writes s applied in order.                *)
Applied(d, s) == FoldLeft(Put, d, s)

AInit ==
  /\ adisk = InitDisk
  /\ apend = <<>>

(* log_write: the open transaction grows by one or more <<block,        *)
(* contents>> pairs (a caller's copy loop may log several blocks between *)
(* two of its steps).                                                     *)
Stage ==
  /\ Len(apend) < Len(apend') /\ Len(apend') <= LOGSIZE
  /\ SubSeq(apend', 1, Len(apend)) = apend
  /\ \A k \in Len(apend) + 1 .. Len(apend') : apend'[k] \in Blocks \X Vals
  /\ UNCHANGED adisk

Commit ==
  /\ adisk' = Applied(adisk, apend)
  /\ apend' = <<>>

Crash ==
  /\ apend' = <<>>
  /\ UNCHANGED adisk

ANext ==
  \/ Stage
  \/ Commit
  \/ Crash

ASpec == AInit /\ [][ANext]_avars

=============================================================================
