----------------------------- MODULE MCFileWrite -----------------------------
EXTENDS FileWrite, TLC
CONSTANTS f1, f2, t1, t2

(* The log's payload blocks beyond the ones the running commit has       *)
(* written, or the committed transaction names, are overwritten before   *)
(* they are read again, and log_commit_tx's locals are dead outside its  *)
(* copy loop: states differing only there behave alike.                   *)
LiveLog == IF phase = "log" THEN li ELSE IF cb.flag = 1 THEN cb.size ELSE 0
View ==
  <<disk, cache, staged,
    [k \in L!Slots |-> IF k < LiveLog THEN logdisk[k] ELSE NoData],
    cb, phase, IF phase = "idle" THEN 0 ELSE li,
    IF phase = "log" THEN cbm ELSE L!ZeroCB, fwvars>>
=============================================================================
