---------------------------- MODULE OutputProofs ----------------------------
(***************************************************************************)
(* Proofs about what the tools write: verifier.py's writers for any number *)
(* of commands, units of outcome, failing calls and kills (files are whole *)
(* or untouched, key files are never replaced, and the exit code tells the *)
(* truth), and the write-once store for any number of callers, records and *)
(* stores (its type, write-once, the receipts, and erasure).               *)
(***************************************************************************)
EXTENDS Output, Worm, SequenceTheorems, TLAPS

-----------------------------------------------------------------------------
(***************************************************************************)
(* Output: the writers                                                     *)
(***************************************************************************)

\* A promised file is delivered and struck off the list in one step.
Accounted(p) ==
  IF cmd[p] = "keygen"
    THEN \/ todo[p] = <<"key", "pq">> /\ made[p] = {}
         \/ todo[p] = <<"pq">> /\ made[p] = {"key"}
         \/ todo[p] = << >> /\ made[p] = {"key", "pq"}
    ELSE \/ todo[p] = <<"out">> /\ made[p] = {}
         \/ todo[p] = << >> /\ made[p] = {"out"}

\* Where a command stands: before stdout it has a file to write and has given
\* nothing to stdout; at stdout every file is delivered, or it is verifier.main
\* with `failed` set.
Placed(p) ==
  /\ pc[p] \in {"start", "target", "direct", "fill", "commit", "link"} => todo[p] # << >> /\ ~failed[p] /\ left[p] = Units
  /\ pc[p] \in {"direct", "commit"} => cmd[p] # "keygen"
  /\ pc[p] = "link" => cmd[p] = "keygen"
  /\ pc[p] \in {"text", "write", "flush"} => IF failed[p] THEN cmd[p] = "verify" /\ todo[p] # << >> ELSE todo[p] = << >>
  /\ pc[p] = "text" => left[p] = Units
  /\ pc[p] = "flush" => left[p] = 0

\* No unit is lost or given twice on the way to stdout, except by _write_stdout giving up.
Balanced(p) ==
  /\ left[p] + buf[p] + sink[p] <= Units
  /\ pc[p] # "done" => left[p] + buf[p] + sink[p] = Units

\* The temporary file holds the outcome of its own process, whole before it is moved.
Filled(p) ==
  /\ pc[p] = "fill" => tmp[p] \in Seq({p}) /\ Len(tmp[p]) <= Units
  /\ pc[p] \in {"commit", "link"} => tmp[p] = Whole(p)

\* The exit code against the units stdout took and the files still to write.
Ended(p) ==
  /\ pc[p] # "done" => code[p] = -1
  /\ pc[p] = "done" => tmp[p] = NoTmp
  /\ code[p] = 74 => sink[p] < Units \/ todo[p] # << >>
  /\ code[p] = 0 \/ (code[p] = 1 /\ cmd[p] = "verify") => sink[p] = Units /\ todo[p] = << >>

\* The disk: whole outcomes, the keys a command made, no file at "out" that may
\* not be written once a command is writing next to it.
Kept(p) ==
  /\ cmd[p] = "keygen" => \A f \in made[p] : disk[f].kind = "file" /\ disk[f].val = Whole(p)
  /\ pc[p] \in {"direct", "fill", "commit"} /\ cmd[p] # "keygen" => disk["out"].kind # "readonly"

\* A pipe took units of outcomes only.
Piped == \A f \in Paths : disk[f].kind = "fifo" => disk[f].val \in Chunks

\* All of it for one command.
Mine(p) == Accounted(p) /\ Placed(p) /\ Balanced(p) /\ Filled(p) /\ Ended(p) /\ Kept(p)

\* The inductive invariant: types, whole files, and Mine of every command.
OutInv ==
  /\ TypeOK
  /\ PromisedWhole /\ Piped
  /\ \A p \in Procs : Mine(p)

\* What a step of one command leaves alone of another one.
Same(p) ==
  /\ cmd'[p] = cmd[p] /\ pc'[p] = pc[p] /\ todo'[p] = todo[p] /\ made'[p] = made[p] /\ failed'[p] = failed[p]
  /\ left'[p] = left[p] /\ buf'[p] = buf[p] /\ sink'[p] = sink[p] /\ tmp'[p] = tmp[p] /\ code'[p] = code[p]

\* What any step may do to the disk.
DiskStep ==
  \A f \in Paths :
    /\ disk[f].kind = "readonly" \/ (f # "out" /\ disk[f].kind = "file") => disk'[f] = disk[f]
    /\ disk[f].kind # "readonly" => disk'[f].kind # "readonly"

\* A command that takes no part in a step keeps its part of the invariant.
LEMMA OthersKeep ==
  ASSUME OutInv, NEW p \in Procs, Same(p), DiskStep
  PROVE  Mine(p)'
<1>1. Mine(p) BY DEF OutInv
<1>2. (Accounted(p) /\ Placed(p) /\ Balanced(p) /\ Filled(p) /\ Ended(p))'
  BY <1>1 DEF Mine, Same, Accounted, Placed, Balanced, Filled, Ended
<1>3. Kept(p)'
  <2>1. cmd[p] = "keygen" => "out" \notin made[p] /\ made[p] \subseteq Paths
    BY <1>1 DEF Mine, Accounted, Paths
  <2>2. "out" \in Paths BY DEF Paths
  <2> QED BY <1>1, <2>1, <2>2 DEF Mine, Kept, Same, DiskStep
<1> QED BY <1>2, <1>3 DEF Mine

\* A step of command q: it is enough to look at q, at the disk and at the types.
LEMMA StepOf ==
  ASSUME OutInv, NEW q \in Procs, \A p \in Procs \ {q} : Same(p),
         DiskStep, TypeOK', PromisedWhole', Piped', Mine(q)'
  PROVE  OutInv'
<1>1. ASSUME NEW p \in Procs PROVE Mine(p)'
  <2>1. CASE p = q BY <2>1
  <2>2. CASE p # q BY <2>2, OthersKeep
  <2> QED BY <2>1, <2>2
<1> QED BY <1>1 DEF OutInv

\* A step of command q that leaves the disk alone.
LEMMA QuietStepOf ==
  ASSUME OutInv, NEW q \in Procs, \A p \in Procs \ {q} : Same(p), disk' = disk, TypeOK', Mine(q)'
  PROVE  OutInv'
<1>1. DiskStep BY DEF DiskStep
<1>2. PromisedWhole' /\ Piped' BY DEF OutInv, PromisedWhole, Whole, Piped
<1> QED BY <1>1, <1>2, StepOf

-----------------------------------------------------------------------------
(* The steps that leave the disk alone *)

\* OutputNotWritten leaves the variables it changes typed.
LEMMA NotWrittenType ==
  ASSUME TypeOK, NEW q \in Procs, NotWritten(q)
  PROVE  /\ failed' \in [Procs -> BOOLEAN] /\ tmp' \in [Procs -> Chunks \cup {NoTmp}]
         /\ pc' \in [Procs -> {"start", "target", "direct", "fill", "commit", "link", "text", "write", "flush", "done", "killed"}]
         /\ code' \in [Procs -> {-1, 0, 1, 2, 74}]
<1>1. failed' \in [Procs -> BOOLEAN] BY DEF TypeOK, NotWritten
<1>2. CASE cmd[q] = "verify"
  <2>1. pc' = [pc EXCEPT ![q] = "text"] /\ tmp' = [tmp EXCEPT ![q] = NoTmp] /\ code' = code
    BY <1>2 DEF NotWritten, Goto
  <2> QED BY <1>1, <2>1 DEF TypeOK
<1>3. CASE cmd[q] # "verify"
  <2>1. pc' = [pc EXCEPT ![q] = "done"] /\ tmp' = [tmp EXCEPT ![q] = NoTmp] /\ code' = [code EXCEPT ![q] = 74]
    BY <1>3 DEF NotWritten, Exit, Goto
  <2> QED BY <1>1, <2>1 DEF TypeOK
<1> QED BY <1>2, <1>3

\* A temporary file with all the units is the whole outcome.
LEMMA WholeWhenFull ==
  ASSUME NEW q \in Procs, NEW s \in Seq({q}), Len(s) = Units
  PROVE  s = Whole(q)
<1>1. s = [i \in 1..Units |-> s[i]] BY LenProperties
<1>2. \A i \in 1..Units : s[i] = q BY ElementOfSeq
<1> QED BY <1>1, <1>2 DEF Whole

\* keygen refuses before it writes.
LEMMA KeygenRefusesKeeps ==
  ASSUME OutInv, NEW q \in Procs, KeygenRefuses(q)
  PROVE  OutInv'
<1>0. Mine(q) /\ TypeOK BY DEF OutInv
<1>1. TypeOK' BY <1>0, OutputConstants DEF TypeOK, KeygenRefuses, Exit, Goto, fixed, std, used
<1>2. \A p \in Procs \ {q} : Same(p) BY <1>0 DEF Same, TypeOK, KeygenRefuses, Exit, Goto, fixed, std, used
<1>3. Mine(q)'
  BY <1>0, OutputConstants DEF Mine, Accounted, Placed, Balanced, Filled, Ended, Kept, TypeOK,
       KeygenRefuses, Exit, Goto, At, fixed, std, used
<1> QED BY <1>1, <1>2, <1>3, QuietStepOf DEF KeygenRefuses, Exit, Goto

\* A command starts.
LEMMA StartKeeps ==
  ASSUME OutInv, NEW q \in Procs, Start(q)
  PROVE  OutInv'
<1>0. Mine(q) /\ TypeOK BY DEF OutInv
<1>1. TypeOK' BY <1>0, OutputConstants DEF TypeOK, Start, Goto, fixed, std, used
<1>2. \A p \in Procs \ {q} : Same(p) BY <1>0 DEF Same, TypeOK, Start, Goto, fixed, std, used
<1>3. Mine(q)'
  BY <1>0, OutputConstants DEF Mine, Accounted, Placed, Balanced, Filled, Ended, Kept, TypeOK,
       Start, Goto, At, fixed, std, used
<1> QED BY <1>1, <1>2, <1>3, QuietStepOf DEF Start, Goto

\* A target that may not be replaced: verifier.main goes on to stdout, the others exit 74.
LEMMA RefuseTargetKeeps ==
  ASSUME OutInv, NEW q \in Procs, RefuseTarget(q)
  PROVE  OutInv'
<1>0. Mine(q) /\ TypeOK BY DEF OutInv
<1>1. TypeOK' BY <1>0, NotWrittenType DEF TypeOK, RefuseTarget, fixed, std, used
<1>2. \A p \in Procs \ {q} : Same(p) BY <1>0 DEF Same, TypeOK, RefuseTarget, NotWritten, Exit, Goto, fixed, std, used
<1>3. Mine(q)'
  BY <1>0, OutputConstants DEF Mine, Accounted, Placed, Balanced, Filled, Ended, Kept, TypeOK,
       RefuseTarget, NotWritten, Exit, Goto, At, fixed, std, used
<1> QED BY <1>1, <1>2, <1>3, QuietStepOf DEF RefuseTarget, NotWritten, Exit, Goto

\* The temporary file is complete.
LEMMA SyncTmpKeeps ==
  ASSUME OutInv, NEW q \in Procs, SyncTmp(q)
  PROVE  OutInv'
<1>0. Mine(q) /\ TypeOK BY DEF OutInv
<1>1. TypeOK' BY <1>0, OutputConstants DEF TypeOK, SyncTmp, Goto, fixed, std, used
<1>2. \A p \in Procs \ {q} : Same(p) BY <1>0 DEF Same, TypeOK, SyncTmp, Goto, fixed, std, used
<1>3. tmp[q] = Whole(q) BY <1>0, WholeWhenFull DEF Mine, Filled, SyncTmp, At
<1>4. pc'[q] = IF cmd[q] = "keygen" THEN "link" ELSE "commit" BY <1>0 DEF TypeOK, SyncTmp, Goto
<1>5. (Accounted(q) /\ Balanced(q) /\ Ended(q))' BY <1>0, <1>4 DEF Mine, Accounted, Balanced, Ended, SyncTmp, At, fixed, std
<1>6. (Placed(q) /\ Filled(q) /\ Kept(q))' BY <1>0, <1>3, <1>4 DEF Mine, Placed, Filled, Kept, SyncTmp, At, fixed, std, Whole
<1>7. Mine(q)' BY <1>5, <1>6 DEF Mine
<1> QED BY <1>1, <1>2, <1>7, QuietStepOf DEF SyncTmp

\* A key file is there already at the link.
LEMMA LinkExistsKeeps ==
  ASSUME OutInv, NEW q \in Procs, LinkExists(q)
  PROVE  OutInv'
<1>0. Mine(q) /\ TypeOK BY DEF OutInv
<1>1. TypeOK' BY <1>0, OutputConstants DEF TypeOK, LinkExists, Exit, Goto, fixed, std, used
<1>2. \A p \in Procs \ {q} : Same(p) BY <1>0 DEF Same, TypeOK, LinkExists, Exit, Goto, fixed, std, used
<1>3. Mine(q)'
  BY <1>0, OutputConstants DEF Mine, Accounted, Placed, Balanced, Filled, Ended, Kept, TypeOK,
       LinkExists, Exit, Goto, At, fixed, std, used
<1> QED BY <1>1, <1>2, <1>3, QuietStepOf DEF LinkExists, Exit, Goto

\* The source of a copy cannot be read.
LEMMA SourceFailsKeeps ==
  ASSUME OutInv, NEW q \in Procs, SourceFails(q)
  PROVE  OutInv'
<1>0. Mine(q) /\ TypeOK BY DEF OutInv
<1>1. TypeOK' BY <1>0, OutputConstants DEF TypeOK, SourceFails, Exit, Goto, Fault, fixed, std, used
<1>2. \A p \in Procs \ {q} : Same(p) BY <1>0 DEF Same, TypeOK, SourceFails, Exit, Goto, Fault, fixed, std, used
<1>3. Mine(q)'
  BY <1>0, OutputConstants DEF Mine, Accounted, Placed, Balanced, Filled, Ended, Kept, TypeOK,
       SourceFails, Exit, Goto, Fault, At, fixed, std, used
<1> QED BY <1>1, <1>2, <1>3, QuietStepOf DEF SourceFails, Exit, Goto, Fault

\* The text layer is flushed.
LEMMA FlushTextKeeps ==
  ASSUME OutInv, NEW q \in Procs, FlushText(q)
  PROVE  OutInv'
<1>0. Mine(q) /\ TypeOK BY DEF OutInv
<1>1. TypeOK' BY <1>0, OutputConstants DEF TypeOK, FlushText, Goto, fixed, std, used
<1>2. \A p \in Procs \ {q} : Same(p) BY <1>0 DEF Same, TypeOK, FlushText, Goto, fixed, std, used
<1>3. Mine(q)'
  BY <1>0, OutputConstants DEF Mine, Accounted, Placed, Balanced, Filled, Ended, Kept, TypeOK,
       FlushText, Goto, At, fixed, std, used
<1> QED BY <1>1, <1>2, <1>3, QuietStepOf DEF FlushText, Goto

\* An unbuffered stdout takes units.
LEMMA TakeRawKeeps ==
  ASSUME OutInv, NEW q \in Procs, TakeRaw(q)
  PROVE  OutInv'
<1>0. Mine(q) /\ TypeOK BY DEF OutInv
<1>1. PICK n \in 1..left[q] :
        /\ left' = [left EXCEPT ![q] = @ - n]
        /\ sink' = [sink EXCEPT ![q] = @ + n]
        /\ pipe' = [pipe EXCEPT ![q] = @ + n] /\ n <= Room - pipe[q]
  BY DEF TakeRaw, ToSink, Free
<1>2. /\ left[q] \in Nat /\ buf[q] \in Nat /\ sink[q] \in Nat /\ pipe[q] \in Nat /\ n \in Nat /\ n <= left[q]
      /\ left[q] + buf[q] + sink[q] = Units
  BY <1>0 DEF TypeOK, Mine, Balanced, TakeRaw, At
<1>3. left[q] - n \in 0..Units /\ sink[q] + n \in 0..Units /\ left[q] >= 1 BY <1>2, OutputConstants
<1>4. left' \in [Procs -> 0..Units] /\ sink' \in [Procs -> 0..Units] BY <1>0, <1>1, <1>3 DEF TypeOK
<1>5. pipe' \in [Procs -> 0..Room]
  <2>1. pipe[q] + n \in 0..Room BY <1>1, <1>2, OutputConstants
  <2> QED BY <1>0, <1>1, <2>1 DEF TypeOK
<1>6. TypeOK' BY <1>0, <1>4, <1>5 DEF TypeOK, TakeRaw, ToSink, Free, fixed, std, used
<1>7. \A p \in Procs \ {q} : Same(p) BY <1>0, <1>1 DEF Same, TypeOK, TakeRaw, ToSink, Free, fixed, std, used
<1>8. left'[q] = left[q] - n /\ sink'[q] = sink[q] + n BY <1>0, <1>1 DEF TypeOK
<1>9. Mine(q)'
  <2>1. Balanced(q)' BY <1>0, <1>2, <1>8 DEF Mine, Balanced, TakeRaw
  <2>2. (Accounted(q) /\ Filled(q) /\ Kept(q))' BY <1>0 DEF Mine, Accounted, Filled, Kept, TakeRaw, fixed
  <2>3. Placed(q)' BY <1>0, <1>2, <1>8 DEF Mine, Placed, TakeRaw, fixed, At
  <2>4. Ended(q)' BY <1>0 DEF Mine, Ended, TakeRaw, fixed, At
  <2> QED BY <2>1, <2>2, <2>3, <2>4 DEF Mine
<1> QED BY <1>6, <1>7, <1>9, QuietStepOf DEF TakeRaw

\* A buffered stdout takes units.
LEMMA TakeBufferedKeeps ==
  ASSUME OutInv, NEW q \in Procs, TakeBuffered(q)
  PROVE  OutInv'
<1>0. Mine(q) /\ TypeOK BY DEF OutInv
<1>1. PICK n \in 1..left[q] :
        /\ left' = [left EXCEPT ![q] = @ - n]
        /\ buf' = [buf EXCEPT ![q] = @ + n]
  BY DEF TakeBuffered
<1>2. /\ left[q] \in Nat /\ buf[q] \in Nat /\ sink[q] \in Nat /\ pipe[q] \in Nat /\ n \in Nat /\ n <= left[q]
      /\ left[q] + buf[q] + sink[q] = Units
  BY <1>0 DEF TypeOK, Mine, Balanced, TakeBuffered, At
<1>3. left[q] - n \in 0..Units /\ buf[q] + n \in 0..Units /\ left[q] >= 1 BY <1>2, OutputConstants
<1>4. left' \in [Procs -> 0..Units] /\ buf' \in [Procs -> 0..Units] BY <1>0, <1>1, <1>3 DEF TypeOK
<1>5. pipe' \in [Procs -> 0..Room] BY <1>0 DEF TypeOK, TakeBuffered
<1>6. TypeOK' BY <1>0, <1>4, <1>5 DEF TypeOK, TakeBuffered, fixed, std, used
<1>7. \A p \in Procs \ {q} : Same(p) BY <1>0, <1>1 DEF Same, TypeOK, TakeBuffered, fixed, std, used
<1>8. left'[q] = left[q] - n /\ buf'[q] = buf[q] + n BY <1>0, <1>1 DEF TypeOK
<1>9. Mine(q)'
  <2>1. Balanced(q)' BY <1>0, <1>2, <1>8 DEF Mine, Balanced, TakeBuffered
  <2>2. (Accounted(q) /\ Filled(q) /\ Kept(q))' BY <1>0 DEF Mine, Accounted, Filled, Kept, TakeBuffered, fixed
  <2>3. Placed(q)' BY <1>0, <1>2, <1>8 DEF Mine, Placed, TakeBuffered, fixed, At
  <2>4. Ended(q)' BY <1>0 DEF Mine, Ended, TakeBuffered, fixed, At
  <2> QED BY <2>1, <2>2, <2>3, <2>4 DEF Mine
<1> QED BY <1>6, <1>7, <1>9, QuietStepOf DEF TakeBuffered

\* Everything was given to stdout.
LEMMA AllTakenKeeps ==
  ASSUME OutInv, NEW q \in Procs, AllTaken(q)
  PROVE  OutInv'
<1>0. Mine(q) /\ TypeOK BY DEF OutInv
<1>1. TypeOK' BY <1>0, OutputConstants DEF TypeOK, AllTaken, Goto, fixed, std, used
<1>2. \A p \in Procs \ {q} : Same(p) BY <1>0 DEF Same, TypeOK, AllTaken, Goto, fixed, std, used
<1>3. Mine(q)'
  BY <1>0, OutputConstants DEF Mine, Accounted, Placed, Balanced, Filled, Ended, Kept, TypeOK,
       AllTaken, Goto, At, fixed, std, used
<1> QED BY <1>1, <1>2, <1>3, QuietStepOf DEF AllTaken, Goto

\* The buffer of stdout is flushed in part.
LEMMA FlushSomeKeeps ==
  ASSUME OutInv, NEW q \in Procs, FlushSome(q)
  PROVE  OutInv'
<1>0. Mine(q) /\ TypeOK BY DEF OutInv
<1>1. PICK n \in 1..buf[q] :
        /\ buf' = [buf EXCEPT ![q] = @ - n]
        /\ sink' = [sink EXCEPT ![q] = @ + n]
        /\ pipe' = [pipe EXCEPT ![q] = @ + n] /\ n <= Room - pipe[q]
  BY DEF FlushSome, ToSink, Free
<1>2. /\ left[q] \in Nat /\ buf[q] \in Nat /\ sink[q] \in Nat /\ pipe[q] \in Nat /\ n \in Nat /\ n <= buf[q]
      /\ left[q] + buf[q] + sink[q] = Units
  BY <1>0 DEF TypeOK, Mine, Balanced, FlushSome, At
<1>3. buf[q] - n \in 0..Units /\ sink[q] + n \in 0..Units /\ buf[q] >= 1 BY <1>2, OutputConstants
<1>4. buf' \in [Procs -> 0..Units] /\ sink' \in [Procs -> 0..Units] BY <1>0, <1>1, <1>3 DEF TypeOK
<1>5. pipe' \in [Procs -> 0..Room]
  <2>1. pipe[q] + n \in 0..Room BY <1>1, <1>2, OutputConstants
  <2> QED BY <1>0, <1>1, <2>1 DEF TypeOK
<1>6. TypeOK' BY <1>0, <1>4, <1>5 DEF TypeOK, FlushSome, ToSink, Free, fixed, std, used
<1>7. \A p \in Procs \ {q} : Same(p) BY <1>0, <1>1 DEF Same, TypeOK, FlushSome, ToSink, Free, fixed, std, used
<1>8. buf'[q] = buf[q] - n /\ sink'[q] = sink[q] + n BY <1>0, <1>1 DEF TypeOK
<1>9. Mine(q)'
  <2>1. Balanced(q)' BY <1>0, <1>2, <1>8 DEF Mine, Balanced, FlushSome
  <2>2. (Accounted(q) /\ Filled(q) /\ Kept(q))' BY <1>0 DEF Mine, Accounted, Filled, Kept, FlushSome, fixed
  <2>3. Placed(q)' BY <1>0, <1>2, <1>8 DEF Mine, Placed, FlushSome, fixed, At
  <2>4. Ended(q)' BY <1>0 DEF Mine, Ended, FlushSome, fixed, At
  <2> QED BY <2>1, <2>2, <2>3, <2>4 DEF Mine
<1> QED BY <1>6, <1>7, <1>9, QuietStepOf DEF FlushSome

\* The command ends and chooses its exit code.
LEMMA FinishKeeps ==
  ASSUME OutInv, NEW q \in Procs, Finish(q)
  PROVE  OutInv'
<1>0. Mine(q) /\ TypeOK BY DEF OutInv
<1>1. TypeOK' BY <1>0, OutputConstants DEF TypeOK, Finish, FlushDone, Exit, Goto, fixed, std, used
<1>2. \A p \in Procs \ {q} : Same(p) BY <1>0 DEF Same, TypeOK, Finish, FlushDone, Exit, Goto, fixed, std, used
<1>3. Mine(q)'
  BY <1>0, OutputConstants DEF Mine, Accounted, Placed, Balanced, Filled, Ended, Kept, TypeOK,
       Finish, FlushDone, Exit, Goto, At, fixed, std, used
<1> QED BY <1>1, <1>2, <1>3, QuietStepOf DEF Finish, FlushDone, Exit, Goto

\* stdout fails: exit 74.
LEMMA StdoutFailsKeeps ==
  ASSUME OutInv, NEW q \in Procs, StdoutFails(q)
  PROVE  OutInv'
<1>0. Mine(q) /\ TypeOK BY DEF OutInv
<1>1. TypeOK' BY <1>0, OutputConstants DEF TypeOK, StdoutFails, StdoutLost, Fault, Exit, Goto, fixed, std, used
<1>2. \A p \in Procs \ {q} : Same(p) BY <1>0 DEF Same, TypeOK, StdoutFails, StdoutLost, Fault, Exit, Goto, fixed, std, used
<1>3. sink[q] < Units
  BY <1>0, OutputConstants DEF Mine, Placed, Balanced, TypeOK, StdoutFails, StdoutLost, At
<1>4. /\ pc'[q] = "done" /\ code'[q] = 74 /\ tmp'[q] = NoTmp /\ buf'[q] = 0
      /\ left' = left /\ sink' = sink /\ todo' = todo /\ made' = made /\ failed' = failed /\ cmd' = cmd /\ disk' = disk
  BY <1>0 DEF TypeOK, StdoutFails, StdoutLost, Exit, Goto, fixed
<1>5. Balanced(q)'
  <2>1. left[q] \in Nat /\ buf[q] \in Nat /\ sink[q] \in Nat /\ left[q] + buf[q] + sink[q] <= Units
    BY <1>0 DEF TypeOK, Mine, Balanced
  <2>2. left[q] + 0 + sink[q] <= Units BY <2>1, OutputConstants
  <2> QED BY <1>4, <2>2 DEF Balanced
<1>6. Ended(q)' BY <1>3, <1>4 DEF Ended
<1>7. (Accounted(q) /\ Placed(q) /\ Filled(q) /\ Kept(q))' BY <1>0, <1>4 DEF Mine, Accounted, Placed, Filled, Kept, Whole
<1>8. Mine(q)' BY <1>5, <1>6, <1>7 DEF Mine
<1> QED BY <1>1, <1>2, <1>4, <1>8, QuietStepOf

\* The reader is gone: exit 74.
LEMMA BrokenPipeKeeps ==
  ASSUME OutInv, NEW q \in Procs, BrokenPipe(q)
  PROVE  OutInv'
<1>0. Mine(q) /\ TypeOK BY DEF OutInv
<1>1. TypeOK' BY <1>0, OutputConstants DEF TypeOK, BrokenPipe, StdoutLost, Exit, Goto, fixed, std, used
<1>2. \A p \in Procs \ {q} : Same(p) BY <1>0 DEF Same, TypeOK, BrokenPipe, StdoutLost, Exit, Goto, fixed, std, used
<1>3. sink[q] < Units
  BY <1>0, OutputConstants DEF Mine, Placed, Balanced, TypeOK, BrokenPipe, StdoutLost, At
<1>4. /\ pc'[q] = "done" /\ code'[q] = 74 /\ tmp'[q] = NoTmp /\ buf'[q] = 0
      /\ left' = left /\ sink' = sink /\ todo' = todo /\ made' = made /\ failed' = failed /\ cmd' = cmd /\ disk' = disk
  BY <1>0 DEF TypeOK, BrokenPipe, StdoutLost, Exit, Goto, fixed
<1>5. Balanced(q)'
  <2>1. left[q] \in Nat /\ buf[q] \in Nat /\ sink[q] \in Nat /\ left[q] + buf[q] + sink[q] <= Units
    BY <1>0 DEF TypeOK, Mine, Balanced
  <2>2. left[q] + 0 + sink[q] <= Units BY <2>1, OutputConstants
  <2> QED BY <1>4, <2>2 DEF Balanced
<1>6. Ended(q)' BY <1>3, <1>4 DEF Ended
<1>7. (Accounted(q) /\ Placed(q) /\ Filled(q) /\ Kept(q))' BY <1>0, <1>4 DEF Mine, Accounted, Placed, Filled, Kept, Whole
<1>8. Mine(q)' BY <1>5, <1>6, <1>7 DEF Mine
<1> QED BY <1>1, <1>2, <1>4, <1>8, QuietStepOf

\* The reader reads.
LEMMA DrainKeeps ==
  ASSUME OutInv, NEW q \in Procs, Drain(q)
  PROVE  OutInv'
<1>0. Mine(q) /\ TypeOK BY DEF OutInv
<1>1. TypeOK' BY <1>0, OutputConstants DEF TypeOK, Drain, fixed, std, used
<1>2. \A p \in Procs \ {q} : Same(p) BY <1>0 DEF Same, TypeOK, Drain, fixed, std, used
<1>3. Mine(q)'
  BY <1>0, OutputConstants DEF Mine, Accounted, Placed, Balanced, Filled, Ended, Kept, TypeOK,
       Drain, At, fixed, std, used
<1> QED BY <1>1, <1>2, <1>3, QuietStepOf DEF Drain

\* The reader goes away.
LEMMA ReaderGoneKeeps ==
  ASSUME OutInv, NEW q \in Procs, ReaderGone(q)
  PROVE  OutInv'
<1>0. Mine(q) /\ TypeOK BY DEF OutInv
<1>1. TypeOK' BY <1>0, OutputConstants DEF TypeOK, ReaderGone, fixed, std, used
<1>2. \A p \in Procs \ {q} : Same(p) BY <1>0 DEF Same, TypeOK, ReaderGone, fixed, std, used
<1>3. Mine(q)'
  BY <1>0, OutputConstants DEF Mine, Accounted, Placed, Balanced, Filled, Ended, Kept, TypeOK,
       ReaderGone, At, fixed, std, used
<1> QED BY <1>1, <1>2, <1>3, QuietStepOf DEF ReaderGone

\* The process is killed.
LEMMA KillKeeps ==
  ASSUME OutInv, NEW q \in Procs, Kill(q)
  PROVE  OutInv'
<1>0. Mine(q) /\ TypeOK BY DEF OutInv
<1>1. TypeOK' BY <1>0, OutputConstants DEF TypeOK, Kill, Goto, fixed, std, used
<1>2. \A p \in Procs \ {q} : Same(p) BY <1>0 DEF Same, TypeOK, Kill, Goto, fixed, std, used
<1>3. Mine(q)'
  BY <1>0, OutputConstants DEF Mine, Accounted, Placed, Balanced, Filled, Ended, Kept, TypeOK,
       Kill, Goto, At, fixed, std, used
<1> QED BY <1>1, <1>2, <1>3, QuietStepOf DEF Kill, Goto

\* The temporary file is created, or a pipe is opened.
LEMMA OpenTargetKeeps ==
  ASSUME OutInv, NEW q \in Procs, OpenTarget(q)
  PROVE  OutInv'
<1>0. Mine(q) /\ TypeOK BY DEF OutInv
<1>1. /\ ~ Refused(q) /\ pc[q] = "target"
      /\ \/ Special(q) /\ pc' = [pc EXCEPT ![q] = "direct"] /\ tmp' = tmp
         \/ pc' = [pc EXCEPT ![q] = "fill"] /\ tmp' = [tmp EXCEPT ![q] = << >>]
  BY DEF OpenTarget, Goto, At
<1>2. << >> \in Seq(Procs) /\ << >> \in Seq({q}) /\ Len(<< >>) = 0 BY EmptySeq
<1>3. TypeOK'
  <2>0. tmp \in [Procs -> Chunks \cup {NoTmp}]
        /\ pc \in [Procs -> {"start", "target", "direct", "fill", "commit", "link", "text", "write", "flush", "done", "killed"}]
    BY <1>0 DEF TypeOK
  <2>1. << >> \in Chunks \cup {NoTmp} BY <1>2 DEF Chunks
  <2>2. CASE pc' = [pc EXCEPT ![q] = "direct"] /\ tmp' = tmp
    BY <1>0, <2>0, <2>2 DEF TypeOK, OpenTarget, fixed, std, used
  <2>3. CASE pc' = [pc EXCEPT ![q] = "fill"] /\ tmp' = [tmp EXCEPT ![q] = << >>]
    <3>1. tmp' \in [Procs -> Chunks \cup {NoTmp}] BY <2>0, <2>1, <2>3
    <3>2. pc' \in [Procs -> {"start", "target", "direct", "fill", "commit", "link", "text", "write", "flush", "done", "killed"}]
      BY <2>0, <2>3
    <3> QED BY <1>0, <3>1, <3>2 DEF TypeOK, OpenTarget, fixed, std, used
  <2> QED BY <1>1, <2>2, <2>3
<1>4. \A p \in Procs \ {q} : Same(p) BY <1>0, <1>1 DEF Same, TypeOK, OpenTarget, fixed, std, used
<1>5. \/ pc'[q] = "direct" /\ Special(q)
      \/ pc'[q] = "fill" /\ tmp'[q] = << >>
  BY <1>0, <1>1 DEF TypeOK
<1>6. (Accounted(q) /\ Balanced(q) /\ Ended(q))'
  BY <1>0, <1>1, <1>5 DEF Mine, Accounted, Balanced, Ended, OpenTarget, fixed, std
<1>7. Filled(q)'
  <2>1. 0 <= Units BY OutputConstants
  <2>2. CASE pc'[q] = "direct" BY <2>2 DEF Filled
  <2>3. CASE pc'[q] = "fill" /\ tmp'[q] = << >> BY <1>2, <2>1, <2>3 DEF Filled
  <2> QED BY <1>5, <2>2, <2>3
<1>8. Placed(q)' BY <1>0, <1>1, <1>5 DEF Mine, Placed, Special, OpenTarget, fixed, std
<1>9. Kept(q)'
  <2>1. cmd[q] # "keygen" => Path(q) = "out" BY <1>0, <1>1 DEF Mine, Accounted, Placed, Path
  <2>2. cmd[q] # "keygen" => disk["out"].kind # "readonly" BY <1>1, <2>1 DEF Refused
  <2> QED BY <1>0, <2>2 DEF Mine, Kept, OpenTarget, fixed, Whole
<1> QED BY <1>3, <1>4, <1>6, <1>7, <1>8, <1>9, QuietStepOf DEF Mine, OpenTarget

\* A write to the temporary file takes some of the remaining units.
LEMMA FillTmpKeeps ==
  ASSUME OutInv, NEW q \in Procs, FillTmp(q)
  PROVE  OutInv'
<1>0. Mine(q) /\ TypeOK BY DEF OutInv
<1>1. tmp[q] \in Seq({q}) /\ Len(tmp[q]) <= Units /\ Len(tmp[q]) \in Nat
  BY <1>0, LenProperties DEF Mine, Filled, FillTmp, At
<1>2. PICK n \in 1..(Units - Len(tmp[q])) : tmp' = [tmp EXCEPT ![q] = @ \o [i \in 1..n |-> q]] BY DEF FillTmp
<1>3. n \in Nat /\ Len(tmp[q]) + n <= Units BY <1>1, <1>2, OutputConstants
<1>4. [i \in 1..n |-> q] \in Seq({q}) /\ Len([i \in 1..n |-> q]) = n BY <1>3, IsASeq
<1> DEFINE t == tmp[q] \o [i \in 1..n |-> q]
<1>5. t \in Seq({q}) /\ Len(t) <= Units BY <1>1, <1>3, <1>4, ConcatProperties
<1>6. t \in Chunks
  <2>1. {q} \subseteq Procs OBVIOUS
  <2> QED BY <1>5, <2>1, SeqMonotonic DEF Chunks
<1>7. tmp' = [tmp EXCEPT ![q] = t] BY <1>2
<1> HIDE DEF t
<1>8. tmp'[q] = t /\ tmp' \in [Procs -> Chunks \cup {NoTmp}] BY <1>0, <1>6, <1>7 DEF TypeOK
<1>9. TypeOK' BY <1>0, <1>8 DEF TypeOK, FillTmp, fixed, std, used
<1>10. \A p \in Procs \ {q} : Same(p) BY <1>0, <1>7 DEF Same, TypeOK, FillTmp, fixed, std, used
<1>11. (Accounted(q) /\ Balanced(q) /\ Ended(q) /\ Placed(q) /\ Kept(q))'
  BY <1>0 DEF Mine, Accounted, Balanced, Ended, Placed, Kept, FillTmp, At, fixed, std, Whole
<1>12. Filled(q)' BY <1>5, <1>8 DEF Filled, FillTmp, At
<1> QED BY <1>9, <1>10, <1>11, <1>12, QuietStepOf DEF Mine, FillTmp

-----------------------------------------------------------------------------
(* The steps that change the disk *)

\* A file that was delivered is struck off the list, and the command goes on to
\* the next file or to stdout.
LEMMA DeliveredAccounted ==
  ASSUME TypeOK, NEW q \in Procs, Accounted(q), todo[q] # << >>, Delivered(q), cmd' = cmd
  PROVE  /\ Accounted(q)'
         /\ Path(q) \in Paths /\ (cmd[q] # "keygen" => Path(q) = "out")
         /\ cmd[q] = "keygen" => Path(q) # "out" /\ Path(q) \notin made[q]
         /\ made'[q] = made[q] \cup {Path(q)} /\ made' \in [Procs -> SUBSET Paths]
         /\ todo' \in [Procs -> {<<"key", "pq">>, <<"pq">>, <<"out">>, << >>}]
         /\ tmp'[q] = NoTmp /\ tmp' \in [Procs -> Chunks \cup {NoTmp}]
         /\ pc'[q] = IF todo'[q] = << >> THEN "text" ELSE "target"
         /\ pc' \in [Procs -> {"start", "target", "direct", "fill", "commit", "link", "text", "write", "flush", "done", "killed"}]
<1>1. tmp'[q] = NoTmp /\ tmp' \in [Procs -> Chunks \cup {NoTmp}] BY DEF Delivered, TypeOK
<1>2. /\ made'[q] = made[q] \cup {Path(q)} /\ todo'[q] = Tail(todo[q])
      /\ pc'[q] = IF Len(todo[q]) > 1 THEN "target" ELSE "text"
  BY DEF Delivered, Goto, TypeOK
<1>3. CASE cmd[q] = "keygen" /\ todo[q] = <<"key", "pq">> /\ made[q] = {}
  <2>1. Path(q) = "key" /\ Tail(todo[q]) = <<"pq">> /\ Len(todo[q]) = 2 BY <1>3 DEF Path
  <2> QED BY <1>1, <1>2, <1>3, <2>1 DEF Accounted, Delivered, Goto, TypeOK, Paths
<1>4. CASE cmd[q] = "keygen" /\ todo[q] = <<"pq">> /\ made[q] = {"key"}
  <2>1. Path(q) = "pq" /\ Tail(todo[q]) = << >> /\ Len(todo[q]) = 1 BY <1>4 DEF Path
  <2> QED BY <1>1, <1>2, <1>4, <2>1 DEF Accounted, Delivered, Goto, TypeOK, Paths
<1>5. CASE cmd[q] # "keygen" /\ todo[q] = <<"out">> /\ made[q] = {}
  <2>1. Path(q) = "out" /\ Tail(todo[q]) = << >> /\ Len(todo[q]) = 1 BY <1>5 DEF Path
  <2> QED BY <1>1, <1>2, <1>5, <2>1 DEF Accounted, Delivered, Goto, TypeOK, Paths
<1> QED BY <1>3, <1>4, <1>5 DEF Accounted

\* Units given to a pipe or a device change nothing else.
LEMMA ToSpecialDisk ==
  ASSUME TypeOK, PromisedWhole, Piped, NEW u \in Chunks, ToSpecial(u)
  PROVE  /\ disk' \in [Paths -> [kind : Kinds, val : Chunks \cup {Old}]]
         /\ DiskStep /\ PromisedWhole' /\ Piped'
         /\ \A f \in Paths : disk'[f].kind = disk[f].kind
         /\ \A f \in Paths : f # "out" => disk'[f] = disk[f]
<1>0. disk \in [Paths -> [kind : Kinds, val : Chunks \cup {Old}]] /\ "out" \in Paths BY DEF TypeOK, Paths
<1>1. CASE disk["out"].kind # "fifo"
  <2>1. disk' = disk BY <1>1 DEF ToSpecial
  <2> QED BY <1>0, <2>1 DEF DiskStep, PromisedWhole, Piped, Whole
<1>2. CASE disk["out"].kind = "fifo"
  <2> DEFINE v == disk["out"].val \o u
             r == [kind |-> "fifo", val |-> v]
  <2>1. v \in Chunks BY <1>0, <1>2, ConcatProperties DEF Piped, Chunks
  <2>2. disk' = [disk EXCEPT !["out"] = r]
    <3>1. disk' = [disk EXCEPT !["out"].val = @ \o u] BY <1>2 DEF ToSpecial
    <3>2. ASSUME NEW d \in [kind : Kinds, val : Chunks \cup {Old}], NEW x
          PROVE  [d EXCEPT !.val = x] = [kind |-> d.kind, val |-> x]
      OBVIOUS
    <3>3. disk["out"] \in [kind : Kinds, val : Chunks \cup {Old}] BY <1>0
    <3>4. [disk["out"] EXCEPT !.val = v] = r BY <1>2, <3>2, <3>3
    <3> QED BY <3>1, <3>4
  <2> HIDE DEF v
  <2>3. r \in [kind : Kinds, val : Chunks \cup {Old}] BY <2>1 DEF Kinds
  <2>4. disk' \in [Paths -> [kind : Kinds, val : Chunks \cup {Old}]] BY <1>0, <2>2, <2>3
  <2>5. disk'["out"] = r /\ \A f \in Paths : f # "out" => disk'[f] = disk[f] BY <1>0, <2>2
  <2>6. \A f \in Paths : disk'[f].kind = disk[f].kind BY <1>2, <2>5
  <2>7. DiskStep BY <1>2, <2>5, <2>6 DEF DiskStep
  <2>8. PromisedWhole' BY <1>2, <2>5 DEF PromisedWhole, Whole
  <2>9. Piped' BY <2>1, <2>5 DEF Piped
  <2> QED BY <2>4, <2>5, <2>6, <2>7, <2>8, <2>9
<1> QED BY <1>1, <1>2

\* A whole outcome put at a path that is neither read-only nor a key file.
LEMMA PlaceDisk ==
  ASSUME TypeOK, PromisedWhole, Piped, NEW q \in Procs, NEW f \in Paths,
         disk[f].kind # "readonly", f = "out" \/ disk[f].kind = "none",
         disk' = [disk EXCEPT ![f] = [kind |-> "file", val |-> Whole(q)]]
  PROVE  /\ disk' \in [Paths -> [kind : Kinds, val : Chunks \cup {Old}]]
         /\ DiskStep /\ PromisedWhole' /\ Piped'
         /\ disk'[f].kind = "file" /\ disk'[f].val = Whole(q)
         /\ \A g \in Paths : g # f => disk'[g] = disk[g]
<1>0. disk \in [Paths -> [kind : Kinds, val : Chunks \cup {Old}]] BY DEF TypeOK
<1>1. Whole(q) \in Chunks BY IsASeq, OutputConstants DEF Whole, Chunks
<1> DEFINE w == Whole(q)
<1>2. w \in Chunks /\ w \in {Whole(p) : p \in Procs} /\ disk' = [disk EXCEPT ![f] = [kind |-> "file", val |-> w]] BY <1>1
<1>3. w = Whole(q) OBVIOUS
<1> HIDE DEF w
<1>4. [kind |-> "file", val |-> w] \in [kind : Kinds, val : Chunks \cup {Old}] BY <1>2 DEF Kinds
<1>5. disk' \in [Paths -> [kind : Kinds, val : Chunks \cup {Old}]] BY <1>0, <1>2, <1>4
<1>6. disk'[f] = [kind |-> "file", val |-> w] /\ \A g \in Paths : g # f => disk'[g] = disk[g] BY <1>0, <1>2
<1>7. DiskStep BY <1>6 DEF DiskStep
<1>8. PromisedWhole'
  <2>1. ASSUME NEW g \in Paths, disk'[g].kind \in {"file", "readonly"}
        PROVE  disk'[g].val \in {Old} \cup {Whole(p) : p \in Procs}
    <3>1. CASE g = f BY <1>2, <1>6, <3>1
    <3>2. CASE g # f BY <1>6, <2>1, <3>2 DEF PromisedWhole
    <3> QED BY <3>1, <3>2
  <2> QED BY <2>1 DEF PromisedWhole, Whole
<1>9. Piped' BY <1>6 DEF Piped
<1> QED BY <1>3, <1>5, <1>6, <1>7, <1>8, <1>9

\* A file delivered by q leaves q in order, whatever was done to the disk for it.
LEMMA DeliveredMine ==
  ASSUME TypeOK, NEW q \in Procs, Mine(q), pc[q] \in {"direct", "commit", "link"}, Delivered(q), DiskStep,
         UNCHANGED <<fixed, failed, std, code, used>>,
         cmd[q] = "keygen" => disk'[Path(q)].kind = "file" /\ disk'[Path(q)].val = Whole(q)
  PROVE  Mine(q)' /\ \A p \in Procs \ {q} : Same(p)
<1>1. Accounted(q) /\ todo[q] # << >> /\ ~ failed[q] /\ left[q] = Units /\ cmd' = cmd BY DEF Mine, Placed, fixed
<1>2. /\ Accounted(q)' /\ tmp'[q] = NoTmp
      /\ pc'[q] = IF todo'[q] = << >> THEN "text" ELSE "target"
      /\ made'[q] = made[q] \cup {Path(q)} BY <1>1, DeliveredAccounted
<1>3. Placed(q)' BY <1>1, <1>2 DEF Placed, std
<1>4. Balanced(q)' BY <1>2 DEF Mine, Balanced, std
<1>5. Filled(q)' BY <1>2 DEF Filled
<1>6. Ended(q)'
  <2>1. code'[q] = -1 BY DEF Mine, Ended
  <2> QED BY <1>2, <2>1 DEF Ended
<1>7. Kept(q)'
  <2>1. cmd[q] = "keygen" => made[q] \subseteq {"key", "pq"} BY <1>1 DEF Accounted
  <2>2. ASSUME cmd'[q] = "keygen", NEW f \in made'[q] PROVE disk'[f].kind = "file" /\ disk'[f].val = Whole(q)
    <3>1. CASE f = Path(q) BY <1>1, <2>2, <3>1
    <3>2. CASE f \in made[q]
      <4>1. f \in Paths /\ f # "out" BY <1>1, <2>1, <2>2, <3>2 DEF Paths
      <4>2. disk[f].kind = "file" /\ disk[f].val = Whole(q) BY <1>1, <2>2, <3>2 DEF Mine, Kept
      <4> QED BY <4>1, <4>2 DEF DiskStep
    <3> QED BY <1>2, <2>2, <3>1, <3>2
  <2> QED BY <1>2, <2>2 DEF Kept, Whole
<1>8. \A p \in Procs \ {q} : Same(p) BY DEF Same, Delivered, Goto, TypeOK, fixed, std
<1> QED BY <1>2, <1>3, <1>4, <1>5, <1>6, <1>7, <1>8 DEF Mine

\* The types after a delivery.
LEMMA DeliveredType ==
  ASSUME TypeOK, NEW q \in Procs, Accounted(q), todo[q] # << >>, Delivered(q),
         disk' \in [Paths -> [kind : Kinds, val : Chunks \cup {Old}]], UNCHANGED <<fixed, failed, std, code, used>>
  PROVE  TypeOK'
<1>1. cmd' = cmd BY DEF fixed
<1> QED BY <1>1, DeliveredAccounted DEF TypeOK, fixed, std, used

\* The whole outcome is written to a pipe or a device.
LEMMA DirectWriteKeeps ==
  ASSUME OutInv, NEW q \in Procs, DirectWrite(q)
  PROVE  OutInv'
<1>0. /\ Mine(q) /\ TypeOK /\ PromisedWhole /\ Piped /\ pc[q] = "direct"
      /\ ToSpecial(Whole(q)) /\ Delivered(q) /\ UNCHANGED <<fixed, failed, std, code, used>>
  BY DEF OutInv, DirectWrite, At
<1>1. Whole(q) \in Chunks BY IsASeq, OutputConstants DEF Whole, Chunks
<1>2. disk' \in [Paths -> [kind : Kinds, val : Chunks \cup {Old}]] /\ DiskStep /\ PromisedWhole' /\ Piped'
  BY <1>0, <1>1, ToSpecialDisk
<1>3. Accounted(q) /\ todo[q] # << >> /\ cmd[q] # "keygen" BY <1>0 DEF Mine, Placed
<1>4. TypeOK' BY <1>0, <1>2, <1>3, DeliveredType
<1>5. Mine(q)' /\ \A p \in Procs \ {q} : Same(p) BY <1>0, <1>2, <1>3, DeliveredMine
<1> QED BY <1>2, <1>4, <1>5, StepOf

\* os.replace puts the temporary file at its path.
LEMMA CommitKeeps ==
  ASSUME OutInv, NEW q \in Procs, Commit(q)
  PROVE  OutInv'
<1>0. /\ Mine(q) /\ TypeOK /\ PromisedWhole /\ Piped /\ pc[q] = "commit"
      /\ Delivered(q) /\ UNCHANGED <<fixed, failed, std, code, used>>
      /\ disk' = [disk EXCEPT ![Path(q)] = [kind |-> "file", val |-> tmp[q]]]
  BY DEF OutInv, Commit, At
<1>1. Accounted(q) /\ todo[q] # << >> /\ cmd[q] # "keygen" /\ tmp[q] = Whole(q) /\ disk["out"].kind # "readonly"
  BY <1>0 DEF Mine, Placed, Filled, Kept
<1>2. Path(q) = "out" /\ "out" \in Paths BY <1>1 DEF Accounted, Path, Paths
<1>3. disk' \in [Paths -> [kind : Kinds, val : Chunks \cup {Old}]] /\ DiskStep /\ PromisedWhole' /\ Piped'
  BY <1>0, <1>1, <1>2, PlaceDisk
<1>4. TypeOK' BY <1>0, <1>1, <1>3, DeliveredType
<1>5. Mine(q)' /\ \A p \in Procs \ {q} : Same(p) BY <1>0, <1>1, <1>3, DeliveredMine
<1> QED BY <1>3, <1>4, <1>5, StepOf

\* os.link puts a new key file at its path.
LEMMA LinkKeeps ==
  ASSUME OutInv, NEW q \in Procs, Link(q)
  PROVE  OutInv'
<1>0. /\ Mine(q) /\ TypeOK /\ PromisedWhole /\ Piped /\ pc[q] = "link" /\ disk[Path(q)].kind = "none"
      /\ Delivered(q) /\ UNCHANGED <<fixed, failed, std, code, used>>
      /\ disk' = [disk EXCEPT ![Path(q)] = [kind |-> "file", val |-> tmp[q]]]
  BY DEF OutInv, Link, At
<1>1. Accounted(q) /\ todo[q] # << >> /\ cmd[q] = "keygen" /\ tmp[q] = Whole(q) BY <1>0 DEF Mine, Placed, Filled
<1>2. Path(q) \in Paths BY <1>1 DEF Accounted, Path, Paths
<1>3. disk' \in [Paths -> [kind : Kinds, val : Chunks \cup {Old}]] /\ DiskStep /\ PromisedWhole' /\ Piped'
      /\ disk'[Path(q)].kind = "file" /\ disk'[Path(q)].val = Whole(q)
  BY <1>0, <1>1, <1>2, PlaceDisk
<1>4. TypeOK' BY <1>0, <1>1, <1>3, DeliveredType
<1>5. Mine(q)' /\ \A p \in Procs \ {q} : Same(p) BY <1>0, <1>1, <1>3, DeliveredMine
<1> QED BY <1>3, <1>4, <1>5, StepOf

\* A call on the file fails: the path keeps what it had.
LEMMA FileFailsKeeps ==
  ASSUME OutInv, NEW q \in Procs, FileFails(q)
  PROVE  OutInv'
<1>0. /\ Mine(q) /\ TypeOK /\ PromisedWhole /\ Piped /\ pc[q] \in {"target", "fill", "commit", "link", "direct"}
      /\ NotWritten(q) /\ UNCHANGED <<fixed, todo, std, made>>
      /\ faults' \in 0..MaxFaults /\ kills' = kills
  BY OutputConstants DEF OutInv, FileFails, Fault, TypeOK
<1>1. disk' \in [Paths -> [kind : Kinds, val : Chunks \cup {Old}]] /\ DiskStep /\ PromisedWhole' /\ Piped'
      /\ \A f \in Paths : f # "out" => disk'[f] = disk[f]
  <2>1. CASE disk' = disk BY <1>0, <2>1 DEF TypeOK, DiskStep, PromisedWhole, Piped, Whole
  <2>2. ASSUME NEW n \in 0..(Units - 1), ToSpecial([i \in 1..n |-> q])
        PROVE  disk' \in [Paths -> [kind : Kinds, val : Chunks \cup {Old}]] /\ DiskStep /\ PromisedWhole' /\ Piped'
               /\ \A f \in Paths : f # "out" => disk'[f] = disk[f]
    <3>1. n \in Nat BY OutputConstants
    <3>2. [i \in 1..n |-> q] \in Chunks BY <3>1, IsASeq DEF Chunks
    <3> QED BY <1>0, <2>2, <3>2, ToSpecialDisk
  <2> QED BY <2>1, <2>2 DEF FileFails
<1>2. TypeOK' BY <1>0, <1>1, NotWrittenType DEF TypeOK, fixed, std
<1>3. \A p \in Procs \ {q} : Same(p) BY <1>0 DEF Same, NotWritten, Exit, Goto, TypeOK, fixed, std
<1>4. failed'[q] /\ tmp'[q] = NoTmp BY <1>0 DEF NotWritten, Exit, TypeOK
<1>5. \/ cmd[q] = "verify" /\ pc'[q] = "text" /\ code' = code
      \/ cmd[q] # "verify" /\ pc'[q] = "done" /\ code'[q] = 74
  BY <1>0 DEF NotWritten, Exit, Goto, TypeOK
<1>6. todo[q] # << >> /\ left[q] = Units /\ code[q] = -1 BY <1>0 DEF Mine, Placed, Ended
<1>7. Accounted(q)' BY <1>0 DEF Mine, Accounted, fixed
<1>8. Placed(q)' BY <1>0, <1>4, <1>5, <1>6 DEF Placed, fixed, std
<1>9. Balanced(q)' BY <1>0, <1>5 DEF Mine, Balanced, fixed, std
<1>10. Filled(q)' BY <1>5 DEF Filled
<1>11. Ended(q)' BY <1>0, <1>4, <1>5, <1>6 DEF Ended, fixed
<1>12. Kept(q)'
  <2>1. cmd[q] = "keygen" => \A f \in made[q] : f \in Paths /\ f # "out" BY <1>0 DEF Mine, Accounted, Paths
  <2> QED BY <1>0, <1>1, <1>5, <2>1 DEF Mine, Kept, fixed, Whole
<1> QED BY <1>1, <1>2, <1>3, <1>7, <1>8, <1>9, <1>10, <1>11, <1>12, StepOf DEF Mine

-----------------------------------------------------------------------------
(* The theorems *)

\* No step of any command touches a key file or a read-only file.
LEMMA NextDisk ==
  ASSUME OutInv, Next
  PROVE  DiskStep
<1>1. TypeOK /\ PromisedWhole /\ Piped /\ \A p \in Procs : Mine(p) BY DEF OutInv
<1>2. ASSUME disk' = disk PROVE DiskStep BY <1>2 DEF DiskStep
<1>3. ASSUME NEW q \in Procs, DirectWrite(q) PROVE DiskStep
  <2>1. Whole(q) \in Chunks BY IsASeq, OutputConstants DEF Whole, Chunks
  <2> QED BY <1>1, <1>3, <2>1, ToSpecialDisk DEF DirectWrite
<1>4. ASSUME NEW q \in Procs, Commit(q) PROVE DiskStep
  <2>1. /\ todo[q] # << >> /\ cmd[q] # "keygen" /\ tmp[q] = Whole(q) /\ disk["out"].kind # "readonly"
        /\ disk' = [disk EXCEPT ![Path(q)] = [kind |-> "file", val |-> tmp[q]]]
    BY <1>1, <1>4 DEF Mine, Placed, Filled, Kept, Commit, At
  <2>2. Path(q) = "out" /\ "out" \in Paths BY <1>1, <2>1 DEF Mine, Accounted, Path, Paths
  <2> QED BY <1>1, <2>1, <2>2, PlaceDisk
<1>5. ASSUME NEW q \in Procs, Link(q) PROVE DiskStep
  <2>1. /\ todo[q] # << >> /\ cmd[q] = "keygen" /\ tmp[q] = Whole(q) /\ disk[Path(q)].kind = "none"
        /\ disk' = [disk EXCEPT ![Path(q)] = [kind |-> "file", val |-> tmp[q]]]
    BY <1>1, <1>5 DEF Mine, Placed, Filled, Link, At
  <2>2. Path(q) \in Paths BY <1>1, <2>1 DEF Mine, Accounted, Path, Paths
  <2> QED BY <1>1, <2>1, <2>2, PlaceDisk
<1>6. ASSUME NEW q \in Procs, FileFails(q) PROVE DiskStep
  <2>1. ASSUME NEW n \in 0..(Units - 1), ToSpecial([i \in 1..n |-> q]) PROVE DiskStep
    <3>1. n \in Nat BY OutputConstants
    <3>2. [i \in 1..n |-> q] \in Chunks BY <3>1, IsASeq DEF Chunks
    <3> QED BY <1>1, <2>1, <3>2, ToSpecialDisk
  <2> QED BY <1>2, <1>6, <2>1 DEF FileFails
<1>7. ASSUME NEW q \in Procs, Deliver(q) PROVE DiskStep
  BY <1>2, <1>3, <1>4, <1>5, <1>7
     DEF Deliver, KeygenRefuses, Start, RefuseTarget, OpenTarget, FillTmp, SyncTmp, LinkExists, FlushText,
         TakeRaw, TakeBuffered, AllTaken, FlushSome, Finish, BrokenPipe, StdoutLost
<1>8. ASSUME NEW q \in Procs,
             Drain(q) \/ FileFails(q) \/ SourceFails(q) \/ StdoutFails(q) \/ ReaderGone(q) \/ Kill(q)
      PROVE  DiskStep
  BY <1>2, <1>6, <1>8 DEF Drain, SourceFails, StdoutFails, StdoutLost, ReaderGone, Kill
<1> QED BY <1>7, <1>8 DEF Next

\* Every step keeps OutInv.
LEMMA OutStep == OutInv /\ [Next]_vars => OutInv'
<1> SUFFICES ASSUME OutInv, [Next]_vars PROVE OutInv'
  OBVIOUS
<1>1. CASE UNCHANGED vars
  <2> USE <1>1 DEF vars, fixed, std, used
  <2>1. TypeOK' BY DEF OutInv, TypeOK
  <2>2. PromisedWhole' /\ Piped' BY DEF OutInv, PromisedWhole, Piped, Whole
  <2>3. ASSUME NEW p \in Procs PROVE Mine(p)'
    <3>1. Same(p) /\ DiskStep BY DEF Same, DiskStep
    <3> QED BY <3>1, OthersKeep
  <2> QED BY <2>1, <2>2, <2>3 DEF OutInv
<1>2. ASSUME NEW q \in Procs, Deliver(q) PROVE OutInv'
  BY <1>2, KeygenRefusesKeeps, StartKeeps, RefuseTargetKeeps, OpenTargetKeeps, DirectWriteKeeps, FillTmpKeeps,
     SyncTmpKeeps, CommitKeeps, LinkKeeps, LinkExistsKeeps, FlushTextKeeps, TakeRawKeeps, TakeBufferedKeeps,
     AllTakenKeeps, FlushSomeKeeps, FinishKeeps, BrokenPipeKeeps DEF Deliver
<1>3. ASSUME NEW q \in Procs,
             Drain(q) \/ FileFails(q) \/ SourceFails(q) \/ StdoutFails(q) \/ ReaderGone(q) \/ Kill(q)
      PROVE  OutInv'
  BY <1>3, DrainKeeps, FileFailsKeeps, SourceFailsKeeps, StdoutFailsKeeps, ReaderGoneKeeps, KillKeeps
<1> QED BY <1>1, <1>2, <1>3 DEF Next

\* OutInv holds at the start.
LEMMA OutInit == Init => OutInv
<1> SUFFICES ASSUME Init PROVE OutInv
  OBVIOUS
<1>1. << >> \in Chunks BY EmptySeq DEF Chunks
<1>2. PICK k \in [Paths -> Kinds] :
        disk = [f \in Paths |-> [kind |-> k[f], val |-> IF k[f] \in {"file", "readonly"} THEN Old ELSE << >>]]
  <2>1. PICK out \in Kinds, kf \in {"none", "file"}, pq \in {"none", "file"} :
          disk = [f \in Paths |->
                    LET k == [out |-> out, key |-> kf, pq |-> pq][f]
                    IN  [kind |-> k, val |-> IF k \in {"file", "readonly"} THEN Old ELSE << >>]]
    BY ZenonT(30) DEF Init
  <2>2. [out |-> out, key |-> kf, pq |-> pq] \in [Paths -> Kinds] BY DEF Paths, Kinds
  <2> QED BY <2>1, <2>2
<1>3. disk \in [Paths -> [kind : Kinds, val : Chunks \cup {Old}]] BY <1>1, <1>2
<1>4. PromisedWhole /\ Piped BY <1>1, <1>2 DEF PromisedWhole, Piped
<1>5. TypeOK
  <2>1. todo \in [Procs -> {<<"key", "pq">>, <<"pq">>, <<"out">>, << >>}] BY DEF Init, Targets
  <2> QED BY <1>3, <2>1, OutputConstants DEF Init, TypeOK
<1>6. ASSUME NEW p \in Procs PROVE Mine(p)
  <2>1. todo[p] = Targets(cmd[p]) /\ made[p] = {} BY DEF Init
  <2>2. Accounted(p) BY <2>1 DEF Accounted, Targets
  <2>3. Placed(p) BY <2>1 DEF Init, Placed, Targets
  <2>4. Balanced(p) BY OutputConstants DEF Init, Balanced
  <2>5. Filled(p) /\ Ended(p) /\ Kept(p) BY DEF Init, Filled, Ended, Kept
  <2> QED BY <2>2, <2>3, <2>4, <2>5 DEF Mine
<1> QED BY <1>4, <1>5, <1>6 DEF OutInv

\* OutInv implies that the exit code tells the truth.
LEMMA OutTruthful ==
  ASSUME OutInv
  PROVE  ExitTruthful
<1>1. ASSUME NEW p \in Procs
      PROVE  LET all == sink[p] = Units /\ made[p] = {Targets(cmd[p])[i] : i \in 1..Len(Targets(cmd[p]))}
             IN  /\ code[p] = 74 => ~all
                 /\ code[p] = 0 => all
                 /\ code[p] = 1 /\ cmd[p] = "verify" => all
                 /\ code[p] = 0 /\ cmd[p] = "keygen" => \A f \in {"key", "pq"} : disk[f].val = Whole(p)
                 /\ At(p, "done") => tmp[p] = NoTmp
  <2> DEFINE T == {Targets(cmd[p])[i] : i \in 1..Len(Targets(cmd[p]))}
  <2>1. Mine(p) /\ TypeOK BY DEF OutInv
  <2>2. CASE cmd[p] = "keygen"
    <3>1. T = {"key", "pq"}
      <4>1. Targets(cmd[p]) = <<"key", "pq">> BY <2>2 DEF Targets
      <4>2. 1..Len(<<"key", "pq">>) = {1, 2} OBVIOUS
      <4> QED BY <4>1, <4>2
    <3>2. made[p] = T <=> todo[p] = << >>
      <4> HIDE DEF T
      <4>1. todo[p] # << >> => "pq" \notin made[p] BY <2>1, <2>2 DEF Mine, Accounted
      <4>2. todo[p] = << >> => made[p] = {"key", "pq"} BY <2>1, <2>2 DEF Mine, Accounted
      <4> QED BY <3>1, <4>1, <4>2
    <3>3. todo[p] = << >> => made[p] = {"key", "pq"} BY <2>1, <2>2 DEF Mine, Accounted
    <3> HIDE DEF T
    <3>4. code[p] = 74 => ~ (sink[p] = Units /\ made[p] = T)
      BY <2>1, <3>2, OutputConstants DEF Mine, Ended, TypeOK
    <3>5. code[p] = 0 => sink[p] = Units /\ made[p] = T BY <2>1, <3>2 DEF Mine, Ended
    <3>6. code[p] = 0 => \A f \in {"key", "pq"} : disk[f].val = Whole(p)
      BY <2>1, <2>2, <3>2, <3>3, <3>5 DEF Mine, Kept
    <3> QED BY <2>1, <2>2, <3>4, <3>5, <3>6 DEF Mine, Ended, T, At
  <2>3. CASE cmd[p] # "keygen"
    <3>1. T = {"out"}
      <4>1. Targets(cmd[p]) = <<"out">> BY <2>3 DEF Targets
      <4>2. 1..Len(<<"out">>) = {1} OBVIOUS
      <4> QED BY <4>1, <4>2
    <3>2. made[p] = T <=> todo[p] = << >>
      <4> HIDE DEF T
      <4>1. todo[p] # << >> => "out" \notin made[p] BY <2>1, <2>3 DEF Mine, Accounted
      <4>2. todo[p] = << >> => made[p] = {"out"} BY <2>1, <2>3 DEF Mine, Accounted
      <4> QED BY <3>1, <4>1, <4>2
    <3> HIDE DEF T
    <3>3. code[p] = 74 => ~ (sink[p] = Units /\ made[p] = T)
      BY <2>1, <3>2, OutputConstants DEF Mine, Ended, TypeOK
    <3>4. code[p] = 0 \/ (code[p] = 1 /\ cmd[p] = "verify") => sink[p] = Units /\ made[p] = T
      BY <2>1, <3>2 DEF Mine, Ended
    <3> QED BY <2>1, <2>3, <3>3, <3>4 DEF Mine, Ended, T, At
  <2> QED BY <2>2, <2>3
<1> QED BY <1>1 DEF ExitTruthful

\* The commands, their files and what stdout took stay typed and within bounds.
THEOREM TypeCorrect == Spec => []TypeOK
<1>1. OutInv => TypeOK BY DEF OutInv
<1> QED BY <1>1, OutInit, OutStep, PTL DEF Spec

\* A regular file at a promised path holds, at every moment, what it held before
\* the commands ran or the whole outcome of one of them.
THEOREM WholeOrOld == Spec => []PromisedWhole
<1>1. OutInv => PromisedWhole BY DEF OutInv
<1> QED BY <1>1, OutInit, OutStep, PTL DEF Spec

\* A verdict or a success is given exactly when everything promised was delivered
\* whole, 74 exactly when something was not; no temporary file is left.
THEOREM Truthful == Spec => []ExitTruthful
BY OutTruthful, OutInit, OutStep, PTL DEF Spec

\* A key file at its path, and a file that may not be written, never change.
THEOREM NeverReplaced == Spec => KeysKept
<1>1. ASSUME OutInv, [Next]_vars
      PROVE  [\A f \in Paths :
                disk[f].kind = "readonly" \/ (f # "out" /\ disk[f].kind = "file") => disk'[f] = disk[f]]_vars
  <2>1. SUFFICES ASSUME Next PROVE DiskStep
    BY <1>1 DEF DiskStep
  <2> QED BY <1>1, <2>1, NextDisk
<1> QED BY <1>1, OutInit, OutStep, PTL DEF Spec, KeysKept

-----------------------------------------------------------------------------
(***************************************************************************)
(* Worm: the write-once store                                              *)
(***************************************************************************)

\* Every call leaves in a state of its own.
LEMMA LeaveType ==
  ASSUME WormTypeOK, NEW c \in Callers, Leave(c)
  PROVE  at' \in [Callers -> {"idle", "exists", "link", "blob"}] /\ stale' \subseteq Callers
BY DEF Leave, WormTypeOK

\* Every step of a call keeps the state typed; an object is a key, whole, or absent.
LEMMA TypeStep == WormTypeOK /\ [WormNext]_wormVars => WormTypeOK'
<1> SUFFICES ASSUME WormTypeOK, [WormNext]_wormVars PROVE WormTypeOK'
  OBVIOUS
<1> USE WormConstants
<1>1. ASSUME NEW c \in Callers, NEW r \in Records, NewKey(c, r) PROVE WormTypeOK'
  <2>1. last + 1 \in Numbers BY <1>1 DEF NewKey, WormTypeOK, Numbers
  <2> QED BY <1>1, <2>1 DEF NewKey, WormTypeOK
<1>2. ASSUME NEW c \in Callers, NEW r \in Records, GetKey(c, r) PROVE WormTypeOK'
  BY <1>2 DEF GetKey, WormTypeOK
<1>3. ASSUME NEW c \in Callers, PutExists(c) PROVE WormTypeOK'
  <2>1. CASE object[rid[c]] = 0 BY <1>3, <2>1 DEF PutExists, WormTypeOK
  <2>2. CASE object[rid[c]] # 0 BY <1>3, <2>2, LeaveType DEF PutExists, WormTypeOK
  <2> QED BY <2>1, <2>2
<1>4. ASSUME NEW c \in Callers, PutLink(c) PROVE WormTypeOK'
  <2>1. rid[c] \in Records /\ key[c] \in Numbers BY DEF WormTypeOK
  <2>2. object' \in [Records -> Numbers] /\ receipts' \subseteq Records \X Numbers
    BY <1>4, <2>1 DEF PutLink, WormTypeOK
  <2>3. at' \in [Callers -> {"idle", "exists", "link", "blob"}] /\ stale' \subseteq Callers
    BY <1>4, LeaveType DEF PutLink
  <2> QED BY <1>4, <2>2, <2>3 DEF PutLink, WormTypeOK
<1>5. ASSUME NEW c \in Callers, PutFails(c) PROVE WormTypeOK'
  BY <1>5, LeaveType DEF PutFails, WormTypeOK
<1>6. ASSUME NEW c \in Callers, GetBlob(c) PROVE WormTypeOK'
  <2>1. opened' \subseteq Numbers BY <1>6 DEF GetBlob, WormTypeOK
  <2>2. at' \in [Callers -> {"idle", "exists", "link", "blob"}] /\ stale' \subseteq Callers
    BY <1>6, LeaveType DEF GetBlob
  <2> QED BY <1>6, <2>1, <2>2 DEF GetBlob, WormTypeOK
<1>7. ASSUME NEW r \in Records, Shred(r) PROVE WormTypeOK'
  <2>1. 0 \in Numbers BY DEF Numbers
  <2> QED BY <1>7, <2>1 DEF Shred, WormTypeOK, local
<1>8. CASE UNCHANGED wormVars BY <1>8 DEF wormVars, local, WormTypeOK
<1> QED BY <1>1, <1>2, <1>3, <1>4, <1>5, <1>6, <1>7, <1>8 DEF WormNext

\* The empty store and the empty key ring are typed.
LEMMA TypeInit == WormInit => WormTypeOK
BY WormConstants DEF WormInit, WormTypeOK, Numbers

\* The store and the key ring stay typed.
LEMMA StoreTypeCorrect == WormSpec => []WormTypeOK
<1> QED BY TypeInit, TypeStep, PTL DEF WormSpec

-----------------------------------------------------------------------------
(* Write-once *)

\* Only the link that put makes at a free path changes an object.
LEMMA ObjectStep ==
  ASSUME WormTypeOK, [WormNext]_wormVars
  PROVE  \A r \in Records : object[r] # 0 => object'[r] = object[r]
<1>1. ASSUME NEW c \in Callers, PutLink(c)
      PROVE  \A r \in Records : object[r] # 0 => object'[r] = object[r]
  BY <1>1 DEF PutLink, WormTypeOK
<1>2. CASE UNCHANGED object BY <1>2
<1> QED
  BY <1>1, <1>2 DEF WormNext, NewKey, GetKey, PutExists, PutFails, GetBlob, Shred, wormVars

\* WriteOnce: no interleaving of put's check and link, no failure and no shred
\* changes an object that is in the store.
THEOREM ObjectsAreWrittenOnce == WormSpec => WriteOnce
<1>1. WormTypeOK /\ [WormNext]_wormVars => [\A r \in Records : object[r] # 0 => object'[r] = object[r]]_wormVars
  BY ObjectStep
<1> QED BY <1>1, StoreTypeCorrect, PTL DEF WormSpec, WriteOnce

-----------------------------------------------------------------------------
(* Receipts *)

\* A store that draws a key has one, and what a receipt names is in the store.
ReceiptInv ==
  /\ \A c \in Callers : at[c] \in {"exists", "link"} => key[c] # 0
  /\ \A p \in receipts : p[2] # 0 /\ object[p[1]] = p[2]

\* Every step keeps the receipts true.
LEMMA ReceiptStep ==
  ASSUME WormTypeOK, ReceiptInv, [WormNext]_wormVars
  PROVE  ReceiptInv'
<1> USE WormConstants
<1>1. ASSUME NEW c \in Callers, NEW r \in Records, NewKey(c, r) PROVE ReceiptInv'
  <2>1. last + 1 # 0 BY DEF WormTypeOK, Numbers
  <2> QED BY <1>1, <2>1 DEF NewKey, WormTypeOK, ReceiptInv
<1>2. ASSUME NEW c \in Callers, NEW r \in Records, GetKey(c, r) PROVE ReceiptInv'
  BY <1>2 DEF GetKey, WormTypeOK, ReceiptInv
<1>3. ASSUME NEW c \in Callers, PutExists(c) PROVE ReceiptInv'
  BY <1>3 DEF PutExists, Leave, WormTypeOK, ReceiptInv
<1>4. ASSUME NEW c \in Callers, PutLink(c) PROVE ReceiptInv'
  <2>1. \A d \in Callers : at'[d] \in {"exists", "link"} => key'[d] # 0
    BY <1>4 DEF PutLink, Leave, WormTypeOK, ReceiptInv
  <2>2. rid[c] \in Records /\ key[c] # 0 BY <1>4 DEF PutLink, WormTypeOK, ReceiptInv
  <2>3. ASSUME NEW p \in receipts' PROVE p[2] # 0 /\ object'[p[1]] = p[2]
    <3>1. CASE p \in receipts
      <4>1. p[1] \in Records /\ p[2] # 0 /\ object[p[1]] = p[2] BY <3>1 DEF WormTypeOK, ReceiptInv
      <4> QED BY <4>1, <1>4 DEF PutLink, WormTypeOK
    <3>2. CASE p \notin receipts
      BY <3>2, <2>2, <2>3, <1>4 DEF PutLink, WormTypeOK
    <3> QED BY <3>1, <3>2
  <2> QED BY <2>1, <2>3 DEF ReceiptInv
<1>5. ASSUME NEW c \in Callers, PutFails(c) PROVE ReceiptInv'
  BY <1>5 DEF PutFails, Leave, WormTypeOK, ReceiptInv
<1>6. ASSUME NEW c \in Callers, GetBlob(c) PROVE ReceiptInv'
  BY <1>6 DEF GetBlob, Leave, WormTypeOK, ReceiptInv
<1>7. ASSUME NEW r \in Records, Shred(r) PROVE ReceiptInv'
  BY <1>7 DEF Shred, local, ReceiptInv
<1>8. CASE UNCHANGED wormVars BY <1>8 DEF wormVars, local, ReceiptInv
<1> QED BY <1>1, <1>2, <1>3, <1>4, <1>5, <1>6, <1>7, <1>8 DEF WormNext

\* ReceiptsHold: of stores that race on one record at most the one whose object
\* is in the store was given a receipt, and its digest stays true for ever.
THEOREM ReceiptsAreTrue == WormSpec => []ReceiptsHold
<1>1. WormInit => ReceiptInv BY DEF WormInit, ReceiptInv
<1>2. WormTypeOK /\ ReceiptInv /\ [WormNext]_wormVars => ReceiptInv' BY ReceiptStep
<1>3. ReceiptInv => ReceiptsHold BY DEF ReceiptInv, ReceiptsHold
<1> QED BY <1>1, <1>2, <1>3, StoreTypeCorrect, PTL DEF WormSpec

-----------------------------------------------------------------------------
(* Erasure *)

\* Keys are drawn once each; a key that was shredded is in no key ring any more,
\* and only retrieves that took it before still hold it.
ErasureInv ==
  /\ \A r \in Records : keys[r] <= last
  /\ \A r, s \in Records : keys[r] = keys[s] /\ keys[r] # 0 => r = s
  /\ \A k \in erased : k <= last /\ \A r \in Records : keys[r] # 0 => keys[r] # k
  /\ \A c \in Callers : at[c] = "blob" /\ key[c] \in erased => c \in stale
  /\ opened = {}

\* Every step keeps the erased keys out of reach.
LEMMA ErasureStep ==
  ASSUME WormTypeOK, ErasureInv, [WormNext]_wormVars
  PROVE  ErasureInv'
<1> USE WormConstants
<1>1. ASSUME NEW c \in Callers, NEW r \in Records, NewKey(c, r) PROVE ErasureInv'
  <2>1. /\ last \in Nat /\ last' = last + 1 /\ erased \subseteq Nat
        /\ \A s \in Records : keys[s] \in Nat
    BY <1>1 DEF NewKey, WormTypeOK, Numbers
  <2>2. \A s \in Records : keys'[s] = IF s = r THEN last + 1 ELSE keys[s]
    BY <1>1 DEF NewKey, WormTypeOK
  <2>3. \A s \in Records : keys'[s] <= last' BY <2>1, <2>2 DEF ErasureInv
  <2>4. \A s, u \in Records : keys'[s] = keys'[u] /\ keys'[s] # 0 => s = u
    BY <2>1, <2>2 DEF ErasureInv
  <2>5. \A k \in erased' : k <= last' /\ \A s \in Records : keys'[s] # 0 => keys'[s] # k
    BY <1>1, <2>1, <2>2 DEF NewKey, ErasureInv
  <2>6. \A d \in Callers : at'[d] = "blob" /\ key'[d] \in erased' => d \in stale'
    BY <1>1 DEF NewKey, WormTypeOK, ErasureInv
  <2> QED BY <1>1, <2>3, <2>4, <2>5, <2>6 DEF NewKey, ErasureInv
<1>2. ASSUME NEW c \in Callers, NEW r \in Records, GetKey(c, r) PROVE ErasureInv'
  <2>1. \A d \in Callers : at'[d] = "blob" /\ key'[d] \in erased' => d \in stale'
    BY <1>2 DEF GetKey, WormTypeOK, ErasureInv
  <2> QED BY <1>2, <2>1 DEF GetKey, ErasureInv
<1>3. ASSUME NEW c \in Callers, PutExists(c) PROVE ErasureInv'
  <2>1. \A d \in Callers : at'[d] = "blob" /\ key'[d] \in erased' => d \in stale'
    BY <1>3 DEF PutExists, Leave, WormTypeOK, ErasureInv
  <2> QED BY <1>3, <2>1 DEF PutExists, ErasureInv
<1>4. ASSUME NEW c \in Callers, PutLink(c) \/ PutFails(c) PROVE ErasureInv'
  <2>1. \A d \in Callers : at'[d] = "blob" /\ key'[d] \in erased' => d \in stale'
    BY <1>4 DEF PutLink, PutFails, Leave, WormTypeOK, ErasureInv
  <2> QED BY <1>4, <2>1 DEF PutLink, PutFails, ErasureInv
<1>5. ASSUME NEW c \in Callers, GetBlob(c) PROVE ErasureInv'
  <2>1. \A d \in Callers : at'[d] = "blob" /\ key'[d] \in erased' => d \in stale'
    BY <1>5 DEF GetBlob, Leave, WormTypeOK, ErasureInv
  <2>2. opened' = {} BY <1>5 DEF GetBlob, ErasureInv
  <2> QED BY <1>5, <2>1, <2>2 DEF GetBlob, ErasureInv
<1>6. ASSUME NEW r \in Records, Shred(r) PROVE ErasureInv'
  <2>1. /\ last \in Nat /\ last' = last /\ erased' = erased \cup {keys[r]} /\ keys[r] # 0
        /\ \A s \in Records : keys[s] \in Nat
    BY <1>6 DEF Shred, WormTypeOK, Numbers
  <2>2. \A s \in Records : keys'[s] = IF s = r THEN 0 ELSE keys[s]
    BY <1>6 DEF Shred, WormTypeOK
  <2>3. \A s \in Records : keys'[s] <= last' BY <2>1, <2>2 DEF ErasureInv
  <2>4. \A s, u \in Records : keys'[s] = keys'[u] /\ keys'[s] # 0 => s = u
    BY <2>2 DEF ErasureInv
  <2>5. \A k \in erased' : k <= last' /\ \A s \in Records : keys'[s] # 0 => keys'[s] # k
    BY <2>1, <2>2 DEF ErasureInv
  <2>6. \A d \in Callers : at'[d] = "blob" /\ key'[d] \in erased' => d \in stale'
    BY <1>6 DEF Shred, local, ErasureInv
  <2> QED BY <1>6, <2>3, <2>4, <2>5, <2>6 DEF Shred, ErasureInv
<1>7. CASE UNCHANGED wormVars BY <1>7 DEF wormVars, local, ErasureInv
<1> QED BY <1>1, <1>2, <1>3, <1>4, <1>5, <1>6, <1>7 DEF WormNext

\* ErasedStaysErased: because every store draws a new key, no retry of a store,
\* no second record and no retrieve that begins later opens an erased record.
THEOREM ErasureIsFinal == WormSpec => []ErasedStaysErased
<1>1. WormInit => ErasureInv BY DEF WormInit, ErasureInv
<1>2. WormTypeOK /\ ErasureInv /\ [WormNext]_wormVars => ErasureInv' BY ErasureStep
<1>3. ErasureInv => ErasedStaysErased BY DEF ErasureInv, ErasedStaysErased
<1> QED BY <1>1, <1>2, <1>3, StoreTypeCorrect, PTL DEF WormSpec

=============================================================================
