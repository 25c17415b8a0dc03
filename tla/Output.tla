------------------------------- MODULE Output -------------------------------
(***************************************************************************)
(* verifier.py, the one writer of every command: an outcome is delivered   *)
(* whole, to stdout and to the file that is promised, or the exit code is  *)
(* 74 (EX_IOERR).  Commands run at once on the same paths:                 *)
(*   "verify"  verifier.main --out: the receipt to a file and to stdout,   *)
(*             both attempted whatever happens to the first                *)
(*   "sign"    signer sign: the signed ledger to a file, then stdout       *)
(*   "copy"    copy_output of an input (evidence_pack), then stdout        *)
(*   "keygen"  signer keygen --pq: two new key files, then stdout          *)
(* Every system call may fail, a write may take part of what it is given,  *)
(* stdout may be a full pipe, and a process may be killed between calls.   *)
(* A text is a sequence of units, each the name of the process whose       *)
(* outcome it is part of.                                                  *)
(***************************************************************************)
EXTENDS Integers, Sequences, FiniteSets

CONSTANTS
  Procs,      \* commands that run
  Units,      \* units in an outcome
  Room,       \* units an undrained pipe holds
  MaxFaults,  \* bound: system calls that fail
  MaxKills    \* bound: processes killed

ASSUME OutputConstants ==
  /\ Units \in Nat \ {0} /\ Room \in Nat \ {0} /\ MaxFaults \in Nat /\ MaxKills \in Nat
  /\ "old" \notin Procs

VARIABLES
  cmd,      \* the command of each process, fixed
  raw,      \* stdout is unbuffered (-u), fixed
  disk,     \* path -> [kind, val]
  tmp,      \* process -> what its temporary file holds, or NoTmp
  pc, todo, \* process -> its step; the paths it still has to write
  failed,   \* process -> `failed` of main: an output that was not written
  left,     \* process -> units not yet given to stdout
  buf,      \* process -> units in the buffer of stdout
  sink,     \* process -> units the descriptor took
  pipe,     \* process -> units in the pipe, not read yet
  reader,   \* process -> the reader of the pipe is there
  code,     \* process -> exit code, or -1
  made,     \* ghost: process -> paths it delivered whole
  faults, kills

fixed == <<cmd, raw>>
std   == <<left, buf, sink, pipe, reader>>
used  == <<faults, kills>>
vars  == <<fixed, disk, tmp, pc, todo, failed, std, code, made, used>>

Commands == {"verify", "sign", "copy", "keygen"}
Paths    == {"out", "key", "pq"}
Kinds    == {"none", "file", "readonly", "directory", "fifo"}
NoTmp    == <<"none">>
Old      == <<"old">>
Whole(p) == [i \in 1..Units |-> p]
Chunks   == Seq(Procs)
Targets(c) == IF c = "keygen" THEN <<"key", "pq">> ELSE <<"out">>

TypeOK ==
  /\ cmd \in [Procs -> Commands] /\ raw \in BOOLEAN
  /\ disk \in [Paths -> [kind : Kinds, val : Chunks \cup {Old}]]
  /\ tmp \in [Procs -> Chunks \cup {NoTmp}]
  /\ pc \in [Procs -> {"start", "target", "direct", "fill", "commit", "link", "text", "write", "flush", "done", "killed"}]
  /\ todo \in [Procs -> {<<"key", "pq">>, <<"pq">>, <<"out">>, << >>}]
  /\ failed \in [Procs -> BOOLEAN]
  /\ left \in [Procs -> 0..Units] /\ buf \in [Procs -> 0..Units] /\ sink \in [Procs -> 0..Units]
  /\ pipe \in [Procs -> 0..Room] /\ reader \in [Procs -> BOOLEAN]
  /\ code \in [Procs -> {-1, 0, 1, 2, 74}]
  /\ made \in [Procs -> SUBSET Paths]
  /\ faults \in 0..MaxFaults /\ kills \in 0..MaxKills

Init ==
  /\ cmd \in [Procs -> Commands] /\ raw \in BOOLEAN
  /\ \E out \in Kinds, key, pq \in {"none", "file"} :
       /\ (\A p \in Procs : cmd[p] # "keygen") => key = "none" /\ pq = "none"
       /\ (\A p \in Procs : cmd[p] = "keygen") => out = "none"
       /\ disk = [f \in Paths |->
                    LET k == [out |-> out, key |-> key, pq |-> pq][f]
                    IN  [kind |-> k, val |-> IF k \in {"file", "readonly"} THEN Old ELSE << >>]]
  /\ tmp = [p \in Procs |-> NoTmp]
  /\ pc = [p \in Procs |-> "start"]
  /\ todo = [p \in Procs |-> Targets(cmd[p])]
  /\ failed = [p \in Procs |-> FALSE]
  /\ left = [p \in Procs |-> Units] /\ buf = [p \in Procs |-> 0] /\ sink = [p \in Procs |-> 0]
  /\ pipe = [p \in Procs |-> 0] /\ reader = [p \in Procs |-> TRUE]
  /\ code = [p \in Procs |-> -1]
  /\ made = [p \in Procs |-> {}]
  /\ faults = 0 /\ kills = 0

-----------------------------------------------------------------------------
At(p, step)   == pc[p] = step
Goto(p, step) == pc' = [pc EXCEPT ![p] = step]
Path(p)       == Head(todo[p])
Fault         == faults < MaxFaults /\ faults' = faults + 1 /\ UNCHANGED kills

\* The process ends with an exit code, its temporary file removed.
Exit(p, c) ==
  /\ Goto(p, "done")
  /\ code' = [code EXCEPT ![p] = c]
  /\ tmp' = [tmp EXCEPT ![p] = NoTmp]

\* One promised file is at its path: the next one, or stdout.
Delivered(p) ==
  /\ made' = [made EXCEPT ![p] = @ \cup {Path(p)}]
  /\ todo' = [todo EXCEPT ![p] = Tail(@)]
  /\ tmp' = [tmp EXCEPT ![p] = NoTmp]
  /\ Goto(p, IF Len(todo[p]) > 1 THEN "target" ELSE "text")

\* OutputNotWritten.  verifier.main notes it and still writes to stdout; in
\* the other commands receipt_cli turns it into exit 74.
NotWritten(p) ==
  /\ failed' = [failed EXCEPT ![p] = TRUE]
  /\ IF cmd[p] = "verify"
       THEN Goto(p, "text") /\ tmp' = [tmp EXCEPT ![p] = NoTmp] /\ UNCHANGED code
       ELSE Exit(p, 74)

-----------------------------------------------------------------------------
\* signer._main keygen: refused before anything is written when a target exists.
KeygenRefuses(p) ==
  /\ At(p, "start") /\ cmd[p] = "keygen"
  /\ \E f \in {"key", "pq"} : disk[f].kind # "none"
  /\ Exit(p, 2)
  /\ UNCHANGED <<fixed, disk, todo, failed, std, made, used>>

Start(p) ==
  /\ At(p, "start")
  /\ cmd[p] = "keygen" => \A f \in {"key", "pq"} : disk[f].kind = "none"
  /\ Goto(p, "target")
  /\ UNCHANGED <<fixed, disk, tmp, todo, failed, std, code, made, used>>

Refused_Directory(p) == cmd[p] # "keygen" /\ disk[Path(p)].kind = "directory"

\* refuse_directory and _replace_target: where the file goes, if it may.
Refused(p) == cmd[p] # "keygen" /\ disk[Path(p)].kind \in {"directory", "readonly"}

RefuseTarget(p) ==
  /\ At(p, "target") /\ Refused(p)
  /\ NotWritten(p)
  /\ UNCHANGED <<fixed, disk, todo, std, made, used>>

\* write_output on what is not a regular file writes to it directly.
Special(p) == cmd[p] \in {"verify", "sign"} /\ disk[Path(p)].kind = "fifo"

\* write_tmp, copy_output: a new file next to the path (O_EXCL, random name).
OpenTarget(p) ==
  /\ At(p, "target") /\ ~Refused(p)
  /\ IF Special(p) THEN Goto(p, "direct") /\ UNCHANGED tmp
                   ELSE Goto(p, "fill") /\ tmp' = [tmp EXCEPT ![p] = << >>]
  /\ UNCHANGED <<fixed, disk, todo, failed, std, code, made, used>>

\* The descriptor stays on the pipe when the path is replaced meanwhile.
ToSpecial(units) == IF disk["out"].kind = "fifo" THEN disk' = [disk EXCEPT !["out"].val = @ \o units] ELSE UNCHANGED disk

DirectWrite(p) ==
  /\ At(p, "direct")
  /\ ToSpecial(Whole(p))
  /\ Delivered(p)
  /\ UNCHANGED <<fixed, failed, std, code, used>>

\* _write_fd: each write takes one or more of the remaining units.
FillTmp(p) ==
  /\ At(p, "fill") /\ Len(tmp[p]) < Units
  /\ \E n \in 1..(Units - Len(tmp[p])) : tmp' = [tmp EXCEPT ![p] = @ \o [i \in 1..n |-> p]]
  /\ UNCHANGED <<fixed, disk, pc, todo, failed, std, code, made, used>>

SyncTmp_Short(p) ==
  /\ At(p, "fill") /\ Len(tmp[p]) > 0
  /\ Goto(p, IF cmd[p] = "keygen" THEN "link" ELSE "commit")
  /\ UNCHANGED <<fixed, disk, tmp, todo, failed, std, code, made, used>>

\* fsync and close; then os.replace, or os.link for a file that must be new.
SyncTmp(p) ==
  /\ At(p, "fill") /\ Len(tmp[p]) = Units
  /\ Goto(p, IF cmd[p] = "keygen" THEN "link" ELSE "commit")
  /\ UNCHANGED <<fixed, disk, tmp, todo, failed, std, code, made, used>>

\* commit_tmp.  The mode of the replaced file is kept.
Commit(p) ==
  /\ At(p, "commit")
  /\ disk[Path(p)].kind # "directory"
  /\ disk' = [disk EXCEPT ![Path(p)] = [kind |-> "file", val |-> tmp[p]]]
  /\ Delivered(p)
  /\ UNCHANGED <<fixed, failed, std, code, used>>

\* write_new: os.link never goes over what is there.
Link(p) ==
  /\ At(p, "link") /\ disk[Path(p)].kind = "none"
  /\ disk' = [disk EXCEPT ![Path(p)] = [kind |-> "file", val |-> tmp[p]]]
  /\ Delivered(p)
  /\ UNCHANGED <<fixed, failed, std, code, used>>

\* FileExistsError at the link: exit 2 for the first key; for <keyfile>.pq
\* nothing catches it but receipt_cli, which exits 1 with a traceback.
LinkExists(p) ==
  /\ At(p, "link") /\ disk[Path(p)].kind # "none"
  /\ Exit(p, IF Path(p) = "key" THEN 2 ELSE 1)
  /\ UNCHANGED <<fixed, disk, todo, failed, std, made, used>>

\* A call on the file fails: the temporary is removed, the path keeps what it
\* had (a pipe or device keeps the units it already took).
FileFails(p) ==
  /\ pc[p] \in {"target", "fill", "commit", "link", "direct"}
  /\ At(p, "target") => ~Refused(p)
  /\ Fault
  /\ NotWritten(p)
  /\ IF At(p, "direct") THEN \E n \in 0..(Units - 1) : ToSpecial([i \in 1..n |-> p])
                        ELSE UNCHANGED disk
  /\ UNCHANGED <<fixed, todo, std, made>>

\* copy_output: an error reading the source is the caller's, not an output
\* that was not written; evidence_pack leaves it to receipt_cli (exit 1).
SourceFails(p) ==
  /\ At(p, "fill") /\ cmd[p] = "copy"
  /\ Fault
  /\ Exit(p, 1)
  /\ UNCHANGED <<fixed, disk, todo, failed, std, made>>

-----------------------------------------------------------------------------
\* _write_stdout.  What the text layer holds goes first; nothing is held here.
FlushText(p) ==
  /\ At(p, "text")
  /\ Goto(p, "write")
  /\ UNCHANGED <<fixed, disk, tmp, todo, failed, std, code, made, used>>

Free(p) == Room - pipe[p]
ToSink(p, n) ==
  /\ sink' = [sink EXCEPT ![p] = @ + n]
  /\ pipe' = [pipe EXCEPT ![p] = @ + n]

\* buf.write(data): n units are taken, fewer than given when the pipe is
\* full (BlockingIOError, None) or the file is at a limit.  With nothing
\* taken the call waits for the pipe (_wait_writable).
TakeRaw(p) ==
  /\ At(p, "write") /\ raw /\ left[p] > 0 /\ reader[p]
  /\ \E n \in 1..left[p] :
       /\ n <= Free(p)
       /\ left' = [left EXCEPT ![p] = @ - n]
       /\ ToSink(p, n)
  /\ UNCHANGED <<fixed, disk, tmp, pc, todo, failed, buf, reader, code, made, used>>

TakeBuffered(p) ==
  /\ At(p, "write") /\ ~raw /\ left[p] > 0
  /\ \E n \in 1..left[p] :
       /\ left' = [left EXCEPT ![p] = @ - n]
       /\ buf' = [buf EXCEPT ![p] = @ + n]
  /\ UNCHANGED <<fixed, disk, tmp, pc, todo, failed, sink, pipe, reader, code, made, used>>

AllTaken(p) ==
  /\ At(p, "write") /\ left[p] = 0
  /\ Goto(p, "flush")
  /\ UNCHANGED <<fixed, disk, tmp, todo, failed, std, code, made, used>>

FlushSome_Whole(p) ==
  /\ At(p, "flush") /\ buf[p] > 0 /\ reader[p] /\ buf[p] <= Free(p)
  /\ buf' = [buf EXCEPT ![p] = 0]
  /\ ToSink(p, buf[p])
  /\ UNCHANGED <<fixed, disk, tmp, pc, todo, failed, left, reader, code, made, used>>

\* buf.flush(), again after each wait, before the exit code is chosen.
FlushSome(p) ==
  /\ At(p, "flush") /\ buf[p] > 0 /\ reader[p]
  /\ \E n \in 1..buf[p] :
       /\ n <= Free(p)
       /\ buf' = [buf EXCEPT ![p] = @ - n]
       /\ ToSink(p, n)
  /\ UNCHANGED <<fixed, disk, tmp, pc, todo, failed, left, reader, code, made, used>>

FlushDone_Early(p) == At(p, "flush")

\* The end of main: 74 whatever the verdict when something was not written.
FlushDone(p) == At(p, "flush") /\ buf[p] = 0
Finish(p) ==
  /\ FlushDone(p)
  /\ \E verdict \in {0, 1} :
       /\ cmd[p] # "verify" => verdict = 0
       /\ Exit(p, IF failed[p] THEN 74 ELSE verdict)
  /\ UNCHANGED <<fixed, disk, todo, failed, std, made, used>>

\* ReceiptNotWritten: stdout is silenced (what it buffered is dropped), exit 74.
StdoutLost(p) ==
  /\ At(p, "text") \/ (At(p, "write") /\ left[p] > 0) \/ (At(p, "flush") /\ buf[p] > 0)
  /\ buf' = [buf EXCEPT ![p] = 0]
  /\ Exit(p, 74)
  /\ UNCHANGED <<fixed, disk, todo, failed, left, sink, pipe, reader, made>>

StdoutFails(p) == Fault /\ StdoutLost(p)
BrokenPipe(p) ==
  /\ ~reader[p]
  /\ (raw /\ At(p, "write")) \/ At(p, "flush")
  /\ StdoutLost(p) /\ UNCHANGED used

-----------------------------------------------------------------------------
Drain(p) ==
  /\ reader[p] /\ pipe[p] > 0
  /\ pipe' = [pipe EXCEPT ![p] = 0]
  /\ UNCHANGED <<fixed, disk, tmp, pc, todo, failed, left, buf, sink, reader, code, made, used>>

ReaderGone(p) ==
  /\ reader[p] /\ pc[p] \in {"text", "write", "flush"}
  /\ faults < MaxFaults /\ faults' = faults + 1
  /\ reader' = [reader EXCEPT ![p] = FALSE]
  /\ UNCHANGED <<fixed, disk, tmp, pc, todo, failed, left, buf, sink, pipe, code, made, kills>>

\* SIGKILL: the temporary file, if any, stays.
Kill(p) ==
  /\ pc[p] \notin {"done", "killed"}
  /\ kills < MaxKills /\ kills' = kills + 1
  /\ Goto(p, "killed")
  /\ UNCHANGED <<fixed, disk, tmp, todo, failed, std, code, made, faults>>

Deliver(p) ==
  \/ KeygenRefuses(p) \/ Start(p) \/ RefuseTarget(p) \/ OpenTarget(p) \/ DirectWrite(p) \/ FillTmp(p)
  \/ SyncTmp(p) \/ Commit(p) \/ Link(p) \/ LinkExists(p)
  \/ FlushText(p) \/ TakeRaw(p) \/ TakeBuffered(p) \/ AllTaken(p) \/ FlushSome(p) \/ Finish(p)
  \/ BrokenPipe(p)

Next == \E p \in Procs :
  \/ Deliver(p) \/ Drain(p)
  \/ FileFails(p) \/ SourceFails(p) \/ StdoutFails(p) \/ ReaderGone(p) \/ Kill(p)

Spec     == Init /\ [][Next]_vars
\* A process that can go on does (select sleeps until the pipe has room, it
\* does not give up), and the reader of a pipe reads unless it is gone.
FairSpec == Spec /\ \A p \in Procs : WF_vars(Deliver(p)) /\ WF_vars(Drain(p))

-----------------------------------------------------------------------------
(* The exit code of receipt_cli and main: a verdict or a success is given  *)
(* exactly when the whole outcome was taken by stdout and every promised   *)
(* file was delivered whole, 74 exactly when one of them was not; keygen   *)
(* says 0 only for the pair of keys that is on the disk; and a command     *)
(* that ended by itself left no temporary file.                            *)
ExitTruthful == \A p \in Procs :
  LET all == sink[p] = Units /\ made[p] = {Targets(cmd[p])[i] : i \in 1..Len(Targets(cmd[p]))}
  IN  /\ code[p] = 74 => ~all
      /\ code[p] = 0 => all
      /\ code[p] = 1 /\ cmd[p] = "verify" => all
      /\ code[p] = 0 /\ cmd[p] = "keygen" => \A f \in {"key", "pq"} : disk[f].val = Whole(p)
      /\ At(p, "done") => tmp[p] = NoTmp

(* write_tmp and commit_tmp of concurrent commands: a regular file at a    *)
(* promised path holds at every moment, kills included, what it held       *)
(* before the commands ran or the whole outcome of one of them: never a    *)
(* part, never a mixture.                                                  *)
PromisedWhole == \A f \in Paths :
  disk[f].kind \in {"file", "readonly"} => disk[f].val \in {Old} \cup {Whole(p) : p \in Procs}

(* write_new and _replace_target, with two keygen runs racing: a key file, *)
(* once it is at its path, is never replaced or changed, nor is a file the *)
(* process may not write.                                                  *)
KeysKept == [][\A f \in Paths :
  disk[f].kind = "readonly" \/ (f # "out" /\ disk[f].kind = "file") => disk'[f] = disk[f]]_vars

(* _write_stdout and _wait_writable: every command that is not killed      *)
(* ends, also on a stdout that is non-blocking and full, as long as its    *)
(* reader reads or goes away.                                              *)
Ends == \A p \in Procs : <>(pc[p] \in {"done", "killed"})
=============================================================================
