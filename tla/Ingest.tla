------------------------------- MODULE Ingest -------------------------------
(***************************************************************************)
(* The batched evidence writer of cryptovalid_ingest.py: one Ingestor      *)
(* object shared by several threads, the archive directory it writes       *)
(* (segments, STH sidecars, HEAD manifest, chain tips, RFC 3161 tokens),   *)
(* the I/O calls that can fail, the crash of the process at any step and   *)
(* the recovery of the next process (_open_or_resume / _resume).           *)
(*                                                                         *)
(* Abstractions of data.  A self_hash is the fresh number of its entry (0  *)
(* is GENESIS_PREV), a canonical STH hash the fresh number of that STH, a  *)
(* Merkle root the sequence of its leaves: hashes are taken to be          *)
(* collision free.  A segment file is the sequence of its lines that end   *)
(* in a newline; bytes after the last newline are the flag torn[s].        *)
(* Segment number n of the code (0, 1, ...) is index n + 1 here.           *)
(***************************************************************************)
EXTENDS Integers, Sequences, FiniteSets

CONSTANTS
  Threads,     \* the threads that share the Ingestor
  Batch,       \* batch_size
  Rotate,      \* rotate_entries
  TipKey,      \* a tip_keyfile is configured
  Tsa,         \* a tsa_url is configured
  Faults,      \* the I/O or signing calls that may fail in this instance
  MaxEntries,  \* bound: events ever appended
  MaxFaults,   \* bound: failures of I/O or signing calls
  MaxCrash     \* bound: crashes of the process

FaultKinds == {"write", "rollback", "tip", "sth", "sthsync",
               "head", "headsync", "open",
               "tsa", "answer", "token", "tokensync", "lotl", "meta"}

ASSUME IngestConstants ==
  /\ Batch \in Nat \ {0} /\ Rotate \in Nat \ {0}
  /\ TipKey \in BOOLEAN /\ Tsa \in BOOLEAN
  /\ Faults \subseteq FaultKinds
  /\ MaxEntries \in Nat /\ MaxFaults \in Nat /\ MaxCrash \in Nat

VARIABLES
  file,    \* file[s]: the complete lines of segment s on disk
  torn,    \* torn[s]: segment s ends in bytes without a newline
  sth,     \* sth[s]: <segment>.sth.json, or NoSth
  tip,     \* tip[s]: <segment>.tip.json, or NoTip
  tsr,     \* tsr[s]: the token <segment>.sth.tsr and its metadata <segment>.sth.tsr.json
  head,    \* <prefix>.head.json, or NoHead
  proc,    \* the writing process: "down", "up", or "refused" by _resume
  seq, idx, prev, first, buf, fh,   \* self._seq .. self._fh (fh: the handle is open)
  pc, op,  \* where each thread is, and the public call it is executing
  end,     \* append_line's local `end': lines and torn bytes before the write
  seal,    \* the segment and STH a thread carries from seal() to _anchor()
  last,    \* number of the last entry and of the last STH created
  live,    \* ghost: entries appended by this process
  acked,   \* ghost: entries some flush() returned for
  crashes, faults   \* used budgets

disk    == <<file, torn, sth, tip, tsr, head>>
mem     == <<seq, idx, prev, first, buf, fh>>
control == <<pc, op, end, seal>>
ghost   == <<last, live, acked, crashes, faults>>
vars    == <<disk, proc, mem, control, ghost>>

Genesis == 0
Garbage == [ok |-> FALSE, id |-> Genesis, idx |-> 0, prev |-> Genesis]
NoSth   == [id |-> 0, leaves |-> << >>, prev |-> Genesis]
NoTip   == [entries |-> 0, first |-> Genesis, last |-> Genesis]
NoHead  == [count |-> 0, last |-> 0]

\* A token: the STH it was requested for (ghost), the STH whose hash its
\* messageImprint carries (0: none of them), and whether its CMS signature holds.
Tokens   == [req : Nat, of : Nat, cms : BOOLEAN]
NoToken  == [req |-> 0, of |-> 0, cms |-> FALSE]
\* sth_canonical_sha256, digest_bound, token_file is present, error is present.
Metas    == [sth : Nat, bound : BOOLEAN, file : BOOLEAN, error : BOOLEAN]
NoMeta   == [sth |-> 0, bound |-> FALSE, file |-> FALSE, error |-> FALSE]
Anchors  == [token : Tokens, meta : Metas]
NoAnchor == [token |-> NoToken, meta |-> NoMeta]

\* What a thread carries from seal() to _anchor(), and _anchor's own locals.
Seals  == [seg : Nat, id : Nat, got : Tokens, meta : Metas]
NoSeal == [seg |-> 0, id |-> 0, got |-> NoToken, meta |-> NoMeta]

Line == [ok : BOOLEAN, id : Nat, idx : Nat, prev : Nat]
Sth  == [id : Nat, leaves : Seq(Nat), prev : Nat]
Tip  == [entries : Nat, first : Nat, last : Nat]
Ops  == {"append", "flush", "seal", "rotate", "close", "closeFlush"}
\* Steps taken while holding self._lock, and the places a thread waits outside it.
Locked == {"flush", "wrote", "tip", "sealing", "head", "rotate"}
Anchoring == {"anchor", "token", "meta"}
Steps  == Locked \cup Anchoring \cup {"idle", "due"}

DiskOK ==
  /\ file \in Seq(Seq(Line)) /\ torn \in Seq(BOOLEAN)
  /\ sth \in Seq(Sth) /\ tip \in Seq(Tip) /\ tsr \in Seq(Anchors)
  /\ Len(torn) = Len(file) /\ Len(sth) = Len(file)
  /\ Len(tip) = Len(file) /\ Len(tsr) = Len(file)
  /\ head \in [count : Nat, last : Nat]

MemOK ==
  /\ proc \in {"down", "up", "refused"} /\ fh \in BOOLEAN
  /\ seq \in Nat /\ idx \in Nat /\ prev \in Nat /\ first \in Nat
  /\ buf \in Seq(Line)

ControlOK ==
  /\ pc \in [Threads -> Steps] /\ op \in [Threads -> Ops]
  /\ end \in [lines : Nat, torn : BOOLEAN]
  /\ seal \in [Threads -> Seals]

GhostOK ==
  /\ last \in [entry : Nat, sth : Nat]
  /\ live \subseteq Nat /\ acked \subseteq Nat
  /\ crashes \in Nat /\ faults \in Nat

TypeOK == DiskOK /\ MemOK /\ ControlOK /\ GhostOK

-----------------------------------------------------------------------------
(* Reading a segment *)

\* _resume keeps the lines before the first one that does not parse.
Kept(lines) == Cardinality({n \in 1..Len(lines) : \A i \in 1..n : lines[i].ok})

\* The idx / prev_hash checks of _resume and of verify_ledger on the first n lines.
Chained(lines, n) ==
  \A i \in 1..n : /\ lines[i].idx = i - 1
                  /\ lines[i].prev = IF i = 1 THEN Genesis ELSE lines[i - 1].id

Ids(lines) == [i \in 1..Len(lines) |-> lines[i].id]

\* Mutant: a line that is not JSON is skipped instead of raising.
Readable_Skips(s) == s <= Len(file)

\* merkle.leaves_from_ledger raises on a line that is not JSON.
Readable(s) == s <= Len(file) /\ ~torn[s] /\ \A i \in 1..Len(file[s]) : file[s][i].ok

-----------------------------------------------------------------------------
Init ==
  /\ file = << >> /\ torn = << >> /\ sth = << >> /\ tip = << >> /\ tsr = << >>
  /\ head = NoHead /\ proc = "down"
  /\ seq = 0 /\ idx = 0 /\ prev = Genesis /\ first = Genesis /\ buf = << >> /\ fh = FALSE
  /\ pc = [t \in Threads |-> "idle"] /\ op = [t \in Threads |-> "flush"]
  /\ end = [lines |-> 0, torn |-> FALSE]
  /\ seal = [t \in Threads |-> NoSeal]
  /\ last = [entry |-> 0, sth |-> 0] /\ live = {} /\ acked = {}
  /\ crashes = 0 /\ faults = 0

\* close() holds the (reentrant) lock around seal(), its _anchor() included.
LockFree == \A t \in Threads : /\ pc[t] \notin Locked
                              /\ ~(pc[t] \in Anchoring /\ op[t] = "close")

Fail(kind) == kind \in Faults /\ faults < MaxFaults /\ faults' = faults + 1

\* A public call that leaves with an exception, or returns, releases the lock;
\* close() closes the handle on every path (its finally clause).
Leave(t, to) ==
  /\ pc' = [pc EXCEPT ![t] = to]
  /\ fh' = (fh /\ op[t] \notin {"close", "closeFlush"})
Raise(t) == Leave(t, "idle")

\* open(path, "ab") of a segment that does not exist yet.
CreateSegment ==
  /\ file' = Append(file, << >>) /\ torn' = Append(torn, FALSE)
  /\ sth' = Append(sth, NoSth)
  /\ tip' = Append(tip, NoTip) /\ tsr' = Append(tsr, NoAnchor)

-----------------------------------------------------------------------------
(* Opening: __init__, _open_or_resume, _resume *)

\* The last segment has an STH (or there is none): a fresh segment is started.
OpenFresh ==
  /\ proc = "down"
  /\ Len(file) > 0 => sth[Len(file)] # NoSth
  /\ CreateSegment
  /\ proc' = "up" /\ fh' = TRUE
  /\ seq' = Len(file) + 1 /\ idx' = 0 /\ prev' = Genesis /\ first' = Genesis
  /\ UNCHANGED <<head, buf, control, ghost>>

\* Mutants of _resume: the last line is dropped as if torn; the index restarts
\* one short; the first hash is not restored; a sealed segment is reopened.
Resume_As(dropped, short, forget, reopen) ==
  /\ proc = "down" /\ Len(file) > 0 /\ (reopen \/ sth[Len(file)] = NoSth)
  /\ LET lines == file[Len(file)]
         n     == Kept(lines)
     IN  /\ Chained(lines, n)
         /\ file' = [file EXCEPT ![Len(file)] = SubSeq(lines, 1, n - dropped)]
         /\ seq' = Len(file) /\ idx' = n - short
         /\ prev' = IF n = 0 THEN Genesis ELSE lines[n].id
         /\ first' = IF n = 0 \/ forget THEN Genesis ELSE lines[1].id
  /\ torn' = [torn EXCEPT ![Len(file)] = FALSE] /\ proc' = "up" /\ fh' = TRUE
  /\ UNCHANGED <<sth, tip, tsr, head, buf, control, ghost>>
Resume_Drops   == Resume_As(1, 0, FALSE, FALSE)
Resume_Forgets == Resume_As(0, 0, TRUE, FALSE)
Resume_Reopens == Resume_As(0, 0, FALSE, TRUE)

\* The last segment has no STH: keep its complete parsable lines, truncate the
\* rest, take the chain state from the last line kept.
Resume ==
  /\ proc = "down" /\ Len(file) > 0 /\ sth[Len(file)] = NoSth
  /\ LET lines == file[Len(file)]
         n     == Kept(lines)
     IN  /\ Chained(lines, n)
         /\ file' = [file EXCEPT ![Len(file)] = SubSeq(lines, 1, n)]
         /\ seq' = Len(file) /\ idx' = n
         /\ prev' = IF n = 0 THEN Genesis ELSE lines[n].id
         /\ first' = IF n = 0 THEN Genesis ELSE lines[1].id
  /\ torn' = [torn EXCEPT ![Len(file)] = FALSE] /\ proc' = "up" /\ fh' = TRUE
  /\ UNCHANGED <<sth, tip, tsr, head, buf, control, ghost>>

\* A complete line out of chain: ValueError, "refusing to resume".
RefuseResume ==
  /\ proc = "down" /\ Len(file) > 0 /\ sth[Len(file)] = NoSth
  /\ ~Chained(file[Len(file)], Kept(file[Len(file)]))
  /\ proc' = "refused"
  /\ UNCHANGED <<disk, mem, control, ghost>>

-----------------------------------------------------------------------------
(* Public calls: each one takes the lock *)

Idle(t) == proc = "up" /\ pc[t] = "idle" /\ LockFree

Enter(t, o) == pc' = [pc EXCEPT ![t] = "flush"] /\ op' = [op EXCEPT ![t] = o]

\* append(): chain the event into the buffer; a full batch is flushed under the
\* same lock, otherwise the call returns or goes on to the rotation.
AppendEntry(t) ==
  /\ Idle(t) /\ last.entry < MaxEntries
  /\ LET id == last.entry + 1
         e  == [ok |-> TRUE, id |-> id, idx |-> idx, prev |-> prev]
     IN  /\ buf' = Append(buf, e)
         /\ first' = IF idx = 0 THEN id ELSE first
         /\ prev' = id /\ idx' = idx + 1
         /\ last' = [last EXCEPT !.entry = id]
         /\ live' = live \cup {id}
  /\ IF Len(buf) + 1 >= Batch
       THEN Enter(t, "append")
       ELSE /\ pc' = [pc EXCEPT ![t] = IF idx + 1 >= Rotate THEN "due" ELSE "idle"]
            /\ UNCHANGED op
  /\ UNCHANGED <<disk, proc, seq, fh, end, seal, acked, crashes, faults>>

\* flush(), seal() and close() called by the application.
Call(t) ==
  /\ Idle(t)
  /\ \E o \in {"flush", "seal", "close", "closeFlush"} : Enter(t, o)
  /\ UNCHANGED <<disk, proc, mem, end, seal, ghost>>

\* append() found the segment due, left the lock, and now calls seal(min_entries=rotate).
CallRotate(t) ==
  /\ proc = "up" /\ pc[t] = "due" /\ LockFree
  /\ Enter(t, "rotate")
  /\ UNCHANGED <<disk, proc, mem, end, seal, ghost>>

-----------------------------------------------------------------------------
(* flush() and append_line() *)

\* Mutant: rotation is due one entry late after a flush.
AfterFlush_Late(t) ==
  /\ acked' = acked \cup live
  /\ CASE op[t] = "append" -> Leave(t, IF idx > Rotate THEN "due" ELSE "idle")
       [] op[t] \in {"flush", "closeFlush"} -> Leave(t, "idle")
       [] OTHER -> pc' = [pc EXCEPT ![t] = "sealing"] /\ UNCHANGED fh

\* flush() returns: everything this process appended is acknowledged.
AfterFlush(t) ==
  /\ acked' = acked \cup live
  /\ CASE op[t] = "append" -> Leave(t, IF idx >= Rotate THEN "due" ELSE "idle")
       [] op[t] \in {"flush", "closeFlush"} -> Leave(t, "idle")
       [] OTHER -> pc' = [pc EXCEPT ![t] = "sealing"] /\ UNCHANGED fh

FlushNothing(t) ==
  /\ pc[t] = "flush" /\ buf = << >>
  /\ AfterFlush(t)
  /\ UNCHANGED <<disk, proc, seq, idx, prev, first, buf, op, end, seal, last, live, crashes, faults>>

\* opened.flush() on a closed handle raises ValueError; the batch stays queued.
FlushClosed(t) ==
  /\ pc[t] = "flush" /\ buf # << >> /\ ~fh
  /\ Raise(t)
  /\ UNCHANGED <<disk, proc, seq, idx, prev, first, buf, op, end, seal, ghost>>

\* The lines a write adds: bytes left without a newline fuse with the first one.
Joined(cut, lines) == IF cut /\ lines # << >> THEN <<Garbage>> \o Tail(lines) ELSE lines

\* The first os.write calls put any part of the batch into the file.
WriteSome(t) ==
  /\ pc[t] = "flush" /\ buf # << >> /\ fh
  /\ end' = [lines |-> Len(file[seq]), torn |-> torn[seq]]
  /\ \E k \in 0..Len(buf), cut \in BOOLEAN :
       /\ cut => k < Len(buf)
       /\ file' = [file EXCEPT ![seq] = @ \o Joined(torn[seq], SubSeq(buf, 1, k))]
       /\ torn' = [torn EXCEPT ![seq] = cut \/ (k = 0 /\ @)]
  /\ pc' = [pc EXCEPT ![t] = "wrote"]
  /\ UNCHANGED <<sth, tip, tsr, head, proc, mem, op, seal, ghost>>

\* _write_fd's loop writes what was left, fsync succeeds, the buffer is cleared.
SyncBatch(t) ==
  /\ pc[t] = "wrote"
  /\ file' = [file EXCEPT ![seq] = SubSeq(@, 1, end.lines) \o Joined(end.torn, buf)]
  /\ torn' = [torn EXCEPT ![seq] = FALSE] /\ buf' = << >>
  /\ pc' = [pc EXCEPT ![t] = "tip"]
  /\ UNCHANGED <<sth, tip, tsr, head, proc, seq, idx, prev, first, fh, op, end, seal, ghost>>

\* Mutants: the batch is forgotten with the failed write; only the torn part
\* of the batch is taken back.
WriteFails_Forgets(t) ==
  /\ pc[t] = "wrote" /\ Fail("write")
  /\ file' = [file EXCEPT ![seq] = SubSeq(@, 1, end.lines)]
  /\ torn' = [torn EXCEPT ![seq] = end.torn] /\ buf' = << >>
  /\ Raise(t)
  /\ UNCHANGED <<sth, tip, tsr, head, proc, seq, idx, prev, first, op, end, seal, last, live, acked, crashes>>
WriteFails_Keeps(t) ==
  /\ pc[t] = "wrote" /\ Fail("write")
  /\ torn' = [torn EXCEPT ![seq] = FALSE]
  /\ Raise(t)
  /\ UNCHANGED <<file, sth, tip, tsr, head, proc, seq, idx, prev, first, buf, op, end, seal, last, live, acked, crashes>>

\* A write or the fsync fails and ftruncate puts the old end back: flush() raises.
WriteFails(t) ==
  /\ pc[t] = "wrote" /\ Fail("write")
  /\ file' = [file EXCEPT ![seq] = SubSeq(@, 1, end.lines)]
  /\ torn' = [torn EXCEPT ![seq] = end.torn]
  /\ Raise(t)
  /\ UNCHANGED <<sth, tip, tsr, head, proc, seq, idx, prev, first, buf, op, end, seal, last, live, acked, crashes>>

\* The write fails and ftruncate fails too ("may end in part of the line").
RollbackFails(t) ==
  /\ pc[t] = "wrote" /\ Fail("rollback")
  /\ Raise(t)
  /\ UNCHANGED <<disk, proc, seq, idx, prev, first, buf, op, end, seal, last, live, acked, crashes>>

\* The tip of the active segment, from the chain state in memory.
WriteTip(t) ==
  /\ pc[t] = "tip"
  /\ tip' = IF TipKey
              THEN [tip EXCEPT ![seq] = [entries |-> idx, first |-> first, last |-> prev]]
              ELSE tip
  /\ AfterFlush(t)
  /\ UNCHANGED <<file, torn, sth, tsr, head, proc, seq, idx, prev, first, buf, op, end, seal,
                 last, live, crashes, faults>>

TipFails(t) ==
  /\ pc[t] = "tip" /\ TipKey /\ Fail("tip")
  /\ Raise(t)
  /\ UNCHANGED <<disk, proc, seq, idx, prev, first, buf, op, end, seal, last, live, acked, crashes>>

-----------------------------------------------------------------------------
(* seal(), _write_head() *)

\* Mutant: `<=' for `<' in the check that seal() makes again under the lock.
MinEntries_Off(t) == IF op[t] = "rotate" THEN Rotate + 1 ELSE 1

MinEntries(t) == IF op[t] = "rotate" THEN Rotate ELSE 1

\* Fewer than min_entries entries (another thread rotated first, or an empty segment).
SealNothing(t) ==
  /\ pc[t] = "sealing" /\ idx < MinEntries(t)
  /\ Leave(t, "idle")
  /\ UNCHANGED <<disk, proc, seq, idx, prev, first, buf, op, end, seal, ghost>>

\* _prev_sth_hash: the sidecar of the previous segment, GENESIS_PREV without one.
PrevSth == IF seq > 1 THEN sth[seq - 1].id ELSE Genesis

NewSth == [id |-> last.sth + 1, leaves |-> Ids(file[seq]), prev |-> PrevSth]

PutSth ==
  /\ sth' = [sth EXCEPT ![seq] = NewSth]
  /\ last' = [last EXCEPT !.sth = @ + 1]

Sealing(t) == pc[t] = "sealing" /\ idx >= MinEntries(t)

SealSegment(t) ==
  /\ Sealing(t) /\ Readable(seq)
  /\ PutSth
  /\ pc' = [pc EXCEPT ![t] = "head"]
  /\ seal' = [seal EXCEPT ![t] = [seg |-> seq, id |-> last.sth + 1, got |-> NoToken, meta |-> NoMeta]]
  /\ UNCHANGED <<file, torn, tip, tsr, head, proc, mem, op, end, live, acked, crashes, faults>>

\* The segment cannot be read back, or signing or writing the sidecar fails.
SealFails(t) ==
  /\ Sealing(t)
  /\ \/ ~Readable(seq) /\ UNCHANGED faults
     \/ Fail("sth")
  /\ Raise(t)
  /\ UNCHANGED <<disk, proc, seq, idx, prev, first, buf, op, end, seal, last, live, acked, crashes>>

\* The sidecar is renamed into place and _fsync_dir then raises.
SealUnsynced(t) ==
  /\ Sealing(t) /\ Readable(seq) /\ Fail("sthsync")
  /\ PutSth
  /\ Raise(t)
  /\ UNCHANGED <<file, torn, tip, tsr, head, proc, seq, idx, prev, first, buf, op, end, seal,
                 live, acked, crashes>>

\* Mutant: the segment about to be opened is counted.
NewHead_Counts == [count |-> Cardinality({s \in 1..Len(sth) : sth[s] # NoSth}) + 1, last |-> sth[seq].id]

NewHead == [count |-> Cardinality({s \in 1..Len(sth) : sth[s] # NoSth}), last |-> sth[seq].id]

WriteHead(t) ==
  /\ pc[t] = "head"
  /\ head' = NewHead
  /\ pc' = [pc EXCEPT ![t] = "rotate"]
  /\ UNCHANGED <<file, torn, sth, tip, tsr, proc, mem, op, end, seal, ghost>>

\* Signing or writing the HEAD fails ("head"), or only its directory fsync
\* ("headsync"): seal() raises and _seq still names the sealed segment.
HeadFails(t) ==
  /\ pc[t] = "head"
  /\ \/ Fail("head") /\ UNCHANGED head
     \/ Fail("headsync") /\ head' = NewHead
  /\ Raise(t)
  /\ UNCHANGED <<file, torn, sth, tip, tsr, proc, seq, idx, prev, first, buf, op, end, seal,
                 last, live, acked, crashes>>

\* Mutant: the chain of the new segment goes on from the old one.
NextSegment_Chains == seq' = seq + 1 /\ idx' = 0 /\ prev' = prev /\ first' = Genesis

NextSegment == seq' = seq + 1 /\ idx' = 0 /\ prev' = Genesis /\ first' = Genesis

\* The handle moves to the next segment and the lock is released (not by close(),
\* which is still inside its own `with').
RotateSegment(t) ==
  /\ pc[t] = "rotate"
  /\ NextSegment /\ CreateSegment
  /\ pc' = [pc EXCEPT ![t] = IF Tsa THEN "anchor" ELSE "idle"]
  /\ fh' = (Tsa \/ op[t] # "close")
  /\ UNCHANGED <<head, proc, buf, op, end, seal, ghost>>

\* open() of the next segment raises, or only the fsync of the directory.
RotateFails(t) ==
  /\ pc[t] = "rotate" /\ Fail("open")
  /\ NextSegment
  /\ \/ UNCHANGED <<file, torn, sth, tip, tsr>> /\ fh' = FALSE
     \/ CreateSegment /\ fh' = (op[t] # "close")
  /\ pc' = [pc EXCEPT ![t] = "idle"]
  /\ UNCHANGED <<head, proc, buf, op, end, seal, last, live, acked, crashes>>

(* _anchor(): it works outside the lock (which it takes only to read or set *)
(* one attribute: no guard here) on the STH its thread has sealed.          *)

\* The answer the TSA owes: granted, with a signed token for this STH.
GoodAnswer(t) == [req |-> seal[t].id, of |-> seal[t].id, cms |-> TRUE]

\* It may grant nothing, answer without a token, or with a token that is not
\* signed or that carries another hash, or none.
BadAnswers(t) == {NoToken} \cup [req : {seal[t].id}, of : 0..last.sth, cms : BOOLEAN]

\* The metadata after an answer and after an exception.
MetaOf(id, granted, token) ==
  [sth |-> id, bound |-> granted /\ token # NoToken /\ token.of = id, file |-> FALSE, error |-> FALSE]
MetaFailed(id) == [NoMeta EXCEPT !.sth = id, !.error = TRUE]
Marked(m, named, failed) == [m EXCEPT !.file = named, !.error = failed]

Answered(t, granted, token) ==
  /\ seal' = [seal EXCEPT ![t].got = token, ![t].meta = MetaOf(seal[t].id, granted, token)]
  /\ pc' = [pc EXCEPT ![t] = IF token = NoToken THEN "meta" ELSE "token"]

Raised(t) ==
  /\ seal' = [seal EXCEPT ![t].meta = MetaFailed(seal[t].id)]
  /\ pc' = [pc EXCEPT ![t] = "meta"]

\* The request: a good answer, any other, or an exception, which goes into the metadata.
Request(t) ==
  /\ pc[t] = "anchor"
  /\ \/ Answered(t, TRUE, GoodAnswer(t)) /\ UNCHANGED faults
     \/ /\ Fail("answer")
        /\ \E granted \in BOOLEAN, token \in BadAnswers(t) : Answered(t, granted, token)
     \/ Raised(t) /\ Fail("tsa")
  /\ UNCHANGED <<disk, proc, mem, op, end, last, live, acked, crashes>>

Noted(t, named, failed) ==
  seal' = [seal EXCEPT ![t].meta = Marked(seal[t].meta, named, failed)]

\* Mutant: the token is filed under the segment that is active by then.
WriteToken_Active(t) ==
  /\ pc[t] = "token"
  /\ seq <= Len(tsr) /\ tsr' = [tsr EXCEPT ![seq].token = seal[t].got]
  /\ Noted(t, TRUE, FALSE)
  /\ pc' = [pc EXCEPT ![t] = "meta"]
  /\ UNCHANGED <<file, torn, sth, tip, head, proc, mem, op, end, last, live, acked, crashes, faults>>

\* Whatever token came back is written beside the segment.  An exception goes
\* into the metadata: from the write ("token"), from the fsync of the directory
\* after the rename ("tokensync"), from the LOTL check that follows ("lotl").
WriteToken(t) ==
  /\ pc[t] = "token"
  /\ \/ Fail("token") /\ UNCHANGED tsr /\ Noted(t, FALSE, TRUE)
     \/ /\ tsr' = [tsr EXCEPT ![seal[t].seg].token = seal[t].got]
        /\ \/ Noted(t, TRUE, FALSE) /\ UNCHANGED faults
           \/ Noted(t, FALSE, TRUE) /\ Fail("tokensync")
           \/ Noted(t, TRUE, TRUE) /\ Fail("lotl")
  /\ pc' = [pc EXCEPT ![t] = "meta"]
  /\ UNCHANGED <<file, torn, sth, tip, head, proc, mem, op, end, last, live, acked, crashes>>

\* The metadata is written outside the `try': when that fails, seal() raises.
WriteMeta(t) ==
  /\ pc[t] = "meta"
  /\ \/ tsr' = [tsr EXCEPT ![seal[t].seg].meta = seal[t].meta] /\ UNCHANGED faults
     \/ Fail("meta") /\ UNCHANGED tsr
  /\ seal' = [seal EXCEPT ![t] = NoSeal]
  /\ Leave(t, "idle")
  /\ UNCHANGED <<file, torn, sth, tip, head, proc, seq, idx, prev, first, buf, op, end,
                 last, live, acked, crashes>>

Anchor(t) == Request(t) \/ WriteToken(t) \/ WriteMeta(t)

-----------------------------------------------------------------------------
\* The process dies (or exits) at any step; only the directory survives.
Crash ==
  /\ proc = "up" /\ crashes < MaxCrash
  /\ proc' = "down" /\ crashes' = crashes + 1
  /\ seq' = 0 /\ idx' = 0 /\ prev' = Genesis /\ first' = Genesis
  /\ buf' = << >> /\ fh' = FALSE /\ live' = {}
  /\ pc' = [t \in Threads |-> "idle"] /\ op' = [t \in Threads |-> "flush"]
  /\ end' = [lines |-> 0, torn |-> FALSE]
  /\ seal' = [t \in Threads |-> NoSeal]
  /\ UNCHANGED <<disk, last, acked, faults>>

\* What a thread does inside a call it has made.
Step(t) ==
  \/ CallRotate(t)
  \/ FlushNothing(t) \/ FlushClosed(t) \/ WriteSome(t) \/ SyncBatch(t)
  \/ WriteTip(t)
  \/ SealNothing(t) \/ SealSegment(t)
  \/ WriteHead(t) \/ RotateSegment(t) \/ Anchor(t)

Trouble(t) ==
  \/ WriteFails(t) \/ RollbackFails(t) \/ TipFails(t)
  \/ SealFails(t) \/ SealUnsynced(t) \/ HeadFails(t) \/ RotateFails(t)

Next ==
  \/ OpenFresh \/ Resume \/ RefuseResume
  \/ \E t \in Threads : AppendEntry(t) \/ Call(t) \/ Step(t) \/ Trouble(t)
  \/ Crash

Spec == Init /\ [][Next]_vars

\* The interpreter keeps running a thread that is inside a call, and a thread
\* waiting for the RLock gets it in the end.
FairSpec ==
  /\ Spec
  /\ \A t \in Threads : WF_vars(Step(t)) /\ SF_vars(CallRotate(t))

-----------------------------------------------------------------------------
(* verify_archive: the failures it reports *)

Sealed == {s \in 1..Len(sth) : sth[s] # NoSth}

\* verify_ledger says PASS: every line parses and the chain holds.
LedgerPass(s) == Readable(s) /\ Chained(file[s], Len(file[s]))

\* The STH before s in the loop's `prev_sth': segments that fail verify_ledger are skipped.
SthBefore(s) ==
  LET seen == {r \in Sealed : r < s /\ LedgerPass(r)}
  IN  IF seen = {} THEN Genesis ELSE sth[CHOOSE r \in seen : \A q \in seen : q <= r].id

ChainFailures(s) ==
  IF ~LedgerPass(s)
    THEN {"hash_chain_fail"}
    ELSE {why \in {"merkle_root_mismatch", "sth_chain_break"} :
            \/ why = "merkle_root_mismatch" /\ sth[s].leaves # Ids(file[s])
            \/ why = "sth_chain_break" /\ sth[s].prev # SthBefore(s)}

TokenFailures(s) ==
  {why \in {"tsa_token_cms_invalid", "tsa_token_digest_mismatch"} :
     /\ LedgerPass(s) /\ tsr[s].token # NoToken
     /\ IF ~tsr[s].token.cms THEN why = "tsa_token_cms_invalid"
                             ELSE /\ why = "tsa_token_digest_mismatch"
                                  /\ tsr[s].token.of # sth[s].id}

HeadFailures ==
  {why \in {"head_count_mismatch", "head_last_sth_mismatch"} :
     /\ head # NoHead
     /\ \/ why = "head_count_mismatch" /\ head.count # Cardinality(Sealed)
        \/ why = "head_last_sth_mismatch" /\ Sealed # {} /\ head.last # SthBefore(Len(sth) + 1)}

-----------------------------------------------------------------------------
(* Properties *)

\* "An entry is DURABLE only after flush() returned": an entry some flush()
\* returned for is among the lines that _resume keeps, in every state and so
\* after every crash, whatever write was cut.
AckedRecoverable ==
  \A a \in acked : \E s \in 1..Len(file) : \E i \in 1..Kept(file[s]) : file[s][i].id = a

\* The TSA answered the request for this token with a signed token for that STH.
Genuine(token) == token.cms /\ token.of = token.req

\* verify_archive finds no fault in any sealed segment: hash chain, Merkle root,
\* link to the previous STH; and no fault in a token, unless it is the TSA's
\* own answer to the request for it that is bad: a good token is never filed
\* beside an STH it does not time.
SealedVerifies ==
  \A s \in Sealed : /\ ChainFailures(s) = {}
                    /\ TokenFailures(s) # {} => ~Genuine(tsr[s].token)

SealedKept == \A s \in Sealed : /\ s <= Len(file')
                               /\ file'[s] = file[s] /\ torn'[s] = torn[s] /\ sth'[s] = sth[s]

\* "Sealed segments are never reopened", "l'STH e' gia' sigillato e immutabile":
\* once a sidecar is on disk neither it nor its segment changes any more.
SealedNeverChanges == [][SealedKept]_vars

\* The HEAD never claims more than the archive holds: it counts a prefix of the
\* segments, all sealed, and names the STH of the last one.  (It may lag.)
HeadCommitsPrefix ==
  head # NoHead =>
    /\ 1..head.count \subseteq Sealed
    /\ head.last = sth[head.count].id

\* The HEAD manifest is "rewritten at every seal" and commits to the segment
\* count and the last STH: with no call in progress, verify_archive reports no
\* head_count_mismatch and no head_last_sth_mismatch on an archive nobody touched.
HeadUpToDate == proc = "up" /\ LockFree => HeadFailures = {}

\* A tip on disk is the state of a real prefix of its segment, the part _resume
\* keeps: check_tip never reports tail_truncated or tail_rewritten on an
\* archive nobody tampered with.
TipTruthful ==
  \A s \in 1..Len(tip) : tip[s] # NoTip =>
    /\ tip[s].entries \in 1..Kept(file[s])
    /\ file[s][tip[s].entries].id = tip[s].last
    /\ file[s][1].id = tip[s].first

\* "every flush() also writes <segment>.tip.json": with a tip key, when flush()
\* has returned for an entry, the tip of its segment covers that entry.
TipCoversAcked ==
  TipKey => \A s \in 1..Len(file) : \A i \in 1..Len(file[s]) :
    file[s][i].id \in acked => i <= tip[s].entries

\* The tip is never ahead of the lines a restart keeps and never behind what
\* flush() acknowledged, through failed batch writes, crashes and truncations.
TipInStep == TipTruthful /\ TipCoversAcked

\* What the metadata m says of a token k beside the STH number id.
MetaTrue(m, k, id) ==
  /\ m.sth = id
  /\ m.file => k # NoToken
  /\ m.bound /\ ~m.error => k # NoToken
  /\ k # NoToken /\ m.bound => k.of = id
  /\ k # NoToken /\ ~m.error => m.file

\* The anchor works outside the lock, on a copy of the STH, while other threads
\* seal further segments.  Whatever the TSA answers and whatever fails, a token
\* in the archive is the answer to the request for the STH it lies beside, and
\* the metadata tells the truth of that pair: they name this STH, never a token
\* file that is not there, never a file less without an error, and never
\* digest_bound for a token whose digest verify_archive rejects.
AnchorTruthful ==
  \A s \in 1..Len(tsr) :
    /\ tsr[s].token # NoToken => tsr[s].token.req = sth[s].id
    /\ tsr[s].meta # NoMeta => MetaTrue(tsr[s].meta, tsr[s].token, sth[s].id)

\* A segment this writer wrote is never refused as "broken/tampered" when it is resumed.
ResumeAccepts == proc # "refused"

\* An STH never commits to a line that is not an entry: seal() reads the file back.
SthCommitsEntries == \A s \in Sealed : \A i \in 1..Len(sth[s].leaves) : sth[s].leaves[i] # Genesis

\* "min_entries evita seal duplicati": rotation happens outside append()'s lock,
\* and still a segment grows past rotate_entries by at most one entry per other thread.
SegmentBound == fh => idx <= Rotate + Cardinality(Threads) - 1

\* A segment that is due is rotated in the end (unless the handle was closed).
DueIsSealed == (idx >= Rotate) ~> (idx < Rotate \/ ~fh)

-----------------------------------------------------------------------------
(* The archive as one log *)

\* append_line is between its first write and its return.
Writing == \E t \in Threads : pc[t] = "wrote"

\* The lines of segment s that no step takes back: while append_line is at
\* work, the ones before its `end'.
Firm(s) == IF s = seq /\ Writing THEN end.lines ELSE Len(file[s])

Places == UNION {{s} \X (1..Firm(s)) : s \in 1..Len(file)}

Committed == [p \in Places |-> file[p[1]][p[2]].id]

Abstract == INSTANCE EvidenceLog WITH log <- Committed

\* Through batches, failed writes and their retries, crashes, recovery and
\* rotation the archive is one append-only log with every entry at most once, in
\* the order append() took them, and every acknowledged entry (EvidenceLog).
ImplementsEvidenceLog == Abstract!Spec

=============================================================================
