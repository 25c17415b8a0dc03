---------------------------- MODULE IngestProofs ----------------------------
(***************************************************************************)
(* Theorems about Ingest, for every number of threads, entries, faults and *)
(* crashes: the types; acknowledged entries and sealed segments; what a    *)
(* reader of the archive finds in the tokens, the sidecars, the HEAD and   *)
(* the tip; how far a segment grows; and the refinement of EvidenceLog.    *)
(***************************************************************************)
EXTENDS Ingest, TLAPS, SequenceTheorems, FiniteSetTheorems

-----------------------------------------------------------------------------
(* Where the threads and the handle can be: enough to type every action. *)

Placed ==
  /\ proc # "up" => ~fh /\ \A t \in Threads : pc[t] = "idle"
  /\ proc = "up" => seq \in 1..Len(file) + 1 /\ seq >= Len(file)
  /\ fh => seq \in 1..Len(file)
  /\ \A t \in Threads : pc[t] \in {"wrote", "tip", "head", "rotate"} => seq \in 1..Len(file)
  /\ \A t \in Threads : pc[t] \in {"head", "rotate"} => seal[t].seg = seq
  /\ \A t \in Threads : pc[t] \in Anchoring => seal[t].seg \in 1..Len(file)
  /\ \A t \in Threads : pc[t] = "wrote" => end.lines \in 0..Len(file[seq])
  /\ \A t, u \in Threads : pc[t] \in Locked /\ pc[u] \in Locked => t = u

TypeInv == TypeOK /\ Placed

\* A write of batch lines adds lines; they are the batch's unless the file
\* ended in bytes without a newline.
LEMMA JoinedLines ==
  ASSUME NEW cut \in BOOLEAN, NEW lines \in Seq(Line)
  PROVE  /\ Joined(cut, lines) \in Seq(Line)
         /\ ~cut => Joined(cut, lines) = lines
<1>1. Garbage \in Line
  BY DEF Garbage, Line, Genesis
<1>2. CASE cut /\ lines # << >>
  <2>1. Tail(lines) \in Seq(Line) /\ <<Garbage>> \in Seq(Line)
    BY <1>1, <1>2, HeadTailProperties
  <2> QED BY <1>2, <2>1, ConcatProperties DEF Joined
<1>3. CASE ~(cut /\ lines # << >>)
  BY <1>3 DEF Joined
<1> QED BY <1>2, <1>3

\* ftruncate back to an end that lies in the file keeps lines.
LEMMA KeepLines ==
  ASSUME NEW lines \in Seq(Line), NEW n \in 0..Len(lines)
  PROVE  /\ SubSeq(lines, 1, n) \in Seq(Line) /\ Len(SubSeq(lines, 1, n)) = n
         /\ \A i \in 1..n : SubSeq(lines, 1, n)[i] = lines[i]
<1>1. n \in Int /\ 1 \in Int /\ \A i \in 1..n : lines[i] \in Line
  BY ElementOfSeq
<1> QED BY <1>1, SubSeqProperties

\* Lines written after lines: the old ones stay, the new ones follow.
LEMMA ConcatLines ==
  ASSUME NEW old \in Seq(Line), NEW new \in Seq(Line), NEW cat, cat = old \o new,
         \A i \in 1..Len(old) : old[i].ok, \A i \in 1..Len(new) : new[i].ok
  PROVE  /\ cat \in Seq(Line) /\ Len(cat) = Len(old) + Len(new)
         /\ \A i \in 1..Len(old) : cat[i] = old[i]
         /\ \A j \in 1..Len(new) : cat[Len(old) + j] = new[j]
         /\ \A i \in 1..Len(cat) : cat[i].ok
<1>1. Len(old) \in Nat /\ Len(new) \in Nat OBVIOUS
<1>2. /\ cat \in Seq(Line) /\ Len(cat) = Len(old) + Len(new)
      /\ \A i \in 1..Len(old) + Len(new) : cat[i] = IF i <= Len(old) THEN old[i] ELSE new[i - Len(old)]
  BY ConcatProperties
<1>3. \A i \in 1..Len(old) : cat[i] = old[i] BY <1>1, <1>2
<1>4. ASSUME NEW j \in 1..Len(new) PROVE cat[Len(old) + j] = new[j]
  <2>1. Len(old) + j \in 1..Len(old) + Len(new) /\ ~(Len(old) + j <= Len(old)) /\ Len(old) + j - Len(old) = j
    BY <1>1
  <2> QED BY <1>2, <2>1
<1>5. \A i \in 1..Len(cat) :
        i \in 1..Len(old) \/ (i - Len(old) \in 1..Len(new) /\ cat[i] = new[i - Len(old)])
  BY <1>1, <1>2
<1>6. \A i \in 1..Len(cat) : cat[i].ok BY <1>3, <1>5
<1> QED BY <1>2, <1>3, <1>4, <1>6

\* _resume keeps a number of lines that the file has, and all of them when all parse.
LEMMA KeptBound ==
  ASSUME NEW lines \in Seq(Line)
  PROVE  /\ Kept(lines) \in 0..Len(lines)
         /\ (\A i \in 1..Len(lines) : lines[i].ok) => Kept(lines) = Len(lines)
<1> DEFINE G == {n \in 1..Len(lines) : \A i \in 1..n : lines[i].ok}
<1>1. Len(lines) \in Nat /\ G \subseteq 1..Len(lines)
  OBVIOUS
<1>2. IsFiniteSet(1..Len(lines)) /\ Cardinality(1..Len(lines)) = Len(lines)
  <2>1. /\ IsFiniteSet(1..Len(lines))
        /\ Cardinality(1..Len(lines)) = IF 1 > Len(lines) THEN 0 ELSE Len(lines) - 1 + 1
    BY <1>1, FS_Interval
  <2> QED BY <1>1, <2>1
<1>3. Cardinality(G) \in Nat /\ Cardinality(G) <= Len(lines)
  BY <1>1, <1>2, FS_Subset, FS_CardinalityType
<1>4. (\A i \in 1..Len(lines) : lines[i].ok) => G = 1..Len(lines)
  BY <1>1
<1>5. Kept(lines) = Cardinality(G)
  BY DEF Kept
<1> HIDE DEF G
<1> QED BY <1>1, <1>2, <1>3, <1>4, <1>5

-----------------------------------------------------------------------------
(* Type correctness *)

\* The absent token, metadata, anchor and seal are typed as the present ones.
LEMMA AnchorConstants ==
  /\ NoToken \in Tokens /\ NoMeta \in Metas /\ NoAnchor \in Anchors /\ NoSeal \in Seals
<1>1. NoToken \in Tokens /\ NoMeta \in Metas
  BY DEF NoToken, Tokens, NoMeta, Metas
<1> QED BY <1>1 DEF NoAnchor, Anchors, NoSeal, Seals

\* Creating a segment keeps the five per-segment sequences typed and aligned.
LEMMA CreateType ==
  ASSUME TypeInv, CreateSegment
  PROVE  /\ file' \in Seq(Seq(Line)) /\ torn' \in Seq(BOOLEAN)
         /\ sth' \in Seq(Sth) /\ tip' \in Seq(Tip) /\ tsr' \in Seq(Anchors)
         /\ Len(file') = Len(file) + 1 /\ Len(torn') = Len(file')
         /\ Len(sth') = Len(file') /\ Len(tip') = Len(file') /\ Len(tsr') = Len(file')
<1>1. << >> \in Seq(Line) /\ NoSth \in Sth /\ NoTip \in Tip /\ NoAnchor \in Anchors /\ FALSE \in BOOLEAN
  BY AnchorConstants DEF NoSth, Sth, NoTip, Tip, Genesis
<1> QED BY <1>1, AppendProperties DEF CreateSegment, TypeInv, TypeOK, DiskOK, MemOK, ControlOK, GhostOK

\* A call that leaves keeps every thread at a step of its own.
LEMMA LeaveType ==
  ASSUME TypeInv, NEW t \in Threads, NEW to \in {"idle", "due", "anchor"}, Leave(t, to)
  PROVE  /\ pc' \in [Threads -> Steps] /\ fh' \in BOOLEAN /\ (fh' => fh)
         /\ pc'[t] = to /\ \A u \in Threads : u # t => pc'[u] = pc[u]
  BY DEF Leave, TypeInv, TypeOK, DiskOK, MemOK, ControlOK, GhostOK, Steps, Anchoring

\* One thread moves and the segments stay: what it takes to stay Placed.
LEMMA PlacedMove ==
  ASSUME TypeInv, NEW t \in Threads, NEW to \in Steps, proc = "up",
         pc' = [pc EXCEPT ![t] = to],
         UNCHANGED <<proc, seq>>, Len(file') = Len(file), fh' => fh,
         \A u \in Threads : u # t => seal'[u] = seal[u],
         to \in Locked => \A u \in Threads : u # t => pc[u] \notin Locked,
         to \in {"wrote", "tip", "head", "rotate"} => seq \in 1..Len(file),
         to \in {"head", "rotate"} => seal'[t].seg = seq,
         \/ UNCHANGED <<file, end>>
         \/ \A u \in Threads : u # t => pc[u] \notin Locked,
         to = "wrote" => end'.lines \in 0..Len(file'[seq]),
         to \notin {"anchor", "token", "meta"}
  PROVE  Placed'
<1>1. /\ pc'[t] = to /\ \A u \in Threads : u # t => pc'[u] = pc[u]
      /\ proc' = proc /\ seq' = seq
  BY DEF TypeInv, TypeOK, DiskOK, MemOK, ControlOK, GhostOK
<1>2. \A u \in Threads : pc'[u] \in {"wrote", "tip", "head", "rotate"} => seq' \in 1..Len(file')
  BY <1>1 DEF TypeInv, Placed
<1>3. \A u \in Threads : /\ pc'[u] \in {"head", "rotate"} => seal'[u].seg = seq'
                         /\ pc'[u] \in Anchoring => seal'[u].seg \in 1..Len(file')
  BY <1>1 DEF TypeInv, Placed, Anchoring
<1>4. \A u, v \in Threads : pc'[u] \in Locked /\ pc'[v] \in Locked => u = v
  BY <1>1 DEF TypeInv, Placed
<1>6. \A u \in Threads : pc'[u] = "wrote" => end'.lines \in 0..Len(file'[seq'])
  BY <1>1 DEF TypeInv, Placed, Locked
<1>5. /\ proc' # "up" => ~fh' /\ \A u \in Threads : pc'[u] = "idle"
      /\ proc' = "up" => seq' \in 1..Len(file') + 1 /\ seq' >= Len(file')
      /\ fh' => seq' \in 1..Len(file')
  BY <1>1 DEF TypeInv, Placed
<1> QED BY <1>2, <1>3, <1>4, <1>5, <1>6 DEF Placed

\* Opening the archive, fresh or resumed, or refusing to, keeps the state typed.
LEMMA OpenType ==
  ASSUME TypeInv, OpenFresh \/ Resume \/ RefuseResume
  PROVE  TypeInv'
<1>1. CASE OpenFresh
  <2>1. /\ Len(file) \in Nat
        /\ file' \in Seq(Seq(Line)) /\ torn' \in Seq(BOOLEAN)
        /\ sth' \in Seq(Sth) /\ tip' \in Seq(Tip) /\ tsr' \in Seq(Anchors)
        /\ Len(file') = Len(file) + 1 /\ Len(torn') = Len(file')
        /\ Len(sth') = Len(file') /\ Len(tip') = Len(file') /\ Len(tsr') = Len(file')
    <3>1. CreateSegment BY <1>1 DEF OpenFresh
    <3>2. Len(file) \in Nat BY DEF TypeInv, TypeOK, DiskOK, MemOK, ControlOK, GhostOK
    <3> QED BY <3>1, <3>2, CreateType
  <2>2. TypeOK'
    <3>1. DiskOK' BY <1>1, <2>1 DEF OpenFresh, TypeInv, TypeOK, DiskOK
    <3>2. MemOK' BY <1>1, <2>1 DEF OpenFresh, TypeInv, TypeOK, MemOK, Genesis
    <3>3. ControlOK' /\ GhostOK'
      BY <1>1 DEF OpenFresh, TypeInv, TypeOK, ControlOK, GhostOK, control, ghost
    <3> QED BY <3>1, <3>2, <3>3 DEF TypeOK
  <2>3. Placed' BY <1>1, <2>1 DEF OpenFresh, TypeInv, Placed, control, ghost, Locked
  <2> QED BY <2>2, <2>3 DEF TypeInv
<1>2. CASE Resume
  <2> DEFINE lines == file[Len(file)]
             n     == Kept(lines)
  <2>1. Len(file) \in 1..Len(file) /\ lines \in Seq(Line) /\ Len(lines) \in Nat
    BY <1>2 DEF Resume, TypeInv, TypeOK, DiskOK, MemOK, ControlOK, GhostOK
  <2>2. n \in 0..Len(lines) BY <2>1, KeptBound
  <2>3. SubSeq(lines, 1, n) \in Seq(Line) BY <2>1, <2>2, SubSeqProperties
  <2>4. file' = [file EXCEPT ![Len(file)] = SubSeq(lines, 1, n)] BY <1>2 DEF Resume
  <2>5. file' \in Seq(Seq(Line)) /\ Len(file') = Len(file)
    BY <2>1, <2>3, <2>4, ExceptSeq DEF TypeInv, TypeOK, DiskOK, MemOK, ControlOK, GhostOK
  <2>6. torn' \in Seq(BOOLEAN) /\ Len(torn') = Len(torn)
    <3>1. /\ torn' = [torn EXCEPT ![Len(file)] = FALSE] /\ FALSE \in BOOLEAN
          /\ torn \in Seq(BOOLEAN) /\ Len(file) \in 1..Len(torn)
      BY <1>2, <2>1 DEF Resume, TypeInv, TypeOK, DiskOK, MemOK, ControlOK, GhostOK
    <3> QED BY <3>1, ExceptSeq
  <2>7. n > 0 => lines[n].id \in Nat /\ lines[1].id \in Nat
    <3> SUFFICES ASSUME n > 0 PROVE lines[n] \in Line /\ lines[1] \in Line
      BY DEF Line
    <3> QED BY <2>1, <2>2, ElementOfSeq
  <2>8. /\ seq' = Len(file) /\ idx' = n
        /\ prev' = (IF n = 0 THEN Genesis ELSE lines[n].id)
        /\ first' = (IF n = 0 THEN Genesis ELSE lines[1].id)
    BY <1>2 DEF Resume
  <2> HIDE DEF lines, n
  <2>9. TypeOK'
    <3>1. DiskOK' BY <1>2, <2>5, <2>6 DEF Resume, TypeInv, TypeOK, DiskOK
    <3>2. MemOK' BY <1>2, <2>1, <2>2, <2>7, <2>8 DEF Resume, TypeInv, TypeOK, MemOK, Genesis
    <3>3. ControlOK' /\ GhostOK'
      BY <1>2 DEF Resume, TypeInv, TypeOK, ControlOK, GhostOK, control, ghost
    <3> QED BY <3>1, <3>2, <3>3 DEF TypeOK
  <2>10. Placed'
    <3>1. proc = "down" /\ proc' = "up" /\ pc' = pc /\ seal' = seal
      BY <1>2 DEF Resume, control
    <3>2. \A t \in Threads : pc'[t] = "idle"
      BY <3>1 DEF TypeInv, Placed
    <3> QED BY <2>1, <2>5, <2>8, <3>1, <3>2 DEF Placed, Locked, Anchoring
  <2> QED BY <2>9, <2>10 DEF TypeInv
<1>3. CASE RefuseResume
  BY <1>3 DEF RefuseResume, TypeInv, TypeOK, DiskOK, MemOK, ControlOK, GhostOK, Placed, disk, mem, control, ghost
<1> QED BY <1>1, <1>2, <1>3

\* append() and the public calls that take the lock keep the state typed.
LEMMA CallType ==
  ASSUME TypeInv, NEW t \in Threads, AppendEntry(t) \/ Call(t) \/ CallRotate(t)
  PROVE  TypeInv'
<1>1. CASE AppendEntry(t)
  <2> DEFINE id == last.entry + 1
             e  == [ok |-> TRUE, id |-> id, idx |-> idx, prev |-> prev]
  <2>1. id \in Nat /\ e \in Line BY DEF TypeInv, TypeOK, DiskOK, MemOK, ControlOK, GhostOK, Line
  <2>2. buf' \in Seq(Line) BY <1>1, <2>1, AppendProperties DEF AppendEntry, TypeInv, TypeOK, DiskOK, MemOK, ControlOK, GhostOK
  <2>3. PICK to \in {"flush", "due", "idle"} : pc' = [pc EXCEPT ![t] = to]
    BY <1>1 DEF AppendEntry, Enter
  <2>4. op' \in [Threads -> Ops]
    BY <1>1 DEF AppendEntry, Enter, TypeInv, TypeOK, DiskOK, MemOK, ControlOK, GhostOK, Ops
  <2>5. /\ first' \in Nat /\ prev' \in Nat /\ idx' \in Nat
        /\ last' \in [entry : Nat, sth : Nat] /\ live' \subseteq Nat
    <3>1. /\ first' = (IF idx = 0 THEN id ELSE first) /\ prev' = id /\ idx' = idx + 1
          /\ last' = [last EXCEPT !.entry = id] /\ live' = live \cup {id}
      BY <1>1 DEF AppendEntry
    <3>2. first \in Nat /\ idx \in Nat /\ last \in [entry : Nat, sth : Nat] /\ live \subseteq Nat
      BY DEF TypeInv, TypeOK, MemOK, GhostOK
    <3> HIDE DEF id
    <3> QED BY <2>1, <3>1, <3>2
  <2>6. pc' \in [Threads -> Steps]
    BY <2>3 DEF TypeInv, TypeOK, DiskOK, MemOK, ControlOK, GhostOK, Steps, Anchoring, Locked
  <2>7. TypeOK'
    <3>1. DiskOK' BY <1>1 DEF AppendEntry, TypeInv, TypeOK, DiskOK, disk
    <3>2. MemOK' BY <1>1, <2>2, <2>5 DEF AppendEntry, TypeInv, TypeOK, MemOK
    <3>3. ControlOK' BY <1>1, <2>4, <2>6 DEF AppendEntry, TypeInv, TypeOK, ControlOK
    <3>4. GhostOK' BY <1>1, <2>5 DEF AppendEntry, TypeInv, TypeOK, GhostOK
    <3> QED BY <3>1, <3>2, <3>3, <3>4 DEF TypeOK
  <2>8. Placed'
    <3>1. /\ proc = "up" /\ UNCHANGED <<proc, seq, file, seal, fh>>
          /\ \A u \in Threads : pc[u] \notin Locked
      BY <1>1 DEF AppendEntry, Idle, LockFree, disk
    <3> QED BY <2>3, <3>1, PlacedMove DEF Steps, Anchoring, Locked
  <2> QED BY <2>7, <2>8 DEF TypeInv
<1>2. CASE Call(t)
  BY <1>2 DEF Call, Enter, Idle, LockFree, TypeInv, TypeOK, DiskOK, MemOK, ControlOK, GhostOK, Placed, disk, mem, ghost, Steps, Anchoring, Locked, Ops
<1>3. CASE CallRotate(t)
  BY <1>3 DEF CallRotate, Enter, LockFree, TypeInv, TypeOK, DiskOK, MemOK, ControlOK, GhostOK, Placed, disk, mem, ghost, Steps, Anchoring, Locked, Ops
<1> QED BY <1>1, <1>2, <1>3

\* A thread in a call is alone under the lock, in a process that is up.
LEMMA InCall ==
  ASSUME TypeInv, NEW t \in Threads, pc[t] \in Locked
  PROVE  proc = "up" /\ \A u \in Threads : u # t => pc[u] \notin Locked
  BY DEF TypeInv, Placed, Locked

\* A thread that leaves its call, or goes on waiting outside the lock.
LEMMA LeaveMove ==
  ASSUME TypeInv, NEW t \in Threads, NEW to \in {"idle", "due"}, proc = "up", Leave(t, to),
         UNCHANGED <<proc, seq, seal>>, Len(file') = Len(file),
         pc[t] \in Locked \/ UNCHANGED <<file, end>>
  PROVE  Placed' /\ pc' \in [Threads -> Steps] /\ fh' \in BOOLEAN
<1>1. pc' \in [Threads -> Steps] /\ fh' \in BOOLEAN /\ (fh' => fh)
  BY LeaveType
<1>2. pc' = [pc EXCEPT ![t] = to] BY DEF Leave
<1>3. pc[t] \in Locked => \A u \in Threads : u # t => pc[u] \notin Locked
  BY InCall
<1> QED BY <1>1, <1>2, <1>3, PlacedMove DEF Steps, Anchoring, Locked

\* Where the end of flush() leads.
LEMMA AfterFlushType ==
  ASSUME TypeInv, NEW t \in Threads, pc[t] \in Locked, AfterFlush(t),
         UNCHANGED <<proc, seq, seal>>, Len(file') = Len(file)
  PROVE  Placed' /\ pc' \in [Threads -> Steps] /\ fh' \in BOOLEAN /\ acked' \subseteq Nat
<1>1. proc = "up" /\ \A u \in Threads : u # t => pc[u] \notin Locked
  BY InCall
<1>2. acked' \subseteq Nat BY DEF AfterFlush, TypeInv, TypeOK, GhostOK
<1>3. CASE \E to \in {"idle", "due"} : Leave(t, to)
  BY <1>1, <1>2, <1>3, LeaveMove
<1>4. CASE pc' = [pc EXCEPT ![t] = "sealing"] /\ UNCHANGED fh
  <2>1. "sealing" \in Steps BY DEF Steps, Anchoring, Locked
  <2>2. pc' \in [Threads -> Steps] /\ fh' \in BOOLEAN
    BY <1>4, <2>1 DEF TypeInv, TypeOK, ControlOK, MemOK
  <2>3. Placed' BY <1>1, <1>4, <2>1, PlacedMove
  <2> QED BY <1>2, <2>2, <2>3
<1> QED BY <1>3, <1>4 DEF AfterFlush

\* A file in the place of the active segment.
LEMMA PutLines ==
  ASSUME TypeInv, seq \in 1..Len(file), NEW ls \in Seq(Line), NEW cut \in BOOLEAN,
         file' = [file EXCEPT ![seq] = ls], torn' = [torn EXCEPT ![seq] = cut],
         UNCHANGED <<sth, tip, tsr, head>>
  PROVE  DiskOK' /\ Len(file') = Len(file)
<1>1. file \in Seq(Seq(Line)) /\ torn \in Seq(BOOLEAN) /\ seq \in 1..Len(torn)
  BY DEF TypeInv, TypeOK, DiskOK
<1>2. file' \in Seq(Seq(Line)) /\ Len(file') = Len(file)
  BY <1>1, ExceptSeq
<1>3. torn' \in Seq(BOOLEAN) /\ Len(torn') = Len(torn)
  BY <1>1, ExceptSeq
<1> QED BY <1>2, <1>3 DEF TypeInv, TypeOK, DiskOK

\* The ends of flush(), and the truncation that fails, keep the state typed.
LEMMA FlushType ==
  ASSUME TypeInv, NEW t \in Threads,
         \/ FlushNothing(t) \/ FlushClosed(t) \/ WriteTip(t) \/ TipFails(t) \/ RollbackFails(t)
  PROVE  TypeInv'
<1>1. CASE FlushNothing(t)
  <2>1. pc[t] \in Locked BY <1>1 DEF FlushNothing, Locked
  <2>2. AfterFlush(t) /\ UNCHANGED <<disk, proc, seq, idx, prev, first, buf, op, end, seal, last, live, crashes, faults>>
    BY <1>1 DEF FlushNothing
  <2>3. Placed' /\ pc' \in [Threads -> Steps] /\ fh' \in BOOLEAN /\ acked' \subseteq Nat
    BY <2>1, <2>2, AfterFlushType DEF disk
  <2> QED BY <2>2, <2>3 DEF TypeInv, TypeOK, DiskOK, MemOK, ControlOK, GhostOK, disk
<1>2. CASE WriteTip(t)
  <2>1. pc[t] \in Locked /\ seq \in 1..Len(file)
    BY <1>2 DEF WriteTip, Locked, TypeInv, Placed
  <2>2. AfterFlush(t) /\ UNCHANGED <<file, torn, sth, tsr, head, proc, seq, idx, prev, first, buf, op, end, seal,
                 last, live, crashes, faults>>
    BY <1>2 DEF WriteTip
  <2>3. Placed' /\ pc' \in [Threads -> Steps] /\ fh' \in BOOLEAN /\ acked' \subseteq Nat
    BY <2>1, <2>2, AfterFlushType
  <2>4. tip' \in Seq(Tip) /\ Len(tip') = Len(tip)
    <3>1. [entries |-> idx, first |-> first, last |-> prev] \in Tip
      BY DEF Tip, TypeInv, TypeOK, MemOK
    <3>2. tip \in Seq(Tip) /\ seq \in 1..Len(tip) BY <2>1 DEF TypeInv, TypeOK, DiskOK
    <3> QED BY <1>2, <3>1, <3>2, ExceptSeq DEF WriteTip
  <2> QED BY <2>2, <2>3, <2>4 DEF TypeInv, TypeOK, DiskOK, MemOK, ControlOK, GhostOK
<1>3. CASE FlushClosed(t) \/ TipFails(t) \/ RollbackFails(t)
  <2>1. /\ pc[t] \in Locked /\ Leave(t, "idle") /\ faults' \in Nat
        /\ UNCHANGED <<disk, proc, seq, idx, prev, first, buf, op, end, seal, last, live, acked, crashes>>
    BY <1>3 DEF FlushClosed, TipFails, RollbackFails, Locked, Raise, Fail, ghost, TypeInv, TypeOK, GhostOK
  <2>2. proc = "up" BY <2>1, InCall
  <2>3. Placed' /\ pc' \in [Threads -> Steps] /\ fh' \in BOOLEAN
    BY <2>1, <2>2, LeaveMove DEF disk
  <2> QED BY <2>1, <2>3 DEF TypeInv, TypeOK, DiskOK, MemOK, ControlOK, GhostOK, disk
<1> QED BY <1>1, <1>2, <1>3

\* append_line, done or undone, keeps the state typed.
LEMMA WriteType ==
  ASSUME TypeInv, NEW t \in Threads, WriteSome(t) \/ SyncBatch(t) \/ WriteFails(t)
  PROVE  TypeInv'
<1>1. /\ pc[t] \in Locked /\ seq \in 1..Len(file)
  BY DEF WriteSome, SyncBatch, WriteFails, Locked, TypeInv, Placed
<1>2. /\ proc = "up" /\ \A u \in Threads : u # t => pc[u] \notin Locked
  BY <1>1, InCall
<1>3. /\ file[seq] \in Seq(Line) /\ torn[seq] \in BOOLEAN /\ buf \in Seq(Line) /\ Len(file[seq]) \in Nat
  BY <1>1, ElementOfSeq DEF TypeInv, TypeOK, DiskOK, MemOK
<1>4. CASE WriteSome(t)
  <2>1. PICK k \in 0..Len(buf), cut \in BOOLEAN :
          /\ file' = [file EXCEPT ![seq] = @ \o Joined(torn[seq], SubSeq(buf, 1, k))]
          /\ torn' = [torn EXCEPT ![seq] = cut \/ (k = 0 /\ @)]
    BY <1>4 DEF WriteSome
  <2> DEFINE ls == file[seq] \o Joined(torn[seq], SubSeq(buf, 1, k))
             c  == cut \/ (k = 0 /\ torn[seq])
  <2>2. SubSeq(buf, 1, k) \in Seq(Line) BY <1>3, SubSeqProperties
  <2>3. ls \in Seq(Line) BY <1>3, <2>2, JoinedLines, ConcatProperties
  <2>4. file' = [file EXCEPT ![seq] = ls] /\ torn' = [torn EXCEPT ![seq] = c] /\ c \in BOOLEAN
    BY <1>3, <2>1
  <2>5. /\ pc' = [pc EXCEPT ![t] = "wrote"] /\ end' = [lines |-> Len(file[seq]), torn |-> torn[seq]]
        /\ UNCHANGED <<sth, tip, tsr, head, proc, mem, op, seal, ghost>>
    BY <1>4 DEF WriteSome
  <2> HIDE DEF ls, c
  <2>6. DiskOK' /\ Len(file') = Len(file) BY <1>1, <2>3, <2>4, <2>5, PutLines
  <2>11. end'.lines \in 0..Len(file'[seq])
    <3>1. Len(ls) >= Len(file[seq])
      <4>1. Joined(torn[seq], SubSeq(buf, 1, k)) \in Seq(Line) BY <1>3, <2>2, JoinedLines
      <4>2. Len(ls) = Len(file[seq]) + Len(Joined(torn[seq], SubSeq(buf, 1, k)))
        BY <1>3, <4>1, ConcatProperties DEF ls
      <4>3. Len(file[seq]) \in Nat /\ Len(Joined(torn[seq], SubSeq(buf, 1, k))) \in Nat
        BY <1>3, <4>1
      <4>4. \A a, b \in Nat : a + b >= a OBVIOUS
      <4> QED BY <4>2, <4>3, <4>4
    <3>2. file'[seq] = ls BY <1>1, <2>4 DEF TypeInv, TypeOK, DiskOK
    <3>3. Len(ls) \in Nat BY <2>3
    <3> QED BY <1>3, <2>5, <3>1, <3>2, <3>3
  <2>7. "wrote" \in Steps BY DEF Steps, Anchoring, Locked
  <2>8. Placed' BY <1>1, <1>2, <2>5, <2>6, <2>7, <2>11, PlacedMove DEF mem
  <2>9. ControlOK' BY <1>3, <2>5, <2>7 DEF TypeInv, TypeOK, ControlOK
  <2>10. MemOK' /\ GhostOK' BY <2>5 DEF TypeInv, TypeOK, MemOK, GhostOK, mem, ghost
  <2> QED BY <2>6, <2>8, <2>9, <2>10 DEF TypeInv, TypeOK
<1>5. end.torn \in BOOLEAN BY DEF TypeInv, TypeOK, ControlOK
<1>6. CASE SyncBatch(t)
  <2>1. /\ pc' = [pc EXCEPT ![t] = "tip"] /\ buf' = << >>
        /\ UNCHANGED <<sth, tip, tsr, head, proc, seq, idx, prev, first, fh, op, end, seal, ghost>>
        /\ file' = [file EXCEPT ![seq] = SubSeq(file[seq], 1, end.lines) \o Joined(end.torn, buf)]
        /\ torn' = [torn EXCEPT ![seq] = FALSE]
    BY <1>6 DEF SyncBatch
  <2>2. DiskOK' /\ Len(file') = Len(file)
    <3>1. end.lines \in 0..Len(file[seq]) BY <1>6 DEF SyncBatch, TypeInv, Placed
    <3>2. SubSeq(file[seq], 1, end.lines) \o Joined(end.torn, buf) \in Seq(Line)
      BY <1>3, <1>5, <3>1, KeepLines, JoinedLines, ConcatProperties
    <3> QED BY <1>1, <2>1, <3>2, PutLines
  <2>3. "tip" \in Steps BY DEF Steps, Anchoring, Locked
  <2>4. Placed' BY <1>1, <1>2, <2>1, <2>2, <2>3, PlacedMove
  <2>5. ControlOK' BY <2>1, <2>3 DEF TypeInv, TypeOK, ControlOK
  <2>6. MemOK' /\ GhostOK' BY <2>1 DEF TypeInv, TypeOK, MemOK, GhostOK, ghost
  <2> QED BY <2>2, <2>4, <2>5, <2>6 DEF TypeInv, TypeOK
<1>7. CASE WriteFails(t)
  <2>1. /\ Leave(t, "idle") /\ faults' \in Nat
        /\ UNCHANGED <<sth, tip, tsr, head, proc, seq, idx, prev, first, buf, op, end, seal, last, live, acked, crashes>>
        /\ file' = [file EXCEPT ![seq] = SubSeq(file[seq], 1, end.lines)]
        /\ torn' = [torn EXCEPT ![seq] = end.torn]
    BY <1>7 DEF WriteFails, Raise, Fail, TypeInv, TypeOK, GhostOK
  <2>2. DiskOK' /\ Len(file') = Len(file)
    <3>1. end.lines \in 0..Len(file[seq]) BY <1>7 DEF WriteFails, TypeInv, Placed
    <3>2. SubSeq(file[seq], 1, end.lines) \in Seq(Line) BY <1>3, <3>1, KeepLines
    <3> QED BY <1>1, <1>5, <2>1, <3>2, PutLines
  <2>3. Placed' /\ pc' \in [Threads -> Steps] /\ fh' \in BOOLEAN
    BY <1>1, <1>2, <2>1, <2>2, LeaveMove
  <2> QED BY <2>1, <2>2, <2>3 DEF TypeInv, TypeOK, MemOK, ControlOK, GhostOK
<1> QED BY <1>4, <1>6, <1>7

\* The sidecar seal() writes is one.
LEMMA NewSthType ==
  ASSUME TypeInv, seq \in 1..Len(file)
  PROVE  NewSth \in Sth
<1>1. file[seq] \in Seq(Line) BY ElementOfSeq DEF TypeInv, TypeOK, DiskOK
<1>2. Ids(file[seq]) \in Seq(Nat)
  <2>1. Len(file[seq]) \in Nat /\ \A i \in 1..Len(file[seq]) : file[seq][i].id \in Nat
    <3>1. \A i \in 1..Len(file[seq]) : file[seq][i] \in Line BY <1>1, ElementOfSeq
    <3> QED BY <1>1, <3>1 DEF Line
  <2> QED BY <2>1, IsASeq DEF Ids
<1>3. PrevSth \in Nat
  <2>1. CASE seq > 1
    <3>1. sth \in Seq(Sth) /\ seq - 1 \in 1..Len(sth) BY <2>1 DEF TypeInv, TypeOK, DiskOK
    <3>2. sth[seq - 1] \in Sth BY <3>1, ElementOfSeq
    <3> QED BY <2>1, <3>2 DEF PrevSth, Sth
  <2>2. CASE ~(seq > 1) BY <2>2 DEF PrevSth, Genesis
  <2> QED BY <2>1, <2>2
<1>4. last.sth + 1 \in Nat BY DEF TypeInv, TypeOK, GhostOK
<1> QED BY <1>2, <1>3, <1>4 DEF NewSth, Sth

\* The manifest _write_head writes is one.
LEMMA NewHeadType ==
  ASSUME TypeInv, seq \in 1..Len(file)
  PROVE  NewHead \in [count : Nat, last : Nat]
<1> DEFINE G == {s \in 1..Len(sth) : sth[s] # NoSth}
<1>1. Len(sth) \in Nat /\ sth \in Seq(Sth) /\ seq \in 1..Len(sth)
  BY DEF TypeInv, TypeOK, DiskOK
<1>2. IsFiniteSet(1..Len(sth)) BY <1>1, FS_Interval
<1>3. Cardinality(G) \in Nat BY <1>2, FS_Subset, FS_CardinalityType
<1>4. sth[seq].id \in Nat
  <2>1. sth[seq] \in Sth BY <1>1, ElementOfSeq
  <2> QED BY <2>1 DEF Sth
<1> QED BY <1>3, <1>4 DEF NewHead

\* Writing the sidecar keeps the directory typed.
LEMMA PutSthType ==
  ASSUME TypeInv, seq \in 1..Len(file), PutSth, UNCHANGED <<file, torn, tip, tsr, head>>
  PROVE  DiskOK' /\ last' \in [entry : Nat, sth : Nat]
<1>1. NewSth \in Sth BY NewSthType
<1>2. sth \in Seq(Sth) /\ seq \in 1..Len(sth) BY DEF TypeInv, TypeOK, DiskOK
<1>3. sth' \in Seq(Sth) /\ Len(sth') = Len(sth) BY <1>1, <1>2, ExceptSeq DEF PutSth
<1>4. last' \in [entry : Nat, sth : Nat] BY DEF PutSth, TypeInv, TypeOK, GhostOK
<1> QED BY <1>3, <1>4 DEF TypeInv, TypeOK, DiskOK

\* seal() up to its STH keeps the state typed.
LEMMA SealType ==
  ASSUME TypeInv, NEW t \in Threads,
         SealNothing(t) \/ SealSegment(t) \/ SealFails(t) \/ SealUnsynced(t)
  PROVE  TypeInv'
<1>1. pc[t] = "sealing" /\ pc[t] \in Locked
  BY DEF SealNothing, SealSegment, SealFails, SealUnsynced, Sealing, Locked
<1>2. /\ proc = "up" /\ \A u \in Threads : u # t => pc[u] \notin Locked
  BY <1>1, InCall
<1>3. Readable(seq) => seq \in 1..Len(file)
  BY <1>2 DEF Readable, TypeInv, Placed
<1>4. CASE SealNothing(t) \/ SealFails(t)
  <2>1. /\ Leave(t, "idle") /\ faults' \in Nat
        /\ UNCHANGED <<disk, proc, seq, idx, prev, first, buf, op, end, seal, last, live, acked, crashes>>
    BY <1>4 DEF SealNothing, SealFails, Raise, Fail, ghost, TypeInv, TypeOK, GhostOK
  <2>2. Placed' /\ pc' \in [Threads -> Steps] /\ fh' \in BOOLEAN
    BY <1>1, <1>2, <2>1, LeaveMove DEF disk
  <2> QED BY <2>1, <2>2 DEF TypeInv, TypeOK, DiskOK, MemOK, ControlOK, GhostOK, disk
<1>5. CASE SealSegment(t)
  <2>1. /\ PutSth /\ pc' = [pc EXCEPT ![t] = "head"] /\ seq \in 1..Len(file)
        /\ seal' = [seal EXCEPT ![t] = [seg |-> seq, id |-> last.sth + 1, got |-> NoToken, meta |-> NoMeta]]
        /\ UNCHANGED <<file, torn, tip, tsr, head, proc, mem, op, end, live, acked, crashes, faults>>
    BY <1>3, <1>5 DEF SealSegment
  <2>2. DiskOK' /\ last' \in [entry : Nat, sth : Nat] BY <2>1, PutSthType
  <2>3. "head" \in Steps BY DEF Steps, Anchoring, Locked
  <2>4. /\ seal' \in [Threads -> Seals] /\ seal'[t].seg = seq
        /\ \A u \in Threads : u # t => seal'[u] = seal[u]
    <3>1. [seg |-> seq, id |-> last.sth + 1, got |-> NoToken, meta |-> NoMeta] \in Seals
      BY AnchorConstants DEF Seals, TypeInv, TypeOK, MemOK, GhostOK
    <3> QED BY <2>1, <3>1 DEF TypeInv, TypeOK, ControlOK
  <2>5. Placed' BY <1>2, <2>1, <2>3, <2>4, PlacedMove DEF mem
  <2>6. ControlOK' BY <2>1, <2>3, <2>4 DEF TypeInv, TypeOK, ControlOK
  <2>7. MemOK' /\ GhostOK' BY <2>1, <2>2 DEF TypeInv, TypeOK, MemOK, GhostOK, mem
  <2> QED BY <2>2, <2>5, <2>6, <2>7 DEF TypeInv, TypeOK
<1>6. CASE SealUnsynced(t)
  <2>1. /\ PutSth /\ Leave(t, "idle") /\ seq \in 1..Len(file) /\ faults' \in Nat
        /\ UNCHANGED <<file, torn, tip, tsr, head, proc, seq, idx, prev, first, buf, op, end, seal,
                       live, acked, crashes>>
    BY <1>3, <1>6 DEF SealUnsynced, Raise, Fail, TypeInv, TypeOK, GhostOK
  <2>2. DiskOK' /\ last' \in [entry : Nat, sth : Nat] BY <2>1, PutSthType
  <2>3. Placed' /\ pc' \in [Threads -> Steps] /\ fh' \in BOOLEAN
    BY <1>1, <1>2, <2>1, LeaveMove
  <2> QED BY <2>1, <2>2, <2>3 DEF TypeInv, TypeOK, MemOK, ControlOK, GhostOK
<1> QED BY <1>4, <1>5, <1>6

\* The HEAD manifest, written or failing, keeps the state typed.
LEMMA HeadType ==
  ASSUME TypeInv, NEW t \in Threads, WriteHead(t) \/ HeadFails(t)
  PROVE  TypeInv'
<1>1. pc[t] = "head" /\ pc[t] \in Locked
  BY DEF WriteHead, HeadFails, Locked
<1>2. /\ proc = "up" /\ \A u \in Threads : u # t => pc[u] \notin Locked
  BY <1>1, InCall
<1>3. seq \in 1..Len(file) /\ seal[t].seg = seq BY <1>1 DEF TypeInv, Placed
<1>4. NewHead \in [count : Nat, last : Nat] BY <1>3, NewHeadType
<1>5. CASE WriteHead(t)
  <2>1. /\ head' = NewHead /\ pc' = [pc EXCEPT ![t] = "rotate"]
        /\ UNCHANGED <<file, torn, sth, tip, tsr, proc, mem, op, end, seal, ghost>>
    BY <1>5 DEF WriteHead
  <2>2. "rotate" \in Steps BY DEF Steps, Anchoring, Locked
  <2>3. Placed' BY <1>2, <1>3, <2>1, <2>2, PlacedMove DEF mem
  <2>4. ControlOK' BY <2>1, <2>2 DEF TypeInv, TypeOK, ControlOK
  <2>5. DiskOK' BY <1>4, <2>1 DEF TypeInv, TypeOK, DiskOK
  <2>6. MemOK' /\ GhostOK' BY <2>1 DEF TypeInv, TypeOK, MemOK, GhostOK, mem, ghost
  <2> QED BY <2>3, <2>4, <2>5, <2>6 DEF TypeInv, TypeOK
<1>6. CASE HeadFails(t)
  <2>1. /\ Leave(t, "idle") /\ faults' \in Nat /\ head' \in [count : Nat, last : Nat]
        /\ UNCHANGED <<file, torn, sth, tip, tsr, proc, seq, idx, prev, first, buf, op, end, seal,
                       last, live, acked, crashes>>
    <3>1. head \in [count : Nat, last : Nat] /\ faults \in Nat BY DEF TypeInv, TypeOK, DiskOK, GhostOK
    <3> QED BY <1>4, <1>6, <3>1 DEF HeadFails, Raise, Fail
  <2>2. Placed' /\ pc' \in [Threads -> Steps] /\ fh' \in BOOLEAN
    BY <1>1, <1>2, <2>1, LeaveMove
  <2> QED BY <2>1, <2>2 DEF TypeInv, TypeOK, DiskOK, MemOK, ControlOK, GhostOK
<1> QED BY <1>5, <1>6

\* The next segment, created or failing to be, keeps the state typed.
LEMMA RotateType ==
  ASSUME TypeInv, NEW t \in Threads, RotateSegment(t) \/ RotateFails(t)
  PROVE  TypeInv'
<1>1. pc[t] = "rotate" /\ pc[t] \in Locked
  BY DEF RotateSegment, RotateFails, Locked
<1>2. /\ proc = "up" /\ \A u \in Threads : u # t => pc[u] \notin Locked
  BY <1>1, InCall
<1>3. seq = Len(file) /\ seq \in 1..Len(file) /\ seal[t].seg = seq /\ Len(file) \in Nat
  BY <1>1, <1>2 DEF TypeInv, TypeOK, DiskOK, Placed
<1>4. CreateSegment =>
        /\ file' \in Seq(Seq(Line)) /\ torn' \in Seq(BOOLEAN)
        /\ sth' \in Seq(Sth) /\ tip' \in Seq(Tip) /\ tsr' \in Seq(Anchors)
        /\ Len(file') = Len(file) + 1 /\ Len(torn') = Len(file')
        /\ Len(sth') = Len(file') /\ Len(tip') = Len(file') /\ Len(tsr') = Len(file')
  BY CreateType
<1>5. PICK to \in {"idle", "anchor"} :
        /\ pc' = [pc EXCEPT ![t] = to] /\ NextSegment /\ fh' \in BOOLEAN /\ faults' \in Nat
        /\ UNCHANGED <<head, proc, buf, op, end, seal, last, live, acked, crashes>>
        /\ CreateSegment \/ (UNCHANGED <<file, torn, sth, tip, tsr>> /\ to = "idle" /\ ~fh')
  <2>1. CASE RotateSegment(t)
    BY <2>1, IngestConstants DEF RotateSegment, ghost, TypeInv, TypeOK, GhostOK
  <2>2. CASE RotateFails(t)
    <3>0. faults' \in Nat BY <2>2 DEF RotateFails, Fail, TypeInv, TypeOK, GhostOK
    <3>1. fh' \in BOOLEAN BY <2>2, Zenon DEF RotateFails
    <3>2. /\ pc' = [pc EXCEPT ![t] = "idle"] /\ NextSegment
          /\ UNCHANGED <<head, proc, buf, op, end, seal, last, live, acked, crashes>>
          /\ CreateSegment \/ (UNCHANGED <<file, torn, sth, tip, tsr>> /\ ~fh')
      BY <2>2 DEF RotateFails
    <3> QED BY <3>0, <3>1, <3>2
  <2> QED BY <2>1, <2>2
<1>6. pc'[t] = to /\ \A u \in Threads : u # t => pc'[u] = pc[u]
  BY <1>5 DEF TypeInv, TypeOK, ControlOK
<1>7. DiskOK' BY <1>4, <1>5 DEF TypeInv, TypeOK, DiskOK
<1>8. Len(file') = Len(file) \/ (Len(file') = Len(file) + 1) BY <1>4, <1>5
<1>9. MemOK' BY <1>3, <1>5 DEF NextSegment, TypeInv, TypeOK, MemOK, Genesis
<1>10. ControlOK' /\ GhostOK'
  BY <1>5 DEF TypeInv, TypeOK, ControlOK, GhostOK, Steps, Anchoring
<1>11. Placed'
  <2>1. \A u \in Threads : pc'[u] \notin Locked BY <1>2, <1>5, <1>6 DEF Locked
  <2>2. \A u \in Threads : pc'[u] \in Anchoring => seal'[u].seg \in 1..Len(file')
    BY <1>3, <1>5, <1>6, <1>8 DEF TypeInv, Placed
  <2>3. /\ proc' = "up" /\ seq' \in 1..Len(file') + 1 /\ seq' >= Len(file')
        /\ fh' => seq' \in 1..Len(file')
    BY <1>2, <1>3, <1>4, <1>5, <1>8 DEF NextSegment
  <2> QED BY <2>1, <2>2, <2>3 DEF Placed, Locked, Anchoring
<1> QED BY <1>7, <1>9, <1>10, <1>11 DEF TypeInv, TypeOK

\* What _anchor() never touches, and where it leads.
LEMMA AnchorLeaves ==
  ASSUME NEW t \in Threads, Anchor(t)
  PROVE  /\ UNCHANGED <<file, torn, sth, tip, head, proc, seq, idx, prev, first, buf, op, end,
                        last, live, acked, crashes>>
         /\ pc[t] \in {"anchor", "token", "meta"}
         /\ \E to \in {"token", "meta", "idle"} : pc' = [pc EXCEPT ![t] = to]
         /\ fh' => fh
<1>1. CASE Request(t)
  <2>1. /\ pc[t] = "anchor" /\ \E to \in {"token", "meta"} : pc' = [pc EXCEPT ![t] = to]
    BY <1>1 DEF Request, Answered, Raised
  <2>2. UNCHANGED <<disk, proc, mem, op, end, last, live, acked, crashes>> BY <1>1 DEF Request
  <2> QED BY <2>1, <2>2 DEF disk, mem
<1>2. CASE WriteToken(t)
  <2>1. pc[t] = "token" /\ pc' = [pc EXCEPT ![t] = "meta"] BY <1>2 DEF WriteToken
  <2>2. UNCHANGED <<file, torn, sth, tip, head, proc, mem, op, end, last, live, acked, crashes>>
    BY <1>2 DEF WriteToken
  <2> QED BY <2>1, <2>2 DEF mem
<1>3. CASE WriteMeta(t)
  <2>1. pc[t] = "meta" /\ Leave(t, "idle") BY <1>3 DEF WriteMeta
  <2>2. UNCHANGED <<file, torn, sth, tip, head, proc, seq, idx, prev, first, buf, op, end,
                    last, live, acked, crashes>>
    BY <1>3 DEF WriteMeta
  <2>3. pc' = [pc EXCEPT ![t] = "idle"] /\ (fh' => fh) BY <2>1 DEF Leave
  <2> QED BY <2>1, <2>2, <2>3
<1> QED BY <1>1, <1>2, <1>3 DEF Anchor

\* One thread moves in _anchor() and may finish: it takes nobody's place.
LEMMA AnchorMove ==
  ASSUME TypeInv, NEW t \in Threads, pc[t] \in Anchoring
  PROVE  /\ proc = "up" /\ pc[t] \notin Locked
         /\ seal[t].seg \in 1..Len(tsr) /\ seal[t] \in Seals /\ seal[t].id \in Nat
         /\ tsr[seal[t].seg] \in Anchors
<1>1. proc = "up" /\ seal[t].seg \in 1..Len(file) BY DEF Anchoring, TypeInv, Placed
<1>2. seal[t] \in Seals /\ tsr \in Seq(Anchors) /\ Len(tsr) = Len(file)
  BY DEF TypeInv, TypeOK, DiskOK, ControlOK
<1>3. tsr[seal[t].seg] \in Anchors BY <1>1, <1>2, ElementOfSeq
<1> QED BY <1>1, <1>2, <1>3 DEF Anchoring, Locked, Seals

\* The thread keeps its segment until it is done, and the state its types.
LEMMA AnchorKeeps ==
  ASSUME TypeInv, NEW t \in Threads, Anchor(t)
  PROVE  /\ pc[t] \in Anchoring /\ fh' \in BOOLEAN /\ faults' \in Nat
         /\ \A u \in Threads : u # t => seal'[u] = seal[u] /\ pc'[u] = pc[u]
         /\ pc'[t] \in {"token", "meta", "idle"}
         /\ pc'[t] # "idle" => seal'[t].seg = seal[t].seg
<1>0. /\ faults \in Nat /\ fh \in BOOLEAN /\ seal \in [Threads -> Seals] /\ pc \in [Threads -> Steps]
  BY DEF TypeInv, TypeOK, MemOK, ControlOK, GhostOK
<1>f. \A k : Fail(k) => faults' \in Nat BY <1>0 DEF Fail
<1>1. CASE Request(t)
  <2>1. pc[t] = "anchor" /\ faults' \in Nat /\ UNCHANGED fh BY <1>0, <1>f, <1>1 DEF Request, mem
  <2>2. \E to \in {"token", "meta"} : pc' = [pc EXCEPT ![t] = to]
    BY <1>1 DEF Request, Answered, Raised
  <2>3. \/ \E k, m : seal' = [seal EXCEPT ![t].got = k, ![t].meta = m]
        \/ \E m : seal' = [seal EXCEPT ![t].meta = m]
    BY <1>1 DEF Request, Answered, Raised
  <2>4. /\ \A u \in Threads : u # t => seal'[u] = seal[u]
        /\ seal'[t].seg = seal[t].seg
    BY <1>0, <2>3 DEF Seals
  <2> QED BY <1>0, <2>1, <2>2, <2>4 DEF Anchoring
<1>2. CASE WriteToken(t)
  <2>1. /\ pc[t] = "token" /\ faults' \in Nat /\ pc' = [pc EXCEPT ![t] = "meta"] /\ UNCHANGED fh
    BY <1>0, <1>f, <1>2 DEF WriteToken, mem
  <2>2. /\ \A u \in Threads : u # t => seal'[u] = seal[u]
        /\ seal'[t].seg = seal[t].seg
    BY <1>0, <1>2 DEF WriteToken, Noted, Seals
  <2> QED BY <1>0, <2>1, <2>2 DEF Anchoring
<1>3. CASE WriteMeta(t)
  <2>1. /\ pc[t] = "meta" /\ faults' \in Nat /\ Leave(t, "idle")
        /\ \A u \in Threads : u # t => seal'[u] = seal[u]
    BY <1>0, <1>f, <1>3 DEF WriteMeta
  <2>2. pc' = [pc EXCEPT ![t] = "idle"] BY <2>1 DEF Leave
  <2>3. fh' \in BOOLEAN BY <2>1, Zenon DEF Leave
  <2> QED BY <1>0, <2>1, <2>2, <2>3 DEF Anchoring
<1> QED BY <1>1, <1>2, <1>3 DEF Anchor

\* The metadata _anchor() puts together.
LEMMA MetaTypes ==
  /\ \A id \in Nat : MetaFailed(id) \in Metas
  /\ \A id \in Nat, granted \in BOOLEAN, token \in Tokens : MetaOf(id, granted, token) \in Metas
  /\ \A m \in Metas, named, failed \in BOOLEAN : Marked(m, named, failed) \in Metas
<1>1. \A id \in Nat : MetaFailed(id) \in Metas BY DEF MetaFailed, NoMeta, Metas
<1>2. ASSUME NEW id \in Nat, NEW granted \in BOOLEAN, NEW token \in Tokens
      PROVE  MetaOf(id, granted, token) \in Metas
  <2>1. (granted /\ token # NoToken /\ token.of = id) \in BOOLEAN BY Zenon
  <2> QED BY <2>1, Zenon DEF MetaOf, Metas
<1>3. \A m \in Metas, named, failed \in BOOLEAN : Marked(m, named, failed) \in Metas
  BY DEF Marked, Metas
<1> QED BY <1>1, <1>2, <1>3

\* What they say.
LEMMA MetaSays ==
  /\ \A id : /\ MetaFailed(id).sth = id /\ ~MetaFailed(id).bound /\ ~MetaFailed(id).file
              /\ MetaFailed(id).error
  /\ \A id, granted, token :
       LET m == MetaOf(id, granted, token)
       IN  /\ m.sth = id /\ ~m.file /\ ~m.error
           /\ m.bound => token # NoToken /\ token.of = id
  /\ \A m \in Metas, named, failed \in BOOLEAN :
       LET n == Marked(m, named, failed)
       IN  n.sth = m.sth /\ n.bound = m.bound /\ n.file = named /\ n.error = failed
<1>1. \A id : /\ MetaFailed(id).sth = id /\ ~MetaFailed(id).bound /\ ~MetaFailed(id).file
              /\ MetaFailed(id).error
  BY DEF MetaFailed, NoMeta
<1>2. ASSUME NEW id, NEW granted, NEW token
      PROVE  /\ MetaOf(id, granted, token).sth = id /\ ~MetaOf(id, granted, token).file
             /\ ~MetaOf(id, granted, token).error
             /\ MetaOf(id, granted, token).bound => token # NoToken /\ token.of = id
  BY Zenon DEF MetaOf
<1>3. \A m \in Metas, named, failed \in BOOLEAN :
        /\ Marked(m, named, failed).sth = m.sth /\ Marked(m, named, failed).bound = m.bound
        /\ Marked(m, named, failed).file = named /\ Marked(m, named, failed).error = failed
  BY DEF Marked, Metas
<1> QED BY <1>1, <1>2, <1>3

\* Each step of _anchor() keeps the sidecars of the tokens and its locals typed.
LEMMA AnchorFiles ==
  ASSUME TypeInv, NEW t \in Threads, Anchor(t)
  PROVE  tsr' \in Seq(Anchors) /\ Len(tsr') = Len(tsr) /\ seal' \in [Threads -> Seals]
<1>0. /\ tsr \in Seq(Anchors) /\ seal \in [Threads -> Seals] /\ last.sth \in Nat
  BY DEF TypeInv, TypeOK, DiskOK, ControlOK, GhostOK
<1>1. pc[t] \in Anchoring BY AnchorKeeps
<1>2. /\ seal[t].seg \in 1..Len(tsr) /\ seal[t] \in Seals /\ seal[t].id \in Nat
      /\ tsr[seal[t].seg] \in Anchors
  BY <1>1, AnchorMove
<1>3. CASE Request(t)
  <2>1. UNCHANGED tsr BY <1>3 DEF Request, disk
  <2>2. ASSUME NEW granted \in BOOLEAN, NEW token \in Tokens, Answered(t, granted, token)
        PROVE  seal' \in [Threads -> Seals]
    <3>1. MetaOf(seal[t].id, granted, token) \in Metas BY <1>2, MetaTypes
    <3> QED BY <1>0, <2>2, <3>1 DEF Answered, Seals
  <2>3. GoodAnswer(t) \in Tokens BY <1>2 DEF GoodAnswer, Tokens
  <2>4. BadAnswers(t) \subseteq Tokens BY <1>0, <1>2, AnchorConstants DEF BadAnswers, Tokens
  <2>5. ASSUME Raised(t) PROVE seal' \in [Threads -> Seals]
    <3>1. PICK m \in Metas : m = MetaFailed(seal[t].id) BY <1>2, MetaTypes
    <3>2. seal' = [seal EXCEPT ![t].meta = m] BY <2>5, <3>1 DEF Raised
    <3> QED BY <1>0, <3>1, <3>2 DEF Seals
  <2>6. seal' \in [Threads -> Seals] BY <1>3, <2>2, <2>3, <2>4, <2>5 DEF Request
  <2> QED BY <1>0, <2>1, <2>6
<1>4. CASE WriteToken(t)
  <2>1. [tsr[seal[t].seg] EXCEPT !.token = seal[t].got] \in Anchors BY <1>2 DEF Anchors, Seals
  <2>2. \/ UNCHANGED tsr
        \/ tsr' = [tsr EXCEPT ![seal[t].seg] = [tsr[seal[t].seg] EXCEPT !.token = seal[t].got]]
    BY <1>4 DEF WriteToken
  <2>3. PICK named \in BOOLEAN, failed \in BOOLEAN : Noted(t, named, failed) BY <1>4 DEF WriteToken
  <2>4. seal' \in [Threads -> Seals]
    <3>1. Marked(seal[t].meta, named, failed) \in Metas BY <1>2, MetaTypes DEF Seals
    <3> QED BY <1>0, <2>3, <3>1 DEF Noted, Seals
  <2> QED BY <1>0, <1>2, <2>1, <2>2, <2>4, ExceptSeq
<1>5. CASE WriteMeta(t)
  <2>1. [tsr[seal[t].seg] EXCEPT !.meta = seal[t].meta] \in Anchors BY <1>2 DEF Anchors, Seals
  <2>2. \/ UNCHANGED tsr
        \/ tsr' = [tsr EXCEPT ![seal[t].seg] = [tsr[seal[t].seg] EXCEPT !.meta = seal[t].meta]]
    BY <1>5 DEF WriteMeta
  <2>3. seal' \in [Threads -> Seals] BY <1>0, <1>5, AnchorConstants DEF WriteMeta
  <2> QED BY <1>0, <1>2, <2>1, <2>2, <2>3, ExceptSeq
<1> QED BY <1>3, <1>4, <1>5 DEF Anchor

\* The time-stamp outside the lock keeps the state typed.
LEMMA AnchorType ==
  ASSUME TypeInv, NEW t \in Threads, Anchor(t)
  PROVE  TypeInv'
<1>1. /\ UNCHANGED <<file, torn, sth, tip, head, proc, seq, idx, prev, first, buf, op, end,
                     last, live, acked, crashes>>
      /\ (fh' => fh) /\ \E to \in {"token", "meta", "idle"} : pc' = [pc EXCEPT ![t] = to]
  BY AnchorLeaves
<1>2. /\ pc[t] \in Anchoring /\ fh' \in BOOLEAN /\ faults' \in Nat
      /\ \A u \in Threads : u # t => seal'[u] = seal[u] /\ pc'[u] = pc[u]
      /\ pc'[t] \in {"token", "meta", "idle"}
      /\ pc'[t] # "idle" => seal'[t].seg = seal[t].seg
  BY AnchorKeeps
<1>3. tsr' \in Seq(Anchors) /\ Len(tsr') = Len(tsr) /\ seal' \in [Threads -> Seals] BY AnchorFiles
<1>4. /\ proc = "up" /\ pc[t] \notin Locked BY <1>2, AnchorMove
<1>5. pc' \in [Threads -> Steps] BY <1>1 DEF TypeInv, TypeOK, ControlOK, Steps, Anchoring
<1>6. pc'[t] \notin Locked BY <1>2 DEF Locked
<1>7. Placed'
  <2>1. \A u \in Threads : /\ pc'[u] \in Locked => pc[u] \in Locked /\ pc'[u] = pc[u] /\ u # t
                           /\ pc'[u] \in Anchoring => pc[u] \in Anchoring /\ seal'[u].seg = seal[u].seg
    BY <1>2, <1>4, <1>6 DEF Anchoring
  <2>2. \A u \in Threads : pc'[u] \in {"wrote", "tip", "head", "rotate"} => pc'[u] \in Locked BY DEF Locked
  <2>3. \A u \in Threads : u # t => seal'[u] = seal[u] BY <1>2
  <2> QED BY <1>1, <1>4, <2>1, <2>2, <2>3 DEF TypeInv, Placed
<1>8. DiskOK' BY <1>1, <1>3 DEF TypeInv, TypeOK, DiskOK
<1>9. MemOK' /\ ControlOK' /\ GhostOK'
  BY <1>1, <1>2, <1>3, <1>5 DEF TypeInv, TypeOK, MemOK, ControlOK, GhostOK
<1> QED BY <1>7, <1>8, <1>9 DEF TypeInv, TypeOK

\* A crash, which leaves the directory alone, keeps the state typed.
LEMMA CrashType ==
  ASSUME TypeInv, Crash
  PROVE  TypeInv'
<1>1. DiskOK' /\ GhostOK' BY DEF Crash, TypeInv, TypeOK, DiskOK, GhostOK, disk
<1>2. MemOK'
  <2>1. << >> \in Seq(Line) OBVIOUS
  <2> QED BY <2>1 DEF Crash, MemOK, Genesis
<1>3. ControlOK' BY AnchorConstants DEF Crash, ControlOK, Steps, Anchoring, Ops
<1>4. Placed' BY DEF Crash, Placed, Locked, Anchoring
<1> QED BY <1>1, <1>2, <1>3, <1>4 DEF TypeInv, TypeOK

\* Every step of the writer, its faults and its crashes keeps the state typed.
LEMMA TypeStep ==
  ASSUME TypeInv, [Next]_vars
  PROVE  TypeInv'
<1>1. CASE Next
  BY <1>1, OpenType, CallType, FlushType, WriteType, SealType, HeadType, RotateType, AnchorType,
     CrashType DEF Next, Step, Trouble
<1>2. CASE UNCHANGED vars
  BY <1>2 DEF vars, disk, mem, control, ghost, TypeInv, TypeOK, DiskOK, MemOK, ControlOK, GhostOK, Placed
<1> QED BY <1>1, <1>2

\* The first state, an empty directory and no process, is typed.
LEMMA TypeInit == Init => TypeInv
<1> SUFFICES ASSUME Init PROVE TypeInv OBVIOUS
<1>1. DiskOK BY DEF Init, DiskOK, NoHead
<1>2. MemOK
  <2>1. << >> \in Seq(Line) OBVIOUS
  <2> QED BY <2>1 DEF Init, MemOK, Genesis
<1>3. ControlOK /\ GhostOK BY AnchorConstants DEF Init, ControlOK, GhostOK, Steps, Anchoring, Ops
<1>4. Placed BY DEF Init, Placed, Locked, Anchoring
<1> QED BY <1>1, <1>2, <1>3, <1>4 DEF TypeInv, TypeOK

\* The state of the writer and of its directory keeps its shape: five sidecar
\* sequences aligned with the segments, every thread at a known step.
THEOREM TypeCorrect == Spec => []TypeOK
<1>1. Init => TypeInv BY TypeInit
<1>2. TypeInv /\ [Next]_vars => TypeInv' BY TypeStep
<1>3. TypeInv => TypeOK BY DEF TypeInv
<1> QED BY <1>1, <1>2, <1>3, PTL DEF Spec

-----------------------------------------------------------------------------
(* An acknowledged entry survives: the inductive invariant.                 *)

InFile(a) == \E s \in 1..Len(file) : \E i \in 1..Firm(s) : file[s][i].id = a
InBuf(a)  == \E i \in 1..Len(buf) : buf[i].id = a

\* Every line on disk or queued is an entry.
AllOk ==
  /\ \A i \in 1..Len(buf) : buf[i].ok
  /\ \A s \in 1..Len(file) : \A i \in 1..Len(file[s]) : file[s][i].ok

\* A write never starts after torn bytes, so it never fuses two lines.
CleanEnd ==
  proc = "up" /\ seq \in 1..Len(file) => IF Writing THEN ~end.torn ELSE ~torn[seq]

\* What is acknowledged is firm; what this process appended is firm or queued.
Accounted ==
  /\ \A a \in acked : InFile(a)
  /\ \A a \in live : InFile(a) \/ InBuf(a)
  /\ \A t \in Threads : pc[t] = "tip" => buf = << >>

DurableInv == AllOk /\ CleanEnd /\ Accounted

\* If no firm line is lost or changed, no entry is.
LEMMA FirmStays ==
  ASSUME \A s \in 1..Len(file) : /\ s \in 1..Len(file') /\ 1..Firm(s) \subseteq 1..Firm(s)'
                                 /\ \A i \in 1..Firm(s) : file'[s][i] = file[s][i],
         NEW a, InFile(a)
  PROVE  InFile(a)'
<1>1. PICK s \in 1..Len(file) : \E i \in 1..Firm(s) : file[s][i].id = a BY DEF InFile
<1>2. PICK i \in 1..Firm(s) : file[s][i].id = a BY <1>1
<1>3. s \in 1..Len(file') /\ i \in 1..Firm(s)' /\ file'[s][i].id = a BY <1>1, <1>2
<1> QED BY <1>3 DEF InFile

\* Steps that leave the segment files, the queue and the threads in append_line alone.
LEMMA QuietStep ==
  ASSUME DurableInv, UNCHANGED <<file, torn, buf, end, seq, live>>,
         proc' = "up" => proc = "up",
         \A t \in Threads : pc'[t] = "wrote" <=> pc[t] = "wrote",
         \A t \in Threads : pc'[t] = "tip" => pc[t] = "tip",
         acked' = acked \/ (acked' = acked \cup live /\ buf = << >>)
  PROVE  DurableInv'
<1>1. Writing' <=> Writing BY DEF Writing
<1>2. \A a : InFile(a)' <=> InFile(a) BY <1>1 DEF InFile, Firm
<1>3. \A a : InBuf(a)' <=> InBuf(a) BY DEF InBuf
<1>4. buf = << >> => \A a : ~InBuf(a) BY DEF InBuf
<1>5. AllOk' BY DEF DurableInv, AllOk
<1>6. CleanEnd' BY <1>1 DEF DurableInv, CleanEnd
<1>7. Accounted' BY <1>2, <1>3, <1>4 DEF DurableInv, Accounted
<1> QED BY <1>5, <1>6, <1>7 DEF DurableInv

\* The public calls, the failures outside append_line, seal(), the HEAD and the anchor.
LEMMA QuietActions ==
  ASSUME TypeInv, DurableInv, NEW t \in Threads,
         \/ Call(t) \/ CallRotate(t) \/ FlushClosed(t) \/ TipFails(t)
         \/ SealNothing(t) \/ SealSegment(t) \/ SealFails(t) \/ SealUnsynced(t)
         \/ WriteHead(t) \/ HeadFails(t) \/ Anchor(t)
         \/ FlushNothing(t) \/ WriteTip(t)
  PROVE  DurableInv'
<1>1. /\ UNCHANGED <<file, torn, buf, end, seq, live, proc>> /\ pc[t] # "wrote"
      /\ \E to \in Steps \ {"wrote", "tip"} : pc' = [pc EXCEPT ![t] = to]
      /\ acked' = acked \/ (acked' = acked \cup live /\ buf = << >>)
  <2>1. CASE Call(t) \/ CallRotate(t)
    BY <2>1 DEF Call, CallRotate, Enter, Idle, disk, mem, ghost, Steps, Anchoring, Locked
  <2>2. CASE FlushClosed(t) \/ TipFails(t) \/ SealNothing(t) \/ SealFails(t)
    BY <2>2 DEF FlushClosed, TipFails, SealNothing, SealFails, Sealing, Raise, Leave,
       disk, ghost, Steps, Anchoring
  <2>5. CASE Anchor(t) BY <2>5, AnchorLeaves DEF Steps, Anchoring
  <2>3. CASE SealSegment(t) \/ SealUnsynced(t) \/ WriteHead(t) \/ HeadFails(t)
    BY <2>3 DEF SealSegment, SealUnsynced, WriteHead, HeadFails, Sealing, Raise, Leave,
       mem, ghost, Steps, Anchoring, Locked
  <2>4. CASE FlushNothing(t) \/ WriteTip(t)
    <3>1. buf = << >> BY <2>4 DEF FlushNothing, WriteTip, DurableInv, Accounted
    <3>2. \E to \in Steps \ {"wrote", "tip"} : pc' = [pc EXCEPT ![t] = to]
      BY <2>4 DEF FlushNothing, WriteTip, AfterFlush, Leave, Steps, Anchoring, Locked
    <3> QED BY <2>4, <3>1, <3>2 DEF FlushNothing, WriteTip, AfterFlush, disk
  <2> QED BY <2>1, <2>2, <2>3, <2>4, <2>5
<1>2. \A u \in Threads : /\ pc'[u] = "wrote" <=> pc[u] = "wrote"
                         /\ pc'[u] = "tip" => pc[u] = "tip"
  BY <1>1 DEF TypeInv, TypeOK, ControlOK
<1> QED BY <1>1, <1>2, QuietStep

\* append() queues one more entry.
LEMMA AppendDurable ==
  ASSUME TypeInv, DurableInv, NEW t \in Threads, AppendEntry(t)
  PROVE  DurableInv'
<1> DEFINE entry == [ok |-> TRUE, id |-> last.entry + 1, idx |-> idx, prev |-> prev]
<1>2. buf \in Seq(Line) /\ entry \in Line BY DEF TypeInv, TypeOK, MemOK, GhostOK, Line
<1>12. PICK e \in Line : e = entry BY <1>2
<1>1. /\ buf' = Append(buf, e) /\ live' = live \cup {e.id} /\ e.ok
      /\ UNCHANGED <<file, torn, end, seq, proc, acked>>
      /\ \A u \in Threads : pc[u] \notin Locked
  BY <1>12 DEF AppendEntry, Idle, LockFree, disk
<1>3. /\ Len(buf') = Len(buf) + 1 /\ Len(buf) \in Nat /\ buf'[Len(buf) + 1] = e
      /\ \A i \in 1..Len(buf) : buf'[i] = buf[i]
  BY <1>1, <1>2, AppendProperties
<1>4. \A u \in Threads : pc'[u] \notin {"wrote", "tip"}
  <2>1. PICK to \in {"flush", "due", "idle"} : pc' = [pc EXCEPT ![t] = to]
    BY DEF AppendEntry, Enter
  <2> QED BY <1>1, <2>1 DEF TypeInv, TypeOK, ControlOK, Locked
<1>5. ~Writing /\ ~Writing' BY <1>1, <1>4 DEF Writing, Locked
<1>6. \A a : InFile(a) => InFile(a)' BY <1>1, <1>5 DEF InFile, Firm
<1>7. \A a : InBuf(a) => InBuf(a)' BY <1>3 DEF InBuf
<1>8. InBuf(e.id)' BY <1>3 DEF InBuf
<1>9. AllOk' BY <1>1, <1>3 DEF DurableInv, AllOk
<1>10. CleanEnd' BY <1>1, <1>5 DEF DurableInv, CleanEnd
<1>11. Accounted' BY <1>1, <1>4, <1>6, <1>7, <1>8 DEF DurableInv, Accounted
<1> QED BY <1>9, <1>10, <1>11 DEF DurableInv

\* A new segment starts empty and clean; the others stay.
LEMMA CreateDurable ==
  ASSUME TypeInv, CreateSegment
  PROVE  /\ Len(file') = Len(file) + 1 /\ Len(file) \in Nat
         /\ \A s \in 1..Len(file) : file'[s] = file[s]
         /\ file'[Len(file) + 1] = << >> /\ ~torn'[Len(file) + 1]
<1>1. file \in Seq(Seq(Line)) /\ torn \in Seq(BOOLEAN) /\ Len(torn) = Len(file) /\ Len(file) \in Nat
  BY DEF TypeInv, TypeOK, DiskOK
<1>2. << >> \in Seq(Line) OBVIOUS
<1> QED BY <1>1, <1>2, AppendProperties DEF CreateSegment

\* Opening a fresh segment, at start-up or by rotation, or failing to.
LEMMA FreshDurable ==
  ASSUME TypeInv, DurableInv,
         OpenFresh \/ \E t \in Threads : RotateSegment(t) \/ RotateFails(t)
  PROVE  DurableInv'
<1>1. /\ UNCHANGED <<end, live, acked, buf>> /\ seq' = Len(file) + 1
      /\ CreateSegment \/ UNCHANGED <<file, torn>>
      /\ ~Writing /\ ~Writing' /\ \A u \in Threads : pc'[u] # "tip"
  <2>1. CASE OpenFresh
    <3>1. \A u \in Threads : pc[u] = "idle" BY <2>1 DEF OpenFresh, TypeInv, Placed
    <3> QED BY <2>1, <3>1 DEF OpenFresh, control, ghost, Writing
  <2>2. CASE \E t \in Threads : RotateSegment(t) \/ RotateFails(t)
    <3>0. PICK t \in Threads : RotateSegment(t) \/ RotateFails(t) BY <2>2
    <3>1. pc[t] = "rotate" BY <3>0 DEF RotateSegment, RotateFails
    <3>2. proc = "up" /\ \A u \in Threads : u # t => pc[u] \notin Locked
      BY <3>1, InCall DEF Locked
    <3>3. seq = Len(file) BY <3>1, <3>2 DEF TypeInv, TypeOK, DiskOK, Placed
    <3>4. PICK to \in {"anchor", "idle"} : pc' = [pc EXCEPT ![t] = to]
      BY <3>0 DEF RotateSegment, RotateFails
    <3>5. \A u \in Threads : /\ pc[u] # "wrote" /\ pc'[u] # "wrote" /\ pc'[u] # "tip"
      BY <3>1, <3>2, <3>4 DEF TypeInv, TypeOK, ControlOK, Locked
    <3> QED BY <3>0, <3>3, <3>5 DEF RotateSegment, RotateFails, NextSegment, ghost, Writing
  <2> QED BY <2>1, <2>2
<1>2. /\ Len(file) \in Nat /\ Len(file) <= Len(file') /\ Len(file') \in Nat
      /\ \A s \in 1..Len(file) : file'[s] = file[s]
      /\ \A s \in 1..Len(file') : s \in 1..Len(file) \/ (s = Len(file) + 1 /\ file'[s] = << >>)
      /\ seq' \in 1..Len(file') => ~torn'[seq']
  <2>1. Len(file) \in Nat BY DEF TypeInv, TypeOK, DiskOK
  <2>2. CASE UNCHANGED <<file, torn>> BY <1>1, <2>1, <2>2
  <2>3. CASE CreateSegment BY <1>1, <2>3, CreateDurable
  <2> QED BY <1>1, <2>2, <2>3
<1>3. \A a : InFile(a) => InFile(a)'
  BY <1>1, <1>2 DEF InFile, Firm
<1>4. \A a : InBuf(a) => InBuf(a)' BY <1>1 DEF InBuf
<1>5. AllOk' BY <1>1, <1>2 DEF DurableInv, AllOk
<1>6. CleanEnd' BY <1>1, <1>2 DEF CleanEnd
<1>7. Accounted' BY <1>1, <1>3, <1>4 DEF DurableInv, Accounted
<1> QED BY <1>5, <1>6, <1>7 DEF DurableInv

\* The lines the writer left all parse, so _resume keeps them all.
LEMMA ResumeDurable ==
  ASSUME TypeInv, DurableInv, Resume
  PROVE  DurableInv'
<1> DEFINE lines == file[Len(file)]
<1>1. /\ file \in Seq(Seq(Line)) /\ Len(file) \in 1..Len(file) /\ lines \in Seq(Line)
      /\ torn \in Seq(BOOLEAN) /\ Len(torn) = Len(file) /\ Len(lines) \in Nat
  BY DEF Resume, TypeInv, TypeOK, DiskOK
<1>2. \A i \in 1..Len(lines) : lines[i].ok BY <1>1 DEF DurableInv, AllOk
<1>3. Kept(lines) = Len(lines) BY <1>1, <1>2, KeptBound
<1>4. SubSeq(lines, 1, Kept(lines)) = lines
  <2>1. Len(lines) \in 0..Len(lines) BY <1>1
  <2>2. /\ SubSeq(lines, 1, Len(lines)) \in Seq(Line) /\ Len(SubSeq(lines, 1, Len(lines))) = Len(lines)
        /\ \A i \in 1..Len(lines) : SubSeq(lines, 1, Len(lines))[i] = lines[i]
    BY <1>1, <2>1, KeepLines
  <2> QED BY <1>1, <1>3, <2>2, SeqEqual
<1>5. /\ file' = [file EXCEPT ![Len(file)] = SubSeq(lines, 1, Kept(lines))]
      /\ torn' = [torn EXCEPT ![Len(file)] = FALSE] /\ seq' = Len(file)
      /\ UNCHANGED <<buf, end, live, acked, pc>>
  BY DEF Resume, control, ghost
<1> HIDE DEF lines
<1>6. file' = file BY <1>1, <1>4, <1>5 DEF lines
<1>7. ~torn'[seq'] BY <1>1, <1>5
<1>8. ~Writing /\ ~Writing' /\ \A u \in Threads : pc'[u] # "tip"
  <2>1. \A u \in Threads : pc[u] = "idle" BY DEF Resume, TypeInv, Placed
  <2> QED BY <1>5, <2>1 DEF Writing
<1>9. \A a : InFile(a) => InFile(a)' BY <1>6, <1>8 DEF InFile, Firm
<1>10. \A a : InBuf(a) => InBuf(a)' BY <1>5 DEF InBuf
<1>11. AllOk' BY <1>5, <1>6 DEF DurableInv, AllOk
<1>12. CleanEnd' BY <1>7, <1>8 DEF CleanEnd
<1>13. Accounted' BY <1>5, <1>8, <1>9, <1>10 DEF DurableInv, Accounted
<1> QED BY <1>11, <1>12, <1>13 DEF DurableInv

\* Firm lines are lines.
LEMMA FirmBound ==
  ASSUME TypeInv, NEW s \in 1..Len(file)
  PROVE  Firm(s) \in 0..Len(file[s]) /\ Len(file[s]) \in Nat
<1>1. file[s] \in Seq(Line) BY ElementOfSeq DEF TypeInv, TypeOK, DiskOK
<1>2. s = seq /\ Writing => end.lines \in 0..Len(file[s]) BY DEF Writing, TypeInv, Placed
<1> QED BY <1>1, <1>2 DEF Firm

\* A crash loses the queue, which nobody was told about, and frees every line.
LEMMA CrashDurable ==
  ASSUME TypeInv, DurableInv, Crash
  PROVE  DurableInv'
<1>1. UNCHANGED <<file, acked>> /\ live' = {} /\ buf' = << >> /\ proc' = "down"
  BY DEF Crash, disk
<1>2. \A u \in Threads : pc'[u] = "idle" BY DEF Crash
<1>3. ~Writing' BY <1>2 DEF Writing
<1>4. \A s \in 1..Len(file) : /\ s \in 1..Len(file') /\ 1..Firm(s) \subseteq 1..Firm(s)'
                              /\ \A i \in 1..Firm(s) : file'[s][i] = file[s][i]
  <2> TAKE s \in 1..Len(file)
  <2>1. Firm(s) \in 0..Len(file[s]) /\ Len(file[s]) \in Nat BY FirmBound
  <2>2. Firm(s)' = Len(file[s]) BY <1>1, <1>3 DEF Firm
  <2> QED BY <1>1, <2>1, <2>2
<1>5. \A a : InFile(a) => InFile(a)' BY <1>4, FirmStays
<1>6. AllOk' BY <1>1 DEF DurableInv, AllOk
<1>7. CleanEnd' BY <1>1 DEF CleanEnd
<1>8. Accounted' BY <1>1, <1>2, <1>5 DEF DurableInv, Accounted
<1> QED BY <1>6, <1>7, <1>8 DEF DurableInv

\* The first part of a batch is on disk: nothing firm is touched, and the old
\* end, which was clean, is remembered.
LEMMA WriteSomeDurable ==
  ASSUME TypeInv, DurableInv, NEW t \in Threads, WriteSome(t)
  PROVE  DurableInv'
<1>1. /\ pc[t] \in Locked /\ seq \in 1..Len(file) /\ pc' = [pc EXCEPT ![t] = "wrote"]
      /\ end' = [lines |-> Len(file[seq]), torn |-> torn[seq]]
      /\ UNCHANGED <<proc, seq, buf, live, acked>> /\ pc[t] = "flush"
  BY DEF WriteSome, Locked, mem, ghost, TypeInv, Placed
<1>2. proc = "up" /\ \A u \in Threads : u # t => pc[u] \notin Locked BY <1>1, InCall
<1>3. ~Writing /\ Writing' /\ \A u \in Threads : pc'[u] # "tip"
  BY <1>1, <1>2 DEF Writing, TypeInv, TypeOK, ControlOK, Locked
<1>4. ~torn[seq] BY <1>1, <1>2, <1>3 DEF DurableInv, CleanEnd
<1>5. /\ file \in Seq(Seq(Line)) /\ file[seq] \in Seq(Line) /\ buf \in Seq(Line)
      /\ Len(file[seq]) \in Nat /\ Len(buf) \in Nat
  BY <1>1, ElementOfSeq DEF TypeInv, TypeOK, DiskOK, MemOK
<1>6. PICK k \in 0..Len(buf) : file' = [file EXCEPT ![seq] = @ \o Joined(torn[seq], SubSeq(buf, 1, k))]
  BY DEF WriteSome
<1>7. PICK new \in Seq(Line) :
        new = SubSeq(buf, 1, k) /\ Len(new) = k /\ \A i \in 1..k : new[i] = buf[i]
  BY <1>5, KeepLines
<1>8. PICK old \in Seq(Line) : old = file[seq] BY <1>5
<1>17. PICK ls : ls = old \o new OBVIOUS
<1>9. /\ ls \in Seq(Line) /\ Len(ls) = Len(old) + Len(new) /\ Len(old) \in Nat /\ Len(new) \in Nat
      /\ \A i \in 1..Len(old) : ls[i] = old[i]
      /\ \A i \in 1..Len(ls) : ls[i].ok
  <2>1. \A i \in 1..Len(old) : old[i].ok BY <1>1, <1>8 DEF DurableInv, AllOk
  <2>2. \A i \in 1..Len(new) : new[i].ok BY <1>5, <1>7 DEF DurableInv, AllOk
  <2> QED BY <1>17, <2>1, <2>2, ConcatLines
<1>10. /\ Len(file') = Len(file) /\ file'[seq] = ls
       /\ \A s \in 1..Len(file) : s # seq => file'[s] = file[s]
  <2>1. file' = [file EXCEPT ![seq] = ls] BY <1>4, <1>6, <1>7, <1>8, <1>17 DEF Joined
  <2> QED BY <1>1, <1>5, <1>9, <2>1, ExceptSeq
<1>11. \A s \in 1..Len(file) : /\ s \in 1..Len(file') /\ 1..Firm(s) \subseteq 1..Firm(s)'
                               /\ \A i \in 1..Firm(s) : file'[s][i] = file[s][i]
  BY <1>1, <1>3, <1>8, <1>9, <1>10 DEF Firm
<1>12. \A a : InFile(a) => InFile(a)' BY <1>11, FirmStays
<1>13. \A a : InBuf(a) => InBuf(a)' BY <1>1 DEF InBuf
<1>14. AllOk' BY <1>1, <1>9, <1>10 DEF DurableInv, AllOk
<1>15. CleanEnd' BY <1>1, <1>3, <1>4 DEF CleanEnd
<1>16. Accounted' BY <1>1, <1>3, <1>12, <1>13 DEF DurableInv, Accounted
<1> QED BY <1>14, <1>15, <1>16 DEF DurableInv

\* A failed write goes back to the end it remembered.
LEMMA WriteFailsDurable ==
  ASSUME TypeInv, DurableInv, NEW t \in Threads, WriteFails(t)
  PROVE  DurableInv'
<1>1. /\ pc[t] = "wrote" /\ seq \in 1..Len(file) /\ pc' = [pc EXCEPT ![t] = "idle"]
      /\ file' = [file EXCEPT ![seq] = SubSeq(file[seq], 1, end.lines)]
      /\ torn' = [torn EXCEPT ![seq] = end.torn]
      /\ UNCHANGED <<proc, seq, buf, live, acked>> /\ end.lines \in 0..Len(file[seq])
  BY DEF WriteFails, Raise, Leave, TypeInv, Placed
<1>2. proc = "up" /\ \A u \in Threads : u # t => pc[u] \notin Locked
  BY <1>1, InCall DEF Locked
<1>3. Writing /\ ~Writing' /\ \A u \in Threads : pc'[u] # "tip"
  BY <1>1, <1>2 DEF Writing, TypeInv, TypeOK, ControlOK, Locked
<1>4. ~end.torn BY <1>1, <1>2, <1>3 DEF DurableInv, CleanEnd
<1>5. /\ file \in Seq(Seq(Line)) /\ file[seq] \in Seq(Line) /\ Len(file[seq]) \in Nat
      /\ torn \in Seq(BOOLEAN) /\ seq \in 1..Len(torn)
  BY <1>1, ElementOfSeq DEF TypeInv, TypeOK, DiskOK
<1> DEFINE ls == SubSeq(file[seq], 1, end.lines)
<1>6. /\ ls \in Seq(Line) /\ Len(ls) = end.lines /\ \A i \in 1..end.lines : ls[i] = file[seq][i]
  BY <1>1, <1>5, KeepLines
<1> HIDE DEF ls
<1>7. /\ Len(file') = Len(file) /\ file'[seq] = ls
      /\ \A s \in 1..Len(file) : s # seq => file'[s] = file[s]
  BY <1>1, <1>5, <1>6, ExceptSeq DEF ls
<1>8. \A s \in 1..Len(file) : /\ s \in 1..Len(file') /\ 1..Firm(s) \subseteq 1..Firm(s)'
                              /\ \A i \in 1..Firm(s) : file'[s][i] = file[s][i]
  BY <1>1, <1>3, <1>5, <1>6, <1>7 DEF Firm
<1>9. \A a : InFile(a) => InFile(a)' BY <1>8, FirmStays
<1>10. \A a : InBuf(a) => InBuf(a)' BY <1>1 DEF InBuf
<1>11. AllOk' BY <1>1, <1>5, <1>6, <1>7 DEF DurableInv, AllOk
<1>12. CleanEnd'
  <2>1. ~torn'[seq] BY <1>1, <1>4, <1>5
  <2> QED BY <1>1, <1>3, <2>1 DEF CleanEnd
<1>13. Accounted' BY <1>1, <1>3, <1>9, <1>10 DEF DurableInv, Accounted
<1> QED BY <1>11, <1>12, <1>13 DEF DurableInv

\* The whole batch is on disk and synced: what was queued is firm.
LEMMA SyncDurable ==
  ASSUME TypeInv, DurableInv, NEW t \in Threads, SyncBatch(t)
  PROVE  DurableInv'
<1>1. /\ pc[t] = "wrote" /\ seq \in 1..Len(file) /\ pc' = [pc EXCEPT ![t] = "tip"]
      /\ file' = [file EXCEPT ![seq] = SubSeq(file[seq], 1, end.lines) \o Joined(end.torn, buf)]
      /\ torn' = [torn EXCEPT ![seq] = FALSE] /\ buf' = << >>
      /\ UNCHANGED <<proc, seq, live, acked>> /\ end.lines \in 0..Len(file[seq])
  BY DEF SyncBatch, ghost, TypeInv, Placed
<1>2. proc = "up" /\ \A u \in Threads : u # t => pc[u] \notin Locked
  BY <1>1, InCall DEF Locked
<1>3. Writing /\ ~Writing'
  BY <1>1, <1>2 DEF Writing, TypeInv, TypeOK, ControlOK, Locked
<1>4. ~end.torn BY <1>1, <1>2, <1>3 DEF DurableInv, CleanEnd
<1>5. /\ file \in Seq(Seq(Line)) /\ file[seq] \in Seq(Line) /\ Len(file[seq]) \in Nat
      /\ torn \in Seq(BOOLEAN) /\ seq \in 1..Len(torn) /\ buf \in Seq(Line) /\ Len(buf) \in Nat
  BY <1>1, ElementOfSeq DEF TypeInv, TypeOK, DiskOK, MemOK
<1>6. PICK old \in Seq(Line) :
        /\ old = SubSeq(file[seq], 1, end.lines) /\ Len(old) = end.lines
        /\ \A i \in 1..end.lines : old[i] = file[seq][i]
  BY <1>1, <1>5, KeepLines
<1>16. PICK new \in Seq(Line) : new = buf BY <1>5
<1>7. PICK ls : ls = old \o new OBVIOUS
<1>17. seq \in 1..Len(file) /\ UNCHANGED <<proc, seq, live, acked>> /\ buf' = << >> BY <1>1
<1>8. /\ ls \in Seq(Line) /\ Len(ls) = Len(old) + Len(new) /\ Len(old) \in Nat
      /\ \A i \in 1..Len(old) : ls[i] = old[i]
      /\ \A j \in 1..Len(new) : ls[Len(old) + j] = new[j]
      /\ \A i \in 1..Len(ls) : ls[i].ok
  <2>1. \A i \in 1..Len(file[seq]) : file[seq][i].ok BY <1>1 DEF DurableInv, AllOk
  <2>2. \A i \in 1..Len(old) : old[i].ok BY <1>1, <1>5, <1>6, <2>1
  <2>3. \A i \in 1..Len(new) : new[i].ok BY <1>16 DEF DurableInv, AllOk
  <2> QED BY <1>7, <2>2, <2>3, ConcatLines
<1>9. /\ Len(file') = Len(file) /\ file'[seq] = ls
      /\ \A s \in 1..Len(file) : s # seq => file'[s] = file[s]
  <2>1. file' = [file EXCEPT ![seq] = ls] BY <1>1, <1>4, <1>6, <1>7, <1>16 DEF Joined
  <2> QED BY <1>5, <1>8, <1>17, <2>1, ExceptSeq
<1>10. \A s \in 1..Len(file) : /\ s \in 1..Len(file') /\ 1..Firm(s) \subseteq 1..Firm(s)'
                               /\ \A i \in 1..Firm(s) : file'[s][i] = file[s][i]
  <2>1. Len(old) = end.lines /\ \A i \in 1..Len(old) : old[i] = file[seq][i] BY <1>6
  <2>2. \A s \in 1..Len(file) : Firm(s)' = Len(file'[s]) BY <1>3 DEF Firm
  <2>3. \A s \in 1..Len(file) : Firm(s) = IF s = seq THEN Len(old) ELSE Len(file[s])
    BY <1>3, <2>1 DEF Firm
  <2>4. Len(new) \in Nat OBVIOUS
  <2> TAKE s \in 1..Len(file)
  <2>5. CASE s = seq
    <3>1. Firm(s) = Len(old) /\ Firm(s)' = Len(ls) BY <1>9, <2>2, <2>3, <2>5
    <3>2. 1..Len(old) \subseteq 1..Len(ls) BY <1>8, <2>4
    <3> QED BY <1>8, <1>9, <2>1, <2>5, <3>1, <3>2
  <2>6. CASE s # seq
    <3>1. Firm(s) = Len(file[s]) /\ Firm(s)' = Len(file[s]) BY <1>9, <2>2, <2>3, <2>6
    <3> QED BY <1>9, <2>6, <3>1
  <2> QED BY <2>5, <2>6
<1>11. \A a : InFile(a) => InFile(a)' BY <1>10, FirmStays
<1>12. \A a : InBuf(a) => InFile(a)'
  <2> SUFFICES ASSUME NEW a, NEW j \in 1..Len(buf), buf[j].id = a PROVE InFile(a)'
    BY DEF InBuf
  <2>1. Len(old) + j \in 1..Len(ls) /\ ls[Len(old) + j] = buf[j]
    BY <1>5, <1>8, <1>16
  <2>2. Firm(seq)' = Len(ls) BY <1>3, <1>9, <1>1 DEF Firm
  <2> QED BY <1>1, <1>9, <2>1, <2>2 DEF InFile
<1>13. AllOk' BY <1>8, <1>9, <1>17 DEF DurableInv, AllOk
<1>14. CleanEnd' BY <1>1, <1>3, <1>5 DEF CleanEnd
<1>15. Accounted' BY <1>1, <1>11, <1>12 DEF DurableInv, Accounted
<1> QED BY <1>13, <1>14, <1>15 DEF DurableInv

\* Without a failing ftruncate every step keeps the invariant.
LEMMA DurableStep ==
  ASSUME "rollback" \notin Faults, TypeInv, DurableInv, [Next]_vars
  PROVE  DurableInv'
<1>1. CASE UNCHANGED vars
  BY <1>1, QuietStep DEF vars, disk, mem, control, ghost
<1>2. CASE RefuseResume
  BY <1>2, QuietStep DEF RefuseResume, disk, mem, control, ghost
<1>3. ASSUME NEW t \in Threads PROVE ~RollbackFails(t)
  BY DEF RollbackFails, Fail
<1>4. CASE OpenFresh \/ \E t \in Threads : RotateSegment(t) \/ RotateFails(t)
  BY <1>4, FreshDurable
<1>5. CASE \E t \in Threads : AppendEntry(t) BY <1>5, AppendDurable
<1>6. CASE \E t \in Threads : WriteSome(t) \/ SyncBatch(t) \/ WriteFails(t)
  BY <1>6, WriteSomeDurable, SyncDurable, WriteFailsDurable
<1>7. CASE \E t \in Threads :
             \/ Call(t) \/ CallRotate(t) \/ FlushClosed(t) \/ TipFails(t)
             \/ SealNothing(t) \/ SealSegment(t) \/ SealFails(t) \/ SealUnsynced(t)
             \/ WriteHead(t) \/ HeadFails(t) \/ Anchor(t)
             \/ FlushNothing(t) \/ WriteTip(t)
  BY <1>7, QuietActions
<1>8. CASE Resume BY <1>8, ResumeDurable
<1>9. CASE Crash BY <1>9, CrashDurable
<1> QED BY <1>1, <1>2, <1>3, <1>4, <1>5, <1>6, <1>7, <1>8, <1>9 DEF Next, Step, Trouble

\* The invariant says what a reader of the archive needs.
LEMMA DurableImplies == TypeInv /\ DurableInv => AckedRecoverable
<1> SUFFICES ASSUME TypeInv, DurableInv, NEW a \in acked
             PROVE  \E s \in 1..Len(file) : \E i \in 1..Kept(file[s]) : file[s][i].id = a
  BY DEF AckedRecoverable
<1>1. PICK s \in 1..Len(file) : \E i \in 1..Firm(s) : file[s][i].id = a
  BY DEF DurableInv, Accounted, InFile
<1>2. Firm(s) \in 0..Len(file[s]) /\ Len(file[s]) \in Nat BY FirmBound
<1>3. file[s] \in Seq(Line) BY ElementOfSeq DEF TypeInv, TypeOK, DiskOK
<1>4. Kept(file[s]) = Len(file[s]) BY <1>3, KeptBound DEF DurableInv, AllOk
<1> QED BY <1>1, <1>2, <1>4

\* "An entry is DURABLE only after flush() returned": however many threads,
\* batches, failed writes, failed seals, rotations and crashes there are, an
\* entry that some flush() returned for is among the lines _resume keeps, as
\* long as append_line's ftruncate does not itself fail.
THEOREM AckedEntriesSurvive ==
  ASSUME "rollback" \notin Faults
  PROVE  Spec => []AckedRecoverable
<1>1. Init => TypeInv /\ DurableInv
  <2> SUFFICES ASSUME Init PROVE DurableInv BY TypeInit
  <2>1. AllOk BY DEF Init, AllOk
  <2>2. CleanEnd /\ Accounted BY DEF Init, CleanEnd, Accounted
  <2> QED BY <2>1, <2>2 DEF DurableInv
<1>2. TypeInv /\ DurableInv /\ [Next]_vars => (TypeInv /\ DurableInv)'
  BY TypeStep, DurableStep
<1>3. TypeInv /\ DurableInv => AckedRecoverable BY DurableImplies
<1> QED BY <1>1, <1>2, <1>3, PTL DEF Spec

-----------------------------------------------------------------------------
(* Sealed segments are never touched again, if seal() gets through.         *)

\* No seal() is between its STH and the next segment.
NotSealing == \A t \in Threads : pc[t] \notin {"head", "rotate"}

\* The segment the writer appends to has no STH.
ActiveUnsealed ==
  proc = "up" /\ seq \in 1..Len(file) /\ NotSealing => sth[seq] = NoSth

\* The faults that stop seal() after the STH is in place.
SealFaults == {"sthsync", "head", "headsync"}

\* Nothing of a segment changes, or only the active, unsealed one does.
LEMMA SealedStays ==
  ASSUME TypeInv,
         \/ UNCHANGED <<file, torn, sth>>
         \/ CreateSegment
         \/ \E n \in 1..Len(file) : /\ sth[n] = NoSth
               /\ \E ls \in Seq(Line) : file' = [file EXCEPT ![n] = ls]
               /\ \E cut \in BOOLEAN : torn' = [torn EXCEPT ![n] = cut]
               /\ UNCHANGED sth
         \/ /\ UNCHANGED <<file, torn>> /\ seq \in 1..Len(file) /\ sth[seq] = NoSth
            /\ sth' = [sth EXCEPT ![seq] = NewSth]
  PROVE  SealedKept
<1>1. /\ file \in Seq(Seq(Line)) /\ torn \in Seq(BOOLEAN) /\ sth \in Seq(Sth)
      /\ Len(torn) = Len(file) /\ Len(sth) = Len(file) /\ Len(file) \in Nat
  BY DEF TypeInv, TypeOK, DiskOK
<1>2. CASE UNCHANGED <<file, torn, sth>> BY <1>1, <1>2 DEF SealedKept, Sealed
<1>3. CASE CreateSegment
  <2>1. << >> \in Seq(Line) /\ NoSth \in Sth BY DEF NoSth, Sth, Genesis
  <2>2. Len(file') = Len(file) + 1 /\ \A s \in 1..Len(file) : file'[s] = file[s]
    BY <1>1, <1>3, <2>1, AppendProperties DEF CreateSegment
  <2>3. \A s \in 1..Len(file) : torn'[s] = torn[s]
    <3>1. PICK f \in BOOLEAN : torn' = Append(torn, f) BY <1>3 DEF CreateSegment
    <3>2. \A s \in 1..Len(torn) : Append(torn, f)[s] = torn[s] BY <1>1, AppendProperties
    <3> QED BY <1>1, <3>1, <3>2
  <2>4. \A s \in 1..Len(file) : sth'[s] = sth[s]
    BY <1>1, <1>3, <2>1, AppendProperties DEF CreateSegment
  <2> QED BY <1>1, <2>2, <2>3, <2>4 DEF SealedKept, Sealed
<1>4. ASSUME NEW n \in 1..Len(file), sth[n] = NoSth, UNCHANGED sth,
             NEW ls \in Seq(Line), file' = [file EXCEPT ![n] = ls],
             NEW cut \in BOOLEAN, torn' = [torn EXCEPT ![n] = cut]
      PROVE  SealedKept
  <2>1. Len(file') = Len(file) /\ \A s \in 1..Len(file) : s # n => file'[s] = file[s]
    BY <1>1, <1>4, ExceptSeq
  <2>2. \A s \in 1..Len(file) : s # n => torn'[s] = torn[s] BY <1>1, <1>4, ExceptSeq
  <2> QED BY <1>1, <1>4, <2>1, <2>2 DEF SealedKept, Sealed
<1>5. ASSUME UNCHANGED <<file, torn>>, seq \in 1..Len(file), sth[seq] = NoSth,
             sth' = [sth EXCEPT ![seq] = NewSth]
      PROVE  SealedKept
  <2>1. NewSth \in Sth BY <1>5, NewSthType
  <2>2. \A s \in 1..Len(file) : s # seq => sth'[s] = sth[s] BY <1>1, <1>5, <2>1, ExceptSeq
  <2> QED BY <1>1, <1>5, <2>2 DEF SealedKept, Sealed
<1> QED BY <1>2, <1>3, <1>4, <1>5

\* A thread under the lock, before it sealed, works on an unsealed segment.
LEMMA UnsealedHere ==
  ASSUME TypeInv, ActiveUnsealed, NEW t \in Threads, pc[t] \in Locked \ {"head", "rotate"},
         seq \in 1..Len(file)
  PROVE  sth[seq] = NoSth /\ NotSealing
<1>1. proc = "up" /\ \A u \in Threads : u # t => pc[u] \notin Locked BY InCall
<1>2. NotSealing BY <1>1 DEF NotSealing, Locked
<1> QED BY <1>1, <1>2 DEF ActiveUnsealed

\* What every step does to the segments.
LEMMA SealedStep ==
  ASSUME TypeInv, ActiveUnsealed, [Next]_vars
  PROVE  SealedKept
<1>1. CASE OpenFresh \/ \E t \in Threads : RotateSegment(t) \/ RotateFails(t)
  <2>1. CreateSegment \/ UNCHANGED <<file, torn, sth>>
    BY <1>1 DEF OpenFresh, RotateSegment, RotateFails
  <2> QED BY <2>1, SealedStays
<1>2. CASE Resume
  <2>1. /\ Len(file) \in 1..Len(file) /\ file[Len(file)] \in Seq(Line)
    BY <1>2, ElementOfSeq DEF Resume, TypeInv, TypeOK, DiskOK
  <2>2. Kept(file[Len(file)]) \in 0..Len(file[Len(file)]) BY <2>1, KeptBound
  <2>3. SubSeq(file[Len(file)], 1, Kept(file[Len(file)])) \in Seq(Line) BY <2>1, <2>2, KeepLines
  <2>4. /\ file' = [file EXCEPT ![Len(file)] = SubSeq(file[Len(file)], 1, Kept(file[Len(file)]))]
        /\ torn' = [torn EXCEPT ![Len(file)] = FALSE] /\ UNCHANGED sth /\ sth[Len(file)] = NoSth
    BY <1>2 DEF Resume
  <2> QED BY <2>1, <2>3, <2>4, SealedStays
<1>3. ASSUME NEW t \in Threads, WriteSome(t) \/ SyncBatch(t) \/ WriteFails(t)
      PROVE  SealedKept
  <2>1. seq \in 1..Len(file) /\ pc[t] \in Locked \ {"head", "rotate"}
    BY <1>3 DEF WriteSome, SyncBatch, WriteFails, Locked, TypeInv, Placed
  <2>2. sth[seq] = NoSth BY <2>1, UnsealedHere
  <2>3. TypeInv' BY <1>3, WriteType
  <2>4. file' \in Seq(Seq(Line)) /\ torn' \in Seq(BOOLEAN) /\ UNCHANGED sth
    BY <1>3, <2>3 DEF TypeInv, TypeOK, DiskOK, WriteSome, SyncBatch, WriteFails
  <2>5. \E ls, cut : file' = [file EXCEPT ![seq] = ls] /\ torn' = [torn EXCEPT ![seq] = cut]
    BY <1>3 DEF WriteSome, SyncBatch, WriteFails
  <2>6. PICK ls, cut : file' = [file EXCEPT ![seq] = ls] /\ torn' = [torn EXCEPT ![seq] = cut]
    BY <2>5
  <2>7. ls \in Seq(Line) /\ cut \in BOOLEAN
    <3>1. file'[seq] = ls /\ torn'[seq] = cut
      BY <2>1, <2>6 DEF TypeInv, TypeOK, DiskOK
    <3>2. seq \in 1..Len(file') /\ seq \in 1..Len(torn')
      BY <2>1, <2>3, <2>6 DEF TypeInv, TypeOK, DiskOK
    <3> QED BY <2>4, <3>1, <3>2, ElementOfSeq
  <2> QED BY <2>1, <2>2, <2>4, <2>6, <2>7, SealedStays
<1>4. ASSUME NEW t \in Threads, SealSegment(t) \/ SealUnsynced(t)
      PROVE  SealedKept
  <2>1. pc[t] = "sealing" /\ Readable(seq) /\ PutSth /\ UNCHANGED <<file, torn>>
    BY <1>4 DEF SealSegment, SealUnsynced, Sealing
  <2>2. proc = "up" BY <2>1, InCall DEF Locked
  <2>3. seq \in 1..Len(file) BY <2>1, <2>2 DEF Readable, TypeInv, Placed
  <2>4. sth[seq] = NoSth BY <2>1, <2>3, UnsealedHere DEF Locked
  <2> QED BY <2>1, <2>3, <2>4, SealedStays DEF PutSth
<1>5. CASE UNCHANGED <<file, torn, sth>> BY <1>5, SealedStays
<1>6. CASE \/ UNCHANGED vars \/ RefuseResume \/ Crash
           \/ \E t \in Threads :
                \/ AppendEntry(t) \/ Call(t) \/ CallRotate(t) \/ FlushNothing(t) \/ FlushClosed(t)
                \/ WriteTip(t) \/ TipFails(t) \/ RollbackFails(t) \/ SealNothing(t) \/ SealFails(t)
                \/ WriteHead(t) \/ HeadFails(t) \/ Anchor(t)
  <2>1. UNCHANGED <<file, torn, sth>>
    BY <1>6 DEF vars, disk, RefuseResume, Crash, AppendEntry, Call, CallRotate, FlushNothing,
       FlushClosed, WriteTip, TipFails, RollbackFails, SealNothing, SealFails, WriteHead, HeadFails,
       Anchor, Request, WriteToken, WriteMeta
  <2> QED BY <1>5, <2>1
<1> QED BY <1>1, <1>2, <1>3, <1>4, <1>6 DEF Next, Step, Trouble

\* A step that keeps the segment and does not end a seal() keeps the invariant.
LEMMA ActiveStays ==
  ASSUME ActiveUnsealed, UNCHANGED <<proc, seq, sth>>, Len(file') = Len(file),
         NotSealing' => NotSealing
  PROVE  ActiveUnsealed'
  BY DEF ActiveUnsealed

\* Unless a fault stops seal() half way, the active segment stays unsealed.
LEMMA ActiveStep ==
  ASSUME Faults \cap SealFaults = {}, TypeInv, ActiveUnsealed, [Next]_vars
  PROVE  ActiveUnsealed'
<1>1. CASE UNCHANGED vars
  BY <1>1, ActiveStays DEF vars, disk, mem, control, NotSealing
<1>2. CASE Crash \/ RefuseResume
  BY <1>2 DEF Crash, RefuseResume, ActiveUnsealed
<1>3. CASE Resume
  BY <1>3 DEF Resume, ActiveUnsealed
<1>4. CASE OpenFresh \/ \E t \in Threads : RotateSegment(t) \/ RotateFails(t)
  <2>1. seq' = Len(file) + 1 /\ (CreateSegment \/ UNCHANGED <<file, sth>>)
    <3>1. CASE OpenFresh BY <3>1 DEF OpenFresh
    <3>2. ASSUME NEW t \in Threads, RotateSegment(t) \/ RotateFails(t)
          PROVE  seq' = Len(file) + 1 /\ (CreateSegment \/ UNCHANGED <<file, sth>>)
      <4>1. pc[t] = "rotate" BY <3>2 DEF RotateSegment, RotateFails
      <4>2. proc = "up" BY <4>1, InCall DEF Locked
      <4>3. seq = Len(file) BY <4>1, <4>2 DEF TypeInv, TypeOK, DiskOK, Placed
      <4> QED BY <3>2, <4>3 DEF RotateSegment, RotateFails, NextSegment
    <3> QED BY <1>4, <3>1, <3>2
  <2>2. sth \in Seq(Sth) /\ Len(sth) = Len(file) /\ Len(file) \in Nat /\ NoSth \in Sth
    BY DEF TypeInv, TypeOK, DiskOK, NoSth, Sth, Genesis
  <2>3. CASE CreateSegment
    <3>1. sth'[Len(file) + 1] = NoSth
      BY <2>2, <2>3, AppendProperties DEF CreateSegment
    <3> QED BY <2>1, <3>1 DEF ActiveUnsealed
  <2>4. CASE UNCHANGED <<file, sth>>
    BY <2>1, <2>2, <2>4 DEF ActiveUnsealed
  <2> QED BY <2>1, <2>3, <2>4
<1>5. CASE \E t \in Threads : SealSegment(t)
  <2>1. PICK t \in Threads : SealSegment(t) BY <1>5
  <2>2. ~NotSealing'
    BY <2>1 DEF SealSegment, NotSealing, TypeInv, TypeOK, ControlOK
  <2> QED BY <2>2 DEF ActiveUnsealed
<1>6. ASSUME NEW t \in Threads PROVE ~HeadFails(t) /\ ~SealUnsynced(t)
  BY DEF HeadFails, SealUnsynced, Fail, SealFaults
<1>7. ASSUME NEW t \in Threads,
             \/ AppendEntry(t) \/ Call(t) \/ CallRotate(t) \/ FlushNothing(t) \/ FlushClosed(t)
             \/ WriteTip(t) \/ TipFails(t) \/ RollbackFails(t) \/ SealNothing(t) \/ SealFails(t)
             \/ WriteHead(t) \/ Anchor(t) \/ WriteSome(t) \/ SyncBatch(t) \/ WriteFails(t)
      PROVE  ActiveUnsealed'
  <2>1. UNCHANGED <<proc, seq, sth>>
    BY <1>7 DEF disk, mem, AppendEntry, Call, CallRotate, FlushNothing, FlushClosed, WriteTip, TipFails,
       RollbackFails, SealNothing, SealFails, WriteHead, Anchor, Request, WriteToken, WriteMeta, WriteSome, SyncBatch, WriteFails
  <2>2. TypeInv'
    BY <1>7, CallType, FlushType, WriteType, SealType, HeadType, AnchorType
  <2>3. Len(file') = Len(file) BY <2>1, <2>2 DEF TypeInv, TypeOK, DiskOK
  <2>4. \E to : pc' = [pc EXCEPT ![t] = to] /\ (pc[t] \in {"head", "rotate"} => to = "rotate")
    <3>1. CASE AppendEntry(t) \/ Call(t) \/ CallRotate(t)
      BY <3>1 DEF AppendEntry, Call, CallRotate, Enter, Idle
    <3>2. CASE FlushNothing(t) \/ WriteTip(t)
      BY <3>2 DEF FlushNothing, WriteTip, AfterFlush, Leave
    <3>3. CASE FlushClosed(t) \/ TipFails(t) \/ RollbackFails(t) \/ SealNothing(t) \/ SealFails(t)
               \/ WriteFails(t)
      BY <3>3 DEF FlushClosed, TipFails, RollbackFails, SealNothing, SealFails, Sealing,
         WriteFails, Raise, Leave
    <3>5. CASE Anchor(t) BY <3>5, AnchorLeaves
    <3>4. CASE WriteHead(t) \/ WriteSome(t) \/ SyncBatch(t)
      BY <3>4 DEF WriteHead, WriteSome, SyncBatch
    <3> QED BY <1>7, <3>1, <3>2, <3>3, <3>4, <3>5
  <2>5. NotSealing' => NotSealing
    BY <2>4 DEF NotSealing, TypeInv, TypeOK, ControlOK
  <2> QED BY <2>1, <2>3, <2>5, ActiveStays
<1> QED BY <1>1, <1>2, <1>3, <1>4, <1>5, <1>6, <1>7 DEF Next, Step, Trouble

\* "Sealed segments are never reopened": if every seal() that gets its STH on
\* disk also gets its HEAD on disk, no step of any thread, no failed write, no
\* crash and no recovery changes a sealed segment or its STH.
THEOREM SealedSegmentsStay ==
  ASSUME Faults \cap SealFaults = {}
  PROVE  Spec => SealedNeverChanges
<1>1. Init => TypeInv /\ ActiveUnsealed
  BY TypeInit DEF Init, ActiveUnsealed
<1>2. TypeInv /\ ActiveUnsealed /\ [Next]_vars => (TypeInv /\ ActiveUnsealed)'
  BY TypeStep, ActiveStep
<1>3. TypeInv /\ ActiveUnsealed /\ [Next]_vars => SealedKept
  BY SealedStep
<1> QED BY <1>1, <1>2, <1>3, PTL DEF Spec, SealedNeverChanges

-----------------------------------------------------------------------------
(* Steps that leave the sidecars alone.                                     *)

\* A step of thread t inside or outside its call that touches no STH, no token
\* and no segment number; the only way on from the STH is to the HEAD.
SidecarsStay(t) ==
  /\ UNCHANGED <<proc, seq, sth, tsr, seal>>
  /\ \E to \in Steps : /\ pc' = [pc EXCEPT ![t] = to]
                       /\ to \in {"head", "rotate"} \cup Anchoring => to = "rotate" /\ pc[t] = "head"

\* Everything but seal(), the rotation and the anchor.
Elsewhere(t) ==
  \/ AppendEntry(t) \/ Call(t) \/ CallRotate(t) \/ FlushNothing(t) \/ FlushClosed(t)
  \/ WriteSome(t) \/ SyncBatch(t) \/ WriteFails(t) \/ RollbackFails(t) \/ WriteTip(t) \/ TipFails(t)
  \/ SealNothing(t) \/ SealFails(t) \/ WriteHead(t) \/ HeadFails(t)

\* All those actions leave the sidecars alone.
LEMMA ElsewhereStays ==
  ASSUME TypeInv, NEW t \in Threads, Elsewhere(t)
  PROVE  SidecarsStay(t)
<1>1. CASE AppendEntry(t) \/ Call(t) \/ CallRotate(t)
  BY <1>1 DEF AppendEntry, Call, CallRotate, Enter, disk, mem, SidecarsStay, Steps, Anchoring, Locked
<1>2. CASE FlushNothing(t) \/ WriteTip(t)
  BY <1>2 DEF FlushNothing, WriteTip, AfterFlush, Leave, disk, SidecarsStay, Steps, Anchoring, Locked
<1>3. CASE FlushClosed(t) \/ TipFails(t) \/ RollbackFails(t) \/ SealNothing(t) \/ SealFails(t)
           \/ WriteFails(t) \/ HeadFails(t)
  BY <1>3 DEF FlushClosed, TipFails, RollbackFails, SealNothing, SealFails, WriteFails, HeadFails,
     Raise, Leave, disk, SidecarsStay, Steps, Anchoring
<1>4. CASE WriteHead(t) \/ WriteSome(t) \/ SyncBatch(t)
  BY <1>4 DEF WriteHead, WriteSome, SyncBatch, mem, SidecarsStay, Steps, Anchoring, Locked
<1> QED BY <1>1, <1>2, <1>3, <1>4 DEF Elsewhere

\* The kinds of step there are.
LEMMA StepKinds ==
  ASSUME [Next]_vars
  PROVE  \/ UNCHANGED vars \/ OpenFresh \/ Resume \/ RefuseResume \/ Crash
         \/ \E t \in Threads : \/ Elsewhere(t) \/ SealSegment(t) \/ SealUnsynced(t)
                               \/ RotateSegment(t) \/ RotateFails(t) \/ Anchor(t)
  BY DEF Next, Step, Trouble, Elsewhere

-----------------------------------------------------------------------------
(* Tokens: the anchor runs outside the lock.                                *)

\* The STH a thread carries to _anchor() is still the one on disk, for a
\* segment nobody writes any more and no other thread anchors, and what is
\* beside it, with what the thread is about to add, is the truth about it.
Sealer(t) == pc[t] \in {"head", "rotate"} \cup Anchoring

CarriesToken(t) ==
  /\ seal[t].got # NoToken /\ seal[t].got.req = seal[t].id /\ seal[t].meta.sth = seal[t].id
  /\ seal[t].meta.bound => seal[t].got.of = seal[t].id

SealerInv(t) ==
  /\ sth[seal[t].seg].id = seal[t].id /\ sth[seal[t].seg] # NoSth
  /\ pc[t] \in Anchoring => seal[t].seg < seq
  /\ pc[t] \in {"anchor", "token"} => tsr[seal[t].seg] = NoAnchor
  /\ pc[t] = "token" => CarriesToken(t)
  /\ pc[t] = "meta" => /\ tsr[seal[t].seg].meta = NoMeta
                       /\ MetaTrue(seal[t].meta, tsr[seal[t].seg].token, seal[t].id)

SidecarTrue(s) ==
  /\ tsr[s].token # NoToken => tsr[s].token.req = sth[s].id
  /\ tsr[s].meta # NoMeta => MetaTrue(tsr[s].meta, tsr[s].token, sth[s].id)
  /\ tsr[s] # NoAnchor => sth[s] # NoSth

AnchorInv ==
  /\ \A t \in Threads : Sealer(t) => SealerInv(t)
  /\ \A t, u \in Threads : pc[t] \in Anchoring /\ pc[u] \in Anchoring /\ seal[t].seg = seal[u].seg => t = u
  /\ \A s \in 1..Len(tsr) : SidecarTrue(s)
  /\ proc = "up" => \A s \in 1..Len(tsr) : tsr[s] # NoAnchor => s < seq

\* What is true beside an STH stays so while neither changes.
LEMMA SidecarSame ==
  ASSUME NEW s, SidecarTrue(s), tsr'[s] = tsr[s], sth'[s] = sth[s]
  PROVE  SidecarTrue(s)'
  BY DEF SidecarTrue

LEMMA SidecarNone ==
  ASSUME NEW s, tsr'[s] = NoAnchor
  PROVE  SidecarTrue(s)'
  BY DEF SidecarTrue, NoAnchor

\* A thread whose segment and place stay keeps what is known of it.
LEMMA SealerSame ==
  ASSUME NEW t \in Threads, SealerInv(t), pc'[t] = pc[t], seal'[t] = seal[t],
         sth'[seal[t].seg] = sth[seal[t].seg], tsr'[seal[t].seg] = tsr[seal[t].seg],
         seal[t].seg \in Nat, seq \in Nat, seq' \in Nat, seq <= seq'
  PROVE  SealerInv(t)'
<1>1. pc[t] \in Anchoring => seal[t].seg < seq' BY DEF SealerInv
<1>2. CarriesToken(t) => CarriesToken(t)' BY DEF CarriesToken
<1> QED BY <1>1, <1>2 DEF SealerInv

\* Where the segments of the threads in seal() and _anchor() lie.
LEMMA SealerPlaced ==
  ASSUME TypeInv, AnchorInv, NEW t \in Threads, Sealer(t)
  PROVE  /\ seal[t].seg \in 1..Len(file) /\ seal[t].seg \in Nat /\ SealerInv(t) /\ proc = "up"
         /\ pc[t] \in Anchoring => seal[t].seg < seq
<1>1. SealerInv(t) /\ (pc[t] \in Anchoring => seal[t].seg < seq) BY DEF AnchorInv, SealerInv
<1>2. CASE pc[t] \in {"head", "rotate"} BY <1>1, <1>2 DEF TypeInv, Placed, TypeOK, DiskOK
<1>3. CASE pc[t] \in Anchoring BY <1>1, <1>3 DEF TypeInv, Placed, TypeOK, DiskOK, Anchoring
<1> QED BY <1>2, <1>3 DEF Sealer

\* A step that leaves the sidecars alone keeps what is known of the tokens.
LEMMA AnchorQuiet ==
  ASSUME TypeInv, AnchorInv, NEW t \in Threads, SidecarsStay(t)
  PROVE  AnchorInv'
<1>1. UNCHANGED <<proc, seq, sth, tsr, seal>> /\ seq \in Nat BY DEF SidecarsStay, TypeInv, TypeOK, MemOK
<1>2. PICK to \in Steps : /\ pc' = [pc EXCEPT ![t] = to]
                          /\ to \in {"head", "rotate"} \cup Anchoring => to = "rotate" /\ pc[t] = "head"
  BY DEF SidecarsStay
<1>3. pc'[t] = to /\ \A u \in Threads : u # t => pc'[u] = pc[u]
  BY <1>2 DEF TypeInv, TypeOK, ControlOK
<1>4. \A u \in Threads : pc'[u] \in Anchoring => pc[u] \in Anchoring /\ u # t BY <1>2, <1>3 DEF Anchoring
<1>5. ASSUME NEW u \in Threads, Sealer(u)' PROVE SealerInv(u)'
  <2>1. Sealer(u) BY <1>2, <1>3, <1>5 DEF Sealer
  <2>2. SealerInv(u) /\ seal[u].seg \in Nat BY <2>1, SealerPlaced
  <2>3. CASE u # t BY <1>1, <1>3, <2>2, <2>3, SealerSame
  <2>4. CASE u = t
    <3>1. pc'[u] = "rotate" BY <1>2, <1>3, <1>5, <2>4 DEF Sealer
    <3> QED BY <1>1, <2>2, <3>1 DEF SealerInv, Anchoring
  <2> QED BY <2>3, <2>4
<1>6. \A s \in 1..Len(tsr') : SidecarTrue(s)' BY <1>1, SidecarSame DEF AnchorInv
<1> QED BY <1>1, <1>4, <1>5, <1>6 DEF AnchorInv

\* A new segment gets no sidecars; those of the others stay.
LEMMA CreateSidecars ==
  ASSUME TypeInv, CreateSegment
  PROVE  /\ Len(file) \in Nat /\ Len(tsr) = Len(file) /\ Len(sth) = Len(file) /\ Len(tip) = Len(file)
         /\ Len(tsr') = Len(file) + 1 /\ Len(sth') = Len(file) + 1 /\ Len(tip') = Len(file) + 1
         /\ \A s \in 1..Len(file) : tsr'[s] = tsr[s] /\ sth'[s] = sth[s] /\ tip'[s] = tip[s]
         /\ tsr'[Len(file) + 1] = NoAnchor /\ sth'[Len(file) + 1] = NoSth /\ tip'[Len(file) + 1] = NoTip
<1>1. /\ Len(file) \in Nat /\ sth \in Seq(Sth) /\ tsr \in Seq(Anchors) /\ tip \in Seq(Tip)
      /\ Len(tsr) = Len(file) /\ Len(sth) = Len(file) /\ Len(tip) = Len(file)
  BY DEF TypeInv, TypeOK, DiskOK
<1>2. NoSth \in Sth /\ NoAnchor \in Anchors /\ NoTip \in Tip
  BY AnchorConstants DEF NoSth, Sth, NoTip, Tip, Genesis
<1>3. sth' = Append(sth, NoSth) /\ tsr' = Append(tsr, NoAnchor) /\ tip' = Append(tip, NoTip) BY DEF CreateSegment
<1>4. Len(sth') = Len(file) + 1 /\ sth'[Len(file) + 1] = NoSth /\ \A s \in 1..Len(file) : sth'[s] = sth[s]
  BY <1>1, <1>2, <1>3, AppendProperties
<1>5. Len(tsr') = Len(file) + 1 /\ tsr'[Len(file) + 1] = NoAnchor /\ \A s \in 1..Len(file) : tsr'[s] = tsr[s]
  BY <1>1, <1>2, <1>3, AppendProperties
<1>6. Len(tip') = Len(file) + 1 /\ tip'[Len(file) + 1] = NoTip /\ \A s \in 1..Len(file) : tip'[s] = tip[s]
  BY <1>1, <1>2, <1>3, AppendProperties
<1> QED BY <1>1, <1>4, <1>5, <1>6

\* The STH just written is in its place, and no other one changes.
LEMMA PutSthWhere ==
  ASSUME TypeInv, seq \in 1..Len(file), PutSth
  PROVE  /\ Len(sth') = Len(sth) /\ sth'[seq] = NewSth /\ NewSth.id = last.sth + 1 /\ NewSth # NoSth
         /\ \A s \in 1..Len(sth) : s # seq => sth'[s] = sth[s]
<1>1. sth \in Seq(Sth) /\ seq \in 1..Len(sth) /\ last.sth \in Nat
  BY DEF TypeInv, TypeOK, DiskOK, GhostOK
<1>2. NewSth \in Sth /\ NewSth.id = last.sth + 1 BY NewSthType DEF NewSth
<1>3. NewSth # NoSth BY <1>1, <1>2 DEF NoSth
<1>4. sth' = [sth EXCEPT ![seq] = NewSth] BY DEF PutSth
<1> QED BY <1>1, <1>2, <1>3, <1>4, ExceptSeq

\* A sealed segment has nothing beside it yet.
LEMMA AnchorSeal ==
  ASSUME TypeInv, AnchorInv, NEW t \in Threads, SealSegment(t) \/ SealUnsynced(t)
  PROVE  AnchorInv'
<1>1. pc[t] = "sealing" /\ PutSth /\ Readable(seq) /\ UNCHANGED <<tsr, proc, seq>>
  BY DEF SealSegment, SealUnsynced, Sealing, mem
<1>2. proc = "up" /\ \A u \in Threads : u # t => pc[u] \notin Locked BY <1>1, InCall DEF Locked
<1>3. seq \in 1..Len(file) BY <1>1, <1>2 DEF Readable, TypeInv, Placed
<1>4. /\ Len(sth) = Len(file) /\ Len(tsr) = Len(file) /\ Len(file) \in Nat /\ seq \in Nat
      /\ pc \in [Threads -> Steps] /\ seal \in [Threads -> Seals]
  BY DEF TypeInv, TypeOK, DiskOK, MemOK, ControlOK
<1>5. /\ Len(sth') = Len(sth) /\ sth'[seq].id = last.sth + 1 /\ sth'[seq] # NoSth
      /\ \A s \in 1..Len(sth) : s # seq => sth'[s] = sth[s]
  BY <1>1, <1>3, PutSthWhere
<1>6. \A u \in Threads : u # t => pc'[u] = pc[u] /\ seal'[u] = seal[u]
  BY <1>4 DEF SealSegment, SealUnsynced, Raise, Leave
<1>7. pc'[t] = "idle" \/ (pc'[t] = "head" /\ seal'[t].seg = seq /\ seal'[t].id = last.sth + 1)
  BY <1>4 DEF SealSegment, SealUnsynced, Raise, Leave
<1>8. ASSUME NEW s \in 1..Len(tsr) PROVE SidecarTrue(s)'
  <2>1. CASE s # seq BY <1>1, <1>4, <1>5, <2>1, SidecarSame DEF AnchorInv
  <2>2. CASE s = seq
    <3>1. tsr[s] = NoAnchor BY <1>2, <1>4, <2>2 DEF AnchorInv
    <3> QED BY <1>1, <3>1, SidecarNone
  <2> QED BY <2>1, <2>2
<1>9. ASSUME NEW u \in Threads, Sealer(u)' PROVE SealerInv(u)'
  <2>1. CASE u = t
    <3>1. pc'[u] = "head" /\ seal'[u].seg = seq /\ seal'[u].id = last.sth + 1
      BY <1>7, <1>9, <2>1 DEF Sealer, Anchoring
    <3> QED BY <1>5, <3>1 DEF SealerInv, Anchoring
  <2>2. CASE u # t
    <3>1. Sealer(u) /\ pc[u] \in Anchoring BY <1>2, <1>6, <1>9, <2>2 DEF Sealer, Locked
    <3>2. /\ SealerInv(u) /\ seal[u].seg \in Nat /\ seal[u].seg \in 1..Len(file) /\ seal[u].seg < seq
      BY <3>1, SealerPlaced
    <3>3. sth'[seal[u].seg] = sth[seal[u].seg] BY <1>4, <1>5, <3>2
    <3> QED BY <1>1, <1>4, <1>6, <2>2, <3>2, <3>3, SealerSame
  <2> QED BY <2>1, <2>2
<1>10. \A u \in Threads : pc'[u] \in Anchoring => u # t /\ pc[u] \in Anchoring /\ seal'[u] = seal[u]
  BY <1>6, <1>7 DEF Anchoring
<1> QED BY <1>1, <1>8, <1>9, <1>10 DEF AnchorInv

\* The next segment is new, and the thread that made it may anchor the old one.
LEMMA AnchorRotate ==
  ASSUME TypeInv, AnchorInv, NEW t \in Threads, RotateSegment(t) \/ RotateFails(t)
  PROVE  AnchorInv'
<1>1. /\ pc[t] = "rotate" /\ seq' = seq + 1 /\ UNCHANGED <<proc, seal>>
      /\ CreateSegment \/ UNCHANGED <<sth, tsr>>
      /\ \E to \in {"anchor", "idle"} : pc' = [pc EXCEPT ![t] = to]
  BY DEF RotateSegment, RotateFails, NextSegment
<1>2. /\ proc = "up" /\ seq \in 1..Len(file) /\ seal[t].seg = seq /\ seq \in Nat
      /\ \A u \in Threads : u # t => pc[u] \notin Locked
  BY <1>1, InCall DEF Locked, TypeInv, Placed, TypeOK, MemOK
<1>3. Len(file) \in Nat /\ Len(tsr) = Len(file) BY DEF TypeInv, TypeOK, DiskOK
<1>4. /\ \A s \in 1..Len(file) : tsr'[s] = tsr[s] /\ sth'[s] = sth[s]
      /\ \A s \in 1..Len(tsr') : s \in 1..Len(file) \/ tsr'[s] = NoAnchor
  <2>1. CASE CreateSegment
    <3>1. /\ Len(tsr') = Len(file) + 1 /\ tsr'[Len(file) + 1] = NoAnchor
          /\ \A s \in 1..Len(file) : tsr'[s] = tsr[s] /\ sth'[s] = sth[s]
      BY <2>1, CreateSidecars
    <3> QED BY <1>3, <3>1
  <2>2. CASE UNCHANGED <<sth, tsr>> BY <1>3, <2>2
  <2> QED BY <1>1, <2>1, <2>2
<1>5. ASSUME NEW s \in 1..Len(tsr')
      PROVE  SidecarTrue(s)' /\ (tsr'[s] # NoAnchor => s < seq')
  <2>1. CASE s \in 1..Len(file)
    <3>1. SidecarTrue(s) /\ (tsr[s] # NoAnchor => s < seq) BY <1>2, <1>3, <2>1 DEF AnchorInv
    <3> QED BY <1>1, <1>2, <1>4, <2>1, <3>1, SidecarSame
  <2>2. CASE tsr'[s] = NoAnchor BY <2>2, SidecarNone
  <2> QED BY <1>4, <2>1, <2>2
<1>6. PICK to \in {"anchor", "idle"} : pc' = [pc EXCEPT ![t] = to] BY <1>1
<1>7. pc'[t] = to /\ \A u \in Threads : u # t => pc'[u] = pc[u]
  BY <1>6 DEF TypeInv, TypeOK, ControlOK
<1>8. \A u \in Threads : Sealer(u)' => Sealer(u) BY <1>1, <1>7 DEF Sealer
<1>9. ASSUME NEW u \in Threads, Sealer(u)' PROVE SealerInv(u)'
  <2>1. SealerInv(u) /\ seal[u].seg \in Nat /\ seal[u].seg \in 1..Len(file) BY <1>8, <1>9, SealerPlaced
  <2>2. sth'[seal[u].seg] = sth[seal[u].seg] /\ tsr'[seal[u].seg] = tsr[seal[u].seg] BY <1>4, <2>1
  <2>3. CASE u # t BY <1>1, <1>2, <1>7, <2>1, <2>2, <2>3, SealerSame
  <2>4. CASE u = t
    <3>1. pc'[u] = "anchor" BY <1>7, <1>9, <2>4 DEF Sealer, Anchoring
    <3>2. seal[u].seg < seq' BY <1>1, <1>2, <2>4
    <3>3. tsr[seal[u].seg] = NoAnchor BY <1>2, <1>3, <2>4 DEF AnchorInv
    <3> QED BY <1>1, <2>1, <2>2, <3>1, <3>2, <3>3 DEF SealerInv
  <2> QED BY <2>3, <2>4
<1>10. ASSUME NEW u \in Threads, NEW v \in Threads, pc'[u] \in Anchoring, pc'[v] \in Anchoring,
              seal'[u].seg = seal'[v].seg, u # v
       PROVE  FALSE
  <2>1. \A w \in Threads : w # t /\ pc'[w] \in Anchoring => pc[w] \in Anchoring /\ seal[w].seg < seq
    BY <1>7, SealerPlaced DEF Sealer
  <2>2. CASE u # t /\ v # t BY <1>1, <1>10, <2>1, <2>2 DEF AnchorInv
  <2>3. CASE u = t \/ v = t BY <1>1, <1>2, <1>10, <2>1, <2>3
  <2> QED BY <2>2, <2>3
<1> QED BY <1>5, <1>9, <1>10 DEF AnchorInv

\* What each step of _anchor() leaves beside its STH, and carries on.
LEMMA AnchorHere ==
  ASSUME TypeInv, AnchorInv, NEW t \in Threads, Anchor(t), NEW n, n = seal[t].seg
  PROVE  /\ SidecarTrue(n)'
         /\ Sealer(t)' => SealerInv(t)'
         /\ \A s \in 1..Len(tsr) : s # seal[t].seg => tsr'[s] = tsr[s]
<1>1. /\ UNCHANGED <<sth, proc, seq>> /\ pc[t] \in Anchoring BY AnchorLeaves, AnchorKeeps
<1>2. Sealer(t) BY <1>1 DEF Sealer
<1>3. /\ SealerInv(t) /\ seal[t].seg < seq BY <1>1, <1>2, SealerPlaced
<1>4. /\ seal[t].seg \in 1..Len(tsr) /\ seal[t] \in Seals /\ seal[t].id \in Nat
      /\ tsr[seal[t].seg] \in Anchors
  BY <1>1, AnchorMove
<1>5. /\ tsr \in Seq(Anchors) /\ seal \in [Threads -> Seals] /\ pc \in [Threads -> Steps]
  BY DEF TypeInv, TypeOK, DiskOK, ControlOK
<1>6. SidecarTrue(n) BY <1>4 DEF AnchorInv
<1>7. CASE Request(t)
  <2>1. pc[t] = "anchor" /\ UNCHANGED tsr BY <1>7 DEF Request, disk
  <2>2. tsr[seal[t].seg] = NoAnchor BY <1>3, <2>1 DEF SealerInv
  <2>3. ASSUME NEW granted \in BOOLEAN, NEW token, Answered(t, granted, token),
               token # NoToken => token.req = seal[t].id
        PROVE  SealerInv(t)'
    <3>1. PICK m : m = MetaOf(seal[t].id, granted, token) OBVIOUS
    <3>2. m.sth = seal[t].id /\ ~m.file /\ ~m.error /\ (m.bound => token # NoToken /\ token.of = seal[t].id)
      BY <3>1, MetaSays
    <3>3. /\ pc'[t] = IF token = NoToken THEN "meta" ELSE "token"
          /\ seal'[t].seg = seal[t].seg /\ seal'[t].id = seal[t].id
          /\ seal'[t].got = token /\ seal'[t].meta = m
      <4>1. pc' = [pc EXCEPT ![t] = IF token = NoToken THEN "meta" ELSE "token"] BY <2>3 DEF Answered
      <4>2. seal' = [seal EXCEPT ![t].got = token, ![t].meta = m] BY <2>3, <3>1 DEF Answered
      <4> QED BY <1>4, <1>5, <4>1, <4>2 DEF Seals
    <3>4. CASE token # NoToken
      <4>1. CarriesToken(t)' BY <2>3, <3>2, <3>3, <3>4 DEF CarriesToken
      <4> QED BY <1>1, <1>3, <2>1, <2>2, <3>3, <3>4, <4>1 DEF SealerInv
    <3>5. CASE token = NoToken
      <4>1. tsr[seal[t].seg].token = NoToken /\ tsr[seal[t].seg].meta = NoMeta BY <2>2 DEF NoAnchor
      <4>2. MetaTrue(m, NoToken, seal[t].id) BY <3>2, <3>5 DEF MetaTrue
      <4>3. pc'[t] = "meta" BY <3>3, <3>5
      <4> QED BY <1>1, <1>3, <2>1, <3>3, <4>1, <4>2, <4>3 DEF SealerInv, Anchoring
    <3> QED BY <3>4, <3>5
  <2>4. ASSUME Raised(t) PROVE SealerInv(t)'
    <3>1. PICK m : m = MetaFailed(seal[t].id) OBVIOUS
    <3>2. m.sth = seal[t].id /\ ~m.bound /\ ~m.file /\ m.error BY <3>1, MetaSays
    <3>3. seal'[t].seg = seal[t].seg /\ seal'[t].id = seal[t].id /\ seal'[t].meta = m /\ pc'[t] = "meta"
      <4>1. seal' = [seal EXCEPT ![t].meta = m] /\ pc' = [pc EXCEPT ![t] = "meta"] BY <2>4, <3>1 DEF Raised
      <4> QED BY <1>4, <1>5, <4>1 DEF Seals
    <3>4. tsr[seal[t].seg].token = NoToken /\ tsr[seal[t].seg].meta = NoMeta BY <2>2 DEF NoAnchor
    <3>5. MetaTrue(m, NoToken, seal[t].id) BY <3>2 DEF MetaTrue
    <3> QED BY <1>1, <1>3, <2>1, <3>3, <3>4, <3>5 DEF SealerInv, Anchoring
  <2>5. SealerInv(t)'
    <3>1. GoodAnswer(t).req = seal[t].id BY DEF GoodAnswer
    <3>2. \A token \in BadAnswers(t) : token # NoToken => token.req = seal[t].id BY DEF BadAnswers
    <3> QED BY <1>7, <2>3, <2>4, <3>1, <3>2 DEF Request
  <2> QED BY <1>1, <1>6, <2>1, <2>5, SidecarSame
<1>8. CASE WriteToken(t)
  <2>1. pc[t] = "token" BY <1>8 DEF WriteToken
  <2>2. tsr[seal[t].seg] = NoAnchor /\ CarriesToken(t) BY <1>3, <2>1 DEF SealerInv
  <2>3. sth[seal[t].seg].id = seal[t].id /\ sth[seal[t].seg] # NoSth BY <1>3 DEF SealerInv
  <2>4. PICK named \in BOOLEAN, failed \in BOOLEAN :
          /\ Noted(t, named, failed) /\ pc' = [pc EXCEPT ![t] = "meta"]
          /\ \/ UNCHANGED tsr /\ ~named /\ failed
             \/ /\ tsr' = [tsr EXCEPT ![seal[t].seg].token = seal[t].got]
                /\ named \/ failed
    BY <1>8 DEF WriteToken
  <2>5. /\ pc'[t] = "meta" /\ seal'[t].seg = seal[t].seg /\ seal'[t].id = seal[t].id
        /\ seal'[t].meta.sth = seal[t].meta.sth /\ seal'[t].meta.bound = seal[t].meta.bound
        /\ seal'[t].meta.file = named /\ seal'[t].meta.error = failed
    <3>1. PICK m : m = Marked(seal[t].meta, named, failed) OBVIOUS
    <3>2. /\ m.sth = seal[t].meta.sth /\ m.bound = seal[t].meta.bound /\ m.file = named /\ m.error = failed
      BY <1>4, <3>1, MetaSays DEF Seals
    <3>3. seal' = [seal EXCEPT ![t].meta = m] BY <2>4, <3>1 DEF Noted
    <3> QED BY <1>4, <1>5, <2>4, <3>2, <3>3 DEF Seals
  <2>6. CASE UNCHANGED tsr /\ ~named /\ failed
    <3>1. tsr[seal[t].seg].token = NoToken /\ tsr[seal[t].seg].meta = NoMeta BY <2>2 DEF NoAnchor
    <3>2. MetaTrue(seal'[t].meta, NoToken, seal[t].id) BY <2>2, <2>5, <2>6 DEF MetaTrue, CarriesToken
    <3>3. SealerInv(t)' BY <1>1, <1>3, <2>3, <2>5, <2>6, <3>1, <3>2 DEF SealerInv, Anchoring
    <3> QED BY <1>1, <1>6, <2>6, <3>3, SidecarSame
  <2>7. CASE tsr' = [tsr EXCEPT ![seal[t].seg].token = seal[t].got] /\ (named \/ failed)
    <3>1. /\ tsr'[seal[t].seg].token = seal[t].got /\ tsr'[seal[t].seg].meta = NoMeta
          /\ \A s \in 1..Len(tsr) : s # seal[t].seg => tsr'[s] = tsr[s]
      <4>1. tsr'[seal[t].seg] = [tsr[seal[t].seg] EXCEPT !.token = seal[t].got] BY <1>4, <1>5, <2>7
      <4>2. \A s \in 1..Len(tsr) : s # seal[t].seg => tsr'[s] = tsr[s] BY <1>5, <2>7
      <4> QED BY <2>2, <4>1, <4>2 DEF NoAnchor
    <3>2. MetaTrue(seal'[t].meta, seal[t].got, seal[t].id) BY <2>2, <2>5, <2>7 DEF MetaTrue, CarriesToken
    <3>3. SealerInv(t)' BY <1>1, <1>3, <2>3, <2>5, <3>1, <3>2 DEF SealerInv, Anchoring
    <3>4. SidecarTrue(n)' BY <1>1, <2>2, <2>3, <3>1 DEF SidecarTrue, CarriesToken
    <3> QED BY <3>1, <3>3, <3>4
  <2> QED BY <2>4, <2>6, <2>7
<1>9. CASE WriteMeta(t)
  <2>1. pc[t] = "meta" /\ pc'[t] = "idle" BY <1>5, <1>9 DEF WriteMeta, Leave
  <2>2. ~Sealer(t)' BY <2>1 DEF Sealer, Anchoring
  <2>3. /\ tsr[seal[t].seg].meta = NoMeta /\ MetaTrue(seal[t].meta, tsr[seal[t].seg].token, seal[t].id)
        /\ sth[seal[t].seg].id = seal[t].id /\ sth[seal[t].seg] # NoSth
    BY <1>3, <2>1 DEF SealerInv
  <2>4. CASE UNCHANGED tsr BY <1>1, <1>6, <2>2, <2>4, SidecarSame
  <2>5. CASE tsr' = [tsr EXCEPT ![seal[t].seg].meta = seal[t].meta]
    <3>1. /\ tsr'[seal[t].seg].token = tsr[seal[t].seg].token /\ tsr'[seal[t].seg].meta = seal[t].meta
          /\ \A s \in 1..Len(tsr) : s # seal[t].seg => tsr'[s] = tsr[s]
      <4>1. tsr'[seal[t].seg] = [tsr[seal[t].seg] EXCEPT !.meta = seal[t].meta] BY <1>4, <1>5, <2>5
      <4>2. \A s \in 1..Len(tsr) : s # seal[t].seg => tsr'[s] = tsr[s] BY <1>5, <2>5
      <4> QED BY <1>4, <4>1, <4>2 DEF Anchors
    <3>2. SidecarTrue(n)' BY <1>1, <1>6, <2>3, <3>1 DEF SidecarTrue
    <3> QED BY <2>2, <3>1, <3>2
  <2> QED BY <1>9, <2>4, <2>5 DEF WriteMeta
<1> QED BY <1>7, <1>8, <1>9 DEF Anchor

\* The thread that anchors touches the files of its own segment only.
LEMMA AnchorAnchor ==
  ASSUME TypeInv, AnchorInv, NEW t \in Threads, Anchor(t)
  PROVE  AnchorInv'
<1>1. UNCHANGED <<sth, proc, seq>> BY AnchorLeaves
<1>2. /\ pc[t] \in Anchoring
      /\ pc'[t] \in {"token", "meta", "idle"}
      /\ pc'[t] # "idle" => seal'[t].seg = seal[t].seg
  BY AnchorKeeps
<1>3. \A u \in Threads : u # t => pc'[u] = pc[u] /\ seal'[u] = seal[u] BY AnchorKeeps
<1>4. /\ \A n : n = seal[t].seg => SidecarTrue(n)'
      /\ Sealer(t)' => SealerInv(t)'
      /\ \A s \in 1..Len(tsr) : s # seal[t].seg => tsr'[s] = tsr[s]
  BY AnchorHere
<1>5. Len(tsr') = Len(tsr) BY AnchorFiles
<1>6. Sealer(t) /\ seal[t].seg < seq BY <1>2, SealerPlaced DEF Sealer
<1>7. ASSUME NEW s \in 1..Len(tsr)
      PROVE  SidecarTrue(s)' /\ (proc = "up" /\ tsr'[s] # NoAnchor => s < seq)
  <2>1. CASE s = seal[t].seg BY <1>4, <1>6, <2>1
  <2>2. CASE s # seal[t].seg BY <1>1, <1>4, <2>2, SidecarSame DEF AnchorInv
  <2> QED BY <2>1, <2>2
<1>8. ASSUME NEW u \in Threads, u # t, Sealer(u)' PROVE SealerInv(u)'
  <2>1. Sealer(u) BY <1>3, <1>8 DEF Sealer
  <2>2. SealerInv(u) /\ seal[u].seg \in Nat /\ seal[u].seg \in 1..Len(file) BY <2>1, SealerPlaced
  <2>3. seal[u].seg # seal[t].seg
    <3>1. CASE pc[u] \in Anchoring BY <1>2, <1>8, <3>1 DEF AnchorInv
    <3>2. CASE pc[u] \in {"head", "rotate"} BY <1>6, <3>2 DEF TypeInv, Placed, TypeOK, MemOK
    <3> QED BY <2>1, <3>1, <3>2 DEF Sealer
  <2>4. tsr'[seal[u].seg] = tsr[seal[u].seg] BY <1>4, <2>2, <2>3 DEF TypeInv, TypeOK, DiskOK
  <2>5. seq \in Nat BY DEF TypeInv, TypeOK, MemOK
  <2> QED BY <1>1, <1>3, <1>8, <2>2, <2>4, <2>5, SealerSame
<1>9. \A u \in Threads : pc'[u] \in Anchoring => pc[u] \in Anchoring /\ seal'[u].seg = seal[u].seg
  BY <1>2, <1>3 DEF Anchoring
<1> QED BY <1>1, <1>4, <1>5, <1>7, <1>8, <1>9 DEF AnchorInv

\* Every step keeps what is known of the tokens.
LEMMA AnchorStep ==
  ASSUME TypeInv, AnchorInv, [Next]_vars
  PROVE  AnchorInv'
<1>0. /\ Len(file) \in Nat /\ Len(tsr) = Len(file) /\ Len(sth) = Len(file) /\ seq \in Nat
  BY DEF TypeInv, TypeOK, DiskOK, MemOK
<1> DEFINE Resting == \A t \in Threads : pc'[t] = "idle"
<1>1. Resting => \A t \in Threads : ~Sealer(t)' /\ pc'[t] \notin Anchoring BY DEF Sealer, Anchoring
<1>2. CASE UNCHANGED <<sth, tsr, pc, seal, seq, proc>>
  <2>1. \A t \in Threads : Sealer(t)' => SealerInv(t)'
    BY <1>2 DEF AnchorInv, Sealer, SealerInv, CarriesToken
  <2>2. \A s \in 1..Len(tsr') : SidecarTrue(s)' BY <1>2, SidecarSame DEF AnchorInv
  <2> QED BY <1>2, <2>1, <2>2 DEF AnchorInv
<1>3. CASE OpenFresh
  <2>1. CreateSegment /\ seq' = Len(file) + 1 /\ Resting BY <1>3 DEF OpenFresh, control, TypeInv, Placed
  <2>2. ASSUME NEW s \in 1..Len(tsr') PROVE (SidecarTrue(s)' /\ s < seq') \/ tsr'[s] = NoAnchor
    <3>1. Len(tsr') = Len(file) + 1 /\ tsr'[Len(file) + 1] = NoAnchor BY <2>1, CreateSidecars
    <3>2. CASE s = Len(file) + 1 BY <3>1, <3>2
    <3>3. CASE s \in 1..Len(file)
      <4>1. tsr'[s] = tsr[s] /\ sth'[s] = sth[s] BY <2>1, <3>3, CreateSidecars
      <4> QED BY <1>0, <2>1, <3>3, <4>1, SidecarSame DEF AnchorInv
    <3> QED BY <1>0, <3>1, <3>2, <3>3
  <2>3. \A s \in 1..Len(tsr') : SidecarTrue(s)' /\ (tsr'[s] # NoAnchor => s < seq') BY <2>2, SidecarNone
  <2> HIDE DEF Resting
  <2> QED BY <1>1, <2>1, <2>3 DEF AnchorInv
<1>4. CASE Resume
  <2>1. /\ UNCHANGED <<sth, tsr>> /\ seq' = Len(file) /\ sth[Len(file)] = NoSth
        /\ Len(file) \in 1..Len(file) /\ Resting
    BY <1>0, <1>4 DEF Resume, control, TypeInv, Placed
  <2>2. tsr[Len(file)] = NoAnchor BY <1>0, <2>1 DEF AnchorInv, SidecarTrue
  <2>3. \A s \in 1..Len(tsr') : SidecarTrue(s)' BY <2>1, SidecarSame DEF AnchorInv
  <2> HIDE DEF Resting
  <2> QED BY <1>0, <1>1, <2>1, <2>2, <2>3 DEF AnchorInv
<1>5. CASE RefuseResume \/ Crash
  <2>1. UNCHANGED <<sth, tsr>> /\ proc' # "up" /\ Resting
    BY <1>5 DEF RefuseResume, Crash, disk, control, TypeInv, Placed
  <2>2. \A s \in 1..Len(tsr') : SidecarTrue(s)' BY <2>1, SidecarSame DEF AnchorInv
  <2> HIDE DEF Resting
  <2> QED BY <1>1, <2>1, <2>2 DEF AnchorInv
<1>6. UNCHANGED vars => UNCHANGED <<sth, tsr, pc, seal, seq, proc>> BY DEF vars, disk, mem, control
<1> QED BY <1>2, <1>3, <1>4, <1>5, <1>6, ElsewhereStays, AnchorQuiet, AnchorSeal, AnchorRotate,
           AnchorAnchor, StepKinds

\* At the start there is nothing to be true of.
LEMMA AnchorInit ==
  ASSUME Init
  PROVE  AnchorInv
  BY DEF Init, AnchorInv, Sealer, Anchoring

\* The anchor works outside the lock, while other threads seal more segments,
\* whatever the TSA answers and whatever fails or crashes in between: a token
\* in the archive is the answer to the request for the STH beside it, and its
\* metadata name that STH, a token file only when it is there, and the digest
\* as bound only when verify_archive finds it in the token.
THEOREM AnchorsTruthful == Spec => []AnchorTruthful
<1>1. Init => TypeInv /\ AnchorInv
  BY TypeInit, AnchorInit
<1>2. TypeInv /\ AnchorInv /\ [Next]_vars => (TypeInv /\ AnchorInv)'
  BY TypeStep, AnchorStep
<1>3. AnchorInv => AnchorTruthful BY DEF AnchorInv, SidecarTrue, AnchorTruthful
<1> QED BY <1>1, <1>2, <1>3, PTL DEF Spec

-----------------------------------------------------------------------------
(* What an STH commits to.                                                  *)

\* A line that parses is an entry with a hash; an STH commits to such lines only.
Record == {l \in Line : l.ok => l.id # Genesis}
Commitment == [id : Nat, leaves : Seq(Nat \ {Genesis}), prev : Nat]

\* Every segment file, the queue and every sidecar hold nothing else.
RecordInv == buf \in Seq(Record) /\ file \in Seq(Seq(Record)) /\ sth \in Seq(Commitment)

\* Bytes without a newline spoil the first line of a batch, never make an entry of it.
LEMMA JoinedRecords ==
  ASSUME NEW cut \in BOOLEAN, NEW lines \in Seq(Record)
  PROVE  Joined(cut, lines) \in Seq(Record)
<1>1. Garbage \in Record BY DEF Garbage, Record, Line, Genesis
<1>2. CASE cut /\ lines # << >>
  <2>1. Tail(lines) \in Seq(Record) /\ <<Garbage>> \in Seq(Record)
    BY <1>1, <1>2, HeadTailProperties
  <2> QED BY <1>2, <2>1, ConcatProperties DEF Joined
<1>3. CASE ~(cut /\ lines # << >>) BY <1>3 DEF Joined
<1> QED BY <1>2, <1>3

\* A part of a sequence of entries is one.
LEMMA PartOfRecords ==
  ASSUME NEW lines \in Seq(Record), NEW n \in 0..Len(lines)
  PROVE  SubSeq(lines, 1, n) \in Seq(Record)
<1>1. n \in Int /\ 1 \in Int /\ \A i \in 1..n : lines[i] \in Record
  BY ElementOfSeq
<1> QED BY <1>1, SubSeqProperties

\* What append_line and _resume leave in a segment, and what seal() reads back.
LEMMA RecordStep ==
  ASSUME TypeInv, RecordInv, [Next]_vars
  PROVE  RecordInv'
<1>0. buf \in Seq(Record) /\ file \in Seq(Seq(Record)) /\ sth \in Seq(Commitment) /\ Len(sth) = Len(file)
  BY DEF RecordInv, TypeInv, TypeOK, DiskOK
<1>1. CASE UNCHANGED <<file, sth, buf>> BY <1>1 DEF RecordInv
<1>2. CASE OpenFresh \/ \E t \in Threads : RotateSegment(t) \/ RotateFails(t)
  <2>1. (CreateSegment \/ UNCHANGED <<file, sth>>) /\ UNCHANGED buf
    BY <1>2 DEF OpenFresh, RotateSegment, RotateFails
  <2>2. << >> \in Seq(Record) /\ NoSth \in Commitment BY DEF NoSth, Commitment, Genesis
  <2>3. CreateSegment => file' \in Seq(Seq(Record)) /\ sth' \in Seq(Commitment)
    BY <1>0, <2>2, AppendProperties DEF CreateSegment
  <2> QED BY <1>0, <2>1, <2>3 DEF RecordInv
<1>3. CASE Resume
  <2>1. /\ file' = [file EXCEPT ![Len(file)] = SubSeq(file[Len(file)], 1, Kept(file[Len(file)]))]
        /\ UNCHANGED <<sth, buf>> /\ Len(file) \in 1..Len(file)
    BY <1>3 DEF Resume, TypeInv, TypeOK, DiskOK
  <2>2. file[Len(file)] \in Seq(Record) BY <1>0, <2>1, ElementOfSeq
  <2>3. Kept(file[Len(file)]) \in 0..Len(file[Len(file)])
    BY <2>1, ElementOfSeq, KeptBound DEF TypeInv, TypeOK, DiskOK
  <2>4. SubSeq(file[Len(file)], 1, Kept(file[Len(file)])) \in Seq(Record) BY <2>2, <2>3, PartOfRecords
  <2>5. file' \in Seq(Seq(Record)) BY <1>0, <2>1, <2>4, ExceptSeq
  <2> QED BY <1>0, <2>1, <2>5 DEF RecordInv
<1>4. CASE Crash
  <2>1. UNCHANGED <<file, sth>> /\ buf' = << >> /\ << >> \in Seq(Record) BY <1>4 DEF Crash, disk
  <2> QED BY <1>0, <2>1 DEF RecordInv
<1>5. ASSUME NEW t \in Threads, AppendEntry(t) PROVE RecordInv'
  <2> DEFINE e == [ok |-> TRUE, id |-> last.entry + 1, idx |-> idx, prev |-> prev]
  <2>1. e \in Record BY DEF TypeInv, TypeOK, MemOK, GhostOK, Line, Record, Genesis
  <2>2. buf' = Append(buf, e) /\ UNCHANGED <<file, sth>> BY <1>5 DEF AppendEntry, disk
  <2> HIDE DEF e
  <2>3. buf' \in Seq(Record) BY <1>0, <2>1, <2>2, AppendProperties
  <2> QED BY <1>0, <2>2, <2>3 DEF RecordInv
<1>6. ASSUME NEW t \in Threads, WriteSome(t) \/ SyncBatch(t) \/ WriteFails(t) PROVE RecordInv'
  <2>1. /\ seq \in 1..Len(file) /\ (pc[t] = "wrote" => end.lines \in 0..Len(file[seq]))
        /\ torn[seq] \in BOOLEAN /\ end.torn \in BOOLEAN /\ UNCHANGED sth
    BY <1>6, ElementOfSeq DEF WriteSome, SyncBatch, WriteFails, TypeInv, TypeOK, DiskOK, ControlOK, Placed
  <2>2. file[seq] \in Seq(Record) /\ << >> \in Seq(Record) BY <1>0, <2>1, ElementOfSeq
  <2>3. \E ls \in Seq(Record) : file' = [file EXCEPT ![seq] = ls]
    <3>1. CASE WriteSome(t)
      <4>1. PICK k \in 0..Len(buf) : file' = [file EXCEPT ![seq] = file[seq] \o Joined(torn[seq], SubSeq(buf, 1, k))]
        BY <3>1 DEF WriteSome
      <4>2. Joined(torn[seq], SubSeq(buf, 1, k)) \in Seq(Record)
        BY <1>0, <2>1, PartOfRecords, JoinedRecords
      <4>3. file[seq] \o Joined(torn[seq], SubSeq(buf, 1, k)) \in Seq(Record)
        BY <2>2, <4>2, ConcatProperties
      <4> QED BY <4>1, <4>3
    <3>2. CASE SyncBatch(t)
      <4>1. /\ file' = [file EXCEPT ![seq] = SubSeq(file[seq], 1, end.lines) \o Joined(end.torn, buf)]
            /\ pc[t] = "wrote"
        BY <3>2 DEF SyncBatch
      <4>2. Joined(end.torn, buf) \in Seq(Record) BY <1>0, <2>1, JoinedRecords
      <4>3. SubSeq(file[seq], 1, end.lines) \in Seq(Record) BY <2>1, <2>2, <4>1, PartOfRecords
      <4>4. SubSeq(file[seq], 1, end.lines) \o Joined(end.torn, buf) \in Seq(Record)
        BY <4>2, <4>3, ConcatProperties
      <4> QED BY <4>1, <4>4
    <3>3. CASE WriteFails(t)
      <4>1. file' = [file EXCEPT ![seq] = SubSeq(file[seq], 1, end.lines)] /\ pc[t] = "wrote"
        BY <3>3 DEF WriteFails
      <4>2. SubSeq(file[seq], 1, end.lines) \in Seq(Record) BY <2>1, <2>2, <4>1, PartOfRecords
      <4> QED BY <4>1, <4>2
    <3> QED BY <1>6, <3>1, <3>2, <3>3
  <2>4. file' \in Seq(Seq(Record)) BY <1>0, <2>1, <2>3, ExceptSeq
  <2>5. buf' \in Seq(Record) BY <1>0, <1>6, <2>2 DEF WriteSome, SyncBatch, WriteFails, mem
  <2> QED BY <1>0, <2>1, <2>4, <2>5 DEF RecordInv
<1>7. ASSUME NEW t \in Threads, SealSegment(t) \/ SealUnsynced(t) PROVE RecordInv'
  <2>1. pc[t] = "sealing" /\ PutSth /\ Readable(seq) /\ UNCHANGED <<file, buf>>
    BY <1>7 DEF SealSegment, SealUnsynced, Sealing, mem
  <2>2. proc = "up" BY <2>1, InCall DEF Locked
  <2>3. seq \in 1..Len(file) BY <2>1, <2>2 DEF Readable, TypeInv, Placed
  <2>4. file[seq] \in Seq(Record) /\ Len(file[seq]) \in Nat BY <1>0, <2>3, ElementOfSeq
  <2>5. \A i \in 1..Len(file[seq]) : file[seq][i].id \in Nat \ {Genesis}
    <3>1. \A i \in 1..Len(file[seq]) : file[seq][i] \in Record BY <2>4, ElementOfSeq
    <3> QED BY <2>1, <3>1 DEF Readable, Record, Line
  <2>6. Ids(file[seq]) \in Seq(Nat \ {Genesis})
    BY <2>4, <2>5, IsASeq DEF Ids
  <2>7. NewSth \in Commitment
    <3>1. NewSth \in Sth BY <2>3, NewSthType
    <3> QED BY <2>6, <3>1 DEF NewSth, Sth, Commitment
  <2>8. sth' = [sth EXCEPT ![seq] = NewSth] /\ seq \in 1..Len(sth) BY <1>0, <2>1, <2>3 DEF PutSth
  <2>9. sth' \in Seq(Commitment) BY <1>0, <2>7, <2>8, ExceptSeq
  <2> QED BY <1>0, <2>1, <2>9 DEF RecordInv
<1>8. CASE \/ UNCHANGED vars \/ RefuseResume
           \/ \E t \in Threads :
                \/ Call(t) \/ CallRotate(t) \/ FlushNothing(t) \/ FlushClosed(t)
                \/ WriteTip(t) \/ TipFails(t) \/ RollbackFails(t) \/ SealNothing(t) \/ SealFails(t)
                \/ WriteHead(t) \/ HeadFails(t) \/ Anchor(t)
  <2>1. UNCHANGED <<file, sth, buf>>
    BY <1>8 DEF vars, disk, mem, RefuseResume, Call, CallRotate, FlushNothing,
       FlushClosed, WriteTip, TipFails, RollbackFails, SealNothing, SealFails, WriteHead, HeadFails,
       Anchor, Request, WriteToken, WriteMeta
  <2> QED BY <1>1, <2>1
<1> QED BY <1>2, <1>3, <1>4, <1>5, <1>6, <1>7, <1>8 DEF Next, Step, Trouble

\* An STH never commits to a line that is not an entry, even after a failed
\* ftruncate left bytes in the segment that fused with the next batch: seal()
\* reads the file back and raises on a line that does not parse.
THEOREM OnlyEntriesCommitted == Spec => []SthCommitsEntries
<1>1. Init => TypeInv /\ RecordInv
  <2>1. << >> \in Seq(Record) /\ << >> \in Seq(Seq(Record)) /\ << >> \in Seq(Commitment) OBVIOUS
  <2> QED BY <2>1, TypeInit DEF Init, RecordInv
<1>2. TypeInv /\ RecordInv /\ [Next]_vars => (TypeInv /\ RecordInv)'
  BY TypeStep, RecordStep
<1>3. TypeInv /\ RecordInv => SthCommitsEntries
  <2> SUFFICES ASSUME RecordInv, NEW s \in 1..Len(sth), NEW i \in 1..Len(sth[s].leaves)
               PROVE  sth[s].leaves[i] # Genesis
    BY DEF SthCommitsEntries, Sealed
  <2>1. sth[s] \in Commitment BY ElementOfSeq DEF RecordInv
  <2>2. sth[s].leaves \in Seq(Nat \ {Genesis}) BY <2>1 DEF Commitment
  <2> QED BY <2>2, ElementOfSeq
<1> QED BY <1>1, <1>2, <1>3, PTL DEF Spec

-----------------------------------------------------------------------------
(* The chain: what is on disk and what is queued are one stream.            *)

\* The lines of the active segment that append_line will not take back.
Stored ==
  IF seq \notin 1..Len(file) THEN << >>
  ELSE IF Writing THEN SubSeq(file[seq], 1, end.lines) ELSE file[seq]

Stream == Stored \o buf

\* _idx, _prev and _first are the chain state after a stream of lines.
ChainState(st, i, p, f) ==
  /\ Chained(st, Len(st)) /\ i = Len(st)
  /\ p = IF Len(st) = 0 THEN Genesis ELSE st[Len(st)].id
  /\ f = IF Len(st) = 0 THEN Genesis ELSE st[1].id

\* Every segment is a chain; the memory of the process continues the active one.
Chains == \A s \in 1..Len(file) : Chained(file[s], Len(file[s]))
InStep == proc = "up" => ChainState(Stream, idx, prev, first)

\* The queue is empty from the fsync of the batch to the next append(), and
\* append_line is only entered with something to write.
QueueDone ==
  /\ proc # "up" => buf = << >>
  /\ \A t \in Threads : pc[t] \in {"tip", "sealing", "head", "rotate"} => buf = << >>
  /\ \A t \in Threads : pc[t] = "wrote" => buf # << >>
  /\ \A t \in Threads : pc[t] = "tip" => idx > 0

StreamInv == Chains /\ InStep /\ QueueDone

\* The stream is lines, and on disk no more than the file has.
LEMMA StreamType ==
  ASSUME TypeInv
  PROVE  /\ Stored \in Seq(Line) /\ buf \in Seq(Line) /\ Stream \in Seq(Line)
         /\ Len(Stored) \in Nat /\ Len(buf) \in Nat /\ Len(Stream) = Len(Stored) + Len(buf)
<1>1. buf \in Seq(Line) BY DEF TypeInv, TypeOK, MemOK
<1>2. Stored \in Seq(Line)
  <2>1. CASE seq \notin 1..Len(file) BY <2>1 DEF Stored
  <2>2. CASE seq \in 1..Len(file)
    <3>1. file[seq] \in Seq(Line) BY <2>2, ElementOfSeq DEF TypeInv, TypeOK, DiskOK
    <3>2. Writing => end.lines \in 0..Len(file[seq]) BY DEF Writing, TypeInv, Placed
    <3>3. Writing => SubSeq(file[seq], 1, end.lines) \in Seq(Line) BY <3>1, <3>2, KeepLines
    <3> QED BY <2>2, <3>1, <3>3 DEF Stored
  <2> QED BY <2>1, <2>2
<1> QED BY <1>1, <1>2, ConcatProperties DEF Stream

\* The first lines of a chain are a chain.
LEMMA ChainedPart ==
  ASSUME NEW lines \in Seq(Line), Chained(lines, Len(lines)), NEW n \in 0..Len(lines),
         NEW part \in Seq(Line), Len(part) = n, \A i \in 1..n : part[i] = lines[i]
  PROVE  Chained(part, Len(part))
<1>1. Len(lines) \in Nat OBVIOUS
<1> SUFFICES ASSUME NEW i \in 1..n
             PROVE  /\ part[i].idx = i - 1
                    /\ part[i].prev = IF i = 1 THEN Genesis ELSE part[i - 1].id
  BY DEF Chained
<1>2. i \in 1..Len(lines) /\ (i # 1 => i - 1 \in 1..n) BY <1>1
<1>3. lines[i].idx = i - 1 /\ lines[i].prev = IF i = 1 THEN Genesis ELSE lines[i - 1].id
  BY <1>2 DEF Chained
<1> QED BY <1>2, <1>3

\* append() continues the chain with the index and the hash it has in memory.
LEMMA ChainGrows ==
  ASSUME NEW st \in Seq(Line), NEW e \in Line, NEW p, NEW f, NEW i,
         ChainState(st, i, p, f), e.idx = i, e.prev = p, NEW new, new = Append(st, e)
  PROVE  ChainState(new, i + 1, e.id, IF i = 0 THEN e.id ELSE f)
<1>1. /\ new \in Seq(Line) /\ Len(new) = Len(st) + 1 /\ Len(st) \in Nat
      /\ new[Len(st) + 1] = e /\ \A j \in 1..Len(st) : new[j] = st[j]
  BY AppendProperties
<1>2. i = Len(st) BY DEF ChainState
<1>3. ASSUME NEW j \in 1..Len(new)
      PROVE  new[j].idx = j - 1 /\ new[j].prev = IF j = 1 THEN Genesis ELSE new[j - 1].id
  <2>1. CASE j \in 1..Len(st)
    <3>1. st[j].idx = j - 1 /\ st[j].prev = IF j = 1 THEN Genesis ELSE st[j - 1].id
      BY <2>1 DEF ChainState, Chained
    <3>2. new[j] = st[j] /\ (j # 1 => new[j - 1] = st[j - 1]) BY <1>1, <2>1
    <3> QED BY <3>1, <3>2
  <2>2. CASE j = Len(st) + 1
    <3>1. new[j] = e /\ j - 1 = Len(st) /\ (j # 1 => new[j - 1] = st[j - 1]) BY <1>1, <2>2
    <3>2. p = IF Len(st) = 0 THEN Genesis ELSE st[Len(st)].id BY DEF ChainState
    <3> QED BY <1>1, <1>2, <3>1, <3>2
  <2> QED BY <1>1, <2>1, <2>2
<1>4. Chained(new, Len(new)) BY <1>3 DEF Chained
<1>5. i + 1 = Len(new) /\ Len(new) # 0 /\ new[Len(new)] = e BY <1>1, <1>2
<1>6. new[1].id = IF i = 0 THEN e.id ELSE f
  <2>1. f = IF Len(st) = 0 THEN Genesis ELSE st[1].id BY DEF ChainState
  <2> QED BY <1>1, <1>2, <2>1
<1> QED BY <1>4, <1>5, <1>6 DEF ChainState

\* An empty stream is the state a segment starts in.
LEMMA ChainStarts == ChainState(<< >>, 0, Genesis, Genesis)
<1>1. Len(<< >>) = 0 OBVIOUS
<1> QED BY <1>1 DEF ChainState, Chained

\* Steps of a call that leave the segment, the queue and the chain state alone.
LEMMA StreamQuiet ==
  ASSUME TypeInv, StreamInv, NEW t \in Threads,
         \/ Call(t) \/ CallRotate(t) \/ FlushNothing(t) \/ FlushClosed(t) \/ WriteTip(t) \/ TipFails(t)
         \/ SealNothing(t) \/ SealSegment(t) \/ SealFails(t) \/ SealUnsynced(t)
         \/ WriteHead(t) \/ HeadFails(t) \/ Anchor(t)
  PROVE  StreamInv'
<1>1. UNCHANGED <<file, buf, end, seq, idx, prev, first, proc>> /\ pc[t] # "wrote"
  BY DEF Call, CallRotate, FlushNothing, FlushClosed, WriteTip, TipFails, SealNothing, SealSegment,
     SealFails, SealUnsynced, Sealing, WriteHead, HeadFails, Anchor, Request, WriteToken, WriteMeta, Idle, disk, mem
<1>2. PICK to \in Steps \ {"wrote", "tip"} :
        /\ pc' = [pc EXCEPT ![t] = to]
        /\ to \in {"sealing", "head", "rotate"} => buf = << >>
  <2>1. CASE Call(t) \/ CallRotate(t)
    BY <2>1 DEF Call, CallRotate, Enter, Steps, Anchoring, Locked
  <2>2. CASE FlushNothing(t) \/ WriteTip(t)
    <3>1. buf = << >> BY <2>2 DEF FlushNothing, WriteTip, StreamInv, QueueDone
    <3> QED BY <2>2, <3>1 DEF FlushNothing, WriteTip, AfterFlush, Leave, Steps, Anchoring, Locked
  <2>3. CASE FlushClosed(t) \/ TipFails(t) \/ SealNothing(t) \/ SealFails(t) \/ SealUnsynced(t)
             \/ HeadFails(t)
    BY <2>3 DEF FlushClosed, TipFails, SealNothing, SealFails, SealUnsynced, HeadFails,
       Raise, Leave, Steps, Anchoring
  <2>5. CASE Anchor(t) BY <2>5, AnchorLeaves DEF Steps, Anchoring
  <2>4. CASE SealSegment(t) \/ WriteHead(t)
    BY <2>4 DEF SealSegment, Sealing, WriteHead, StreamInv, QueueDone, Steps, Anchoring, Locked
  <2> QED BY <2>1, <2>2, <2>3, <2>4, <2>5
<1>3. \A u \in Threads : /\ pc'[u] \in {"wrote", "tip"} => pc[u] = pc'[u]
                         /\ pc[u] = "wrote" => pc'[u] = "wrote"
                         /\ pc'[u] \in {"tip", "sealing", "head", "rotate"} => buf = << >>
  BY <1>1, <1>2 DEF TypeInv, TypeOK, ControlOK, StreamInv, QueueDone
<1>4. Writing' <=> Writing BY <1>3 DEF Writing
<1>5. Stored' = Stored BY <1>1, <1>4 DEF Stored
<1>6. Stream' = Stream BY <1>1, <1>5 DEF Stream
<1>7. InStep' BY <1>1, <1>6 DEF StreamInv, InStep, ChainState
<1>8. QueueDone' BY <1>1, <1>3 DEF StreamInv, QueueDone
<1>9. Chains' BY <1>1 DEF StreamInv, Chains
<1> QED BY <1>7, <1>8, <1>9 DEF StreamInv

\* append() puts one more line at the end of the stream.
LEMMA StreamAppend ==
  ASSUME TypeInv, StreamInv, NEW t \in Threads, AppendEntry(t)
  PROVE  StreamInv'
<1>1. [ok |-> TRUE, id |-> last.entry + 1, idx |-> idx, prev |-> prev] \in Line
  BY DEF TypeInv, TypeOK, MemOK, GhostOK, Line
<1>2. PICK e \in Line : e = [ok |-> TRUE, id |-> last.entry + 1, idx |-> idx, prev |-> prev] BY <1>1
<1>3. /\ buf' = Append(buf, e) /\ first' = (IF idx = 0 THEN e.id ELSE first)
      /\ prev' = e.id /\ idx' = idx + 1 /\ e.idx = idx /\ e.prev = prev
      /\ UNCHANGED <<file, seq, end, proc>> /\ proc = "up" /\ \A u \in Threads : pc[u] \notin Locked
  BY <1>2 DEF AppendEntry, Idle, LockFree, disk
<1>4. PICK to \in {"flush", "due", "idle"} : pc' = [pc EXCEPT ![t] = to]
  BY DEF AppendEntry, Enter
<1>5. \A u \in Threads : pc'[u] \notin {"wrote", "tip", "sealing", "head", "rotate"}
  BY <1>3, <1>4 DEF TypeInv, TypeOK, ControlOK, Locked
<1>6. ~Writing /\ ~Writing' BY <1>3, <1>5 DEF Writing, Locked
<1>7. Stored' = Stored BY <1>3, <1>6 DEF Stored
<1>8. PICK st \in Seq(Line), new \in Seq(Line), q \in Seq(Line) :
        st = Stored /\ new = Stream /\ q = buf
  BY StreamType
<1>9. Stream' = Append(new, e)
  <2>1. st \o Append(q, e) = Append(st \o q, e)
    <3>1. Append(q, e) = q \o <<e>> /\ Append(st \o q, e) = (st \o q) \o <<e>> /\ <<e>> \in Seq(Line)
      BY AppendIsConcat, ConcatProperties
    <3> QED BY <3>1, ConcatAssociative
  <2> QED BY <1>3, <1>7, <1>8, <2>1 DEF Stream
<1>10. ChainState(new, idx, prev, first) BY <1>3, <1>8 DEF StreamInv, InStep
<1>11. PICK i, p, f, after : i = idx /\ p = prev /\ f = first /\ after = Append(new, e) OBVIOUS
<1>12. ChainState(after, i + 1, e.id, IF i = 0 THEN e.id ELSE f)
  <2>1. ChainState(new, i, p, f) /\ e.idx = i /\ e.prev = p BY <1>3, <1>10, <1>11
  <2> QED BY <1>11, <2>1, ChainGrows
<1>13. InStep' BY <1>3, <1>9, <1>11, <1>12 DEF InStep
<1>14. QueueDone' BY <1>3, <1>5 DEF QueueDone
<1>15. Chains' BY <1>3 DEF StreamInv, Chains
<1> QED BY <1>13, <1>14, <1>15 DEF StreamInv

\* A fresh segment starts an empty stream.
LEMMA StreamFresh ==
  ASSUME TypeInv, StreamInv,
         OpenFresh \/ \E t \in Threads : RotateSegment(t) \/ RotateFails(t)
  PROVE  StreamInv'
<1>1. /\ buf = << >> /\ buf' = << >> /\ seq' = Len(file) + 1
      /\ CreateSegment \/ UNCHANGED file
      /\ idx' = 0 /\ prev' = Genesis /\ first' = Genesis /\ proc' = "up"
      /\ \A u \in Threads : pc'[u] \notin {"wrote", "tip", "sealing", "head", "rotate"}
  <2>1. CASE OpenFresh
    <3>1. \A u \in Threads : pc[u] = "idle" BY <2>1 DEF OpenFresh, TypeInv, Placed
    <3> QED BY <2>1, <3>1 DEF OpenFresh, control, ghost, StreamInv, QueueDone
  <2>2. CASE \E t \in Threads : RotateSegment(t) \/ RotateFails(t)
    <3>0. PICK t \in Threads : RotateSegment(t) \/ RotateFails(t) BY <2>2
    <3>1. pc[t] = "rotate" BY <3>0 DEF RotateSegment, RotateFails
    <3>2. proc = "up" /\ \A u \in Threads : u # t => pc[u] \notin Locked
      BY <3>1, InCall DEF Locked
    <3>3. seq = Len(file) /\ buf = << >>
      BY <3>1, <3>2 DEF TypeInv, TypeOK, DiskOK, Placed, StreamInv, QueueDone
    <3>4. PICK to \in {"anchor", "idle"} : pc' = [pc EXCEPT ![t] = to]
      BY <3>0 DEF RotateSegment, RotateFails
    <3>5. \A u \in Threads : pc'[u] \notin {"wrote", "tip", "sealing", "head", "rotate"}
      BY <3>2, <3>4 DEF TypeInv, TypeOK, ControlOK, Locked
    <3> QED BY <3>0, <3>2, <3>3, <3>5 DEF RotateSegment, RotateFails, NextSegment
  <2> QED BY <2>1, <2>2
<1>2. /\ \A s \in 1..Len(file') : (s \in 1..Len(file) /\ file'[s] = file[s]) \/ file'[s] = << >>
      /\ seq' \in 1..Len(file') => file'[seq'] = << >>
  <2>1. Len(file) \in Nat BY DEF TypeInv, TypeOK, DiskOK
  <2>2. CASE UNCHANGED file BY <1>1, <2>1, <2>2
  <2>3. CASE CreateSegment BY <1>1, <2>3, CreateDurable
  <2> QED BY <1>1, <2>2, <2>3
<1>3. ~Writing' BY <1>1 DEF Writing
<1>4. Stream' = << >>
  <2>1. Stored' = << >> BY <1>2, <1>3 DEF Stored
  <2>2. << >> \o << >> = << >> OBVIOUS
  <2> QED BY <1>1, <2>1, <2>2 DEF Stream
<1>5. InStep' BY <1>1, <1>4, ChainStarts DEF InStep
<1>6. QueueDone' BY <1>1 DEF QueueDone
<1>7. Chains'
  <2>1. Chained(<< >>, Len(<< >>)) BY ChainStarts DEF ChainState
  <2> QED BY <1>2, <2>1 DEF StreamInv, Chains
<1> QED BY <1>5, <1>6, <1>7 DEF StreamInv

\* The start of a sequence written in two parts, and the shorter second part.
LEMMA Joints ==
  ASSUME NEW old \in Seq(Line), NEW q \in Seq(Line), NEW k \in 0..Len(q), NEW new, new = SubSeq(q, 1, k),
         NEW cat, cat = old \o new, NEW whole, whole = old \o q
  PROVE  /\ cat \in Seq(Line) /\ whole \in Seq(Line) /\ SubSeq(cat, 1, Len(old)) = old
         /\ Len(cat) \in 0..Len(whole) /\ \A i \in 1..Len(cat) : cat[i] = whole[i]
<1>1. new \in Seq(Line) /\ Len(new) = k /\ \A i \in 1..k : new[i] = q[i] BY KeepLines
<1>2. Len(old) \in Nat /\ Len(q) \in Nat /\ k \in Nat OBVIOUS
<1>3. /\ cat \in Seq(Line) /\ Len(cat) = Len(old) + k
      /\ \A i \in 1..Len(old) + k : cat[i] = IF i <= Len(old) THEN old[i] ELSE new[i - Len(old)]
  BY <1>1, ConcatProperties
<1>4. /\ whole \in Seq(Line) /\ Len(whole) = Len(old) + Len(q)
      /\ \A i \in 1..Len(old) + Len(q) : whole[i] = IF i <= Len(old) THEN old[i] ELSE q[i - Len(old)]
  BY ConcatProperties
<1>5. Len(cat) \in 0..Len(whole) BY <1>2, <1>3, <1>4
<1>6. ASSUME NEW i \in 1..Len(cat) PROVE cat[i] = whole[i]
  <2>1. i \in 1..Len(old) + k /\ i \in 1..Len(old) + Len(q) BY <1>2, <1>3
  <2>2. ~(i <= Len(old)) => i - Len(old) \in 1..k BY <1>2, <2>1
  <2> QED BY <1>1, <1>3, <1>4, <2>1, <2>2
<1>7. SubSeq(cat, 1, Len(old)) = old
  <2>1. Len(old) \in 0..Len(cat) /\ \A i \in 1..Len(old) : cat[i] = old[i] BY <1>2, <1>3
  <2>2. /\ SubSeq(cat, 1, Len(old)) \in Seq(Line) /\ Len(SubSeq(cat, 1, Len(old))) = Len(old)
        /\ \A i \in 1..Len(old) : SubSeq(cat, 1, Len(old))[i] = cat[i]
    BY <1>3, <2>1, KeepLines
  <2> QED BY <2>1, <2>2, SeqEqual
<1> QED BY <1>3, <1>4, <1>5, <1>6, <1>7

\* append_line at work: the file holds the stored lines and a part of the batch,
\* none of it after a failure and all of it after the fsync.
LEMMA WriteShape ==
  ASSUME TypeInv, DurableInv, NEW t \in Threads,
         WriteSome(t) \/ SyncBatch(t) \/ WriteFails(t)
  PROVE  /\ seq \in 1..Len(file) /\ proc = "up" /\ UNCHANGED <<proc, seq, idx, prev, first>>
         /\ \A u \in Threads : u # t => pc[u] \notin Locked
         /\ Stored = IF pc[t] = "wrote" THEN SubSeq(file[seq], 1, end.lines) ELSE file[seq]
         /\ Len(file') = Len(file) /\ \A s \in 1..Len(file) : s # seq => file'[s] = file[s]
         /\ \E k \in 0..Len(buf) : /\ file'[seq] = Stored \o SubSeq(buf, 1, k)
                                   /\ \/ WriteSome(t)
                                      \/ SyncBatch(t) /\ SubSeq(buf, 1, k) = buf
                                      \/ WriteFails(t) /\ SubSeq(buf, 1, k) = << >>
<1>1. /\ pc[t] \in {"flush", "wrote"} /\ seq \in 1..Len(file)
      /\ UNCHANGED <<proc, seq, idx, prev, first>>
  BY DEF WriteSome, SyncBatch, WriteFails, mem, TypeInv, Placed
<1>2. proc = "up" /\ \A u \in Threads : u # t => pc[u] \notin Locked
  BY <1>1, InCall DEF Locked
<1>3. file \in Seq(Seq(Line)) BY DEF TypeInv, TypeOK, DiskOK
<1>4. PICK q \in Seq(Line), old \in Seq(Line) : q = buf /\ old = Stored
  BY StreamType
<1>5. Writing <=> pc[t] = "wrote" BY <1>1, <1>2 DEF Writing, Locked
<1>6. old = IF pc[t] = "wrote" THEN SubSeq(file[seq], 1, end.lines) ELSE file[seq]
  BY <1>1, <1>4, <1>5 DEF Stored
<1>7. PICK k \in 0..Len(q) : file' = [file EXCEPT ![seq] = old \o SubSeq(q, 1, k)]
         /\ \/ WriteSome(t)
            \/ SyncBatch(t) /\ SubSeq(q, 1, k) = q
            \/ WriteFails(t) /\ SubSeq(q, 1, k) = << >>
  <2>1. CASE WriteSome(t)
    <3>1. ~torn[seq] BY <1>1, <1>2, <1>5, <2>1 DEF DurableInv, CleanEnd, WriteSome
    <3> QED BY <1>4, <1>6, <2>1, <3>1 DEF WriteSome, Joined
  <2>2. CASE SyncBatch(t)
    <3>1. ~end.torn BY <1>1, <1>2, <1>5, <2>2 DEF DurableInv, CleanEnd, SyncBatch
    <3>2. file' = [file EXCEPT ![seq] = old \o q] BY <1>4, <1>6, <2>2, <3>1 DEF SyncBatch, Joined
    <3>3. Len(q) \in 0..Len(q) OBVIOUS
    <3>4. SubSeq(q, 1, Len(q)) = q
      <4>1. /\ SubSeq(q, 1, Len(q)) \in Seq(Line) /\ Len(SubSeq(q, 1, Len(q))) = Len(q)
            /\ \A i \in 1..Len(q) : SubSeq(q, 1, Len(q))[i] = q[i]
        BY <3>3, KeepLines
      <4> QED BY <4>1, SeqEqual
    <3> QED BY <2>2, <3>2, <3>3, <3>4
  <2>3. CASE WriteFails(t)
    <3>1. file' = [file EXCEPT ![seq] = old] BY <1>6, <2>3 DEF WriteFails
    <3>2. 0 \in 0..Len(q) OBVIOUS
    <3>3. SubSeq(q, 1, 0) = << >>
      <4>1. SubSeq(q, 1, 0) \in Seq(Line) /\ Len(SubSeq(q, 1, 0)) = 0 BY <3>2, KeepLines
      <4> QED BY <4>1, EmptySeq
    <3>4. old \o << >> = old BY ConcatSimplifications
    <3> QED BY <2>3, <3>1, <3>2, <3>3, <3>4
  <2> QED BY <2>1, <2>2, <2>3
<1>8. PICK cat : cat = old \o SubSeq(q, 1, k) OBVIOUS
<1>9. cat \in Seq(Line) BY <1>8, Joints
<1>10. /\ Len(file') = Len(file) /\ file'[seq] = cat
       /\ \A s \in 1..Len(file) : s # seq => file'[s] = file[s]
  <2>1. file' = [file EXCEPT ![seq] = cat] BY <1>7, <1>8
  <2> QED BY <1>1, <1>3, <1>9, <2>1, ExceptSeq
<1> QED BY <1>1, <1>2, <1>4, <1>6, <1>7, <1>8, <1>10

\* The stream stays as it is while append_line moves lines of it to the file.
LEMMA StreamWrite ==
  ASSUME TypeInv, DurableInv, StreamInv, NEW t \in Threads,
         WriteSome(t) \/ SyncBatch(t) \/ WriteFails(t)
  PROVE  StreamInv'
<1>1. /\ seq \in 1..Len(file) /\ UNCHANGED <<proc, seq, idx, prev, first>>
  BY WriteShape
<1>2. proc = "up" /\ \A u \in Threads : u # t => pc[u] \notin Locked
  BY WriteShape
<1>3. buf \in Seq(Line) /\ Len(buf) \in Nat BY DEF TypeInv, TypeOK, MemOK
<1>4. Chained(Stream, Len(Stream)) /\ idx = Len(Stream) BY <1>2 DEF StreamInv, InStep, ChainState
<1>5. PICK q \in Seq(Line), old \in Seq(Line), whole \in Seq(Line) :
        q = buf /\ old = Stored /\ whole = Stream
  BY StreamType
<1>6. whole = old \o q /\ Chained(whole, Len(whole)) BY <1>4, <1>5 DEF Stream
<1>9. old = IF pc[t] = "wrote" THEN SubSeq(file[seq], 1, end.lines) ELSE file[seq]
  BY <1>5, WriteShape
<1>10. PICK k \in 0..Len(q) : file'[seq] = old \o SubSeq(q, 1, k)
         /\ \/ WriteSome(t)
            \/ SyncBatch(t) /\ SubSeq(q, 1, k) = q
            \/ WriteFails(t) /\ SubSeq(q, 1, k) = << >>
  BY <1>5, WriteShape
<1>11. PICK cat : cat = old \o SubSeq(q, 1, k) OBVIOUS
<1>12. /\ cat \in Seq(Line) /\ SubSeq(cat, 1, Len(old)) = old
       /\ Len(cat) \in 0..Len(whole) /\ \A i \in 1..Len(cat) : cat[i] = whole[i]
  BY <1>6, <1>11, Joints
<1>13. Chained(cat, Len(cat)) BY <1>6, <1>12, ChainedPart
<1>14. /\ Len(file') = Len(file) /\ file'[seq] = cat
       /\ \A s \in 1..Len(file) : s # seq => file'[s] = file[s]
  BY <1>10, <1>11, WriteShape
<1>15. Chains'
  BY <1>13, <1>14 DEF StreamInv, Chains
<1>16. \A u \in Threads : /\ u # t => pc'[u] = pc[u]
                          /\ WriteSome(t) => pc'[t] = "wrote"
                          /\ SyncBatch(t) => pc'[t] = "tip"
                          /\ WriteFails(t) => pc'[t] = "idle"
  BY DEF WriteSome, SyncBatch, WriteFails, Raise, Leave, TypeInv, TypeOK, ControlOK
<1>17. /\ WriteSome(t) => Writing' /\ pc[t] = "flush"
       /\ SyncBatch(t) \/ WriteFails(t) => ~Writing' /\ pc[t] = "wrote"
  BY <1>2, <1>16 DEF Writing, Locked, WriteSome, SyncBatch, WriteFails
<1>18. Stream' = whole
  <2>0. seq' \in 1..Len(file') /\ seq' = seq BY <1>1, <1>14
  <2>1. CASE WriteSome(t)
    <3>1. end'.lines = Len(old) /\ buf' = q BY <1>5, <1>9, <1>17, <2>1 DEF WriteSome, mem
    <3>2. Stored' = old BY <1>12, <1>14, <1>17, <2>0, <2>1, <3>1 DEF Stored
    <3> QED BY <1>6, <3>1, <3>2 DEF Stream
  <2>2. CASE SyncBatch(t) /\ SubSeq(q, 1, k) = q
    <3>1. Stored' = whole BY <1>6, <1>11, <1>14, <1>17, <2>0, <2>2 DEF Stored
    <3>2. buf' = << >> BY <2>2 DEF SyncBatch
    <3>3. whole \o << >> = whole BY ConcatSimplifications
    <3> QED BY <3>1, <3>2, <3>3 DEF Stream
  <2>3. CASE WriteFails(t) /\ SubSeq(q, 1, k) = << >>
    <3>3. old \o << >> = old BY ConcatSimplifications
    <3>0. cat = old BY <1>11, <2>3, <3>3
    <3>1. Stored' = old BY <1>14, <1>17, <2>0, <2>3, <3>0 DEF Stored
    <3>2. buf' = q BY <1>5, <2>3 DEF WriteFails
    <3> QED BY <1>6, <3>1, <3>2 DEF Stream
  <2> QED BY <1>10, <2>1, <2>2, <2>3
<1>19. InStep' BY <1>1, <1>5, <1>18 DEF StreamInv, InStep, ChainState
<1>20. QueueDone'
  <2>1. \A u \in Threads : u # t => pc'[u] \notin Locked BY <1>2, <1>16
  <2>2. WriteSome(t) => buf # << >> /\ buf' = buf BY DEF WriteSome, mem
  <2>3. SyncBatch(t) => buf' = << >> /\ idx > 0
    <3> SUFFICES ASSUME SyncBatch(t) PROVE buf' = << >> /\ idx > 0 OBVIOUS
    <3>1. buf # << >> /\ buf' = << >> BY DEF SyncBatch, StreamInv, QueueDone
    <3>2. Len(buf) > 0 BY <1>3, <3>1, EmptySeq
    <3>3. Len(Stream) = Len(Stored) + Len(buf) /\ Len(Stored) \in Nat BY StreamType
    <3> QED BY <1>3, <1>4, <3>1, <3>2, <3>3
  <2> QED BY <1>1, <1>2, <1>16, <2>1, <2>2, <2>3 DEF QueueDone, Locked
<1> QED BY <1>15, <1>19, <1>20 DEF StreamInv

\* _resume finds every line of the segment good: it keeps the file as it is.
LEMMA ResumeKeeps ==
  ASSUME TypeInv, DurableInv, Resume
  PROVE  /\ file' = file /\ Len(file) \in 1..Len(file) /\ file[Len(file)] \in Seq(Line)
         /\ Kept(file[Len(file)]) = Len(file[Len(file)])
<1> DEFINE lines == file[Len(file)]
<1>1. file \in Seq(Seq(Line)) /\ Len(file) \in 1..Len(file) /\ lines \in Seq(Line) /\ Len(lines) \in Nat
  BY DEF Resume, TypeInv, TypeOK, DiskOK
<1>2. \A i \in 1..Len(lines) : lines[i].ok BY <1>1 DEF DurableInv, AllOk
<1>3. Kept(lines) = Len(lines) BY <1>1, <1>2, KeptBound
<1>4. SubSeq(lines, 1, Kept(lines)) = lines
  <2>1. Len(lines) \in 0..Len(lines) BY <1>1
  <2>2. /\ SubSeq(lines, 1, Len(lines)) \in Seq(Line) /\ Len(SubSeq(lines, 1, Len(lines))) = Len(lines)
        /\ \A i \in 1..Len(lines) : SubSeq(lines, 1, Len(lines))[i] = lines[i]
    BY <1>1, <2>1, KeepLines
  <2> QED BY <1>1, <1>3, <2>2, SeqEqual
<1>5. file' = [file EXCEPT ![Len(file)] = SubSeq(lines, 1, Kept(lines))] BY DEF Resume
<1> HIDE DEF lines
<1>6. file' = file BY <1>1, <1>4, <1>5 DEF lines
<1> QED BY <1>1, <1>3, <1>6 DEF lines

\* The process takes up the stream where the segment ends, or dies with its queue.
LEMMA StreamRestart ==
  ASSUME TypeInv, DurableInv, StreamInv, Resume \/ Crash
  PROVE  StreamInv'
<1>1. CASE Resume
  <2>1. PICK lines \in Seq(Line) : lines = file[Len(file)] BY <1>1, ResumeKeeps
  <2>2. /\ file' = file /\ Len(file) \in 1..Len(file) /\ Kept(lines) = Len(lines)
    BY <1>1, <2>1, ResumeKeeps
  <2>3. /\ seq' = Len(file) /\ idx' = Len(lines) /\ proc = "down" /\ UNCHANGED <<buf, pc>> /\ proc' = "up"
        /\ prev' = (IF Len(lines) = 0 THEN Genesis ELSE lines[Len(lines)].id)
        /\ first' = (IF Len(lines) = 0 THEN Genesis ELSE lines[1].id)
    BY <1>1, <2>1, <2>2 DEF Resume, control
  <2>4. \A u \in Threads : pc'[u] = "idle" BY <2>3 DEF TypeInv, Placed
  <2>5. buf' = << >> BY <2>3 DEF StreamInv, QueueDone
  <2>6. Stream' = lines
    <3>1. ~Writing' BY <2>4 DEF Writing
    <3>2. Stored' = lines BY <2>1, <2>2, <2>3, <3>1 DEF Stored
    <3>3. lines \o << >> = lines BY ConcatSimplifications
    <3> QED BY <2>5, <3>2, <3>3 DEF Stream
  <2>7. Chained(lines, Len(lines)) BY <2>1, <2>2 DEF StreamInv, Chains
  <2>8. InStep' BY <2>3, <2>6, <2>7 DEF InStep, ChainState
  <2>9. QueueDone' BY <2>4, <2>5 DEF QueueDone
  <2>10. Chains' BY <2>2 DEF StreamInv, Chains
  <2> QED BY <2>8, <2>9, <2>10 DEF StreamInv
<1>2. CASE Crash
  <2>1. /\ proc' = "down" /\ buf' = << >> /\ UNCHANGED file /\ \A u \in Threads : pc'[u] = "idle"
    BY <1>2 DEF Crash, disk
  <2> QED BY <2>1 DEF StreamInv, Chains, InStep, QueueDone
<1> QED BY <1>1, <1>2

\* Without a failing ftruncate every step keeps one stream.
LEMMA StreamStep ==
  ASSUME "rollback" \notin Faults, TypeInv, DurableInv, StreamInv, [Next]_vars
  PROVE  StreamInv'
<1>1. CASE UNCHANGED vars
  <2>1. UNCHANGED <<file, buf, end, seq, idx, prev, first, proc, pc>>
    BY <1>1 DEF vars, disk, mem, control
  <2>2. Stream' = Stream BY <2>1 DEF Stream, Stored, Writing
  <2> QED BY <2>1, <2>2 DEF StreamInv, Chains, InStep, QueueDone, ChainState
<1>2. CASE RefuseResume
  <2>1. UNCHANGED <<file, buf, pc, idx>> /\ proc' = "refused" /\ proc = "down"
    BY <1>2 DEF RefuseResume, disk, mem, control
  <2> QED BY <2>1 DEF StreamInv, Chains, InStep, QueueDone
<1>3. ASSUME NEW t \in Threads PROVE ~RollbackFails(t)
  BY DEF RollbackFails, Fail
<1>4. CASE OpenFresh \/ \E t \in Threads : RotateSegment(t) \/ RotateFails(t)
  BY <1>4, StreamFresh
<1>5. CASE \E t \in Threads : AppendEntry(t) BY <1>5, StreamAppend
<1>6. CASE \E t \in Threads : WriteSome(t) \/ SyncBatch(t) \/ WriteFails(t)
  BY <1>6, StreamWrite
<1>7. CASE \E t \in Threads :
             \/ Call(t) \/ CallRotate(t) \/ FlushNothing(t) \/ FlushClosed(t) \/ WriteTip(t) \/ TipFails(t)
             \/ SealNothing(t) \/ SealSegment(t) \/ SealFails(t) \/ SealUnsynced(t)
             \/ WriteHead(t) \/ HeadFails(t) \/ Anchor(t)
  BY <1>7, StreamQuiet
<1>8. CASE Resume \/ Crash BY <1>8, StreamRestart
<1> QED BY <1>1, <1>2, <1>3, <1>4, <1>5, <1>6, <1>7, <1>8 DEF Next, Step, Trouble

\* The invariants of the directory and of the stream, together.
WriterInv == TypeInv /\ DurableInv /\ StreamInv

\* An empty directory and no process.
LEMMA WriterInit == Init => WriterInv
<1> SUFFICES ASSUME Init PROVE WriterInv OBVIOUS
<1>1. DurableInv BY DEF Init, DurableInv, AllOk, CleanEnd, Accounted
<1>2. StreamInv BY DEF Init, StreamInv, Chains, InStep, QueueDone
<1> QED BY <1>1, <1>2, TypeInit DEF WriterInv

\* Every step keeps them.
LEMMA WriterStep ==
  ASSUME "rollback" \notin Faults, WriterInv, [Next]_vars
  PROVE  WriterInv'
  BY TypeStep, DurableStep, StreamStep DEF WriterInv

\* _resume never refuses as "broken/tampered" a segment this writer wrote: after
\* any number of batches, failed writes and seals, crashes and restarts, the
\* lines it finds are one chain from index 0, if ftruncate does not itself fail.
THEOREM NeverRefused ==
  ASSUME "rollback" \notin Faults
  PROVE  Spec => []ResumeAccepts
<1>1. Init => WriterInv /\ ResumeAccepts BY WriterInit DEF Init, ResumeAccepts
<1>2. WriterInv /\ [Next]_vars => WriterInv' BY WriterStep
<1>3. WriterInv => ~RefuseResume
  <2> SUFFICES ASSUME WriterInv, RefuseResume PROVE FALSE OBVIOUS
  <2>1. Len(file) \in 1..Len(file) /\ file[Len(file)] \in Seq(Line)
    BY ElementOfSeq DEF RefuseResume, WriterInv, TypeInv, TypeOK, DiskOK
  <2>2. Kept(file[Len(file)]) = Len(file[Len(file)])
    BY <2>1, KeptBound DEF WriterInv, DurableInv, AllOk
  <2> QED BY <2>1, <2>2 DEF RefuseResume, WriterInv, StreamInv, Chains
<1>4. WriterInv /\ ResumeAccepts /\ [Next]_vars => ResumeAccepts'
  <2> SUFFICES ASSUME WriterInv, ResumeAccepts, [Next]_vars PROVE proc' # "refused"
    BY DEF ResumeAccepts
  <2>1. CASE OpenFresh \/ Resume \/ Crash BY <2>1 DEF OpenFresh, Resume, Crash
  <2>2. CASE UNCHANGED vars \/ \E t \in Threads : \/ Elsewhere(t) \/ SealSegment(t) \/ SealUnsynced(t)
                               \/ RotateSegment(t) \/ RotateFails(t) \/ Anchor(t)
    <3>1. UNCHANGED proc
      BY <2>2, ElsewhereStays DEF WriterInv, vars, SidecarsStay, SealSegment, SealUnsynced, RotateSegment,
         RotateFails, Anchor, Request, WriteToken, WriteMeta
    <3> QED BY <3>1 DEF ResumeAccepts
  <2> QED BY <1>3, <2>1, <2>2, StepKinds
<1> QED BY <1>1, <1>2, <1>4, PTL DEF Spec

-----------------------------------------------------------------------------
(* The sealed segments: a prefix of the archive, each as its STH says.      *)

\* Only the active segment can be without an STH, and not from its sealing on.
SealedBelow ==
  /\ \A s \in 1..Len(file) : s < Len(file) => sth[s] # NoSth
  /\ proc = "up" /\ seq > Len(file) => \A s \in 1..Len(file) : sth[s] # NoSth
  /\ \A t \in Threads : pc[t] \in {"head", "rotate"} => sth[seq] # NoSth

\* A sealed segment reads back to the leaves of its STH, which links to the one before.
Faithful ==
  \A s \in Sealed : /\ Readable(s) /\ sth[s].leaves = Ids(file[s])
                    /\ sth[s].prev = IF s > 1 THEN sth[s - 1].id ELSE Genesis

\* The HEAD counts sealed segments without a gap and names the STH of the last.
HeadPrefix ==
  head # NoHead => /\ head.count \in Sealed /\ 1..head.count \subseteq Sealed
                   /\ head.last = sth[head.count].id

SealInv == ActiveUnsealed /\ SealedBelow /\ Faithful /\ HeadPrefix

\* With a sealed segment all the ones before it are sealed.
LEMMA BelowSealed ==
  ASSUME TypeInv, SealedBelow, NEW s \in Sealed
  PROVE  1..s \subseteq Sealed /\ s \in 1..Len(file) /\ s \in Nat
  BY DEF TypeInv, TypeOK, DiskOK, SealedBelow, Sealed

\* Where an STH can come from.
LEMMA NewlySealed ==
  ASSUME TypeInv, [Next]_vars, Faults \cap SealFaults = {}
  PROVE  Sealed' \subseteq Sealed \/ \E t \in Threads : SealSegment(t)
<1>1. ASSUME UNCHANGED sth PROVE Sealed' \subseteq Sealed BY <1>1 DEF Sealed
<1>2. CASE CreateSegment
  <2>1. /\ Len(file) \in Nat /\ Len(sth) = Len(file) /\ Len(sth') = Len(file) + 1
        /\ \A s \in 1..Len(file) : sth'[s] = sth[s]
        /\ sth'[Len(file) + 1] = NoSth
    BY <1>2, CreateSidecars
  <2> QED BY <2>1 DEF Sealed
<1>3. ASSUME NEW t \in Threads PROVE ~SealUnsynced(t)
  BY DEF SealUnsynced, Fail, SealFaults
<1>4. CASE UNCHANGED vars \/ Resume \/ RefuseResume \/ Crash \/ \E t \in Threads : Elsewhere(t) \/ Anchor(t)
  <2>1. UNCHANGED sth
    BY <1>4, ElsewhereStays DEF vars, disk, Resume, RefuseResume, Crash, SidecarsStay, Anchor, Request, WriteToken, WriteMeta
  <2> QED BY <1>1, <2>1
<1>5. CASE OpenFresh \/ \E t \in Threads : RotateSegment(t) \/ RotateFails(t)
  <2>1. CreateSegment \/ UNCHANGED sth BY <1>5 DEF OpenFresh, RotateSegment, RotateFails
  <2> QED BY <1>1, <1>2, <2>1
<1> QED BY <1>3, <1>4, <1>5, StepKinds

\* What is sealed stays so, with its content.
LEMMA SealedGrows ==
  ASSUME TypeInv, TypeInv', SealedKept
  PROVE  \A s \in Sealed : /\ s \in Sealed' /\ s \in 1..Len(file) /\ s \in 1..Len(file')
                           /\ file'[s] = file[s] /\ torn'[s] = torn[s] /\ sth'[s] = sth[s]
<1> TAKE s \in Sealed
<1>1. s \in 1..Len(sth) /\ sth[s] # NoSth /\ Len(sth) = Len(file) /\ Len(sth') = Len(file')
      /\ Len(file) \in Nat /\ Len(file') \in Nat
  BY DEF Sealed, TypeInv, TypeOK, DiskOK
<1>2. s <= Len(file') /\ file'[s] = file[s] /\ torn'[s] = torn[s] /\ sth'[s] = sth[s]
  BY DEF SealedKept
<1>3. s \in 1..Len(sth') BY <1>1, <1>2
<1> QED BY <1>1, <1>2, <1>3 DEF Sealed

\* Seal after seal, the sealed segments stay a prefix.
LEMMA BelowStep ==
  ASSUME Faults \cap SealFaults = {}, TypeInv, SealedBelow, [Next]_vars
  PROVE  SealedBelow'
<1>0. Len(file) \in Nat /\ Len(sth) = Len(file) /\ seq \in Nat /\ pc \in [Threads -> Steps] /\ TypeInv'
  BY TypeStep DEF TypeInv, TypeOK, DiskOK, MemOK, ControlOK
<1>1. CASE UNCHANGED vars
  BY <1>1 DEF vars, disk, mem, control, SealedBelow
<1>2. CASE RefuseResume \/ Crash \/ Resume
  <2>1. UNCHANGED sth /\ (proc' = "up" => seq' = Len(file)) /\ \A t \in Threads : pc'[t] = "idle"
    BY <1>2 DEF RefuseResume, Crash, Resume, disk, control, TypeInv, Placed
  <2>2. Len(file') = Len(file) BY <1>0, <2>1 DEF TypeInv, TypeOK, DiskOK
  <2> QED BY <1>0, <2>1, <2>2 DEF SealedBelow
<1>3. CASE OpenFresh \/ \E t \in Threads : RotateSegment(t) \/ RotateFails(t)
  <2>1. /\ CreateSegment \/ UNCHANGED <<file, sth>>
        /\ \A t \in Threads : pc'[t] \notin {"head", "rotate"}
        /\ seq' = Len(file) + 1 /\ \A s \in 1..Len(file) : sth[s] # NoSth
    <3>1. CASE OpenFresh
      <4>1. \A t \in Threads : pc'[t] = "idle" BY <3>1 DEF OpenFresh, control, TypeInv, Placed
      <4> QED BY <1>0, <3>1, <4>1 DEF OpenFresh, SealedBelow
    <3>2. CASE \E t \in Threads : RotateSegment(t) \/ RotateFails(t)
      <4>1. PICK t \in Threads : RotateSegment(t) \/ RotateFails(t) BY <3>2
      <4>2. pc[t] = "rotate" BY <4>1 DEF RotateSegment, RotateFails
      <4>3. proc = "up" /\ \A u \in Threads : u # t => pc[u] \notin Locked
        BY <4>2, InCall DEF Locked
      <4>4. seq = Len(file) BY <4>2, <4>3 DEF TypeInv, TypeOK, DiskOK, Placed
      <4>5. PICK to \in {"anchor", "idle"} : pc' = [pc EXCEPT ![t] = to]
        BY <4>1 DEF RotateSegment, RotateFails
      <4>6. \A u \in Threads : pc'[u] \notin {"head", "rotate"} BY <1>0, <4>3, <4>5 DEF Locked
      <4>7. \A s \in 1..Len(file) : sth[s] # NoSth BY <1>0, <4>2, <4>4 DEF SealedBelow
      <4> QED BY <4>1, <4>4, <4>6, <4>7 DEF RotateSegment, RotateFails, NextSegment
    <3> QED BY <1>3, <3>1, <3>2
  <2>2. /\ \A s \in 1..Len(file) : sth'[s] = sth[s]
        /\ Len(file') = Len(file) \/ Len(file') = Len(file) + 1
    BY <1>0, <2>1, CreateSidecars, CreateDurable
  <2> QED BY <1>0, <2>1, <2>2 DEF SealedBelow
<1>4. ASSUME NEW t \in Threads, Elsewhere(t) \/ Anchor(t) PROVE SealedBelow'
  <2>1. /\ UNCHANGED <<proc, seq, sth>>
        /\ \A u \in Threads : pc'[u] \in {"head", "rotate"} => pc[u] \in {"head", "rotate"}
    <3>1. CASE Elsewhere(t) BY <1>0, <3>1, ElsewhereStays DEF SidecarsStay
    <3>2. CASE Anchor(t) BY <1>0, <3>2, AnchorLeaves
    <3> QED BY <1>4, <3>1, <3>2
  <2>2. Len(file') = Len(file) BY <1>0, <2>1 DEF TypeInv, TypeOK, DiskOK
  <2> QED BY <2>1, <2>2 DEF SealedBelow
<1>5. ASSUME NEW t \in Threads, SealSegment(t) PROVE SealedBelow'
  <2>1. pc[t] = "sealing" /\ PutSth /\ Readable(seq) /\ UNCHANGED <<file, proc, seq>>
    BY <1>5 DEF SealSegment, Sealing, mem
  <2>2. proc = "up" BY <2>1, InCall DEF Locked
  <2>3. seq \in 1..Len(file) BY <2>1, <2>2 DEF Readable, TypeInv, Placed
  <2>4. sth'[seq] # NoSth /\ \A s \in 1..Len(sth) : s # seq => sth'[s] = sth[s]
    BY <2>1, <2>3, PutSthWhere
  <2> QED BY <1>0, <2>1, <2>3, <2>4 DEF SealedBelow
<1>6. ASSUME NEW t \in Threads PROVE ~SealUnsynced(t)
  BY DEF SealUnsynced, Fail, SealFaults
<1> QED BY <1>1, <1>2, <1>3, <1>4, <1>5, <1>6, StepKinds

\* A sealed segment stays what its STH says, and a new STH says what is there.
LEMMA FaithfulStep ==
  ASSUME Faults \cap SealFaults = {}, TypeInv, SealInv, [Next]_vars
  PROVE  Faithful'
<1>1. TypeInv' /\ SealedKept BY TypeStep, SealedStep DEF SealInv
<1>2. \A s \in Sealed : /\ s \in Sealed' /\ s \in 1..Len(file) /\ s \in 1..Len(file')
                        /\ file'[s] = file[s] /\ torn'[s] = torn[s] /\ sth'[s] = sth[s]
  BY <1>1, SealedGrows
<1>3. ASSUME NEW s \in Sealed
      PROVE  /\ Readable(s)' /\ sth'[s].leaves = Ids(file'[s])
             /\ sth'[s].prev = IF s > 1 THEN sth'[s - 1].id ELSE Genesis
  <2>1. s > 1 => s - 1 \in Sealed BY BelowSealed DEF SealInv
  <2>2. s > 1 => sth'[s - 1] = sth[s - 1] BY <1>2, <2>1
  <2>3. s \in 1..Len(file) /\ s \in 1..Len(file') BY <1>2
  <2>4. Readable(s)'
    BY <1>2, <2>3 DEF SealInv, Faithful, Readable
  <2> QED BY <1>2, <2>2, <2>4 DEF SealInv, Faithful
<1>4. CASE Sealed' \subseteq Sealed
  BY <1>3, <1>4 DEF Faithful
<1>5. ASSUME NEW t \in Threads, SealSegment(t) PROVE Faithful'
  <2>1. pc[t] = "sealing" /\ PutSth /\ Readable(seq) /\ UNCHANGED <<file, torn, seq>>
    BY <1>5 DEF SealSegment, Sealing, mem
  <2>2. proc = "up" BY <2>1, InCall DEF Locked
  <2>3. seq \in 1..Len(file) BY <2>1, <2>2 DEF Readable, TypeInv, Placed
  <2>4. PICK m : m = seq OBVIOUS
  <2>5. /\ Len(sth') = Len(sth) /\ sth'[m] = NewSth
        /\ \A s \in 1..Len(sth) : s # m => sth'[s] = sth[s]
    BY <2>1, <2>3, <2>4, PutSthWhere
  <2>6. \A s \in Sealed' : s = m \/ s \in Sealed BY <2>5 DEF Sealed
  <2>7. Readable(m)' BY <2>1, <2>4 DEF Readable
  <2>8. sth'[m].leaves = Ids(file'[m]) BY <2>1, <2>4, <2>5 DEF NewSth
  <2>9. sth'[m].prev = IF m > 1 THEN sth'[m - 1].id ELSE Genesis
    <3>1. m > 1 => m - 1 \in 1..Len(sth) /\ m - 1 # m
      BY <2>3, <2>4 DEF TypeInv, TypeOK, DiskOK
    <3>2. m > 1 => sth'[m - 1] = sth[m - 1] BY <2>5, <3>1
    <3> QED BY <2>4, <2>5, <3>2 DEF NewSth, PrevSth
  <2> QED BY <1>3, <2>6, <2>7, <2>8, <2>9 DEF Faithful
<1> QED BY <1>4, <1>5, NewlySealed

\* The HEAD is written with every segment sealed, and counts them all.
LEMMA HeadWritten ==
  ASSUME TypeInv, SealInv, NEW t \in Threads, WriteHead(t)
  PROVE  /\ UNCHANGED sth /\ Sealed = 1..seq /\ seq \in Sealed /\ seq \in Nat \ {0}
         /\ head' = [count |-> seq, last |-> sth[seq].id]
<1>1. pc[t] = "head" /\ head' = NewHead /\ UNCHANGED sth BY DEF WriteHead
<1>2. proc = "up" BY <1>1, InCall DEF Locked
<1>3. seq = Len(sth) /\ seq \in 1..Len(sth) /\ seq \in Nat \ {0}
  BY <1>1, <1>2 DEF TypeInv, TypeOK, DiskOK, Placed
<1>4. seq \in Sealed BY <1>1, <1>3 DEF SealInv, SealedBelow, Sealed
<1>5. Sealed = 1..seq
  <2>1. 1..seq \subseteq Sealed BY <1>4, BelowSealed DEF SealInv
  <2>2. Sealed \subseteq 1..seq BY <1>3 DEF Sealed
  <2> QED BY <2>1, <2>2
<1>6. Cardinality(1..seq) = seq
  <2>1. Cardinality(1..seq) = IF 1 > seq THEN 0 ELSE seq - 1 + 1 BY <1>3, FS_Interval
  <2> QED BY <1>3, <2>1
<1>7. head' = [count |-> seq, last |-> sth[seq].id] BY <1>1, <1>5, <1>6 DEF NewHead, Sealed
<1> QED BY <1>1, <1>3, <1>4, <1>5, <1>7

\* A HEAD on disk goes on naming what it named.
LEMMA HeadPrefixStep ==
  ASSUME Faults \cap SealFaults = {}, TypeInv, SealInv, [Next]_vars
  PROVE  HeadPrefix'
<1>1. TypeInv' /\ SealedKept BY TypeStep, SealedStep DEF SealInv
<1>2. \A s \in Sealed : s \in Sealed' /\ sth'[s] = sth[s]
  BY <1>1, SealedGrows
<1>3. CASE UNCHANGED head
  BY <1>2, <1>3 DEF SealInv, HeadPrefix
<1>4. ASSUME NEW t \in Threads, WriteHead(t) PROVE HeadPrefix'
  <2>1. /\ UNCHANGED sth /\ Sealed = 1..seq /\ seq \in Sealed
        /\ head' = [count |-> seq, last |-> sth[seq].id]
    BY <1>4, HeadWritten
  <2>2. Sealed' = Sealed BY <2>1 DEF Sealed
  <2> QED BY <2>1, <2>2 DEF HeadPrefix
<1>5. ASSUME NEW t \in Threads PROVE ~HeadFails(t)
  BY DEF HeadFails, Fail, SealFaults
<1>6. UNCHANGED head \/ \E t \in Threads : WriteHead(t)
  <2>1. CASE UNCHANGED vars \/ OpenFresh \/ Resume \/ RefuseResume \/ Crash
    BY <2>1 DEF vars, disk, OpenFresh, Resume, RefuseResume, Crash
  <2>2. ASSUME NEW t \in Threads, \/ Elsewhere(t) \/ SealSegment(t) \/ SealUnsynced(t)
                                  \/ RotateSegment(t) \/ RotateFails(t) \/ Anchor(t)
        PROVE  UNCHANGED head \/ WriteHead(t)
    BY <1>5, <2>2 DEF disk, Elsewhere, AppendEntry, Call, CallRotate, FlushNothing, FlushClosed, WriteTip,
       TipFails, RollbackFails, SealNothing, SealFails, WriteSome, SyncBatch, WriteFails, SealSegment,
       SealUnsynced, RotateSegment, RotateFails, Anchor, Request, WriteToken, WriteMeta
  <2> QED BY <2>1, <2>2, StepKinds
<1> QED BY <1>3, <1>4, <1>6

\* The sealed part of an empty archive.
LEMMA SealInit == Init => SealInv
<1> SUFFICES ASSUME Init PROVE SealInv OBVIOUS
<1>1. Sealed = {} BY DEF Init, Sealed
<1> QED BY <1>1 DEF Init, SealInv, ActiveUnsealed, SealedBelow, Faithful, HeadPrefix

\* Unless a fault stops seal() half way, every step keeps the sealed part.
LEMMA SealStep ==
  ASSUME Faults \cap SealFaults = {}, TypeInv, SealInv, [Next]_vars
  PROVE  SealInv'
<1>1. ActiveUnsealed' BY ActiveStep DEF SealInv
<1>2. SealedBelow' BY BelowStep DEF SealInv
<1> QED BY <1>1, <1>2, FaithfulStep, HeadPrefixStep DEF SealInv

\* The HEAD never claims more than the archive holds, through crashes between
\* the STH and the HEAD and failed writes of anything else: it counts a prefix of
\* sealed segments and names the STH of the last of them.
THEOREM HeadNeverAhead ==
  ASSUME Faults \cap SealFaults = {}
  PROVE  Spec => []HeadCommitsPrefix
<1>1. Init => TypeInv /\ SealInv BY TypeInit, SealInit
<1>2. TypeInv /\ SealInv /\ [Next]_vars => (TypeInv /\ SealInv)' BY TypeStep, SealStep
<1>3. SealInv => HeadCommitsPrefix BY DEF SealInv, HeadPrefix, HeadCommitsPrefix
<1> QED BY <1>1, <1>2, <1>3, PTL DEF Spec

\* Every sealed segment passes verify_ledger.
LEMMA SealedPass ==
  ASSUME WriterInv, SealInv, NEW s \in Sealed
  PROVE  LedgerPass(s) /\ s \in 1..Len(file) /\ s \in Nat
<1>1. s \in 1..Len(file) /\ s \in Nat BY BelowSealed DEF WriterInv, SealInv
<1>2. Readable(s) BY DEF SealInv, Faithful
<1>3. Chained(file[s], Len(file[s])) BY <1>1 DEF WriterInv, StreamInv, Chains
<1> QED BY <1>1, <1>2, <1>3 DEF LedgerPass

\* So the STH the loop of verify_archive holds is that of the last one sealed so far.
LEMMA SthBeforeIs ==
  ASSUME WriterInv, SealInv, NEW n \in Nat, NEW m \in Nat, {r \in Sealed : r < m} = 1..n
  PROVE  SthBefore(m) = IF n > 0 THEN sth[n].id ELSE Genesis
<1> DEFINE seen == {r \in Sealed : r < m /\ LedgerPass(r)}
<1>1. seen = 1..n
  <2>1. \A r \in Sealed : LedgerPass(r) BY SealedPass
  <2>2. seen = {r \in Sealed : r < m} BY <2>1
  <2> QED BY <2>2
<1>2. SthBefore(m) = IF seen = {} THEN Genesis ELSE sth[CHOOSE r \in seen : \A q \in seen : q <= r].id
  BY DEF SthBefore
<1> HIDE DEF seen
<1>3. CASE n = 0
  <2>1. seen = {} BY <1>1, <1>3
  <2> QED BY <1>2, <1>3, <2>1
<1>4. CASE n > 0
  <2>1. n \in seen /\ \A q \in seen : q <= n BY <1>1, <1>4
  <2>2. \A r \in seen : (\A q \in seen : q <= r) => r = n BY <1>1, <2>1
  <2>3. (CHOOSE r \in seen : \A q \in seen : q <= r) = n BY <2>1, <2>2
  <2> QED BY <1>2, <1>4, <2>1, <2>3
<1> QED BY <1>3, <1>4

\* verify_archive finds no fault in a sealed segment: after any interleaving of
\* threads, failed batches and rotations, crashes and restarts, its hash chain,
\* its Merkle root and its link to the previous STH are right, and its token is
\* unless the TSA's own answer to the request for it was bad, as long as neither
\* ftruncate nor a seal() past its STH fails.
THEOREM ArchiveVerifies ==
  ASSUME "rollback" \notin Faults, Faults \cap SealFaults = {}
  PROVE  Spec => []SealedVerifies
<1>1. Init => WriterInv /\ SealInv /\ AnchorInv
  BY WriterInit, SealInit, AnchorInit
<1>2. WriterInv /\ SealInv /\ AnchorInv /\ [Next]_vars => (WriterInv /\ SealInv /\ AnchorInv)'
  BY WriterStep, SealStep, AnchorStep DEF WriterInv
<1>3. WriterInv /\ SealInv /\ AnchorInv => SealedVerifies
  <2> SUFFICES ASSUME WriterInv, SealInv, AnchorInv, NEW s \in Sealed
               PROVE  ChainFailures(s) = {} /\ (TokenFailures(s) # {} => ~Genuine(tsr[s].token))
    BY DEF SealedVerifies
  <2>1. LedgerPass(s) /\ s \in 1..Len(file) /\ s \in Nat BY SealedPass
  <2>2. 1..s \subseteq Sealed BY BelowSealed DEF WriterInv, SealInv
  <2>3. sth[s].leaves = Ids(file[s]) BY DEF SealInv, Faithful
  <2>4. sth[s].prev = SthBefore(s)
    <3>1. PICK n \in Nat : n = s - 1 BY <2>1
    <3>2. {r \in Sealed : r < s} = 1..n /\ (n > 0 <=> s > 1)
      <4>1. \A r \in Sealed : r \in 1..Len(file) BY SealedPass
      <4>2. \A r \in Sealed : r < s <=> r \in 1..n BY <2>1, <3>1, <4>1
      <4>3. 1..n \subseteq Sealed BY <2>1, <2>2, <3>1
      <4>4. n > 0 <=> s > 1 BY <2>1, <3>1
      <4> QED BY <4>2, <4>3, <4>4
    <3>3. SthBefore(s) = IF n > 0 THEN sth[n].id ELSE Genesis BY <2>1, <3>2, SthBeforeIs
    <3>4. sth[s].prev = IF s > 1 THEN sth[s - 1].id ELSE Genesis BY DEF SealInv, Faithful
    <3> QED BY <3>1, <3>2, <3>3, <3>4
  <2>5. ChainFailures(s) = {} BY <2>1, <2>3, <2>4 DEF ChainFailures
  <2>6. TokenFailures(s) # {} => ~Genuine(tsr[s].token)
    <3>1. s \in 1..Len(tsr) BY <2>1 DEF WriterInv, TypeInv, TypeOK, DiskOK
    <3>2. tsr[s].token # NoToken => tsr[s].token.req = sth[s].id BY <3>1 DEF AnchorInv, SidecarTrue
    <3> QED BY <3>2 DEF TokenFailures, Genuine
  <2> QED BY <2>5, <2>6
<1> QED BY <1>1, <1>2, <1>3, PTL DEF Spec

-----------------------------------------------------------------------------
(* The HEAD of an archive whose writer has not crashed.                     *)

\* Except between the STH and the HEAD, the HEAD counts every sealed segment.
HeadCurrent ==
  (\A t \in Threads : pc[t] # "head") =>
    /\ head = NoHead => Sealed = {}
    /\ head # NoHead => Sealed = 1..head.count

\* Nothing is on disk before the writer starts.
Started == proc # "up" => file = << >>

\* Each step that seals is followed by the HEAD before anything else of that kind.
LEMMA CurrentStep ==
  ASSUME MaxCrash = 0, Faults \cap SealFaults = {}, TypeInv, SealInv, Started, HeadCurrent, [Next]_vars
  PROVE  Started' /\ HeadCurrent'
<1>0. pc \in [Threads -> Steps] /\ TypeInv' /\ crashes \in Nat
  BY TypeStep DEF TypeInv, TypeOK, ControlOK, GhostOK
<1>1. ~Resume /\ ~RefuseResume /\ ~Crash
  BY <1>0 DEF Resume, RefuseResume, Crash, Started
<1>2. ASSUME UNCHANGED head, Sealed' \subseteq Sealed,
             (\A t \in Threads : pc'[t] # "head") => (\A t \in Threads : pc[t] # "head")
      PROVE  HeadCurrent'
  <2>1. SealedKept BY SealedStep DEF SealInv
  <2>2. Sealed' = Sealed BY <1>0, <1>2, <2>1, SealedGrows
  <2> QED BY <1>2, <2>2 DEF HeadCurrent
<1>3. CASE UNCHANGED vars
  BY <1>3 DEF vars, disk, control, Sealed, HeadCurrent, Started
<1>4. CASE OpenFresh
  <2>1. UNCHANGED <<head, pc>> /\ CreateSegment /\ proc' = "up" BY <1>4 DEF OpenFresh, control
  <2>2. Sealed' \subseteq Sealed
    <3>1. /\ Len(file) \in Nat /\ Len(sth) = Len(file) /\ Len(sth') = Len(file) + 1
          /\ \A s \in 1..Len(file) : sth'[s] = sth[s]
          /\ sth'[Len(file) + 1] = NoSth
      BY <2>1, CreateSidecars
    <3> QED BY <3>1 DEF Sealed
  <2> QED BY <1>2, <2>1, <2>2 DEF Started
<1>5. ASSUME NEW t \in Threads, \/ Elsewhere(t) \/ SealSegment(t) \/ SealUnsynced(t)
                                \/ RotateSegment(t) \/ RotateFails(t) \/ Anchor(t)
      PROVE  Started' /\ HeadCurrent'
  <2>1. proc = "up" BY <1>5 DEF Elsewhere, AppendEntry, Call, CallRotate, FlushNothing, FlushClosed, WriteTip,
       TipFails, RollbackFails, SealNothing, SealFails, WriteSome, SyncBatch, WriteFails, SealSegment, WriteHead,
       HeadFails, SealUnsynced, RotateSegment, RotateFails, Anchor, Request, WriteToken, WriteMeta, Sealing, Idle, TypeInv, Placed
  <2>2. Started'
    <3>1. UNCHANGED proc
      BY <1>5, ElsewhereStays DEF SidecarsStay, SealSegment, SealUnsynced, RotateSegment, RotateFails, Anchor, Request, WriteToken, WriteMeta
    <3> QED BY <2>1, <3>1 DEF Started
  <2>3. CASE SealSegment(t)
    <3>1. pc'[t] = "head" BY <1>0, <2>3 DEF SealSegment
    <3> QED BY <2>2, <3>1 DEF HeadCurrent
  <2>4. ~SealUnsynced(t) /\ ~HeadFails(t) BY DEF SealUnsynced, HeadFails, Fail, SealFaults
  <2>5. CASE RotateSegment(t) \/ RotateFails(t)
    <3>1. UNCHANGED head /\ pc[t] = "rotate" /\ (CreateSegment \/ UNCHANGED sth)
          /\ \A u \in Threads : u # t => pc'[u] = pc[u]
      BY <1>0, <2>5 DEF RotateSegment, RotateFails
    <3>2. CreateSegment => Sealed' \subseteq Sealed
      <4> SUFFICES ASSUME CreateSegment PROVE Sealed' \subseteq Sealed OBVIOUS
      <4>1. /\ Len(file) \in Nat /\ Len(sth) = Len(file) /\ Len(sth') = Len(file) + 1
            /\ \A s \in 1..Len(file) : sth'[s] = sth[s]
            /\ sth'[Len(file) + 1] = NoSth
        BY CreateSidecars
      <4> QED BY <4>1 DEF Sealed
    <3>3. UNCHANGED sth => Sealed' \subseteq Sealed BY DEF Sealed
    <3>4. (\A u \in Threads : pc'[u] # "head") => (\A u \in Threads : pc[u] # "head") BY <3>1
    <3> QED BY <1>2, <2>2, <3>1, <3>2, <3>3, <3>4
  <2>6. CASE WriteHead(t)
    <3>1. /\ UNCHANGED sth /\ Sealed = 1..seq /\ seq \in Nat \ {0}
          /\ head' = [count |-> seq, last |-> sth[seq].id]
      BY <2>6, HeadWritten
    <3>2. Sealed' = Sealed /\ head'.count = seq /\ head' # NoHead BY <3>1 DEF Sealed, NoHead
    <3> QED BY <2>2, <3>1, <3>2 DEF HeadCurrent
  <2>7. CASE (Elsewhere(t) /\ ~WriteHead(t) /\ ~HeadFails(t)) \/ Anchor(t)
    <3>1. UNCHANGED <<head, sth>> /\ pc[t] # "head"
      BY <2>7, ElsewhereStays DEF disk, SidecarsStay, Elsewhere, AppendEntry, Call, CallRotate, FlushNothing,
         FlushClosed, WriteTip, TipFails, RollbackFails, SealNothing, SealFails, WriteSome, SyncBatch,
         WriteFails, Anchor, Request, WriteToken, WriteMeta, Sealing, Idle
    <3>2. \A u \in Threads : u # t => pc'[u] = pc[u]
      BY <1>0, <2>7, ElsewhereStays, AnchorLeaves DEF SidecarsStay
    <3>3. Sealed' \subseteq Sealed BY <3>1 DEF Sealed
    <3> QED BY <1>2, <2>2, <3>1, <3>2, <3>3
  <2> QED BY <1>5, <2>3, <2>4, <2>5, <2>6, <2>7
<1> QED BY <1>1, <1>3, <1>4, <1>5, StepKinds

\* While the writer has not crashed, and neither ftruncate nor a seal() past its
\* STH failed, verify_archive reports no head_count_mismatch and no
\* head_last_sth_mismatch, whenever no call holds the lock.
THEOREM HeadStaysCurrent ==
  ASSUME MaxCrash = 0, "rollback" \notin Faults, Faults \cap SealFaults = {}
  PROVE  Spec => []HeadUpToDate
<1> DEFINE Inv == WriterInv /\ SealInv /\ Started /\ HeadCurrent
<1>1. Init => Inv
  <2>1. Init => Sealed = {} BY DEF Init, Sealed
  <2> QED BY <2>1, WriterInit, SealInit DEF Init, Started, HeadCurrent
<1>2. Inv /\ [Next]_vars => Inv'
  BY WriterStep, SealStep, CurrentStep DEF WriterInv
<1>3. Inv => HeadUpToDate
  <2> SUFFICES ASSUME WriterInv, SealInv, HeadCurrent, LockFree, head # NoHead PROVE HeadFailures = {}
    BY DEF HeadUpToDate, HeadFailures
  <2>1. Sealed = 1..head.count BY DEF HeadCurrent, LockFree, Locked
  <2>2. /\ head.count \in Sealed /\ head.last = sth[head.count].id /\ head.count \in Nat
        /\ Len(sth) \in Nat
    BY DEF SealInv, HeadPrefix, WriterInv, TypeInv, TypeOK, DiskOK
  <2>3. Cardinality(Sealed) = head.count
    <3>1. PICK n \in Nat : n = head.count BY <2>2
    <3>2. Cardinality(1..n) = IF 1 > n THEN 0 ELSE n - 1 + 1 BY FS_Interval
    <3>3. Cardinality(1..n) = n BY <3>2
    <3> QED BY <2>1, <3>1, <3>3
  <2>4. head.last = SthBefore(Len(sth) + 1)
    <3>1. PICK n \in Nat, m \in Nat : n = head.count /\ m = Len(sth) + 1 BY <2>2
    <3>2. {r \in Sealed : r < m} = 1..n
      <4>1. \A r \in Sealed : r < m BY <2>2, <3>1 DEF Sealed
      <4> QED BY <2>1, <3>1, <4>1
    <3>3. SthBefore(m) = IF n > 0 THEN sth[n].id ELSE Genesis BY <3>2, SthBeforeIs
    <3>4. n > 0 BY <2>1, <2>2, <3>1
    <3> QED BY <2>2, <3>1, <3>3, <3>4
  <2> QED BY <2>3, <2>4 DEF HeadFailures
<1> QED BY <1>1, <1>2, <1>3, PTL DEF Spec

-----------------------------------------------------------------------------
(* The tip: never ahead of what a restart keeps, never behind what is       *)
(* acknowledged.                                                            *)

\* A flush() has its batch on disk and its tip to write.
Tipping == \E t \in Threads : pc[t] = "tip"

\* Every tip is the state of a prefix of the firm lines.
TipFirm ==
  \A s \in 1..Len(file) : tip[s] # NoTip =>
    /\ tip[s].entries \in 1..Firm(s)
    /\ file[s][tip[s].entries].id = tip[s].last /\ file[s][1].id = tip[s].first

\* Hashes are fresh; nothing in the queue is acknowledged.
Numbered ==
  /\ \A i \in 1..Len(buf) : buf[i].id <= last.entry /\ buf[i].id \notin acked
  /\ \A s \in 1..Len(file) : \A i \in 1..Len(file[s]) : file[s][i].id <= last.entry
  /\ \A a \in acked \cup live : a <= last.entry

\* A line past the tip is not acknowledged; if it is firm and this process
\* appended it, some flush() is about to write the tip that covers it.
Uncovered ==
  \A s \in 1..Len(file) : \A i \in 1..Len(file[s]) : i > tip[s].entries =>
    /\ file[s][i].id \notin acked
    /\ i \in 1..Firm(s) /\ file[s][i].id \in live => s = seq /\ Tipping

TipInv == TipFirm /\ Numbered /\ (TipKey => Uncovered)

\* What it takes to keep the tips right when none is written: firm lines stay,
\* other lines come from the queue, and lines become firm just before the tip.
LEMMA TipStays ==
  ASSUME TypeInv, TypeInv', TipInv, acked' = acked, last'.entry = last.entry, live' = live \/ live' = {},
         buf' = buf \/ buf' = << >>,
         \A s \in 1..Len(file) :
           /\ s \in 1..Len(file') /\ tip'[s] = tip[s] /\ 1..Firm(s) \subseteq 1..Firm(s)'
           /\ \A i \in 1..Firm(s) : file'[s][i] = file[s][i],
         \A s \in 1..Len(file') : s \in 1..Len(file) \/ (tip'[s] = NoTip /\ file'[s] = << >>),
         \A s \in 1..Len(file) : \A i \in 1..Len(file'[s]) :
           \/ i \in 1..Len(file[s]) /\ file'[s][i] = file[s][i]
           \/ \E j \in 1..Len(buf) : file'[s][i] = buf[j],
         \A s \in 1..Len(file) : \A i \in 1..Firm(s)' :
           i \in 1..Firm(s) \/ live' = {} \/ (s = seq' /\ Tipping'),
         Tipping => live' = {} \/ (Tipping' /\ seq' = seq)
  PROVE  TipInv'
<1>1. TipFirm'
  <2> SUFFICES ASSUME NEW s \in 1..Len(file'), tip'[s] # NoTip
               PROVE  /\ tip'[s].entries \in 1..Firm(s)'
                      /\ file'[s][tip'[s].entries].id = tip'[s].last /\ file'[s][1].id = tip'[s].first
    BY DEF TipFirm
  <2>1. s \in 1..Len(file) /\ tip[s] # NoTip /\ tip'[s] = tip[s] OBVIOUS
  <2>2. /\ tip[s].entries \in 1..Firm(s) /\ file[s][tip[s].entries].id = tip[s].last
        /\ file[s][1].id = tip[s].first
    BY <2>1 DEF TipInv, TipFirm
  <2>3. Firm(s) \in Nat BY <2>1, FirmBound
  <2>4. 1 \in 1..Firm(s) BY <2>2, <2>3
  <2> QED BY <2>1, <2>2, <2>4
<1>2. Numbered'
  <2>1. \A i \in 1..Len(buf') : buf'[i].id <= last'.entry /\ buf'[i].id \notin acked'
    BY DEF TipInv, Numbered
  <2>2. ASSUME NEW s \in 1..Len(file'), NEW i \in 1..Len(file'[s]) PROVE file'[s][i].id <= last'.entry
    <3>1. s \in 1..Len(file)
      <4>1. Len(<< >>) = 0 OBVIOUS
      <4> QED BY <4>1
    <3>2. CASE i \in 1..Len(file[s]) /\ file'[s][i] = file[s][i] BY <3>1, <3>2 DEF TipInv, Numbered
    <3>3. CASE \E j \in 1..Len(buf) : file'[s][i] = buf[j] BY <3>3 DEF TipInv, Numbered
    <3> QED BY <3>1, <3>2, <3>3
  <2>3. \A a \in acked' \cup live' : a <= last'.entry BY DEF TipInv, Numbered
  <2> QED BY <2>1, <2>2, <2>3 DEF Numbered
<1>3. TipKey => Uncovered'
  <2> SUFFICES ASSUME TipKey, NEW s \in 1..Len(file'), NEW i \in 1..Len(file'[s]), i > tip'[s].entries
               PROVE  /\ file'[s][i].id \notin acked'
                      /\ i \in 1..Firm(s)' /\ file'[s][i].id \in live' => s = seq' /\ Tipping'
    BY DEF Uncovered
  <2>1. s \in 1..Len(file) /\ tip'[s] = tip[s]
    <3>1. Len(<< >>) = 0 OBVIOUS
    <3> QED BY <3>1
  <2>2. file'[s][i].id \notin acked'
    <3>1. CASE i \in 1..Len(file[s]) /\ file'[s][i] = file[s][i] BY <2>1, <3>1 DEF TipInv, Uncovered
    <3>2. CASE \E j \in 1..Len(buf) : file'[s][i] = buf[j] BY <3>2 DEF TipInv, Numbered
    <3> QED BY <2>1, <3>1, <3>2
  <2>3. ASSUME i \in 1..Firm(s)', file'[s][i].id \in live' PROVE s = seq' /\ Tipping'
    <3>1. CASE i \in 1..Firm(s)
      <4>1. file'[s][i] = file[s][i] /\ live' = live BY <2>1, <2>3, <3>1
      <4>2. i \in 1..Len(file[s]) BY <2>1, <3>1, FirmBound
      <4>3. s = seq /\ Tipping BY <2>1, <2>3, <3>1, <4>1, <4>2 DEF TipInv, Uncovered
      <4> QED BY <2>3, <4>3
    <3>2. CASE live' = {} BY <2>3, <3>2
    <3>3. CASE s = seq' /\ Tipping' BY <3>3
    <3> QED BY <2>1, <2>3, <3>1, <3>2, <3>3
  <2> QED BY <2>2, <2>3
<1> QED BY <1>1, <1>2, <1>3 DEF TipInv

\* If neither the files nor where append_line and the tips are changes, the tips stay right.
LEMMA TipSame ==
  ASSUME TypeInv, TypeInv', TipInv, UNCHANGED <<file, tip, acked, buf>>, last'.entry = last.entry,
         \/ UNCHANGED <<seq, live, end>> /\ (Writing' <=> Writing) /\ (Tipping => Tipping')
         \/ ~Writing /\ ~Writing' /\ ~Tipping /\ live' = live
  PROVE  TipInv'
<1>1. \A s \in 1..Len(file) : Firm(s)' = Firm(s) BY DEF Firm
<1> QED BY <1>1, TipStays

\* Steps of a call outside append_line and the tip.
LEMMA TipQuiet ==
  ASSUME TypeInv, TypeInv', TipInv, NEW t \in Threads,
         \/ Call(t) \/ CallRotate(t) \/ FlushClosed(t)
         \/ SealNothing(t) \/ SealSegment(t) \/ SealFails(t) \/ SealUnsynced(t)
         \/ WriteHead(t) \/ HeadFails(t) \/ Anchor(t)
  PROVE  TipInv'
<1>1. UNCHANGED <<file, tip, acked, buf, seq, live, end>> /\ pc[t] \notin {"wrote", "tip"}
  BY DEF Call, CallRotate, FlushClosed, SealNothing, SealSegment,
     SealFails, SealUnsynced, Sealing, WriteHead, HeadFails, Anchor, Request, WriteToken, WriteMeta, Idle, disk, mem, ghost
<1>2. last'.entry = last.entry
  BY DEF Call, CallRotate, FlushClosed, SealNothing, SealSegment, PutSth,
     SealFails, SealUnsynced, WriteHead, HeadFails, Anchor, Request, WriteToken, WriteMeta, ghost, TypeInv, TypeOK, GhostOK
<1>3. PICK to \in Steps \ {"wrote", "tip"} : pc' = [pc EXCEPT ![t] = to]
  <2>1. CASE Call(t) \/ CallRotate(t)
    BY <2>1 DEF Call, CallRotate, Enter, Steps, Anchoring, Locked
  <2>2. CASE FlushClosed(t) \/ SealNothing(t) \/ SealFails(t) \/ SealUnsynced(t)
             \/ HeadFails(t)
    BY <2>2 DEF FlushClosed, SealNothing, SealFails, SealUnsynced, HeadFails, Raise, Leave, Steps, Anchoring
  <2>3. CASE SealSegment(t) \/ WriteHead(t)
    BY <2>3 DEF SealSegment, WriteHead, Steps, Anchoring, Locked
  <2>4. CASE Anchor(t) BY <2>4, AnchorLeaves DEF Steps, Anchoring
  <2> QED BY <2>1, <2>2, <2>3, <2>4
<1>4. (Writing' <=> Writing) /\ (Tipping => Tipping')
  BY <1>1, <1>3 DEF Writing, Tipping, TypeInv, TypeOK, ControlOK
<1> QED BY <1>1, <1>2, <1>4, TipSame

\* append() queues an entry with a hash nobody has seen.
LEMMA TipAppend ==
  ASSUME TypeInv, TypeInv', TipInv, NEW t \in Threads, AppendEntry(t)
  PROVE  TipInv'
<1>1. [ok |-> TRUE, id |-> last.entry + 1, idx |-> idx, prev |-> prev] \in Line
  BY DEF TypeInv, TypeOK, MemOK, GhostOK, Line
<1>2. PICK e \in Line : e = [ok |-> TRUE, id |-> last.entry + 1, idx |-> idx, prev |-> prev] BY <1>1
<1>3. /\ buf' = Append(buf, e) /\ live' = live \cup {e.id} /\ e.id = last.entry + 1
      /\ UNCHANGED <<file, tip, seq, end, acked>> /\ \A u \in Threads : pc[u] \notin Locked
  BY <1>2 DEF AppendEntry, Idle, LockFree, disk
<1>4. last'.entry = last.entry + 1 /\ last.entry \in Nat
  BY DEF AppendEntry, TypeInv, TypeOK, GhostOK
<1>5. /\ Len(buf') = Len(buf) + 1 /\ Len(buf) \in Nat /\ buf'[Len(buf) + 1] = e
      /\ \A i \in 1..Len(buf) : buf'[i] = buf[i]
  BY <1>3, AppendProperties DEF TypeInv, TypeOK, MemOK
<1>6. PICK to \in {"flush", "due", "idle"} : pc' = [pc EXCEPT ![t] = to]
  BY DEF AppendEntry, Enter
<1>7. ~Writing /\ ~Writing' /\ ~Tipping
  BY <1>3, <1>6 DEF Writing, Tipping, TypeInv, TypeOK, ControlOK, Locked
<1>8. \A s \in 1..Len(file) : Firm(s)' = Firm(s) BY <1>3, <1>7 DEF Firm
<1>9. TipFirm' BY <1>3, <1>8 DEF TipInv, TipFirm
<1>10. \A s \in 1..Len(file) : \A i \in 1..Len(file[s]) : file[s][i].id \in Nat
  <2>1. \A s \in 1..Len(file) : file[s] \in Seq(Line) BY ElementOfSeq DEF TypeInv, TypeOK, DiskOK
  <2>2. \A s \in 1..Len(file) : \A i \in 1..Len(file[s]) : file[s][i] \in Line BY <2>1, ElementOfSeq
  <2> QED BY <2>2 DEF Line
<1>11. Numbered'
  <2>1. ASSUME NEW i \in 1..Len(buf') PROVE buf'[i].id <= last'.entry /\ buf'[i].id \notin acked'
    <3>1. CASE i = Len(buf) + 1
      <4>1. \A a \in acked : a \in Nat /\ a <= last.entry BY DEF TipInv, Numbered, TypeInv, TypeOK, GhostOK
      <4>2. e.id \notin acked BY <1>3, <1>4, <4>1
      <4> QED BY <1>3, <1>4, <1>5, <3>1, <4>2
    <3>2. CASE i \in 1..Len(buf)
      <4>1. buf[i] \in Line BY <3>2, ElementOfSeq DEF TypeInv, TypeOK, MemOK
      <4>2. buf[i].id \in Nat /\ buf[i].id <= last.entry /\ buf[i].id \notin acked
        BY <3>2, <4>1 DEF Line, TipInv, Numbered
      <4> QED BY <1>3, <1>4, <1>5, <3>2, <4>2
    <3> QED BY <1>5, <3>1, <3>2
  <2>2. \A s \in 1..Len(file') : \A i \in 1..Len(file'[s]) : file'[s][i].id <= last'.entry
    <3>1. ASSUME NEW s \in 1..Len(file), NEW i \in 1..Len(file[s]) PROVE file[s][i].id <= last'.entry
      <4>1. file[s][i].id <= last.entry BY DEF TipInv, Numbered
      <4>2. file[s][i].id \in Nat BY <1>10
      <4> QED BY <1>4, <4>1, <4>2
    <3> QED BY <1>3, <3>1
  <2>3. \A a \in acked' \cup live' : a <= last'.entry
    <3>1. \A a \in acked \cup live : a \in Nat /\ a <= last.entry
      BY DEF TipInv, Numbered, TypeInv, TypeOK, GhostOK
    <3> QED BY <1>3, <1>4, <3>1
  <2> QED BY <2>1, <2>2, <2>3 DEF Numbered
<1>12. TipKey => Uncovered'
  <2>1. ASSUME NEW s \in 1..Len(file), NEW i \in 1..Len(file[s]) PROVE file[s][i].id # e.id
    <3>1. file[s][i].id <= last.entry BY DEF TipInv, Numbered
    <3>2. file[s][i].id \in Nat BY <1>10
    <3>3. e.id = last.entry + 1 /\ last.entry \in Nat BY <1>3, <1>4
    <3> QED BY <3>1, <3>2, <3>3
  <2>2. \A s \in 1..Len(file) : \A i \in 1..Len(file[s]) : file[s][i].id \in live' => file[s][i].id \in live
    BY <1>3, <2>1
  <2> QED BY <1>3, <1>7, <1>8, <2>2 DEF TipInv, Uncovered
<1> QED BY <1>9, <1>11, <1>12 DEF TipInv

\* A new segment has no tip and nothing to cover; a restart finds the tips as they were.
LEMMA TipOpen ==
  ASSUME TypeInv, TypeInv', DurableInv, TipInv,
         OpenFresh \/ Resume \/ Crash \/ \E t \in Threads : RotateSegment(t) \/ RotateFails(t)
  PROVE  TipInv'
<1>1. CASE Crash
  <2>1. UNCHANGED <<file, tip, acked, last>> /\ live' = {} /\ buf' = << >> BY <1>1 DEF Crash, disk
  <2>2. ~Writing' BY <1>1 DEF Crash, Writing
  <2>3. \A s \in 1..Len(file) : 1..Firm(s) \subseteq 1..Firm(s)'
    <3> TAKE s \in 1..Len(file)
    <3>1. Firm(s) \in 0..Len(file[s]) /\ Len(file[s]) \in Nat BY FirmBound
    <3>2. Firm(s)' = Len(file[s]) BY <2>1, <2>2 DEF Firm
    <3> QED BY <3>1, <3>2
  <2> QED BY <2>1, <2>3, TipStays
<1>2. CASE Resume
  <2>1. file' = file BY <1>2, ResumeKeeps
  <2>2. UNCHANGED <<tip, acked, live, buf, last, pc>> /\ proc = "down" BY <1>2 DEF Resume, control, ghost
  <2>3. ~Writing /\ ~Writing' /\ ~Tipping
    BY <2>2 DEF Writing, Tipping, TypeInv, Placed
  <2> QED BY <2>1, <2>2, <2>3, TipSame
<1>3. CASE OpenFresh \/ \E t \in Threads : RotateSegment(t) \/ RotateFails(t)
  <2>1. /\ UNCHANGED <<live, acked, buf, last>> /\ (CreateSegment \/ UNCHANGED <<file, tip>>)
        /\ ~Writing /\ ~Writing' /\ ~Tipping
    <3>1. CASE OpenFresh
      <4>1. \A u \in Threads : pc[u] = "idle" BY <3>1 DEF OpenFresh, TypeInv, Placed
      <4> QED BY <3>1, <4>1 DEF OpenFresh, control, ghost, Writing, Tipping
    <3>2. CASE \E t \in Threads : RotateSegment(t) \/ RotateFails(t)
      <4>1. PICK t \in Threads : RotateSegment(t) \/ RotateFails(t) BY <3>2
      <4>2. pc[t] = "rotate" BY <4>1 DEF RotateSegment, RotateFails
      <4>3. \A u \in Threads : u # t => pc[u] \notin Locked BY <4>2, InCall DEF Locked
      <4>4. PICK to \in {"anchor", "idle"} : pc' = [pc EXCEPT ![t] = to]
        BY <4>1 DEF RotateSegment, RotateFails
      <4>5. ~Writing /\ ~Writing' /\ ~Tipping
        BY <4>2, <4>3, <4>4 DEF Writing, Tipping, TypeInv, TypeOK, ControlOK, Locked
      <4> QED BY <4>1, <4>5 DEF RotateSegment, RotateFails, ghost
    <3> QED BY <1>3, <3>1, <3>2
  <2>2. CASE UNCHANGED <<file, tip>> BY <2>1, <2>2, TipSame
  <2>3. CASE CreateSegment
    <3>1. /\ Len(file') = Len(file) + 1 /\ Len(file) \in Nat
          /\ \A s \in 1..Len(file) : file'[s] = file[s] /\ tip'[s] = tip[s]
          /\ file'[Len(file) + 1] = << >> /\ tip'[Len(file) + 1] = NoTip
      BY <2>3, CreateDurable, CreateSidecars
    <3>2. \A s \in 1..Len(file) : Firm(s)' = Firm(s) BY <2>1, <3>1 DEF Firm
    <3>3. /\ \A s \in 1..Len(file) : s \in 1..Len(file')
          /\ \A s \in 1..Len(file') : s \in 1..Len(file) \/ (tip'[s] = NoTip /\ file'[s] = << >>)
      BY <3>1
    <3> QED BY <2>1, <3>1, <3>2, <3>3, TipStays
  <2> QED BY <2>1, <2>2, <2>3
<1> QED BY <1>1, <1>2, <1>3

\* append_line keeps the firm lines; what it adds is queued, and firm once synced.
LEMMA TipWrite ==
  ASSUME TypeInv, TypeInv', DurableInv, TipInv, NEW t \in Threads,
         WriteSome(t) \/ SyncBatch(t) \/ WriteFails(t)
  PROVE  TipInv'
<1>1. /\ seq \in 1..Len(file) /\ seq' = seq /\ \A u \in Threads : u # t => pc[u] \notin Locked
      /\ Len(file') = Len(file) /\ \A s \in 1..Len(file) : s # seq => file'[s] = file[s]
  BY WriteShape
<1>2. PICK n \in 1..Len(file), q \in Seq(Line), old \in Seq(Line) : n = seq /\ q = buf /\ old = Stored
  BY <1>1, StreamType
<1>3. old = IF pc[t] = "wrote" THEN SubSeq(file[n], 1, end.lines) ELSE file[n]
  BY <1>2, WriteShape
<1>4. PICK k \in 0..Len(q) : file'[n] = old \o SubSeq(q, 1, k) BY <1>2, WriteShape
<1>5. PICK part \in Seq(Line) : /\ part = SubSeq(q, 1, k) /\ Len(part) = k /\ k \in Nat
                                /\ \A i \in 1..k : part[i] = q[i]
  <2>1. /\ SubSeq(q, 1, k) \in Seq(Line) /\ Len(SubSeq(q, 1, k)) = k
        /\ \A i \in 1..k : SubSeq(q, 1, k)[i] = q[i]
    BY KeepLines
  <2>2. k \in Nat OBVIOUS
  <2> QED BY <2>1, <2>2
<1>6. PICK cat : cat = old \o part OBVIOUS
<1>7. /\ cat \in Seq(Line) /\ Len(cat) = Len(old) + k /\ Len(old) \in Nat
      /\ \A i \in 1..Len(old) + k : cat[i] = IF i <= Len(old) THEN old[i] ELSE part[i - Len(old)]
  BY <1>5, <1>6, ConcatProperties
<1>8. file'[n] = cat BY <1>4, <1>5, <1>6
<1>9. (Writing <=> pc[t] = "wrote") /\ ~Tipping
  BY <1>1 DEF Writing, Tipping, Locked, WriteSome, SyncBatch, WriteFails
<1>10. Firm(n) = Len(old) /\ 1..Len(old) \subseteq 1..Len(file[n]) /\ \A i \in 1..Len(old) : old[i] = file[n][i]
  <2>1. file[n] \in Seq(Line) /\ Len(file[n]) \in Nat
    BY <1>1, <1>2, ElementOfSeq DEF TypeInv, TypeOK, DiskOK
  <2>2. CASE pc[t] = "wrote"
    <3>1. end.lines \in 0..Len(file[n]) BY <1>2, <2>2 DEF TypeInv, Placed
    <3>2. Len(old) = end.lines /\ \A i \in 1..end.lines : old[i] = file[n][i]
      BY <1>3, <2>1, <2>2, <3>1, KeepLines
    <3> QED BY <1>2, <1>9, <2>1, <2>2, <3>1, <3>2 DEF Firm
  <2>3. CASE pc[t] # "wrote" BY <1>2, <1>3, <1>9, <2>3 DEF Firm
  <2> QED BY <2>2, <2>3
<1>11. /\ \A u \in Threads : u # t => pc'[u] = pc[u]
       /\ WriteSome(t) => pc'[t] = "wrote"
       /\ SyncBatch(t) => pc'[t] = "tip"
       /\ WriteFails(t) => pc'[t] = "idle"
  BY DEF WriteSome, SyncBatch, WriteFails, Raise, Leave, TypeInv, TypeOK, ControlOK
<1>12. Firm(n)' = Len(old) \/ (SyncBatch(t) /\ Tipping' /\ Firm(n)' = Len(cat))
  <2>1. CASE WriteSome(t)
    <3>1. Writing' BY <1>11, <2>1 DEF Writing
    <3>2. end'.lines = Len(old) BY <1>2, <1>3, <2>1 DEF WriteSome
    <3> QED BY <1>1, <1>2, <3>1, <3>2 DEF Firm
  <2>2. CASE SyncBatch(t)
    <3>1. ~Writing' /\ Tipping' BY <1>1, <1>11, <2>2 DEF Writing, Tipping, Locked
    <3> QED BY <1>8, <2>2, <3>1 DEF Firm
  <2>3. CASE WriteFails(t)
    <3>1. ~Writing' BY <1>1, <1>11, <2>3 DEF Writing, Locked
    <3>2. Writing BY <1>9, <2>3 DEF WriteFails
    <3>3. file'[n] = old
      <4>1. /\ file' = [file EXCEPT ![n] = SubSeq(file[n], 1, end.lines)] /\ pc[t] = "wrote"
        BY <1>2, <2>3 DEF WriteFails
      <4>2. file' = [file EXCEPT ![n] = old] BY <1>3, <4>1
      <4>3. file \in Seq(Seq(Line)) /\ n \in 1..Len(file) BY <1>1, <1>2 DEF TypeInv, TypeOK, DiskOK
      <4> QED BY <4>2, <4>3, ExceptSeq
    <3> QED BY <3>1, <3>3 DEF Firm
  <2> QED BY <2>1, <2>2, <2>3
<1>13. \A s \in 1..Len(file) : s # n => Firm(s)' = Firm(s) /\ file'[s] = file[s]
  BY <1>1, <1>2 DEF Firm
<1>14. \A i \in 1..Len(old) : cat[i] = file[n][i] BY <1>7, <1>10
<1>15. \A i \in 1..Len(cat) : i \in 1..Len(old) \/ \E j \in 1..Len(q) : cat[i] = q[j]
  <2> SUFFICES ASSUME NEW i \in 1..Len(cat), i \notin 1..Len(old) PROVE \E j \in 1..Len(q) : cat[i] = q[j]
    OBVIOUS
  <2>1. i - Len(old) \in 1..k /\ ~(i <= Len(old)) /\ i \in 1..Len(old) + k /\ i - Len(old) \in 1..Len(q)
    BY <1>5, <1>7
  <2> QED BY <1>5, <1>7, <2>1
<1>16. 1..Len(old) \subseteq 1..Len(cat) BY <1>5, <1>7
<1>17. UNCHANGED <<acked, live, last, tip>> /\ (buf' = buf \/ buf' = << >>)
  BY DEF WriteSome, SyncBatch, WriteFails, mem, ghost
<1>18. ASSUME NEW s \in 1..Len(file)
       PROVE  /\ s \in 1..Len(file') /\ tip'[s] = tip[s] /\ 1..Firm(s) \subseteq 1..Firm(s)'
              /\ \A i \in 1..Firm(s) : file'[s][i] = file[s][i]
              /\ \A i \in 1..Len(file'[s]) : \/ i \in 1..Len(file[s]) /\ file'[s][i] = file[s][i]
                                             \/ \E j \in 1..Len(buf) : file'[s][i] = buf[j]
              /\ \A i \in 1..Firm(s)' : i \in 1..Firm(s) \/ (s = seq' /\ Tipping')
  <2>1. CASE s # n BY <1>1, <1>13, <1>17, <2>1
  <2>2. CASE s = n
    <3>1. /\ s \in 1..Len(file') /\ tip'[s] = tip[s] /\ 1..Firm(s) \subseteq 1..Firm(s)'
      BY <1>1, <1>10, <1>12, <1>16, <1>17, <2>2
    <3>2. \A i \in 1..Firm(s) : file'[s][i] = file[s][i] BY <1>8, <1>10, <1>14, <2>2
    <3>3. \A i \in 1..Len(file'[s]) : \/ i \in 1..Len(file[s]) /\ file'[s][i] = file[s][i]
                                      \/ \E j \in 1..Len(buf) : file'[s][i] = buf[j]
      BY <1>2, <1>8, <1>10, <1>14, <1>15, <2>2
    <3>4. \A i \in 1..Firm(s)' : i \in 1..Firm(s) \/ (s = seq' /\ Tipping')
      BY <1>1, <1>2, <1>10, <1>12, <2>2
    <3> QED BY <3>1, <3>2, <3>3, <3>4
  <2> QED BY <2>1, <2>2
<1> QED BY <1>1, <1>9, <1>17, <1>18, TipStays

\* The tip covers what flush() acknowledges: all this process appended is firm,
\* and of it only the lines in the active segment were not covered yet.
LEMMA TipFlush ==
  ASSUME TypeInv, TypeInv', DurableInv, StreamInv, TipInv, NEW t \in Threads, FlushNothing(t) \/ WriteTip(t)
  PROVE  TipInv'
<1>1. /\ pc[t] \in {"flush", "tip"} /\ pc[t] \in Locked /\ acked' = acked \cup live
      /\ UNCHANGED <<file, seq, buf, live, last>>
  BY DEF FlushNothing, WriteTip, AfterFlush, disk, Locked
<1>2. proc = "up" /\ \A u \in Threads : u # t => pc[u] \notin Locked BY <1>1, InCall
<1>3. \E to \in {"idle", "due", "sealing"} : pc' = [pc EXCEPT ![t] = to]
  BY DEF FlushNothing, WriteTip, AfterFlush, Leave
<1>4. ~Writing /\ ~Writing' /\ (Tipping <=> pc[t] = "tip")
  BY <1>1, <1>2, <1>3 DEF Writing, Tipping, TypeInv, TypeOK, ControlOK, Locked
<1>5. buf = << >> BY DEF FlushNothing, WriteTip, StreamInv, QueueDone
<1>6. \A s \in 1..Len(file) : Firm(s) = Len(file[s]) /\ Firm(s)' = Len(file[s]) BY <1>1, <1>4 DEF Firm
<1>7. Numbered'
  <2>1. Len(<< >>) = 0 OBVIOUS
  <2> QED BY <1>1, <1>5, <2>1 DEF TipInv, Numbered
<1>8. CASE UNCHANGED tip /\ (TipKey => pc[t] # "tip")
  <2>1. TipFirm' BY <1>1, <1>6, <1>8 DEF TipInv, TipFirm
  <2>2. TipKey => Uncovered'
    BY <1>1, <1>4, <1>6, <1>8 DEF TipInv, Uncovered
  <2> QED BY <1>7, <2>1, <2>2 DEF TipInv
<1>9. CASE WriteTip(t) /\ TipKey
  <2>1. pc[t] = "tip" /\ tip' = [tip EXCEPT ![seq] = [entries |-> idx, first |-> first, last |-> prev]]
    BY <1>9 DEF WriteTip
  <2>2. PICK n : n = seq /\ n \in 1..Len(file) BY <2>1 DEF TypeInv, Placed
  <2>3. [entries |-> idx, first |-> first, last |-> prev] \in Tip
    BY DEF Tip, TypeInv, TypeOK, MemOK
  <2>4. PICK tp \in Tip : tp = [entries |-> idx, first |-> first, last |-> prev] BY <2>3
  <2>5. tip'[n] = tp /\ \A s \in 1..Len(file) : s # n => tip'[s] = tip[s]
    <3>1. tip \in Seq(Tip) /\ n \in 1..Len(tip) /\ Len(tip) = Len(file) BY <2>2 DEF TypeInv, TypeOK, DiskOK
    <3>2. tip' = [tip EXCEPT ![n] = tp] BY <2>1, <2>2, <2>4
    <3> QED BY <3>1, <3>2, ExceptSeq
  <2>6. PICK ls \in Seq(Line) : ls = file[n] BY <2>2, ElementOfSeq DEF TypeInv, TypeOK, DiskOK
  <2>7. Stream = ls
    <3>1. Stored = ls BY <1>4, <2>2, <2>6 DEF Stored
    <3>2. ls \o << >> = ls BY ConcatSimplifications
    <3> QED BY <1>5, <3>1, <3>2 DEF Stream
  <2>8. /\ idx = Len(ls) /\ idx > 0 /\ Len(ls) \in Nat
        /\ prev = ls[Len(ls)].id /\ first = ls[1].id
    BY <1>2, <2>1, <2>7 DEF StreamInv, InStep, ChainState, QueueDone
  <2>9. tp.entries = Len(ls) /\ tp.last = ls[Len(ls)].id /\ tp.first = ls[1].id /\ Len(ls) \in 1..Len(ls)
    BY <2>4, <2>8
  <2>10. TipFirm'
    <3> SUFFICES ASSUME NEW s \in 1..Len(file'), tip'[s] # NoTip
                 PROVE  /\ tip'[s].entries \in 1..Firm(s)'
                        /\ file'[s][tip'[s].entries].id = tip'[s].last /\ file'[s][1].id = tip'[s].first
      BY DEF TipFirm
    <3>1. s \in 1..Len(file) /\ file' = file BY <1>1
    <3>2. CASE s = n BY <1>6, <2>5, <2>6, <2>9, <3>1, <3>2
    <3>3. CASE s # n BY <1>6, <2>5, <3>1, <3>3 DEF TipInv, TipFirm
    <3> QED BY <3>2, <3>3
  <2>11. Uncovered'
    <3> SUFFICES ASSUME NEW s \in 1..Len(file'), NEW i \in 1..Len(file'[s]), i > tip'[s].entries
                 PROVE  file'[s][i].id \notin acked' /\ file'[s][i].id \notin live'
      BY DEF Uncovered
    <3>1. s \in 1..Len(file) /\ file' = file /\ live' = live BY <1>1
    <3>2. s # n BY <2>5, <2>6, <2>8, <2>9, <3>1
    <3>3. file[s][i].id \notin acked /\ file[s][i].id \notin live
      BY <1>6, <1>9, <2>2, <2>5, <3>1, <3>2 DEF TipInv, Uncovered
    <3> QED BY <1>1, <3>1, <3>3
  <2> QED BY <1>7, <2>10, <2>11 DEF TipInv
<1>10. (UNCHANGED tip /\ (TipKey => pc[t] # "tip")) \/ (WriteTip(t) /\ TipKey)
  BY DEF FlushNothing, WriteTip, disk
<1> QED BY <1>8, <1>9, <1>10

\* Unless the tip or ftruncate fails, every step keeps the tips right.
LEMMA TipStep ==
  ASSUME "rollback" \notin Faults, "tip" \notin Faults, WriterInv, TipInv, [Next]_vars
  PROVE  TipInv'
<1>0. TypeInv /\ TypeInv' /\ DurableInv /\ StreamInv BY TypeStep DEF WriterInv
<1>1. CASE UNCHANGED vars \/ RefuseResume
  <2>1. UNCHANGED <<file, tip, acked, buf, last, seq, live, end, pc>>
    BY <1>1 DEF vars, RefuseResume, disk, mem, control, ghost
  <2> QED BY <1>0, <2>1, TipSame DEF Writing, Tipping
<1>2. ASSUME NEW t \in Threads PROVE ~RollbackFails(t) /\ ~TipFails(t)
  BY DEF RollbackFails, TipFails, Fail
<1>3. CASE OpenFresh \/ Resume \/ Crash \/ \E t \in Threads : RotateSegment(t) \/ RotateFails(t)
  BY <1>0, <1>3, TipOpen
<1>4. CASE \E t \in Threads : AppendEntry(t) BY <1>0, <1>4, TipAppend
<1>5. CASE \E t \in Threads : WriteSome(t) \/ SyncBatch(t) \/ WriteFails(t) BY <1>0, <1>5, TipWrite
<1>6. CASE \E t \in Threads : FlushNothing(t) \/ WriteTip(t) BY <1>0, <1>6, TipFlush
<1>7. CASE \E t \in Threads :
             \/ Call(t) \/ CallRotate(t) \/ FlushClosed(t)
             \/ SealNothing(t) \/ SealSegment(t) \/ SealFails(t) \/ SealUnsynced(t)
             \/ WriteHead(t) \/ HeadFails(t) \/ Anchor(t)
  BY <1>0, <1>7, TipQuiet
<1> QED BY <1>1, <1>2, <1>3, <1>4, <1>5, <1>6, <1>7 DEF Next, Step, Trouble

\* The chain tip is never ahead of the lines a restart keeps and never behind
\* what flush() acknowledged, through failed batches, failed seals, crashes and
\* restarts, if neither ftruncate nor the tip itself fails to be written.
THEOREM TipStaysInStep ==
  ASSUME "rollback" \notin Faults, "tip" \notin Faults
  PROVE  Spec => []TipInStep
<1>1. Init => WriterInv /\ TipInv
  BY WriterInit DEF Init, TipInv, TipFirm, Numbered, Uncovered
<1>2. WriterInv /\ TipInv /\ [Next]_vars => (WriterInv /\ TipInv)' BY WriterStep, TipStep
<1>3. WriterInv /\ TipInv => TipInStep
  <2> SUFFICES ASSUME WriterInv, TipInv PROVE TipInStep OBVIOUS
  <2>1. \A s \in 1..Len(file) : /\ Kept(file[s]) = Len(file[s]) /\ Firm(s) \in 0..Len(file[s])
                                /\ Len(file[s]) \in Nat
    <3> TAKE s \in 1..Len(file)
    <3>1. file[s] \in Seq(Line) BY ElementOfSeq DEF WriterInv, TypeInv, TypeOK, DiskOK
    <3>2. Kept(file[s]) = Len(file[s]) BY <3>1, KeptBound DEF WriterInv, DurableInv, AllOk
    <3> QED BY <3>2, FirmBound DEF WriterInv
  <2>2. Len(tip) = Len(file) BY DEF WriterInv, TypeInv, TypeOK, DiskOK
  <2>3. TipTruthful BY <2>1, <2>2 DEF TipInv, TipFirm, TipTruthful
  <2>4. TipCoversAcked
    <3> SUFFICES ASSUME TipKey, NEW s \in 1..Len(file), NEW i \in 1..Len(file[s]), file[s][i].id \in acked
                 PROVE  i <= tip[s].entries
      BY DEF TipCoversAcked
    <3>1. ~(i > tip[s].entries) BY DEF TipInv, Uncovered
    <3>2. tip[s] \in Tip BY <2>2, ElementOfSeq DEF WriterInv, TypeInv, TypeOK, DiskOK
    <3>3. tip[s].entries \in Nat BY <3>2 DEF Tip
    <3> QED BY <2>1, <3>1, <3>3
  <2> QED BY <2>3, <2>4 DEF TipInStep
<1> QED BY <1>1, <1>2, <1>3, PTL DEF Spec

-----------------------------------------------------------------------------
(* How far a segment grows past rotate_entries.                             *)

\* The threads that will see to the rotation: on their way to find it due, or to do it.
Due == {t \in Threads : pc[t] = "due" \/ (pc[t] \in Locked /\ op[t] \in {"append", "rotate"})}

\* Every entry past the last one that fits has such a thread of its own.
BoundInv == fh => idx <= Rotate - 1 + Cardinality(Due)

\* The active segment exists.
InPlace == proc = "up" => seq \in 1..Len(file)

\* One thread moves: the others stay in or out of Due.
LEMMA DueMove ==
  ASSUME IsFiniteSet(Threads), NEW t \in Threads,
         \A u \in Threads : u # t => pc'[u] = pc[u] /\ op'[u] = op[u]
  PROVE  /\ Cardinality(Due) \in Nat /\ Cardinality(Due') \in Nat
         /\ (t \in Due <=> t \in Due') => Cardinality(Due') = Cardinality(Due)
         /\ t \notin Due /\ t \in Due' => Cardinality(Due') = Cardinality(Due) + 1
<1>1. Due \subseteq Threads /\ Due' \subseteq Threads BY DEF Due
<1>2. IsFiniteSet(Due) /\ IsFiniteSet(Due') BY <1>1, FS_Subset
<1>3. Cardinality(Due) \in Nat /\ Cardinality(Due') \in Nat BY <1>2, FS_CardinalityType
<1>4. \A u \in Threads : u # t => (u \in Due <=> u \in Due') BY DEF Due
<1>5. (t \in Due <=> t \in Due') => Due' = Due BY <1>1, <1>4
<1>6. t \notin Due /\ t \in Due' => Due' = Due \cup {t} BY <1>1, <1>4
<1>7. t \notin Due => Cardinality(Due \cup {t}) = Cardinality(Due) + 1 BY <1>2, FS_AddElement
<1> QED BY <1>3, <1>5, <1>6, <1>7

\* The bound holds after a step of one thread that leaves the index, the handle
\* and the threads in Due alone, or that ends below rotate_entries.
LEMMA BoundQuiet ==
  ASSUME IsFiniteSet(Threads), TypeInv, TypeInv', BoundInv, NEW t \in Threads,
         \A u \in Threads : u # t => pc'[u] = pc[u] /\ op'[u] = op[u],
         \/ idx' = idx /\ (fh' => fh) /\ (t \in Due <=> t \in Due')
         \/ idx' < Rotate
         \/ ~fh'
  PROVE  BoundInv'
<1>1. Cardinality(Due) \in Nat /\ Cardinality(Due') \in Nat BY DueMove
<1>2. idx \in Nat /\ idx' \in Nat /\ Rotate \in Nat BY IngestConstants DEF TypeInv, TypeOK, MemOK
<1>3. CASE idx' = idx /\ (fh' => fh) /\ (t \in Due <=> t \in Due')
  <2>1. Cardinality(Due') = Cardinality(Due) BY <1>3, DueMove
  <2> QED BY <1>3, <2>1 DEF BoundInv
<1>4. CASE idx' < Rotate
  <2>1. idx' <= Rotate - 1 + Cardinality(Due') BY <1>1, <1>2, <1>4
  <2> QED BY <2>1 DEF BoundInv
<1>5. CASE ~fh' BY <1>5 DEF BoundInv
<1> QED BY <1>3, <1>4, <1>5

\* The end of flush(): an append() that sees the segment due goes on to rotate it.
LEMMA BoundFlush ==
  ASSUME IsFiniteSet(Threads), TypeInv, TypeInv', BoundInv, NEW t \in Threads, pc[t] \in Locked, AfterFlush(t),
         UNCHANGED <<idx, op>>
  PROVE  BoundInv'
<1>1. op \in [Threads -> Ops] /\ pc \in [Threads -> Steps] /\ idx \in Nat /\ Rotate \in Nat
  BY IngestConstants DEF TypeInv, TypeOK, ControlOK, MemOK
<1>2. /\ \A u \in Threads : u # t => pc'[u] = pc[u] /\ op'[u] = op[u]
      /\ fh' => fh
  <2>1. CASE op[t] = "append" BY <1>1, <2>1 DEF AfterFlush, Leave
  <2>2. CASE op[t] \in {"flush", "closeFlush"} BY <1>1, <2>2 DEF AfterFlush, Leave
  <2>3. CASE op[t] \notin {"append", "flush", "closeFlush"} BY <1>1, <2>3 DEF AfterFlush, Leave
  <2> QED BY <2>1, <2>2, <2>3
<1>3. (t \in Due <=> t \in Due') \/ idx' < Rotate
  <2>1. CASE op[t] = "append" /\ idx >= Rotate
    <3>1. pc'[t] = "due" BY <1>1, <2>1 DEF AfterFlush, Leave
    <3> QED BY <2>1, <3>1 DEF Due
  <2>2. CASE op[t] = "append" /\ ~(idx >= Rotate) BY <1>1, <2>2
  <2>3. CASE op[t] \in {"flush", "closeFlush"}
    <3>1. pc'[t] = "idle" BY <1>1, <2>3 DEF AfterFlush, Leave
    <3> QED BY <2>3, <3>1 DEF Due, Locked
  <2>4. CASE op[t] \notin {"append", "flush", "closeFlush"}
    <3>1. pc'[t] = "sealing" BY <1>1, <2>4 DEF AfterFlush
    <3> QED BY <2>4, <3>1 DEF Due, Locked
  <2> QED BY <2>1, <2>2, <2>3, <2>4
<1>4. idx' = idx OBVIOUS
<1> QED BY <1>2, <1>3, <1>4, BoundQuiet

\* Every step of a writer that nothing disturbs keeps the bound.
LEMMA BoundStep ==
  ASSUME Faults = {}, MaxCrash = 0, IsFiniteSet(Threads),
         WriterInv, Started, InPlace, BoundInv, [Next]_vars
  PROVE  InPlace' /\ BoundInv'
<1>0. /\ TypeInv /\ TypeInv' /\ DurableInv /\ pc \in [Threads -> Steps] /\ op \in [Threads -> Ops]
      /\ crashes \in Nat /\ idx \in Nat /\ Rotate \in Nat /\ Rotate > 0 /\ seq \in Nat /\ Len(file) \in Nat
  <2>1. TypeInv /\ DurableInv BY DEF WriterInv
  <2>2. TypeInv' BY <2>1, TypeStep
  <2>3. pc \in [Threads -> Steps] /\ op \in [Threads -> Ops] /\ crashes \in Nat
    BY <2>1 DEF TypeInv, TypeOK, ControlOK, GhostOK
  <2>4. idx \in Nat /\ seq \in Nat BY <2>1 DEF TypeInv, TypeOK, MemOK
  <2>5. Len(file) \in Nat BY <2>1 DEF TypeInv, TypeOK, DiskOK
  <2>6. Rotate \in Nat /\ Rotate > 0 BY IngestConstants
  <2> QED BY <2>1, <2>2, <2>3, <2>4, <2>5, <2>6
<1>1. ~Resume /\ ~RefuseResume /\ ~Crash
  BY <1>0 DEF Resume, RefuseResume, Crash, Started
<1>2. \A k : ~Fail(k) BY DEF Fail
<1>3. CASE UNCHANGED vars
  <2>1. UNCHANGED <<file, proc, seq, idx, fh, pc, op>> BY <1>3 DEF vars, disk, mem, control
  <2> QED BY <2>1 DEF InPlace, BoundInv, Due
<1>4. CASE OpenFresh
  <2>1. /\ idx' = 0 /\ seq' = Len(file) + 1 /\ CreateSegment /\ UNCHANGED <<pc, op>> BY <1>4 DEF OpenFresh, control
  <2>2. InPlace' BY <1>0, <2>1, CreateDurable DEF InPlace
  <2>3. Due' = Due /\ Cardinality(Due) \in Nat
    <3>1. Due' = Due BY <2>1 DEF Due
    <3>2. Due \subseteq Threads BY DEF Due
    <3> QED BY <3>1, <3>2, FS_Subset, FS_CardinalityType
  <2>4. 0 <= Rotate - 1 + Cardinality(Due) BY <1>0, <2>3
  <2> QED BY <2>1, <2>2, <2>3, <2>4 DEF BoundInv
<1>5. ASSUME NEW t \in Threads, AppendEntry(t) PROVE InPlace' /\ BoundInv'
  <2>1. /\ UNCHANGED <<file, proc, seq, fh>> /\ idx' = idx + 1 /\ pc[t] = "idle" BY <1>5 DEF AppendEntry, Idle, disk
  <2>2. /\ \/ pc'[t] = "flush" /\ op'[t] = "append"
           \/ pc'[t] = "due"
           \/ pc'[t] = "idle" /\ idx' < Rotate
        /\ \A u \in Threads : u # t => pc'[u] = pc[u] /\ op'[u] = op[u]
    BY <1>0, <1>5 DEF AppendEntry, Enter
  <2>3. InPlace' BY <2>1 DEF InPlace
  <2>4. CASE idx' < Rotate BY <1>0, <2>2, <2>3, <2>4, BoundQuiet
  <2>5. CASE ~(idx' < Rotate)
    <3>1. t \notin Due /\ t \in Due' BY <2>1, <2>2, <2>5 DEF Due, Locked
    <3>2. Cardinality(Due') = Cardinality(Due) + 1 /\ Cardinality(Due) \in Nat BY <2>2, <3>1, DueMove
    <3> QED BY <1>0, <2>1, <2>3, <3>2 DEF BoundInv
  <2> QED BY <2>4, <2>5
<1>6. ASSUME NEW t \in Threads, FlushNothing(t) \/ WriteTip(t) PROVE InPlace' /\ BoundInv'
  <2>1. UNCHANGED <<file, proc, seq, idx, op>> /\ AfterFlush(t) /\ pc[t] \in Locked
    BY <1>6 DEF FlushNothing, WriteTip, disk, Locked
  <2> QED BY <1>0, <2>1, BoundFlush DEF InPlace
<1>7. ASSUME NEW t \in Threads,
             \/ Call(t) \/ CallRotate(t) \/ FlushClosed(t) \/ WriteSome(t) \/ SyncBatch(t)
             \/ SealNothing(t) \/ SealSegment(t) \/ WriteHead(t) \/ Anchor(t)
      PROVE  InPlace' /\ BoundInv'
  <2>1. UNCHANGED <<proc, seq, idx>> /\ Len(file') = Len(file) /\ (fh' => fh)
    <3>1. UNCHANGED <<proc, seq, idx, tip>> /\ (fh' => fh)
      <4>1. CASE Call(t) \/ CallRotate(t) BY <4>1 DEF Call, CallRotate, disk, mem
      <4>2. CASE FlushClosed(t) BY <4>2 DEF FlushClosed, Raise, Leave, disk
      <4>3. CASE WriteSome(t) BY <4>3 DEF WriteSome, mem
      <4>4. CASE SyncBatch(t) BY <4>4 DEF SyncBatch, disk
      <4>5. CASE SealNothing(t) BY <4>5 DEF SealNothing, Leave, disk
      <4>6. CASE SealSegment(t) BY <4>6 DEF SealSegment, mem
      <4>7. CASE WriteHead(t) BY <4>7 DEF WriteHead, mem
      <4>8. CASE Anchor(t) BY <4>8, AnchorLeaves
      <4> QED BY <1>7, <4>1, <4>2, <4>3, <4>4, <4>5, <4>6, <4>7, <4>8
    <3> QED BY <1>0, <3>1 DEF TypeInv, TypeOK, DiskOK
  <2>2. InPlace' BY <2>1 DEF InPlace
  <2>3. \A u \in Threads : u # t => pc'[u] = pc[u] /\ op'[u] = op[u]
    <3>1. CASE Anchor(t) BY <1>0, <3>1, AnchorLeaves
    <3>2. CASE ~Anchor(t)
      BY <1>0, <1>7, <3>2 DEF Call, CallRotate, Enter, FlushClosed, WriteSome, SyncBatch, SealNothing,
         SealSegment, WriteHead, Raise, Leave
    <3> QED BY <3>1, <3>2
  <2>4. (t \in Due <=> t \in Due') \/ idx' < Rotate \/ ~fh'
    <3>1. CASE Call(t) \/ CallRotate(t)
      BY <1>0, <3>1 DEF Call, CallRotate, Enter, Idle, Due, Locked
    <3>2. CASE WriteSome(t) \/ SyncBatch(t) \/ SealSegment(t) \/ WriteHead(t)
      BY <1>0, <3>2 DEF WriteSome, SyncBatch, SealSegment, Sealing, WriteHead, Due, Locked
    <3>5. CASE Anchor(t) BY <1>0, <3>5, AnchorLeaves DEF Due, Locked
    <3>3. CASE FlushClosed(t) BY <3>3 DEF FlushClosed, Raise, Leave
    <3>4. CASE SealNothing(t) BY <1>0, <2>1, <3>4 DEF SealNothing, MinEntries
    <3> QED BY <1>7, <3>1, <3>2, <3>3, <3>4, <3>5
  <2> QED BY <1>0, <2>1, <2>2, <2>3, <2>4, BoundQuiet
<1>8. ASSUME NEW t \in Threads, RotateSegment(t) PROVE InPlace' /\ BoundInv'
  <2>1. /\ idx' = 0 /\ seq' = seq + 1 /\ CreateSegment /\ UNCHANGED op /\ pc[t] = "rotate"
        /\ \A u \in Threads : u # t => pc'[u] = pc[u] /\ op'[u] = op[u]
    BY <1>0, <1>8 DEF RotateSegment, NextSegment
  <2>2. seq \in 1..Len(file) BY <1>0, <2>1 DEF TypeInv, Placed
  <2>3. InPlace' BY <1>0, <2>1, <2>2, CreateDurable DEF InPlace
  <2>4. idx' < Rotate BY <1>0, <2>1
  <2> QED BY <1>0, <2>1, <2>3, <2>4, BoundQuiet
<1>9. ASSUME NEW t \in Threads PROVE ~SealFails(t)
  <2> SUFFICES ASSUME SealFails(t) PROVE FALSE OBVIOUS
  <2>1. pc[t] = "sealing" /\ ~Readable(seq) BY <1>2 DEF SealFails, Sealing
  <2>2. proc = "up" /\ \A u \in Threads : u # t => pc[u] \notin Locked BY <1>0, <2>1, InCall DEF Locked
  <2>3. seq \in 1..Len(file) BY <2>2 DEF InPlace
  <2>4. ~Writing BY <2>1, <2>2 DEF Writing, Locked
  <2>5. ~torn[seq] /\ \A i \in 1..Len(file[seq]) : file[seq][i].ok
    BY <1>0, <2>2, <2>3, <2>4 DEF DurableInv, CleanEnd, AllOk
  <2> QED BY <1>0, <2>1, <2>3, <2>5 DEF Readable
<1>10. ASSUME NEW t \in Threads
       PROVE  ~WriteFails(t) /\ ~RollbackFails(t) /\ ~TipFails(t) /\ ~SealUnsynced(t) /\ ~HeadFails(t) /\ ~RotateFails(t)
  BY <1>2 DEF WriteFails, RollbackFails, TipFails, SealUnsynced, HeadFails, RotateFails
<1> QED BY <1>1, <1>3, <1>4, <1>5, <1>6, <1>7, <1>8, <1>9, <1>10 DEF Next, Step, Trouble

\* "min_entries evita seal duplicati": rotation is decided under append()'s lock
\* and done later under seal()'s own, and still, while nothing fails and the
\* writer does not restart, a segment never grows past rotate_entries by more
\* than one entry for every other thread.
THEOREM SegmentsBounded ==
  ASSUME Faults = {}, MaxCrash = 0, IsFiniteSet(Threads)
  PROVE  Spec => []SegmentBound
<1> DEFINE Inv == WriterInv /\ SealInv /\ Started /\ HeadCurrent /\ InPlace /\ BoundInv
<1>1. Init => Inv
  <2>1. Init => Sealed = {} BY DEF Init, Sealed
  <2> QED BY <2>1, WriterInit, SealInit DEF Init, Started, HeadCurrent, InPlace, BoundInv
<1>2. Inv /\ [Next]_vars => Inv'
  <2>1. Faults \cap SealFaults = {} /\ "rollback" \notin Faults OBVIOUS
  <2> QED BY <2>1, WriterStep, SealStep, CurrentStep, BoundStep DEF WriterInv
<1>3. Inv => SegmentBound
  <2> SUFFICES ASSUME WriterInv, BoundInv, fh PROVE idx <= Rotate + Cardinality(Threads) - 1
    BY DEF SegmentBound
  <2>1. Due \subseteq Threads BY DEF Due
  <2>2. /\ Cardinality(Due) \in Nat /\ Cardinality(Threads) \in Nat
        /\ Cardinality(Due) <= Cardinality(Threads)
    BY <2>1, FS_Subset, FS_CardinalityType
  <2>3. idx \in Nat /\ Rotate \in Nat BY IngestConstants DEF WriterInv, TypeInv, TypeOK, MemOK
  <2> QED BY <2>2, <2>3 DEF BoundInv
<1> QED BY <1>1, <1>2, <1>3, PTL DEF Spec

-----------------------------------------------------------------------------
(* The refinement: the archive is one append-only log (EvidenceLog).        *)

\* The lines on disk, place after place, are in the order append() took them.
DiskOrder ==
  \A s, r \in 1..Len(file) : \A i \in 1..Len(file[s]), j \in 1..Len(file[r]) :
    s < r \/ (s = r /\ i < j) => file[s][i].id < file[r][j].id

\* The queue is in that order too, and after every firm line.
QueueOrder ==
  /\ \A i, j \in 1..Len(buf) : i < j => buf[i].id < buf[j].id
  /\ \A s \in 1..Len(file) : \A i \in 1..Firm(s), j \in 1..Len(buf) : file[s][i].id < buf[j].id

\* The next entry has a number nobody has used.
NextIsFresh ==
  /\ \A j \in 1..Len(buf) : buf[j].id <= last.entry
  /\ \A s \in 1..Len(file) : \A i \in 1..Len(file[s]) : file[s][i].id <= last.entry

OrderInv == DiskOrder /\ QueueOrder /\ NextIsFresh

\* Firm lines stay, and only the last segment gets more of them.
Grows ==
  \A s \in 1..Len(file) :
    /\ s \in 1..Len(file') /\ 1..Firm(s) \subseteq 1..Firm(s)'
    /\ \A i \in 1..Firm(s) : file'[s][i] = file[s][i]
    /\ s # Len(file) => Firm(s)' = Firm(s)

\* append_line works on the last segment.
LEMMA WritesLast ==
  ASSUME TypeInv, Writing
  PROVE  seq = Len(file) /\ seq \in 1..Len(file) /\ proc = "up"
<1>1. PICK t \in Threads : pc[t] = "wrote" BY DEF Writing
<1>2. seq \in 1..Len(file) /\ proc = "up" BY <1>1 DEF TypeInv, Placed
<1>3. Len(file) \in Nat BY DEF TypeInv, TypeOK, DiskOK
<1> QED BY <1>2, <1>3 DEF TypeInv, Placed

\* The segments stay as they are; at most empty ones are added.
OldLines ==
  /\ Len(file) <= Len(file')
  /\ \A s \in 1..Len(file) : file'[s] = file[s]
  /\ \A s \in 1..Len(file') : s \in 1..Len(file) \/ file'[s] = << >>

\* Steps outside append_line and append(): what is firm and what is queued stay,
\* or the process dies, which makes every line firm and forgets the queue.
LEMMA StillOrdered ==
  ASSUME TypeInv, TypeInv', OrderInv, OldLines, last'.entry = last.entry,
         \/ buf' = buf /\ \A s \in 1..Len(file) : Firm(s)' = Firm(s)
         \/ buf' = << >> /\ ~Writing'
  PROVE  OrderInv' /\ Grows
<1>1. Len(<< >>) = 0 /\ Len(file) \in Nat /\ Len(file') \in Nat BY DEF TypeInv, TypeOK, DiskOK
<1>2. \A s \in 1..Len(file') : \A i \in 1..Len(file'[s]) :
        s \in 1..Len(file) /\ file'[s] = file[s] /\ i \in 1..Len(file[s])
  BY <1>1 DEF OldLines
<1>3. DiskOrder' BY <1>2 DEF OrderInv, DiskOrder
<1>4. NextIsFresh'
  <2>1. \A j \in 1..Len(buf') : buf'[j].id <= last'.entry BY <1>1 DEF OrderInv, NextIsFresh
  <2>2. \A s \in 1..Len(file') : \A i \in 1..Len(file'[s]) : file'[s][i].id <= last'.entry
    BY <1>2 DEF OrderInv, NextIsFresh
  <2> QED BY <2>1, <2>2 DEF NextIsFresh
<1>5. QueueOrder'
  <2>1. CASE buf' = << >> BY <1>1, <2>1 DEF QueueOrder
  <2>2. CASE buf' = buf /\ \A s \in 1..Len(file) : Firm(s)' = Firm(s)
    <3>1. ASSUME NEW s \in 1..Len(file'), NEW i \in 1..Firm(s)', NEW j \in 1..Len(buf')
          PROVE  file'[s][i].id < buf'[j].id
      <4>1. i \in 1..Len(file'[s])
        <5>1. file'[s] \in Seq(Line) BY ElementOfSeq DEF TypeInv, TypeOK, DiskOK
        <5>2. s = seq' /\ Writing' => end'.lines \in 0..Len(file'[s]) BY DEF Writing, TypeInv, Placed
        <5> QED BY <5>1, <5>2 DEF Firm
      <4>2. s \in 1..Len(file) /\ file'[s] = file[s] /\ i \in 1..Firm(s) BY <1>2, <2>2, <4>1
      <4> QED BY <2>2, <4>2 DEF OrderInv, QueueOrder
    <3> QED BY <2>2, <3>1 DEF OrderInv, QueueOrder
  <2> QED BY <2>1, <2>2
<1>6. Grows
  <2> SUFFICES ASSUME NEW s \in 1..Len(file)
               PROVE  /\ s \in 1..Len(file') /\ 1..Firm(s) \subseteq 1..Firm(s)'
                      /\ \A i \in 1..Firm(s) : file'[s][i] = file[s][i]
                      /\ s # Len(file) => Firm(s)' = Firm(s)
    BY DEF Grows
  <2>1. s \in 1..Len(file') /\ file'[s] = file[s] BY <1>1 DEF OldLines
  <2>2. Firm(s) \in 0..Len(file[s]) /\ Len(file[s]) \in Nat BY FirmBound
  <2>3. CASE Firm(s)' = Firm(s) BY <2>1, <2>2, <2>3
  <2>4. CASE ~Writing'
    <3>1. Firm(s)' = Len(file[s]) BY <2>1, <2>4 DEF Firm
    <3>2. s # Len(file) => Firm(s) = Len(file[s]) BY WritesLast DEF Firm
    <3> QED BY <2>1, <2>2, <3>1, <3>2
  <2> QED BY <2>3, <2>4
<1> QED BY <1>3, <1>4, <1>5, <1>6 DEF OrderInv

\* append() gives the new entry the next number and queues it last.
LEMMA AppendOrdered ==
  ASSUME TypeInv, TypeInv', OrderInv, NEW t \in Threads, AppendEntry(t)
  PROVE  OrderInv' /\ Grows
<1>1. [ok |-> TRUE, id |-> last.entry + 1, idx |-> idx, prev |-> prev] \in Line
  BY DEF TypeInv, TypeOK, MemOK, GhostOK, Line
<1>2. PICK e \in Line : e = [ok |-> TRUE, id |-> last.entry + 1, idx |-> idx, prev |-> prev] BY <1>1
<1>3. /\ buf' = Append(buf, e) /\ e.id = last.entry + 1 /\ UNCHANGED <<file, seq, end>>
      /\ \A u \in Threads : pc[u] \notin Locked
  BY <1>2 DEF AppendEntry, Idle, LockFree, disk
<1>4. last'.entry = last.entry + 1 /\ last.entry \in Nat
  BY DEF AppendEntry, TypeInv, TypeOK, GhostOK
<1>5. /\ Len(buf') = Len(buf) + 1 /\ Len(buf) \in Nat /\ buf'[Len(buf) + 1] = e
      /\ \A i \in 1..Len(buf) : buf'[i] = buf[i]
  BY <1>3, AppendProperties DEF TypeInv, TypeOK, MemOK
<1>6. PICK to \in {"flush", "due", "idle"} : pc' = [pc EXCEPT ![t] = to]
  BY DEF AppendEntry, Enter
<1>7. ~Writing /\ ~Writing'
  BY <1>3, <1>6 DEF Writing, TypeInv, TypeOK, ControlOK, Locked
<1>8. \A s \in 1..Len(file) : Firm(s)' = Firm(s) /\ Firm(s) = Len(file[s]) BY <1>3, <1>7 DEF Firm
<1>9. \A i \in 1..Len(buf) : buf[i].id \in Nat /\ buf[i].id <= last.entry
  <2>1. \A i \in 1..Len(buf) : buf[i] \in Line BY ElementOfSeq DEF TypeInv, TypeOK, MemOK
  <2> QED BY <2>1 DEF Line, OrderInv, NextIsFresh
<1>10. \A s \in 1..Len(file) : \A i \in 1..Len(file[s]) :
         file[s][i].id \in Nat /\ file[s][i].id <= last.entry
  <2>1. \A s \in 1..Len(file) : file[s] \in Seq(Line) BY ElementOfSeq DEF TypeInv, TypeOK, DiskOK
  <2>2. \A s \in 1..Len(file) : \A i \in 1..Len(file[s]) : file[s][i] \in Line BY <2>1, ElementOfSeq
  <2> QED BY <2>2 DEF Line, OrderInv, NextIsFresh
<1>11. DiskOrder' BY <1>3 DEF OrderInv, DiskOrder
<1>12. NextIsFresh'
  <2>1. \A j \in 1..Len(buf') : buf'[j].id <= last'.entry BY <1>3, <1>4, <1>5, <1>9
  <2>2. \A s \in 1..Len(file') : \A i \in 1..Len(file'[s]) : file'[s][i].id <= last'.entry
    BY <1>3, <1>4, <1>10
  <2> QED BY <2>1, <2>2 DEF NextIsFresh
<1>13. QueueOrder'
  <2>1. ASSUME NEW i \in 1..Len(buf'), NEW j \in 1..Len(buf'), i < j PROVE buf'[i].id < buf'[j].id
    <3>1. i \in 1..Len(buf) /\ (j \in 1..Len(buf) \/ j = Len(buf) + 1) BY <1>5, <2>1
    <3>2. CASE j \in 1..Len(buf) BY <1>5, <2>1, <3>1, <3>2 DEF OrderInv, QueueOrder
    <3>3. CASE j = Len(buf) + 1 BY <1>3, <1>4, <1>5, <1>9, <3>1, <3>3
    <3> QED BY <3>1, <3>2, <3>3
  <2>2. ASSUME NEW s \in 1..Len(file'), NEW i \in 1..Firm(s)', NEW j \in 1..Len(buf')
        PROVE  file'[s][i].id < buf'[j].id
    <3>1. s \in 1..Len(file) /\ i \in 1..Firm(s) /\ i \in 1..Len(file[s]) /\ file'[s][i] = file[s][i]
      BY <1>3, <1>8
    <3>2. CASE j \in 1..Len(buf) BY <1>5, <3>1, <3>2 DEF OrderInv, QueueOrder
    <3>3. CASE j = Len(buf) + 1 BY <1>3, <1>4, <1>5, <1>10, <3>1, <3>3
    <3> QED BY <1>5, <3>2, <3>3
  <2> QED BY <2>1, <2>2 DEF QueueOrder
<1>14. Grows BY <1>3, <1>8 DEF Grows
<1> QED BY <1>11, <1>12, <1>13, <1>14 DEF OrderInv

\* append_line moves lines of the queue to the end of the last segment.
LEMMA WriteOrdered ==
  ASSUME TypeInv, TypeInv', DurableInv, OrderInv, NEW t \in Threads,
         WriteSome(t) \/ SyncBatch(t) \/ WriteFails(t)
  PROVE  OrderInv' /\ Grows
<1>1. /\ seq \in 1..Len(file) /\ proc = "up" /\ seq' = seq /\ \A u \in Threads : u # t => pc[u] \notin Locked
      /\ Len(file') = Len(file) /\ \A s \in 1..Len(file) : s # seq => file'[s] = file[s]
  BY WriteShape
<1>2. seq = Len(file) /\ Len(file) \in Nat BY <1>1 DEF TypeInv, TypeOK, DiskOK, Placed
<1>3. PICK q \in Seq(Line), old \in Seq(Line) : q = buf /\ old = Stored BY StreamType
<1>4. PICK k \in 0..Len(q) : file'[seq] = old \o SubSeq(q, 1, k)
         /\ \/ WriteSome(t)
            \/ SyncBatch(t) /\ SubSeq(q, 1, k) = q
            \/ WriteFails(t) /\ SubSeq(q, 1, k) = << >>
  BY <1>3, WriteShape
<1>5. old = IF pc[t] = "wrote" THEN SubSeq(file[seq], 1, end.lines) ELSE file[seq]
  BY <1>3, WriteShape
<1>6. Writing <=> pc[t] = "wrote" BY <1>1 DEF Writing, Locked
<1>7. file[seq] \in Seq(Line) /\ Len(file[seq]) \in Nat /\ Len(old) \in Nat /\ Len(q) \in Nat /\ k \in Nat
  <2>1. file[seq] \in Seq(Line) BY <1>1, ElementOfSeq DEF TypeInv, TypeOK, DiskOK
  <2>2. Len(q) \in Nat /\ Len(old) \in Nat OBVIOUS
  <2> QED BY <2>1, <2>2
<1>8. Len(old) = Firm(seq) /\ Firm(seq) <= Len(file[seq]) /\ \A i \in 1..Len(old) : old[i] = file[seq][i]
  <2>1. CASE pc[t] = "wrote"
    <3>1. end.lines \in 0..Len(file[seq]) BY <2>1 DEF TypeInv, Placed
    <3>2. Firm(seq) = end.lines BY <1>6, <2>1 DEF Firm
    <3>3. /\ Len(SubSeq(file[seq], 1, end.lines)) = end.lines
          /\ \A i \in 1..end.lines : SubSeq(file[seq], 1, end.lines)[i] = file[seq][i]
      BY <1>7, <3>1, KeepLines
    <3> QED BY <1>5, <1>7, <2>1, <3>1, <3>2, <3>3
  <2>2. CASE pc[t] # "wrote" BY <1>5, <1>6, <1>7, <2>2 DEF Firm
  <2> QED BY <2>1, <2>2
<1>9. PICK cat : cat = old \o SubSeq(q, 1, k) OBVIOUS
<1>10. /\ Len(cat) = Len(old) + k /\ \A i \in 1..Len(old) : cat[i] = old[i]
       /\ \A i \in 1..k : cat[Len(old) + i] = q[i]
  <2>1. SubSeq(q, 1, k) \in Seq(Line) /\ Len(SubSeq(q, 1, k)) = k /\ \A i \in 1..k : SubSeq(q, 1, k)[i] = q[i]
    BY KeepLines
  <2>2. PICK part \in Seq(Line) : part = SubSeq(q, 1, k) BY <2>1
  <2>3. /\ Len(cat) = Len(old) + Len(part) /\ \A i \in 1..Len(old) : cat[i] = old[i]
        /\ \A j \in 1..Len(part) : cat[Len(old) + j] = part[j]
    BY <1>7, <1>9, <2>1, <2>2, ConcatProperties
  <2> QED BY <2>1, <2>2, <2>3
\* Where a line of the new file comes from.
<1>11. ASSUME NEW s \in 1..Len(file'), NEW i \in 1..Len(file'[s])
       PROVE  \/ i \in 1..Firm(s) /\ i \in 1..Len(file[s]) /\ file'[s][i] = file[s][i]
              \/ s = seq /\ i - Len(old) \in 1..k /\ file'[s][i] = q[i - Len(old)]
  <2>1. CASE s # seq
    <3>1. s \in 1..Len(file) /\ file'[s] = file[s] /\ Firm(s) = Len(file[s]) BY <1>1, <2>1 DEF Firm
    <3> QED BY <3>1
  <2>2. CASE s = seq
    <3>1. file'[s] = cat BY <1>4, <1>9, <2>2
    <3>2. CASE i <= Len(old) BY <1>7, <1>8, <1>10, <2>2, <3>1, <3>2
    <3>3. CASE i > Len(old)
      <4>1. i - Len(old) \in 1..k /\ i = Len(old) + (i - Len(old)) BY <1>7, <1>10, <3>1, <3>3
      <4>2. cat[Len(old) + (i - Len(old))] = q[i - Len(old)] BY <1>10, <4>1
      <4> QED BY <2>2, <3>1, <4>1, <4>2
    <3> QED BY <1>7, <3>2, <3>3
  <2> QED BY <2>1, <2>2
<1>12. \A j \in 1..k : j \in 1..Len(q) BY <1>7
<1>13. DiskOrder'
  <2> SUFFICES ASSUME NEW s \in 1..Len(file'), NEW r \in 1..Len(file'),
                      NEW i \in 1..Len(file'[s]), NEW j \in 1..Len(file'[r]), s < r \/ (s = r /\ i < j)
               PROVE  file'[s][i].id < file'[r][j].id
    BY DEF DiskOrder
  <2>1. s \in 1..Len(file) /\ r \in 1..Len(file) BY <1>1
  <2>2. CASE i \in 1..Firm(s) /\ i \in 1..Len(file[s]) /\ file'[s][i] = file[s][i]
    <3>1. CASE j \in 1..Firm(r) /\ j \in 1..Len(file[r]) /\ file'[r][j] = file[r][j]
      BY <2>1, <2>2, <3>1 DEF OrderInv, DiskOrder
    <3>2. CASE r = seq /\ j - Len(old) \in 1..k /\ file'[r][j] = q[j - Len(old)]
      BY <1>3, <1>12, <2>1, <2>2, <3>2 DEF OrderInv, QueueOrder
    <3> QED BY <1>11, <3>1, <3>2
  <2>3. CASE s = seq /\ i - Len(old) \in 1..k /\ file'[s][i] = q[i - Len(old)]
    <3>1. r = seq /\ i < j BY <1>2, <2>1, <2>3
    <3>2. ~(j \in 1..Firm(r)) BY <1>7, <1>8, <2>3, <3>1
    <3>3. j - Len(old) \in 1..k /\ file'[r][j] = q[j - Len(old)] BY <1>11, <3>2
    <3>4. i - Len(old) < j - Len(old) BY <1>7, <3>1
    <3> QED BY <1>3, <1>12, <2>3, <3>3, <3>4 DEF OrderInv, QueueOrder
  <2> QED BY <1>11, <2>2, <2>3
<1>14. NextIsFresh'
  <2>1. last' = last /\ (buf' = buf \/ buf' = << >>)
    BY DEF WriteSome, SyncBatch, WriteFails, ghost, mem
  <2>2. Len(<< >>) = 0 OBVIOUS
  <2>3. ASSUME NEW s \in 1..Len(file'), NEW i \in 1..Len(file'[s]) PROVE file'[s][i].id <= last'.entry
    <3>1. s \in 1..Len(file) BY <1>1
    <3> QED BY <1>3, <1>11, <1>12, <2>1, <3>1 DEF OrderInv, NextIsFresh
  <2> QED BY <2>1, <2>2, <2>3 DEF OrderInv, NextIsFresh
<1>15. \A u \in Threads : /\ u # t => pc'[u] = pc[u]
                          /\ WriteSome(t) => pc'[t] = "wrote"
                          /\ SyncBatch(t) => pc'[t] = "tip"
                          /\ WriteFails(t) => pc'[t] = "idle"
  BY DEF WriteSome, SyncBatch, WriteFails, Raise, Leave, TypeInv, TypeOK, ControlOK
<1>16. /\ WriteSome(t) => Writing' /\ end'.lines = Len(old)
       /\ SyncBatch(t) \/ WriteFails(t) => ~Writing'
  <2>1. WriteSome(t) => Writing' BY <1>15 DEF Writing
  <2>2. WriteSome(t) => end'.lines = Len(old) BY <1>5 DEF WriteSome
  <2>3. SyncBatch(t) \/ WriteFails(t) => ~Writing' BY <1>1, <1>15 DEF Writing, Locked
  <2> QED BY <2>1, <2>2, <2>3
<1>17. Firm(seq)' = IF SyncBatch(t) THEN Len(cat) ELSE Len(old)
  <2>1. file'[seq] = cat BY <1>4, <1>9
  <2>2. CASE WriteSome(t)
    <3>1. ~SyncBatch(t) BY <2>2, <1>15
    <3> QED BY <1>1, <1>16, <2>2, <3>1 DEF Firm
  <2>3. CASE SyncBatch(t) BY <1>1, <1>16, <2>1, <2>3 DEF Firm
  <2>4. CASE WriteFails(t) /\ SubSeq(q, 1, k) = << >>
    <3>1. old \o << >> = old BY ConcatSimplifications
    <3>2. ~SyncBatch(t) BY <1>15, <2>4
    <3> QED BY <1>1, <1>9, <1>16, <2>1, <2>4, <3>1, <3>2 DEF Firm
  <2> QED BY <1>4, <2>2, <2>3, <2>4
<1>18. \A s \in 1..Len(file) : s # seq => Firm(s)' = Firm(s) /\ Firm(s) = Len(file[s])
  BY <1>1 DEF Firm
<1>19. Grows
  <2> SUFFICES ASSUME NEW s \in 1..Len(file)
               PROVE  /\ s \in 1..Len(file') /\ 1..Firm(s) \subseteq 1..Firm(s)'
                      /\ \A i \in 1..Firm(s) : file'[s][i] = file[s][i]
                      /\ s # Len(file) => Firm(s)' = Firm(s)
    BY DEF Grows
  <2>1. CASE s # seq BY <1>1, <1>18, <2>1
  <2>2. CASE s = seq
    <3>1. file'[s] = cat BY <1>4, <1>9, <2>2
    <3>2. 1..Len(old) \subseteq 1..Len(cat) BY <1>7, <1>10
    <3> QED BY <1>1, <1>2, <1>8, <1>10, <1>17, <2>2, <3>1, <3>2
  <2> QED BY <2>1, <2>2
<1>20. QueueOrder'
  <2>1. CASE SyncBatch(t)
    <3>1. buf' = << >> /\ Len(<< >>) = 0 BY <2>1 DEF SyncBatch
    <3> QED BY <3>1 DEF QueueOrder
  <2>2. CASE ~SyncBatch(t)
    <3>1. buf' = buf BY <2>2 DEF WriteSome, WriteFails, mem
    <3>2. \A s \in 1..Len(file) : Firm(s)' = Firm(s) BY <1>1, <1>8, <1>17, <1>18, <2>2
    <3>3. \A s \in 1..Len(file) : \A i \in 1..Firm(s) : file'[s][i] = file[s][i] BY <1>19 DEF Grows
    <3>4. ASSUME NEW s \in 1..Len(file'), NEW i \in 1..Firm(s)', NEW j \in 1..Len(buf')
          PROVE  file'[s][i].id < buf'[j].id
      <4>1. s \in 1..Len(file) BY <1>1
      <4>2. i \in 1..Firm(s) BY <3>2, <4>1
      <4> QED BY <3>1, <3>3, <4>1, <4>2 DEF OrderInv, QueueOrder
    <3>5. \A i, j \in 1..Len(buf') : i < j => buf'[i].id < buf'[j].id BY <3>1 DEF OrderInv, QueueOrder
    <3> QED BY <3>4, <3>5 DEF QueueOrder
  <2> QED BY <2>1, <2>2
<1> QED BY <1>13, <1>14, <1>19, <1>20 DEF OrderInv

\* Every step keeps the order of the lines and takes no firm line back.
LEMMA OrderStep ==
  ASSUME "rollback" \notin Faults, WriterInv, WriterInv', OrderInv, [Next]_vars
  PROVE  OrderInv' /\ Grows
<1> USE DEF WriterInv
<1>0. Len(file) \in Nat BY DEF TypeInv, TypeOK, DiskOK
<1>1. CASE UNCHANGED vars \/ RefuseResume
  <2>1. UNCHANGED <<file, buf, pc, seq, end, last>>
    BY <1>1 DEF vars, RefuseResume, disk, mem, control, ghost
  <2>2. OldLines BY <1>0, <2>1 DEF OldLines
  <2>3. \A s \in 1..Len(file) : Firm(s)' = Firm(s) BY <2>1 DEF Firm, Writing
  <2> QED BY <2>1, <2>2, <2>3, StillOrdered
<1>2. CASE OpenFresh \/ \E t \in Threads : RotateSegment(t) \/ RotateFails(t)
  <2>1. /\ UNCHANGED <<buf, last>> /\ (UNCHANGED file \/ CreateSegment)
    BY <1>2 DEF OpenFresh, RotateSegment, RotateFails, ghost
  <2>2. ~Writing /\ ~Writing'
    <3>1. CASE OpenFresh BY <3>1 DEF OpenFresh, control, Writing, TypeInv, Placed
    <3>2. ASSUME NEW t \in Threads, RotateSegment(t) \/ RotateFails(t) PROVE ~Writing /\ ~Writing'
      <4>1. pc[t] \in Locked /\ pc[t] # "wrote" BY <3>2 DEF RotateSegment, RotateFails, Locked
      <4>2. \A u \in Threads : u # t => pc[u] \notin Locked BY <4>1, InCall
      <4>3. PICK to \in {"anchor", "idle"} : pc' = [pc EXCEPT ![t] = to]
        BY <3>2 DEF RotateSegment, RotateFails
      <4> QED BY <4>1, <4>2, <4>3 DEF Writing, Locked, TypeInv, TypeOK, ControlOK
    <3> QED BY <1>2, <3>1, <3>2
  <2>3. OldLines
    <3>1. CASE UNCHANGED file BY <1>0, <3>1 DEF OldLines
    <3>2. CASE CreateSegment BY <3>2, CreateDurable DEF OldLines
    <3> QED BY <2>1, <3>1, <3>2
  <2>4. \A s \in 1..Len(file) : Firm(s)' = Firm(s) BY <2>2, <2>3 DEF Firm, OldLines
  <2> QED BY <2>1, <2>3, <2>4, StillOrdered
<1>3. CASE Resume
  <2>1. file' = file /\ UNCHANGED <<buf, last, pc>> BY <1>3, ResumeKeeps DEF Resume, control, ghost
  <2>2. ~Writing /\ ~Writing' BY <1>3, <2>1 DEF Resume, Writing, TypeInv, Placed
  <2>3. OldLines BY <1>0, <2>1 DEF OldLines
  <2>4. \A s \in 1..Len(file) : Firm(s)' = Firm(s) BY <2>1, <2>2 DEF Firm
  <2> QED BY <2>1, <2>3, <2>4, StillOrdered
<1>4. CASE Crash
  <2>1. UNCHANGED <<file, last>> /\ buf' = << >> /\ ~Writing' BY <1>4 DEF Crash, disk, Writing
  <2>2. OldLines BY <1>0, <2>1 DEF OldLines
  <2> QED BY <2>1, <2>2, StillOrdered
<1>5. CASE \E t \in Threads : AppendEntry(t) BY <1>5, AppendOrdered
<1>6. CASE \E t \in Threads : WriteSome(t) \/ SyncBatch(t) \/ WriteFails(t) BY <1>6, WriteOrdered
<1>7. ASSUME NEW t \in Threads,
             \/ Call(t) \/ CallRotate(t) \/ FlushClosed(t) \/ TipFails(t)
             \/ SealNothing(t) \/ SealSegment(t) \/ SealFails(t) \/ SealUnsynced(t)
             \/ WriteHead(t) \/ HeadFails(t) \/ Anchor(t)
             \/ FlushNothing(t) \/ WriteTip(t)
      PROVE  OrderInv' /\ Grows
  <2>1. UNCHANGED <<file, buf, seq, end>> /\ pc[t] # "wrote"
    BY <1>7 DEF Call, CallRotate, FlushClosed, TipFails, SealNothing, SealSegment, SealFails, SealUnsynced,
       Sealing, WriteHead, HeadFails, Anchor, Request, WriteToken, WriteMeta, FlushNothing, WriteTip, Idle, disk, mem
  <2>2. last'.entry = last.entry
    BY <1>7 DEF Call, CallRotate, FlushClosed, TipFails, SealNothing, SealSegment, PutSth, SealFails,
       SealUnsynced, WriteHead, HeadFails, Anchor, Request, WriteToken, WriteMeta, FlushNothing, WriteTip, ghost, TypeInv, TypeOK, GhostOK
  <2>3. PICK to \in Steps \ {"wrote"} : pc' = [pc EXCEPT ![t] = to]
    <3>1. CASE Call(t) \/ CallRotate(t)
      BY <3>1 DEF Call, CallRotate, Enter, Steps, Anchoring, Locked
    <3>2. CASE FlushClosed(t) \/ TipFails(t) \/ SealNothing(t) \/ SealFails(t) \/ SealUnsynced(t)
               \/ HeadFails(t)
      BY <3>2 DEF FlushClosed, TipFails, SealNothing, SealFails, SealUnsynced, HeadFails,
         Raise, Leave, Steps, Anchoring
    <3>3. CASE SealSegment(t) \/ WriteHead(t)
      BY <3>3 DEF SealSegment, WriteHead, Steps, Anchoring, Locked
    <3>4. CASE FlushNothing(t) \/ WriteTip(t)
      BY <3>4 DEF FlushNothing, WriteTip, AfterFlush, Leave, Steps, Anchoring, Locked
    <3>5. CASE Anchor(t) BY <3>5, AnchorLeaves DEF Steps, Anchoring
    <3> QED BY <1>7, <3>1, <3>2, <3>3, <3>4, <3>5
  <2>4. Writing' <=> Writing BY <2>1, <2>3 DEF Writing, TypeInv, TypeOK, ControlOK
  <2>5. OldLines BY <1>0, <2>1 DEF OldLines
  <2>6. \A s \in 1..Len(file) : Firm(s)' = Firm(s) BY <2>1, <2>4 DEF Firm
  <2> QED BY <2>1, <2>2, <2>5, <2>6, StillOrdered
<1>8. ASSUME NEW t \in Threads PROVE ~RollbackFails(t)
  BY DEF RollbackFails, Fail
<1> QED BY <1>1, <1>2, <1>3, <1>4, <1>5, <1>6, <1>7, <1>8 DEF Next, Step, Trouble

\* An acknowledgement is never taken back.
LEMMA AckedStays ==
  ASSUME [Next]_vars
  PROVE  acked \subseteq acked'
<1>1. CASE UNCHANGED vars \/ OpenFresh \/ Resume \/ RefuseResume \/ Crash
  BY <1>1 DEF vars, OpenFresh, Resume, RefuseResume, Crash, ghost
<1>2. ASSUME NEW t \in Threads, AppendEntry(t) \/ Call(t) PROVE acked \subseteq acked'
  BY <1>2 DEF AppendEntry, Call, ghost
<1>3. ASSUME NEW t \in Threads, Step(t) PROVE acked \subseteq acked'
  BY <1>3 DEF Step, CallRotate, FlushNothing, FlushClosed, WriteSome, SyncBatch, WriteTip, AfterFlush,
     SealNothing, SealSegment, WriteHead, RotateSegment, Anchor, Request, WriteToken, WriteMeta, ghost
<1>4. ASSUME NEW t \in Threads, Trouble(t) PROVE acked \subseteq acked'
  BY <1>4 DEF Trouble, WriteFails, RollbackFails, TipFails, SealFails, SealUnsynced, HeadFails, RotateFails
<1> QED BY <1>1, <1>2, <1>3, <1>4 DEF Next

\* The places of the log are the firm lines.
LEMMA PlacesAre ==
  /\ \A s \in 1..Len(file) : \A i \in 1..Firm(s) : <<s, i>> \in Places
  /\ \A p \in Places : \E s \in 1..Len(file) : \E i \in 1..Firm(s) : p = <<s, i>>
  BY DEF Places

\* The same of the next state.
LEMMA PlacesNext ==
  /\ \A s \in 1..Len(file') : \A i \in 1..Firm(s)' : <<s, i>> \in Places'
  /\ \A p \in Places' : \E s \in 1..Len(file') : \E i \in 1..Firm(s)' : p = <<s, i>>
  BY DEF Places

\* A step of the writer is a step of the log, or leaves it alone.
LEMMA LogStep ==
  ASSUME "rollback" \notin Faults, WriterInv, WriterInv', OrderInv, [Next]_vars
  PROVE  Abstract!Next
<1>1. OrderInv' /\ Grows BY OrderStep
<1>2. Len(file) \in Nat /\ Len(file') \in Nat BY DEF WriterInv, TypeInv, TypeOK, DiskOK
<1>3. \A s \in 1..Len(file) : Firm(s) \in Nat BY FirmBound DEF WriterInv
<1>4. DOMAIN Committed = Places /\ (DOMAIN Committed)' = Places' BY DEF Committed
<1>5. \A s, i : <<s, i>> \in Places => Committed[<<s, i>>] = file[s][i].id BY DEF Committed
<1>6. \A s, i : <<s, i>> \in Places' => Committed'[<<s, i>>] = file'[s][i].id BY DEF Committed
<1>7. Abstract!Stays
  <2> SUFFICES ASSUME NEW p \in Places PROVE p \in Places' /\ Committed'[p] = Committed[p]
    BY <1>4 DEF Abstract!Stays
  <2>1. PICK s \in 1..Len(file) : \E i \in 1..Firm(s) : p = <<s, i>> BY PlacesAre
  <2>2. PICK i \in 1..Firm(s) : p = <<s, i>> BY <2>1
  <2>3. s \in 1..Len(file') /\ i \in 1..Firm(s)' /\ file'[s][i] = file[s][i]
    BY <1>1, <2>1, <2>2 DEF Grows
  <2>4. p \in Places' BY <2>2, <2>3, PlacesNext
  <2> QED BY <1>5, <1>6, <2>2, <2>3, <2>4
<1>8. Abstract!AtEnd
  <2> SUFFICES ASSUME NEW p \in Places, NEW q \in Places' \ Places
               PROVE  p[1] < q[1] \/ (p[1] = q[1] /\ p[2] < q[2])
    BY <1>4 DEF Abstract!AtEnd, Abstract!Before
  <2>1. PICK s \in 1..Len(file) : \E i \in 1..Firm(s) : p = <<s, i>> BY PlacesAre
  <2>2. PICK i \in 1..Firm(s) : p = <<s, i>> BY <2>1
  <2>3. PICK r \in 1..Len(file') : \E j \in 1..Firm(r)' : q = <<r, j>> BY PlacesNext
  <2>4. PICK j \in 1..Firm(r)' : q = <<r, j>> BY <2>3
  <2>5. CASE r \in 1..Len(file)
    <3>1. ~(j \in 1..Firm(r)) BY <2>4, <2>5, PlacesAre
    <3>2. r = Len(file) BY <1>1, <2>4, <2>5, <3>1 DEF Grows
    <3>3. Firm(r) \in Nat /\ j \in Int /\ j >= 1 BY <1>3, <2>4, <2>5
    <3>4. j > Firm(r) BY <3>1, <3>3
    <3> QED BY <1>2, <2>1, <2>2, <2>4, <3>2, <3>3, <3>4
  <2>6. CASE r \notin 1..Len(file) BY <1>2, <2>1, <2>2, <2>3, <2>4, <2>6
  <2> QED BY <2>5, <2>6
<1>9. Abstract!InOrder
  <2> SUFFICES ASSUME NEW p \in Places', NEW q \in Places', p[1] < q[1] \/ (p[1] = q[1] /\ p[2] < q[2])
               PROVE  Committed'[p] < Committed'[q]
    BY <1>4 DEF Abstract!InOrder, Abstract!Before
  <2>1. PICK s \in 1..Len(file') : \E i \in 1..Firm(s)' : p = <<s, i>> BY PlacesNext
  <2>2. PICK i \in 1..Firm(s)' : p = <<s, i>> BY <2>1
  <2>3. PICK r \in 1..Len(file') : \E j \in 1..Firm(r)' : q = <<r, j>> BY PlacesNext
  <2>4. PICK j \in 1..Firm(r)' : q = <<r, j>> BY <2>3
  <2>5. i \in 1..Len(file'[s]) /\ j \in 1..Len(file'[r])
    <3>1. ASSUME NEW x \in 1..Len(file') PROVE Firm(x)' \in 0..Len(file'[x]) /\ Len(file'[x]) \in Nat
      <4>1. file'[x] \in Seq(Line) BY ElementOfSeq DEF WriterInv, TypeInv, TypeOK, DiskOK
      <4>2. x = seq' /\ Writing' => end'.lines \in 0..Len(file'[x])
        BY DEF Writing, WriterInv, TypeInv, Placed
      <4> QED BY <4>1, <4>2 DEF Firm
    <3> QED BY <2>1, <2>2, <2>3, <2>4, <3>1
  <2>6. s < r \/ (s = r /\ i < j) BY <2>2, <2>4
  <2>7. file'[s][i].id < file'[r][j].id BY <1>1, <2>1, <2>3, <2>5, <2>6 DEF OrderInv, DiskOrder
  <2> QED BY <1>6, <2>2, <2>4, <2>7
<1>10. Abstract!Acknowledged
  <2>1. acked \subseteq acked' BY AckedStays
  <2>2. ASSUME NEW a \in acked' PROVE \E p \in Places' : Committed'[p] = a
    <3>1. InFile(a)' BY DEF WriterInv, DurableInv, Accounted
    <3>2. PICK s \in 1..Len(file') : \E i \in 1..Firm(s)' : file'[s][i].id = a BY <3>1 DEF InFile
    <3>3. PICK i \in 1..Firm(s)' : file'[s][i].id = a BY <3>2
    <3>4. <<s, i>> \in Places' BY <3>2, <3>3, PlacesNext
    <3> QED BY <1>6, <3>3, <3>4
  <2> QED BY <1>4, <2>1, <2>2 DEF Abstract!Acknowledged
<1> QED BY <1>7, <1>8, <1>9, <1>10 DEF Abstract!Next

\* The archive implements EvidenceLog: through batches, failed writes and their
\* retries, failed seals, rotations, crashes and recoveries, with any number of
\* threads, the lines flush() and _resume leave behind are one log that grows
\* only at its end, holds no entry twice or out of order, and holds every entry
\* some flush() returned for, as long as ftruncate does not itself fail.
THEOREM LogImplemented ==
  ASSUME "rollback" \notin Faults
  PROVE  Spec => ImplementsEvidenceLog
<1>1. Init => WriterInv /\ OrderInv
  <2> SUFFICES ASSUME Init PROVE OrderInv BY WriterInit
  <2> QED BY DEF Init, OrderInv, DiskOrder, QueueOrder, NextIsFresh
<1>2. Init => Abstract!Init
  <2> SUFFICES ASSUME Init PROVE Abstract!Init OBVIOUS
  <2>1. file = << >> /\ acked = {} BY DEF Init
  <2>2. Places = {} BY <2>1, PlacesAre
  <2> QED BY <2>1, <2>2 DEF Abstract!Init, Committed
<1>3. WriterInv /\ OrderInv /\ [Next]_vars => (WriterInv /\ OrderInv)' /\ Abstract!Next
  BY WriterStep, OrderStep, LogStep
<1> QED BY <1>1, <1>2, <1>3, PTL DEF Spec, ImplementsEvidenceLog, Abstract!Spec

=============================================================================
