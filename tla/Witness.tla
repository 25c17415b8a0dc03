------------------------------ MODULE Witness ------------------------------
(***************************************************************************)
(* cryptovalid_witness.py: the witness that cosigns the checkpoints of a   *)
(* transparency log.  Several workers (HTTP threads, CLI processes) share  *)
(* one state file under an exclusive lock, an evidence file of the pairs   *)
(* of roots that prove a split view, and a history of what was cosigned.   *)
(* One request is: lock, load and decide (witness_cosign, _cosign_locked), *)
(* append to the evidence, append to the history, save the state, answer;  *)
(* it may fail or be killed between any two of them.                       *)
(*                                                                         *)
(* One origin: every map of the code is keyed by origin.  Requests whose   *)
(* note, signature or origin is refused before the lock touch no state and *)
(* are left out.  A root is the sequence of leaves below it, and a proof   *)
(* that is sent verifies exactly when the old root is a prefix of the new. *)
(* All requests are stamped by the clock (no explicit timestamp).          *)
(***************************************************************************)
EXTENDS Parts, SequencesExt

CONSTANTS
  Workers,      \* threads and processes that serve requests on one state file
  Leaves,       \* leaf values: two logs differ in some leaf
  MaxSize,      \* bound: largest tree
  NoteSizes,    \* {TRUE}: all notes fit _PENDING_NOTE; {TRUE, FALSE}: some are larger
  Ring,         \* _RING
  PendingKept,  \* _PENDING_BYTES, in notes
  ProofsSeen,   \* _PROOFS_SEEN
  HistoryScan,  \* _HISTORY_SCAN, in records
  Torn,         \* a kill may leave part of an appended line
  MaxRequests,  \* bound: requests
  MaxFails,     \* bound: file operations that fail
  MaxKills      \* bound: workers killed

ASSUME WitnessConstants ==
  /\ NoteSizes \subseteq BOOLEAN /\ Torn \in BOOLEAN
  /\ \A n \in {Ring, PendingKept, ProofsSeen, HistoryScan} : n \in Nat \ {0}
  /\ \A n \in {MaxSize, MaxRequests, MaxFails, MaxKills} : n \in Nat

VARIABLES
  state,      \* <state>: last cosigned checkpoint, pending roots, refusals, pairs seen
  evidence,   \* <state>.evidence.jsonl
  history,    \* <state>.cosigned.jsonl
  cut,        \* the two files may end in part of a line
  pc, job,    \* each worker's step and the request it carries out
  signed,     \* ghost: checkpoints ever presented (all are signed by the log)
  answered,   \* ghost: checkpoints whose request was answered
  cosigned,   \* ghost: checkpoints returned with a cosignature
  lost,       \* ghost: one of the declared bounds made the witness forget
  requests, fails, kills   \* used budgets

files  == <<state, evidence, history, cut>>
ghost  == <<signed, answered, cosigned, lost>>
budget == <<requests, fails, kills>>
vars   == <<files, pc, job, ghost, budget>>

Roots       == UNION {[1..n -> Leaves] : n \in 0..MaxSize}
Checkpoint  == [size : 0..MaxSize, root : Roots]
NoCp        == [size |-> -1, root |-> << >>]
BadEmpty(c) == c.size = 0 /\ c.root # << >>
Presentable == {c \in Checkpoint : c.size = Len(c.root) \/ (c.size = 0 /\ Len(c.root) = 1)}
Pair        == [size : 0..MaxSize, roots : SUBSET Roots, full : BOOLEAN]
Garbage     == [size |-> -1, roots |-> {}, full |-> FALSE]
Pending     == [cp : Checkpoint, kept : BOOLEAN]
Refusal     == [tipo : {"rollback", "unproven-extension"}, cp : Checkpoint]
State       == [prev : Checkpoint \cup {NoCp}, pending : Seq(Pending), ring : Seq(Refusal), seen : Seq(Pair)]
Request     == [cp : Presentable, old : -1..MaxSize, proof : BOOLEAN, small : NoteSizes]
Job         == [cp : Checkpoint, st : State, ev : SUBSET Pair, paired : BOOLEAN, dirty : BOOLEAN,
                new : BOOLEAN, status : {200, 400, 409, 422}, lost : BOOLEAN]

TypeOK ==
  /\ state \in State
  /\ evidence \in Seq(Pair \cup {Garbage}) /\ history \in Seq(Checkpoint \cup {NoCp})
  /\ cut \in [{"evidence", "history"} -> BOOLEAN]
  /\ pc \in [Workers -> {"idle", "record", "history", "save", "reply"}]
  /\ \A w \in Workers : pc[w] # "idle" => job[w] \in Job
  /\ signed \subseteq Checkpoint /\ answered \subseteq signed /\ cosigned \subseteq answered
  /\ lost \in BOOLEAN
  /\ requests \in 0..MaxRequests /\ fails \in 0..MaxFails /\ kills \in 0..MaxKills

NoJob == [cp |-> NoCp]

Init ==
  /\ state = [prev |-> NoCp, pending |-> << >>, ring |-> << >>, seen |-> << >>]
  /\ evidence = << >> /\ history = << >> /\ cut = [f \in {"evidence", "history"} |-> FALSE]
  /\ pc = [w \in Workers |-> "idle"] /\ job = [w \in Workers |-> NoJob]
  /\ signed = {} /\ answered = {} /\ cosigned = {} /\ lost = FALSE
  /\ requests = 0 /\ fails = 0 /\ kills = 0

-----------------------------------------------------------------------------
(* The parts of _cosign_locked: each takes the job so far and returns it     *)

Newest(s, n) == SubSeq(s, IF Len(s) > n THEN Len(s) - n + 1 ELSE 1, Len(s))
StoredSize(st) == IF st.prev = NoCp THEN 0 ELSE st.prev.size

\* The first of the indices I.
First(I) == CHOOSE i \in I : \A k \in I : i <= k

\* Mutant: the presented root itself is not left out.
Rivals_Self(s, cp) == {i \in 1..Len(s) : s[i].cp.size = cp.size}

\* Where the other roots at the same size are.
Rivals(s, cp) == {i \in 1..Len(s) : s[i].cp.size = cp.size /\ s[i].cp.root # cp.root}

\* The pair of a checkpoint and its rival; the request that records it.
PairOf(cp, rival) == [size |-> cp.size, roots |-> {rival.cp.root, cp.root}, full |-> rival.kept]
Proved(j, pair) ==
  LET seen == Append(j.st.seen, pair)
  IN  [j EXCEPT !.paired = TRUE, !.ev = {pair}, !.dirty = TRUE, !.st.seen = Newest(seen, ProofsSeen),
                !.lost = @ \/ Len(seen) > ProofsSeen]

\* _proof: the pair is recorded unless it is among the pairs remembered.
Proof(j, rival) ==
  LET pair == PairOf(j.cp, rival)
  IN  IF pair \in Items(j.st.seen) THEN [j EXCEPT !.paired = TRUE] ELSE Proved(j, pair)

\* The first rival whose note was kept, else the first.
Partner(s, rivals) ==
  LET kept == {s[i].cp : i \in {k \in rivals : s[k].kept}}
      best == {i \in rivals : kept = {} \/ s[i].cp \in kept}
  IN  [cp |-> s[First(best)].cp, kept |-> kept # {}]

\* Eviction drops, one by one, the earliest entry of the smallest pending size
\* until both bounds hold.
EvictedBefore(p, i) == {j \in 1..Len(p) : p[j].cp.size < p[i].cp.size \/ (p[j].cp.size = p[i].cp.size /\ j < i)}
AfterEvictions(p, k) == {i \in 1..Len(p) : Cardinality(EvictedBefore(p, i)) >= k}

Fits(p, I) == Cardinality(I) <= Ring /\ Cardinality({i \in I : p[i].kept}) <= PendingKept

Evict(p) ==
  LET k == CHOOSE n \in 0..Len(p) : Fits(p, AfterEvictions(p, n)) /\ \A m \in 0..n-1 : ~Fits(p, AfterEvictions(p, m))
  IN  Keep(p, AfterEvictions(p, k))

\* pend[root] = small, or its upgrade from a root without note to one with it.
Remember(p, cp, small) ==
  IF \E e \in Items(p) : e.cp = cp
    THEN [i \in 1..Len(p) |-> IF p[i].cp = cp /\ small THEN [p[i] EXCEPT !.kept = TRUE] ELSE p[i]]
    ELSE Append(p, [cp |-> cp, kept |-> small])

\* _note_future: a root beyond the stored size meets the pending ones and joins them.
NoteFuture(j, small) ==
  LET rivals == Rivals(j.st.pending, j.cp)
      met  == IF rivals = {} THEN j ELSE Proof(j, Partner(j.st.pending, rivals))
      more == Remember(j.st.pending, j.cp, small)
      kept == Evict(more)
  IN  [met EXCEPT !.st.pending = kept, !.dirty = @ \/ (kept # j.st.pending \/ kept # more),
                  !.lost = @ \/ kept # more]

\* The cosigned checkpoints _cosigned_at reads: the last part of the history
\* (a line that does not parse, NoCp, is at no size).
Scanned == Newest(history, HistoryScan)

\* _refused: a refusal without proof goes into the ring; a rollback is compared
\* with the ring, the pending roots and the cosigned history at its size.
Refused(j, tipo) ==
  LET entry == [tipo |-> tipo, cp |-> j.cp]
      ring  == IF entry \in Items(j.st.ring) THEN j.st.ring ELSE Append(j.st.ring, entry)
      noted == [j EXCEPT !.st.ring = Newest(ring, Ring), !.dirty = @ \/ ring # j.st.ring,
                         !.lost = @ \/ (Len(ring) > Ring \/ Len(history) > HistoryScan)]
      bare  == [i \in 1..Len(noted.st.ring) |-> [cp |-> noted.st.ring[i].cp, kept |-> FALSE]]
      past  == [i \in 1..Len(Scanned) |-> [cp |-> Scanned[i], kept |-> TRUE]]
      known == bare \o j.st.pending \o past
      rivals == Rivals(known, j.cp)
  IN  IF j.cp.size < StoredSize(j.st) /\ rivals # {} THEN Proof(noted, Partner(known, rivals)) ELSE noted

\* What is looked at before the old-size gate, so that no proof is lost to it.
Look(j, small) ==
  IF BadEmpty(j.cp) THEN j
  ELSE IF j.cp.size < j.st.prev.size THEN Refused(j, "rollback")
  ELSE IF j.cp.size = j.st.prev.size /\ j.cp.root # j.st.prev.root THEN Proof(j, [cp |-> j.st.prev, kept |-> TRUE])
  ELSE IF j.cp.size > StoredSize(j.st) THEN NoteFuture(j, small) ELSE j

\* Mutant: a request with a stale old size is turned away before it is looked at.
Decide_Gated(j, r) == IF r.old \notin {-1, StoredSize(j.st)} THEN j ELSE Look(j, r.small)

Decide(j, r) == Look(j, r.small)

\* verify_consistency_b64; with a smaller old tree the proof is never empty.
Extends(st, r) == r.proof /\ IsPrefix(st.prev.root, r.cp.root)

\* The answer, in the order of the rules.
Status(st, r) ==
  IF r.old > r.cp.size THEN 400
  ELSE IF r.old \notin {-1, StoredSize(st)} THEN 409
  ELSE IF BadEmpty(r.cp) THEN 422
  ELSE IF r.cp.size < st.prev.size THEN 400
  ELSE IF r.cp.size = st.prev.size /\ r.cp.root # st.prev.root THEN 422
  ELSE IF StoredSize(st) = 0 \/ r.cp.size = st.prev.size THEN IF r.proof THEN 422 ELSE 200
  ELSE IF Extends(st, r) THEN 200 ELSE 422

\* About to cosign: a pending root at this size is contradicted now (unless this
\* request already found a pair); the pending roots of this size go.
Accept(j) ==
  LET rivals == Rivals(j.st.pending, j.cp)
      met  == IF j.paired \/ rivals = {} THEN j ELSE Proof(j, j.st.pending[First(rivals)])
      rest == Keep(j.st.pending, {i \in 1..Len(j.st.pending) : j.st.pending[i].cp.size # j.cp.size})
  IN  [met EXCEPT !.st.pending = rest, !.st.prev = j.cp, !.dirty = TRUE, !.new = j.cp # j.st.prev]

\* The whole of _cosign_locked up to its writes.
Outcome(r) ==
  LET blank == [cp |-> r.cp, st |-> state, ev |-> {}, paired |-> FALSE, dirty |-> FALSE,
                new |-> FALSE, status |-> Status(state, r), lost |-> FALSE]
      j == Decide(blank, r)
      unproven == /\ j.status = 422 /\ ~BadEmpty(r.cp)
                  /\ StoredSize(state) > 0 /\ r.cp.size > state.prev.size
  IN  IF j.status = 200 THEN Accept(j)
      ELSE IF unproven THEN Refused(j, "unproven-extension") ELSE j

-----------------------------------------------------------------------------
(* The steps of a request *)

\* Mutant: the state is saved before the evidence is written.
Order_SaveFirst == <<"save", "record", "history", "reply">>

\* The order of the writes, those a request needs, and the one after a given one.
Order     == <<"record", "history", "save", "reply">>
Needs(j)  == [record |-> j.ev # {}, history |-> j.new, save |-> j.dirty, reply |-> TRUE]
Step(j, i) == Order[CHOOSE k \in i..4 : Needs(j)[Order[k]] /\ \A m \in i..k-1 : ~Needs(j)[Order[m]]]
After(j, s) == Step(j, 1 + CHOOSE i \in 1..4 : Order[i] = s)

LockFree == \A w \in Workers : pc[w] = "idle"

\* Mutant: nothing excludes two requests on one state file.
Enter_Unlocked(w, r) ==
  /\ pc[w] = "idle" /\ requests < MaxRequests
  /\ job' = [job EXCEPT ![w] = Outcome(r)]
  /\ pc' = [pc EXCEPT ![w] = Step(job'[w], 1)]
  /\ signed' = signed \cup {r.cp} /\ requests' = requests + 1
  /\ lost' = (lost \/ job'[w].lost)
  /\ UNCHANGED <<files, answered, cosigned, fails, kills>>

\* The lock is taken, the state loaded, the request decided.
Enter(w, r) ==
  /\ pc[w] = "idle" /\ LockFree /\ requests < MaxRequests
  /\ job' = [job EXCEPT ![w] = Outcome(r)]
  /\ pc' = [pc EXCEPT ![w] = Step(job'[w], 1)]
  /\ signed' = signed \cup {r.cp} /\ requests' = requests + 1
  /\ lost' = (lost \/ job'[w].lost)
  /\ UNCHANGED <<files, answered, cosigned, fails, kills>>

\* append_line of the pair; after part of a line it makes one unreadable line.
RecordEvidence(w) ==
  /\ pc[w] = "record"
  /\ \E e \in job[w].ev : evidence' = Append(evidence, IF cut["evidence"] THEN Garbage ELSE e)
  /\ cut' = [cut EXCEPT !["evidence"] = FALSE]
  /\ pc' = [pc EXCEPT ![w] = After(job[w], "record")]
  /\ UNCHANGED <<state, history, job, ghost, budget>>

\* append_line of a new cosigned checkpoint.
RecordHistory(w) ==
  /\ pc[w] = "history"
  /\ history' = Append(history, IF cut["history"] THEN NoCp ELSE job[w].cp)
  /\ cut' = [cut EXCEPT !["history"] = FALSE]
  /\ pc' = [pc EXCEPT ![w] = After(job[w], "history")]
  /\ UNCHANGED <<state, evidence, job, ghost, budget>>

\* _save_state: temporary file, fsync, rename.
SaveState(w) ==
  /\ pc[w] = "save"
  /\ state' = job[w].st
  /\ pc' = [pc EXCEPT ![w] = After(job[w], "save")]
  /\ UNCHANGED <<evidence, history, cut, job, ghost, budget>>

Leave(w) == pc' = [pc EXCEPT ![w] = "idle"] /\ job' = [job EXCEPT ![w] = NoJob]

\* Mutant: the answer goes out before the state is saved.
Reply_Early(w) ==
  /\ pc[w] \in {"save", "reply"}
  /\ answered' = answered \cup {job[w].cp}
  /\ cosigned' = IF job[w].status = 200 THEN cosigned \cup {job[w].cp} ELSE cosigned
  /\ IF pc[w] = "reply" THEN Leave(w) ELSE UNCHANGED <<pc, job>>
  /\ UNCHANGED <<files, signed, lost, budget>>

\* The lock is released and the answer sent.
Reply(w) ==
  /\ pc[w] = "reply"
  /\ answered' = answered \cup {job[w].cp}
  /\ cosigned' = IF job[w].status = 200 THEN cosigned \cup {job[w].cp} ELSE cosigned
  /\ Leave(w)
  /\ UNCHANGED <<files, signed, lost, budget>>

\* A write fails and is undone (append_line truncates back, write_output drops
\* its temporary file): the exception is a 500.
WriteFails(w) ==
  /\ pc[w] \in {"record", "history", "save"} /\ fails < MaxFails
  /\ fails' = fails + 1 /\ Leave(w)
  /\ UNCHANGED <<files, ghost, requests, kills>>

\* The worker is killed; flock goes with it.  In append_line it may leave part
\* of the line.
Kill(w) ==
  /\ pc[w] # "idle" /\ kills < MaxKills
  /\ kills' = kills + 1 /\ Leave(w)
  /\ \/ UNCHANGED cut
     \/ Torn /\ pc[w] = "record" /\ cut' = [cut EXCEPT !["evidence"] = TRUE]
     \/ Torn /\ pc[w] = "history" /\ cut' = [cut EXCEPT !["history"] = TRUE]
  /\ UNCHANGED <<state, evidence, history, ghost, requests, fails>>

Next ==
  \E w \in Workers :
    \/ \E r \in Request : Enter(w, r)
    \/ RecordEvidence(w) \/ RecordHistory(w) \/ SaveState(w) \/ Reply(w)
    \/ WriteFails(w) \/ Kill(w)

Spec == Init /\ [][Next]_vars

-----------------------------------------------------------------------------
(* Properties *)

\* "persisted BEFORE the response": every checkpoint ever returned with a
\* cosignature is a prefix of the one the state file holds, through failures and
\* kills.  So all views this witness signed are one growing tree.
CosignedPersisted ==
  \A c \in cosigned : state.prev # NoCp /\ IsPrefix(c.root, state.prev.root)

\* The stored checkpoint is only ever replaced by an extension of it, however
\* many workers serve requests.
StoredGrows ==
  [][state.prev # NoCp => IsPrefix(state.prev.root, state'.prev.root)]_vars

\* No line was fused with the part of a line that a kill left.
Intact == Garbage \notin Items(evidence) /\ NoCp \notin Items(history)

\* Two different roots of one size, neither of a malformed empty tree.
Split(a, b) == a.size = b.size /\ a.root # b.root /\ ~BadEmpty(a) /\ ~BadEmpty(b)

\* "no proof must be lost": while the declared bounds forget nothing and no line
\* is fused with a cut one, the evidence file has a proof at every size at which
\* two clients were answered about different roots, whichever came first, whatever
\* the old size of the requests, whether the size was stored, passed, pending or
\* refused in between, and whatever failed or was killed.
SplitViewRecorded ==
  ~lost /\ Intact => \A a, b \in answered : Split(a, b) => \E e \in Items(evidence) : e.size = a.size

\* One pair per request is enough: as long as no write fails and no worker is
\* killed, each of those roots is in some pair.  (A save that fails leaves its
\* checkpoint in the history, where it may be the one a later root is paired with.)
EachRootRecorded ==
  fails = 0 /\ kills = 0 /\ ~lost => \A a, b \in answered :
    Split(a, b) => \E e \in Items(evidence) : e.size = a.size /\ a.root \in e.roots

\* A record accuses the log of nothing it did not do: two different roots of one
\* size, both presented with its signature.
EvidenceGenuine ==
  \A e \in Items(evidence) : e # Garbage =>
    Cardinality(e.roots) = 2 /\ \A q \in e.roots : [size |-> e.size, root |-> q] \in signed

\* "written ONCE per pair": a replay of the log's history, in any order, does not
\* grow the evidence file (as long as no write fails and no worker is killed).
EvidenceOnce ==
  fails = 0 /\ kills = 0 /\ ~lost =>
    \A i, j \in 1..Len(evidence) : evidence[i] = evidence[j] => i = j

\* _proof, _refused and _note_future: the evidence file accuses the log of what
\* it did and only of that, and a replay does not make it grow.
EvidenceSound == EvidenceGenuine /\ EvidenceOnce

\* The state stays within its bounds whatever clients present.
StateBounded ==
  /\ Len(state.pending) <= Ring /\ Len(state.ring) <= Ring /\ Len(state.seen) <= ProofsSeen
  /\ Cardinality({i \in 1..Len(state.pending) : state.pending[i].kept}) <= PendingKept

=============================================================================
