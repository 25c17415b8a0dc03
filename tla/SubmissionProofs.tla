-------------------------- MODULE SubmissionProofs --------------------------
(***************************************************************************)
(* Proofs about submitting to any number of witnesses from any number of   *)
(* clients: an honest log is never accused, and a relying party that       *)
(* accepts a note has the view its policy asks for.                        *)
(***************************************************************************)
EXTENDS Submission, PartsProofs

-----------------------------------------------------------------------------
(* Types *)

Keys  == {LogKey} \cup WitnessKeys
Lines == [key : Keys, ts : Nat, by : Keys, of : Nat, at : Nat]
Notes == [form : BOOLEAN, text : Nat, lines : SUBSET Lines]
Calls == [pc : {"idle", "first", "second", "late"}, w : Witnesses \cup {"none"}, note : Notes, old : Nat]

\* The values the variables take.
SubmissionType ==
  /\ size \in Nat /\ time \in Nat \ {0}
  /\ stored \in [Witnesses -> Nat \cup {-1}]
  /\ job \in [Clients -> Calls] /\ late \subseteq {j \in Calls : j.pc = "late"}
  /\ out \in Notes
  /\ cosigs \subseteq [w : Witnesses, size : Nat, at : Nat]
  /\ faults \in Nat

-----------------------------------------------------------------------------
(* What notes and cosignatures rest on *)

\* A cosigner's line on a note of n entries was made by that witness, no later
\* (on its clock) than when it last cosigned that size.
Recorded(l, n) ==
  /\ l.key \in WitnessKeys /\ l.ts \in Nat /\ l.ts >= 1
  /\ l = SignedLine(l.key, n, l.ts)
  /\ \E g \in cosigs : g.w = l.key[1] /\ g.size = n /\ l.ts <= g.at + Ahead[g.w]

\* A note of the log: its line, and lines that cosigners made.
Genuine(note) ==
  /\ note.form
  /\ SignedLine(LogKey, note.text, 0) \in note.lines
  /\ \A l \in note.lines : l = SignedLine(LogKey, note.text, 0) \/ Recorded(l, note.text)

\* The requests under way: of genuine notes, with an old size the note reaches.
UnderWay(j) == j.pc # "idle" => j.w \in Witnesses /\ Genuine(j.note) /\ j.old <= j.note.text

Pending == late \cup {job[c] : c \in Clients}

\* A witness cosigns nothing smaller than what it cosigned before.
Ascending ==
  \A g \in cosigs :
    /\ g.at <= time /\ g.size <= stored[g.w]
    /\ \A h \in cosigs : h.w = g.w /\ h.size > g.size => h.at >= g.at

\* The inductive invariant.
SubmissionInv ==
  /\ SubmissionType
  /\ \A j \in Pending : UnderWay(j)
  /\ out.form => Genuine(out)
  /\ Ascending

-----------------------------------------------------------------------------
(* The steps *)

\* The log's key is no witness's, and a key with a witness's name is a cosigner's.
LEMMA KeyFacts ==
  /\ LogKey \notin WitnessKeys /\ LogKey \in Keys /\ WitnessKeys \subseteq Keys
  /\ \A k \in WitnessKeys : k[1] \in Witnesses /\ k[2] \in CosignerTypes /\ k[1] # "eve"
  /\ \A w \in Witnesses : \A k \in KeysOf(w) : k \in WitnessKeys /\ k[1] = w
<1>1. ASSUME NEW w \in Witnesses, NEW k \in KeysOf(w)
      PROVE  k[1] = w /\ k[2] \in CosignerTypes /\ k \in WitnessKeys
  <2>1. k = <<w, "cosig">> \/ k = <<w, "mldsa44">> BY <1>1 DEF KeysOf
  <2> QED BY <1>1, <2>1 DEF WitnessKeys, CosignerTypes
<1>2. ASSUME NEW k \in WitnessKeys PROVE \E w \in Witnesses : k \in KeysOf(w)
  BY <1>2 DEF WitnessKeys
<1>3. LogKey[2] \notin CosignerTypes BY DEF LogKey, CosignerTypes
<1> QED BY <1>1, <1>2, <1>3, SubmissionConstants DEF Keys

\* The larger of a stored size and 0.
LEMMA MaxStored ==
  ASSUME NEW x \in Nat \cup {-1}
  PROVE  Max({x, 0}) = IF x = -1 THEN 0 ELSE x
BY DEF Max

\* What SignNote and CosignLines sign is a line.
LEMMA LineType ==
  ASSUME NEW k \in Keys, NEW n \in Nat, NEW ts \in Nat
  PROVE  /\ SignedLine(k, n, ts) \in Lines
         /\ SignedLine(k, n, ts).key = k /\ SignedLine(k, n, ts).ts = ts
BY DEF SignedLine, Line, Lines

\* A checkpoint of the ledger is a genuine note.
LEMMA CheckpointGenuine ==
  ASSUME NEW n \in Nat
  PROVE  Checkpoint(n) \in Notes /\ Checkpoint(n).text = n /\ Genuine(Checkpoint(n)) /\ Genuine(Checkpoint(n))'
BY KeyFacts, LineType DEF Checkpoint, SignNote, Notes, Genuine

\* verify_note on a genuine note with the log's key alone.
LEMMA GenuineVerifies ==
  ASSUME NEW note \in Notes, Genuine(note)
  PROVE  VerifyNote(note, {LogKey}, TRUE) = "OK"
<1> DEFINE own == SignedLine(LogKey, note.text, 0)
           matched == {l \in note.lines : l.key \in {LogKey} /\ l.key[2] \in SupportedTypes}
<1>1. own.key = LogKey /\ LineHolds(own, note.text)
  BY DEF SignedLine, Line, LineHolds, LogKey, CosignerTypes
<1>2. LogKey[2] \in SupportedTypes BY DEF LogKey, SupportedTypes, LogTypes
<1>3. own \in matched BY <1>1, <1>2 DEF Genuine
<1>4. \A l \in matched : l = own BY KeyFacts DEF Genuine, Recorded
<1>5. matched = {l \in matched : l.key[2] = "mldsa44" => TRUE} OBVIOUS
<1> QED BY <1>1, <1>3, <1>4, <1>5 DEF VerifyNote, Genuine

\* A request under way is answered 200 or, when another client was faster, 409.
LEMMA Answered ==
  ASSUME SubmissionType, NEW j \in Calls, j.pc # "idle", UnderWay(j)
  PROVE  /\ StatusOf(j) \in {200, 409}
         /\ StatusOf(j) = 200 => stored[j.w] <= j.note.text
<1>1. VerifyNote(j.note, {LogKey}, TRUE) = "OK" BY GenuineVerifies DEF UnderWay, Calls
<1>2. j.w \in Witnesses /\ j.old \in Nat /\ j.note.text \in Nat /\ j.old <= j.note.text
  BY DEF UnderWay, Calls, Notes
<1>3. PICK s \in Nat \cup {-1} : s = stored[j.w] BY <1>2 DEF SubmissionType
<1>4. PICK m : m = Max({s, 0}) OBVIOUS
<1>5. m = IF s = -1 THEN 0 ELSE s BY <1>4, MaxStored
<1>6. StatusOf(j) = IF j.old # m THEN 409
                    ELSE IF s \in {-1, 0, j.note.text} /\ HasProof(j) THEN 422
                    ELSE IF s \notin {-1, 0, j.note.text} /\ ~HasProof(j) THEN 422
                    ELSE 200
  BY <1>1, <1>2, <1>3, <1>4 DEF StatusOf
<1>7. HasProof(j) <=> 0 < j.old /\ j.old < j.note.text BY DEF HasProof
<1> QED BY <1>2, <1>3, <1>5, <1>6, <1>7

\* What a request leaves on the witness: nothing that was recorded is lost, and
\* the sizes cosigned stay in order.
LEMMA Processed ==
  ASSUME SubmissionType, Ascending, NEW j \in Calls, j.pc # "idle", UnderWay(j), Process(j), time' = time
  PROVE  /\ stored' \in [Witnesses -> Nat \cup {-1}]
         /\ cosigs' \subseteq [w : Witnesses, size : Nat, at : Nat]
         /\ Ascending'
         /\ \A l, n : Recorded(l, n) => Recorded(l, n)'
         /\ StatusOf(j) = 200 => [w |-> j.w, size |-> j.note.text, at |-> time] \in cosigs'
<1>1. CASE StatusOf(j) # 200
  BY <1>1 DEF Process, SubmissionType, Ascending, Recorded
<1>2. CASE StatusOf(j) = 200
  <2> DEFINE new == [w |-> j.w, size |-> j.note.text, at |-> time]
  <2>1. /\ j.w \in Witnesses /\ j.note.text \in Nat /\ stored[j.w] <= j.note.text
        /\ time \in Nat
    BY <1>2, Answered DEF UnderWay, Calls, Notes, SubmissionType
  <2>2. /\ stored' = [stored EXCEPT ![j.w] = j.note.text]
        /\ cosigs' = {g \in cosigs : g.w # j.w \/ g.size # j.note.text} \cup {new}
    BY <1>2 DEF Process, Renewed
  <2>3. stored' \in [Witnesses -> Nat \cup {-1}] BY <2>1, <2>2 DEF SubmissionType
  <2>4. new \in [w : Witnesses, size : Nat, at : Nat] BY <2>1
  <2>5. cosigs' \subseteq [w : Witnesses, size : Nat, at : Nat] BY <2>2, <2>4 DEF SubmissionType
  <2>6. new.w = j.w /\ new.size = j.note.text /\ new.at = time OBVIOUS
  <2> HIDE DEF new
  <2>7. \A g \in cosigs : g.at \in Nat /\ g.size \in Nat /\ g.w \in Witnesses /\ stored[g.w] \in Nat \cup {-1}
    BY DEF SubmissionType
  <2>8. ASSUME NEW g \in cosigs'
        PROVE  /\ g.at <= time' /\ g.size <= stored'[g.w]
               /\ \A h \in cosigs' : h.w = g.w /\ h.size > g.size => h.at >= g.at
    <3>1. CASE g = new
      <4>1. g.at <= time' /\ g.size <= stored'[g.w] BY <2>1, <2>2, <2>6, <3>1 DEF SubmissionType
      <4>2. ASSUME NEW h \in cosigs', h.w = g.w, h.size > g.size PROVE h.at >= g.at
        <5>1. CASE h = new BY <2>6, <2>1, <3>1, <4>2, <5>1
        <5>2. CASE h # new
          <6>1. h \in cosigs /\ h.size <= stored[j.w] BY <2>2, <2>6, <3>1, <4>2, <5>2 DEF Ascending
          <6>2. h.size \in Nat /\ stored[j.w] \in Nat \cup {-1} BY <6>1, <2>7, <2>1 DEF SubmissionType
          <6> QED BY <6>1, <6>2, <2>1, <2>6, <3>1, <4>2
        <5> QED BY <5>1, <5>2
      <4> QED BY <4>1, <4>2
    <3>2. CASE g # new
      <4>1. g \in cosigs /\ g.at \in Nat /\ g.size \in Nat /\ g.w \in Witnesses BY <2>2, <2>7, <3>2
      <4>2. g.at <= time /\ g.size <= stored[g.w] BY <4>1 DEF Ascending
      <4>3. stored[g.w] <= stored'[g.w]
        BY <2>1, <2>2, <2>7, <4>1 DEF SubmissionType
      <4>4. stored'[g.w] \in Nat \cup {-1} /\ stored[g.w] \in Nat \cup {-1} BY <2>3, <4>1 DEF SubmissionType
      <4>5. g.size <= stored'[g.w] BY <4>1, <4>2, <4>3, <4>4
      <4>6. ASSUME NEW h \in cosigs', h.w = g.w, h.size > g.size PROVE h.at >= g.at
        <5>1. CASE h = new BY <2>1, <2>6, <4>1, <4>2, <5>1
        <5>2. CASE h # new
          <6>1. h \in cosigs BY <2>2, <5>2
          <6> QED BY <6>1, <4>1, <4>6 DEF Ascending
        <5> QED BY <5>1, <5>2
      <4> QED BY <4>2, <4>5, <4>6
    <3> QED BY <3>1, <3>2
  <2>9. Ascending' BY <2>8 DEF Ascending
  <2>10. ASSUME NEW l, NEW n, Recorded(l, n) PROVE Recorded(l, n)'
    <3>1. PICK g \in cosigs : g.w = l.key[1] /\ g.size = n /\ l.ts <= g.at + Ahead[g.w]
      BY <2>10 DEF Recorded
    <3>2. CASE g \in cosigs' BY <2>10, <3>1, <3>2 DEF Recorded
    <3>3. CASE g \notin cosigs'
      <4>1. g.w = new.w /\ g.size = new.size /\ new \in cosigs' BY <2>2, <2>6, <3>3
      <4>2. g.at <= new.at /\ g.at \in Nat /\ new.at \in Nat BY <2>1, <2>6, <2>7 DEF Ascending
      <4>3. Ahead[g.w] \in Nat BY <2>7, SubmissionConstants
      <4>4. l.ts \in Nat /\ l.ts <= new.at + Ahead[new.w]
        BY <2>10, <3>1, <4>1, <4>2, <4>3 DEF Recorded
      <4> QED BY <2>10, <3>1, <4>1, <4>4 DEF Recorded
    <3> QED BY <3>2, <3>3
  <2> QED BY <2>2, <2>3, <2>5, <2>9, <2>10 DEF new
<1> QED BY <1>1, <1>2

\* The lines of an answer are lines of the witness's keys, and it has recorded them.
LEMMA AnswerRecorded ==
  ASSUME SubmissionType, Ascending, NEW j \in Calls, j.pc # "idle", UnderWay(j), Process(j),
         time' = time, StatusOf(j) = 200, NEW l \in Answer(j)
  PROVE  l \in Lines /\ l.key \in WitnessKeys /\ Recorded(l, j.note.text)'
<1>1. j.w \in Witnesses /\ j.note.text \in Nat /\ time \in Nat /\ Ahead[j.w] \in Nat
  BY SubmissionConstants DEF UnderWay, Calls, Notes, SubmissionType
<1>2. PICK k \in KeysOf(j.w) : l = SignedLine(k, j.note.text, time + Ahead[j.w]) /\ time + Ahead[j.w] >= 1
  BY DEF Answer, CosignLines
<1>3. k \in WitnessKeys /\ k \in Keys /\ k[1] = j.w BY <1>1, <1>2, KeyFacts
<1>4. PICK ts \in Nat : ts = time + Ahead[j.w] BY <1>1
<1>5. l \in Lines /\ l.key = k /\ l.ts = ts BY <1>1, <1>2, <1>3, <1>4, LineType
<1> DEFINE new == [w |-> j.w, size |-> j.note.text, at |-> time]
<1>6. new \in cosigs' BY Processed
<1>7. new.w = l.key[1] /\ new.size = j.note.text /\ l.ts <= new.at + Ahead[new.w]
  BY <1>1, <1>3, <1>4, <1>5
<1> HIDE DEF new
<1> QED BY <1>2, <1>3, <1>4, <1>5, <1>6, <1>7 DEF Recorded

\* The note that the client makes of a genuine one and of lines that were recorded.
LEMMA CosignedGenuine ==
  ASSUME NEW note \in Notes, Genuine(note)', NEW body, body \in SUBSET Lines,
         \A l \in body : l.key \in WitnessKeys /\ Recorded(l, note.text)'
  PROVE  Cosigned(note, body) \in Notes /\ Genuine(Cosigned(note, body))'
<1> DEFINE made == Cosigned(note, body)
<1>1. /\ made.form = note.form /\ made.text = note.text
      /\ made.lines = body \cup {l \in note.lines : l.key \notin {k.key : k \in body}}
      /\ made \in Notes
  BY DEF Cosigned, Notes
<1>2. SignedLine(LogKey, note.text, 0).key = LogKey BY LineType, KeyFacts DEF Notes
<1>3. SignedLine(LogKey, note.text, 0) \in made.lines
  BY <1>1, <1>2, KeyFacts DEF Genuine
<1> HIDE DEF made
<1>4. \A l \in made.lines : l = SignedLine(LogKey, made.text, 0) \/ Recorded(l, made.text)'
  BY <1>1 DEF Genuine
<1> QED BY <1>1, <1>3, <1>4 DEF Genuine, made

\* The client does not take lines that were not made with a witness's key.
LEMMA JunkRefused ==
  ASSUME NEW note \in Notes, NEW k, NEW n, NEW ts,
         Accepts(note, {Line(k, ts, <<"eve", "cosig">>, n, ts)})
  PROVE  FALSE
<1> DEFINE l == Line(k, ts, <<"eve", "cosig">>, n, ts)
           made == Cosigned(note, {l})
           usable == {q \in WitnessKeys : q[2] \in CosignerTypes}
           matched == {q \in made.lines : q.key \in {LogKey} \cup usable /\ q.key[2] \in SupportedTypes}
           checkable == {q \in matched : q.key[2] = "mldsa44" => TRUE}
<1>1. l.key = k /\ l.by = <<"eve", "cosig">> BY DEF Line
<1> HIDE DEF l
<1>2. k \in WitnessKeys /\ VerifyWitnessed(made, Client, time) = "OK" BY <1>1 DEF Accepts, l
<1>3. k \in usable /\ k[2] \in SupportedTypes BY <1>2, KeyFacts DEF SupportedTypes
<1>4. l \in made.lines BY <1>1, <1>2 DEF Cosigned, Notes
<1>5. l \in checkable BY <1>1, <1>3, <1>4
<1>6. VerifyNote(made, {LogKey} \cup usable, TRUE) = "OK"
  BY <1>2 DEF VerifyWitnessed, Client
<1>7. ~(\E q \in checkable : ~LineHolds(q, made.text)) BY <1>6 DEF VerifyNote
<1>8. l.by = l.key BY <1>5, <1>7 DEF LineHolds
<1> QED BY <1>1, <1>2, <1>8, KeyFacts

\* The start of the system.
LEMMA SubmissionInitially == Init => SubmissionInv
BY SubmissionConstants
   DEF Init, SubmissionInv, SubmissionType, Pending, UnderWay, Ascending, Idle, NoNote, Calls, Notes

\* The invariant in terms of the calls, for steps that leave the witnesses alone.
LEMMA SameRecords ==
  ASSUME cosigs' = cosigs
  PROVE  /\ \A note : Genuine(note) => Genuine(note)'
         /\ \A j : UnderWay(j) => UnderWay(j)'
BY DEF Genuine, Recorded, UnderWay

\* The invariant of the requests, from that of the one that a step changes.
LEMMA PendingStep ==
  ASSUME SubmissionInv, \A j \in Pending : UnderWay(j)',
         NEW c \in Clients, NEW k, UnderWay(k)', job' = [job EXCEPT ![c] = k], late' = late
  PROVE  \A j \in Pending' : UnderWay(j)'
<1>1. job \in [Clients -> Calls] BY DEF SubmissionInv, SubmissionType
<1>2. \A d \in Clients : job'[d] = IF d = c THEN k ELSE job[d] BY <1>1
<1> QED BY <1>2 DEF Pending

\* A call that is over is no request.
LEMMA IdleCall ==
  /\ Idle \in Calls /\ UnderWay(Idle)'
  /\ \A c \in Clients : SubmissionType /\ Fails(c) => job' \in [Clients -> Calls] /\ out' = out
<1>1. Idle.pc = "idle" /\ Idle \in Calls BY DEF Idle, NoNote, Calls, Notes
<1> QED BY <1>1 DEF UnderWay, Fails, SubmissionType

\* What the client does with the lines of an answer that were recorded.
LEMMA ReceivedStep ==
  ASSUME SubmissionInv, NEW c \in Clients, NEW body \in SUBSET Lines, Received(c, body),
         NEW note, note = job[c].note, Genuine(note), \A m : Genuine(m) => Genuine(m)',
         \A l \in body : l.key \in WitnessKeys /\ Recorded(l, note.text)'
  PROVE  /\ job' = [job EXCEPT ![c] = Idle]
         /\ out' \in Notes /\ (out.form => Genuine(out))'
<1>1. job[c].note \in Notes /\ out \in Notes BY DEF SubmissionInv, SubmissionType, Calls
<1>2. CASE Accepts(job[c].note, body)
  <2>2. Genuine(note)' OBVIOUS
  <2>3. PICK made : made = Cosigned(note, body) OBVIOUS
  <2>5. Cosigned(note, body) \in Notes /\ Genuine(Cosigned(note, body))' BY <1>1, <2>2, CosignedGenuine
  <2>6. made \in Notes /\ Genuine(made)' BY <2>3, <2>5
  <2>7. out' = made /\ job' = [job EXCEPT ![c] = Idle] BY <1>2, <2>3 DEF Received
  <2> QED BY <2>6, <2>7 DEF Genuine, Recorded
<1>3. CASE ~Accepts(job[c].note, body)
  <2>1. out' = out /\ job' = [job EXCEPT ![c] = Idle] BY <1>3 DEF Received, Fails
  <2>2. PICK old : old = out OBVIOUS
  <2>3. old.form => Genuine(old)' BY <2>2 DEF SubmissionInv
  <2> QED BY <1>1, <2>1, <2>2, <2>3 DEF Genuine, Recorded
<1> QED BY <1>2, <1>3

\* Every step keeps the invariant.
LEMMA SubmissionStep == SubmissionInv /\ [Next]_vars => SubmissionInv'
<1> SUFFICES ASSUME SubmissionInv, [Next]_vars PROVE SubmissionInv'
  OBVIOUS
<1>t. SubmissionType /\ Ascending /\ (out.form => Genuine(out)) /\ \A j \in Pending : UnderWay(j)
  BY DEF SubmissionInv
<1>c. \A c \in Clients : job[c] \in Calls /\ UnderWay(job[c]) BY <1>t DEF SubmissionType, Pending
<1>i. Idle \in Calls /\ UnderWay(Idle)' BY IdleCall
<1>1. ASSUME Tick PROVE SubmissionInv'
  <2>1. SubmissionType' BY <1>1, <1>t, SubmissionConstants DEF Tick, SubmissionType
  <2>2. Ascending' BY <1>1, <1>t DEF Tick, SubmissionType, Ascending
  <2>3. cosigs' = cosigs /\ Pending' = Pending /\ out' = out BY <1>1 DEF Tick, Pending
  <2> QED BY <1>t, <2>1, <2>2, <2>3, SameRecords DEF SubmissionInv, Genuine, Recorded
<1>2. ASSUME NEW c \in Clients, NEW w \in Witnesses, NEW note \in Notes, Ask(c, w, note), Genuine(note)
      PROVE  SubmissionInv'
  <2> DEFINE k == [pc |-> "first", w |-> w, note |-> note, old |-> 0]
  <2>1. cosigs' = cosigs /\ job' = [job EXCEPT ![c] = k] /\ late' = late /\ out' = out BY <1>2 DEF Ask
  <2>2. k \in Calls BY DEF Calls
  <2>3. UnderWay(k) BY <1>2 DEF UnderWay, Notes
  <2> HIDE DEF k
  <2>4. \A j \in Pending' : UnderWay(j)' BY <1>t, <2>1, <2>3, PendingStep, SameRecords
  <2>5. SubmissionType' BY <1>2, <1>t, <2>1, <2>2 DEF Ask, SubmissionType
  <2>6. Ascending' BY <1>2, <1>t DEF Ask, Ascending
  <2>8. (out.form => Genuine(out))' BY <1>t, <2>1 DEF Genuine, Recorded
  <2> QED BY <2>4, <2>5, <2>6, <2>8 DEF SubmissionInv
<1>3. ASSUME NEW c \in Clients, NEW w \in Witnesses, Submit(c, w) PROVE SubmissionInv'
  BY <1>2, <1>3, <1>t, CheckpointGenuine DEF Submit, SubmissionType
<1>4. ASSUME NEW c \in Clients, NEW w \in Witnesses, Resubmit(c, w) PROVE SubmissionInv'
  BY <1>2, <1>4, <1>t DEF Resubmit, SubmissionType
<1>5. ASSUME NEW j \in Calls, j.pc # "idle", UnderWay(j), Process(j), time' = time
      PROVE  /\ stored' \in [Witnesses -> Nat \cup {-1}]
             /\ cosigs' \subseteq [w : Witnesses, size : Nat, at : Nat]
             /\ Ascending'
             /\ \A note : Genuine(note) => Genuine(note)'
             /\ \A i : UnderWay(i) => UnderWay(i)'
  <2>1. \A l, n : Recorded(l, n) => Recorded(l, n)' BY <1>5, <1>t, Processed
  <2>2. \A note : Genuine(note) => Genuine(note)' BY <2>1 DEF Genuine
  <2>3. \A i : UnderWay(i) => UnderWay(i)' BY <2>2 DEF UnderWay
  <2>4. /\ stored' \in [Witnesses -> Nat \cup {-1}]
        /\ cosigs' \subseteq [w : Witnesses, size : Nat, at : Nat]
        /\ Ascending'
    BY <1>5, <1>t, Processed
  <2> QED BY <2>2, <2>3, <2>4
<1>6. ASSUME NEW c \in Clients, Serve(c) PROVE SubmissionInv'
  <2>0. PICK j : j = job[c] OBVIOUS
  <2>1. j \in Calls /\ j.pc # "idle" /\ UnderWay(j) /\ Process(j) /\ time' = time BY <1>6, <1>c, <2>0 DEF Serve
  <2>2. /\ stored' \in [Witnesses -> Nat \cup {-1}]
        /\ cosigs' \subseteq [w : Witnesses, size : Nat, at : Nat]
        /\ Ascending'
        /\ \A note : Genuine(note) => Genuine(note)'
        /\ \A i : UnderWay(i) => UnderWay(i)'
    BY <1>5, <2>1
  <2>3. /\ \A i \in Pending : UnderWay(i)'
        /\ Genuine(j.note)
        /\ size' = size /\ late' = late /\ faults' = faults
    BY <1>6, <1>t, <2>1, <2>2 DEF UnderWay, Serve
  <2>3a. out' = out => out' \in Notes /\ (out.form => Genuine(out))'
    <3>1. PICK note : note = out OBVIOUS
    <3>2. note.form => Genuine(note)' BY <1>t, <2>2, <3>1
    <3> QED BY <1>t, <3>1, <3>2 DEF SubmissionType, Genuine, Recorded
  <2>4. ASSUME NEW k \in Calls, UnderWay(k)', job' = [job EXCEPT ![c] = k],
               out' \in Notes, (out.form => Genuine(out))'
        PROVE  SubmissionInv'
    <3>1. \A i \in Pending' : UnderWay(i)' BY <2>3, <2>4, PendingStep
    <3>2. SubmissionType' BY <1>t, <2>1, <2>2, <2>3, <2>4 DEF SubmissionType
    <3> QED BY <2>2, <2>4, <3>1, <3>2 DEF SubmissionInv
  <2>5. CASE StatusOf(j) = 200
    <3>1. Answer(j) \in SUBSET Lines /\ \A l \in Answer(j) : l.key \in WitnessKeys /\ Recorded(l, j.note.text)'
      BY <1>t, <2>1, <2>5, AnswerRecorded
    <3>2. Received(c, Answer(j)) BY <1>6, <2>0, <2>5 DEF Serve
    <3>3. job' = [job EXCEPT ![c] = Idle] /\ out' \in Notes /\ (out.form => Genuine(out))'
      BY <2>0, <2>2, <2>3, <3>1, <3>2, ReceivedStep
    <3> QED BY <1>i, <2>4, <3>3
  <2>6. CASE StatusOf(j) = 409 /\ AsksAgain(j)
    <3>1. job' = [job EXCEPT ![c] = Resend(j)] /\ out' = out BY <1>6, <2>0, <2>6 DEF Serve
    <3>2. j.w \in Witnesses /\ stored[j.w] \in Nat /\ stored[j.w] <= j.note.text
      BY <1>t, <2>1, <2>6 DEF AsksAgain, UnderWay, SubmissionType
    <3>3. Resend(j) \in Calls BY <2>1, <3>2 DEF Resend, Calls
    <3>4. Resend(j).w = j.w /\ Resend(j).note = j.note /\ Resend(j).old = stored[j.w]
      BY <2>1 DEF Resend, Calls
    <3>5. UnderWay(Resend(j)) BY <2>1, <3>2, <3>4 DEF UnderWay
    <3>5a. PICK k : k = Resend(j) OBVIOUS
    <3>6. UnderWay(k)' BY <2>2, <3>5, <3>5a
    <3>7. out' \in Notes /\ (out.form => Genuine(out))' BY <2>3a, <3>1
    <3> QED BY <2>4, <3>1, <3>3, <3>5a, <3>6, <3>7
  <2>7. CASE StatusOf(j) # 200 /\ ~(StatusOf(j) = 409 /\ AsksAgain(j))
    <3>1. job' = [job EXCEPT ![c] = Idle] /\ out' = out BY <1>6, <2>0, <2>7 DEF Serve, Fails
    <3>2. out' \in Notes /\ (out.form => Genuine(out))' BY <2>3a, <3>1
    <3> QED BY <1>i, <2>4, <3>1, <3>2
  <2> QED BY <2>5, <2>6, <2>7
<1>7. ASSUME NEW c \in Clients, AnswerLost(c) PROVE SubmissionInv'
  <2>1. /\ job[c] \in Calls /\ job[c].pc # "idle" /\ UnderWay(job[c]) /\ Process(job[c]) /\ time' = time
        /\ job' = [job EXCEPT ![c] = Idle] /\ out' = out /\ size' = size /\ late' = late
        /\ faults' = faults + 1
    BY <1>7, <1>c DEF AnswerLost, Fails, Fault
  <2>2. /\ stored' \in [Witnesses -> Nat \cup {-1}]
        /\ cosigs' \subseteq [w : Witnesses, size : Nat, at : Nat]
        /\ Ascending'
        /\ \A note : Genuine(note) => Genuine(note)'
        /\ \A i : UnderWay(i) => UnderWay(i)'
    BY <1>5, <2>1
  <2>3. \A i \in Pending : UnderWay(i)' BY <1>t, <2>2
  <2>4. \A i \in Pending' : UnderWay(i)' BY <1>i, <2>1, <2>3, PendingStep
  <2>5. SubmissionType' BY <1>t, <1>i, <2>1, <2>2 DEF SubmissionType
  <2>6. (out.form => Genuine(out))' BY <1>t, <2>1, <2>2 DEF Genuine, Recorded
  <2> QED BY <2>2, <2>4, <2>5, <2>6 DEF SubmissionInv
<1>8. ASSUME NEW c \in Clients, Timeout(c) PROVE SubmissionInv'
  <2> DEFINE k == [job[c] EXCEPT !.pc = "late", !.note = Checkpoint(@.text)]
  <2>1. /\ job[c] \in Calls /\ job[c].pc # "idle" /\ UnderWay(job[c])
        /\ job' = [job EXCEPT ![c] = Idle] /\ out' = out /\ size' = size /\ faults' = faults + 1
        /\ time' = time /\ stored' = stored /\ cosigs' = cosigs
        /\ late' \subseteq late \cup {k}
    BY <1>8, <1>c DEF Timeout, Fails, Fault
  <2>2. job[c].note.text \in Nat BY <2>1 DEF Calls, Notes
  <2>3. /\ k \in Calls /\ k.w = job[c].w /\ k.old = job[c].old
        /\ k.note = Checkpoint(job[c].note.text)
    BY <2>1, <2>2, CheckpointGenuine DEF Calls
  <2>3a. k \in Calls /\ k.pc = "late" BY <2>1, <2>2, <2>3 DEF Calls
  <2>4. UnderWay(k)
    BY <2>1, <2>2, <2>3, CheckpointGenuine DEF UnderWay
  <2> HIDE DEF k
  <2>5. \A d \in Clients : job'[d] = IF d = c THEN Idle ELSE job[d] BY <1>t, <2>1 DEF SubmissionType
  <2>6. \A i \in Pending' : i \in Pending \cup {k, Idle} BY <2>1, <2>5 DEF Pending
  <2>7. \A i \in Pending' : UnderWay(i)' BY <1>t, <1>i, <2>1, <2>4, <2>6, SameRecords
  <2>8. SubmissionType' BY <1>t, <1>i, <2>1, <2>3a DEF SubmissionType
  <2>9. (out.form => Genuine(out))' BY <1>t, <2>1 DEF Genuine, Recorded
  <2> QED BY <1>t, <2>1, <2>7, <2>8, <2>9 DEF SubmissionInv, Ascending
<1>9. ASSUME NEW c \in Clients, Junk(c) PROVE SubmissionInv'
  <2>1. PICK k : Received(c, {Line(k, time, <<"eve", "cosig">>, job[c].note.text, time)}) BY <1>9 DEF Junk
  <2>2. job' = [job EXCEPT ![c] = Idle] /\ out' = out
    BY <1>c, <2>1, JunkRefused DEF Received, Fails, Calls
  <2>3. /\ cosigs' = cosigs /\ stored' = stored /\ late' = late /\ time' = time /\ size' = size
        /\ faults' = faults + 1
    BY <1>9 DEF Junk, Fault
  <2>4. \A i \in Pending : UnderWay(i)' BY <1>t, <2>3, SameRecords
  <2>5. \A i \in Pending' : UnderWay(i)' BY <1>i, <2>2, <2>3, <2>4, PendingStep
  <2>6. SubmissionType' BY <1>t, <1>i, <2>2, <2>3 DEF SubmissionType
  <2>7. (out.form => Genuine(out))' BY <1>t, <2>2, <2>3 DEF Genuine, Recorded
  <2> QED BY <1>t, <2>3, <2>5, <2>6, <2>7 DEF SubmissionInv, Ascending
<1>10. ASSUME NEW j \in late, ServeLate(j) PROVE SubmissionInv'
  <2>1. /\ Process(j) /\ late' \subseteq late /\ size' = size /\ time' = time /\ job' = job /\ out' = out
        /\ faults' = faults
    BY <1>10 DEF ServeLate
  <2>2. j \in Calls /\ UnderWay(j) BY <1>t, <1>10 DEF SubmissionType, Pending
  <2>3. CASE j.pc # "idle"
    <3>1. /\ stored' \in [Witnesses -> Nat \cup {-1}]
          /\ cosigs' \subseteq [w : Witnesses, size : Nat, at : Nat]
          /\ Ascending'
          /\ \A note : Genuine(note) => Genuine(note)'
          /\ \A i : UnderWay(i) => UnderWay(i)'
      BY <1>5, <2>1, <2>2, <2>3
    <3>2. \A i \in Pending' : UnderWay(i)' BY <1>t, <2>1, <3>1 DEF Pending
    <3>3. SubmissionType' BY <1>t, <2>1, <3>1 DEF SubmissionType
    <3>4. (out.form => Genuine(out))' BY <1>t, <2>1, <3>1 DEF Genuine, Recorded
    <3> QED BY <3>1, <3>2, <3>3, <3>4 DEF SubmissionInv
  <2> QED BY <2>2, <2>3, <1>10, <1>t DEF SubmissionType
<1>11. CASE UNCHANGED vars
  <2>1. cosigs' = cosigs /\ Pending' = Pending /\ out' = out BY <1>11 DEF vars, Pending
  <2>2. SubmissionType' BY <1>t, <1>11 DEF vars, SubmissionType
  <2>3. Ascending' BY <1>t, <1>11 DEF vars, Ascending
  <2> QED BY <1>t, <2>1, <2>2, <2>3, SameRecords DEF SubmissionInv, Genuine, Recorded
<1> QED BY <1>1, <1>3, <1>4, <1>6, <1>7, <1>8, <1>9, <1>10, <1>11 DEF Next

\* Every behaviour keeps the invariant.
THEOREM SubmissionCorrect == Spec => []SubmissionInv
<1> QED BY SubmissionInitially, SubmissionStep, PTL DEF Spec

\* NeverAccused: whatever clients race and whatever is lost or late, the answers to
\* an honest log's submissions never say that it rolled back or proved nothing.
THEOREM HonestLogNeverAccused == Spec => []NeverAccused
<1>1. SubmissionInv => NeverAccused
  <2> SUFFICES ASSUME SubmissionInv, NEW j \in Pending, j.pc # "idle" PROVE StatusOf(j) \in {200, 409}
    BY DEF NeverAccused, Pending
  <2>1. j \in Calls /\ UnderWay(j) BY DEF SubmissionInv, SubmissionType, Pending
  <2> QED BY <2>1, Answered DEF SubmissionInv
<1> QED BY <1>1, SubmissionCorrect, PTL

-----------------------------------------------------------------------------
(* What relying parties conclude *)

\* A non-empty set of numbers up to a bound has a greatest one.
LEMMA MaxExists ==
  ASSUME NEW S \in SUBSET Nat, S # {}, NEW b \in Nat, \A x \in S : x <= b
  PROVE  Max(S) \in S /\ \A x \in S : x <= Max(S)
<1> DEFINE T == {n \in Nat : \E x \in S : n = b - x}
<1>1. PICK x \in S : TRUE OBVIOUS
<1>2. b - x \in T OBVIOUS
<1>3. T \in SUBSET Nat /\ T # {} BY <1>2
<1>4. PICK n \in T : \A m \in T : n <= m BY <1>3, LeastExists
<1>5. PICK y \in S : n = b - y OBVIOUS
<1>6. ASSUME NEW z \in S PROVE z <= y
  <2>1. b - z \in T OBVIOUS
  <2>2. b - z \in Nat /\ n \in Nat BY <2>1
  <2>3. n <= b - z BY <1>4, <2>1
  <2> QED BY <1>5, <2>2, <2>3
<1>7. \E m \in S : \A z \in S : m >= z BY <1>6
<1>8. Max(S) \in S /\ \A z \in S : Max(S) >= z BY <1>7, Zenon DEF Max
<1> QED BY <1>8

\* A line of a presented note that verifies is a line of the note that was written.
LEMMA EditsBreakLines ==
  ASSUME SubmissionInv, NEW n \in Presented, NEW l \in n.lines, l.key \in {LogKey} \cup WitnessKeys,
         LineHolds(l, n.text)
  PROVE  out.form /\ l \in out.lines /\ l.of = out.text
<1>1. out.form /\ (n = out \/ n \in Edits(out)) BY DEF Presented, Written
<1>2. Genuine(out) /\ out \in Notes BY <1>1 DEF SubmissionInv, SubmissionType
<1>3. ASSUME NEW q \in out.lines PROVE q.of = out.text /\ q.at = q.ts /\ q \in Lines
  BY <1>2 DEF Genuine, Recorded, SignedLine, Line, Notes
<1>4. ASSUME NEW k, NEW ts, l = Line(k, ts, <<"eve", "cosig">>, n.text, ts) PROVE FALSE
  <2>1. l.key = k /\ l.by = <<"eve", "cosig">> BY <1>4 DEF Line
  <2>2. l.key # <<"eve", "cosig">> BY KeyFacts DEF LogKey
  <2> QED BY <2>1, <2>2 DEF LineHolds
<1>5. CASE n = out BY <1>1, <1>3, <1>5
<1>7. CASE n = [out EXCEPT !.text = 1 - out.text]
  <2>1. l \in out.lines /\ n.text = 1 - out.text BY <1>2, <1>7 DEF Notes
  <2>2. out.text \in Nat BY <1>2 DEF Notes
  <2> QED BY <1>3, <2>1, <2>2 DEF LineHolds
<1>8. ASSUME NEW q \in out.lines, n = [out EXCEPT !.lines = @ \ {q}]
      PROVE  l \in out.lines
  BY <1>2, <1>8 DEF Notes
<1>9. ASSUME NEW q \in out.lines, n = [out EXCEPT !.lines = (@ \ {q}) \cup {[q EXCEPT !.ts = MaxTime]}]
      PROVE  l \in out.lines
  <2>1. l \in out.lines \/ l = [q EXCEPT !.ts = MaxTime] BY <1>2, <1>9 DEF Notes
  <2>2. ASSUME l = [q EXCEPT !.ts = MaxTime] PROVE l = q
    <3>1. l.ts = MaxTime /\ l.at = q.at BY <1>3, <2>2 DEF Lines
    <3>2. q.ts = MaxTime BY <1>3, <3>1 DEF LineHolds
    <3> QED BY <1>3, <2>2, <3>2 DEF Lines
  <2> QED BY <2>1, <2>2
<1>10. ASSUME NEW k, n = [out EXCEPT !.lines = @ \cup {Line(k, time, <<"eve", "cosig">>, out.text, time)}]
       PROVE  l \in out.lines
  <2>1. /\ n.text = out.text
        /\ l \in out.lines \/ l = Line(k, time, <<"eve", "cosig">>, n.text, time)
    BY <1>2, <1>10 DEF Notes
  <2> QED BY <1>4, <2>1
<1> QED BY <1>1, <1>3, <1>5, <1>7, <1>8, <1>9, <1>10 DEF Edits

\* As many different witnesses as there are names on the note.
LEMMA NamesAreWitnesses ==
  ASSUME NEW S \in SUBSET {<<w>> : w \in Witnesses}, NEW W, W = {w \in Witnesses : <<w>> \in S}
  PROVE  /\ IsFiniteSet(S) /\ Cardinality(S) \in Nat
         /\ Cardinality(W) \in Nat /\ Cardinality(W) >= Cardinality(S)
<1> DEFINE f == [x \in S |-> x[1]]
<1>1. \A x \in S : x[1] \in W /\ x = <<x[1]>> OBVIOUS
<1>2. f \in [S -> W] BY <1>1
<1>3. \A x, y \in S : f[x] = f[y] => x = y BY <1>1
<1>4. DOMAIN f = S OBVIOUS
<1>5. f \in Injection(S, W)
  <2> HIDE DEF f
  <2> QED BY <1>2, <1>3, <1>4 DEF Injection, IsInjective
<1>6. IsFiniteSet(W) BY SubmissionConstants, FS_Subset
<1>7. IsFiniteSet(S) /\ Cardinality(S) <= Cardinality(W)
  <2>1. PICK g \in Injection(S, W) : TRUE BY <1>5
  <2> QED BY <2>1, <1>6, FS_Injection
<1>8. Cardinality(S) \in Nat /\ Cardinality(W) \in Nat BY <1>6, <1>7, FS_CardinalityType
<1> QED BY <1>7, <1>8

\* What the parties of FreshView have in common.
LEMMA PartyFacts ==
  ASSUME NEW rp \in Parties
  PROVE  rp.logs = {LogKey} /\ rp.witnesses = WitnessKeys /\ rp.skew = 0 /\ rp.min \in Nat /\ rp.age \in Int
<1>1. ASSUME NEW min \in Nat, NEW age \in Int, NEW m, rp = Party(min, age, m)
      PROVE  rp.logs = {LogKey} /\ rp.witnesses = WitnessKeys /\ rp.skew = 0 /\ rp.min \in Nat /\ rp.age \in Int
  BY <1>1 DEF Party, Client
<1>2. \/ rp = Party(1, -1, TRUE) \/ rp = Party(2, -1, TRUE) \/ rp = Party(1, 0, TRUE) \/ rp = Party(2, 1, FALSE)
  BY Zenon DEF Parties
<1>3. 1 \in Nat /\ 2 \in Nat /\ -1 \in Int /\ 0 \in Int /\ 1 \in Int OBVIOUS
<1> QED BY <1>1, <1>2, <1>3, Zenon

\* What verify_witnessed found when it accepts: the note is of the written note's
\* size, every line of a witness was recorded, and enough witnesses have one.
LEMMA AcceptedLines ==
  ASSUME SubmissionInv, NEW n \in Presented, NEW rp \in Parties, VerifyWitnessed(n, rp, time) = "OK"
  PROVE  /\ \A l \in n.lines : l.key \in WitnessKeys => Recorded(l, n.text)
         /\ Cardinality(Counted(n, WitnessKeys)) >= rp.min
         /\ rp.age # -1 =>
              Cardinality({w \in Counted(n, WitnessKeys) :
                             time - NewestOf(n, WitnessKeys, w) <= rp.age}) >= rp.min
<1> DEFINE usable == {k \in WitnessKeys : k[2] \in CosignerTypes}
           matched == {l \in n.lines : l.key \in {LogKey} \cup WitnessKeys /\ l.key[2] \in SupportedTypes}
           checkable == {l \in matched : l.key[2] = "mldsa44" => rp.mldsa}
           fresh == {w \in Counted(n, WitnessKeys) : LET ts == NewestOf(n, WitnessKeys, w)
                                                     IN  ts <= time + 0 /\ time - ts <= rp.age}
           near == {w \in Counted(n, WitnessKeys) : time - NewestOf(n, WitnessKeys, w) <= rp.age}
<1>1. rp.logs = {LogKey} /\ rp.witnesses = WitnessKeys /\ rp.skew = 0 /\ rp.min \in Nat /\ rp.age \in Int
  BY PartyFacts
<1>2. usable = WitnessKeys BY KeyFacts
<1>3. /\ VerifyNote(n, {LogKey} \cup WitnessKeys, rp.mldsa) = "OK"
      /\ \E l \in n.lines : l.key \in {LogKey}
      /\ ~(Cardinality(Counted(n, WitnessKeys)) < rp.min)
      /\ ~(rp.age # -1 /\ Cardinality(fresh) < rp.min)
  BY <1>1, <1>2 DEF VerifyWitnessed
<1>4. matched = checkable /\ \A l \in checkable : LineHolds(l, n.text) BY <1>3 DEF VerifyNote
<1>5. \A k \in {LogKey} \cup WitnessKeys : k[2] \in SupportedTypes
  BY KeyFacts DEF SupportedTypes, LogTypes, LogKey
<1>6. \A l \in n.lines : l.key \in {LogKey} \cup WitnessKeys => LineHolds(l, n.text)
  BY <1>4, <1>5
<1>7. \A l \in n.lines : l.key \in {LogKey} \cup WitnessKeys => out.form /\ l \in out.lines /\ l.of = out.text
  BY <1>6, EditsBreakLines
<1>8. n.text = out.text /\ out.form
  <2>1. PICK l \in n.lines : l.key \in {LogKey} BY <1>3
  <2> QED BY <2>1, <1>6, <1>7 DEF LineHolds
<1>9. Genuine(out) BY <1>8 DEF SubmissionInv
<1>10. ASSUME NEW l \in n.lines, l.key \in WitnessKeys PROVE Recorded(l, n.text)
  <2>1. l \in out.lines BY <1>7, <1>10
  <2>2. SignedLine(LogKey, out.text, 0).key = LogKey BY DEF SignedLine, Line
  <2> QED BY <1>8, <1>9, <1>10, <2>1, <2>2, KeyFacts DEF Genuine
<1>11. IsFiniteSet(Counted(n, WitnessKeys))
  <2>1. Counted(n, WitnessKeys) \in SUBSET {<<w>> : w \in Witnesses} BY KeyFacts DEF Counted
  <2> QED BY <2>1, NamesAreWitnesses
<1>12. fresh \subseteq near /\ near \subseteq Counted(n, WitnessKeys) OBVIOUS
<1>13. /\ Cardinality(fresh) <= Cardinality(near) /\ Cardinality(near) \in Nat
       /\ Cardinality(fresh) \in Nat /\ Cardinality(Counted(n, WitnessKeys)) \in Nat
  <2> HIDE DEF fresh, near
  <2>1. IsFiniteSet(near) BY <1>11, <1>12, FS_Subset
  <2>2. IsFiniteSet(fresh) /\ Cardinality(fresh) <= Cardinality(near) BY <2>1, <1>12, FS_Subset
  <2> QED BY <1>11, <2>1, <2>2, FS_CardinalityType
<1> HIDE DEF fresh
<1>14. Cardinality(Counted(n, WitnessKeys)) >= rp.min BY <1>1, <1>3, <1>13
<1>15. rp.age # -1 => Cardinality(near) >= rp.min
  <2> HIDE DEF near
  <2> QED BY <1>1, <1>3, <1>13
<1> QED BY <1>10, <1>14, <1>15

\* FreshView: whatever is lost, late, edited or raced, a note that a relying party
\* accepts was cosigned by as many witnesses as it asks for, each of them recently
\* if it asks for that, and none had cosigned a larger tree before.
THEOREM AcceptedViewIsFresh == Spec => []FreshView
<1>1. SubmissionInv => FreshView
  <2> SUFFICES ASSUME SubmissionInv, NEW n \in Presented, NEW rp \in Parties,
                      VerifyWitnessed(n, rp, time) = "OK"
               PROVE  \E W \in SUBSET Witnesses :
                        /\ Cardinality(W) >= rp.min
                        /\ \A w \in W : \E g \in cosigs :
                             /\ g.w = w /\ g.size = n.text
                             /\ rp.age # -1 => time - g.at <= rp.age + Ahead[w]
                             /\ \A h \in cosigs : (h.w = w /\ h.size > n.text) => h.at >= g.at
    BY DEF FreshView
  <2> DEFINE near == {w \in Counted(n, WitnessKeys) : time - NewestOf(n, WitnessKeys, w) <= rp.age}
  <2>1. PICK S \in SUBSET Counted(n, WitnessKeys) :
          Cardinality(S) >= rp.min /\ (rp.age # -1 => S \subseteq near)
    <3>1. CASE rp.age = -1 BY <3>1, AcceptedLines
    <3>2. CASE rp.age # -1 BY <3>2, AcceptedLines
    <3> QED BY <3>1, <3>2
  <2>2. rp.min \in Nat /\ rp.age \in Int BY PartyFacts
  <2> DEFINE W == {w \in Witnesses : <<w>> \in S}
  <2>3. S \in SUBSET {<<w>> : w \in Witnesses} BY KeyFacts DEF Counted
  <2>4. Cardinality(W) >= rp.min
    <3>1. Cardinality(S) \in Nat /\ Cardinality(W) \in Nat /\ Cardinality(W) >= Cardinality(S)
      BY <2>3, NamesAreWitnesses
    <3> HIDE DEF W
    <3> QED BY <2>1, <2>2, <3>1
  <2>5. ASSUME NEW w \in W
        PROVE  \E g \in cosigs :
                 /\ g.w = w /\ g.size = n.text
                 /\ rp.age # -1 => time - g.at <= rp.age + Ahead[w]
                 /\ \A h \in cosigs : (h.w = w /\ h.size > n.text) => h.at >= g.at
    <3>1. w \in Witnesses /\ <<w>> \in Counted(n, WitnessKeys) /\ (rp.age # -1 => <<w>> \in near)
      BY <2>1
    <3>2. time \in Nat /\ Ahead[w] \in Nat BY <3>1, SubmissionConstants DEF SubmissionInv, SubmissionType
    <3> DEFINE mine == {q \in n.lines : q.key \in WitnessKeys /\ q.key[1] = w}
    <3>3. PICK l \in mine : rp.age # -1 => time - l.ts <= rp.age
      <4>1. \E q \in n.lines : q.key \in WitnessKeys /\ <<q.key[1]>> = <<w>> BY <3>1 DEF Counted
      <4>2. mine # {} BY <4>1
      <4>3. ASSUME rp.age # -1 PROVE \E l \in mine : time - l.ts <= rp.age
        <5> DEFINE T == {q.ts : q \in mine}
        <5>1. ASSUME NEW q \in mine PROVE q.ts \in Nat /\ q.ts <= time + Ahead[w]
          <6>1. Recorded(q, n.text) BY AcceptedLines
          <6>2. PICK g \in cosigs : g.w = w /\ q.ts <= g.at + Ahead[g.w] BY <6>1 DEF Recorded
          <6>3. g.at <= time /\ g.at \in Nat BY <6>2 DEF SubmissionInv, Ascending, SubmissionType
          <6>4. q.ts \in Nat BY <6>1 DEF Recorded
          <6> QED BY <3>2, <6>2, <6>3, <6>4
        <5>2. T \in SUBSET Nat /\ T # {} /\ time + Ahead[w] \in Nat /\ \A x \in T : x <= time + Ahead[w]
          BY <3>2, <4>2, <5>1
        <5>3. Max(T) \in T BY <5>2, MaxExists
        <5>4. T = {q.ts : q \in {p \in n.lines : p.key \in WitnessKeys /\ p.key[1] = <<w>>[1]}} OBVIOUS
        <5>5. NewestOf(n, WitnessKeys, <<w>>) = Max(T) BY <5>4, Zenon DEF NewestOf
        <5>6. time - NewestOf(n, WitnessKeys, <<w>>) <= rp.age BY <3>1, <4>3
        <5> QED BY <5>3, <5>5, <5>6
      <4> QED BY <4>2, <4>3
    <3>4. Recorded(l, n.text) /\ l.key[1] = w BY AcceptedLines
    <3>5. PICK g \in cosigs : g.w = w /\ g.size = n.text /\ l.ts <= g.at + Ahead[w]
      BY <3>4 DEF Recorded
    <3>6. g.at \in Nat /\ l.ts \in Nat BY <3>4, <3>5 DEF SubmissionInv, SubmissionType, Recorded
    <3>7. rp.age # -1 => time - g.at <= rp.age + Ahead[w] BY <2>2, <3>2, <3>3, <3>5, <3>6
    <3>8. \A h \in cosigs : (h.w = w /\ h.size > n.text) => h.at >= g.at
      BY <3>5 DEF SubmissionInv, Ascending
    <3> QED BY <3>5, <3>7, <3>8
  <2> HIDE DEF W
  <2>6. W \in SUBSET Witnesses BY DEF W
  <2> QED BY <2>4, <2>5, <2>6
<1> QED BY <1>1, SubmissionCorrect, PTL

=============================================================================
