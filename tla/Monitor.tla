------------------------------ MODULE Monitor ------------------------------
(***************************************************************************)
(* cryptovalid_monitor.run: a scheduled command that keeps the last tree   *)
(* head it accepted in a state file and checks that the ledger only grew   *)
(* from it.  The ledger changes under it at any time: honest appends (not  *)
(* atomic for a reader), truncations, rewrites with a repaired hash chain. *)
(* The state file may be edited between runs.                              *)
(*                                                                         *)
(* A leaf is the number of its entry; a rewritten entry, and every entry   *)
(* chained after it, has a new number.  A root hash is the sequence of its *)
(* leaves, and the RFC 9162 consistency check is "is a prefix of" (the     *)
(* proof algorithm itself is in ProofWalk).                                *)
(***************************************************************************)
EXTENDS Integers, SequencesExt

CONSTANTS
  Modes,       \* how the command may be deployed: "writer" (keyfile), "auditor" (trusted_pubkey_hex), "none"
  MaxSilence,  \* max_silence_h
  MaxEntries,  \* bound: entries ever written
  MaxTamper,   \* bound: truncations, rewrites, breaks of the ledger, edits of the state
  MaxTime      \* bound: hours

ASSUME MonitorConstants ==
  /\ Modes \subseteq {"writer", "auditor", "none"}
  /\ MaxSilence \in Nat /\ MaxEntries \in Nat /\ MaxTamper \in Nat /\ MaxTime \in Nat

VARIABLES
  mode,     \* the deployment of this behaviour
  ledger,   \* the leaves of the complete lines
  torn,     \* an append is half written
  chained,  \* verify_ledger would say PASS on the complete lines
  pubsth,   \* the tree of the signed head the writer published at --sth-file
  state,    \* the state file, or NoState
  now,      \* hours
  pc, snap, leaves, prev,   \* run(): step, snapshot verdict, leaves, state read
  green,    \* whether the last run that returned was green
  fresh, tampers,           \* used budgets
  bases,    \* ghost: the trees of the states written, in order, without repetitions
  since     \* ghost: the first of them since the baseline in the state file was last replaced

disk  == <<mode, ledger, torn, chained, pubsth>>
local == <<snap, leaves, prev>>
vars  == <<disk, state, now, pc, local, green, fresh, tampers, bases, since>>

NoSth   == [tree |-> << >>, key |-> "none"]
NoState == [root |-> << >>, ts |-> -1, sth |-> NoSth, key |-> "none"]
Trees   == Seq(Nat)
Sths    == [tree : Trees, key : {"none", "log", "other"}]
States  == [root : Trees, ts : Nat \cup {-1}, sth : Sths, key : {"none", "log", "other"}]

TypeOK ==
  /\ mode \in Modes
  /\ ledger \in Trees /\ torn \in BOOLEAN /\ chained \in BOOLEAN /\ pubsth \in Trees
  /\ state \in States /\ now \in 0..MaxTime
  /\ pc \in {"idle", "leaves", "state", "decide"}
  /\ snap \in BOOLEAN /\ leaves \in Trees /\ prev \in States
  /\ green \in BOOLEAN
  /\ fresh \in Nat /\ tampers \in 0..MaxTamper
  /\ bases \in Seq(Trees) /\ since \in Nat \ {0}

Init ==
  /\ mode \in Modes
  /\ ledger = << >> /\ torn = FALSE /\ chained = TRUE /\ pubsth = << >>
  /\ state = NoState /\ now = 0
  /\ pc = "idle" /\ snap = FALSE /\ leaves = << >> /\ prev = NoState
  /\ green = TRUE
  /\ fresh = 0 /\ tampers = 0 /\ bases = << >> /\ since = 1

-----------------------------------------------------------------------------
(* The ledger, its writer, and whoever can write the files *)

BeginAppend ==
  /\ ~torn /\ fresh < MaxEntries
  /\ torn' = TRUE
  /\ UNCHANGED <<mode, ledger, chained, pubsth, state, now, pc, local, green, fresh, tampers, bases, since>>

EndAppend ==
  /\ torn
  /\ torn' = FALSE /\ ledger' = Append(ledger, fresh + 1) /\ fresh' = fresh + 1
  /\ UNCHANGED <<mode, chained, pubsth, state, now, pc, local, green, tampers, bases, since>>

\* The writer publishes the signed head of its ledger.
Publish ==
  /\ mode = "auditor" /\ ~torn /\ pubsth # ledger
  /\ pubsth' = ledger
  /\ UNCHANGED <<mode, ledger, torn, chained, state, now, pc, local, green, fresh, tampers, bases, since>>

\* The tail is cut, entries from i on are rewritten (and chained again), or an
\* entry is changed without repairing the chain.
TamperLedger ==
  /\ tampers < MaxTamper /\ ~torn /\ ledger # << >>
  /\ tampers' = tampers + 1
  /\ \/ /\ ledger' = Front(ledger)
        /\ UNCHANGED <<chained, fresh>>
     \/ \E i \in 1..Len(ledger) :
          /\ ledger' = [j \in 1..Len(ledger) |-> IF j < i THEN ledger[j] ELSE fresh + 1 + j - i]
          /\ fresh' = fresh + Len(ledger) + 1 - i
          /\ UNCHANGED chained
     \/ chained' = FALSE /\ UNCHANGED <<ledger, fresh>>
  /\ UNCHANGED <<mode, torn, pubsth, state, now, pc, local, green, bases, since>>

\* The trees whose head under the log key an editor of the state can have: the
\* writer signs its own tree at any moment (--sth-file, receipts), the trees
\* accepted before are in older state files.
SignedTrees == {ledger, pubsth} \cup Range(bases)

\* The heads that can be put in the state file: none, the one that is there, one
\* signed by another key, a genuine one of another tree.  Without a key run()
\* does not look at it.
Heads ==
  IF mode = "none" THEN {NoSth}
  ELSE {NoSth, state.sth, [tree |-> ledger, key |-> "other"]} \cup [tree : SignedTrees, key : {"log"}]

\* An edit that moves the baseline and that run() accepts: the file is deleted,
\* there is no key, or another head signed by the log key takes its place.
Replaces(st) ==
  \/ mode = "none"
  \/ st = NoState
  \/ st.sth.key = "log" /\ st.sth # state.sth

\* The state file is deleted, or written by someone else: any of the heads, with
\* the size and root it has, those of the ledger as it is now, or the head's own.
EditState ==
  /\ tampers < MaxTamper
  /\ tampers' = tampers + 1
  /\ \E h \in Heads : \E st \in {NoState} \cup {[root |-> r, ts |-> now, sth |-> h, key |-> h.key] :
                                                r \in {state.root, ledger, h.tree}} :
       /\ st # state
       /\ state' = st
       /\ since' = IF Replaces(st) THEN Len(bases) + 1 ELSE since
  /\ UNCHANGED <<disk, now, pc, local, green, fresh, bases>>

Tick ==
  /\ now < MaxTime /\ now' = now + 1
  /\ UNCHANGED <<disk, state, pc, local, green, fresh, tampers, bases, since>>

-----------------------------------------------------------------------------
(* run() *)

\* run() returns, raises or is killed: its locals go with it.
Over == pc' = "idle" /\ snap' = FALSE /\ leaves' = << >> /\ prev' = NoState

\* verify_ledger reads the file: a half written line is a parse error, a file
\* without entries fails (empty_ledger).
Snapshot ==
  /\ pc = "idle"
  /\ snap' = (chained /\ ~torn /\ ledger # << >>) /\ pc' = "leaves"
  /\ UNCHANGED <<disk, state, now, leaves, prev, green, fresh, tampers, bases, since>>

\* leaves_from_ledger reads it again: json.loads raises on a half written line,
\* main() reports the ValueError and nothing is written.
ReadLeaves ==
  /\ pc = "leaves"
  /\ IF torn THEN Over
             ELSE pc' = "state" /\ leaves' = ledger /\ UNCHANGED <<snap, prev>>
  /\ UNCHANGED <<disk, state, now, green, fresh, tampers, bases, since>>

LoadState ==
  /\ pc = "state"
  /\ prev' = state /\ pc' = "decide"
  /\ UNCHANGED <<disk, state, now, snap, leaves, green, fresh, tampers, bases, since>>

\* Mutant: the saved head is checked only for its signature.
StateAlerts_SigOnly ==
  {a \in {"unsigned", "tampered", "key"} :
     /\ mode # "none" /\ prev # NoState
     /\ \/ a = "unsigned" /\ prev.sth = NoSth
        \/ a = "tampered" /\ prev.sth # NoSth /\ prev.sth.key # "log"
        \/ a = "key" /\ mode = "writer" /\ prev.key \notin {"none", "log"}}

\* The saved head under a trusted key: missing, signed by another key, or not
\* the head of the saved size and root; the key recorded in the state.
StateAlerts ==
  {a \in {"unsigned", "tampered", "key"} :
     /\ mode # "none" /\ prev # NoState
     /\ \/ a = "unsigned" /\ prev.sth = NoSth
        \/ a = "tampered" /\ prev.sth # NoSth /\ (prev.sth.key # "log" \/ prev.sth.tree # prev.root)
        \/ a = "key" /\ mode = "writer" /\ prev.key \notin {"none", "log"}}

\* The ledger against the baseline.
GrowthAlerts ==
  {a \in {"truncation", "rewrite", "fork"} :
     /\ prev # NoState
     /\ \/ a = "truncation" /\ Len(leaves) < Len(prev.root)
        \/ a = "rewrite" /\ Len(leaves) = Len(prev.root) /\ leaves # prev.root
        \/ a = "fork" /\ Len(leaves) > Len(prev.root) /\ Len(prev.root) > 0
                     /\ ~IsPrefix(prev.root, leaves)}

\* Mutant: an old state is silence even when the ledger has grown since.
SilenceAlert_Any ==
  IF prev # NoState /\ now - prev.ts > MaxSilence THEN {"silence"} ELSE {}

\* No growth since the state was written, longer ago than max_silence_h.
SilenceAlert ==
  IF prev # NoState /\ Len(leaves) = Len(prev.root) /\ now - prev.ts > MaxSilence
    THEN {"silence"} ELSE {}

Alerts == (IF snap THEN {} ELSE {"snapshot"}) \cup StateAlerts \cup GrowthAlerts \cup SilenceAlert

\* The head that goes into the new state: the writer signs it; the auditor takes
\* the published head of this very tree, or keeps the old one of an unchanged tree.
NewSth ==
  IF mode = "writer" \/ (mode = "auditor" /\ pubsth = leaves)
    THEN [tree |-> leaves, key |-> "log"]
    ELSE IF mode = "auditor" /\ prev.sth # NoSth /\ prev.root = leaves THEN prev.sth ELSE NoSth

\* A run with an alert returns; the state stays.
Red ==
  /\ pc = "decide" /\ Alerts # {}
  /\ green' = FALSE /\ Over
  /\ UNCHANGED <<disk, state, now, fresh, tampers, bases, since>>

\* A run without alerts: the state is replaced (temporary file and rename).
Green ==
  /\ pc = "decide" /\ Alerts = {}
  /\ mode = "auditor" => NewSth # NoSth
  /\ state' = [root |-> leaves, ts |-> now, sth |-> NewSth, key |-> NewSth.key]
  /\ bases' = IF since <= Len(bases) /\ Last(bases) = leaves THEN bases ELSE Append(bases, leaves)
  /\ green' = TRUE /\ Over
  /\ UNCHANGED <<disk, now, fresh, tampers, since>>

\* The auditor has no signed head for this tree: "baseline_non_avanzata".
GreenStay ==
  /\ pc = "decide" /\ Alerts = {}
  /\ mode = "auditor" /\ NewSth = NoSth
  /\ green' = TRUE /\ Over
  /\ UNCHANGED <<disk, state, now, fresh, tampers, bases, since>>

\* The command is killed; write_output left the state whole, old or new.
Kill ==
  /\ pc # "idle" /\ Over
  /\ UNCHANGED <<disk, state, now, green, fresh, tampers, bases, since>>

Run  == Snapshot \/ ReadLeaves \/ LoadState \/ Red \/ Green \/ GreenStay
Next == BeginAppend \/ EndAppend \/ Publish \/ TamperLedger \/ EditState \/ Tick \/ Run \/ Kill
Spec == Init /\ [][Next]_vars

\* The command is scheduled again and again and is not killed every time; an
\* append that began ends; the writer publishes its head.
FairSpec ==
  /\ Spec
  /\ SF_vars(Snapshot) /\ SF_vars(ReadLeaves) /\ SF_vars(LoadState)
  /\ SF_vars(Red \/ Green \/ GreenStay)
  /\ WF_vars(EndAppend) /\ WF_vars(Publish)

-----------------------------------------------------------------------------
(* Properties *)

\* The trees accepted since the baseline was last replaced are one growing tree,
\* whatever was done to the ledger between or during runs and, under a key, to
\* the rest of the state file: its size, root and time, the head dropped or signed
\* by another key.  What replaces the baseline without an alert is deleting the
\* file, having no key, and putting in it another head the log key signed, be it an
\* older one or that of a rewritten ledger which the writer published.
BaselinesLinear ==
  \A i \in since..Len(bases) : \A j \in i..Len(bases) : IsPrefix(bases[i], bases[j])

\* "NEVER writes an unsigned state": under a key, the state a run leaves behind
\* carries a head signed by the log key for exactly its own size and root.
StateIsSigned ==
  [][state' # state /\ tampers' = tampers /\ mode # "none" =>
       state'.sth = [tree |-> state'.root, key |-> "log"]]_vars

\* With nobody tampering, an intact ledger that stops growing is accepted in the
\* end, and every later run agrees (an alert raised by a torn read passes).
CatchesUp == <>[](tampers > 0 \/ state.root = ledger)

=============================================================================
