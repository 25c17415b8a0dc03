-------------------------------- MODULE Worm --------------------------------
(***************************************************************************)
(* cryptovalid_worm.py: encrypted records in a write-once store            *)
(* (LocalWormStore), their keys in a KeyRing, erasure by destroying the    *)
(* key.  Several callers store, retrieve and shred at the same time.       *)
(*                                                                         *)
(* A key is a fresh number (generate_key is random); the blob of a call is *)
(* named by the key it was encrypted with, so decrypt succeeds exactly     *)
(* when key and blob are the same number.  key_id is a function of         *)
(* record_id and is identified with it.  0 is an absent key or object.     *)
(***************************************************************************)
EXTENDS Integers, FiniteSets

CONSTANTS
  Callers,   \* threads using one store and one key ring
  Records,   \* record ids
  MaxKeys    \* bound: store_record_escrow calls

ASSUME WormConstants == MaxKeys \in Nat

VARIABLES
  keys,      \* KeyRing._keys
  object,    \* the blobs linked at LocalWormStore._path
  at, rid,   \* where each caller is, and the record it works on
  key,       \* the local `key' of the call
  last,      \* number of the last key generated
  receipts,  \* ghost: <<record, blob>> of every store that returned
  erased,    \* ghost: blobs whose key crypto_shred destroyed
  stale,     \* ghost: callers whose retrieve began before such a shred
  opened     \* ghost: erased blobs that a later retrieve decrypted

local == <<at, rid, key>>
wormVars  == <<keys, object, local, last, receipts, erased, stale, opened>>

Numbers == 0..MaxKeys

WormTypeOK ==
  /\ keys \in [Records -> Numbers] /\ object \in [Records -> Numbers]
  /\ at \in [Callers -> {"idle", "exists", "link", "blob"}]
  /\ rid \in [Callers -> Records] /\ key \in [Callers -> Numbers]
  /\ last \in Numbers /\ receipts \subseteq Records \X Numbers
  /\ erased \subseteq Numbers /\ stale \subseteq Callers /\ opened \subseteq Numbers

WormInit ==
  /\ keys = [r \in Records |-> 0] /\ object = [r \in Records |-> 0]
  /\ at = [c \in Callers |-> "idle"] /\ key = [c \in Callers |-> 0]
  /\ rid \in [Callers -> Records] /\ \A c, d \in Callers : rid[c] = rid[d]
  /\ last = 0 /\ receipts = {} /\ erased = {} /\ stale = {} /\ opened = {}

Leave(c) == at' = [at EXCEPT ![c] = "idle"] /\ stale' = stale \ {c}

-----------------------------------------------------------------------------
(* store_record_escrow *)

\* Mutant: the key is derived from the record instead of drawn at random.
NewKey_Derived(c, r) ==
  /\ at[c] = "idle" /\ last < MaxKeys
  /\ last' = IF object[r] = 0 THEN last + 1 ELSE last
  /\ key' = [key EXCEPT ![c] = IF object[r] = 0 THEN last + 1 ELSE object[r]]
  /\ keys' = [keys EXCEPT ![r] = key'[c]]
  /\ rid' = [rid EXCEPT ![c] = r] /\ at' = [at EXCEPT ![c] = "exists"]
  /\ UNCHANGED <<object, receipts, erased, stale, opened>>

\* new_key replaces whatever key the record had; the record is encrypted.
NewKey(c, r) ==
  /\ at[c] = "idle" /\ last < MaxKeys
  /\ last' = last + 1
  /\ key' = [key EXCEPT ![c] = last + 1]
  /\ keys' = [keys EXCEPT ![r] = last + 1]
  /\ rid' = [rid EXCEPT ![c] = r] /\ at' = [at EXCEPT ![c] = "exists"]
  /\ UNCHANGED <<object, receipts, erased, stale, opened>>

\* put: os.path.exists; an existing object is a WormError.
PutExists(c) ==
  /\ at[c] = "exists"
  /\ IF object[rid[c]] = 0 THEN at' = [at EXCEPT ![c] = "link"] /\ UNCHANGED stale
                           ELSE Leave(c)
  /\ UNCHANGED <<keys, object, rid, key, last, receipts, erased, opened>>

\* Mutant: the object is moved into place over whatever is there.
PutLink_Replaces(c) ==
  /\ at[c] = "link"
  /\ object' = [object EXCEPT ![rid[c]] = key[c]]
  /\ receipts' = receipts \cup {<<rid[c], key[c]>>}
  /\ Leave(c)
  /\ UNCHANGED <<keys, rid, key, last, erased, opened>>

\* write_new: os.link at the path; the receipt is returned.  An object linked
\* since the check is a FileExistsError.
PutLink(c) ==
  /\ at[c] = "link"
  /\ IF object[rid[c]] = 0
       THEN /\ object' = [object EXCEPT ![rid[c]] = key[c]]
            /\ receipts' = receipts \cup {<<rid[c], key[c]>>}
       ELSE UNCHANGED <<object, receipts>>
  /\ Leave(c)
  /\ UNCHANGED <<keys, rid, key, last, erased, opened>>

\* write_tmp or os.link fails: OutputNotWritten, nothing at the path.
PutFails(c) ==
  /\ at[c] = "link" /\ Leave(c)
  /\ UNCHANGED <<keys, object, rid, key, last, receipts, erased, opened>>

-----------------------------------------------------------------------------
(* crypto_shred and retrieve_record *)

\* crypto_shred on the key of a record; a retrieve that already holds it may finish.
Shred(r) ==
  /\ keys[r] # 0
  /\ keys' = [keys EXCEPT ![r] = 0]
  /\ erased' = erased \cup {keys[r]}
  /\ stale' = stale \cup {c \in Callers : at[c] = "blob" /\ key[c] = keys[r]}
  /\ UNCHANGED <<object, local, last, receipts, opened>>

\* keyring.get; no key is a WormError, which changes nothing.
GetKey(c, r) ==
  /\ at[c] = "idle" /\ keys[r] # 0
  /\ key' = [key EXCEPT ![c] = keys[r]]
  /\ rid' = [rid EXCEPT ![c] = r] /\ at' = [at EXCEPT ![c] = "blob"]
  /\ UNCHANGED <<keys, object, last, receipts, erased, stale, opened>>

\* worm.get and decrypt: a WormError, an InvalidTag, or the record.
GetBlob(c) ==
  /\ at[c] = "blob"
  /\ opened' = IF object[rid[c]] = key[c] /\ key[c] \in erased /\ c \notin stale
                 THEN opened \cup {key[c]} ELSE opened
  /\ Leave(c)
  /\ UNCHANGED <<keys, object, rid, key, last, receipts, erased>>

WormNext ==
  \/ \E c \in Callers, r \in Records : NewKey(c, r) \/ GetKey(c, r)
  \/ \E c \in Callers : PutExists(c) \/ PutLink(c) \/ PutFails(c) \/ GetBlob(c)
  \/ \E r \in Records : Shred(r)

WormSpec == WormInit /\ [][WormNext]_wormVars

-----------------------------------------------------------------------------
(* Properties *)

\* Write-once: whatever the callers do, an object that is in the store stays as
\* it is (put's check and the hard link are two steps).
WriteOnce == [][\A r \in Records : object[r] # 0 => object'[r] = object[r]]_wormVars

\* The digest of every receipt that was returned is the digest of the object in
\* the store: of two stores that race on one record only one gets a receipt.
ReceiptsHold == \A p \in receipts : object[p[1]] = p[2]

\* "GDPR erasure": a record whose key was shredded is never decrypted by a
\* retrieve that began later, also when its store is retried after the shred.
ErasedStaysErased == opened = {}

\* "il DATO e' retained e recuperabile": the key of a receipted record that
\* nobody shredded decrypts the object in the store.
Retained == \A p \in receipts : p[2] \notin erased => keys[p[1]] = p[2]

=============================================================================
