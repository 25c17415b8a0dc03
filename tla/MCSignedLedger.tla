-------------------------- MODULE MCSignedLedger --------------------------
(* The ways a verifier is run in the instance of SignedLedger.             *)
EXTENDS SignedLedger

CONSTANTS w1, s1, r1

Opt(key, pq, require, notBefore, mldsa) ==
  [key |-> key, pq |-> pq, require |-> require, notBefore |-> notBefore, expect |-> << >>, mldsa |-> mldsa]
First == Entry(Algos[1], 0, 0, GENESIS).self

MCOpts == {
  Opt("log", "", TRUE, -1, TRUE),       \* --require-tip --trusted-pubkey
  Opt("log", "", TRUE, 1, TRUE),        \* --tip-not-before
  Opt("log", "pq", FALSE, -1, TRUE),    \* --trusted-pq-pubkey
  Opt("log", "pq", FALSE, -1, FALSE),   \* the same where ML-DSA cannot be verified
  Opt("log", "bad", FALSE, -1, TRUE),
  Opt("bad", "", TRUE, -1, TRUE),
  Opt("", "pq", TRUE, -1, TRUE),        \* a post-quantum key alone
  [Opt("log", "", TRUE, -1, TRUE) EXCEPT !.expect = First]}
=============================================================================
