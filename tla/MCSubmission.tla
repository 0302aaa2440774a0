---------------------------- MODULE MCSubmission ----------------------------
(***************************************************************************)
(* Small instances of Submission for TLC.                                  *)
(***************************************************************************)
EXTENDS Submission, TLC

CONSTANTS h1, h2, d1, d2, d3, k

Symmetry == Permutations(Thread)

\* Three submissions race for one key, by HTTP and by AMQP, one of them with
\* other content.
RivalKeys == [u \in {h1, h2, d1} |-> k]
RivalContents == [u \in {h1, h2, d1} |-> IF u = h2 THEN 2 ELSE 1]

\* One direct message without a key, one with a key, one that is invalid, and a
\* request to a channel without a sender.
LooseKeys == [u \in {h1, d1, d2, d3} |-> IF u = d3 THEN k ELSE NoKey]
LooseContents == [u \in {h1, d1, d2, d3} |-> u]
=============================================================================
