------------------------------ MODULE MCSession ------------------------------
(***************************************************************************)
(* Instances of MuSig2Session for TLC.                                     *)
(***************************************************************************)
EXTENDS MuSig2Session

\* Every signer has every other one in its participants map.
FullMesh == [p \in Signers |-> Signers \ {p}]

\* Or nobody: its map is filled by the requests to join.
NobodyAdded == [p \in Signers |-> {}]

\* The backup of an index is the next one, cyclically, or nobody is.
NextIndex == [i \in Signers |-> (i + 1) % N]
NoBackup == [i \in Signers |-> NoIndex]

\* Bounds on a step: one signer makes its session anew, whichever it is; the application
\* of signer 1 aborts, that of signer 0 does not.
OneAnew == Cardinality({p \in Signers : gen'[p] > 1}) <= 1
OneAborts == \A c \in calls' : c.op = "abort" => c.by = 1
=============================================================================
