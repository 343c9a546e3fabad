------------------------------ MODULE Election ------------------------------
(***************************************************************************)
(* Who coordinates a signing round, and who takes over                     *)
(* (src/lib/musig2/election.ts).                                           *)
(*                                                                         *)
(* Keys are numbers, ordered as their bytes are, which is the order of     *)
(* their hex strings too.  signers is the array a caller passes, from 0.   *)
(* The four elections return an index into the sorted array.  The backups  *)
(* of three methods count on from it; those of the lexicographic method    *)
(* take it for an index of the array as passed, and return such indexes.   *)
(* Named(k) is the key that an entry of the list stands for.               *)
(***************************************************************************)
EXTENDS Integers, Sequences, FiniteSets

CONSTANT NumSigners

ASSUME ElectionAssumption == NumSigners \in Nat \ {0}

Indices == 0 .. NumSigners - 1
Keys == 1 .. NumSigners
Methods == {"lexicographic", "hash-based", "first-signer", "last-signer"}
NoIndex == -1  \* null

\* The arrays of all the keys, in any order.
SignerArrays == {s \in [Indices -> Keys] : \A i, j \in Indices : s[i] = s[j] => i = j}

VARIABLES
    signers,
    electionMethod,
    hashValue,     \* of the sorted keys: the same for every order of them
    priorityList,
    listed         \* getCoordinatorPriorityList has returned

electionVars == <<signers, electionMethod, hashValue, priorityList, listed>>

ElectionTypeOK ==
    /\ signers \in SignerArrays
    /\ electionMethod \in Methods
    /\ hashValue \in Indices
    /\ priorityList \in Seq(Indices)
    /\ listed \in BOOLEAN

-----------------------------------------------------------------------------
\* indexMapping: the place of signer i in the sorted array.
SortedIndex(s, i) == Cardinality({j \in Indices : s[j] < s[i]})

SortedSigners(s) ==
    [r \in Indices |-> s[CHOOSE i \in Indices : SortedIndex(s, i) = r]]

ElectedIndex(method, hash) ==
    IF NumSigners = 1 THEN 0
    ELSE CASE method \in {"lexicographic", "first-signer"} -> 0
           [] method = "hash-based"                        -> hash % NumSigners
           [] method = "last-signer"                       -> NumSigners - 1

\* Mutant: the index is used on the array as passed.
ElectCoordinatorUnsorted(s, method, hash) ==
    [coordinatorIndex |-> ElectedIndex(method, hash),
     coordinatorPublicKey |-> s[ElectedIndex(method, hash)]]

ElectCoordinator(s, method, hash) ==
    [coordinatorIndex |-> ElectedIndex(method, hash),
     coordinatorPublicKey |-> SortedSigners(s)[ElectedIndex(method, hash)]]

\* isCoordinator(signers, signerIndex), the index of the sorted array.
IsElected(s, index, method, hash) ==
    ElectCoordinator(s, method, hash).coordinatorIndex = index

-----------------------------------------------------------------------------
\* The next signer in the order of the keys, cyclically, by places in s.
NextInOrder(s, i) ==
    CHOOSE j \in Indices : SortedIndex(s, j) = (SortedIndex(s, i) + 1) % NumSigners

\* Mutant: the hash-based method stops at the end of the array.
BackupCoordinatorNoWrap(s, i, method) ==
    IF NumSigners = 1 THEN NoIndex
    ELSE CASE method = "lexicographic" -> NextInOrder(s, i)
           [] method \in {"hash-based", "first-signer"}
                  -> IF i + 1 >= NumSigners THEN NoIndex ELSE i + 1
           [] method = "last-signer"   -> i - 1

BackupCoordinator(s, i, method) ==
    IF NumSigners = 1 THEN NoIndex
    ELSE CASE method = "lexicographic" -> NextInOrder(s, i)
           [] method = "hash-based"    -> (i + 1) % NumSigners
           [] method = "first-signer"  -> IF i + 1 >= NumSigners THEN NoIndex ELSE i + 1
           [] method = "last-signer"   -> i - 1

ElectionInit ==
    /\ signers \in SignerArrays
    /\ electionMethod \in Methods
    /\ hashValue \in Indices
    /\ priorityList = <<ElectCoordinator(signers, electionMethod, hashValue).coordinatorIndex>>
    /\ listed = FALSE

\* One turn of the loop of getCoordinatorPriorityList.
ListBackup ==
    LET backup == BackupCoordinator(signers, priorityList[Len(priorityList)], electionMethod)
        done == backup = NoIndex \/ \E k \in DOMAIN priorityList : priorityList[k] = backup
    IN  /\ ~listed
        /\ listed' = done
        /\ priorityList' = IF done THEN priorityList ELSE Append(priorityList, backup)
        /\ UNCHANGED <<signers, electionMethod, hashValue>>

ElectionNext == ListBackup

ElectionSpec == ElectionInit /\ [][ElectionNext]_electionVars

-----------------------------------------------------------------------------
\* Signers who pass the keys in different orders elect the same key, and exactly one
\* of them finds by its own sorted index that it is the coordinator: the owner of
\* that key.
ElectionAgrees ==
    \A s \in SignerArrays :
        LET elected == ElectCoordinator(s, electionMethod, hashValue)
        IN  /\ elected.coordinatorPublicKey =
                   ElectCoordinator(signers, electionMethod, hashValue).coordinatorPublicKey
            /\ \A i \in Indices :
                   IsElected(signers, SortedIndex(signers, i), electionMethod, hashValue)
                       <=> signers[i] = elected.coordinatorPublicKey

\* The key of the k-th coordinator of the list.
Named(k) ==
    IF k = 1 \/ electionMethod # "lexicographic"
    THEN SortedSigners(signers)[priorityList[k]]
    ELSE signers[priorityList[k]]

InOrder(s) == \A i, j \in Indices : i < j => s[i] < s[j]

\* A failover that follows the list comes to every signer's key before it is exhausted,
\* and to none twice.  With the lexicographic method this takes an array that is sorted
\* already, as createSession demands of its caller (coordinator.ts): of the array with
\* B before A the list is <<0, 1>>, which names A twice and B never.
BackupsReachEveryone ==
    listed /\ (electionMethod = "lexicographic" => InOrder(signers))
        => /\ Len(priorityList) = NumSigners
           /\ {Named(k) : k \in DOMAIN priorityList} = Keys
=============================================================================
