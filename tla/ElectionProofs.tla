--------------------------- MODULE ElectionProofs ---------------------------
(***************************************************************************)
(* Theorems about elections, for any number of signers, any order of their *)
(* keys, all methods and any hash.                                         *)
(***************************************************************************)
EXTENDS Election, FiniteSetTheorems, FunctionTheorems, SequenceTheorems, TLAPS

-----------------------------------------------------------------------------
(***************************************************************************)
(* Sorting.  The keys are all of 1 .. NumSigners, so that the place of a   *)
(* key in the sorted array is its number less one.                         *)
(***************************************************************************)
LEMMA Sizes ==
    /\ NumSigners \in Nat \ {0} /\ Indices = 0 .. NumSigners - 1
    /\ IsFiniteSet(Indices) /\ Cardinality(Indices) = NumSigners
    /\ IsFiniteSet(Keys) /\ Cardinality(Keys) = NumSigners
<1>1. NumSigners \in Nat \ {0}
  BY ElectionAssumption
<1>2. IsFiniteSet(Indices) /\ Cardinality(Indices) = NumSigners
  BY <1>1, FS_Interval DEF Indices
<1>3. IsFiniteSet(Keys) /\ Cardinality(Keys) = NumSigners
  BY <1>1, FS_Interval DEF Keys
<1>. QED
  BY <1>1, <1>2, <1>3 DEF Indices

\* Every key is in the array, at one index.
LEMMA ArrayIsBijection ==
    ASSUME NEW s \in SignerArrays PROVE s \in Bijection(Indices, Keys)
<1>1. s \in Injection(Indices, Keys)
  BY DEF SignerArrays, Injection, IsInjective
<1>2. s \in Surjection(Indices, Keys)
  BY <1>1, Sizes, FS_Injection
<1>. QED
  BY <1>1, <1>2 DEF Bijection

\* What sorts before a key are the keys below it.
LEMMA SortedIndexIsRank ==
    ASSUME NEW s \in SignerArrays, NEW i \in Indices
    PROVE  SortedIndex(s, i) = s[i] - 1 /\ SortedIndex(s, i) \in Indices
<1> DEFINE below == {j \in Indices : s[j] < s[i]}
           f == [j \in below |-> s[j]]
           n == s[i] - 1
<1>1. s \in [Indices -> Keys] /\ s[i] \in 1 .. NumSigners
  BY DEF SignerArrays, Keys
<1>2. n \in 0 .. NumSigners - 1 /\ \A j \in Indices : s[j] \in Nat /\ (s[j] < s[i] <=> s[j] \in 1 .. n)
  BY <1>1, Sizes DEF Keys
<1>3. f \in Bijection(below, 1 .. n)
  <2>1. f \in [below -> 1 .. n]
    BY <1>2
  <2>2. \A a, b \in below : f[a] = f[b] => a = b
    BY DEF SignerArrays
  <2>3. ASSUME NEW k \in 1 .. n PROVE \E j \in below : f[j] = k
    <3>1. k \in Keys
      BY <1>2, Sizes DEF Keys
    <3>2. PICK j \in Indices : s[j] = k
      BY <3>1, ArrayIsBijection DEF Bijection, Surjection
    <3>. QED
      BY <1>2, <3>2
  <2>. QED
    BY <2>1, <2>2, <2>3 DEF Bijection, Injection, Surjection, IsInjective
<1>4. IsFiniteSet(below) /\ ExistsBijection(below, 1 .. n)
  BY <1>3, Sizes, FS_Subset DEF ExistsBijection
<1>5. Cardinality(below) = Cardinality(1 .. n)
  BY <1>4, FS_Bijection
<1>6. Cardinality(1 .. n) = n
  BY <1>2, FS_Interval
<1>. QED
  BY <1>2, <1>5, <1>6, Sizes DEF SortedIndex

\* Each place of the sorted array is taken by one signer.
LEMMA PlaceIsTaken ==
    ASSUME NEW s \in SignerArrays, NEW r \in Indices
    PROVE  /\ \E i \in Indices : SortedIndex(s, i) = r
           /\ \A i, j \in Indices : SortedIndex(s, i) = SortedIndex(s, j) => i = j
<1>1. r + 1 \in Keys
  BY Sizes DEF Keys
<1>2. PICK i \in Indices : s[i] = r + 1
  BY <1>1, ArrayIsBijection DEF Bijection, Surjection
<1>3. SortedIndex(s, i) = r
  <2>1. SortedIndex(s, i) = s[i] - 1
    BY SortedIndexIsRank
  <2>2. r \in Nat
    BY Sizes
  <2>. QED
    BY <1>2, <2>1, <2>2
<1>4. ASSUME NEW j \in Indices, NEW k \in Indices, SortedIndex(s, j) = SortedIndex(s, k)
      PROVE  j = k
  <2>1. s[j] = s[k]
    BY <1>4, SortedIndexIsRank DEF SignerArrays, Keys
  <2>. QED
    BY <2>1 DEF SignerArrays
<1>. QED
  BY <1>3, <1>4

\* The sorted array is the same for every order of the keys.
LEMMA SortedSignersAreKeys ==
    ASSUME NEW s \in SignerArrays, NEW r \in Indices PROVE SortedSigners(s)[r] = r + 1
<1> DEFINE i == CHOOSE j \in Indices : SortedIndex(s, j) = r
<1>1. i \in Indices /\ SortedIndex(s, i) = r
  BY PlaceIsTaken
<1> HIDE DEF i
<1>2. s[i] - 1 = r /\ s[i] \in Nat
  <2>1. SortedIndex(s, i) = s[i] - 1
    BY <1>1, SortedIndexIsRank
  <2>2. s[i] \in Nat
    BY <1>1, Sizes DEF SignerArrays, Keys
  <2>. QED
    BY <1>1, <2>1, <2>2
<1>. QED
  BY <1>2, Sizes DEF SortedSigners, i

LEMMA ElectedIsIndex ==
    ASSUME NEW method \in Methods, NEW hash \in Indices
    PROVE  ElectedIndex(method, hash) \in Indices
<1>1. hash % NumSigners \in 0 .. NumSigners - 1
  BY Sizes
<1>2. /\ 0 \in Indices /\ NumSigners - 1 \in Indices
      /\ hash % NumSigners \in Indices
  BY <1>1, Sizes
<1>. QED
  BY <1>2 DEF ElectedIndex, Methods

-----------------------------------------------------------------------------
ArraysOK ==
    signers \in SignerArrays /\ electionMethod \in Methods /\ hashValue \in Indices

LEMMA ArraysStay == ElectionSpec => []ArraysOK
<1>1. ElectionInit => ArraysOK
  BY DEF ElectionInit, ArraysOK
<1>2. ArraysOK /\ [ElectionNext]_electionVars => ArraysOK'
  BY DEF ArraysOK, ElectionNext, ListBackup, electionVars
<1>. QED
  BY <1>1, <1>2, PTL DEF ElectionSpec

\* For any number of signers, all who pass the same keys in some order elect the same
\* key, and exactly its owner finds that it is the coordinator.  Of their backups it says
\* nothing: those of the lexicographic method depend on the order passed.
THEOREM AllElectTheSame == ElectionSpec => []ElectionAgrees
<1>1. ArraysOK => ElectionAgrees
  <2> SUFFICES ASSUME ArraysOK, NEW s \in SignerArrays
               PROVE  LET elected == ElectCoordinator(s, electionMethod, hashValue)
                      IN  /\ elected.coordinatorPublicKey =
                               ElectCoordinator(signers, electionMethod, hashValue).coordinatorPublicKey
                          /\ \A i \in Indices :
                               IsElected(signers, SortedIndex(signers, i), electionMethod, hashValue)
                                   <=> signers[i] = elected.coordinatorPublicKey
    BY DEF ElectionAgrees
  <2> DEFINE e == ElectedIndex(electionMethod, hashValue)
  <2>1. e \in Indices /\ signers \in SignerArrays
    BY ElectedIsIndex DEF ArraysOK
  <2>2. SortedSigners(s)[e] = e + 1 /\ SortedSigners(signers)[e] = e + 1
    BY <2>1, SortedSignersAreKeys
  <2>3. ASSUME NEW i \in Indices
        PROVE  e = SortedIndex(signers, i) <=> signers[i] = e + 1
    <3>1. SortedIndex(signers, i) = signers[i] - 1 /\ signers[i] \in Int
      BY <2>1, SortedIndexIsRank DEF SignerArrays, Keys
    <3>. QED
      BY <2>1, <3>1, Sizes
  <2> HIDE DEF e
  <2>. QED
    BY <2>2, <2>3 DEF ElectCoordinator, IsElected, e
<1>. QED
  BY <1>1, ArraysStay, PTL

-----------------------------------------------------------------------------
(***************************************************************************)
(* The list of backups.  Each method visits the places of its order one    *)
(* after the other: At(k) is the k-th of them, and Place says which place  *)
(* a signer has.                                                           *)
(***************************************************************************)
Cyclic == {"lexicographic", "hash-based"}

Place(i) == IF electionMethod = "lexicographic" THEN SortedIndex(signers, i) ELSE i
Start == IF electionMethod = "lexicographic" THEN SortedIndex(signers, 0) ELSE hashValue
Round(x) == IF x < NumSigners THEN x ELSE x - NumSigners

At(k) == IF electionMethod \in Cyclic THEN Round(Start + k - 1)
         ELSE IF electionMethod = "first-signer" THEN k - 1
         ELSE NumSigners - k

ListInv ==
    /\ ArraysOK
    /\ priorityList \in Seq(Indices)
    /\ Len(priorityList) \in 1 .. NumSigners
    /\ \A k \in 1 .. Len(priorityList) : Place(priorityList[k]) = At(k)
    /\ listed \in BOOLEAN
    /\ listed => Len(priorityList) = NumSigners

LEMMA ModuloIsRound ==
    \A a \in Indices : a % NumSigners = a /\ (a + 1) % NumSigners = Round(a + 1)
<1> SUFFICES ASSUME NEW a \in Indices
             PROVE  a % NumSigners = a /\ (a + 1) % NumSigners = Round(a + 1)
  OBVIOUS
<1>1. a \in Nat /\ a < NumSigners /\ NumSigners \in Nat \ {0}
  BY Sizes
<1>2. a % NumSigners = a
  BY <1>1
<1>3. CASE a + 1 < NumSigners
  BY <1>1, <1>2, <1>3 DEF Round
<1>4. CASE a + 1 = NumSigners
  BY <1>1, <1>2, <1>4 DEF Round
<1>. QED
  BY <1>1, <1>2, <1>3, <1>4

\* No place is visited twice, and no two signers have the same one.
LEMMA PlacesDiffer ==
    ASSUME ArraysOK
    PROVE  /\ Start \in Indices
           /\ \A k \in 1 .. NumSigners : At(k) \in Indices
           /\ \A k, l \in 1 .. NumSigners : At(k) = At(l) => k = l
           /\ \A i \in Indices : Place(i) \in Indices
           /\ \A i, j \in Indices : Place(i) = Place(j) => i = j
<1> USE Sizes
<1>1. Start \in Indices
  BY SortedIndexIsRank DEF Start, ArraysOK
<1>2. \A k \in 1 .. NumSigners : At(k) \in Indices
  BY <1>1 DEF At, Round
<1>3. \A k, l \in 1 .. NumSigners : At(k) = At(l) => k = l
  BY <1>1 DEF At, Round
<1>4. \A i \in Indices : Place(i) \in Indices
  BY SortedIndexIsRank DEF Place, ArraysOK
<1>5. ASSUME NEW i \in Indices, NEW j \in Indices, Place(i) = Place(j) PROVE i = j
  <2>1. CASE electionMethod = "lexicographic"
    <3>1. SortedIndex(signers, i) = SortedIndex(signers, j) /\ SortedIndex(signers, i) \in Indices
      BY <1>4, <1>5, <2>1 DEF Place
    <3>2. signers \in SignerArrays
      BY DEF ArraysOK
    <3>. QED
      BY <3>1, <3>2, PlaceIsTaken
  <2>2. CASE electionMethod # "lexicographic"
    BY <1>5, <2>2 DEF Place
  <2>. QED
    BY <2>1, <2>2
<1>. QED
  BY <1>1, <1>2, <1>3, <1>4, <1>5

\* The backup of the k-th signer of the list is the next one; the last has none, or the
\* first.
LEMMA BackupIsNext ==
    ASSUME ArraysOK, NEW i \in Indices, NEW k \in 1 .. NumSigners, Place(i) = At(k)
    PROVE  LET b == BackupCoordinator(signers, i, electionMethod)
           IN  \/ k < NumSigners /\ b \in Indices /\ Place(b) = At(k + 1)
               \/ k = NumSigners /\ b \in Indices /\ Place(b) = At(1)
               \/ k = NumSigners /\ b = NoIndex
<1> USE Sizes
<1> DEFINE b == BackupCoordinator(signers, i, electionMethod)
           next == IF k < NumSigners THEN At(k + 1) ELSE At(1)
<1>1. Start \in Indices
  BY PlacesDiffer
<1>0. next \in Indices
  <2>1. /\ 1 \in 1 .. NumSigners
        /\ k < NumSigners => k + 1 \in 1 .. NumSigners
    OBVIOUS
  <2>. QED
    BY <2>1, PlacesDiffer
<1>2. CASE NumSigners = 1
  BY <1>2 DEF BackupCoordinator
<1>3. ASSUME electionMethod \in Cyclic PROVE Round(At(k) + 1) = next
  BY <1>1, <1>3 DEF At, Round
<1>4. CASE NumSigners # 1 /\ electionMethod = "lexicographic"
  <2>1. b = CHOOSE j \in Indices : SortedIndex(signers, j) = (SortedIndex(signers, i) + 1) % NumSigners
    BY <1>4 DEF BackupCoordinator, NextInOrder
  <2>2. SortedIndex(signers, i) \in Indices
    BY SortedIndexIsRank DEF ArraysOK
  <2>3. (SortedIndex(signers, i) + 1) % NumSigners = next
    BY <1>3, <1>4, <2>2, ModuloIsRound DEF Place, Cyclic
  <2>4. b = CHOOSE j \in Indices : SortedIndex(signers, j) = next
    BY <2>1, <2>3
  <2> HIDE DEF b, next
  <2>5. \E j \in Indices : SortedIndex(signers, j) = next
    <3>1. signers \in SignerArrays
      BY DEF ArraysOK
    <3>. QED
      BY <1>0, <3>1, PlaceIsTaken
  <2>6. b \in Indices /\ SortedIndex(signers, b) = next
    BY <2>4, <2>5
  <2>. QED
    BY <1>4, <2>6 DEF Place, next, b
<1>5. CASE NumSigners # 1 /\ electionMethod = "hash-based"
  <2>1. b = (i + 1) % NumSigners
    BY <1>5 DEF BackupCoordinator
  <2>2. b = next
    BY <1>3, <1>5, <2>1, ModuloIsRound DEF Place, Cyclic
  <2>. QED
    BY <1>0, <1>5, <2>2 DEF Place
<1>6. CASE NumSigners # 1 /\ electionMethod = "first-signer"
  BY <1>6 DEF BackupCoordinator, Place, At, Cyclic
<1>7. CASE NumSigners # 1 /\ electionMethod = "last-signer"
  BY <1>7 DEF BackupCoordinator, Place, At, Cyclic, NoIndex
<1>. QED
  BY <1>2, <1>4, <1>5, <1>6, <1>7 DEF ArraysOK, Methods

LEMMA ListStarts == ElectionInit => ListInv
<1> SUFFICES ASSUME ElectionInit PROVE ListInv
  OBVIOUS
<1> USE Sizes
<1> DEFINE e == ElectedIndex(electionMethod, hashValue)
<1>1. ArraysOK /\ priorityList = <<e>> /\ listed = FALSE
  BY DEF ElectionInit, ArraysOK, ElectCoordinator
<1>2. e \in Indices
  BY <1>1, ElectedIsIndex DEF ArraysOK
<1>3. Place(e) = At(1)
  <2>1. hashValue \in Indices /\ hashValue % NumSigners = hashValue /\ Start \in Indices
    BY <1>1, ModuloIsRound, PlacesDiffer DEF ArraysOK
  <2>2. CASE NumSigners = 1
    <3>1. Place(e) = 0 /\ At(1) = 0
      BY <1>1, <1>2, <2>2, PlacesDiffer
    <3>. QED
      BY <3>1
  <2>3. CASE NumSigners # 1
    BY <1>1, <2>1, <2>3 DEF ElectedIndex, Place, At, Start, Round, Cyclic, ArraysOK, Methods
  <2>. QED
    BY <2>2, <2>3
<1> HIDE DEF e
<1>4. /\ priorityList \in Seq(Indices) /\ Len(priorityList) = 1
      /\ \A k \in 1 .. 1 : k = 1 /\ priorityList[k] = e
  BY <1>1, <1>2
<1>5. Len(priorityList) \in 1 .. NumSigners
  BY <1>4
<1>6. listed \in BOOLEAN /\ ~listed
  BY <1>1
<1>7. \A k \in 1 .. Len(priorityList) : Place(priorityList[k]) = At(k)
  BY <1>3, <1>4
<1>. QED
  BY <1>1, <1>4, <1>5, <1>6, <1>7 DEF ListInv

LEMMA ListGrows == ListInv /\ [ElectionNext]_electionVars => ListInv'
<1> SUFFICES ASSUME ListInv, [ElectionNext]_electionVars PROVE ListInv'
  OBVIOUS
<1> USE Sizes
<1>1. CASE UNCHANGED electionVars
  BY <1>1 DEF ListInv, ArraysOK, Place, At, Start, electionVars
<1>2. CASE ListBackup
  <2> DEFINE n == Len(priorityList)
             b == BackupCoordinator(signers, priorityList[n], electionMethod)
  <2>1. /\ UNCHANGED <<signers, electionMethod, hashValue>>
        /\ n \in 1 .. NumSigners /\ priorityList \in Seq(Indices) /\ ArraysOK
        /\ DOMAIN priorityList = 1 .. n
        /\ \A k \in 1 .. n : priorityList[k] \in Indices /\ Place(priorityList[k]) = At(k)
        /\ n \in 1 .. n /\ 1 \in 1 .. n /\ \A k \in 1 .. n : k \in 1 .. NumSigners /\ k # n + 1
    <3>1. UNCHANGED <<signers, electionMethod, hashValue>>
      BY <1>2 DEF ListBackup
    <3>2. /\ n \in 1 .. NumSigners /\ priorityList \in Seq(Indices) /\ ArraysOK
          /\ \A k \in 1 .. n : Place(priorityList[k]) = At(k)
      BY DEF ListInv
    <3>3. DOMAIN priorityList = 1 .. n /\ \A k \in 1 .. n : priorityList[k] \in Indices
      BY <3>2
    <3> HIDE DEF n
    <3>4. n \in 1 .. n /\ 1 \in 1 .. n /\ \A k \in 1 .. n : k \in 1 .. NumSigners /\ k # n + 1
      BY <3>2
    <3>. QED
      BY <3>1, <3>2, <3>3, <3>4
  <2>2. /\ ArraysOK' /\ \A k : At(k)' = At(k)
        /\ \A i : Place(i)' = Place(i)
    BY <2>1 DEF ArraysOK, At, Start, Place
  <2>3. \/ n < NumSigners /\ b \in Indices /\ Place(b) = At(n + 1)
        \/ n = NumSigners /\ b \in Indices /\ Place(b) = At(1)
        \/ n = NumSigners /\ b = NoIndex
    <3>1. priorityList[n] \in Indices /\ Place(priorityList[n]) = At(n)
      BY <2>1
    <3> HIDE DEF n
    <3>. QED
      BY <2>1, <3>1, BackupIsNext
  <2> HIDE DEF b, n
  <2> DEFINE done == b = NoIndex \/ \E k \in DOMAIN priorityList : priorityList[k] = b
  <2>4. done <=> n = NumSigners
    <3>1. CASE n < NumSigners
      <4>1. ASSUME NEW k \in 1 .. n PROVE priorityList[k] # b
        <5>1. At(k) # At(n + 1)
          <6>1. n + 1 \in 1 .. NumSigners
            BY <2>1, <3>1
          <6>. QED
            BY <2>1, <6>1, PlacesDiffer
        <5>. QED
          BY <2>1, <2>3, <3>1, <5>1
      <4>. QED
        BY <2>1, <2>3, <3>1, <4>1 DEF NoIndex
    <3>2. CASE n = NumSigners /\ b # NoIndex
      <4>1. priorityList[1] = b
        BY <2>1, <2>3, <3>2, PlacesDiffer
      <4>. QED
        BY <2>1, <3>2, <4>1
    <3>. QED
      BY <2>1, <3>1, <3>2
  <2>5. /\ listed' = done
        /\ priorityList' = IF done THEN priorityList ELSE Append(priorityList, b)
    BY <1>2 DEF ListBackup, b, n
  <2> HIDE DEF done
  <2>6. CASE done
    <3>1. priorityList' = priorityList /\ listed' = TRUE /\ n = NumSigners
      BY <2>4, <2>5, <2>6
    <3>. QED
      BY <2>1, <2>2, <3>1 DEF ListInv, n
  <2>7. CASE ~done
    <3>1. /\ priorityList' = Append(priorityList, b) /\ listed' = FALSE
          /\ n < NumSigners /\ b \in Indices /\ Place(b) = At(n + 1)
      BY <2>1, <2>3, <2>4, <2>5, <2>7
    <3>2. /\ priorityList' \in Seq(Indices) /\ Len(priorityList') = n + 1
          /\ \A k \in 1 .. n : priorityList'[k] = priorityList[k]
          /\ priorityList'[n + 1] = b
      BY <2>1, <3>1 DEF n
    <3>3. ASSUME NEW k \in 1 .. n + 1 PROVE Place(priorityList'[k]) = At(k)
      <4>1. k = n + 1 \/ k \in 1 .. n
        BY <2>1
      <4>. QED
        BY <2>1, <3>1, <3>2, <4>1
    <3>4. Len(priorityList') \in 1 .. NumSigners /\ Len(priorityList') = n + 1
      BY <2>1, <3>1, <3>2
    <3>5. listed' \in BOOLEAN /\ ~listed'
      BY <3>1
    <3>6. \A k \in 1 .. Len(priorityList') : (Place(priorityList[k]) = At(k))'
      BY <2>1, <3>3, <3>4 DEF Place, At, Start
    <3>. QED
      BY <2>2, <3>2, <3>4, <3>5, <3>6 DEF ListInv
  <2>. QED
    BY <2>6, <2>7
<1>. QED
  BY <1>1, <1>2 DEF ElectionNext

LEMMA ListInvariant == ElectionSpec => []ListInv
  BY ListStarts, ListGrows, PTL DEF ElectionSpec

\* For any number of signers, every variable of the election has its type.
THEOREM ElectionTypeCorrect == ElectionSpec => []ElectionTypeOK
<1>1. ListInv => ElectionTypeOK
  BY DEF ListInv, ArraysOK, ElectionTypeOK
<1>. QED
  BY <1>1, ListInvariant, PTL

\* An array that is in order is the sorted array.
LEMMA InOrderIsSorted ==
    ASSUME NEW s \in SignerArrays, InOrder(s), NEW i \in Indices PROVE s[i] = i + 1
<1> USE Sizes
<1>1. s \in [Indices -> Keys] /\ \A j \in Indices : s[j] \in Nat
  BY DEF SignerArrays, Keys
<1>2. {j \in Indices : s[j] < s[i]} = 0 .. i - 1
  <2>1. ASSUME NEW j \in Indices PROVE s[j] < s[i] <=> j < i
    <3>1. j < i => s[j] < s[i]
      BY DEF InOrder
    <3>2. i < j => s[i] < s[j]
      BY DEF InOrder
    <3>. QED
      BY <1>1, <3>1, <3>2
  <2>. QED
    BY <2>1
<1>3. i - 1 \in Int /\ Cardinality(0 .. i - 1) = i
  BY FS_Interval
<1>4. SortedIndex(s, i) = i
  BY <1>2, <1>3 DEF SortedIndex
<1>5. SortedIndex(s, i) = s[i] - 1
  BY SortedIndexIsRank
<1>. QED
  BY <1>1, <1>4, <1>5

\* For any number of signers and each method, the list of who takes over names the key of
\* every signer once when it ends: whatever the order of the array for the methods that
\* count in the sorted one, and for arrays in order with the lexicographic method.
THEOREM NobodyIsLeftOut == ElectionSpec => []BackupsReachEveryone
<1>1. ListInv => BackupsReachEveryone
  <2> SUFFICES ASSUME ListInv, listed, electionMethod = "lexicographic" => InOrder(signers)
               PROVE  /\ Len(priorityList) = NumSigners
                      /\ {Named(k) : k \in DOMAIN priorityList} = Keys
    BY DEF BackupsReachEveryone
  <2>1. /\ Len(priorityList) = NumSigners /\ ArraysOK
        /\ DOMAIN priorityList = 1 .. NumSigners
        /\ \A k \in 1 .. NumSigners : priorityList[k] \in Indices /\ Place(priorityList[k]) = At(k)
    BY DEF ListInv
  <2>2. priorityList \in [1 .. NumSigners -> Indices]
    BY <2>1 DEF ListInv
  <2>3. priorityList \in Injection(1 .. NumSigners, Indices)
    BY <2>1, <2>2, PlacesDiffer DEF Injection, IsInjective
  <2>4. Cardinality(1 .. NumSigners) = Cardinality(Indices)
    BY Sizes, FS_Interval
  <2>5. priorityList \in Surjection(1 .. NumSigners, Indices)
    BY <2>3, <2>4, Sizes, FS_Injection
  <2>6. ASSUME NEW k \in 1 .. NumSigners PROVE Named(k) = priorityList[k] + 1
    <3>1. priorityList[k] \in Indices /\ signers \in SignerArrays
      BY <2>1 DEF ArraysOK
    <3>2. SortedSigners(signers)[priorityList[k]] = priorityList[k] + 1
      BY <3>1, SortedSignersAreKeys
    <3>3. electionMethod = "lexicographic" => signers[priorityList[k]] = priorityList[k] + 1
      BY <3>1, InOrderIsSorted
    <3>. QED
      BY <3>2, <3>3 DEF Named
  <2>7. \A key \in Keys : \E k \in 1 .. NumSigners : Named(k) = key
    <3> SUFFICES ASSUME NEW key \in Keys PROVE \E k \in 1 .. NumSigners : Named(k) = key
      OBVIOUS
    <3>1. key - 1 \in Indices /\ key \in Int
      BY Sizes DEF Keys
    <3>2. PICK k \in 1 .. NumSigners : priorityList[k] = key - 1
      BY <2>5, <3>1 DEF Surjection
    <3>. QED
      BY <2>6, <3>1, <3>2
  <2>8. ASSUME NEW k \in 1 .. NumSigners PROVE Named(k) \in Keys
    <3>1. Named(k) = priorityList[k] + 1 /\ priorityList[k] \in 0 .. NumSigners - 1
      BY <2>1, <2>6, Sizes
    <3>. QED
      BY <3>1, Sizes DEF Keys
  <2>. QED
    BY <2>1, <2>7, <2>8
<1>. QED
  BY <1>1, ListInvariant, PTL
=============================================================================
