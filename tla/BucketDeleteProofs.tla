-------------------------- MODULE BucketDeleteProofs --------------------------
(***************************************************************************)
(* Proofs about BucketDelete: for any number of keys, requests and keys in  *)
(* a page, a folder delete that returns without an error has deleted what   *)
(* the folder held when it began, and the size of a folder counts every     *)
(* object that was there all along once and none twice.                     *)
(***************************************************************************)
EXTENDS BucketDelete, FiniteSetTheorems, TLAPS

\* What a list of some page means: the page is the first keys after the token.
LEMMA ListingMeaning ==
    ASSUME NEW t \in 0 .. NumKeys, NEW page, NEW last \in 0 .. NumKeys,
           bucket \subseteq Keys, Listing(t, page, last)
    PROVE  /\ page \subseteq Keys
           /\ \A k \in bucket : k > t => k \in page \/ k > last
           /\ page = After(t) => \A k \in bucket : k > t => k \in page
           /\ page = {} => \A k \in bucket : ~(k > t)
<1> USE DEF After, Keys
<1>1. CASE After(t) = {} /\ page = {} /\ last = t
  BY <1>1
<1>2. CASE last \in After(t) /\ page = UpTo(After(t), last)
  BY <1>2, ConstantsAssumption DEF UpTo
<1> QED BY <1>1, <1>2 DEF Listing

LEMMA PagesAreCounted ==
    ASSUME NEW S \in SUBSET Keys PROVE Cardinality(S) \in Nat
<1>1. IsFiniteSet(Keys)
  BY FS_Interval, ConstantsAssumption DEF Keys
<1>2. IsFiniteSet(S)
  BY <1>1, FS_Subset
<1> QED BY <1>2, FS_CardinalityType

\* Every reachable state has the types the program gives its variables.
THEOREM TypeCorrect == Spec => []TypeOK
<1>1. Init => TypeOK
  BY ConstantsAssumption DEF Init, TypeOK, Requests
<1>2. TypeOK /\ [Next]_vars => TypeOK'
  <2> SUFFICES ASSUME TypeOK, [Next]_vars PROVE TypeOK'
    OBVIOUS
  <2> USE ConstantsAssumption DEF TypeOK, Requests, Set
  <2>1. ASSUME NEW k \in Keys, Put(k) PROVE TypeOK'
    BY <2>1 DEF Put, request
  <2>2. ASSUME NEW k \in Keys, DeleteKey(k) PROVE TypeOK'
    BY <2>2 DEF DeleteKey, request
  <2>3. ASSUME NEW r \in Requests, Begin(r) PROVE TypeOK'
    <3>1. ever' \in [Sizes -> SUBSET Keys]
      BY <2>3 DEF Begin
    <3> QED BY <2>3, <3>1 DEF Begin
  <2>4. ASSUME NEW r \in Requests, List(r) PROVE TypeOK'
    <3>1. PICK page \in SUBSET Keys, last \in 0 .. NumKeys :
              /\ Listing(token[r], page, last)
              /\ batch' = [batch EXCEPT ![r] = page]
              /\ truncated' = [truncated EXCEPT ![r] = page # After(token[r])]
              /\ token' = [token EXCEPT ![r] = last]
              /\ pc' = [pc EXCEPT ![r] = IF page = {} THEN "done" ELSE "delete"]
      BY <2>4 DEF List, NextToken, AfterList
    <3>2. UNCHANGED <<bucket, count, old, ever>> /\ pc[r] = "list"
      BY <2>4 DEF List
    <3>3. (page # After(token[r])) \in BOOLEAN
      OBVIOUS
    <3>4. truncated' \in [Requests -> BOOLEAN]
      BY <3>1, <3>3
    <3>5. \A q \in Requests : pc'[q] = "delete" => batch'[q] # {}
      BY <3>1
    <3> QED BY <3>1, <3>2, <3>4, <3>5
  <2>5. ASSUME NEW r \in Requests, DeleteObjects(r) PROVE TypeOK'
    BY <2>5 DEF DeleteObjects, GoOn
  <2>6. ASSUME NEW r \in Requests, AddUp(r) PROVE TypeOK'
    <3>1. PICK page \in SUBSET Keys, last \in 0 .. NumKeys :
              /\ Listing(token[r], page, last)
              /\ count' = [count EXCEPT ![r] = count[r] + Cardinality(page)]
              /\ truncated' = [truncated EXCEPT ![r] = page # After(token[r])]
              /\ token' = [token EXCEPT ![r] = last]
              /\ pc' = [pc EXCEPT ![r] = GoOn(page # After(token[r]))]
      BY <2>6 DEF AddUp, NextToken
    <3>2. UNCHANGED <<bucket, batch, old, ever>> /\ pc[r] = "list" /\ r \in Sizes
      BY <2>6 DEF AddUp
    <3>3. (page # After(token[r])) \in BOOLEAN
      OBVIOUS
    <3>4. truncated' \in [Requests -> BOOLEAN]
      BY <3>1, <3>3
    <3>5. count' \in [Sizes -> Nat]
      BY <3>1, <3>2, PagesAreCounted
    <3>6. \A q \in Requests : pc'[q] = "delete" => batch'[q] # {}
      BY <3>1, <3>2 DEF GoOn
    <3> QED BY <3>1, <3>2, <3>4, <3>5, <3>6 DEF GoOn
  <2>7. ASSUME NEW r \in Requests, Fails(r) PROVE TypeOK'
    BY <2>7 DEF Fails
  <2>8. CASE UNCHANGED vars
    BY <2>8 DEF vars, request
  <2> QED BY <2>1, <2>2, <2>3, <2>4, <2>5, <2>6, <2>7, <2>8 DEF Next, Step
<1> QED BY <1>1, <1>2, PTL DEF Spec

-------------------------------------------------------------------------------
(* What is left of the folder lies ahead of the request.                    *)

\* Of the objects a delete must still remove, those it has not listed come
\* after its token, and only while the list was truncated are there any.
AheadOf(r) ==
    /\ pc[r] = "new" => token[r] = 0
    /\ pc[r] = "list" => \A k \in old[r] \cap bucket : k > token[r]
    /\ pc[r] = "delete" =>
        \A k \in old[r] \cap bucket : k \in batch[r] \/ (truncated[r] /\ k > token[r])
    /\ pc[r] = "done" => old[r] \cap bucket = {}

DeleteInv == \A r \in Deletes : AheadOf(r)

\* A request is ahead as before if its own state is as before and it has to
\* remove no more than before.
LEMMA AheadOfOthers ==
    ASSUME NEW r \in Deletes, AheadOf(r),
           pc'[r] = pc[r], token'[r] = token[r], batch'[r] = batch[r],
           truncated'[r] = truncated[r],
           old'[r] \cap bucket' \subseteq old[r] \cap bucket
    PROVE  AheadOf(r)'
BY DEF AheadOf

\* When deleteByPrefix returns without an error, and DeleteObjects left out no
\* key, no object is left that was in the folder when it began.
THEOREM AllContentsDeletedCorrect ==
    ASSUME ~KeyErrors PROVE Spec => []AllContentsDeleted
<1>1. Init => DeleteInv
  BY DEF Init, DeleteInv, AheadOf, Requests
<1>2. TypeOK /\ DeleteInv /\ [Next]_vars => DeleteInv'
  <2> SUFFICES ASSUME TypeOK, DeleteInv, [Next]_vars, NEW d \in Deletes
               PROVE  AheadOf(d)'
    BY DEF DeleteInv
  <2> USE ConstantsAssumption DEF DeleteInv, TypeOK, Requests, Set
  <2>1. ASSUME NEW k \in Keys, Put(k) \/ DeleteKey(k) PROVE AheadOf(d)'
    <3>1. UNCHANGED request
      BY <2>1 DEF Put, DeleteKey
    <3>2. old'[d] \cap bucket' \subseteq old[d] \cap bucket
      BY <2>1 DEF Put, DeleteKey
    <3> QED BY <3>1, <3>2, AheadOfOthers DEF request
  <2>2. ASSUME NEW r \in Requests, Begin(r) PROVE AheadOf(d)'
    <3>1. CASE r = d
      <4>1. pc'[d] = "list" /\ token'[d] = 0 /\ bucket' = bucket
        BY <2>2, <3>1 DEF Begin, AheadOf
      <4>2. \A k \in Keys : k > 0
        BY DEF Keys
      <4> QED BY <4>1, <4>2 DEF AheadOf
    <3>2. CASE r # d
      BY <2>2, <3>2, AheadOfOthers DEF Begin
    <3> QED BY <3>1, <3>2
  <2>3. ASSUME NEW r \in Requests, List(r) PROVE AheadOf(d)'
    <3>1. PICK page \in SUBSET Keys, last \in 0 .. NumKeys :
              /\ Listing(token[r], page, last)
              /\ batch' = [batch EXCEPT ![r] = page]
              /\ truncated' = [truncated EXCEPT ![r] = page # After(token[r])]
              /\ token' = [token EXCEPT ![r] = last]
              /\ pc' = [pc EXCEPT ![r] = IF page = {} THEN "done" ELSE "delete"]
      BY <2>3 DEF List, NextToken, AfterList
    <3>2. UNCHANGED <<bucket, old>> /\ pc[r] = "list"
      BY <2>3 DEF List
    <3>3. CASE r = d
      <4>1. \A k \in old[d] \cap bucket : k \in bucket /\ k > token[d]
        BY <3>2, <3>3 DEF AheadOf
      <4>2. /\ \A k \in bucket : k > token[d] => k \in page \/ k > last
            /\ page = After(token[d]) => \A k \in bucket : k > token[d] => k \in page
            /\ page = {} => \A k \in bucket : ~(k > token[d])
        BY <3>1, <3>3, ListingMeaning
      <4>3. /\ batch'[d] = page /\ token'[d] = last
            /\ truncated'[d] = (page # After(token[d]))
            /\ pc'[d] = IF page = {} THEN "done" ELSE "delete"
        BY <3>1, <3>3
      <4>4. pc'[d] = "done" => old'[d] \cap bucket' = {}
        BY <3>2, <4>1, <4>2, <4>3
      <4>5. pc'[d] = "delete" =>
              \A k \in old'[d] \cap bucket' :
                  k \in batch'[d] \/ (truncated'[d] /\ k > token'[d])
        BY <3>2, <4>1, <4>2, <4>3
      <4>6. pc'[d] # "list" /\ pc'[d] # "new"
        BY <4>3
      <4> QED BY <4>4, <4>5, <4>6 DEF AheadOf
    <3>4. CASE r # d
      BY <3>1, <3>2, <3>4, AheadOfOthers
    <3> QED BY <3>3, <3>4
  <2>4. ASSUME NEW r \in Requests, DeleteObjects(r) PROVE AheadOf(d)'
    <3>1. /\ bucket' = bucket \ batch[r]
          /\ old'[d] \subseteq old[d]
          /\ pc[r] = "delete"
          /\ pc' = [pc EXCEPT ![r] = IF truncated[r] THEN "list" ELSE "done"]
          /\ UNCHANGED <<token, truncated>>
          /\ r # d => batch'[d] = batch[d]
      BY <2>4 DEF DeleteObjects, GoOn
    <3>2. CASE r = d
      <4>1. \A k \in old'[d] \cap bucket' : truncated[d] /\ k > token[d]
        BY <3>1, <3>2 DEF AheadOf
      <4> QED BY <3>1, <3>2, <4>1 DEF AheadOf
    <3>3. CASE r # d
      BY <3>1, <3>3, AheadOfOthers
    <3> QED BY <3>2, <3>3
  <2>5. ASSUME NEW r \in Requests, AddUp(r) PROVE AheadOf(d)'
    <3>1. CASE r = d
      BY <2>5, <3>1 DEF AddUp   \* impossible: d is a delete
    <3>2. CASE r # d
      BY <2>5, <3>2, AheadOfOthers DEF AddUp
    <3> QED BY <3>1, <3>2
  <2>6. ASSUME NEW r \in Requests, Fails(r) PROVE AheadOf(d)'
    <3>1. CASE r = d
      BY <2>6, <3>1 DEF Fails, AheadOf
    <3>2. CASE r # d
      BY <2>6, <3>2, AheadOfOthers DEF Fails
    <3> QED BY <3>1, <3>2
  <2>7. CASE UNCHANGED vars
    BY <2>7, AheadOfOthers DEF vars, request
  <2> QED BY <2>1, <2>2, <2>3, <2>4, <2>5, <2>6, <2>7 DEF Next, Step
<1>3. DeleteInv => AllContentsDeleted
  BY DEF DeleteInv, AheadOf, AllContentsDeleted
<1> QED BY <1>1, <1>2, <1>3, TypeCorrect, PTL DEF Spec
-------------------------------------------------------------------------------
(* What a measurement has counted lies behind its token.                    *)

\* The objects on the pages read so far are between those that were there all
\* along and those that were there at some time.
CountedUpTo(r, last) ==
    /\ Cardinality(UpTo(old[r], last)) <= count[r]
    /\ count[r] <= Cardinality(UpTo(ever[r], last))

\* A running request knows the bucket: what it calls old is there, and what is
\* there it has seen.
Bracketed(r) ==
    /\ old[r] \subseteq ever[r]
    /\ pc[r] # "new" => old[r] \subseteq bucket /\ bucket \subseteq ever[r]
SizeOf(r) ==
    /\ Bracketed(r)
    /\ pc[r] = "new" => old[r] = {} /\ token[r] = 0 /\ count[r] = 0
    /\ pc[r] = "list" => CountedUpTo(r, token[r])
    /\ pc[r] = "done" => CountedUpTo(r, NumKeys)
SizeInv == \A r \in Sizes : SizeOf(r)
LEMMA KeysAreFinite ==
    ASSUME NEW S \in SUBSET Keys PROVE IsFiniteSet(S)
<1>1. IsFiniteSet(Keys)
  BY FS_Interval, ConstantsAssumption DEF Keys
<1> QED BY <1>1, FS_Subset

LEMMA KeysAreNumbers == \A k \in Keys : k \in Nat /\ 0 < k /\ k <= NumKeys
BY ConstantsAssumption DEF Keys

LEMMA CountGrows ==
    ASSUME NEW S \in SUBSET Keys, NEW T \in SUBSET S
    PROVE  Cardinality(T) <= Cardinality(S)
BY KeysAreFinite, FS_Subset

\* A page adds what lies between two tokens: nothing that was there all along is
\* missing from it, and nothing on it was on an earlier one.
LEMMA PageIsAdded ==
    ASSUME NEW t \in 0 .. NumKeys, NEW last \in 0 .. NumKeys, t <= last,
           NEW O \in SUBSET Keys, NEW E \in SUBSET Keys, NEW page \in SUBSET Keys,
           \A k \in page : t < k /\ k <= last /\ k \in E,
           \A k \in O : t < k /\ k <= last => k \in page,
           NEW n \in Nat, Cardinality(UpTo(O, t)) <= n, n <= Cardinality(UpTo(E, t))
    PROVE  /\ Cardinality(UpTo(O, last)) <= n + Cardinality(page)
           /\ n + Cardinality(page) <= Cardinality(UpTo(E, last))
<1> DEFINE A == UpTo(O, t)
           B == UpTo(E, t)
<1>0. A \in SUBSET Keys /\ B \in SUBSET Keys /\ UpTo(E, last) \in SUBSET Keys
  BY DEF UpTo
<1>1. UpTo(O, last) \subseteq A \cup page
  <2> SUFFICES ASSUME NEW k \in O, k <= last, k \notin page PROVE k <= t
    BY DEF UpTo
  <2> QED BY KeysAreNumbers
<1>2. B \cup page \subseteq UpTo(E, last) /\ B \cap page = {}
  <2>1. \A k \in B : k \in E /\ k <= t /\ k <= last /\ k \notin page
    BY KeysAreNumbers, ConstantsAssumption DEF UpTo
  <2> QED BY <2>1 DEF UpTo
<1>3. IsFiniteSet(A) /\ IsFiniteSet(B) /\ IsFiniteSet(page)
  BY <1>0, KeysAreFinite
<1>4. /\ Cardinality(A) \in Nat /\ Cardinality(B) \in Nat /\ Cardinality(page) \in Nat
      /\ Cardinality(A \cap page) \in Nat /\ Cardinality(UpTo(O, last)) \in Nat
      /\ Cardinality(UpTo(E, last)) \in Nat
  BY <1>0, PagesAreCounted DEF UpTo
<1>5. Cardinality(UpTo(O, last)) <= Cardinality(A \cup page)
  BY <1>0, <1>1, CountGrows
<1>6. Cardinality(A \cup page) = Cardinality(A) + Cardinality(page) - Cardinality(A \cap page)
  BY <1>3, FS_Union
<1>7. Cardinality(B \cup page) <= Cardinality(UpTo(E, last))
  BY <1>0, <1>2, CountGrows
<1>8. Cardinality(B \cup page) = Cardinality(B) + Cardinality(page)
  <2>1. Cardinality(B \cup page) = Cardinality(B) + Cardinality(page) - Cardinality(B \cap page)
    BY <1>3, FS_Union
  <2>2. Cardinality(B \cap page) = 0
    BY <1>2, FS_EmptySet
  <2> QED BY <2>1, <2>2, <1>4
<1>9. Cardinality(A) <= n /\ n <= Cardinality(B)
  OBVIOUS
<1> HIDE DEF A, B
<1> QED BY <1>4, <1>5, <1>6, <1>7, <1>8, <1>9

\* A measurement is as right as before if its own state is as before, it calls
\* no more objects old than before and no fewer seen.
LEMMA SizeOfOthers ==
    ASSUME TypeOK, TypeOK', NEW r \in Sizes, SizeOf(r), Bracketed(r)',
           pc'[r] = pc[r], token'[r] = token[r], count'[r] = count[r],
           old'[r] \subseteq old[r], ever[r] \subseteq ever'[r]
    PROVE  SizeOf(r)'
<1>1. /\ old[r] \in SUBSET Keys /\ ever[r] \in SUBSET Keys
      /\ old'[r] \in SUBSET Keys /\ ever'[r] \in SUBSET Keys /\ count[r] \in Nat
  BY DEF TypeOK, Requests
<1>2. ASSUME NEW last, CountedUpTo(r, last)
      PROVE  /\ Cardinality(UpTo(old'[r], last)) <= count[r]
             /\ count[r] <= Cardinality(UpTo(ever'[r], last))
  <2>1. Cardinality(UpTo(old'[r], last)) <= Cardinality(UpTo(old[r], last))
    <3>1. UpTo(old'[r], last) \subseteq UpTo(old[r], last) /\ UpTo(old[r], last) \in SUBSET Keys
      BY <1>1 DEF UpTo
    <3> QED BY <3>1, CountGrows
  <2>2. Cardinality(UpTo(ever[r], last)) <= Cardinality(UpTo(ever'[r], last))
    <3>1. UpTo(ever[r], last) \subseteq UpTo(ever'[r], last) /\ UpTo(ever'[r], last) \in SUBSET Keys
      BY <1>1 DEF UpTo
    <3> QED BY <3>1, CountGrows
  <2>3. \A S \in SUBSET Keys : Cardinality(UpTo(S, last)) \in Nat
    BY PagesAreCounted DEF UpTo
  <2> QED BY <1>1, <1>2, <2>1, <2>2, <2>3 DEF CountedUpTo
<1>3. pc'[r] = "new" => old'[r] = {} /\ token'[r] = 0 /\ count'[r] = 0
  BY DEF SizeOf
<1> QED BY <1>2, <1>3 DEF SizeOf, CountedUpTo, UpTo

\* However uploads and deletions fall between the pages, a size that is reported
\* counts each object that was there all along once, and none twice.
THEOREM SizeIsHonestCorrect == Spec => []SizeIsHonest
<1>1. Init => SizeInv
  BY ConstantsAssumption DEF Init, SizeInv, SizeOf, Bracketed, Requests
<1>2. TypeOK /\ TypeOK' /\ SizeInv /\ [Next]_vars => SizeInv'
  <2> SUFFICES ASSUME TypeOK, TypeOK', SizeInv, [Next]_vars, NEW s \in Sizes
               PROVE  SizeOf(s)'
    BY DEF SizeInv
  <2>s. s \in Requests /\ s \notin Deletes /\ SizeOf(s) /\ Bracketed(s)
    BY ConstantsAssumption DEF Requests, SizeInv, SizeOf
  <2>t. /\ pc \in [Requests -> {"new", "list", "delete", "done", "failed"}]
        /\ token \in [Requests -> 0 .. NumKeys] /\ count \in [Sizes -> Nat]
        /\ old \in [Requests -> SUBSET Keys] /\ ever \in [Sizes -> SUBSET Keys]
        /\ bucket \subseteq Keys
    BY DEF TypeOK
  <2> USE DEF Set
  <2>1. ASSUME NEW k \in Keys, Put(k) PROVE SizeOf(s)'
    <3>1. /\ bucket' = bucket \cup {k} /\ old'[s] = old[s] \ {k}
          /\ ever'[s] = ever[s] \cup {k} /\ UNCHANGED request
      BY <2>1, <2>s DEF Put
    <3>2. Bracketed(s)'
      BY <3>1, <2>s DEF Bracketed, request
    <3> QED BY <3>1, <3>2, <2>s, SizeOfOthers DEF request
  <2>2. ASSUME NEW k \in Keys, DeleteKey(k) PROVE SizeOf(s)'
    <3>1. /\ bucket' = bucket \ {k} /\ old'[s] = old[s] \ {k}
          /\ ever' = ever /\ UNCHANGED request
      BY <2>2, <2>s DEF DeleteKey
    <3>2. Bracketed(s)'
      BY <3>1, <2>s DEF Bracketed, request
    <3> QED BY <3>1, <3>2, <2>s, SizeOfOthers DEF request
  <2>3. ASSUME NEW r \in Requests, Begin(r) PROVE SizeOf(s)'
    <3>1. CASE r = s
      <4>1. /\ pc[s] = "new" /\ pc'[s] = "list" /\ old'[s] = bucket /\ ever'[s] = bucket
            /\ UNCHANGED <<bucket, token, count>>
        BY <2>3, <3>1, <2>s, <2>t DEF Begin
      <4>2. token'[s] = 0 /\ count'[s] = 0
        BY <4>1, <2>s DEF SizeOf
      <4>3. UpTo(bucket, 0) = {}
        BY <2>t, KeysAreNumbers DEF UpTo
      <4>4. CountedUpTo(s, token[s])'
        BY <4>1, <4>2, <4>3, FS_EmptySet DEF CountedUpTo, UpTo
      <4> QED BY <4>1, <4>4 DEF SizeOf, Bracketed
    <3>2. CASE r # s
      <4>1. /\ pc'[s] = pc[s] /\ old'[s] = old[s] /\ ever'[s] = ever[s]
            /\ UNCHANGED <<bucket, token, count>>
        BY <2>3, <3>2, <2>s, <2>t DEF Begin
      <4>2. Bracketed(s)'
        BY <4>1, <2>s DEF Bracketed
      <4> QED BY <4>1, <4>2, <2>s, SizeOfOthers
    <3> QED BY <3>1, <3>2
  <2>4. ASSUME NEW r \in Requests, List(r) PROVE SizeOf(s)'
    <3>1. r # s /\ UNCHANGED <<bucket, count, old, ever>>
      BY <2>4, <2>s DEF List
    <3>2. pc'[s] = pc[s] /\ token'[s] = token[s]
      BY <2>4, <3>1, <2>s, <2>t DEF List
    <3>3. Bracketed(s)'
      BY <3>1, <3>2, <2>s DEF Bracketed
    <3> QED BY <3>1, <3>2, <3>3, <2>s, SizeOfOthers
  <2>5. ASSUME NEW r \in Requests, DeleteObjects(r) PROVE SizeOf(s)'
    <3>1. r # s /\ UNCHANGED <<token, count, ever>> /\ pc'[s] = pc[s]
      BY <2>5, <2>s, <2>t DEF DeleteObjects
    <3>2. PICK gone : bucket' = bucket \ gone /\ old'[s] = old[s] \ gone
      BY <2>5, <2>s DEF DeleteObjects
    <3>3. Bracketed(s)'
      BY <3>1, <3>2, <2>s DEF Bracketed
    <3> QED BY <3>1, <3>2, <3>3, <2>s, SizeOfOthers
  <2>6. ASSUME NEW r \in Requests, AddUp(r) PROVE SizeOf(s)'
    <3>0. UNCHANGED <<bucket, old, ever>> /\ r \in Sizes /\ pc[r] = "list"
      BY <2>6 DEF AddUp
    <3>1. PICK page \in SUBSET Keys, last \in 0 .. NumKeys :
              /\ Listing(token[r], page, last)
              /\ count' = [count EXCEPT ![r] = count[r] + Cardinality(page)]
              /\ token' = [token EXCEPT ![r] = last]
              /\ pc' = [pc EXCEPT ![r] = GoOn(page # After(token[r]))]
      BY <2>6 DEF AddUp, NextToken
    <3>2. CASE r # s
      <4>1. pc'[s] = pc[s] /\ token'[s] = token[s] /\ count'[s] = count[s]
        BY <3>1, <3>2, <2>s, <2>t
      <4>2. Bracketed(s)'
        BY <3>0, <4>1, <2>s DEF Bracketed
      <4> QED BY <3>0, <4>1, <4>2, <2>s, SizeOfOthers
    <3>3. CASE r = s
      <4> DEFINE t == token[s]
      <4>1. /\ pc'[s] = (IF page # After(t) THEN "list" ELSE "done")
            /\ token'[s] = last /\ count'[s] = count[s] + Cardinality(page)
        BY <3>1, <3>3, <2>s, <2>t DEF GoOn
      <4>2. /\ t \in 0 .. NumKeys /\ t <= last
            /\ \A k \in page : k \in bucket /\ t < k /\ k <= last
            /\ \A k \in bucket : t < k /\ k <= last => k \in page
            /\ page = After(t) => \A k \in bucket : t < k => k \in page
        <5>1. t \in 0 .. NumKeys /\ Listing(t, page, last)
          BY <3>1, <3>3, <2>s, <2>t
        <5>2. CASE After(t) = {} /\ page = {} /\ last = t
          BY <5>1, <5>2, <2>t DEF After, Keys
        <5>3. CASE last \in After(t) /\ page = UpTo(After(t), last)
          BY <5>1, <5>3, <2>t, ConstantsAssumption DEF After, UpTo, Keys
        <5> HIDE DEF t
        <5> QED BY <5>1, <5>2, <5>3 DEF Listing
      <4>3. /\ old[s] \subseteq bucket /\ bucket \subseteq ever[s]
            /\ old[s] \in SUBSET Keys /\ ever[s] \in SUBSET Keys /\ count[s] \in Nat
            /\ CountedUpTo(s, t)
        BY <3>0, <3>3, <2>s, <2>t DEF SizeOf, Bracketed
      <4> HIDE DEF t
      <4>4. ASSUME NEW upto \in 0 .. NumKeys, t <= upto, \A k \in page : k <= upto,
                   \A k \in bucket : t < k /\ k <= upto => k \in page
            PROVE  CountedUpTo(s, upto)'
        <5>1. /\ \A k \in page : t < k /\ k <= upto /\ k \in ever[s]
              /\ \A k \in old[s] : t < k /\ k <= upto => k \in page
              /\ Cardinality(UpTo(old[s], t)) <= count[s]
              /\ count[s] <= Cardinality(UpTo(ever[s], t))
          BY <4>2, <4>3, <4>4 DEF CountedUpTo
        <5>2. /\ Cardinality(UpTo(old[s], upto)) <= count[s] + Cardinality(page)
              /\ count[s] + Cardinality(page) <= Cardinality(UpTo(ever[s], upto))
          BY <4>2, <4>3, <4>4, <5>1, PageIsAdded
        <5> QED BY <5>2, <4>1, <3>0 DEF CountedUpTo, UpTo
      <4>5. CASE pc'[s] = "list"
        <5>1. CountedUpTo(s, last)'
          BY <4>2, <4>4
        <5> QED BY <4>1, <4>3, <4>5, <5>1, <3>0 DEF SizeOf, Bracketed, CountedUpTo
      <4>6. CASE pc'[s] = "done"
        <5>1. page = After(t)
          BY <4>1, <4>6
        <5>2. CountedUpTo(s, NumKeys)'
          BY <4>2, <4>4, <5>1, ConstantsAssumption DEF Keys
        <5> QED BY <4>3, <4>6, <5>2, <3>0 DEF SizeOf, Bracketed
      <4> QED BY <4>1, <4>5, <4>6
    <3> QED BY <3>2, <3>3
  <2>7. ASSUME NEW r \in Requests, Fails(r) PROVE SizeOf(s)'
    <3>1. UNCHANGED <<bucket, token, count, old, ever>>
      BY <2>7 DEF Fails
    <3>2. CASE r = s
      <4>1. pc'[s] = "failed" /\ pc[s] # "new"
        BY <2>7, <3>2, <2>s, <2>t DEF Fails
      <4> QED BY <3>1, <4>1, <2>s DEF SizeOf, Bracketed
    <3>3. CASE r # s
      <4>1. pc'[s] = pc[s]
        BY <2>7, <3>3, <2>s, <2>t DEF Fails
      <4>2. Bracketed(s)'
        BY <3>1, <4>1, <2>s DEF Bracketed
      <4> QED BY <3>1, <4>1, <4>2, <2>s, SizeOfOthers
    <3> QED BY <3>2, <3>3
  <2>8. CASE UNCHANGED vars
    <3>1. Bracketed(s)'
      BY <2>8, <2>s DEF vars, request, Bracketed
    <3> QED BY <2>8, <3>1, <2>s, SizeOfOthers DEF vars, request
  <2> QED BY <2>1, <2>2, <2>3, <2>4, <2>5, <2>6, <2>7, <2>8 DEF Next, Step
<1>3. TypeOK /\ SizeInv => SizeIsHonest
  <2> SUFFICES ASSUME TypeOK, SizeInv, NEW s \in Sizes, pc[s] = "done"
               PROVE  Cardinality(old[s]) <= count[s] /\ count[s] <= Cardinality(ever[s])
    BY DEF SizeIsHonest
  <2>1. old[s] \in SUBSET Keys /\ ever[s] \in SUBSET Keys
    BY DEF TypeOK, Requests
  <2>2. \A S \in SUBSET Keys : UpTo(S, NumKeys) = S
    BY KeysAreNumbers DEF UpTo
  <2> QED BY <2>1, <2>2 DEF SizeInv, SizeOf, CountedUpTo
<1> QED BY <1>1, <1>2, <1>3, TypeCorrect, PTL DEF Spec
===============================================================================
