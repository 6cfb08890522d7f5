---------------------------- MODULE BucketDelete ----------------------------
(***************************************************************************)
(* The object sidecar of the Garage admin page (garage-webadmin/sidecar,    *)
(* main.go).  Each request runs in a goroutine of its own and talks to the  *)
(* bucket alone: deleting a folder lists it page by page and deletes each   *)
(* page, measuring one lists it page by page and adds up, and uploads,      *)
(* folder creations and single deletes of other requests go on meanwhile.   *)
(*                                                                          *)
(* Keys are the keys of one folder, numbered in listing order.              *)
(***************************************************************************)
EXTENDS Integers, FiniteSets

CONSTANTS
    NumKeys,
    Deletes, Sizes,   \* requests: DELETE /delete?prefix=, GET /size
    MaxKeys,          \* of one ListObjectsV2
    CanFail,          \* environment: a call may fail, a client may hang up
    KeyErrors         \* environment: DeleteObjects may leave some keys

ASSUME ConstantsAssumption ==
    /\ NumKeys \in Nat /\ MaxKeys \in Nat \ {0}
    /\ Deletes \cap Sizes = {}
    /\ CanFail \in BOOLEAN /\ KeyErrors \in BOOLEAN

Keys == 1 .. NumKeys

VARIABLES
    bucket,     \* the keys that exist
    pc,         \* request -> "new", "list", "delete", "done", "failed"
    token,      \* request -> where the next page starts: after this key
    batch,      \* request -> objs, the page being deleted
    truncated,  \* request -> out.IsTruncated
    count,      \* size request -> objects added up
    \* History, read by the properties only.
    old,        \* request -> keys there since it began, neither written nor deleted
    ever        \* size request -> keys there at some time since it began

request == <<pc, token, batch, truncated, count>>
vars == <<bucket, request, old, ever>>

Requests == Deletes \cup Sizes
Set(f, r, v) == [f EXCEPT ![r] = v]

Init ==
    /\ bucket \in SUBSET Keys
    /\ pc = [r \in Requests |-> "new"] /\ token = [r \in Requests |-> 0]
    /\ batch = [r \in Requests |-> {}] /\ truncated = [r \in Requests |-> FALSE]
    /\ count = [r \in Sizes |-> 0]
    /\ old = [r \in Requests |-> {}] /\ ever = [r \in Sizes |-> {}]

-------------------------------------------------------------------------------
(* The bucket, and the requests that touch one key.                         *)

\* handleUpload and handleMkdir: an object appears whole, or is replaced.
Put(k) ==
    /\ bucket' = bucket \cup {k}
    /\ old' = [r \in Requests |-> old[r] \ {k}]
    /\ ever' = [r \in Sizes |-> ever[r] \cup {k}]
    /\ UNCHANGED request

\* handleDelete with a key.
DeleteKey(k) ==
    /\ k \in bucket /\ bucket' = bucket \ {k}
    /\ old' = [r \in Requests |-> old[r] \ {k}]
    /\ UNCHANGED <<request, ever>>

\* ListObjectsV2 answers with the first keys after the token: at most
\* MaxKeys, at least one if there is one, and the key to go on from.
After(t) == {k \in bucket : k > t}
UpTo(S, last) == {k \in S : k <= last}
Listing(t, page, last) ==
    \/ After(t) = {} /\ page = {} /\ last = t
    \/ /\ last \in After(t) /\ page = UpTo(After(t), last)
       /\ Cardinality(page) <= MaxKeys

-------------------------------------------------------------------------------
(* deleteByPrefix and handleSize.                                           *)

Begin(r) ==
    /\ pc[r] = "new" /\ pc' = Set(pc, r, "list")
    /\ old' = Set(old, r, bucket)
    /\ ever' = IF r \in Sizes THEN Set(ever, r, bucket) ELSE ever
    /\ UNCHANGED <<bucket, token, batch, truncated, count>>

NextTokenStays(r, last) == token[r]                               \* mutant
NextToken(r, last) == last

\* An empty page ends the loop, whatever IsTruncated says.
AnyPage(r, page) == "delete"                                      \* mutant
AfterList(r, page) == IF page = {} THEN "done" ELSE "delete"

List(r) ==
    /\ r \in Deletes /\ pc[r] = "list"
    /\ \E page \in SUBSET Keys, last \in 0 .. NumKeys :
        /\ Listing(token[r], page, last)
        /\ batch' = Set(batch, r, page)
        /\ truncated' = Set(truncated, r, page # After(token[r]))
        /\ token' = Set(token, r, NextToken(r, last))
        /\ pc' = Set(pc, r, AfterList(r, page))
    /\ UNCHANGED <<bucket, count, old, ever>>

StopAfterPage(more) == "done"                                     \* mutant
GoOn(more) == IF more THEN "list" ELSE "done"

\* The answer's Errors are not read: a key that stays counts as deleted.
DeleteObjects(r) ==
    /\ r \in Deletes /\ pc[r] = "delete"
    /\ \E stays \in SUBSET batch[r] :
        /\ ~KeyErrors => stays = {}
        /\ bucket' = bucket \ (batch[r] \ stays)
        /\ old' = [q \in Requests |-> old[q] \ (batch[r] \ stays)]
    /\ batch' = Set(batch, r, {})
    /\ pc' = Set(pc, r, GoOn(truncated[r]))
    /\ UNCHANGED <<token, truncated, count, ever>>

AddUp(r) ==
    /\ r \in Sizes /\ pc[r] = "list"
    /\ \E page \in SUBSET Keys, last \in 0 .. NumKeys :
        /\ Listing(token[r], page, last)
        /\ count' = Set(count, r, count[r] + Cardinality(page))
        /\ truncated' = Set(truncated, r, page # After(token[r]))
        /\ token' = Set(token, r, NextToken(r, last))
        /\ pc' = Set(pc, r, GoOn(page # After(token[r])))
    /\ UNCHANGED <<bucket, batch, old, ever>>

\* A call fails, the client goes away (the context is cancelled), or the
\* sidecar is killed: the request ends where it is.
Fails(r) ==
    /\ CanFail /\ pc[r] \in {"list", "delete"}
    /\ pc' = Set(pc, r, "failed") /\ batch' = Set(batch, r, {})
    /\ UNCHANGED <<bucket, token, truncated, count, old, ever>>

Step(r) == List(r) \/ DeleteObjects(r) \/ AddUp(r)

Next ==
    \/ \E k \in Keys : Put(k) \/ DeleteKey(k)
    \/ \E r \in Requests : Begin(r) \/ Step(r) \/ Fails(r)

Spec == Init /\ [][Next]_vars

\* The goroutine of a request goes on: the S3 client answers or gives up.
FairSpec == Spec /\ \A r \in Requests : WF_vars(Step(r))

-------------------------------------------------------------------------------
(* Properties.                                                              *)

\* Every variable has the type the program gives it, and DeleteObjects is never
\* called without a key, which S3 refuses as malformed.
TypeOK ==
    /\ bucket \subseteq Keys
    /\ pc \in [Requests -> {"new", "list", "delete", "done", "failed"}]
    /\ token \in [Requests -> 0 .. NumKeys]
    /\ batch \in [Requests -> SUBSET Keys]
    /\ \A r \in Requests : pc[r] = "delete" => batch[r] # {}
    /\ truncated \in [Requests -> BOOLEAN]
    /\ count \in [Sizes -> Nat]
    /\ old \in [Requests -> SUBSET Keys] /\ ever \in [Sizes -> SUBSET Keys]

\* [id].vue: 'Recursively delete folder "${name}" and ALL its contents?'.  So
\* when deleteByPrefix returns without an error, no object of the folder is
\* left that was there when it began, unless it was written again meanwhile:
\* whatever others upload and delete between its pages.
AllContentsDeleted ==
    \A r \in Deletes : pc[r] = "done" => old[r] \cap bucket = {}

\* handleSize reads its pages at different times, yet what it reports has each
\* object that was there all along once, and no object twice.
SizeIsHonest ==
    \A r \in Sizes : pc[r] = "done" =>
        Cardinality(old[r]) <= count[r] /\ count[r] <= Cardinality(ever[r])

\* Every request ends, though others may upload to the folder for ever: the
\* next page starts after the last one.
RequestsEnd ==
    \A r \in Requests : pc[r] = "list" ~> pc[r] \in {"done", "failed"}
===============================================================================
