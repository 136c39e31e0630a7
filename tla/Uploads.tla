-------------------------------- MODULE Uploads --------------------------------
(***************************************************************************)
(* The four upload endpoints of routes/common/common_endpoints.py over the *)
(* object store.  A handler suspends while an image is converted and while *)
(* an object is stored; both happen in threads of the executor, so that    *)
(* the look for the bucket, its creation and the flag _bucket_ready of two *)
(* uploads interleave statement by statement.  A URL is fetched on the     *)
(* event loop, without a timeout: until the fetch ends no handler runs,    *)
(* and only what threads have begun goes on.                               *)
(*                                                                         *)
(* An upload stands for its image.  Its own object has a fresh key (a      *)
(* uuid): the upload itself.  A profile picture is stored, as well, under  *)
(* the one key of its user: the user.  The process may restart, the store  *)
(* may refuse any call.                                                    *)
(***************************************************************************)
EXTENDS Integers, FiniteSets

CONSTANTS
  Users,
  Uploads      \* uploads, each made once

ASSUME UploadsAssumption == Users \intersect Uploads = {}

VARIABLES
  owner, kind,  \* who makes each upload, and at which endpoint
  stage,        \* where its handler, or the handler's thread, is
  part,         \* what is being stored: the image as "own" object or its "face"
  bucket,       \* the bucket exists
  ready,        \* _bucket_ready
  store,        \* the image in the object of each key
  given         \* given[u]: <<key, image>> of the metadata (file_key, blurhash)
                \* that responses gave to u

uploadVars == <<owner, kind, stage, part, bucket, ready, store, given>>

(* /upload/media and /media-user, /media-user-pfp, /media-user-pfp-from-url *)
Kinds == {"image", "pfp", "url"}
Stages ==
  {"unused", "fetching", "converting", "queued", "heading", "creating", "marking",
   "putting", "stored", "raised", "done", "failed"}
InFlight(r) == stage[r] \notin {"unused", "done", "failed"}
Over(r) == stage[r] \in {"done", "failed"}

(* No handler keeps the event loop for itself. *)
LoopFree == \A r \in Uploads : stage[r] # "fetching"

Key(r) == IF part[r] = "face" THEN owner[r] ELSE r

UploadsInit ==
  /\ \E u \in Users : owner = [r \in Uploads |-> u]
  /\ kind = [r \in Uploads |-> "image"]
  /\ stage = [r \in Uploads |-> "unused"]
  /\ part = [r \in Uploads |-> "own"]
  /\ bucket \in BOOLEAN /\ ready = FALSE
  /\ store = [k \in {} |-> k]
  /\ given = [u \in Users |-> {}]

(* Variants, each a slip the code could contain. *)
AnswerInBackground == "queued"
CreateSwallowed == "marking"
RetriedForEver == "queued"

(* The response is made when the last object is stored; an exception of the
   store's client, raised in the thread, ends the request. *)
AnswerAt == "stored"
HeadRaised == "creating"
Abandoned == "raised"

(* A request up to its first suspension, or to its call of requests.get.  The
   picture of a pfp is stored as it came before a face is looked for; from a URL
   only the face is stored. *)
Start(r, u, k) ==
  /\ LoopFree
  /\ stage[r] = "unused"
  /\ owner' = [owner EXCEPT ![r] = u]
  /\ kind' = [kind EXCEPT ![r] = k]
  /\ stage' = [stage EXCEPT ![r] = CASE k = "image" -> "converting"
                                         [] k = "pfp"   -> "queued"
                                         [] k = "url"   -> "fetching"]
  /\ part' = [part EXCEPT ![r] = IF k = "url" THEN "face" ELSE "own"]
  /\ UNCHANGED <<bucket, ready, store, given>>

Goes(r, to) ==
  /\ stage' = [stage EXCEPT ![r] = to]
  /\ UNCHANGED <<owner, kind, part>>

(* The URL has answered, if it ever does: not with a picture that has a face, or a
   face is found, still on the loop, and converted in a thread. *)
Fetched(r) ==
  /\ stage[r] = "fetching"
  /\ \E to \in {"converting", "failed"} : Goes(r, to)
  /\ UNCHANGED <<bucket, ready, store, given>>

(* The handler resumes after process_image_to_webp_file in the executor; the
   result may be too large. *)
Converted(r) ==
  /\ LoopFree
  /\ stage[r] = "converting"
  /\ \E to \in {"queued", "failed"} : Goes(r, to)
  /\ UNCHANGED <<bucket, ready, store, given>>

(* _ensure_bucket, in the thread. *)
LookAtFlag(r) ==
  /\ stage[r] = "queued"
  /\ Goes(r, IF ready THEN "putting" ELSE "heading")
  /\ UNCHANGED <<bucket, ready, store, given>>

(* A ClientError is taken for a missing bucket, whatever the store said. *)
HeadBucket(r) ==
  /\ stage[r] = "heading"
  /\ \/ bucket /\ Goes(r, "marking")
     \/ Goes(r, HeadRaised)
  /\ UNCHANGED <<bucket, ready, store, given>>

(* When the bucket has been made meanwhile, the store may refuse. *)
CreateBucket(r) ==
  /\ stage[r] = "creating"
  /\ \/ bucket' = TRUE /\ Goes(r, "marking")
     \/ bucket /\ UNCHANGED bucket /\ Goes(r, Abandoned)
  /\ UNCHANGED <<ready, store, given>>

MarkReady(r) ==
  /\ stage[r] = "marking"
  /\ ready' = TRUE
  /\ Goes(r, "putting")
  /\ UNCHANGED <<bucket, store, given>>

(* put_object or upload_file: needs the bucket. *)
Put(r) ==
  /\ stage[r] = "putting" /\ bucket
  /\ store' = [k \in DOMAIN store \union {Key(r)} |-> IF k = Key(r) THEN r ELSE store[k]]
  /\ Goes(r, "stored")
  /\ UNCHANGED <<bucket, ready, given>>

(* The call of the store raises. *)
StoreFails(r) ==
  /\ stage[r] \in {"heading", "creating", "putting"}
  /\ Goes(r, Abandoned)
  /\ UNCHANGED <<bucket, ready, store, given>>

(* The handler resumes after an exception in its thread: an error is answered. *)
Answered(r) ==
  /\ LoopFree
  /\ stage[r] = "raised"
  /\ Goes(r, "failed")
  /\ UNCHANGED <<bucket, ready, store, given>>

(* The handler of a pfp resumes after its first object: it looks for a face. *)
FindFace(r) ==
  /\ LoopFree
  /\ stage[r] = "stored" /\ kind[r] = "pfp" /\ part[r] = "own"
  /\ \/ /\ stage' = [stage EXCEPT ![r] = "converting"]
        /\ part' = [part EXCEPT ![r] = "face"]
     \/ /\ stage' = [stage EXCEPT ![r] = "failed"]
        /\ UNCHANGED part
  /\ UNCHANGED <<owner, kind, bucket, ready, store, given>>

(* The response, with the metadata of all that was stored. *)
Respond(r) ==
  /\ LoopFree
  /\ stage[r] = AnswerAt /\ ~(kind[r] = "pfp" /\ part[r] = "own")
  /\ given' = [given EXCEPT ![owner[r]] =
                 @ \union {<<Key(r), r>>}
                   \union (IF kind[r] = "pfp" THEN {<<r, r>>} ELSE {})]
  /\ Goes(r, "done")
  /\ UNCHANGED <<bucket, ready, store>>

(* The process is replaced: its requests end, its flag is as at the start. *)
Restart ==
  /\ stage' = [r \in Uploads |-> IF InFlight(r) THEN "failed" ELSE stage[r]]
  /\ ready' = FALSE
  /\ UNCHANGED <<owner, kind, part, bucket, store, given>>

(* What the threads and the loop do by themselves: that a fetch ends is up to the
   server of the URL. *)
UploadStep(r) ==
  \/ Converted(r) \/ LookAtFlag(r) \/ HeadBucket(r) \/ CreateBucket(r)
  \/ MarkReady(r) \/ Put(r) \/ StoreFails(r) \/ Answered(r) \/ FindFace(r) \/ Respond(r)

UploadNext ==
  \/ \E r \in Uploads, u \in Users, k \in Kinds : Start(r, u, k)
  \/ \E r \in Uploads : UploadStep(r) \/ Fetched(r)
  \/ Restart
-----------------------------------------------------------------------------
UploadTypeOK ==
  /\ owner \in [Uploads -> Users] /\ kind \in [Uploads -> Kinds]
  /\ stage \in [Uploads -> Stages] /\ part \in [Uploads -> {"own", "face"}]
  /\ bucket \in BOOLEAN /\ ready \in BOOLEAN
  /\ DOMAIN store \subseteq Users \union Uploads
  /\ \A k \in DOMAIN store : store[k] \in Uploads
  /\ given \in [Users -> SUBSET ((Users \union Uploads) \X Uploads)]

(* Whoever is past _ensure_bucket, and whoever will skip it, has a bucket,
   though threads look, create and mark in any order. *)
BucketThere ==
  ready \/ (\E r \in Uploads : stage[r] \in {"marking", "putting", "stored"}) => bucket

(* The object with a user's key is a face of one of that user's pictures, and an
   object with a fresh key is never replaced. *)
ObjectsOwned ==
  \A k \in DOMAIN store :
    /\ stage[store[k]] # "unused"
    /\ k \in Users => owner[store[k]] = k
    /\ k \in Uploads => store[k] = k

(* What a response names has been stored; so has what an upload will name. *)
Stored(g) == g[1] \in DOMAIN store /\ (g[1] \in Uploads => store[g[1]] = g[2])
GivenStored ==
  /\ \A u \in Users : \A g \in given[u] : Stored(g)
  /\ \A r \in Uploads :
       /\ stage[r] = "stored" => Key(r) \in DOMAIN store
       /\ InFlight(r) /\ kind[r] = "pfp" /\ part[r] = "face" => r \in DOMAIN store

UploadInv == UploadTypeOK /\ BucketThere /\ ObjectsOwned /\ GivenStored
=============================================================================
