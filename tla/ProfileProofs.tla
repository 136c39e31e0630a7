----------------------------- MODULE ProfileProofs -----------------------------
(***************************************************************************)
(* For any users and uploads: whatever a profile shows is in the store,    *)
(* whoever is offered has a filled profile, and a profile made in the      *)
(* order the application makes it has one row for each key.                *)
(***************************************************************************)
EXTENDS Profile, TLAPS

(* At the start nothing is stored, given or shown. *)
LEMMA UploadInitInv == UploadsInit => UploadInv
<1> SUFFICES ASSUME UploadsInit PROVE UploadInv
  OBVIOUS
<1>1. UploadTypeOK
  BY DEF UploadsInit, UploadTypeOK, Kinds, Stages
<1>2. BucketThere /\ ObjectsOwned /\ GivenStored
  BY DEF UploadsInit, BucketThere, ObjectsOwned, GivenStored, InFlight
<1> QED BY <1>1, <1>2 DEF UploadInv

(* A step that stores and gives nothing, and moves one upload on to a stage that
   asks for no object, keeps the invariant where it keeps the bucket. *)
LEMMA Advances ==
  ASSUME UploadInv, NEW r \in Uploads, NEW to \in Stages \ {"unused", "stored"},
         stage' = [stage EXCEPT ![r] = to], InFlight(r),
         UNCHANGED <<owner, kind, part, store, given>>,
         bucket' \in BOOLEAN, ready' \in BOOLEAN, bucket => bucket',
         ready' \/ to \in {"marking", "putting"} => bucket'
  PROVE  UploadInv'
<1> USE DEF UploadInv
<1>1. UploadTypeOK'
  BY DEF UploadTypeOK
<1>2. BucketThere'
  BY DEF BucketThere, UploadTypeOK
<1>3. ObjectsOwned'
  BY DEF ObjectsOwned, UploadTypeOK
<1>4. GivenStored'
  BY DEF GivenStored, UploadTypeOK, InFlight, Key, Stored
<1> QED BY <1>1, <1>2, <1>3, <1>4

(* A request begins. *)
LEMMA StartInv ==
  ASSUME UploadInv, NEW r \in Uploads, NEW u \in Users, NEW k \in Kinds, Start(r, u, k)
  PROVE  UploadInv'
<1> USE DEF UploadInv
<1>1. PICK to \in {"fetching", "converting", "queued"} :
        /\ stage' = [stage EXCEPT ![r] = to]
        /\ k = "pfp" <=> to = "queued"
  BY DEF Start, Kinds
<1>2. /\ stage[r] = "unused" /\ UNCHANGED <<bucket, ready, store, given>>
      /\ owner' = [owner EXCEPT ![r] = u] /\ kind' = [kind EXCEPT ![r] = k]
      /\ part' = [part EXCEPT ![r] = IF k = "url" THEN "face" ELSE "own"]
  BY DEF Start
<1>3. UploadTypeOK'
  BY <1>1, <1>2 DEF UploadTypeOK, Stages
<1>4. BucketThere'
  BY <1>1, <1>2 DEF BucketThere, UploadTypeOK
<1>5. ObjectsOwned'
  BY <1>1, <1>2 DEF ObjectsOwned, UploadTypeOK
<1>6. GivenStored'
  BY <1>1, <1>2 DEF GivenStored, UploadTypeOK, InFlight, Key, Stored
<1> QED BY <1>3, <1>4, <1>5, <1>6

(* An object is stored. *)
LEMMA PutInv ==
  ASSUME UploadInv, NEW r \in Uploads, Put(r)
  PROVE  UploadInv'
<1> USE DEF UploadInv, Put, Goes
<1>1. Key(r) \in Users \union Uploads /\ Key(r)' = Key(r)
  BY DEF Key, UploadTypeOK
<1>2. /\ DOMAIN store' = DOMAIN store \union {Key(r)}
      /\ \A k \in DOMAIN store' : store'[k] = IF k = Key(r) THEN r ELSE store[k]
  OBVIOUS
<1>3. UploadTypeOK'
  BY <1>1, <1>2 DEF UploadTypeOK, Stages
<1>4. BucketThere'
  BY DEF BucketThere, UploadTypeOK
<1>5. ObjectsOwned'
  BY <1>2, UploadsAssumption DEF ObjectsOwned, UploadTypeOK, Key
<1>6. GivenStored'
  <2>1. \A g : Stored(g) => Stored(g)'
    BY <1>2, UploadsAssumption DEF ObjectsOwned, Stored, Key, UploadTypeOK
  <2>2. \A u \in Users : \A g \in given'[u] : Stored(g)'
    BY <2>1 DEF GivenStored
  <2>3. ASSUME NEW q \in Uploads
        PROVE  /\ stage'[q] = "stored" => Key(q)' \in DOMAIN store'
               /\ InFlight(q)' /\ kind'[q] = "pfp" /\ part'[q] = "face" => q \in DOMAIN store'
    BY <1>1, <1>2 DEF GivenStored, InFlight, Key, UploadTypeOK
  <2> QED BY <2>2, <2>3 DEF GivenStored
<1> QED BY <1>3, <1>4, <1>5, <1>6

(* The handler of a pfp looks for a face. *)
LEMMA FindFaceInv ==
  ASSUME UploadInv, NEW r \in Uploads, FindFace(r)
  PROVE  UploadInv'
<1> USE DEF UploadInv, FindFace
<1>1. UploadTypeOK'
  BY DEF UploadTypeOK, Stages
<1>2. BucketThere'
  BY DEF BucketThere, UploadTypeOK
<1>3. ObjectsOwned'
  BY DEF ObjectsOwned, UploadTypeOK
<1>4. GivenStored'
  BY DEF GivenStored, UploadTypeOK, InFlight, Key, Stored
<1> QED BY <1>1, <1>2, <1>3, <1>4

(* A response gives what has been stored. *)
LEMMA RespondInv ==
  ASSUME UploadInv, NEW r \in Uploads, Respond(r)
  PROVE  UploadInv'
<1> USE DEF UploadInv, Respond, Goes, AnswerAt
<1>1. owner[r] \in Users /\ Key(r) \in Users \union Uploads
  BY DEF Key, UploadTypeOK
<1>2. UploadTypeOK'
  BY <1>1 DEF UploadTypeOK, Stages
<1>3. BucketThere'
  BY DEF BucketThere, UploadTypeOK
<1>4. ObjectsOwned'
  BY DEF ObjectsOwned, UploadTypeOK
<1>5. GivenStored'
  <2>1. Stored(<<Key(r), r>>)
    BY UploadsAssumption DEF GivenStored, ObjectsOwned, Stored, Key, UploadTypeOK
  <2>2. kind[r] = "pfp" => Stored(<<r, r>>)
    BY DEF GivenStored, ObjectsOwned, Stored, InFlight, UploadTypeOK
  <2>3. ASSUME NEW u \in Users, NEW g \in given'[u] PROVE Stored(g)'
    <3>1. g \in given[u] \/ g = <<Key(r), r>> \/ (kind[r] = "pfp" /\ g = <<r, r>>)
      BY DEF UploadTypeOK
    <3> QED BY <2>1, <2>2, <3>1 DEF GivenStored, Stored
  <2>4. ASSUME NEW q \in Uploads
        PROVE  /\ stage'[q] = "stored" => Key(q)' \in DOMAIN store'
               /\ InFlight(q)' /\ kind'[q] = "pfp" /\ part'[q] = "face" => q \in DOMAIN store'
    BY DEF GivenStored, InFlight, Key, UploadTypeOK
  <2> QED BY <2>3, <2>4 DEF GivenStored
<1> QED BY <1>2, <1>3, <1>4, <1>5

(* A restart. *)
LEMMA RestartInv ==
  ASSUME UploadInv, Restart
  PROVE  UploadInv'
<1> USE DEF UploadInv, Restart
<1>1. UploadTypeOK'
  BY DEF UploadTypeOK, Stages
<1>2. BucketThere'
  BY DEF BucketThere, UploadTypeOK, InFlight
<1>3. ObjectsOwned'
  BY DEF ObjectsOwned, UploadTypeOK
<1>4. GivenStored'
  BY DEF GivenStored, UploadTypeOK, InFlight, Key, Stored
<1> QED BY <1>1, <1>2, <1>3, <1>4

(* Every step of an upload keeps the invariant. *)
LEMMA UploadStepInv ==
  ASSUME UploadInv, NEW r \in Uploads, UploadStep(r)
  PROVE  UploadInv'
<1> USE DEF Goes, HeadRaised, Abandoned
<1>0. /\ bucket \in BOOLEAN /\ ready \in BOOLEAN /\ (ready => bucket)
      /\ stage[r] \in {"marking", "putting", "stored"} => bucket
  BY DEF UploadInv, UploadTypeOK, BucketThere
<1>1. CASE Converted(r)
  BY <1>0, <1>1, Advances DEF Converted, Stages, InFlight
<1>2. CASE LookAtFlag(r)
  BY <1>0, <1>2, Advances DEF LookAtFlag, Stages, InFlight
<1>3. CASE HeadBucket(r)
  BY <1>0, <1>3, Advances DEF HeadBucket, Stages, InFlight
<1>4. CASE CreateBucket(r)
  BY <1>0, <1>4, Advances DEF CreateBucket, Stages, InFlight
<1>5. CASE MarkReady(r)
  BY <1>0, <1>5, Advances DEF MarkReady, Stages, InFlight
<1>6. CASE StoreFails(r)
  BY <1>0, <1>6, Advances DEF StoreFails, Stages, InFlight
<1>7. CASE Answered(r)
  BY <1>0, <1>7, Advances DEF Answered, Stages, InFlight
<1> QED
  BY <1>1, <1>2, <1>3, <1>4, <1>5, <1>6, <1>7, PutInv, FindFaceInv, RespondInv
  DEF UploadStep

(* So does the end of a fetch. *)
LEMMA FetchedInv ==
  ASSUME UploadInv, NEW r \in Uploads, Fetched(r)
  PROVE  UploadInv'
<1>1. /\ bucket \in BOOLEAN /\ ready \in BOOLEAN /\ (ready => bucket)
      /\ InFlight(r)
  BY DEF UploadInv, UploadTypeOK, BucketThere, Fetched, InFlight
<1>2. PICK to \in {"converting", "failed"} : Goes(r, to)
  BY DEF Fetched
<1> QED BY <1>1, <1>2, Advances DEF Fetched, Goes, Stages

LEMMA UploadNextInv ==
  ASSUME UploadInv, UploadNext
  PROVE  UploadInv'
  BY StartInv, UploadStepInv, FetchedInv, RestartInv DEF UploadNext

-----------------------------------------------------------------------------
(* What is stored stays stored. *)
LEMMA StoredStays ==
  ASSUME UploadInv, [UploadNext]_uploadVars, NEW g, Stored(g)
  PROVE  Stored(g)'
<1>1. CASE UNCHANGED store
  BY <1>1 DEF Stored
<1>2. CASE \E r \in Uploads : Put(r)
  <2>1. PICK r \in Uploads : Put(r)
    BY <1>2
  <2>2. /\ DOMAIN store' = DOMAIN store \union {Key(r)}
        /\ \A k \in DOMAIN store' : store'[k] = IF k = Key(r) THEN r ELSE store[k]
    BY <2>1 DEF Put
  <2> QED
    BY <2>2, UploadsAssumption DEF UploadInv, ObjectsOwned, Stored, Key, UploadTypeOK
<1> QED
  BY <1>1, <1>2 DEF UploadNext, UploadStep, Start, Converted, LookAtFlag, HeadBucket,
     CreateBucket, MarkReady, StoreFails, Answered, Fetched, FindFace, Respond, Restart,
     uploadVars

(* The whole invariant. *)
Filled == ProfileTypeOK /\ ShownStored /\ OfferedIsFilled /\ NoIsMeant /\ InOrder
ProfileIInv == UploadInv /\ Filled

(* Nobody has a profile at the start. *)
LEMMA ProfileInitInv == ProfileInit => ProfileIInv
<1> SUFFICES ASSUME ProfileInit PROVE ProfileIInv
  OBVIOUS
<1>1. UploadInv
  BY UploadInitInv DEF ProfileInit
<1>2. ProfileTypeOK
  BY DEF ProfileInit, ProfileTypeOK, NoRows, Keys
<1>3. ShownStored /\ OfferedIsFilled /\ NoIsMeant /\ InOrder
  BY DEF ProfileInit, ShownStored, OfferedIsFilled, NoIsMeant, InOrder, InOrderOf, NoRows,
     Keys
<1> QED BY <1>1, <1>2, <1>3 DEF ProfileIInv, Filled

(* A step of the uploads takes nothing from under a profile. *)
LEMMA UploadsKeepFilled ==
  ASSUME ProfileIInv, [UploadNext]_uploadVars, UNCHANGED rowVars
  PROVE  Filled'
<1> USE DEF ProfileIInv, Filled, rowVars
<1>1. ProfileTypeOK'
  BY DEF ProfileTypeOK
<1>2. ShownStored'
  BY StoredStays DEF ShownStored
<1>3. OfferedIsFilled' /\ NoIsMeant' /\ InOrder'
  BY DEF OfferedIsFilled, NoIsMeant, InOrder, InOrderOf
<1> QED BY <1>1, <1>2, <1>3

(* Registering: in one transaction, behind the unique preference. *)
LEMMA RegisterInv ==
  ASSUME ProfileIInv, UNCHANGED uploadVars, NEW u \in Users,
         NEW face \in Faces(u), NEW photos \in PhotoLists(u), NEW info \in Infos,
         Register(u, face, photos, info)
  PROVE  Filled'
<1> USE DEF ProfileIInv, Filled, Register, OnePreference
<1>1. /\ face \in given[u] /\ face[1] = u /\ photos \subseteq given[u]
      /\ \A g \in given[u] : Stored(g)
      /\ face \in (Users \union Uploads) \X Uploads
  BY DEF Faces, PhotoLists, UploadInv, UploadTypeOK, GivenStored
<1>2. /\ meta'[u].photos = meta[u].photos \union {photos}
      /\ meta'[u].info = meta[u].info \union {info}
      /\ meta'[u].status = meta[u].status \union StatusOf({info})
      /\ DOMAIN meta'[u] = Keys /\ DOMAIN meta' = Users
      /\ \A v \in Users \ {u} : meta'[v] = meta[v]
  BY DEF ProfileTypeOK, Keys
<1>3. /\ picture'[u] = face /\ \A v \in Users \ {u} : picture'[v] = picture[v]
  BY DEF ProfileTypeOK
<1>4. StatusOf({info}) \subseteq {"True", "False"} /\ StatusOf({info}) # {}
      /\ ("False" \in StatusOf({info}) => info = "No")
      /\ \A a, b \in StatusOf({info}) : a = b
  BY DEF StatusOf, PyText
<1>5. ProfileTypeOK'
  BY <1>1, <1>2, <1>4 DEF ProfileTypeOK
<1>6. ShownStored'
  BY <1>1, <1>2, <1>3 DEF ShownStored, Stored, uploadVars
<1>7. face # NoPicture
  BY <1>1, NoPictureAssumption
<1>8. OfferedIsFilled'
  <2>1. ASSUME NEW v \in Users, v \in complete' \ closed'
        PROVE  picture'[v] # NoPicture /\ \A k \in Keys : meta'[v][k] # {}
    <3>1. CASE v = u
      BY <1>2, <1>3, <1>4, <1>7, <3>1 DEF Keys
    <3>2. CASE v # u
      BY <1>2, <1>3, <2>1, <3>2 DEF OfferedIsFilled
    <3> QED BY <3>1, <3>2
  <2> QED BY <2>1 DEF OfferedIsFilled, ProfileTypeOK
<1>9. NoIsMeant'
  BY <1>2, <1>4 DEF NoIsMeant
<1>10. InOrder'
  <2>1. NoRows.photos = {} /\ NoRows.info = {} /\ NoRows.status = {}
    BY DEF NoRows, Keys
  <2>2. ASSUME NEW v \in Users \ outOfOrder'
        PROVE  InOrderOf(v)'
    <3>1. CASE v = u
      <4>1. meta[u] = NoRows
        BY <2>2, <3>1 DEF InOrder, InOrderOf
      <4> QED BY <1>2, <1>4, <2>1, <3>1, <4>1 DEF InOrderOf, Keys
    <3>2. CASE v # u
      BY <1>2, <2>2, <3>2 DEF InOrder, InOrderOf
    <3> QED BY <3>1, <3>2
  <2> QED BY <2>2 DEF InOrder
<1> QED BY <1>5, <1>6, <1>8, <1>9, <1>10

(* Updating: all the rows of a key take the one value, and so agree. *)
LEMMA UpdateInv ==
  ASSUME ProfileIInv, UNCHANGED uploadVars, NEW u \in Users,
         NEW photos \in {{}} \union {{p} : p \in PhotoLists(u)},
         NEW info \in {{}, {"No"}, {"Yes"}}, Update(u, photos, info)
  PROVE  Filled'
<1> USE DEF ProfileIInv, Filled, Update
<1>1. /\ \A p \in photos : p \subseteq given[u]
      /\ \A a, b \in photos : a = b
      /\ \A g \in given[u] : Stored(g)
  BY DEF Faces, PhotoLists, UploadInv, UploadTypeOK, GivenStored
<1>2. /\ meta'[u].photos = IF photos = {} THEN meta[u].photos ELSE photos
      /\ meta'[u].info = IF info = {} THEN meta[u].info ELSE info
      /\ meta'[u].status = StatusOf(info)
      /\ DOMAIN meta'[u] = Keys /\ DOMAIN meta' = Users
      /\ \A v \in Users \ {u} : meta'[v] = meta[v]
  BY DEF ProfileTypeOK, Keys
<1>3. StatusOf(info) \subseteq {"True", "False"} /\ StatusOf(info) # {}
      /\ ("False" \in StatusOf(info) => info = {"No"})
      /\ \A a, b \in StatusOf(info) : a = b
  BY DEF StatusOf, PyText
<1>4. ProfileTypeOK'
  BY <1>2, <1>3 DEF ProfileTypeOK, Infos
<1>5. ShownStored'
  BY <1>1, <1>2 DEF ShownStored, Stored, uploadVars
<1>6. OfferedIsFilled'
  BY <1>2, <1>3 DEF OfferedIsFilled, Keys
<1>7. NoIsMeant'
  BY <1>2, <1>3 DEF NoIsMeant
<1>8. InOrder'
  <2>1. ASSUME NEW v \in Users \ outOfOrder'
        PROVE  InOrderOf(v)'
    <3>1. CASE v = u
      <4>1. v \notin outOfOrder /\ v \in complete \ closed
        BY <2>1, <3>1
      <4> QED BY <1>1, <1>2, <1>3, <3>1, <4>1 DEF InOrder, InOrderOf, Keys
    <3>2. CASE v # u
      BY <1>2, <2>1, <3>2 DEF InOrder, InOrderOf
    <3> QED BY <3>1, <3>2
  <2> QED BY <2>1 DEF InOrder
<1> QED BY <1>4, <1>5, <1>6, <1>7, <1>8

(* The other updates leave the metadata alone. *)
LEMMA UpdatePictureInv ==
  ASSUME ProfileIInv, UNCHANGED uploadVars, NEW u \in Users, NEW face \in Faces(u),
         UpdatePicture(u, face)
  PROVE  Filled'
<1> USE DEF ProfileIInv, Filled, UpdatePicture
<1>1. /\ face \in given[u] /\ face[1] = u /\ Stored(face)
      /\ face \in (Users \union Uploads) \X Uploads
  BY DEF Faces, UploadInv, UploadTypeOK, GivenStored
<1>2. /\ picture'[u] = face /\ \A v \in Users \ {u} : picture'[v] = picture[v]
  BY DEF ProfileTypeOK
<1>3. ProfileTypeOK'
  BY <1>1 DEF ProfileTypeOK
<1>4. ShownStored'
  BY <1>1, <1>2 DEF ShownStored, Stored, uploadVars
<1>5. OfferedIsFilled'
  BY <1>1, <1>2, NoPictureAssumption DEF OfferedIsFilled
<1>6. NoIsMeant' /\ InOrder'
  BY DEF NoIsMeant, InOrder, InOrderOf
<1> QED BY <1>3, <1>4, <1>5, <1>6

LEMMA UpdatePreferencesInv ==
  ASSUME ProfileIInv, UNCHANGED uploadVars, NEW u \in Users, NEW genderToo \in BOOLEAN,
         NEW wishes \in {{}} \union {{b} : b \in Wanted},
         UpdatePreferences(u, genderToo, wishes)
  PROVE  Filled'
<1> USE DEF ProfileIInv, Filled, UpdatePreferences
<1>1. ProfileTypeOK'
  <2>1. wish'[u] \in {"", "true", "false"} /\ \A v \in Users \ {u} : wish'[v] = wish[v]
    BY DEF SqlText, ProfileTypeOK
  <2> QED BY <2>1 DEF ProfileTypeOK
<1>2. ShownStored'
  BY DEF ShownStored, Stored, uploadVars
<1>3. OfferedIsFilled' /\ NoIsMeant'
  BY DEF OfferedIsFilled, NoIsMeant
<1>4. InOrder'
  BY DEF InOrder, InOrderOf
<1> QED BY <1>1, <1>2, <1>3, <1>4

(* Deleting empties the profile and marks it. *)
LEMMA DeleteAccountInv ==
  ASSUME ProfileIInv, UNCHANGED uploadVars, NEW u \in Users, DeleteAccount(u)
  PROVE  Filled'
<1> USE DEF ProfileIInv, Filled
<1>1. /\ picture'[u] = NoPicture /\ \A v \in Users \ {u} : picture'[v] = picture[v]
      /\ meta'[u] = NoRows /\ \A v \in Users \ {u} : meta'[v] = meta[v]
      /\ DOMAIN meta' = Users /\ DOMAIN wish' = Users
      /\ wish'[u] = "" /\ \A v \in Users \ {u} : wish'[v] = wish[v]
      /\ picture' \in [Users -> {NoPicture} \union ((Users \union Uploads) \X Uploads)]
      /\ complete' = complete /\ outOfOrder' = outOfOrder
      /\ closed' = closed \union {u} /\ gender' = gender \ {u}
  BY DEF ProfileTypeOK, DeleteAccount, Marked
<1>2. DOMAIN NoRows = Keys /\ \A k \in Keys : NoRows[k] = {}
  BY DEF NoRows
<1>3. NoRows.photos = {} /\ NoRows.info = {} /\ NoRows.status = {}
  BY <1>2 DEF Keys
<1>4. ProfileTypeOK'
  BY <1>1, <1>2, <1>3 DEF ProfileTypeOK
<1>5. meta'[u].photos = {} /\ meta'[u].status = {} /\ \A k \in Keys : meta'[u][k] = {}
  BY <1>1, <1>2, <1>3
<1>6. ShownStored'
  <2>1. ASSUME NEW v \in Users
        PROVE  /\ picture'[v] # NoPicture => picture'[v][1] = v /\ Stored(picture'[v])
               /\ \A photos \in meta'[v].photos : \A g \in photos : Stored(g)
    <3>1. CASE v = u
      BY <1>1, <1>5, <3>1
    <3>2. CASE v # u
      BY <1>1, <3>2 DEF ShownStored
    <3> QED BY <3>1, <3>2
  <2> QED BY <2>1 DEF ShownStored, Stored, uploadVars
<1>7. OfferedIsFilled'
  <2>1. ASSUME NEW v \in Users, v \in complete' \ closed'
        PROVE  picture'[v] # NoPicture /\ \A k \in Keys : meta'[v][k] # {}
    <3>1. v # u /\ v \in complete \ closed
      BY <1>1, <2>1
    <3>2. picture[v] # NoPicture /\ \A k \in Keys : meta[v][k] # {}
      BY <3>1 DEF OfferedIsFilled
    <3> QED BY <1>1, <3>1, <3>2
  <2>2. complete' \subseteq Users
    BY <1>1 DEF ProfileTypeOK
  <2> QED BY <2>1, <2>2 DEF OfferedIsFilled
<1>8. NoIsMeant'
  <2>1. ASSUME NEW v \in Users, "False" \in meta'[v].status PROVE "No" \in meta'[v].info
    <3>1. v # u
      BY <1>5, <2>1
    <3> QED BY <1>1, <2>1, <3>1 DEF NoIsMeant
  <2> QED BY <2>1 DEF NoIsMeant
<1>9. InOrder'
  <2>1. ASSUME NEW v \in Users \ outOfOrder' PROVE InOrderOf(v)'
    <3>1. CASE v = u
      <4>1. u \notin gender' /\ u \in closed' /\ \A k \in Keys : \A x, y \in meta'[u][k] : x = y
        BY <1>1, <1>5
      <4> QED BY <1>1, <3>1, <4>1 DEF InOrderOf
    <3>2. CASE v # u
      <4>1. InOrderOf(v)
        BY <1>1, <2>1 DEF InOrder
      <4> QED BY <1>1, <3>2, <4>1 DEF InOrderOf
    <3> QED BY <3>1, <3>2
  <2> QED BY <2>1 DEF InOrder
<1> QED BY <1>4, <1>6, <1>7, <1>8, <1>9

(* Every step keeps the invariant. *)
LEMMA ProfileNextInv == ProfileIInv /\ [ProfileNext]_profileVars => ProfileIInv'
<1> SUFFICES ASSUME ProfileIInv, [ProfileNext]_profileVars PROVE ProfileIInv'
  OBVIOUS
<1>1. CASE UploadNext /\ UNCHANGED rowVars
  BY <1>1, UploadNextInv, UploadsKeepFilled DEF ProfileIInv
<1>2. CASE UNCHANGED profileVars
  <2>1. UploadInv'
    BY <1>2 DEF profileVars, uploadVars, ProfileIInv, UploadInv, UploadTypeOK, BucketThere,
       ObjectsOwned, GivenStored, InFlight, Key, Stored
  <2> QED BY <1>2, <2>1, UploadsKeepFilled DEF profileVars, ProfileIInv
<1>3. CASE ProfileStep /\ UNCHANGED uploadVars
  <2>1. UploadInv'
    BY <1>3 DEF uploadVars, ProfileIInv, UploadInv, UploadTypeOK, BucketThere, ObjectsOwned,
       GivenStored, InFlight, Key, Stored
  <2>2. Filled'
    BY <1>3, RegisterInv, UpdateInv, UpdatePictureInv, UpdatePreferencesInv,
       DeleteAccountInv DEF ProfileStep
  <2> QED BY <2>1, <2>2 DEF ProfileIInv
<1> QED BY <1>1, <1>2, <1>3 DEF ProfileNext

LEMMA ProfileIInvAlways == ProfileSpec => []ProfileIInv
BY ProfileInitInv, ProfileNextInv, PTL DEF ProfileSpec

(* The objects that uploads and responses speak of are in the store. *)
THEOREM ProfileInvAlways == ProfileSpec => []ProfileInv
<1>1. ProfileIInv => ProfileInv
  BY DEF ProfileIInv, Filled, ProfileInv
<1> QED BY <1>1, ProfileIInvAlways, PTL

(* Whatever a profile shows is in the store. *)
THEOREM ShownStoredAlways == ProfileSpec => []ShownStored
<1>1. ProfileIInv => ShownStored
  BY DEF ProfileIInv, Filled
<1> QED BY <1>1, ProfileIInvAlways, PTL

(* Whoever is offered in the feed has a filled profile. *)
THEOREM OfferedAlwaysFilled == ProfileSpec => []OfferedIsFilled
<1>1. ProfileIInv => OfferedIsFilled
  BY DEF ProfileIInv, Filled
<1> QED BY <1>1, ProfileIInvAlways, PTL

(* A status "False" is that of a plain "No". *)
THEOREM NoIsAlwaysMeant == ProfileSpec => []NoIsMeant
<1>1. ProfileIInv => NoIsMeant
  BY DEF ProfileIInv, Filled
<1> QED BY <1>1, ProfileIInvAlways, PTL

(* A profile made and kept in order has one row for each key. *)
THEOREM InOrderAlways == ProfileSpec => []InOrder
<1>1. ProfileIInv => InOrder
  BY DEF ProfileIInv, Filled
<1> QED BY <1>1, ProfileIInvAlways, PTL
=============================================================================
