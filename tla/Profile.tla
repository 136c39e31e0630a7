-------------------------------- MODULE Profile --------------------------------
(***************************************************************************)
(* A user's profile: the row in users, the rows of user_metadata and the   *)
(* preference "interested_gender".  Pictures and photos are metadata that  *)
(* uploads have returned (module Uploads).                                 *)
(*                                                                         *)
(* Every handler here is one transaction without a suspension.  The table  *)
(* user_metadata has no unique key, so that meta[u][k] is the set of the   *)
(* values of its rows: a read takes the value of one of them, the last in  *)
(* an order the database does not promise.  Of the keys, photos,           *)
(* smoking_info and smoking_status stand for all; a handler that rolls     *)
(* back changes nothing and is no step.                                    *)
(***************************************************************************)
EXTENDS Uploads

CONSTANTS
  NoPicture,   \* profile_picture IS NULL
  Wanted       \* the smoking_status that preferences ask for, a set of booleans

ASSUME WantedAssumption == Wanted \subseteq BOOLEAN
ASSUME NoPictureAssumption == NoPicture \notin (Users \union Uploads) \X Uploads

VARIABLES
  picture,     \* users.profile_picture, as <<file_key, blurhash>>
  complete,    \* users with is_profile_complete
  closed,      \* users with is_deleted
  meta,        \* user_metadata: for each key the values of its rows
  gender,      \* users with a preference row "interested_gender"
  wish,        \* wish[u]: the text of the preference row "smoking_status", "" when none
  outOfOrder   \* history: users who changed a profile not yet registered or already
               \* deleted, or dropped the preference that registering made

rowVars == <<picture, complete, closed, meta, gender, wish, outOfOrder>>
profileVars == <<uploadVars, rowVars>>

Keys == {"photos", "info", "status"}
Infos == {"No", "Yes"}     \* "Yes" for every answer but a plain "No"
NoRows == [k \in Keys |-> {}]
Faces(u) == {g \in given[u] : g[1] = u}
PhotoLists(u) == {given[u]} \union {{g} : g \in given[u] \ Faces(u)}

(* str() of a boolean, and a boolean PostgreSQL stores in a TEXT column. *)
PyText(b) == IF b THEN "True" ELSE "False"
SqlText(b) == IF b THEN "true" ELSE "false"

ProfileInit ==
  /\ UploadsInit
  /\ picture = [u \in Users |-> NoPicture]
  /\ complete = {} /\ closed = {} /\ gender = {} /\ outOfOrder = {}
  /\ meta = [u \in Users |-> NoRows]
  /\ wish = [u \in Users |-> ""]

(* Variants, each a slip the code could contain. *)
StatusOfMissingIsNo(info) == {PyText("Yes" \in info)}
DeletedUnmarked(u) == UNCHANGED closed
RegisterAgain(u) == gender' = gender \union {u}

(* derive_smoking_status: with no answer in the request the status is True. *)
StatusOf(info) == {PyText("No" \notin info)}

Marked(u) == closed' = closed \union {u}
OnePreference(u) == u \notin gender /\ gender' = gender \union {u}

(* add_user_to_db: the preference row, unique to its user, lets the rows in. *)
Register(u, face, photos, info) ==
  /\ Cardinality(photos) >= 2
  /\ picture' = [picture EXCEPT ![u] = face]
  /\ complete' = complete \union {u}
  /\ OnePreference(u)
  /\ meta' = [meta EXCEPT ![u] =
       [photos |-> @.photos \union {photos}, info |-> @.info \union {info},
        status |-> @.status \union StatusOf({info})]]
  /\ UNCHANGED <<closed, wish, outOfOrder>>

(* update_user_metadata without update_pfp: each key of the request is updated in
   all its rows, or inserted; statuses are always among the keys. *)
Update(u, photos, info) ==
  /\ meta' = [meta EXCEPT ![u] =
       [photos |-> IF photos = {} THEN @.photos ELSE photos,
        info |-> IF info = {} THEN @.info ELSE info,
        status |-> StatusOf(info)]]
  /\ outOfOrder' = IF u \in complete \ closed THEN outOfOrder ELSE outOfOrder \union {u}
  /\ UNCHANGED <<picture, complete, closed, gender, wish>>

(* ... with update_pfp. *)
UpdatePicture(u, face) ==
  /\ picture' = [picture EXCEPT ![u] = face]
  /\ UNCHANGED <<complete, closed, meta, gender, wish, outOfOrder>>

(* update_user_preferences: a value is put in, null takes the row away. *)
UpdatePreferences(u, genderToo, wishes) ==
  /\ gender' = IF genderToo THEN gender \union {u} ELSE gender \ {u}
  /\ wish' = [wish EXCEPT ![u] = IF wishes = {} THEN "" ELSE SqlText(TRUE \in wishes)]
  /\ outOfOrder' = IF u \notin closed /\ (genderToo <=> u \in complete)
                   THEN outOfOrder ELSE outOfOrder \union {u}
  /\ UNCHANGED <<picture, complete, closed, meta>>

(* delete_account; is_profile_complete stays. *)
DeleteAccount(u) ==
  /\ picture' = [picture EXCEPT ![u] = NoPicture]
  /\ Marked(u)
  /\ meta' = [meta EXCEPT ![u] = NoRows]
  /\ gender' = gender \ {u}
  /\ wish' = [wish EXCEPT ![u] = ""]
  /\ UNCHANGED <<complete, outOfOrder>>

ProfileStep ==
  \E u \in Users :
    \/ \E face \in Faces(u), photos \in PhotoLists(u), info \in Infos :
         Register(u, face, photos, info)
    \/ \E photos \in {{}} \union {{p} : p \in PhotoLists(u)},
          info \in {{}, {"No"}, {"Yes"}} : Update(u, photos, info)
    \/ \E face \in Faces(u) : UpdatePicture(u, face)
    \/ \E genderToo \in BOOLEAN, wishes \in {{}} \union {{b} : b \in Wanted} :
         UpdatePreferences(u, genderToo, wishes)
    \/ DeleteAccount(u)

ProfileNext ==
  \/ UploadNext /\ UNCHANGED rowVars
  \/ LoopFree /\ ProfileStep /\ UNCHANGED uploadVars

(* Threads of the executor go on, and so does the loop while it is free: an upload
   under way is taken a step further in the end.  Nothing makes a URL answer. *)
ProfileSpec ==
  /\ ProfileInit /\ [][ProfileNext]_profileVars
  /\ \A r \in Uploads : WF_profileVars(UploadStep(r) /\ UNCHANGED rowVars)
-----------------------------------------------------------------------------
ProfileTypeOK ==
  /\ picture \in [Users -> {NoPicture} \union ((Users \union Uploads) \X Uploads)]
  /\ complete \subseteq Users /\ closed \subseteq Users
  /\ gender \subseteq Users /\ outOfOrder \subseteq Users
  /\ DOMAIN meta = Users /\ DOMAIN wish = Users
  /\ \A u \in Users :
       /\ DOMAIN meta[u] = Keys
       /\ meta[u].info \subseteq Infos /\ meta[u].status \subseteq {"True", "False"}
       /\ wish[u] \in {"", "true", "false"}

(* Whatever a profile shows is in the store: pictures and photos are taken from
   responses, which are made when all is stored, and no object goes. *)
ShownStored ==
  \A u \in Users :
    /\ picture[u] # NoPicture => picture[u][1] = u /\ Stored(picture[u])
    /\ \A photos \in meta[u].photos : \A g \in photos : Stored(g)

(* Who is offered in the feed (complete and not deleted) has a picture and photos:
   registering is one transaction, and what undoes it marks the account. *)
OfferedIsFilled ==
  \A u \in complete \ closed :
    picture[u] # NoPicture /\ \A k \in Keys : meta[u][k] # {}

(* A status "False" is never shown of someone whose answer is not a plain "No",
   whatever rows have been doubled. *)
NoIsMeant == \A u \in Users : "False" \in meta[u].status => "No" \in meta[u].info

(* As long as a user registers first and keeps the preference that it made:
   registering is refused only to whoever has registered, whoever is offered has
   the preference, whoever has not has no rows, and every key has one row at
   most, so that all reads agree. *)
InOrderOf(u) ==
  /\ u \in gender => u \in complete
  /\ u \in complete \ closed => u \in gender
  /\ u \notin gender => meta[u] = NoRows
  /\ \A k \in Keys : \A a, b \in meta[u][k] : a = b
InOrder == \A u \in Users \ outOfOrder : InOrderOf(u)

ProfileInv == ProfileTypeOK /\ UploadInv

(* An upload ends, with a response or an error, whatever the store, the other
   uploads and restarts do: provided that every URL fetched, by this request or
   by another, answers in the end. *)
FetchesEnd == \A r \in Uploads : []<>(stage[r] # "fetching")
UploadEnds == FetchesEnd => \A r \in Uploads : InFlight(r) ~> Over(r)
-----------------------------------------------------------------------------
(* Claims of the code that do not hold in all states. *)

(* An upload that fetches nothing does not depend on URLs: it does, as another
   request stops the loop. *)
OwnUploadEnds == \A r \in Uploads : InFlight(r) /\ kind[r] # "url" ~> Over(r)

(* The status says whether the answer is a plain "No": an update of another key
   sets it to True. *)
StatusDerived ==
  \A u \in Users \ outOfOrder : "No" \in meta[u].info => "False" \in meta[u].status

(* "At least two photos are required": of registering only. *)
TwoPhotos == \A u \in complete \ closed : \A p \in meta[u].photos : Cardinality(p) >= 2

(* "Anonymize user data": a token that is still valid fills the row again. *)
ClosedIsEmpty == \A u \in closed : picture[u] = NoPicture /\ meta[u] = NoRows

(* The blurhash of a profile picture is that of the object it names, for a user who
   was given one picture only and has nothing under way: an upload that the user
   believes to have failed may have replaced the object. *)
PictureFits ==
  \A u \in Users :
    picture[u] # NoPicture /\ Cardinality(Faces(u)) = 1 /\ (\A r \in Uploads : ~InFlight(r))
      => store[u] = picture[u][2]

(* Preferences are "a soft ranking signal": not one that is a boolean, whose text
   PostgreSQL writes in its own way (preference_score). *)
Scores(u, v) == wish[u] \in meta[v].status
WishCounts ==
  \A u, v \in Users : \A b \in BOOLEAN :
    wish[u] = SqlText(b) /\ meta[v].status = {PyText(b)} => Scores(u, v)
=============================================================================
