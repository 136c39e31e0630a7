-------------------------------- MODULE Paging --------------------------------
(***************************************************************************)
(* A client that opens a chat and scrolls back to its beginning: the first *)
(* page is fetch_chats, the others are fetch_paginated_chats with the      *)
(* oldest message fetched so far as cursor, until has_more is false.       *)
(* Messages arrive meanwhile.                                              *)
(*                                                                         *)
(* Messages are numbered in the order of their timestamps, which differ;   *)
(* their ids are UUIDs the clients chose, so that ids compare in an order  *)
(* of their own.                                                           *)
(***************************************************************************)
EXTENDS Integers, FiniteSets

CONSTANTS
  PageSize,    \* LIMIT 20
  MaxMessages  \* bound on the messages of the chat

ASSUME PageSizeAssumption == PageSize \in Nat \ {0}
ASSUME MaxMessagesAssumption == MaxMessages \in Nat

VARIABLES
  id,          \* id[i]: rank of the i-th message's id among all ids
  length,      \* messages stored
  opened,      \* length when the first page was fetched, 0 before
  cursor,      \* oldest message fetched, 0 before the first page
  collected,   \* messages the client has
  hasMore      \* has_more of the last page

pagingVars == <<id, length, opened, cursor, collected, hasMore>>

PagingInit ==
  /\ id \in {f \in [1..MaxMessages -> 1..MaxMessages] :
               \A i, j \in 1..MaxMessages : f[i] = f[j] => i = j}
  /\ length \in 0..MaxMessages
  /\ opened = 0 /\ cursor = 0 /\ collected = {} /\ hasMore = TRUE

(* Variants, each a slip the code could contain. *)
PageIncludingCursor(c) == {i \in 1..length : i <= c /\ i > c - PageSize}
OldestIsFirstRow(page) == CHOOSE i \in page : \A j \in page : j <= i

(* The page before message c: the last PageSize messages before it. *)
PageBefore(c) == {i \in 1..length : i < c /\ i > c - PageSize - 1}

(* has_more compares ids. *)
More(page, oldest) == \E i \in 1..length : id[i] < id[oldest]

Oldest(page) == CHOOSE i \in page : \A j \in page : i <= j

(* fetch_chats returns the latest page; a client expects more when it is not
   empty. *)
FirstPage ==
  /\ opened = 0 /\ length > 0
  /\ collected' = PageBefore(length + 1)
  /\ cursor' = Oldest(collected')
  /\ opened' = length
  /\ UNCHANGED <<id, length, hasMore>>

(* fetch_paginated_chats from the oldest message the client has. *)
NextPage ==
  /\ cursor # 0 /\ hasMore
  /\ LET page == PageBefore(cursor)
     IN /\ collected' = collected \union page
        /\ IF page = {}
           THEN hasMore' = FALSE /\ UNCHANGED cursor
           ELSE hasMore' = More(page, Oldest(page)) /\ cursor' = Oldest(page)
  /\ UNCHANGED <<id, length, opened>>

(* A message is stored after all others. *)
Arrive ==
  /\ length < MaxMessages
  /\ length' = length + 1
  /\ UNCHANGED <<id, opened, cursor, collected, hasMore>>

PagingNext == FirstPage \/ NextPage \/ Arrive
PagingSpec == PagingInit /\ [][PagingNext]_pagingVars /\ WF_pagingVars(NextPage)
-----------------------------------------------------------------------------
PagingTypeOK ==
  /\ length \in 0..MaxMessages /\ opened \in 0..length /\ cursor \in 0..length
  /\ collected \subseteq 1..length /\ hasMore \in BOOLEAN

(* The pages join: from the cursor to the message that was the last when the
   chat was opened the client has every message and no other, whatever arrives
   between two pages. *)
PagesJoin ==
  IF opened = 0 THEN cursor = 0 /\ collected = {}
  ELSE cursor \in 1..opened /\ collected = cursor..opened

PagingInv == PagingTypeOK /\ PagesJoin

(* Scrolling back comes to an end. *)
ScrollEnds == opened # 0 ~> ~hasMore

(* When has_more is false, the client has the beginning of the chat: not so, as
   ids do not follow the order of the pages. *)
EndIsBeginning == ~hasMore => 1 \in collected
=============================================================================
