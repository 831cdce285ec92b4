--------------------------- MODULE WebCache_proofs ---------------------------
(***************************************************************************)
(* Proofs about WebCache, for any users, any number of calls in flight and *)
(* any choice of the query that is watched.                                *)
(***************************************************************************)
EXTENDS WebCache, TLAPS

(* A call that changed what is watched will still say so.                  *)
Announcing ==
  \E s \in Slots : flight[s] # None /\ flight[s].tells = TRUE /\ flight[s].changes = TRUE

(* Unless tokens were replaced by another user's: what is cached, or on    *)
(* its way there, was fetched with the stored tokens, and the user on      *)
(* screen and the one still to appear are theirs.                          *)
Belongs ==
  ~over => /\ entry.data # "none" => entry.of = holder
           /\ fetch.stage # "idle" => fetch.of \in {None, holder}
           /\ user \in {None, holder} \/ holder = None
           /\ signing # None => holder \in {None, signing}

(* A wrong entry that the client has no excuse for is going to be replaced: *)
(* by the fetch in flight, by the invalidation still to come, or by the    *)
(* fetch that mounting a stale entry makes.  A wrong answer in flight is   *)
(* overtaken by such an invalidation.                                      *)
WrongAnswer ==
  fetch.stage = "answered" /\ (fetch.answer = "old" \/ (user # None /\ fetch.of # user))

Owed ==
  excuse = {} =>
    /\ Wrong => \/ fetch.stage # "idle" \/ Announcing
                \/ entry.stale = TRUE /\ ~Mounted
    /\ WrongAnswer => Announcing

CacheInv == WebTypeOK /\ Belongs /\ Owed

-----------------------------------------------------------------------------
(* Types, conjunct by conjunct of WebTypeOK.                               *)
EntryRecord == [data : {"none", "current", "old"}, of : Users \cup {None}, stale : BOOLEAN]
FetchRecord == [stage : {"idle", "asked", "answered"}, of : Users \cup {None},
                answer : {"current", "old"}, retried : BOOLEAN]
FlightRecord == [tells : BOOLEAN, changes : BOOLEAN]

EntryOK == entry \in EntryRecord /\ (entry.data = "none" <=> entry.of = None)
FetchOK ==
  /\ fetch \in FetchRecord
  /\ fetch.stage = "idle" => fetch.of = None
  /\ fetch.stage = "answered" => fetch.of # None
SignedOutOK == user = None => page = "login"
PlaceOK ==
  page \in Pages /\ {user, holder, signing} \subseteq Users \cup {None} /\ watched \in Queries
FlightOK == flight \in [Slots -> {None} \cup FlightRecord]
CountOK == excuse \subseteq CallNames \cup Unheard /\ calls \in 0 .. MaxCalls /\ over \in BOOLEAN

LEMMA TypeParts ==
  WebTypeOK <=> EntryOK /\ FetchOK /\ SignedOutOK /\ PlaceOK /\ FlightOK /\ CountOK
  BY DEF WebTypeOK, EntryOK, FetchOK, SignedOutOK, PlaceOK, FlightOK, CountOK,
         EntryRecord, FetchRecord, FlightRecord

LEMMA PagesThere == "login" \in Pages /\ "budget" \in Pages
  BY DEF Pages, QueriesOn

LEMMA EmptyOK == Empty \in EntryRecord /\ Empty.data = "none" /\ Empty.of = None
  BY DEF Empty, EntryRecord

LEMMA NoFetchOK == NoFetch \in FetchRecord /\ NoFetch.stage = "idle" /\ NoFetch.of = None
  BY DEF NoFetch, FetchRecord

LEMMA AskedOK ==
  ASSUME PlaceOK
  PROVE  Asked \in FetchRecord /\ Asked.stage = "asked" /\ Asked.of = holder
  BY DEF Asked, NoFetch, FetchRecord, PlaceOK

(* The records the actions write.                                          *)
LEMMA EntryUpdates ==
  ASSUME EntryOK
  PROVE  /\ entry.data # "none" =>
              /\ [entry EXCEPT !.data = "old"] \in EntryRecord
              /\ [entry EXCEPT !.data = "old"].data = "old"
              /\ [entry EXCEPT !.data = "old"].of = entry.of
              /\ [entry EXCEPT !.data = "old"].stale = entry.stale
         /\ \A b \in BOOLEAN :
              /\ [entry EXCEPT !.stale = b] \in EntryRecord
              /\ [entry EXCEPT !.stale = b].data = entry.data
              /\ [entry EXCEPT !.stale = b].of = entry.of
              /\ [entry EXCEPT !.stale = b].stale = b
  BY DEF EntryOK, EntryRecord

LEMMA FetchUpdates ==
  ASSUME FetchOK, fetch.stage # "idle"
  PROVE  /\ \A a \in {"current", "old"} :
              /\ [fetch EXCEPT !.stage = "answered", !.answer = a] \in FetchRecord
              /\ [fetch EXCEPT !.stage = "answered", !.answer = a].stage = "answered"
              /\ [fetch EXCEPT !.stage = "answered", !.answer = a].of = fetch.of
              /\ [fetch EXCEPT !.stage = "answered", !.answer = a].answer = a
         /\ [fetch EXCEPT !.answer = "old"] \in FetchRecord
         /\ [fetch EXCEPT !.answer = "old"].stage = fetch.stage
         /\ [fetch EXCEPT !.answer = "old"].of = fetch.of
         /\ [fetch EXCEPT !.answer = "old"].answer = "old"
  BY DEF FetchOK, FetchRecord

LEMMA InitHolds == WebInit => CacheInv
<1> SUFFICES ASSUME WebInit PROVE CacheInv
  OBVIOUS
<1>1. EntryOK /\ FetchOK /\ SignedOutOK
  BY EmptyOK, NoFetchOK DEF WebInit, EntryOK, FetchOK, SignedOutOK
<1>2. PlaceOK /\ FlightOK
  BY PagesThere DEF WebInit, PlaceOK, FlightOK
<1>3. CountOK
  <2>1. calls \in 0 .. MaxCalls
    BY CacheAssumption DEF WebInit
  <2>2. over \in BOOLEAN
    BY Zenon DEF WebInit
  <2> QED BY <2>1, <2>2 DEF WebInit, CountOK
<1>4. entry.data = "none" /\ fetch.stage = "idle"
  BY EmptyOK, NoFetchOK DEF WebInit
<1>5. WebTypeOK
  BY <1>1, <1>2, <1>3, TypeParts
<1>6. Belongs /\ Owed
  BY <1>4 DEF WebInit, Belongs, Owed, Wrong, WrongAnswer
<1> QED BY <1>5, <1>6 DEF CacheInv

-----------------------------------------------------------------------------
(* What the parts of the invariant give in the next state.                 *)
LEMMA NextTypes ==
  EntryOK' /\ FetchOK' /\ SignedOutOK' /\ PlaceOK' /\ FlightOK' /\ CountOK' => WebTypeOK'
  BY DEF WebTypeOK, EntryOK, FetchOK, SignedOutOK, PlaceOK, FlightOK, CountOK,
         EntryRecord, FetchRecord, FlightRecord

(* Moving to another page: the fetch that mounting makes is the only       *)
(* change, and it is made for a stale entry.                               *)
LEMMA RouteHolds ==
  ASSUME CacheInv, NEW p \in Pages, user # None, p # page, Route(p, user),
         UNCHANGED <<user, holder, signing, watched, entry, flight, excuse, calls, over>>
  PROVE  CacheInv'
<1>1. EntryOK /\ FetchOK /\ SignedOutOK /\ PlaceOK /\ FlightOK /\ CountOK
  BY TypeParts DEF CacheInv
<1>2. \/ fetch' = fetch /\ (Mounted' => ~WantsFetch \/ fetch.stage # "idle")
      \/ fetch' = Asked /\ fetch.stage = "idle"
  BY DEF Route, Mounted, MountedOn
<1>3. Asked \in FetchRecord /\ Asked.stage = "asked" /\ Asked.of = holder
  BY <1>1, AskedOK
<1>4. EntryOK' /\ SignedOutOK' /\ FlightOK' /\ CountOK'
  BY <1>1 DEF EntryOK, SignedOutOK, FlightOK, CountOK
<1>5. PlaceOK'
  BY <1>1 DEF PlaceOK, Route
<1>6. FetchOK'
  BY <1>1, <1>2, <1>3 DEF FetchOK
<1>7. Belongs'
  BY <1>2, <1>3 DEF Belongs, CacheInv
<1>8. Owed'
  <2>1. (Announcing' <=> Announcing) /\ (Wrong' <=> Wrong)
    BY DEF Announcing, Wrong
  <2>2. CASE fetch' = fetch /\ (Mounted' => ~WantsFetch \/ fetch.stage # "idle")
    BY <2>1, <2>2 DEF Owed, CacheInv, WantsFetch, WrongAnswer
  <2>3. CASE fetch' = Asked
    BY <1>3, <2>3 DEF Owed, WrongAnswer
  <2> QED BY <1>2, <2>2, <2>3
<1> QED BY <1>4, <1>5, <1>6, <1>7, <1>8, NextTypes DEF CacheInv

LEMMA NavigateHolds == ASSUME CacheInv, NEW p \in Pages, Navigate(p) PROVE CacheInv'
  BY RouteHolds DEF Navigate

LEMMA OpenLoginHolds == ASSUME CacheInv, OpenLogin PROVE CacheInv'
  BY RouteHolds, PagesThere DEF OpenLogin

(* clearSessionState leaves nothing of what the invariant is about.        *)
LEMMA ForgetHolds ==
  ASSUME CacheInv, Forget, UNCHANGED <<watched, flight, calls>>, signing' \in {None, signing}
  PROVE  CacheInv'
<1>1. EntryOK /\ FetchOK /\ SignedOutOK /\ PlaceOK /\ FlightOK /\ CountOK
  BY TypeParts DEF CacheInv
<1>2. EntryOK' /\ FetchOK' /\ SignedOutOK'
  BY EmptyOK, NoFetchOK DEF Forget, EntryOK, FetchOK, SignedOutOK
<1>3. PlaceOK' /\ FlightOK'
  BY <1>1, PagesThere DEF Forget, PlaceOK, FlightOK
<1>4. over' \in BOOLEAN
  BY Zenon DEF Forget
<1>5. CountOK'
  BY <1>1, <1>4 DEF Forget, CountOK
<1>6. entry'.data = "none" /\ fetch'.stage = "idle"
  BY EmptyOK, NoFetchOK DEF Forget
<1>7. Belongs' /\ Owed'
  BY <1>6 DEF Forget, Belongs, Owed, Wrong, WrongAnswer
<1> QED BY <1>2, <1>3, <1>5, <1>7, NextTypes DEF CacheInv

LEMMA ClearSessionHolds == ASSUME CacheInv, ClearSession PROVE CacheInv'
  BY ForgetHolds DEF ClearSession

LEMMA AgeHolds == ASSUME CacheInv, Age PROVE CacheInv'
<1>1. EntryOK /\ FetchOK /\ SignedOutOK /\ PlaceOK /\ FlightOK /\ CountOK
  BY TypeParts DEF CacheInv
<1>2. /\ entry' \in EntryRecord
      /\ entry'.data = entry.data /\ entry'.of = entry.of /\ entry'.stale = TRUE
  BY <1>1, EntryUpdates DEF Age
<1>3. EntryOK'
  BY <1>1, <1>2 DEF EntryOK
<1>4. FetchOK' /\ PlaceOK' /\ FlightOK' /\ CountOK'
  BY <1>1 DEF Age, FetchOK, PlaceOK, FlightOK, CountOK
<1>5. SignedOutOK'
  BY <1>1 DEF Age, SignedOutOK
<1>6. Belongs'
  BY <1>2 DEF Age, Belongs, CacheInv
<1>7. Owed'
  BY <1>2 DEF Age, Owed, CacheInv, Announcing, Mounted, MountedOn, Wrong, WrongAnswer
<1> QED BY <1>3, <1>4, <1>5, <1>6, <1>7, NextTypes DEF CacheInv

-----------------------------------------------------------------------------
(* The fetch steps.                                                        *)
LEMMA AnswerHolds == ASSUME CacheInv, Answer PROVE CacheInv'
<1>1. EntryOK /\ FetchOK /\ SignedOutOK /\ PlaceOK /\ FlightOK /\ CountOK
  BY TypeParts DEF CacheInv
<1>2. fetch.stage # "idle"
  BY DEF Answer
<1>3. /\ fetch' \in FetchRecord
      /\ fetch'.stage = "answered" /\ fetch'.of = fetch.of /\ fetch'.answer = "current"
  BY <1>1, <1>2, FetchUpdates DEF Answer
<1>4. FetchOK'
  BY <1>1, <1>2, <1>3 DEF Answer, FetchOK
<1>5. EntryOK' /\ PlaceOK' /\ FlightOK'
  BY <1>1 DEF Answer, EntryOK, PlaceOK, FlightOK
<1>6. SignedOutOK'
  BY <1>1 DEF Answer, SignedOutOK
<1>7. CountOK'
  BY <1>1 DEF Answer, CountOK, Unheard
<1>8. Belongs'
  BY <1>2, <1>3 DEF Answer, Belongs, CacheInv
<1>9. Owed'
  BY <1>3 DEF Answer, Owed, WrongAnswer
<1> QED BY <1>4, <1>5, <1>6, <1>7, <1>8, <1>9, NextTypes DEF CacheInv

LEMMA TakeHolds == ASSUME CacheInv, Take PROVE CacheInv'
<1>1. EntryOK /\ FetchOK /\ SignedOutOK /\ PlaceOK /\ FlightOK /\ CountOK
  BY TypeParts DEF CacheInv
<1>2. /\ fetch.stage = "answered"
      /\ entry' = [data |-> fetch.answer, of |-> fetch.of, stale |-> FALSE]
      /\ fetch' = NoFetch
  BY DEF Take
<1>3. fetch.answer \in {"current", "old"} /\ fetch.of \in Users \cup {None} /\ fetch.of # None
  BY <1>1, <1>2 DEF FetchOK, FetchRecord
<1>4. entry' \in EntryRecord /\ entry'.data = fetch.answer /\ entry'.of = fetch.of
  BY <1>2, <1>3 DEF EntryRecord
<1>5. EntryOK' /\ FetchOK'
  BY <1>2, <1>3, <1>4, NoFetchOK DEF EntryOK, FetchOK
<1>6. PlaceOK' /\ FlightOK' /\ CountOK'
  BY <1>1 DEF Take, PlaceOK, FlightOK, CountOK
<1>7. SignedOutOK'
  BY <1>1 DEF Take, SignedOutOK
<1>8. Belongs'
  BY <1>2, <1>3, <1>4, NoFetchOK DEF Take, Belongs, CacheInv
<1>9. Owed'
  <2>1. Announcing' <=> Announcing
    BY DEF Take, Announcing
  <2> QED BY <1>2, <1>4, <2>1, NoFetchOK DEF Take, Owed, CacheInv, Wrong, WrongAnswer
<1> QED BY <1>5, <1>6, <1>7, <1>8, <1>9, NextTypes DEF CacheInv

LEMMA FetchFailsHolds == ASSUME CacheInv, FetchFails PROVE CacheInv'
<1>1. EntryOK /\ FetchOK /\ SignedOutOK /\ PlaceOK /\ FlightOK /\ CountOK
  BY TypeParts DEF CacheInv
<1>2. fetch.stage # "idle"
  BY DEF FetchFails
<1>4. EntryOK' /\ PlaceOK' /\ FlightOK'
  BY <1>1 DEF FetchFails, EntryOK, PlaceOK, FlightOK
<1>5. SignedOutOK'
  BY <1>1 DEF FetchFails, SignedOutOK
<1>6. CountOK'
  BY <1>1 DEF FetchFails, CountOK, Unheard
<1>7. CASE fetch.retried
  <2>1. fetch' = NoFetch /\ excuse' # {}
    BY <1>7 DEF FetchFails
  <2>2. FetchOK'
    BY <2>1, NoFetchOK DEF FetchOK
  <2>3. Belongs' /\ Owed'
    BY <2>1, NoFetchOK DEF FetchFails, Belongs, Owed, CacheInv
  <2> QED BY <1>4, <1>5, <1>6, <2>2, <2>3, NextTypes DEF CacheInv
<1>8. CASE ~fetch.retried
  <2>1. fetch' = [Asked EXCEPT !.retried = TRUE]
    BY <1>8 DEF FetchFails
  <2>2. fetch' \in FetchRecord /\ fetch'.stage = "asked" /\ fetch'.of = holder
    BY <1>1, <2>1, AskedOK DEF FetchRecord
  <2>3. FetchOK'
    BY <2>2 DEF FetchOK
  <2>4. Belongs'
    BY <2>2 DEF FetchFails, Belongs, CacheInv
  <2>5. Owed'
    BY <2>2 DEF Owed, WrongAnswer
  <2> QED BY <1>4, <1>5, <1>6, <2>3, <2>4, <2>5, NextTypes DEF CacheInv
<1> QED BY <1>7, <1>8

-----------------------------------------------------------------------------
(* A change of the store makes what is cached old, and touches no more.    *)
LEMMA OutdateKeeps ==
  ASSUME EntryOK, FetchOK, NEW u, Outdate(u)
  PROVE  /\ EntryOK' /\ FetchOK'
         /\ entry'.of = entry.of /\ fetch'.of = fetch.of
         /\ entry'.data = "none" <=> entry.data = "none"
         /\ fetch'.stage = fetch.stage
<1>1. EntryOK' /\ entry'.of = entry.of /\ (entry'.data = "none" <=> entry.data = "none")
  <2>1. CASE entry.data = "current" /\ entry.of = u
    BY <2>1, EntryUpdates DEF Outdate, EntryOK
  <2>2. CASE ~(entry.data = "current" /\ entry.of = u)
    BY <2>2 DEF Outdate, EntryOK
  <2> QED BY <2>1, <2>2
<1>2. FetchOK' /\ fetch'.of = fetch.of /\ fetch'.stage = fetch.stage
  <2>1. CASE fetch.stage = "answered" /\ fetch.of = u
    BY <2>1, FetchUpdates DEF Outdate, FetchOK
  <2>2. CASE ~(fetch.stage = "answered" /\ fetch.of = u)
    BY <2>2 DEF Outdate, FetchOK
  <2> QED BY <2>1, <2>2
<1> QED BY <1>1, <1>2

(* With nothing cached nothing is owed; with something, an excuse is enough.*)
LEMMA ExcusedOwesNothing ==
  ASSUME NEW why, Excused(why), entry'.data = "none" <=> entry.data = "none",
         fetch'.stage = fetch.stage
  PROVE  Owed'
<1>1. CASE Cached
  BY <1>1 DEF Excused, Owed
<1>2. CASE ~Cached
  BY <1>2 DEF Cached, Owed, Wrong, WrongAnswer
<1> QED BY <1>1, <1>2

LEMMA ChangeElsewhereHolds ==
  ASSUME CacheInv, NEW u \in Users, ChangeElsewhere(u)
  PROVE  CacheInv'
<1>1. EntryOK /\ FetchOK /\ SignedOutOK /\ PlaceOK /\ FlightOK /\ CountOK
  BY TypeParts DEF CacheInv
<1>2. /\ EntryOK' /\ FetchOK'
      /\ entry'.of = entry.of /\ fetch'.of = fetch.of
      /\ entry'.data = "none" <=> entry.data = "none"
      /\ fetch'.stage = fetch.stage
  BY <1>1, OutdateKeeps DEF ChangeElsewhere
<1>3. SignedOutOK'
  BY <1>1 DEF ChangeElsewhere, SignedOutOK
<1>4. PlaceOK' /\ FlightOK'
  BY <1>1 DEF ChangeElsewhere, PlaceOK, FlightOK
<1>5. CountOK'
  <2>1. calls' \in 0 .. MaxCalls
    BY <1>1, CacheAssumption DEF ChangeElsewhere, CountOK
  <2>2. excuse' \subseteq CallNames \cup Unheard
    BY <1>1 DEF ChangeElsewhere, Excused, CountOK, Unheard
  <2>3. over' \in BOOLEAN
    BY <1>1, Zenon DEF ChangeElsewhere, CountOK
  <2> QED BY <2>1, <2>2, <2>3 DEF CountOK
<1>6. Belongs'
  BY <1>2 DEF ChangeElsewhere, Belongs, CacheInv
<1>7. Owed'
  BY <1>2, ExcusedOwesNothing DEF ChangeElsewhere
<1> QED BY <1>2, <1>3, <1>4, <1>5, <1>6, <1>7, NextTypes DEF CacheInv

-----------------------------------------------------------------------------
(* The calls of the pages, and their answers.                              *)
LEMMA SlotFreed ==
  ASSUME FlightOK, NEW s \in Slots, flight[s] # None,
         flight' = [flight EXCEPT ![s] = None]
  PROVE  /\ FlightOK'
         /\ flight[s] \in FlightRecord
         /\ ~(flight[s].tells = TRUE /\ flight[s].changes = TRUE) /\ Announcing => Announcing'
<1>1. FlightOK' /\ flight[s] \in FlightRecord
  BY DEF FlightOK
<1>2. ASSUME ~(flight[s].tells = TRUE /\ flight[s].changes = TRUE), Announcing
      PROVE  Announcing'
  <2>1. PICK t \in Slots :
          flight[t] # None /\ flight[t].tells = TRUE /\ flight[t].changes = TRUE
    BY <1>2 DEF Announcing
  <2>2. t # s
    BY <1>2, <2>1
  <2>3. flight'[t] = flight[t]
    BY <2>2 DEF FlightOK
  <2> QED BY <2>1, <2>3 DEF Announcing
<1> QED BY <1>1, <1>2

LEMMA SucceedHolds == ASSUME CacheInv, NEW s \in Slots, Succeed(s) PROVE CacheInv'
<1>1. EntryOK /\ FetchOK /\ SignedOutOK /\ PlaceOK /\ FlightOK /\ CountOK
  BY TypeParts DEF CacheInv
<1>2. /\ FlightOK' /\ flight[s] \in FlightRecord
      /\ ~(flight[s].tells = TRUE /\ flight[s].changes = TRUE) /\ Announcing => Announcing'
  BY <1>1, SlotFreed DEF Succeed
<1>3. PlaceOK' /\ (Mounted' <=> Mounted)
  BY <1>1 DEF Succeed, PlaceOK, Mounted, MountedOn
<1>4. CASE flight[s].tells = TRUE
  <2>1. Invalidate
    BY <1>4 DEF Succeed
  <2> DEFINE b == entry.data # "none"
  <2>2. b \in BOOLEAN
    OBVIOUS
  <2>3. entry' = [entry EXCEPT !.stale = b]
    BY <2>1 DEF Invalidate
  <2>4. /\ entry' \in EntryRecord
        /\ entry'.data = entry.data /\ entry'.of = entry.of /\ entry'.stale = b
    BY <1>1, <2>2, <2>3, EntryUpdates
  <2>5. EntryOK'
    BY <1>1, <2>4 DEF EntryOK
  <2>6. fetch' \in {fetch, Asked}
    BY <2>1 DEF Invalidate
  <2>7. Asked \in FetchRecord /\ Asked.stage = "asked" /\ Asked.of = holder
    BY <1>1, AskedOK
  <2>8. FetchOK'
    BY <1>1, <2>6, <2>7 DEF FetchOK
  <2>9. SignedOutOK'
    BY <1>1 DEF Succeed, SignedOutOK
  <2>10. CountOK'
    BY <1>1, <2>1 DEF Succeed, Invalidate, CountOK, Unheard
  <2>11. Belongs'
    BY <2>4, <2>6, <2>7 DEF Succeed, Belongs, CacheInv
  <2>12. Owed'
    <3> SUFFICES ASSUME excuse' = {}
                 PROVE  /\ Wrong' => \/ fetch'.stage # "idle" \/ Announcing'
                                     \/ entry'.stale = TRUE /\ ~Mounted'
                        /\ WrongAnswer' => Announcing'
      BY DEF Owed
    <3>1. fetch.stage = "idle" \/ (Mounted /\ entry.data # "none")
      BY <2>1 DEF Invalidate
    <3>2. CASE Mounted /\ (entry.data # "none" \/ fetch.stage = "idle")
      <4>1. fetch' = Asked
        BY <2>1, <3>2 DEF Invalidate
      <4> QED BY <2>7, <4>1 DEF WrongAnswer
    <3>3. CASE ~Mounted /\ fetch.stage = "idle"
      <4>1. fetch' = fetch
        BY <2>1, <3>3 DEF Invalidate
      <4>2. Wrong' => entry'.stale = TRUE
        BY <2>4 DEF Wrong
      <4> QED BY <1>3, <3>3, <4>1, <4>2 DEF WrongAnswer
    <3> QED BY <3>1, <3>2, <3>3
  <2> QED BY <1>2, <1>3, <2>5, <2>8, <2>9, <2>10, <2>11, <2>12, NextTypes DEF CacheInv
<1>5. CASE flight[s].tells = FALSE
  <2>1. UNCHANGED <<page, user, holder, signing, watched, entry, fetch, excuse, calls, over>>
    BY <1>5 DEF Succeed
  <2>2. EntryOK' /\ FetchOK' /\ SignedOutOK' /\ CountOK'
    BY <1>1, <2>1 DEF EntryOK, FetchOK, SignedOutOK, CountOK
  <2>3. Belongs'
    BY <2>1 DEF Belongs, CacheInv
  <2>4. Owed'
    BY <1>2, <1>3, <1>5, <2>1 DEF Owed, CacheInv, Wrong, WrongAnswer
  <2> QED BY <1>2, <1>3, <2>2, <2>3, <2>4, NextTypes DEF CacheInv
<1> QED BY <1>2, <1>4, <1>5 DEF FlightRecord

LEMMA LoseHolds == ASSUME CacheInv, NEW s \in Slots, Lose(s) PROVE CacheInv'
<1>1. EntryOK /\ FetchOK /\ SignedOutOK /\ PlaceOK /\ FlightOK /\ CountOK
  BY TypeParts DEF CacheInv
<1>2. /\ FlightOK' /\ flight[s] \in FlightRecord
      /\ ~(flight[s].tells = TRUE /\ flight[s].changes = TRUE) /\ Announcing => Announcing'
  BY <1>1, SlotFreed DEF Lose
<1>3. PlaceOK' /\ EntryOK' /\ FetchOK' /\ SignedOutOK' /\ (Mounted' <=> Mounted)
  BY <1>1 DEF Lose, PlaceOK, EntryOK, FetchOK, SignedOutOK, Mounted, MountedOn
<1>4. CountOK'
  BY <1>1 DEF Lose, CountOK, Unheard, Excused
<1>5. Belongs'
  BY DEF Lose, Belongs, CacheInv
<1>6. Owed'
  <2>1. CASE flight[s].changes = TRUE
    BY <2>1, ExcusedOwesNothing DEF Lose
  <2>2. CASE flight[s].changes = FALSE
    <3>1. excuse' = excuse
      BY <2>2 DEF Lose
    <3>2. Announcing => Announcing'
      BY <1>2, <2>2
    <3> QED BY <1>3, <3>1, <3>2 DEF Lose, Owed, CacheInv, Wrong, WrongAnswer
  <2> QED BY <1>2, <2>1, <2>2 DEF FlightRecord
<1> QED BY <1>2, <1>3, <1>4, <1>5, <1>6, NextTypes DEF CacheInv

LEMMA CommitHolds ==
  ASSUME CacheInv, NEW s \in Slots, NEW m \in CallNames, Commit(s, m)
  PROVE  CacheInv'
<1> DEFINE tells == watched \in CallsOn[page][m].tells
           changes == watched \in CallsOn[page][m].changes
<1>1. EntryOK /\ FetchOK /\ SignedOutOK /\ PlaceOK /\ FlightOK /\ CountOK
  BY TypeParts DEF CacheInv
<1>2. /\ flight[s] = None
      /\ flight' = [flight EXCEPT ![s] = [tells |-> tells, changes |-> changes]]
      /\ IF changes THEN Outdate(holder) ELSE UNCHANGED <<entry, fetch>>
      /\ IF changes /\ ~tells THEN Excused(m) ELSE UNCHANGED excuse
  BY Zenon DEF Commit
<1>3. /\ EntryOK' /\ FetchOK'
      /\ entry'.of = entry.of /\ fetch'.of = fetch.of
      /\ entry'.data = "none" <=> entry.data = "none"
      /\ fetch'.stage = fetch.stage
  <2>1. CASE changes
    BY <1>1, <1>2, <2>1, OutdateKeeps
  <2>2. CASE ~changes
    BY <1>1, <1>2, <2>2 DEF EntryOK, FetchOK
  <2> QED BY <2>1, <2>2
<1>4. SignedOutOK' /\ PlaceOK' /\ (Mounted' <=> Mounted)
  BY <1>1 DEF Commit, SignedOutOK, PlaceOK, Mounted, MountedOn
<1> DEFINE sent == [tells |-> tells, changes |-> changes]
<1> HIDE DEF tells, changes
<1>5. tells \in BOOLEAN /\ changes \in BOOLEAN
  <2>1. tells \in BOOLEAN
    <3>1. \A x, S : (x \in S) \in BOOLEAN
      OBVIOUS
    <3> QED BY <3>1, Zenon DEF tells
  <2>2. changes \in BOOLEAN
    <3>1. \A x, S : (x \in S) \in BOOLEAN
      OBVIOUS
    <3> QED BY <3>1, Zenon DEF changes
  <2> QED BY <2>1, <2>2
<1>6. sent \in FlightRecord /\ sent.tells = tells /\ sent.changes = changes /\ sent # None
  <2>1. sent \in FlightRecord
    BY <1>5 DEF FlightRecord
  <2> QED BY <2>1, CacheAssumption DEF FlightRecord
<1> HIDE DEF sent
<1>7. flight' = [flight EXCEPT ![s] = sent]
  BY <1>2 DEF sent
<1>8. FlightOK' /\ flight'[s] = sent
  BY <1>1, <1>6, <1>7 DEF FlightOK
<1>9. CountOK'
  <2>1. calls' \in 0 .. MaxCalls
    BY <1>1, CacheAssumption DEF Commit, CountOK
  <2>2. excuse' \subseteq CallNames \cup Unheard
    BY <1>1, <1>2 DEF Excused, CountOK
  <2>3. over' \in BOOLEAN
    BY <1>1, Zenon DEF Commit, CountOK
  <2> QED BY <2>1, <2>2, <2>3 DEF CountOK
<1>10. Belongs'
  BY <1>3 DEF Commit, Belongs, CacheInv
<1>11. Owed'
  <2>1. CASE changes /\ tells
    <3>1. flight'[s] # None /\ flight'[s].tells = TRUE /\ flight'[s].changes = TRUE
      BY <1>5, <1>6, <1>8, <2>1
    <3> QED BY <3>1 DEF Owed, Announcing
  <2>2. CASE changes /\ ~tells
    BY <1>2, <1>3, <2>2, ExcusedOwesNothing
  <2>3. CASE ~changes
    <3>1. Announcing => Announcing'
      <4> SUFFICES ASSUME Announcing PROVE Announcing'
        OBVIOUS
      <4>1. PICK t \in Slots :
              flight[t] # None /\ flight[t].tells = TRUE /\ flight[t].changes = TRUE
        BY DEF Announcing
      <4>2. flight'[t] = flight[t]
        BY <1>1, <1>2, <1>7, <4>1 DEF FlightOK
      <4> QED BY <4>1, <4>2 DEF Announcing
    <3>2. UNCHANGED <<entry, fetch, excuse>>
      BY <1>2, <2>3
    <3>3. user' = user
      BY DEF Commit
    <3> QED BY <1>4, <3>1, <3>2, <3>3 DEF Owed, CacheInv, Wrong, WrongAnswer
  <2> QED BY <2>1, <2>2, <2>3
<1> QED BY <1>3, <1>4, <1>8, <1>9, <1>10, <1>11, NextTypes DEF CacheInv

(* The tokens are replaced; if they were somebody else's, over says so.    *)
LEMMA SignInHolds == ASSUME CacheInv, NEW u \in Users, SignIn(u) PROVE CacheInv'
<1>1. EntryOK /\ FetchOK /\ SignedOutOK /\ PlaceOK /\ FlightOK /\ CountOK
  BY TypeParts DEF CacheInv
<1>2. EntryOK' /\ FetchOK' /\ SignedOutOK' /\ PlaceOK' /\ FlightOK'
  BY <1>1 DEF SignIn, EntryOK, FetchOK, SignedOutOK, PlaceOK, FlightOK
<1>3. over' <=> over \/ ~({user, holder} \subseteq {None, u})
  BY Zenon DEF SignIn
<1>4. CountOK'
  <2>1. \A a, b : (a \/ ~b) \in BOOLEAN
    OBVIOUS
  <2>2. over' \in BOOLEAN
    BY <2>1, Zenon DEF SignIn
  <2> QED BY <1>1, <2>2 DEF SignIn, CountOK
<1>5. Belongs'
  <2> SUFFICES ASSUME ~over, {user, holder} \subseteq {None, u} PROVE Belongs'
    BY <1>3 DEF Belongs
  <2>1. entry.data # "none" => entry.of = u
    BY <1>1 DEF Belongs, CacheInv, EntryOK
  <2>2. fetch.stage # "idle" => fetch.of \in {None, u}
    BY DEF Belongs, CacheInv
  <2> QED BY <2>1, <2>2 DEF SignIn, Belongs
<1>6. Owed'
  BY DEF SignIn, Owed, CacheInv, Wrong, WrongAnswer, Announcing, Mounted, MountedOn
<1> QED BY <1>2, <1>4, <1>5, <1>6, NextTypes DEF CacheInv

(* The user of the new tokens appears: what was fetched for another is     *)
(* excused, and what was owed to this user stays owed.                     *)
LEMMA UserLoadedHolds == ASSUME CacheInv, UserLoaded PROVE CacheInv'
<1> DEFINE mounts == "budget" # page /\ MountedOn("budget", signing) /\ WantsFetch
                       /\ fetch.stage = "idle"
<1>1. EntryOK /\ FetchOK /\ SignedOutOK /\ PlaceOK /\ FlightOK /\ CountOK
  BY TypeParts DEF CacheInv
<1>2. Asked \in FetchRecord /\ Asked.stage = "asked" /\ Asked.of = holder
  BY <1>1, AskedOK
<1>3. /\ signing # None /\ user' = signing /\ signing' = None /\ page' = "budget"
      /\ fetch' = IF mounts THEN Asked ELSE fetch
      /\ UNCHANGED <<holder, watched, entry, flight, calls, over>>
  BY Zenon DEF UserLoaded, Route
<1>4. EntryOK' /\ SignedOutOK' /\ PlaceOK' /\ FlightOK'
  BY <1>1, <1>3, PagesThere DEF EntryOK, SignedOutOK, PlaceOK, FlightOK
<1>5. FetchOK'
  BY <1>1, <1>2, <1>3 DEF FetchOK
<1>6. CountOK'
  BY <1>1, <1>3 DEF UserLoaded, Excused, CountOK, Unheard
<1>7. Belongs'
  BY <1>2, <1>3 DEF Belongs, CacheInv
<1>8. Announcing' <=> Announcing
  BY <1>3 DEF Announcing
<1>9. Owed'
  <2>1. CASE user \in {None, signing} /\ ~Foreign(signing)
    <3>1. excuse' = excuse
      BY <2>1 DEF UserLoaded
    <3>2. (Wrong' => Wrong) /\ (WrongAnswer' => WrongAnswer)
      BY <1>2, <1>3, <2>1 DEF Wrong, WrongAnswer, Foreign
    <3>3. entry.stale = TRUE /\ ~Mounted => ~Mounted' \/ fetch'.stage # "idle"
      BY <1>1, <1>2, <1>3 DEF Mounted, MountedOn, WantsFetch, SignedOutOK
    <3>4. fetch.stage # "idle" => fetch' = fetch
      BY <1>3
    <3> QED BY <1>3, <1>8, <3>1, <3>2, <3>3, <3>4 DEF Owed, CacheInv
  <2>2. CASE ~(user \in {None, signing} /\ ~Foreign(signing)) /\ Cached
    BY <2>2 DEF UserLoaded, Excused, Owed
  <2>3. CASE ~Cached
    BY <1>2, <1>3, <2>3 DEF Cached, Owed, Wrong, WrongAnswer
  <2> QED BY <2>1, <2>2, <2>3
<1> QED BY <1>4, <1>5, <1>6, <1>7, <1>9, NextTypes DEF CacheInv

LEMMA UserNotLoadedHolds == ASSUME CacheInv, UserNotLoaded PROVE CacheInv'
<1>1. EntryOK /\ FetchOK /\ SignedOutOK /\ PlaceOK /\ FlightOK /\ CountOK
  BY TypeParts DEF CacheInv
<1>2. CASE Forget
  BY <1>2, ForgetHolds DEF UserNotLoaded
<1>3. CASE user' = None /\ page' = "login" /\ UNCHANGED <<holder, entry, fetch, excuse, over>>
  <2>1. UNCHANGED <<watched, flight, calls>> /\ signing' = None
    BY DEF UserNotLoaded
  <2>2. EntryOK' /\ FetchOK' /\ SignedOutOK' /\ PlaceOK' /\ FlightOK' /\ CountOK'
    BY <1>1, <1>3, <2>1, PagesThere
       DEF EntryOK, FetchOK, SignedOutOK, PlaceOK, FlightOK, CountOK
  <2>3. Belongs'
    BY <1>3, <2>1 DEF Belongs, CacheInv
  <2>4. Owed'
    <3>1. (Announcing' <=> Announcing) /\ ~Mounted'
      BY <1>3, <2>1 DEF Announcing, Mounted, MountedOn
    <3>2. (Wrong' => Wrong) /\ (WrongAnswer' => WrongAnswer)
      BY <1>3 DEF Wrong, WrongAnswer
    <3> QED BY <1>3, <3>1, <3>2 DEF Owed, CacheInv
  <2> QED BY <2>2, <2>3, <2>4, NextTypes DEF CacheInv
<1> QED BY <1>2, <1>3 DEF UserNotLoaded

-----------------------------------------------------------------------------
(* Every step preserves the invariant.                                     *)
LEMMA NextHolds == CacheInv /\ [WebNext]_cacheVars => CacheInv'
<1> SUFFICES ASSUME CacheInv, [WebNext]_cacheVars PROVE CacheInv'
  OBVIOUS
<1>1. CASE \E p \in Pages : Navigate(p)
  BY <1>1, NavigateHolds
<1>2. CASE OpenLogin
  BY <1>2, OpenLoginHolds
<1>3. CASE \E u \in Users : SignIn(u)
  BY <1>3, SignInHolds
<1>4. CASE ClearSession
  BY <1>4, ClearSessionHolds
<1>5. CASE \E s \in Slots, m \in CallNames : Commit(s, m)
  BY <1>5, CommitHolds
<1>6. CASE \E s \in Slots : Succeed(s) \/ Lose(s)
  BY <1>6, SucceedHolds, LoseHolds
<1>7. CASE \E u \in Users : ChangeElsewhere(u)
  BY <1>7, ChangeElsewhereHolds
<1>8. CASE Answer
  BY <1>8, AnswerHolds
<1>9. CASE Take
  BY <1>9, TakeHolds
<1>10. CASE FetchFails
  BY <1>10, FetchFailsHolds
<1>11. CASE Age
  BY <1>11, AgeHolds
<1>13. CASE UserLoaded \/ UserNotLoaded
  BY <1>13, UserLoadedHolds, UserNotLoadedHolds
<1>12. CASE UNCHANGED cacheVars
  <2>1. /\ EntryOK' /\ FetchOK' /\ SignedOutOK' /\ PlaceOK' /\ FlightOK' /\ CountOK'
    BY <1>12, TypeParts
       DEF CacheInv, cacheVars, EntryOK, FetchOK, SignedOutOK, PlaceOK, FlightOK, CountOK
  <2>2. Belongs' /\ Owed'
    BY <1>12 DEF CacheInv, cacheVars, Belongs, Owed, Announcing, Mounted, MountedOn,
                   Wrong, WrongAnswer
  <2> QED BY <2>1, <2>2, NextTypes DEF CacheInv
<1> QED BY <1>1, <1>2, <1>3, <1>4, <1>5, <1>6, <1>7, <1>8, <1>9, <1>10, <1>11, <1>12, <1>13
           DEF WebNext

LEMMA CacheHolds == WebSpec => []CacheInv
  BY InitHolds, NextHolds, PTL DEF WebSpec

(* The state keeps its types: an entry has an owner exactly when it holds  *)
(* something, a fetch without a token is never answered, and without a     *)
(* user only the sign-in page is on screen, whichever of sign-in, logout   *)
(* and a failed /me took the user away (AuthContext, RequireAuth).         *)
THEOREM WebTypesHold == WebSpec => []WebTypeOK
<1>1. CacheInv => WebTypeOK
  BY DEF CacheInv
<1> QED BY <1>1, CacheHolds, PTL

(* Whatever calls and fetches overlapped, a page at rest shows what the    *)
(* store holds, or one of the named ways of not hearing of a write took    *)
(* place (invalidateQueries, staleTime, cancelled and joined refetches).   *)
THEOREM PagesRestCurrent == WebSpec => []RestsCurrent
<1>1. CacheInv => RestsCurrent
  BY DEF CacheInv, Owed, Announcing, RestsCurrent, AtRest
<1> QED BY <1>1, CacheHolds, PTL

(* After clearSessionState no page shows the next user what was fetched    *)
(* for the last one, answers still under way included; only signing in     *)
(* over a session can do that.                                             *)
THEOREM SignOutIsComplete == WebSpec => []SignOutForgets
<1>1. CacheInv => SignOutForgets
  <2> SUFFICES ASSUME CacheInv, ~over, Mounted, entry.data # "none"
               PROVE  entry.of = user
    BY DEF SignOutForgets
  <2>1. EntryOK
    BY TypeParts DEF CacheInv
  <2>2. entry.of = holder /\ holder # None
    BY <2>1 DEF CacheInv, Belongs, EntryOK
  <2> QED BY <2>2 DEF CacheInv, Belongs, Mounted, MountedOn
<1> QED BY <1>1, CacheHolds, PTL

-----------------------------------------------------------------------------
(* The user's own writes: which calls leave an entity's query unannounced. *)
Entities == DOMAIN Announced

Leaves(call, q) == q \in call.changes /\ q \notin call.tells

LEMMA EntitiesAre ==
  Entities = {"accounts", "transactions", "accountTransactions", "unassigned", "budget",
              "categoryGroups", "scopes", "connections", "syncStatus"}
  BY DEF Entities, Announced

(* Page by page: every call's onSuccess against what its handler changes.  *)
LEMMA BudgetCalls ==
  ASSUME NEW m \in DOMAIN CallsOn.budget, NEW q \in Entities
  PROVE  ~Leaves(CallsOn.budget[m], q)
  BY DEF Leaves, CallsOn, Call, AssignCall, FundGoalsCall, MoveMoneyCall

LEMMA AccountsCalls ==
  ASSUME NEW m \in DOMAIN CallsOn.accounts, NEW q \in Entities
  PROVE  ~Leaves(CallsOn.accounts[m], q)
  BY EntitiesAre
     DEF Leaves, CallsOn, Call, CreateAccountCall, UpdateAccountCall, UnlinkBankCall,
         DeleteAccountCall, SyncCall, RowChange, TransactionKeys

LEMMA AccountCalls ==
  ASSUME NEW m \in DOMAIN CallsOn.account, NEW q \in Entities,
         Leaves(CallsOn.account[m], q)
  PROVE  m = "setBalance" /\ q \in {"transactions", "unassigned"}
  BY EntitiesAre
     DEF Leaves, CallsOn, Call, AccountChangeCall, BalanceCall, InlineCategoryCall,
         AccountUnlinkCall, AfterLink, RowChange, CategoryChange, PeerChange,
         TransactionKeys

LEMMA CallbackCalls ==
  ASSUME NEW m \in DOMAIN CallsOn.callback, NEW q \in Entities
  PROVE  ~Leaves(CallsOn.callback[m], q)
  BY EntitiesAre
     DEF Leaves, CallsOn, Call, CallbackCall, RowChange, TransactionKeys

LEMMA CategoriesCalls ==
  ASSUME NEW m \in DOMAIN CallsOn.categories, NEW q \in Entities,
         Leaves(CallsOn.categories[m], q)
  PROVE  \/ m = "order" /\ q = "budget"
         \/ m = "deleteGroup" /\ q \in TransactionKeys
  BY EntitiesAre
     DEF Leaves, CallsOn, Call, GroupCall, CategoryCall, EditCategoryCall, EditGroupCall,
         DeleteGroupCall, DeleteCategoryCall, OrderCall, ImportCategoriesCall,
         CategoryChange, TransactionKeys

LEMMA TransactionsCalls ==
  ASSUME NEW m \in DOMAIN CallsOn.transactions, NEW q \in Entities,
         Leaves(CallsOn.transactions[m], q)
  PROVE  m = "importYnab" /\ q = "budget"
  BY EntitiesAre
     DEF Leaves, CallsOn, Call, ImportCall, UpdateCall, CreateCall, DeleteCall, ClearedCall,
         BulkDeleteCall, BulkCategoryCall, UnlinkCall, LinkCall, CreateLegCall, BannerCall,
         PayeeMatchCall, AfterLink, RowChange, CategoryChange, PeerChange, TransactionKeys

LEMMA SettingsCalls ==
  ASSUME NEW m \in DOMAIN CallsOn.settings, NEW q \in Entities
  PROVE  ~Leaves(CallsOn.settings[m], q)
  BY EntitiesAre
     DEF Leaves, CallsOn, Call, ResetCall, ScopeCall, PayeeCall, CreateRuleCall,
         DeleteRuleCall, ResetKeys, RowChange, TransactionKeys

(* Together: whatever a page leaves unannounced is listed. *)
LEMMA ListedCalls ==
  ASSUME NEW p \in Pages, NEW m \in DOMAIN CallsOn[p], NEW q \in Entities,
         Leaves(CallsOn[p][m], q)
  PROVE  m \in Announced[q]
<1>1. p \in {"budget", "accounts", "account", "callback", "categories",
             "transactions", "settings"}
  <2>1. p \in {"budget", "accounts", "account", "callback", "categories",
               "transactions", "settings", "insights", "login"}
    BY DEF Pages, QueriesOn
  <2>2. CallsOn.insights = <<>> /\ CallsOn.login = <<>>
    BY DEF CallsOn
  <2>3. p # "insights" /\ p # "login"
    BY <2>2
  <2> QED BY <2>1, <2>3
<1>2. \/ m = "setBalance" /\ q \in {"transactions", "unassigned"}
      \/ m = "order" /\ q = "budget"
      \/ m = "deleteGroup" /\ q \in TransactionKeys
      \/ m = "importYnab" /\ q = "budget"
  BY <1>1, BudgetCalls, AccountsCalls, AccountCalls, CallbackCalls, CategoriesCalls,
     TransactionsCalls, SettingsCalls
<1> QED BY <1>2 DEF Announced, TransactionKeys

(* Every excuse is one of the ways of not hearing, or a listed call. *)
OwnExcuses ==
  watched \in Entities => excuse \subseteq Unheard \cup Announced[watched]

LEMMA NextExcuses == CacheInv /\ OwnExcuses /\ [WebNext]_cacheVars => OwnExcuses'
<1> SUFFICES ASSUME CacheInv, OwnExcuses, [WebNext]_cacheVars, watched' \in Entities
             PROVE  excuse' \subseteq Unheard \cup Announced[watched']
  BY DEF OwnExcuses
<1>1. watched' = watched
  BY DEF WebNext, cacheVars, Navigate, OpenLogin, SignIn, UserLoaded, UserNotLoaded,
         ClearSession, Commit, Succeed, Lose, ChangeElsewhere, Answer, Take, FetchFails, Age
<1>2. excuse \subseteq Unheard \cup Announced[watched]
  BY <1>1 DEF OwnExcuses
<1>3. ASSUME NEW s \in Slots, NEW m \in CallNames, Commit(s, m)
      PROVE  excuse' \subseteq Unheard \cup Announced[watched]
  <2>1. CASE excuse' = excuse
    BY <1>2, <2>1
  <2>2. CASE excuse' = excuse \cup {m} /\ watched \in CallsOn[page][m].changes
                                       /\ watched \notin CallsOn[page][m].tells
    <3>1. page \in Pages /\ m \in DOMAIN CallsOn[page]
      BY <1>3 DEF Commit, CacheInv, WebTypeOK
    <3>2. m \in Announced[watched]
      BY <1>1, <2>2, <3>1, ListedCalls DEF Leaves
    <3> QED BY <1>2, <2>2, <3>2
  <2> QED BY <1>3, <2>1, <2>2 DEF Commit, Excused
<1>4. ASSUME ~\E s \in Slots, m \in CallNames : Commit(s, m)
      PROVE  excuse' \subseteq excuse \cup Unheard
  BY <1>4 DEF WebNext, cacheVars, Excused, Invalidate, Unheard, Navigate, OpenLogin,
              SignIn, UserLoaded, UserNotLoaded, ClearSession, Forget, Succeed, Lose,
              ChangeElsewhere, Answer, Take, FetchFails, Age
<1> QED BY <1>1, <1>2, <1>3, <1>4

(* A page at rest shows the user's own successful writes: whatever call    *)
(* changed an entity, the onSuccess of its page invalidated the queries    *)
(* that read it, but for the calls listed in Announced, and however the    *)
(* calls, fetches and retries overlapped.                                  *)
THEOREM OwnWritesAreShown == WebSpec => []OwnWritesShown
<1>1. CacheInv /\ OwnExcuses => OwnWritesShown
  BY DEF CacheInv, Owed, Announcing, AtRest, OwnExcuses, OwnWritesShown, Entities
<1>2. WebInit => OwnExcuses
  BY DEF WebInit, OwnExcuses
<1> QED BY <1>1, <1>2, NextExcuses, CacheHolds, InitHolds, NextHolds, PTL DEF WebSpec

-----------------------------------------------------------------------------
(* The cache against CachedView: what a reader of the query sees.          *)
Shown == IF entry.data = "none" THEN "blank" ELSE IF Wrong THEN "old" ELSE "current"

LEMMA MountedBoolean == Mounted' \in BOOLEAN /\ Mounted \in BOOLEAN
<1>1. \A a, x, S : (a /\ x \in S) \in BOOLEAN
  OBVIOUS
<1> QED BY <1>1, Zenon DEF Mounted, MountedOn

LEMMA TurnStep ==
  ASSUME Shown' = Shown, (excuse # {})' = (excuse # {})
  PROVE  View!Next
<1>1. View!Turn
  <2>1. Mounted' \in BOOLEAN
    BY MountedBoolean
  <2>2. UNCHANGED <<Shown, excuse # {}>>
    OBVIOUS
  <2> QED BY <2>1, <2>2, Zenon DEF View!Turn, Shown
<1> QED BY <1>1, Zenon DEF View!Next

(* A step that leaves what is shown alone is one of CachedView when the    *)
(* reader or the excuse changes, not both.                                 *)
LEMMA QuietStep ==
  ASSUME Shown' = Shown, excuse' = excuse \/ Mounted' = Mounted
  PROVE  View!Next
<1>1. CASE (excuse # {})' = (excuse # {})
  BY <1>1, TurnStep
<1>2. CASE Mounted' = Mounted /\ excuse' # {}
  <2>1. (excuse # {})' = TRUE /\ UNCHANGED <<Mounted, Shown>>
    BY <1>2
  <2>2. View!Excuse
    BY <2>1, Zenon DEF View!Excuse, Shown
  <2> QED BY <2>2, Zenon DEF View!Next
<1>3. CASE Mounted' = Mounted /\ excuse' = {}
  <2>1. (excuse # {})' = FALSE /\ UNCHANGED <<Mounted, Shown>>
    BY <1>3
  <2>2. View!Owe
    BY <2>1, Zenon DEF View!Owe, Shown
  <2> QED BY <2>2, Zenon DEF View!Next
<1> QED BY <1>1, <1>2, <1>3

(* The store moves past what is shown, with or without an excuse.          *)
LEMMA WriteStep ==
  ASSUME Shown = "current", Shown' = "old", Mounted' = Mounted,
         (excuse # {})' = (excuse # {}) \/ excuse' # {}
  PROVE  View!Next
<1>1. (excuse # {})' \in {excuse # {}, TRUE}
  OBVIOUS
<1>2. View!Write
  BY <1>1, Zenon DEF View!Write, Shown
<1> QED BY <1>2, Zenon DEF View!Next

LEMMA ShownValues == EntryOK => Shown \in {"blank", "current", "old"}
  BY DEF EntryOK, EntryRecord, Shown

(* An answer is taken: what was shown is replaced.                         *)
LEMMA TakenStep ==
  ASSUME EntryOK, Shown' \in {"current", "old"}, Mounted' = Mounted, excuse' = excuse
  PROVE  View!Next
<1>1. CASE Shown' = Shown
  BY <1>1, QuietStep
<1>2. CASE Shown = "blank"
  <2>1. View!Load
    BY <1>2, Zenon DEF View!Load, Shown
  <2> QED BY <2>1, Zenon DEF View!Next
<1>3. CASE Shown = "old" /\ Shown' = "current"
  <2>1. View!Refresh
    BY <1>3, Zenon DEF View!Refresh, Shown
  <2> QED BY <2>1, Zenon DEF View!Next
<1>4. CASE Shown = "current" /\ Shown' = "old"
  BY <1>4, WriteStep
<1> QED BY <1>1, <1>2, <1>3, <1>4, ShownValues

(* A change of the store, announced or not.                                *)
LEMMA OutdateStep ==
  ASSUME EntryOK, FetchOK, Mounted' = Mounted, user' = user,
         (\E u : Outdate(u)) \/ UNCHANGED entry,
         (excuse # {})' = (excuse # {}) \/ excuse' # {},
         (excuse' = excuse) \/ excuse' # {}
  PROVE  View!Next
<1>1. CASE UNCHANGED entry
  <2>1. Shown' = Shown
    BY <1>1 DEF Shown, Wrong
  <2> QED BY <2>1, QuietStep
<1>2. ASSUME NEW u, Outdate(u) PROVE View!Next
  <2>1. CASE entry.data = "current" /\ entry.of = u
    <3>1. entry'.data = "old" /\ entry'.of = entry.of
      BY <1>2, <2>1, EntryUpdates DEF Outdate
    <3>2. Shown' = "old"
      BY <3>1 DEF Shown, Wrong
    <3>3. CASE Shown = "current"
      BY <3>2, <3>3, WriteStep
    <3>4. CASE Shown # "current"
      <4>1. Shown' = Shown
        BY <2>1, <3>2, <3>4 DEF Shown
      <4> QED BY <4>1, QuietStep
    <3> QED BY <3>3, <3>4
  <2>2. CASE ~(entry.data = "current" /\ entry.of = u)
    <3>1. entry' = entry
      BY <1>2, <2>2 DEF Outdate
    <3> QED BY <1>1, <3>1
  <2> QED BY <2>1, <2>2
<1> QED BY <1>1, <1>2

(* Another user appears, or none is left.                                  *)
LEMMA SwitchStep ==
  ASSUME EntryOK, entry' = entry,
         excuse' # {} \/ (~Mounted' /\ excuse' = excuse)
  PROVE  View!Next
<1>1. (Shown' = "blank" <=> Shown = "blank") /\ Shown' \in {"blank", "current", "old"}
  BY DEF Shown
<1>2. Shown' \in (IF Shown = "blank" THEN {"blank"} ELSE {"current", "old"})
  BY <1>1
<1>3. Mounted' \in BOOLEAN
  BY MountedBoolean
<1>4. (excuse # {})' = TRUE \/ (~Mounted' /\ UNCHANGED (excuse # {}))
  OBVIOUS
<1>5. View!Switch
  BY <1>2, <1>3, <1>4, Zenon DEF View!Switch, Shown
<1> QED BY <1>5, Zenon DEF View!Next

LEMMA UserLoadedStep ==
  ASSUME CacheInv, UserLoaded
  PROVE  View!Next
<1>1. EntryOK
  BY TypeParts DEF CacheInv
<1>2. entry' = entry /\ user' = signing
  BY DEF UserLoaded
<1>3. CASE user \in {None, signing} /\ ~Foreign(signing)
  <2>1. excuse' = excuse
    BY <1>3 DEF UserLoaded
  <2>2. entry.data = "none" \/ entry.of = signing
    BY <1>3 DEF Foreign
  <2>3. Shown' = Shown
    BY <1>2, <1>3, <2>2 DEF Shown, Wrong
  <2> QED BY <2>1, <2>3, QuietStep
<1>4. CASE ~(user \in {None, signing} /\ ~Foreign(signing)) /\ Cached
  <2>1. excuse' # {}
    BY <1>4 DEF UserLoaded, Excused
  <2> QED BY <1>1, <1>2, <2>1, SwitchStep
<1>5. CASE ~Cached
  <2>1. excuse' = excuse /\ entry.data = "none"
    BY <1>5 DEF UserLoaded, Excused, Cached
  <2> QED BY <1>2, <2>1, QuietStep DEF Shown
<1> QED BY <1>3, <1>4, <1>5

(* Every step of the cache is one that CachedView allows.                  *)
LEMMA StepsMap ==
  ASSUME CacheInv, WebNext
  PROVE  View!Next
<1>1. EntryOK /\ FetchOK
  BY TypeParts DEF CacheInv
<1>2. ASSUME NEW p \in Pages, Navigate(p) PROVE View!Next
  BY <1>2, QuietStep DEF Navigate, Shown, Wrong
<1>3. CASE OpenLogin
  BY <1>3, QuietStep DEF OpenLogin, Shown, Wrong
<1>4. ASSUME NEW u \in Users, SignIn(u) PROVE View!Next
  BY <1>4, QuietStep DEF SignIn, Shown, Wrong
<1>14. CASE UserLoaded
  BY <1>14, UserLoadedStep
<1>5. ASSUME Forget PROVE View!Next
  <2>1. Mounted' = FALSE /\ (excuse # {})' = FALSE
    BY <1>5 DEF Forget, Mounted, MountedOn
  <2>2. Shown' = "blank"
    BY <1>5, EmptyOK DEF Forget, Shown
  <2>3. View!Drop
    BY <2>1, <2>2, Zenon DEF View!Drop, Shown
  <2> QED BY <2>3, Zenon DEF View!Next
<1>15. CASE UserNotLoaded
  <2>1. CASE Forget
    BY <1>5, <2>1
  <2>2. CASE user' = None /\ UNCHANGED <<entry, excuse>>
    <3>1. ~Mounted'
      BY <2>2 DEF Mounted, MountedOn
    <3> QED BY <1>1, <2>2, <3>1, SwitchStep
  <2> QED BY <1>15, <2>1, <2>2 DEF UserNotLoaded
<1>16. CASE ClearSession
  BY <1>5, <1>16 DEF ClearSession
<1>6. ASSUME NEW s \in Slots, NEW m \in CallNames, Commit(s, m) PROVE View!Next
  <2>1. Mounted' = Mounted /\ user' = user
    BY <1>6 DEF Commit, Mounted, MountedOn
  <2>2. Outdate(holder) \/ UNCHANGED entry
    BY <1>6 DEF Commit
  <2>3. excuse' = excuse \/ excuse' # {}
    BY <1>6 DEF Commit, Excused
  <2> QED BY <1>1, <2>1, <2>2, <2>3, OutdateStep
<1>7. ASSUME NEW s \in Slots, Succeed(s) PROVE View!Next
  <2>1. Mounted' = Mounted
    BY <1>7 DEF Succeed, Mounted, MountedOn
  <2>2. Shown' = Shown
    <3> user' = user
      BY <1>7 DEF Succeed
    <3>1. CASE entry' = entry
      BY <3>1 DEF Shown, Wrong
    <3>2. CASE Invalidate
      <4>1. entry' = [entry EXCEPT !.stale = entry.data # "none"]
        BY <3>2 DEF Invalidate
      <4>2. entry'.data = entry.data /\ entry'.of = entry.of
        BY <1>1, <4>1, EntryUpdates
      <4> QED BY <4>2 DEF Shown, Wrong
    <3> QED BY <1>7, <3>1, <3>2 DEF Succeed
  <2> QED BY <2>1, <2>2, QuietStep
<1>8. ASSUME NEW s \in Slots, Lose(s) PROVE View!Next
  <2>1. Mounted' = Mounted /\ Shown' = Shown
    BY <1>8 DEF Lose, Mounted, MountedOn, Shown, Wrong
  <2> QED BY <2>1, QuietStep
<1>9. ASSUME NEW u \in Users, ChangeElsewhere(u) PROVE View!Next
  <2>1. /\ Mounted' = Mounted /\ user' = user /\ Outdate(u)
        /\ excuse' = excuse \/ excuse' # {}
    BY <1>9 DEF ChangeElsewhere, Mounted, MountedOn, Excused
  <2> QED BY <1>1, <2>1, OutdateStep
<1>10. CASE Answer
  <2>1. Mounted' = Mounted /\ Shown' = Shown
    BY <1>10 DEF Answer, Mounted, MountedOn, Shown, Wrong
  <2> QED BY <2>1, QuietStep
<1>11. CASE Take
  <2>1. Mounted' = Mounted /\ excuse' = excuse
    BY <1>11 DEF Take, Mounted, MountedOn
  <2>2. entry'.data = fetch.answer /\ fetch.answer \in {"current", "old"}
    BY <1>1, <1>11 DEF Take, FetchOK, FetchRecord
  <2>3. Shown' \in {"current", "old"}
    BY <2>2 DEF Shown
  <2> QED BY <1>1, <2>1, <2>3, TakenStep
<1>12. CASE FetchFails
  <2>1. Mounted' = Mounted /\ Shown' = Shown
    BY <1>12 DEF FetchFails, Mounted, MountedOn, Shown, Wrong
  <2> QED BY <2>1, QuietStep
<1>13. CASE Age
  <2>1. /\ Mounted' = Mounted /\ user' = user
        /\ entry'.data = entry.data /\ entry'.of = entry.of
    BY <1>1, <1>13, EntryUpdates DEF Age, Mounted, MountedOn
  <2> QED BY <2>1, QuietStep DEF Shown, Wrong
<1> QED BY <1>2, <1>3, <1>4, <1>5, <1>6, <1>7, <1>8, <1>9, <1>10, <1>11, <1>12, <1>13,
           <1>14, <1>15, <1>16
           DEF WebNext

(* The safety half of KeepsViewsFresh: the cache starts like CachedView    *)
(* and takes only its steps. The other half, the replacement of an old     *)
(* answer somebody looks at, needs fairness.                               *)
THEOREM CacheImplementsView ==
  WebSpec => View!Init /\ [][View!Next]_(View!cachedVars)
<1>1. WebInit => View!Init
  <2> SUFFICES ASSUME WebInit PROVE View!Init
    OBVIOUS
  <2>1. (Mounted <=> FALSE) /\ Shown = "blank" /\ ~(excuse # {})
    BY EmptyOK DEF WebInit, Mounted, MountedOn, Shown
  <2> QED BY <2>1, Zenon DEF View!Init, Shown
<1>2. CacheInv /\ [WebNext]_cacheVars => [View!Next]_(View!cachedVars)
  <2> SUFFICES ASSUME CacheInv, [WebNext]_cacheVars PROVE View!Next
    OBVIOUS
  <2>1. CASE WebNext
    BY <2>1, StepsMap
  <2>2. CASE UNCHANGED cacheVars
    <3>1. Shown' = Shown /\ excuse' = excuse
      BY <2>2 DEF cacheVars, Shown, Wrong
    <3> QED BY <3>1, QuietStep
  <2> QED BY <2>1, <2>2
<1> QED BY <1>1, <1>2, CacheHolds, PTL DEF WebSpec
=============================================================================
