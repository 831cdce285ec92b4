------------------------ MODULE RefreshTokens_proofs ------------------------
(***************************************************************************)
(* Proofs about RefreshTokens.  Book is what holds of the table by itself; *)
(* Requests is what a request that has read its token still knows of it    *)
(* when it writes: others ran in between, but none of them can move the    *)
(* token to another family or end a family that is rotating.               *)
(***************************************************************************)
EXTENDS RefreshTokens, FiniteSetTheorems, TLAPS

(* The table, of which n tokens were issued and the families e are ended.  *)
Book(table, n, e) ==
  /\ DOMAIN table \subseteq 1 .. n
  /\ table \in [DOMAIN table -> TokenRow]
  /\ \A t \in DOMAIN table :
       /\ table[t].family \in 1 .. n
       /\ table[t].from \in 1 .. n \cup {None}
       /\ table[t].family \in e => table[t].revoked = TRUE
       /\ table[t].from \in DOMAIN table => table[table[t].from].revoked = TRUE

(* One request under way, r. *)
RequestOK(r, table, n, e) ==
  /\ r \in SlotState
  /\ r.step = "sent" => r.kind # "none"
  /\ r.kind \in {"refresh", "logout"} => r.token \in 1 .. n
  /\ r.kind = "login" => r.step \in {"sent", "answered"}
  /\ r.kind = "none" <=> r.step = "idle"
  /\ r.step \in {"rotating", "revoking"} => r.family \in 1 .. n
  /\ r.step = "rotating" =>
       /\ r.kind = "refresh"
       /\ r.family \notin e
       /\ r.token \in DOMAIN table => table[r.token].family = r.family
  /\ r.answer \in 1 .. n \cup {None, Failed}
  /\ r.step # "answered" => r.answer = None
  /\ r.step = "answered" /\ r.kind = "login" => r.answer \in 1 .. n

Requests ==
  /\ requests = [w \in Slots |-> requests[w]]
  /\ \A w \in Slots : RequestOK(requests[w], tokens, issued, ended)

(* Every token a request may still issue has its place below the bound.    *)
RoomLeft == issued + Cardinality(Issuing) <= MaxTokens

Counters ==
  /\ issued \in Nat /\ expired \in 0 .. issued
  /\ ended \subseteq 1 .. issued
  /\ RoomLeft

IInv == Counters /\ Book(tokens, issued, ended) /\ Requests

-----------------------------------------------------------------------------
(* The helpers on tables.                                                  *)

(* Issuing the next token, of a family not ended, in exchange for a token  *)
(* that is revoked or for none, keeps the table in order.                  *)
LEMMA IssueKeeps ==
  ASSUME NEW table, NEW n \in Nat, n + 1 \in Ids, NEW e \in SUBSET (1 .. n),
         Book(table, n, e),
         NEW family \in 1 .. n + 1, family \notin e,
         NEW from \in 1 .. n \cup {None},
         from \in DOMAIN table => table[from].revoked = TRUE
  PROVE  /\ Book(Issue(table, n + 1, family, from), n + 1, e)
         /\ \A t \in 1 .. n :
              t \in DOMAIN Issue(table, n + 1, family, from) =>
                t \in DOMAIN table /\ Issue(table, n + 1, family, from)[t] = table[t]
<1>. DEFINE new == Issue(table, n + 1, family, from)
<1>0. 1 .. n \subseteq 1 .. n + 1 /\ n + 1 \notin 1 .. n /\ None \notin 1 .. n + 1
  BY TokensAssumption
<1>1. /\ DOMAIN new = DOMAIN table \cup {n + 1}
      /\ n + 1 \notin DOMAIN table
      /\ new[n + 1] = [family |-> family, revoked |-> FALSE, from |-> from]
      /\ \A t \in DOMAIN table : new[t] = table[t]
      /\ new = [t \in DOMAIN new |-> new[t]]
  BY DEF Issue, Book
<1>. HIDE DEF new
<1>2. new[n + 1] \in TokenRow
  BY <1>1, TokensAssumption DEF TokenRow, Ids
<1>3. new \in [DOMAIN new -> TokenRow]
  BY <1>1, <1>2 DEF Book
<1>4. ASSUME NEW t \in DOMAIN new
      PROVE  /\ new[t].family \in 1 .. n + 1
             /\ new[t].from \in 1 .. n \cup {None}
             /\ new[t].family \in e => new[t].revoked = TRUE
             /\ new[t].from \in DOMAIN table => table[new[t].from].revoked = TRUE
  BY <1>1, <1>4 DEF Book
<1>5. DOMAIN new \subseteq 1 .. n + 1
  BY <1>1 DEF Book
<1>6. ASSUME NEW t \in DOMAIN new, new[t].from \in DOMAIN new
      PROVE  new[new[t].from].revoked = TRUE
  <2>1. CASE new[t].from \in 1 .. n
    <3>1. new[t].from \in DOMAIN table
      BY <1>0, <1>1, <1>6, <2>1
    <3>2. table[new[t].from].revoked = TRUE
      BY <1>4, <1>6, <3>1
    <3>. QED  BY <1>1, <3>1, <3>2
  <2>2. CASE new[t].from = None
    BY <1>0, <1>5, <1>6, <2>2
  <2>. QED  BY <1>4, <1>6, <2>1, <2>2
<1>7. Book(new, n + 1, e)
  <2>1. \A t \in DOMAIN new : new[t].from \in 1 .. n + 1 \cup {None}
    BY <1>0, <1>4
  <2>. QED  BY <1>3, <1>4, <1>5, <1>6, <2>1 DEF Book
<1>. QED  BY <1>1, <1>7 DEF new

(* What is left of a table in which the tokens in ids were revoked.        *)
IsRevokedIn(new, table, ids) ==
  /\ DOMAIN new = DOMAIN table
  /\ \A t \in DOMAIN table :
       /\ new[t].family = table[t].family
       /\ t \in ids => new[t].revoked = TRUE

(* Revoking tokens changes nothing else of them. *)
LEMMA RevokeKeeps ==
  ASSUME NEW table, NEW n \in Nat, NEW e, NEW ids, Book(table, n, e)
  PROVE  /\ Book(Revoke(table, ids), n, e)
         /\ IsRevokedIn(Revoke(table, ids), table, ids)
<1>. DEFINE new == Revoke(table, ids)
<1>1. /\ DOMAIN new = DOMAIN table
      /\ new = [t \in DOMAIN new |-> new[t]]
      /\ \A t \in DOMAIN table :
           /\ t \in ids => new[t] = [table[t] EXCEPT !.revoked = TRUE]
           /\ t \notin ids => new[t] = table[t]
  BY DEF Revoke
<1>. HIDE DEF new
<1>2. ASSUME NEW t \in DOMAIN table
      PROVE  /\ new[t] \in TokenRow
             /\ new[t].family = table[t].family
             /\ new[t].from = table[t].from
             /\ t \in ids => new[t].revoked = TRUE
             /\ table[t].revoked = TRUE => new[t].revoked = TRUE
  <2>1. table[t] \in TokenRow
    BY <1>2 DEF Book
  <2>2. CASE t \in ids
    BY <1>1, <1>2, <2>1, <2>2 DEF TokenRow
  <2>3. CASE t \notin ids
    BY <1>1, <1>2, <2>1, <2>3
  <2>. QED  BY <2>2, <2>3
<1>3. Book(new, n, e)
  BY <1>1, <1>2 DEF Book
<1>. QED  BY <1>1, <1>2, <1>3 DEF new, IsRevokedIn

(* What is left of a table without the rows of ids.                        *)
IsWithoutIn(new, table, ids) ==
  /\ DOMAIN new = DOMAIN table \ ids
  /\ \A t \in DOMAIN new : new[t] = table[t]

(* Deleting rows leaves the rest in order. *)
LEMMA WithoutKeeps ==
  ASSUME NEW table, NEW n \in Nat, NEW e, NEW ids, Book(table, n, e)
  PROVE  /\ Book(Without(table, ids), n, e)
         /\ IsWithoutIn(Without(table, ids), table, ids)
BY DEF Book, Without, IsWithoutIn

-----------------------------------------------------------------------------
(* The helpers on requests.                                                *)

(* A request is as good after the table grew, lost rows or had rows        *)
(* revoked, as long as no family that rotates was ended.                   *)
LEMMA RequestStays ==
  ASSUME NEW r, NEW table, NEW n \in Nat, NEW e, RequestOK(r, table, n, e),
         NEW table2, NEW n2 \in Nat, n <= n2, NEW e2,
         r.step = "rotating" => r.family \notin e2,
         \A t \in DOMAIN table2 \cap (1 .. n) :
           t \in DOMAIN table /\ table2[t].family = table[t].family
  PROVE  RequestOK(r, table2, n2, e2)
<1>1. \A t \in 1 .. n : t \in 1 .. n2
  OBVIOUS
<1>. QED  BY <1>1 DEF RequestOK

(* A request that is answered. *)
LEMMA AnsweredOK ==
  ASSUME NEW r, NEW table, NEW n \in Nat, NEW e, RequestOK(r, table, n, e),
         r.step # "idle", n <= MaxTokens,
         NEW answer \in 1 .. n \cup {None, Failed},
         r.kind = "login" => answer \in 1 .. n
  PROVE  /\ RequestOK([r EXCEPT !.step = "answered", !.answer = answer], table, n, e)
         /\ [r EXCEPT !.step = "answered", !.answer = answer].step = "answered"
<1>. DEFINE s == [r EXCEPT !.step = "answered", !.answer = answer]
<1>1. answer \in Ids \cup {None, Failed}
  BY TokensAssumption DEF Ids
<1>2. /\ s \in SlotState
      /\ s.step = "answered" /\ s.answer = answer
      /\ s.kind = r.kind /\ s.token = r.token
  BY <1>1 DEF RequestOK, SlotState
<1>. HIDE DEF s
<1>3. RequestOK(s, table, n, e)
  BY <1>2 DEF RequestOK
<1>. QED  BY <1>2, <1>3 DEF s

(* The requests stay in order when one of them, at w, becomes r.           *)
LEMMA OneRequestMoves ==
  ASSUME Requests, NEW w \in Slots, NEW r,
         requests' = [requests EXCEPT ![w] = r],
         RequestOK(r, tokens', issued', ended'),
         \A v \in Slots \ {w} : RequestOK(requests[v], tokens', issued', ended')
  PROVE  /\ Requests'
         /\ \A v \in Slots \ {w} : requests'[v] = requests[v]
         /\ requests'[w] = r
BY DEF Requests

(* Fewer requests need no more places below the bound. *)
LEMMA RoomKept ==
  ASSUME NEW n \in Nat, NEW I, IsFiniteSet(I), NEW J \in SUBSET I
  PROVE  Cardinality(J) <= Cardinality(I) /\ IsFiniteSet(J)
         /\ Cardinality(J) \in Nat /\ Cardinality(I) \in Nat
BY FS_Subset, FS_CardinalityType

(* One request less frees a place. *)
LEMMA RoomUsed ==
  ASSUME NEW I, IsFiniteSet(I), NEW w \in I, NEW J \in SUBSET (I \ {w})
  PROVE  Cardinality(J) + 1 <= Cardinality(I)
         /\ Cardinality(J) \in Nat /\ Cardinality(I) \in Nat
<1>1. /\ IsFiniteSet(I \ {w})
      /\ Cardinality(I \ {w}) = Cardinality(I) - 1
  BY FS_RemoveElement
<1>2. Cardinality(J) <= Cardinality(I \ {w}) /\ Cardinality(J) \in Nat
  BY <1>1, FS_Subset, FS_CardinalityType
<1>3. Cardinality(I) \in Nat
  BY FS_CardinalityType
<1>. QED  BY <1>1, <1>2, <1>3

(* One request more takes at most one place. *)
LEMMA RoomTaken ==
  ASSUME NEW I, IsFiniteSet(I), NEW w, NEW J \in SUBSET (I \cup {w})
  PROVE  Cardinality(J) <= Cardinality(I) + 1
         /\ Cardinality(J) \in Nat /\ Cardinality(I) \in Nat
<1>1. /\ IsFiniteSet(I \cup {w})
      /\ Cardinality(I \cup {w}) <= Cardinality(I) + 1
  <2>1. CASE w \in I
    <3>1. I \cup {w} = I
      BY <2>1
    <3>2. Cardinality(I \cup {w}) = Cardinality(I) /\ Cardinality(I) \in Nat
      BY <3>1, FS_CardinalityType
    <3>3. IsFiniteSet(I \cup {w})
      BY <3>1
    <3>. QED  BY <3>2, <3>3
  <2>2. CASE w \notin I
    <3>1. IsFiniteSet(I \cup {w}) /\ Cardinality(I \cup {w}) = Cardinality(I) + 1
      BY <2>2, FS_AddElement
    <3>. QED  BY <3>1, FS_CardinalityType
  <2>. QED  BY <2>1, <2>2
<1>2. /\ Cardinality(J) <= Cardinality(I \cup {w})
      /\ Cardinality(J) \in Nat /\ Cardinality(I \cup {w}) \in Nat
  BY <1>1, FS_Subset, FS_CardinalityType
<1>3. Cardinality(I) \in Nat
  BY FS_CardinalityType
<1>. QED  BY <1>1, <1>2, <1>3

(* Finitely many requests are under way. *)
LEMMA IssuingFinite == IsFiniteSet(Issuing) /\ IsFiniteSet(Issuing')
BY TokensAssumption, FS_Subset DEF Issuing

(* A request that moves without issuing keeps the room there was. *)
LEMMA RoomWithoutIssue ==
  ASSUME RoomLeft, issued \in Nat, issued' = issued,
         NEW w \in Slots, NEW r, requests = [v \in Slots |-> requests[v]],
         requests' = [requests EXCEPT ![w] = r],
         r.step \in {"sent", "rotating"} /\ r.kind # "logout" => w \in Issuing
  PROVE  RoomLeft'
<1>1. Issuing' \subseteq Issuing
  BY DEF Issuing
<1>2. /\ Cardinality(Issuing') <= Cardinality(Issuing)
      /\ Cardinality(Issuing') \in Nat /\ Cardinality(Issuing) \in Nat
  BY <1>1, IssuingFinite, RoomKept
<1>. QED  BY <1>2, TokensAssumption DEF RoomLeft

(* A request that issues a token has its place, and then no longer one. *)
LEMMA RoomWithIssue ==
  ASSUME RoomLeft, issued \in Nat, issued' = issued + 1,
         NEW w \in Issuing, NEW r, requests = [v \in Slots |-> requests[v]],
         requests' = [requests EXCEPT ![w] = r],
         r.step \notin {"sent", "rotating"}
  PROVE  RoomLeft' /\ issued + 1 \in Ids
<1>1. w \in Slots /\ Issuing' \subseteq Issuing \ {w}
  BY DEF Issuing
<1>2. /\ Cardinality(Issuing') + 1 <= Cardinality(Issuing)
      /\ Cardinality(Issuing') \in Nat /\ Cardinality(Issuing) \in Nat
  BY <1>1, IssuingFinite, RoomUsed
<1>. QED  BY <1>2, TokensAssumption DEF RoomLeft, Ids

-----------------------------------------------------------------------------
(* The invariant.                                                          *)

(* The empty table with no request under way satisfies it. *)
LEMMA InitInv == Init => IInv
<1>. SUFFICES ASSUME Init PROVE IInv
  OBVIOUS
<1>1. Issuing = {}
  BY DEF Init, Issuing, Idle
<1>2. RoomLeft
  BY <1>1, FS_EmptySet, TokensAssumption DEF Init, RoomLeft
<1>3. Book(tokens, issued, ended)
  BY DEF Init, Book
<1>4. Idle \in SlotState
  BY DEF Idle, SlotState
<1>5. Requests
  BY <1>4 DEF Init, Requests, RequestOK, Idle
<1>. QED  BY <1>2, <1>3, <1>5 DEF Init, IInv, Counters

(* A request that is sent, by a client that was given its token.           *)
LEMMA SendKeeps ==
  ASSUME IInv, NEW w \in Slots, NEW kind \in {"login", "refresh", "logout"},
         NEW t, kind = "login" => t = None, kind # "login" => t \in 1 .. issued,
         Send(w, kind, t)
  PROVE  IInv'
<1>. DEFINE r == [Idle EXCEPT !.step = "sent", !.kind = kind, !.token = t]
<1>1. issued \in Nat /\ issued <= MaxTokens
  BY TokensAssumption, IssuingFinite, FS_CardinalityType DEF IInv, Counters, RoomLeft
<1>2. RequestOK(r, tokens', issued', ended')
  <2>1. t \in Ids \cup {None}
    BY <1>1, TokensAssumption DEF Ids
  <2>2. /\ r.step = "sent" /\ r.kind = kind /\ r.token = t /\ r.answer = None
        /\ r \in SlotState
    BY <2>1 DEF Idle, SlotState
  <2>3. issued' = issued
    BY DEF Send
  <2>. HIDE DEF r
  <2>. QED  BY <2>2, <2>3 DEF RequestOK
<1>3. Requests'
  BY <1>2, OneRequestMoves DEF Send, IInv, Requests
<1>4. RoomLeft'
  <2>1. CASE kind = "logout"
    BY <2>1, RoomWithoutIssue DEF Send, IInv, Counters, Requests, Idle
  <2>2. CASE kind # "logout"
    <3>1. Issuing' \subseteq Issuing \cup {w}
      BY DEF Send, Issuing, IInv, Requests
    <3>2. /\ Cardinality(Issuing') <= Cardinality(Issuing) + 1
          /\ Cardinality(Issuing') \in Nat /\ Cardinality(Issuing) \in Nat
      BY <3>1, IssuingFinite, RoomTaken
    <3>. QED  BY <1>1, <2>2, <3>2, TokensAssumption DEF Send, RoomLeft
  <2>. QED  BY <2>1, <2>2
<1>. QED  BY <1>3, <1>4 DEF Send, IInv, Counters

(* A slot that becomes free again. *)
LEMMA FreeKeeps ==
  ASSUME IInv, NEW w \in Slots, requests' = [requests EXCEPT ![w] = Idle],
         UNCHANGED <<tokens, issued, expired, ended>>
  PROVE  IInv'
<1>1. RequestOK(Idle, tokens', issued', ended')
  BY DEF RequestOK, SlotState, Idle
<1>2. Requests'
  BY <1>1, OneRequestMoves DEF IInv, Requests
<1>3. RoomLeft'
  BY RoomWithoutIssue DEF IInv, Counters, Requests, Idle
<1>. QED  BY <1>2, <1>3 DEF IInv, Counters

(* A login: the new family is nobody's, and only expired rows are gone.    *)
LEMMA IssueSessionKeeps ==
  ASSUME IInv, NEW w \in Slots, IssueSession(w)
  PROVE  IInv'
<1>. DEFINE r == [requests[w] EXCEPT !.step = "answered", !.answer = issued + 1]
            kept == Without(tokens, DeadRows(tokens))
<1>1. /\ w \in Issuing /\ requests' = [requests EXCEPT ![w] = r]
      /\ issued \in Nat /\ ended \subseteq 1 .. issued /\ issued + 1 \notin ended
      /\ requests[w].kind = "login"
  <2>1. requests' = [requests EXCEPT ![w] = r]
    BY DEF IssueSession, Answer, IInv, Requests
  <2>2. w \in Issuing /\ requests[w].kind = "login"
    BY DEF IssueSession, Issuing
  <2>. QED  BY <2>1, <2>2 DEF IInv, Counters
<1>2. RoomLeft' /\ issued + 1 \in Ids
  <2>1. requests[w] \in SlotState
    BY DEF IInv, Requests, RequestOK
  <2>2. r.step \notin {"sent", "rotating"}
    BY <2>1 DEF SlotState
  <2>3. /\ RoomLeft /\ issued' = issued + 1
        /\ requests = [v \in Slots |-> requests[v]]
    BY DEF IssueSession, IInv, Counters, Requests
  <2>. HIDE DEF r
  <2>. QED  BY <1>1, <2>2, <2>3, RoomWithIssue
<1>3. /\ Book(kept, issued, ended)
      /\ DOMAIN kept \subseteq DOMAIN tokens
      /\ \A t \in DOMAIN kept : kept[t] = tokens[t]
  <2>1. Book(tokens, issued, ended)
    BY DEF IInv
  <2>2. /\ Book(kept, issued, ended)
        /\ IsWithoutIn(kept, tokens, DeadRows(tokens))
    BY <1>1, <2>1, WithoutKeeps
  <2>. HIDE DEF kept
  <2>. QED  BY <2>2 DEF IsWithoutIn
<1>4. /\ None \notin DOMAIN kept
      /\ issued + 1 \in 1 .. issued + 1 /\ ended \in SUBSET (1 .. issued)
  BY <1>1, <1>3, TokensAssumption DEF Book
<1>. HIDE DEF kept, r
<1>5. /\ Book(Issue(kept, issued + 1, issued + 1, None), issued + 1, ended)
      /\ \A t \in 1 .. issued :
           t \in DOMAIN Issue(kept, issued + 1, issued + 1, None) =>
             /\ t \in DOMAIN kept
             /\ Issue(kept, issued + 1, issued + 1, None)[t] = kept[t]
  BY <1>1, <1>2, <1>3, <1>4, IssueKeeps
<1>6. tokens' = Issue(kept, issued + 1, issued + 1, None)
  BY DEF IssueSession, kept
<1>7. \A v \in Slots : RequestOK(requests[v], tokens', issued', ended')
  <2>. SUFFICES ASSUME NEW v \in Slots
                PROVE  RequestOK(requests[v], tokens', issued', ended')
    OBVIOUS
  <2>1. /\ RequestOK(requests[v], tokens, issued, ended)
        /\ issued' = issued + 1 /\ ended' = ended
        /\ issued' \in Nat /\ issued <= issued'
    BY <1>1 DEF IInv, Requests, IssueSession
  <2>2. requests[v].step = "rotating" => requests[v].family \notin ended
    BY <2>1 DEF RequestOK
  <2>3. \A t \in DOMAIN tokens' \cap (1 .. issued) :
          t \in DOMAIN tokens /\ tokens'[t].family = tokens[t].family
    BY <1>3, <1>5, <1>6
  <2>. QED  BY <1>1, <2>1, <2>2, <2>3, RequestStays
<1>8. RequestOK(r, tokens', issued', ended')
  <2>1. /\ requests[w].step # "idle" /\ issued' = issued + 1
        /\ issued + 1 \in 1 .. issued' /\ issued' \in Nat /\ issued' <= MaxTokens
    BY <1>1, <1>2, TokensAssumption DEF IssueSession, Ids
  <2>2. RequestOK(requests[w], tokens', issued', ended')
    BY <1>7
  <2>3. RequestOK([requests[w] EXCEPT !.step = "answered", !.answer = issued + 1],
                  tokens', issued', ended')
    BY <2>1, <2>2, AnsweredOK
  <2>. QED  BY <2>3 DEF r
<1>9. Requests'
  BY <1>1, <1>7, <1>8, OneRequestMoves DEF IInv
<1>. QED  BY <1>1, <1>2, <1>5, <1>6, <1>9 DEF IssueSession, IInv, Counters

(* Reading a token: one that is not revoked belongs to no ended family.    *)
LEMMA ReadTokenKeeps ==
  ASSUME IInv, NEW w \in Slots, ReadToken(w)
  PROVE  IInv'
<1>. DEFINE t == requests[w].token
            a == [requests[w] EXCEPT !.step = "answered", !.answer = None]
            d == [requests[w] EXCEPT !.step = NextStep(requests[w].kind, t),
                                     !.family = tokens[t].family]
<1>1. /\ RequestOK(requests[w], tokens, issued, ended)
      /\ requests[w].step = "sent" /\ requests[w].kind \in {"refresh", "logout"}
      /\ issued \in Nat /\ issued <= MaxTokens
  BY TokensAssumption, IssuingFinite, FS_CardinalityType
  DEF ReadToken, IInv, Requests, Counters, RoomLeft
<1>2. CASE t \notin DOMAIN tokens
  <2>1. requests' = [requests EXCEPT ![w] = a]
    BY <1>2 DEF ReadToken, Answer, IInv, Requests
  <2>2. RequestOK(a, tokens, issued, ended) /\ a.step = "answered"
    BY <1>1, AnsweredOK
  <2>. HIDE DEF a
  <2>3. Requests'
    BY <2>1, <2>2, OneRequestMoves DEF ReadToken, IInv, Requests
  <2>4. RoomLeft'
    BY <1>1, <2>1, <2>2, RoomWithoutIssue DEF ReadToken, IInv, Counters, Requests
  <2>. QED  BY <2>3, <2>4 DEF ReadToken, IInv, Counters
<1>3. CASE t \in DOMAIN tokens
  <2>1. requests' = [requests EXCEPT ![w] = d]
    BY <1>3 DEF ReadToken, IInv, Requests
  <2>2. /\ tokens[t].family \in 1 .. issued
        /\ tokens[t].family \in ended => tokens[t].revoked = TRUE
    BY <1>3 DEF IInv, Book
  <2>3. /\ NextStep(requests[w].kind, t) \in {"revoking", "answered", "rotating"}
        /\ NextStep(requests[w].kind, t) = "rotating"
             => requests[w].kind = "refresh" /\ tokens[t].revoked # TRUE
    BY <1>1 DEF NextStep
  <2>4. RequestOK(d, tokens, issued, ended)
    <3>1. /\ d.step = NextStep(requests[w].kind, t)
          /\ d.kind = requests[w].kind /\ d.token = t
          /\ d.family = tokens[t].family /\ d.answer = requests[w].answer
      BY <1>1 DEF RequestOK, SlotState
    <3>2. tokens[t].family \in Ids
      BY <1>1, <2>2, TokensAssumption DEF Ids
    <3>3. d \in SlotState
      BY <1>1, <2>3, <3>2 DEF RequestOK, SlotState
    <3>. HIDE DEF d
    <3>4. d.step = "rotating" =>
            /\ d.kind = "refresh"
            /\ d.family \notin ended
            /\ d.token \in DOMAIN tokens => tokens[d.token].family = d.family
      BY <1>3, <2>2, <2>3, <3>1
    <3>5. /\ d.kind \in {"refresh", "logout"}
          /\ d.step \in {"revoking", "answered", "rotating"}
          /\ d.token \in 1 .. issued /\ d.family \in 1 .. issued
      BY <1>1, <2>2, <2>3, <3>1 DEF RequestOK
    <3>6. d.answer = None
      BY <1>1, <3>1 DEF RequestOK
    <3>. QED  BY <3>3, <3>4, <3>5, <3>6 DEF RequestOK
  <2>5. Requests'
    BY <2>1, <2>4, OneRequestMoves DEF ReadToken, IInv, Requests
  <2>6. RoomLeft'
    <3>1. d.kind = requests[w].kind
      BY <1>1 DEF RequestOK, SlotState
    <3>. HIDE DEF d
    <3>2. d.step \in {"sent", "rotating"} /\ d.kind # "logout" => w \in Issuing
      BY <1>1, <3>1 DEF Issuing
    <3>. QED  BY <1>1, <2>1, <3>2, RoomWithoutIssue
              DEF ReadToken, IInv, Counters, Requests
  <2>. QED  BY <2>5, <2>6 DEF ReadToken, IInv, Counters
<1>. QED  BY <1>2, <1>3

(* A rotation: the presented token is revoked, its successor belongs to    *)
(* the family that was read, which nobody ended since.                     *)
LEMMA RotateKeeps ==
  ASSUME IInv, NEW w \in Slots, Rotate(w)
  PROVE  IInv'
<1>. DEFINE t == requests[w].token
<1>1. /\ RequestOK(requests[w], tokens, issued, ended)
      /\ requests[w].step = "rotating" /\ requests[w].kind = "refresh"
      /\ w \in Issuing
      /\ issued \in Nat /\ issued <= MaxTokens /\ ended \in SUBSET (1 .. issued)
      /\ requests = [v \in Slots |-> requests[v]]
  BY TokensAssumption, IssuingFinite, FS_CardinalityType
  DEF Rotate, IInv, Requests, RequestOK, Counters, RoomLeft, Issuing
<1>2. CASE t \notin DOMAIN tokens
  <2>. DEFINE a == [requests[w] EXCEPT !.step = "answered", !.answer = Failed]
  <2>1. /\ requests' = [requests EXCEPT ![w] = a]
        /\ UNCHANGED <<tokens, issued, expired, ended>>
    BY <1>1, <1>2 DEF Rotate, Answer
  <2>2. RequestOK(a, tokens, issued, ended) /\ a.step = "answered"
    BY <1>1, AnsweredOK
  <2>. HIDE DEF a
  <2>3. Requests'
    BY <2>1, <2>2, OneRequestMoves DEF IInv, Requests
  <2>4. RoomLeft'
    BY <1>1, <2>1, <2>2, RoomWithoutIssue DEF IInv, Counters
  <2>. QED  BY <2>1, <2>3, <2>4 DEF IInv, Counters
<1>3. CASE t \in DOMAIN tokens
  <2>. DEFINE a == [requests[w] EXCEPT !.step = "answered", !.answer = issued + 1]
              spent == Revoke(tokens, {t})
              f == tokens[t].family
  <2>1. /\ requests' = [requests EXCEPT ![w] = a]
        /\ tokens' = Issue(spent, issued + 1, f, t)
        /\ issued' = issued + 1 /\ UNCHANGED <<expired, ended>>
    BY <1>1, <1>3 DEF Rotate, Answer, Exchange
  <2>2. /\ f \in 1 .. issued /\ f \notin ended
        /\ t \in 1 .. issued
    BY <1>1, <1>3 DEF IInv, Book, RequestOK
  <2>3. /\ Book(spent, issued, ended)
        /\ DOMAIN spent = DOMAIN tokens
        /\ \A u \in DOMAIN tokens : spent[u].family = tokens[u].family
        /\ spent[t].revoked = TRUE
    <3>1. Book(tokens, issued, ended) /\ issued \in Nat
      BY <1>1 DEF IInv
    <3>2. Book(spent, issued, ended) /\ IsRevokedIn(spent, tokens, {t})
      BY <3>1, RevokeKeeps
    <3>. HIDE DEF spent
    <3>. QED  BY <1>3, <3>2 DEF IsRevokedIn
  <2>4. a.step = "answered"
    BY <1>1 DEF RequestOK, SlotState
  <2>5. RoomLeft' /\ issued + 1 \in Ids
    <3>. HIDE DEF a
    <3>1. a.step \notin {"sent", "rotating"}
      BY <2>4
    <3>. QED  BY <1>1, <2>1, <3>1, RoomWithIssue DEF IInv, Counters
  <2>. HIDE DEF spent, f, t, a
  <2>6. /\ Book(Issue(spent, issued + 1, f, t), issued + 1, ended)
        /\ \A u \in 1 .. issued :
             u \in DOMAIN Issue(spent, issued + 1, f, t) =>
               /\ u \in DOMAIN spent
               /\ Issue(spent, issued + 1, f, t)[u] = spent[u]
    <3>1. /\ f \in 1 .. issued + 1 /\ f \notin ended
          /\ t \in 1 .. issued \cup {None}
          /\ issued \in Nat /\ ended \in SUBSET (1 .. issued)
      BY <1>1, <2>2
    <3>2. Book(spent, issued, ended) /\ spent[t].revoked = TRUE
      BY <2>3
    <3>. QED  BY <2>5, <3>1, <3>2, IssueKeeps
  <2>7. \A v \in Slots : RequestOK(requests[v], tokens', issued', ended')
    <3>. SUFFICES ASSUME NEW v \in Slots
                  PROVE  RequestOK(requests[v], tokens', issued', ended')
      OBVIOUS
    <3>1. RequestOK(requests[v], tokens, issued, ended)
      BY DEF IInv, Requests
    <3>2. requests[v].step = "rotating" => requests[v].family \notin ended
      BY <3>1 DEF RequestOK
    <3>3. \A u \in DOMAIN tokens' \cap (1 .. issued) :
            u \in DOMAIN tokens /\ tokens'[u].family = tokens[u].family
      BY <2>1, <2>3, <2>6
    <3>. QED  BY <1>1, <2>1, <3>1, <3>2, <3>3, RequestStays
  <2>8. RequestOK(a, tokens', issued', ended')
    <3>1. /\ requests[w].step # "idle" /\ requests[w].kind # "login"
          /\ issued + 1 \in 1 .. issued' /\ issued' \in Nat /\ issued' <= MaxTokens
      BY <1>1, <2>1, <2>5, TokensAssumption DEF Ids
    <3>2. RequestOK(requests[w], tokens', issued', ended')
      BY <2>7
    <3>3. RequestOK([requests[w] EXCEPT !.step = "answered", !.answer = issued + 1],
                    tokens', issued', ended')
      BY <3>1, <3>2, AnsweredOK
    <3>. QED  BY <3>3 DEF a
  <2>9. Requests'
    BY <2>1, <2>7, <2>8, OneRequestMoves DEF IInv
  <2>. QED  BY <1>1, <2>1, <2>5, <2>6, <2>9 DEF IInv, Counters
<1>. QED  BY <1>2, <1>3

(* Revoking a family; it is ended only if none of it is rotating.          *)
LEMMA RevokeFamilyKeeps ==
  ASSUME IInv, NEW w \in Slots, RevokeFamily(w)
  PROVE  IInv'
<1>. DEFINE f == requests[w].family
            a == [requests[w] EXCEPT !.step = "answered", !.answer = None]
            gone == Revoke(tokens, FamilyOf(tokens, f))
<1>1. /\ RequestOK(requests[w], tokens, issued, ended)
      /\ requests[w].step = "revoking" /\ requests[w].kind # "login"
      /\ f \in 1 .. issued
      /\ issued \in Nat /\ issued <= MaxTokens /\ ended \subseteq 1 .. issued
      /\ requests = [v \in Slots |-> requests[v]]
  BY TokensAssumption, IssuingFinite, FS_CardinalityType
  DEF RevokeFamily, IInv, Requests, RequestOK, Counters, RoomLeft
<1>2. /\ requests' = [requests EXCEPT ![w] = a]
      /\ tokens' = gone
      /\ issued' = issued /\ expired' = expired
      /\ ended' = IF Rotating(f) THEN ended ELSE ended \cup {f}
  BY <1>1 DEF RevokeFamily, Answer
<1>3. /\ Book(gone, issued, ended)
      /\ DOMAIN gone = DOMAIN tokens
      /\ \A t \in DOMAIN tokens : gone[t].family = tokens[t].family
      /\ \A t \in DOMAIN tokens : tokens[t].family = f => gone[t].revoked = TRUE
  <2>1. Book(tokens, issued, ended) /\ issued \in Nat
    BY <1>1 DEF IInv
  <2>2. Book(gone, issued, ended) /\ IsRevokedIn(gone, tokens, FamilyOf(tokens, f))
    BY <2>1, RevokeKeeps
  <2>. HIDE DEF gone
  <2>. QED  BY <2>2 DEF IsRevokedIn, FamilyOf
<1>. HIDE DEF gone, f
<1>4. ended' \subseteq 1 .. issued
  BY <1>1, <1>2
<1>5. Book(tokens', issued', ended')
  BY <1>2, <1>3 DEF Book
<1>6. \A v \in Slots : RequestOK(requests[v], tokens', issued', ended')
  <2>. SUFFICES ASSUME NEW v \in Slots
                PROVE  RequestOK(requests[v], tokens', issued', ended')
    OBVIOUS
  <2>1. RequestOK(requests[v], tokens, issued, ended)
    BY DEF IInv, Requests
  <2>2. requests[v].step = "rotating" => requests[v].family \notin ended'
    BY <1>2, <2>1 DEF RequestOK, Rotating
  <2>3. \A t \in DOMAIN tokens' \cap (1 .. issued) :
          t \in DOMAIN tokens /\ tokens'[t].family = tokens[t].family
    BY <1>2, <1>3
  <2>4. issued' \in Nat /\ issued <= issued'
    BY <1>1, <1>2
  <2>. QED  BY <1>1, <2>1, <2>2, <2>3, <2>4, RequestStays
<1>7. RequestOK(a, tokens', issued', ended') /\ a.step = "answered"
  BY <1>1, <1>2, <1>6, AnsweredOK
<1>. HIDE DEF a
<1>8. Requests'
  BY <1>2, <1>6, <1>7, OneRequestMoves DEF IInv
<1>9. RoomLeft'
  BY <1>1, <1>2, <1>7, RoomWithoutIssue DEF IInv, Counters
<1>. QED  BY <1>1, <1>2, <1>4, <1>5, <1>8, <1>9 DEF IInv, Counters

(* Time passes. *)
LEMMA ExpireKeeps == IInv /\ Expire => IInv'
BY DEF IInv, Counters, Requests, RoomLeft, Issuing, Expire

(* No step leaves the invariant. *)
LEMMA NextInv == IInv /\ [Next]_serverVars => IInv'
<1>. SUFFICES ASSUME IInv, [Next]_serverVars PROVE IInv'
  OBVIOUS
<1>1. ASSUME NEW w \in Slots, Send(w, "login", None) PROVE IInv'
  BY <1>1, SendKeeps
<1>2. ASSUME NEW w \in Slots, NEW t \in 1 .. issued,
             NEW kind \in {"refresh", "logout"}, Send(w, kind, t)
      PROVE  IInv'
  BY <1>2, SendKeeps
<1>3. ASSUME NEW w \in Slots, Drop(w) \/ Receive(w) PROVE IInv'
  BY <1>3, FreeKeeps DEF Drop, Receive
<1>4. ASSUME NEW w \in Slots, Serve(w) PROVE IInv'
  BY <1>4, IssueSessionKeeps, ReadTokenKeeps, RotateKeeps, RevokeFamilyKeeps DEF Serve
<1>5. CASE Expire
  BY <1>5, ExpireKeeps
<1>6. CASE UNCHANGED serverVars
  BY <1>6 DEF IInv, Counters, Requests, RoomLeft, Issuing, serverVars
<1>. QED  BY <1>1, <1>2, <1>3, <1>4, <1>5, <1>6 DEF Next

(* What the invariant says of the columns and of the requests' stages. *)
LEMMA TypesOf == IInv => TypeOK
<1>. SUFFICES ASSUME IInv PROVE TypeOK
  OBVIOUS
<1>1. issued \in 0 .. MaxTokens
  BY TokensAssumption, IssuingFinite, FS_CardinalityType DEF IInv, Counters, RoomLeft
<1>2. requests \in [Slots -> SlotState]
  BY DEF IInv, Requests, RequestOK
<1>. QED  BY <1>1, <1>2 DEF IInv, Counters, Book, TypeOK

(* The table, the requests and the counters are in order in every state.  *)
THEOREM Invariance == Spec => []IInv
BY InitInv, NextInv, PTL DEF Spec

-----------------------------------------------------------------------------
(* The theorems.                                                           *)

(* The columns of refresh_tokens and the stages of every request keep      *)
(* their types, and no more tokens are issued than there is room for.      *)
THEOREM TypesHold == Spec => []TypeOK
BY TypesOf, Invariance, PTL

(* Once a family was revoked while none of its tokens was being exchanged, *)
(* no stored token of it is redeemable in any later state, however the     *)
(* requests overlap (refresh_tokens.py: revoke_session, _revoke_family).   *)
THEOREM RevocationHolds == Spec => []RevocationIsFinal
<1>1. IInv => RevocationIsFinal
  BY DEF IInv, Book, RevocationIsFinal
<1>. QED  BY <1>1, Invariance, PTL

(* A token that was exchanged is revoked as long as its row is stored, so  *)
(* that presenting it again is noticed (refresh_tokens.py: rotate_session). *)
THEOREM ExchangeHolds == Spec => []ExchangedIsRevoked
<1>1. IInv => ExchangedIsRevoked
  BY DEF IInv, Book, ExchangedIsRevoked
<1>. QED  BY <1>1, Invariance, PTL

(* The only rows a step removes are those past their ninety days, so a     *)
(* spent token's replay is noticed as long as it could have been redeemed  *)
(* (refresh_tokens.py: issue_session).                                     *)
THEOREM ForgettingHolds == Spec => OnlyExpiredForgotten
<1>1. [Next]_serverVars =>
        [\A t \in DOMAIN tokens \ DOMAIN tokens' : IsExpired(t)]_serverVars
  <2>. SUFFICES ASSUME Next, NEW t \in DOMAIN tokens \ DOMAIN tokens'
                PROVE  IsExpired(t)
    BY DEF serverVars
  <2>1. ASSUME NEW w \in Slots, IssueSession(w) PROVE IsExpired(t)
    BY <2>1 DEF IssueSession, Issue, Without, DeadRows
  <2>2. ASSUME NEW w \in Slots, Rotate(w) PROVE FALSE
    BY <2>2 DEF Rotate, Exchange, Issue, Revoke
  <2>3. ASSUME NEW w \in Slots, RevokeFamily(w) PROVE FALSE
    BY <2>3 DEF RevokeFamily, Revoke
  <2>. QED  BY <2>1, <2>2, <2>3
            DEF Next, Serve, Send, Drop, ReadToken, Receive, Expire
<1>. QED  BY <1>1, PTL DEF Spec, OnlyExpiredForgotten

(* Tokens that become revoked in one step are of one family: no request    *)
(* signs out a device it did not come from (_revoke_family).               *)
THEOREM OthersHold == Spec => OtherSessionsGoOn
<1>. DEFINE Together(t, u) ==
       /\ ~tokens[t].revoked /\ tokens'[t].revoked
       /\ ~tokens[u].revoked /\ tokens'[u].revoked
       => tokens[t].family = tokens[u].family
<1>1. IInv /\ [Next]_serverVars =>
        [\A t, u \in DOMAIN tokens \cap DOMAIN tokens' : Together(t, u)]_serverVars
  <2>. SUFFICES ASSUME IInv, Next,
                       NEW t \in DOMAIN tokens, NEW u \in DOMAIN tokens,
                       t \in DOMAIN tokens', u \in DOMAIN tokens'
                PROVE  Together(t, u)
    BY DEF serverVars
  <2>0. t # issued + 1 /\ u # issued + 1
    BY DEF IInv, Counters, Book
  <2>1. ASSUME NEW w \in Slots, IssueSession(w) PROVE Together(t, u)
    <3>1. tokens'[t] = tokens[t]
      BY <2>0, <2>1 DEF IssueSession, Issue, Without
    <3>. QED  BY <3>1
  <2>2. ASSUME NEW w \in Slots, Rotate(w) PROVE Together(t, u)
    <3>1. \A v \in {t, u} : v # requests[w].token => tokens'[v] = tokens[v]
      BY <2>0, <2>2 DEF Rotate, Exchange, Issue, Revoke
    <3>. QED  BY <3>1
  <2>3. ASSUME NEW w \in Slots, RevokeFamily(w) PROVE Together(t, u)
    <3>1. \A v \in {t, u} :
            tokens[v].family # requests[w].family => tokens'[v] = tokens[v]
      BY <2>3 DEF RevokeFamily, Revoke, FamilyOf
    <3>. QED  BY <3>1
  <2>4. tokens' = tokens => Together(t, u)
    OBVIOUS
  <2>. QED  BY <2>1, <2>2, <2>3, <2>4
            DEF Next, Serve, Send, Drop, ReadToken, Receive, Expire
<1>. QED  BY <1>1, Invariance, PTL DEF Spec, OtherSessionsGoOn
=============================================================================
