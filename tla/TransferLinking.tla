-------------------------- MODULE TransferLinking --------------------------
(***************************************************************************)
(* Linking imported rows as transfers: TransferSuggestionsBanner, which    *)
(* links one suggested pair or all of them one request after the other,    *)
(* and LinkTransferModal, which looks for the other leg of one row.        *)
(***************************************************************************)
EXTENDS Naturals, Sequences, FiniteSets, SequencesExt

CONSTANTS
    Matches,     \* pairs of rows that look like the two legs of a transfer
    PayeeMatches,\* rows whose payee names an account nothing is imported into
    NoModal,
    MaxElsewhere \* bound on the links made outside this page

ASSUME LinkingAssumption == IsFiniteSet(Matches) /\ MaxElsewhere \in Nat

VARIABLES
    linkedRows,  \* the server's linked rows
    offered,     \* the suggestions as last fetched
    payeeOffers,
    linkCall,    \* the banner's request: one pair, or what is left of all
    payeeCall,   \* the row a leg is being created for
    modal,       \* the row LinkTransferModal is about
    candidates,  \* its answer, or nothing yet
    modalCall,   \* what the modal waits for
    current,     \* since the answer that linkCall is based on nothing else has
                 \* linked rows
    elsewhere

linkVars == <<linkedRows, offered, payeeOffers, linkCall, payeeCall, modal,
              candidates, modalCall, current, elsewhere>>

-----------------------------------------------------------------------------
RowsOf(pair) == {pair[1], pair[2]}
MatchRows == UNION {RowsOf(m) : m \in Matches}
Open(pair) == RowsOf(pair) \cap linkedRows = {}

\* MUTANT of Offers: a row may be offered in two pairs.
OffersOverlapping(pairs) == {pairs}

\* The server offers each row in one pair at most, the closest one it finds
\* (suggest_transfers): what it may offer.
Offers(pairs) ==
    {disjoint \in SUBSET pairs :
        /\ \A a, b \in disjoint : a # b => RowsOf(a) \cap RowsOf(b) = {}
        /\ \A m \in pairs \ disjoint : \E a \in disjoint : RowsOf(a) \cap RowsOf(m) # {}}

Idle == [mode |-> "none", todo |-> <<>>]

LinkInit ==
    /\ linkedRows = {} /\ offered = {} /\ payeeOffers = {}
    /\ linkCall = Idle /\ payeeCall = {}
    /\ modal = NoModal /\ candidates = {} /\ modalCall = "none"
    /\ current = FALSE /\ elsewhere = 0

FetchSuggestions ==
    /\ offered' \in Offers({m \in Matches : Open(m)})
    /\ payeeOffers' = PayeeMatches \ linkedRows
    /\ current' = (current \/ linkCall = Idle)
    /\ UNCHANGED <<linkedRows, linkCall, payeeCall, modal, candidates, modalCall, elsewhere>>

\* Without suggestions there is no banner; its buttons wait for its own calls.
BannerShows == offered # {} \/ payeeOffers # {}

LinkOne(pair) ==
    /\ BannerShows /\ linkCall = Idle /\ pair \in offered
    /\ linkCall' = [mode |-> "one", todo |-> <<pair>>]
    /\ UNCHANGED <<linkedRows, offered, payeeOffers, payeeCall, modal, candidates,
                   modalCall, current, elsewhere>>

LinkAll ==
    /\ BannerShows /\ linkCall = Idle /\ Cardinality(offered) > 1
    /\ linkCall' = [mode |-> "all", todo |-> SetToSeq(offered)]
    /\ UNCHANGED <<linkedRows, offered, payeeOffers, payeeCall, modal, candidates,
                   modalCall, current, elsewhere>>

\* The next request is answered; the first one refused ends the sequence.
LinkNext ==
    /\ linkCall.todo # <<>>
    /\ IF Open(Head(linkCall.todo))
       THEN /\ linkedRows' = linkedRows \cup RowsOf(Head(linkCall.todo))
            /\ linkCall' = [linkCall EXCEPT !.todo = Tail(@)]
       ELSE linkCall' = Idle /\ UNCHANGED linkedRows
    /\ UNCHANGED <<offered, payeeOffers, payeeCall, modal, candidates, modalCall,
                   current, elsewhere>>

\* onSuccess asks for new suggestions and does not wait for them.
LinkDone ==
    /\ linkCall # Idle /\ linkCall.todo = <<>>
    /\ linkCall' = Idle /\ current' = FALSE
    /\ UNCHANGED <<linkedRows, offered, payeeOffers, payeeCall, modal, candidates,
                   modalCall, elsewhere>>

\* A request gets lost, or its answer after the server has linked the pair, or it
\* is refused for another reason: onError does nothing.
LinkLost ==
    /\ linkCall.todo # <<>>
    /\ linkCall' = Idle
    /\ current' = FALSE
    /\ \/ UNCHANGED linkedRows
       \/ /\ Open(Head(linkCall.todo))
          /\ linkedRows' = linkedRows \cup RowsOf(Head(linkCall.todo))
    /\ UNCHANGED <<offered, payeeOffers, payeeCall, modal, candidates,
                   modalCall, elsewhere>>

ConfirmPayeeMatch(r) ==
    /\ payeeCall = {} /\ r \in payeeOffers
    /\ payeeCall' = {r}
    /\ UNCHANGED <<linkedRows, offered, payeeOffers, linkCall, modal, candidates,
                   modalCall, current, elsewhere>>

\* The server creates the other leg, unless the row is linked by now.
PayeeMatchEnds ==
    /\ payeeCall # {} /\ payeeCall' = {}
    /\ linkedRows' = linkedRows \cup payeeCall
    /\ current' = FALSE
    /\ UNCHANGED <<offered, payeeOffers, linkCall, modal, candidates, modalCall, elsewhere>>

-----------------------------------------------------------------------------
\* The modal: the candidates of row r, one of them linked or a leg created.
OpenModal(r) ==
    /\ modal = NoModal /\ r \notin linkedRows
    /\ modal' = r /\ candidates' = {}
    /\ UNCHANGED <<linkedRows, offered, payeeOffers, linkCall, payeeCall, modalCall,
                   current, elsewhere>>

CandidatesArrive ==
    /\ modal # NoModal
    /\ candidates' = {m \in Matches : modal \in RowsOf(m) /\ Open(m)}
    /\ UNCHANGED <<linkedRows, offered, payeeOffers, linkCall, payeeCall, modal,
                   modalCall, current, elsewhere>>

PickCandidate(pair) ==
    /\ modal # NoModal /\ modalCall = "none" /\ pair \in candidates
    /\ modalCall' = pair
    /\ UNCHANGED <<linkedRows, offered, payeeOffers, linkCall, payeeCall, modal,
                   candidates, current, elsewhere>>

CreateLeg ==
    /\ modal # NoModal /\ modalCall = "none" /\ candidates = {}
    /\ modalCall' = <<modal, modal>>
    /\ UNCHANGED <<linkedRows, offered, payeeOffers, linkCall, payeeCall, modal,
                   candidates, current, elsewhere>>

\* onLinked closes the dialog on screen, also one opened for another row.
ModalCallEnds ==
    /\ modalCall # "none" /\ modalCall' = "none"
    /\ IF Open(modalCall)
       THEN /\ linkedRows' = linkedRows \cup RowsOf(modalCall)
            /\ modal' = NoModal /\ current' = FALSE
       ELSE UNCHANGED <<linkedRows, modal, current>>
    /\ UNCHANGED <<offered, payeeOffers, linkCall, payeeCall, candidates, elsewhere>>

CloseModal ==
    /\ modal # NoModal /\ modal' = NoModal
    /\ UNCHANGED <<linkedRows, offered, payeeOffers, linkCall, payeeCall, candidates,
                   modalCall, current, elsewhere>>

\* Another tab, or the sync's own pairing.
LinkedElsewhere(pair) ==
    /\ elsewhere < MaxElsewhere /\ elsewhere' = elsewhere + 1
    /\ Open(pair)
    /\ linkedRows' = linkedRows \cup RowsOf(pair)
    /\ current' = FALSE
    /\ UNCHANGED <<offered, payeeOffers, linkCall, payeeCall, modal, candidates, modalCall>>

LinkingNext ==
    \/ FetchSuggestions
    \/ \E pair \in Matches : LinkOne(pair) \/ PickCandidate(pair) \/ LinkedElsewhere(pair)
    \/ LinkAll \/ LinkNext \/ LinkDone \/ LinkLost
    \/ \E r \in PayeeMatches : ConfirmPayeeMatch(r)
    \/ PayeeMatchEnds
    \/ \E r \in MatchRows : OpenModal(r)
    \/ CandidatesArrive \/ CreateLeg \/ ModalCallEnds \/ CloseModal

LinkingSpec == LinkInit /\ [][LinkingNext]_linkVars

-----------------------------------------------------------------------------
LinkingTypeOK ==
    /\ linkedRows \subseteq MatchRows \cup PayeeMatches
    /\ offered \subseteq Matches /\ payeeOffers \subseteq PayeeMatches
    /\ linkCall.mode \in {"none", "one", "all"} /\ ToSet(linkCall.todo) \subseteq Matches
    /\ payeeCall \subseteq PayeeMatches
    /\ modal \in MatchRows \cup {NoModal} /\ candidates \subseteq Matches
    /\ modalCall = "none" \/ RowsOf(modalCall) \subseteq MatchRows
    /\ current \in BOOLEAN /\ elsewhere \in 0 .. MaxElsewhere

\* "linking them in sequence never invalidates a later pair" (linkAll): no pair
\* that is still to be linked has a linked row, unless a link other than the
\* sequence's own came after the suggestions' answer.
SequenceStaysOpen ==
    current => \A i \in DOMAIN linkCall.todo : Open(linkCall.todo[i])
=============================================================================
