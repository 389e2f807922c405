---------------------------- MODULE RecordsProofs ----------------------------
(***************************************************************************)
(* Proofs about the records crawling keeps: the postings of a board and    *)
(* what is derived from their texts (Postings), and which company is       *)
(* polled for which board (BoardRegistry).                                 *)
(***************************************************************************)
EXTENDS TurnsProofs, RegistryProofs

-----------------------------------------------------------------------------
(* The postings of a board.                                                *)

PollRecords ==
  [at : {"idle", "answered", "stamped", "storing"}, list : Listings, whole : BOOLEAN,
   body : Listings \cup {Garbled, NoHash}, stamp : 0..MaxAsks, held : [Adverts -> Texts \cup {NoText}]]
PassRecords ==
  [at : {"idle", "deleting", "encoding"}, stale : SUBSET Adverts, spared : SUBSET Adverts,
   doomed : SUBSET Adverts, read : [Adverts -> Texts \cup {NoText}]]

PostingsTypes ==
  /\ board \in Listings /\ old \subseteq Adverts /\ touched \subseteq Adverts
  /\ row \in [Adverts -> PostingRows \cup {NoPosting}]
  /\ boardHash \in Listings \cup {Garbled, NoHash} /\ writer \in BoardPolls \cup {NoPoll}
  /\ poll \in [BoardPolls -> PollRecords] /\ pass \in PassRecords
  /\ changes \in 0..MaxChanges /\ stamps \in Nat /\ unsettled \in BOOLEAN /\ raced \subseteq Adverts

\* Every poll that is on its way has a stamp to come, so that none is past the bound.
StampsLast == stamps + Cardinality(InFlight) <= MaxAsks

\* Stamps are of one poll each, and no posting has that of a poll yet to store.
StampsApart ==
  /\ \A p \in BoardPolls : poll[p].stamp <= stamps
  /\ \A p \in BoardPolls : poll[p].at \in {"stamped", "storing"} =>
       /\ poll[p].stamp # 0
       /\ \A q \in BoardPolls : poll[q].at \in {"stamped", "storing"} /\ poll[q].stamp = poll[p].stamp => q = p
       /\ \A a \in Stored : row[a].stamp # poll[p].stamp
  /\ \A a \in Stored : row[a].stamp <= stamps

\* What a poll carries: all of a board or a garbled page, and, once it stores,
\* everything that is held.
PollsHold ==
  \A p \in BoardPolls :
    /\ poll[p].at = "storing" <=> writer = p
    /\ poll[p].whole /\ poll[p].at # "idle" => poll[p].body \in {poll[p].list, Garbled}
    /\ poll[p].at = "storing" => Stored \subseteq Known(p)

\* What a pass deletes is held, was not the owner's when the DELETE looked, and
\* still is closed or too old.
DoomedIsStale ==
  /\ pass.doomed \subseteq Stored
  /\ \A a \in pass.doomed : a \notin pass.spared /\ (row[a].closed \/ a \in old)

\* What a pass is encoding has no vector, and is the posting's text but where
\* an edit was stored meanwhile.
ReadIsBare ==
  \A a \in Adverts : pass.read[a] # NoText =>
    a \in Stored /\ row[a].vector = NoText /\ (a \in raced \/ pass.read[a] = row[a].text)

\* The board's hash tells what is open, and what is listed but not stored.
HashTells ==
  boardHash \in Listings /\ ~unsettled =>
    /\ \A a \in Open : boardHash[a] = row[a].text
    /\ \A a \in Listed(boardHash) :
         a \in Open \/ (a \notin Stored /\ (a \in old \/ boardHash[a] \in Abroad))

PostingsInv ==
  /\ PostingsTypes /\ StampsLast /\ StampsApart /\ PollsHold /\ DoomedIsStale /\ ReadIsBare
  /\ HashTells /\ TextIsFollowed

\* A row as it is written down, field by field.
PostingRow(text, closed, stamp, told, vector, match) ==
  [text |-> text, closed |-> closed, stamp |-> stamp, told |-> told, vector |-> vector,
   match |-> match]

LEMMA RowIsItsFields ==
  ASSUME NEW r \in PostingRows
  PROVE  /\ r.text \in Texts /\ r.closed \in BOOLEAN /\ r.stamp \in 1..MaxAsks
         /\ r.told \in Texts \cup {NoText} /\ r.vector \in Texts \cup {NoText}
         /\ r.match \in Texts \cup {NoText} /\ r # NoPosting
         /\ r = PostingRow(r.text, r.closed, r.stamp, r.told, r.vector, r.match)
BY NamesApart DEF PostingRows, PostingRow

LEMMA StoredIsRow ==
  ASSUME PostingsTypes, NEW a \in Stored
  PROVE  a \in Adverts /\ row[a] \in PostingRows
BY DEF PostingsTypes, Stored

LEMMA FlightShrinks ==
  ASSUME NEW p \in InFlight
  PROVE  /\ IsFiniteSet(InFlight) /\ Cardinality(InFlight) \in Nat /\ Cardinality(InFlight) >= 1
         /\ Cardinality(InFlight \ {p}) = Cardinality(InFlight) - 1
<1>1. IsFiniteSet(InFlight)
  BY PostingsAssumption, FS_Subset DEF InFlight
<1>2. Cardinality(InFlight) \in Nat /\ Cardinality(InFlight) # 0
  BY <1>1, FS_CardinalityType, FS_EmptySet
<1> QED BY <1>1, <1>2, FS_RemoveElement

LEMMA FlightCounts ==
  IsFiniteSet(InFlight) /\ Cardinality(InFlight) \in Nat
<1>1. IsFiniteSet(InFlight)
  BY PostingsAssumption, FS_Subset DEF InFlight
<1> QED BY <1>1, FS_CardinalityType

\* The stamp a poll is to get is within the bound.
LEMMA StampIsInBound ==
  ASSUME PostingsInv, NEW p \in BoardPolls
  PROVE  /\ stamps \in 0..MaxAsks
         /\ poll[p].at = "answered" => stamps + 1 \in 1..MaxAsks
         /\ poll[p].stamp \in Nat /\ poll[p].stamp <= stamps
         /\ poll[p].at \in {"stamped", "storing"} => poll[p].stamp \in 1..MaxAsks
<1>1. stamps \in Nat /\ MaxAsks \in Nat /\ stamps + Cardinality(InFlight) <= MaxAsks
  BY PostingsAssumption DEF PostingsInv, PostingsTypes, StampsLast
<1>2. stamps \in 0..MaxAsks
  BY <1>1, FlightCounts
<1>3. ASSUME poll[p].at = "answered" PROVE stamps + 1 \in 1..MaxAsks
  <2>1. p \in InFlight
    BY <1>3 DEF InFlight
  <2>2. Cardinality(InFlight) \in Nat /\ Cardinality(InFlight) >= 1
    BY <2>1, FlightShrinks
  <2> QED BY <1>1, <2>2
<1>4. poll[p].stamp \in Nat /\ poll[p].stamp <= stamps
  BY DEF PostingsInv, PostingsTypes, PollRecords, StampsApart
<1>5. poll[p].at \in {"stamped", "storing"} => poll[p].stamp # 0
  BY DEF PostingsInv, StampsApart
<1> QED BY <1>1, <1>2, <1>3, <1>4, <1>5

-----------------------------------------------------------------------------
(* Steps that leave the rows alone.                                        *)

LEMMA OutsideKeepsPostings ==
  ASSUME PostingsInv, NEW a \in Adverts, Publish(a) \/ GrowOld(a) \/ Touch(a)
  PROVE  PostingsInv'
<1>1. /\ PostingsTypes /\ StampsLast /\ StampsApart /\ PollsHold /\ DoomedIsStale /\ ReadIsBare
      /\ HashTells /\ TextIsFollowed
  BY DEF PostingsInv
<1>2. /\ UNCHANGED <<row, boardHash, writer, poll, pass, stamps, unsettled, raced>>
      /\ old \subseteq old' /\ old' \subseteq Adverts
      /\ touched' \subseteq Adverts
      /\ board' \in Listings /\ changes' \in 0..MaxChanges
  <2>1. CASE Publish(a)
    <3>1. PICK t \in Texts \cup {Gone} : board' = [board EXCEPT ![a] = t]
      BY <2>1 DEF Publish
    <3>2. board' \in Listings
      BY <1>1, <3>1 DEF PostingsTypes, Listings
    <3> QED BY <1>1, <2>1, <3>2, PostingsAssumption DEF Publish, PostingsTypes
  <2>2. CASE GrowOld(a)
    BY <1>1, <2>2, PostingsAssumption DEF GrowOld, PostingsTypes
  <2>3. CASE Touch(a)
    BY <1>1, <2>3, PostingsAssumption DEF Touch, PostingsTypes, Stored
  <2> QED BY <2>1, <2>2, <2>3
<1>3. PostingsTypes'
  BY <1>1, <1>2 DEF PostingsTypes
<1>4. StampsLast' /\ StampsApart' /\ PollsHold' /\ TextIsFollowed'
  BY <1>1, <1>2 DEF StampsLast, StampsApart, PollsHold, TextIsFollowed, VersionIsText,
    VectorIsOfText, InFlight, Stored, Known
<1>5. DoomedIsStale' /\ ReadIsBare'
  BY <1>1, <1>2 DEF DoomedIsStale, ReadIsBare, Stored
<1>6. HashTells'
  BY <1>1, <1>2 DEF HashTells, Open, Stored, Listed
<1> QED BY <1>3, <1>4, <1>5, <1>6 DEF PostingsInv

LEMMA AskKeepsPostings ==
  ASSUME PostingsInv, NEW p \in BoardPolls, AskBoard(p)
  PROVE  PostingsInv'
<1>1. /\ PostingsTypes /\ StampsLast /\ StampsApart /\ PollsHold /\ DoomedIsStale /\ ReadIsBare
      /\ HashTells /\ TextIsFollowed
  BY DEF PostingsInv
<1>2. PICK answer \in Answers :
        poll' = [poll EXCEPT ![p] =
                  [at |-> "answered", list |-> answer.list, whole |-> answer.whole,
                   body |-> answer.body, stamp |-> 0, held |-> [a \in Adverts |-> NoText]]]
  BY DEF AskBoard
<1>3. /\ poll[p].at = "idle" /\ stamps + Cardinality(InFlight) < MaxAsks
      /\ UNCHANGED <<siteVars, row, boardHash, writer, pass, stamps, unsettled, raced>>
  BY DEF AskBoard
<1>4. /\ answer.list \in Listings /\ answer.whole \in BOOLEAN
      /\ answer.body \in Listings \cup {Garbled, NoHash}
      /\ answer.whole => answer.body \in {answer.list, Garbled}
  <2>1. board \in Listings /\ Empty \in Listings
    BY <1>1 DEF PostingsTypes, Listings, Empty
  <2>2. \A a \in Adverts : [board EXCEPT ![a] = Gone] \in Listings
    BY <2>1 DEF Listings
  <2>3. \/ answer = [list |-> board, whole |-> TRUE, body |-> board]
        \/ answer = [list |-> Empty, whole |-> TRUE, body |-> Garbled]
        \/ \E l \in {[board EXCEPT ![a] = Gone] : a \in Listed(board)} :
             answer = [list |-> l, whole |-> FALSE, body |-> l]
    BY <1>2 DEF Answers
  <2>4. \A l \in {[board EXCEPT ![a] = Gone] : a \in Listed(board)} : l \in Listings
    BY <2>2 DEF Listed
  <2>5. ASSUME answer = [list |-> board, whole |-> TRUE, body |-> board]
        PROVE  answer.list = board /\ answer.whole /\ answer.body = board /\ answer.whole \in BOOLEAN
    BY <2>5
  <2>6. ASSUME answer = [list |-> Empty, whole |-> TRUE, body |-> Garbled]
        PROVE  answer.list = Empty /\ answer.whole /\ answer.body = Garbled /\ answer.whole \in BOOLEAN
    BY <2>6
  <2>7. ASSUME NEW l \in Listings, answer = [list |-> l, whole |-> FALSE, body |-> l]
        PROVE  answer.list = l /\ ~answer.whole /\ answer.body = l /\ answer.whole \in BOOLEAN
    BY <2>7
  <2> QED BY <2>1, <2>3, <2>4, <2>5, <2>6, <2>7
<1> DEFINE new == [at |-> "answered", list |-> answer.list, whole |-> answer.whole,
                   body |-> answer.body, stamp |-> 0, held |-> [a \in Adverts |-> NoText]]
<1>5. poll' = [poll EXCEPT ![p] = new]
  BY <1>2
<1>6. /\ new \in PollRecords /\ new.at = "answered" /\ new.stamp = 0
      /\ new.whole => new.body \in {new.list, Garbled}
  BY <1>4, PostingsAssumption DEF PollRecords
<1> HIDE DEF new
<1>7. /\ \A q \in BoardPolls \ {p} : poll'[q] = poll[q]
      /\ poll'[p] = new
  BY <1>1, <1>5 DEF PostingsTypes
<1>8. PostingsTypes'
  BY <1>1, <1>3, <1>5, <1>6 DEF PostingsTypes, siteVars
<1>9. StampsLast'
  <2>1. InFlight' = InFlight \cup {p} /\ p \notin InFlight
    BY <1>1, <1>3, <1>5, <1>6 DEF InFlight, PostingsTypes
  <2>2. Cardinality(InFlight') = Cardinality(InFlight) + 1
    BY <2>1, FlightCounts, FS_AddElement
  <2> QED BY <1>1, <1>3, <2>2, FlightCounts, PostingsAssumption DEF StampsLast, PostingsTypes
<1>10. StampsApart'
  BY <1>1, <1>3, <1>6, <1>7 DEF StampsApart, Stored, PostingsTypes
<1>11. PollsHold'
  BY <1>1, <1>3, <1>6, <1>7 DEF PollsHold, Stored, Known
<1>12. DoomedIsStale' /\ ReadIsBare' /\ HashTells' /\ TextIsFollowed'
  BY <1>1, <1>3 DEF DoomedIsStale, ReadIsBare, HashTells, TextIsFollowed, VersionIsText, VectorIsOfText,
    Open, Stored, Listed, siteVars
<1> QED BY <1>8, <1>9, <1>10, <1>11, <1>12 DEF PostingsInv

LEMMA ClockKeepsPostings ==
  ASSUME PostingsInv, NEW p \in BoardPolls, ReadClock(p)
  PROVE  PostingsInv'
<1>1. /\ PostingsTypes /\ StampsLast /\ StampsApart /\ PollsHold /\ DoomedIsStale /\ ReadIsBare
      /\ HashTells /\ TextIsFollowed
  BY DEF PostingsInv
<1>2. /\ poll[p].at = "answered" /\ stamps' = stamps + 1
      /\ poll' = [poll EXCEPT ![p].at = "stamped", ![p].stamp = stamps + 1]
      /\ UNCHANGED <<siteVars, row, boardHash, writer, pass, unsettled, raced>>
  BY DEF ReadClock
<1>3. poll[p] \in PollRecords /\ poll \in [BoardPolls -> PollRecords]
  BY <1>1 DEF PostingsTypes
<1>4. /\ stamps + 1 \in 1..MaxAsks /\ \A q \in BoardPolls : poll[q].stamp \in Nat /\ poll[q].stamp <= stamps
  BY <1>2, StampIsInBound
<1>5. /\ \A q \in BoardPolls \ {p} : poll'[q] = poll[q]
      /\ poll'[p] = [poll[p] EXCEPT !.at = "stamped", !.stamp = stamps + 1]
  BY <1>2, <1>3
<1>6. /\ poll'[p] \in PollRecords /\ poll'[p].at = "stamped" /\ poll'[p].stamp = stamps + 1
      /\ poll'[p].whole = poll[p].whole /\ poll'[p].body = poll[p].body
      /\ poll'[p].list = poll[p].list /\ poll'[p].held = poll[p].held
  <2>1. poll'[p] = [at |-> "stamped", list |-> poll[p].list, whole |-> poll[p].whole,
                    body |-> poll[p].body, stamp |-> stamps + 1, held |-> poll[p].held]
    BY <1>3, <1>5 DEF PollRecords
  <2>2. stamps + 1 \in 0..MaxAsks
    BY <1>4, PostingsAssumption
  <2> QED BY <1>3, <2>1, <2>2 DEF PollRecords
<1>7. poll' \in [BoardPolls -> PollRecords]
  BY <1>2, <1>3, <1>5, <1>6
<1>14. row' = row /\ writer' = writer /\ stamps' = stamps + 1 /\ stamps \in Nat
  BY <1>1, <1>2 DEF PostingsTypes
<1>8. PostingsTypes'
  BY <1>1, <1>2, <1>7 DEF PostingsTypes, siteVars
<1>9. StampsLast'
  <2>1. p \in InFlight /\ InFlight' = InFlight \ {p}
    <3>1. poll[p].at = "answered"
      BY <1>2
    <3>2. poll'[p].at # "answered"
      BY <1>6
    <3>3. \A q \in BoardPolls \ {p} : poll'[q].at = poll[q].at
      BY <1>5
    <3> QED BY <3>1, <3>2, <3>3, SMTT(30) DEF InFlight
  <2> QED BY <1>1, <1>2, <2>1, FlightShrinks, PostingsAssumption DEF StampsLast, PostingsTypes
<1>10. \A a \in Stored : row[a].stamp \in Nat /\ row[a].stamp <= stamps
  BY <1>1, StoredIsRow, RowIsItsFields, PostingsAssumption DEF StampsApart
<1>11. StampsApart'
  <2>1. \A q \in BoardPolls : poll'[q].stamp <= stamps'
    BY <1>1, <1>2, <1>4, <1>5, <1>6 DEF PostingsTypes
  <2>2. \A a \in Stored' : row'[a].stamp <= stamps'
    BY <1>1, <1>2, <1>10 DEF PostingsTypes, Stored
  <2>3. ASSUME NEW q \in BoardPolls, poll'[q].at \in {"stamped", "storing"}
        PROVE  /\ poll'[q].stamp # 0
               /\ \A z \in BoardPolls :
                    poll'[z].at \in {"stamped", "storing"} /\ poll'[z].stamp = poll'[q].stamp => z = q
               /\ \A a \in Stored' : row'[a].stamp # poll'[q].stamp
    <3>1. CASE q = p
      BY <1>1, <1>2, <1>4, <1>5, <1>6, <1>10, <3>1 DEF PostingsTypes, Stored
    <3>2. CASE q # p
      <4>1. poll'[q] = poll[q] /\ poll[q].stamp # stamps + 1
        BY <1>1, <1>4, <1>5, <3>2 DEF PostingsTypes
      <4>2. poll[q].stamp # 0 /\ \A a \in Stored : row[a].stamp # poll[q].stamp
        BY <1>1, <2>3, <4>1 DEF StampsApart
      <4>3. ASSUME NEW z \in BoardPolls, poll'[z].at \in {"stamped", "storing"},
                   poll'[z].stamp = poll'[q].stamp
            PROVE  z = q
        <5>1. z # p /\ poll'[z] = poll[z]
          BY <1>5, <1>6, <4>1, <4>3
        <5> QED BY <1>1, <2>3, <4>1, <4>3, <5>1 DEF StampsApart
      <4> QED BY <1>14, <4>1, <4>2, <4>3 DEF Stored
    <3> QED BY <3>1, <3>2
  <2> QED BY <2>1, <2>2, <2>3 DEF StampsApart
<1>12. PollsHold'
  <2> SUFFICES ASSUME NEW q \in BoardPolls
               PROVE  /\ poll'[q].at = "storing" <=> writer' = q
                      /\ poll'[q].whole /\ poll'[q].at # "idle" => poll'[q].body \in {poll'[q].list, Garbled}
                      /\ poll'[q].at = "storing" => Stored' \subseteq Known(q)'
    BY DEF PollsHold
  <2>1. CASE q = p
    BY <1>1, <1>2, <1>6, <1>14, <2>1 DEF PollsHold
  <2>2. CASE q # p
    <3>1. poll'[q] = poll[q] /\ Stored' = Stored /\ Known(q)' = Known(q)
      BY <1>5, <1>14, <2>2 DEF Stored, Known
    <3> QED BY <1>1, <1>14, <3>1 DEF PollsHold
  <2> QED BY <2>1, <2>2
<1>13. DoomedIsStale' /\ ReadIsBare' /\ HashTells' /\ TextIsFollowed'
  BY <1>1, <1>2 DEF DoomedIsStale, ReadIsBare, HashTells, TextIsFollowed, VersionIsText, VectorIsOfText,
    Open, Stored, Listed, siteVars
<1> QED BY <1>8, <1>9, <1>11, <1>12, <1>13 DEF PostingsInv

LEMMA BeginStoreKeepsPostings ==
  ASSUME PostingsInv, NEW p \in BoardPolls, BeginStore(p)
  PROVE  PostingsInv'
<1>1. /\ PostingsTypes /\ StampsLast /\ StampsApart /\ PollsHold /\ DoomedIsStale /\ ReadIsBare
      /\ HashTells /\ TextIsFollowed
  BY DEF PostingsInv
<1> DEFINE held == [a \in Adverts |-> IF a \in Stored THEN row[a].text ELSE NoText]
<1>2. /\ poll[p].at = "stamped" /\ writer = NoPoll /\ writer' = p
      /\ poll' = [poll EXCEPT ![p].at = "storing", ![p].held = held]
      /\ UNCHANGED <<siteVars, row, boardHash, pass, stamps, unsettled, raced>>
  BY DEF BeginStore
<1>3. poll[p] \in PollRecords /\ poll \in [BoardPolls -> PollRecords] /\ NoPoll \notin BoardPolls
  BY <1>1, PostingsAssumption DEF PostingsTypes
<1>4. /\ held \in [Adverts -> Texts \cup {NoText}]
      /\ \A a \in Stored : held[a] # NoText
  <2>1. \A a \in Stored : a \in Adverts /\ row[a].text \in Texts /\ row[a].text # NoText
    BY <1>1, StoredIsRow, RowIsItsFields, PostingsAssumption
  <2> QED BY <2>1
<1> HIDE DEF held
<1>5. /\ \A q \in BoardPolls \ {p} : poll'[q] = poll[q]
      /\ poll'[p] = [poll[p] EXCEPT !.at = "storing", !.held = held]
  BY <1>2, <1>3
<1>6. poll'[p] = [at |-> "storing", list |-> poll[p].list, whole |-> poll[p].whole,
                  body |-> poll[p].body, stamp |-> poll[p].stamp, held |-> held]
  BY <1>3, <1>5 DEF PollRecords
<1>7. /\ poll'[p] \in PollRecords /\ poll'[p].at = "storing" /\ poll'[p].stamp = poll[p].stamp
      /\ poll'[p].whole = poll[p].whole /\ poll'[p].body = poll[p].body
      /\ poll'[p].list = poll[p].list /\ poll'[p].held = held
  BY <1>3, <1>4, <1>6 DEF PollRecords
<1>8. row' = row /\ stamps' = stamps /\ Stored' = Stored
  BY <1>2 DEF Stored
<1>9. PostingsTypes'
  <2>1. poll' \in [BoardPolls -> PollRecords]
    BY <1>2, <1>3, <1>5, <1>7
  <2> QED BY <1>1, <1>2, <2>1 DEF PostingsTypes, siteVars
<1>10. StampsLast'
  <2>1. InFlight' = InFlight
    BY <1>2, <1>5, <1>7 DEF InFlight
  <2> QED BY <1>1, <1>8, <2>1 DEF StampsLast
<1>11. \A q \in BoardPolls :
         /\ poll'[q].stamp = poll[q].stamp
         /\ poll'[q].at \in {"stamped", "storing"} <=> poll[q].at \in {"stamped", "storing"}
  BY <1>2, <1>5, <1>7
<1>12. StampsApart'
  BY <1>1, <1>8, <1>11 DEF StampsApart
<1>13. PollsHold'
  <2> SUFFICES ASSUME NEW q \in BoardPolls
               PROVE  /\ poll'[q].at = "storing" <=> writer' = q
                      /\ poll'[q].whole /\ poll'[q].at # "idle" => poll'[q].body \in {poll'[q].list, Garbled}
                      /\ poll'[q].at = "storing" => Stored' \subseteq Known(q)'
    BY DEF PollsHold
  <2>1. CASE q = p
    <3>1. Stored \subseteq Known(p)'
      BY <1>4, <1>7 DEF Known, Stored
    <3> QED BY <1>1, <1>2, <1>7, <1>8, <2>1, <3>1 DEF PollsHold
  <2>2. CASE q # p
    <3>1. poll'[q] = poll[q] /\ poll[q].at # "storing"
      BY <1>1, <1>2, <1>3, <1>5, <2>2 DEF PollsHold
    <3> QED BY <1>1, <1>2, <2>2, <3>1 DEF PollsHold
  <2> QED BY <2>1, <2>2
<1>14. DoomedIsStale' /\ ReadIsBare' /\ HashTells' /\ TextIsFollowed'
  BY <1>1, <1>2 DEF DoomedIsStale, ReadIsBare, HashTells, TextIsFollowed, VersionIsText, VectorIsOfText,
    Open, Stored, Listed, siteVars
<1> QED BY <1>9, <1>10, <1>12, <1>13, <1>14 DEF PostingsInv

\* A poll that ends frees the writer's lock and takes its stamp with it.
LEMMA QuietIsPoll == Quiet \in PollRecords /\ Quiet.at = "idle" /\ Quiet.stamp = 0
<1>1. Empty \in Listings
  BY DEF Empty, Listings
<1> QED BY <1>1, PostingsAssumption DEF Quiet, PollRecords

LEMMA PollEnds ==
  ASSUME PostingsInv, NEW p \in BoardPolls, poll' = [poll EXCEPT ![p] = Quiet],
         writer' = (IF writer = p THEN NoPoll ELSE writer), stamps' = stamps
  PROVE  /\ poll' \in [BoardPolls -> PollRecords] /\ writer' \in BoardPolls \cup {NoPoll}
         /\ StampsLast'
         /\ \A q \in BoardPolls : /\ q # p => poll'[q] = poll[q]
                                  /\ poll'[q].at # "idle" => q # p
                                  /\ poll'[q].stamp <= stamps
                                  /\ poll'[q].at = "storing" <=> writer' = q
<1>1. poll \in [BoardPolls -> PollRecords] /\ writer \in BoardPolls \cup {NoPoll}
      /\ StampsLast /\ StampsApart /\ PollsHold /\ stamps \in Nat /\ NoPoll \notin BoardPolls
  BY PostingsAssumption DEF PostingsInv, PostingsTypes
<1>2. Quiet \in PollRecords /\ Quiet.at = "idle" /\ Quiet.stamp = 0
  BY QuietIsPoll
<1>3. \A q \in BoardPolls : /\ q # p => poll'[q] = poll[q]
                            /\ q = p => poll'[q] = Quiet
  BY <1>1
<1>4. StampsLast'
  <2>1. InFlight' \in SUBSET InFlight
    BY <1>2, <1>3 DEF InFlight
  <2>2. /\ Cardinality(InFlight') <= Cardinality(InFlight) /\ IsFiniteSet(InFlight')
        /\ Cardinality(InFlight) \in Nat
    BY <2>1, FlightCounts, FS_Subset
  <2>3. Cardinality(InFlight') \in Nat
    BY <2>2, FS_CardinalityType
  <2> QED BY <1>1, <2>2, <2>3, PostingsAssumption DEF StampsLast
<1>5. \A q \in BoardPolls : poll'[q].stamp <= stamps
  BY <1>1, <1>2, <1>3 DEF StampsApart
<1>6. \A q \in BoardPolls : poll'[q].at = "storing" <=> writer' = q
  BY <1>1, <1>2, <1>3 DEF PollsHold
<1> QED BY <1>1, <1>2, <1>3, <1>4, <1>5, <1>6

LEMMA PollFailsKeepsPostings ==
  ASSUME PostingsInv, NEW p \in BoardPolls, PollFails(p)
  PROVE  PostingsInv'
<1>1. /\ PostingsTypes /\ StampsLast /\ StampsApart /\ PollsHold /\ DoomedIsStale /\ ReadIsBare
      /\ HashTells /\ TextIsFollowed
  BY DEF PostingsInv
<1>2. /\ poll' = [poll EXCEPT ![p] = Quiet] /\ writer' = (IF writer = p THEN NoPoll ELSE writer)
      /\ UNCHANGED <<siteVars, row, boardHash, pass, stamps, unsettled, raced>>
  BY DEF PollFails
<1>3. row' = row /\ stamps' = stamps /\ Stored' = Stored
  BY <1>2 DEF Stored
<1>4. /\ poll' \in [BoardPolls -> PollRecords] /\ writer' \in BoardPolls \cup {NoPoll}
      /\ StampsLast'
      /\ \A q \in BoardPolls : /\ q # p => poll'[q] = poll[q]
                               /\ poll'[q].at # "idle" => q # p
                               /\ poll'[q].stamp <= stamps
                               /\ poll'[q].at = "storing" <=> writer' = q
  BY <1>2, <1>3, PollEnds
<1>5. PostingsTypes'
  BY <1>1, <1>2, <1>4 DEF PostingsTypes, siteVars
<1>6. StampsApart'
  <2> SUFFICES ASSUME NEW q \in BoardPolls, poll'[q].at \in {"stamped", "storing"}
               PROVE  /\ poll'[q].stamp # 0
                      /\ \A z \in BoardPolls :
                           poll'[z].at \in {"stamped", "storing"} /\ poll'[z].stamp = poll'[q].stamp => z = q
                      /\ \A a \in Stored : row[a].stamp # poll'[q].stamp
    BY <1>1, <1>3, <1>4 DEF StampsApart
  <2>1. poll'[q] = poll[q] /\ \A z \in BoardPolls : poll'[z].at # "idle" => poll'[z] = poll[z]
    BY <1>4
  <2> QED BY <1>1, <2>1 DEF StampsApart
<1>7. PollsHold'
  <2> SUFFICES ASSUME NEW q \in BoardPolls, poll'[q].at # "idle"
               PROVE  /\ poll'[q].whole => poll'[q].body \in {poll'[q].list, Garbled}
                      /\ poll'[q].at = "storing" => Stored' \subseteq Known(q)'
    BY <1>4 DEF PollsHold
  <2>1. poll'[q] = poll[q] /\ Known(q)' = Known(q)
    BY <1>4 DEF Known
  <2> QED BY <1>1, <1>3, <2>1 DEF PollsHold
<1>8. DoomedIsStale' /\ ReadIsBare' /\ HashTells' /\ TextIsFollowed'
  BY <1>1, <1>2 DEF DoomedIsStale, ReadIsBare, HashTells, TextIsFollowed, VersionIsText, VectorIsOfText,
    Open, Stored, Listed, siteVars
<1> QED BY <1>4, <1>5, <1>6, <1>7, <1>8 DEF PostingsInv

\* A pass begins, deletes or is given up: the rows stay.
LEMMA PassTurnsKeepPostings ==
  ASSUME PostingsInv, BeginPass \/ DeleteDoomed \/ PassFails
  PROVE  PostingsInv'
<1>1. /\ PostingsTypes /\ StampsLast /\ StampsApart /\ PollsHold /\ DoomedIsStale /\ ReadIsBare
      /\ HashTells /\ TextIsFollowed
  BY DEF PostingsInv
<1>2. UNCHANGED <<board, old, touched, row, boardHash, writer, poll, stamps, unsettled>>
  BY DEF BeginPass, DeleteDoomed, PassFails, siteVars
<1>3. changes' \in 0..MaxChanges
  BY <1>1, PostingsAssumption DEF BeginPass, DeleteDoomed, PassFails, PostingsTypes, siteVars
<1> DEFINE nothing == [a \in Adverts |-> NoText]
           read == [a \in Adverts |-> IF a \in Newest(Unembedded \ Doomed) THEN row[a].text ELSE NoText]
<1>4. \A a \in Adverts : nothing[a] = NoText
  OBVIOUS
<1>5. /\ read \in [Adverts -> Texts \cup {NoText}]
      /\ \A a \in Adverts : read[a] # NoText =>
           a \in Stored /\ row[a].vector = NoText /\ read[a] = row[a].text
  <2>1. \A a \in Newest(Unembedded \ Doomed) : a \in Stored /\ row[a].vector = NoText
    BY DEF Newest, Unembedded, Open
  <2>2. \A a \in Stored : row[a].text \in Texts
    BY <1>1, StoredIsRow, RowIsItsFields
  <2> QED BY <2>1, <2>2
<1>6. nothing \in [Adverts -> Texts \cup {NoText}]
  OBVIOUS
<1> HIDE DEF read, nothing
<1>7. ASSUME BeginPass
      PROVE  /\ pass' \in PassRecords /\ raced' \subseteq Adverts /\ DoomedIsStale' /\ ReadIsBare'
             /\ TextIsFollowed'
  <2>1. /\ pass' = [at |-> "deleting", stale |-> Stale, spared |-> touched, doomed |-> {}, read |-> nothing]
        /\ raced' = raced
    BY <1>7 DEF BeginPass, Resting, nothing
  <2>2. Stale \subseteq Adverts
    BY DEF Stale, Stored
  <2> QED BY <1>1, <1>2, <1>4, <1>6, <2>1, <2>2
          DEF PassRecords, PostingsTypes, DoomedIsStale, ReadIsBare, TextIsFollowed, VersionIsText,
              VectorIsOfText, Stored
<1>8. ASSUME DeleteDoomed
      PROVE  /\ pass' \in PassRecords /\ raced' \subseteq Adverts /\ DoomedIsStale' /\ ReadIsBare'
             /\ TextIsFollowed'
  <2>1. pass \in PassRecords /\ raced' = raced
    BY <1>1, <1>8 DEF PostingsTypes, DeleteDoomed
  <2>2. pass' = [at |-> "encoding", stale |-> pass.stale, spared |-> pass.spared, doomed |-> Doomed,
                 read |-> read]
    BY <1>8, <2>1 DEF DeleteDoomed, PassRecords, read
  <2>3. /\ Doomed \subseteq Stored /\ Doomed \subseteq Adverts
        /\ \A a \in Doomed : a \notin pass.spared /\ (row[a].closed \/ a \in old)
    BY DEF Doomed, Stale, Stored
  <2>4. pass' \in PassRecords
    BY <1>5, <2>1, <2>2, <2>3 DEF PassRecords
  <2>5. DoomedIsStale'
    BY <1>2, <2>2, <2>3 DEF DoomedIsStale, Stored
  <2>6. ReadIsBare'
    BY <1>2, <1>5, <2>2 DEF ReadIsBare, Stored
  <2> QED BY <1>1, <1>2, <2>1, <2>4, <2>5, <2>6
          DEF PostingsTypes, TextIsFollowed, VersionIsText, VectorIsOfText, Stored
<1>9. ASSUME PassFails
      PROVE  /\ pass' \in PassRecords /\ raced' \subseteq Adverts /\ DoomedIsStale' /\ ReadIsBare'
             /\ TextIsFollowed'
  <2>1. /\ pass' = [at |-> "idle", stale |-> {}, spared |-> {}, doomed |-> {}, read |-> nothing]
        /\ raced' = {a \in raced : pass.read[a] = NoText}
    BY <1>9 DEF PassFails, Resting, nothing
  <2>2. pass' \in PassRecords /\ raced' \subseteq Adverts
    BY <1>1, <1>6, <2>1 DEF PassRecords, PostingsTypes
  <2>3. TextIsFollowed'
    BY <1>1, <1>2, <2>1 DEF TextIsFollowed, VersionIsText, VectorIsOfText, ReadIsBare, Stored
  <2> QED BY <1>1, <1>2, <1>4, <2>1, <2>2, <2>3 DEF PostingsTypes, DoomedIsStale, ReadIsBare, Stored
<1>10. /\ pass' \in PassRecords /\ raced' \subseteq Adverts /\ DoomedIsStale' /\ ReadIsBare'
       /\ TextIsFollowed'
  BY <1>1, <1>7, <1>8, <1>9
<1>11. PostingsTypes'
  BY <1>1, <1>2, <1>3, <1>10 DEF PostingsTypes
<1>12. StampsLast' /\ StampsApart' /\ PollsHold'
  BY <1>1, <1>2 DEF StampsLast, StampsApart, PollsHold, InFlight, Stored, Known
<1>13. HashTells'
  BY <1>1, <1>2 DEF HashTells, Open, Stored, Listed
<1> QED BY <1>10, <1>11, <1>12, <1>13 DEF PostingsInv

-----------------------------------------------------------------------------
(* A store, and the end of a pass.                                         *)

\* What a store leaves of a posting that stays on the board.
SeenRow(p, a) ==
  PostingRow(poll[p].list[a], FALSE, poll[p].stamp,
      IF row[a].text # poll[p].list[a] THEN poll[p].list[a] ELSE row[a].told,
      IF row[a].text # poll[p].list[a] THEN NoText ELSE row[a].vector, row[a].match)

LEMMA KeptIsListed ==
  ASSUME PostingsTypes, NEW p \in BoardPolls, NEW a \in Kept(p)
  PROVE  a \in Adverts /\ poll[p].list[a] \in Texts
<1>1. poll[p].list \in Listings
  BY DEF PostingsTypes, PollRecords
<1> QED BY <1>1 DEF Kept, Listed, Listings

\* The rows after a store, advert by advert.
LEMMA StoreLeaves ==
  ASSUME PostingsInv, NEW p \in BoardPolls, Store(p), NEW a \in Adverts
  PROVE  /\ a \in Kept(p) /\ a \in Stored => row'[a] = SeenRow(p, a)
         /\ a \in Kept(p) /\ a \notin Stored =>
              /\ row'[a] \in PostingRows /\ row'[a].text = poll[p].list[a] /\ ~row'[a].closed
              /\ row'[a].stamp = poll[p].stamp /\ row'[a].told \in {NoText, poll[p].list[a]}
              /\ row'[a].vector = NoText
         /\ a \notin Kept(p) /\ a \in Missing(p) /\ ~Suspect(p) =>
              row'[a] = PostingRow(row[a].text, TRUE, row[a].stamp, row[a].told, row[a].vector, row[a].match)
         /\ a \notin Kept(p) /\ (a \notin Missing(p) \/ Suspect(p)) => row'[a] = row[a]
<1>1. PostingsTypes /\ StampsApart /\ poll[p].at = "storing"
  BY DEF PostingsInv, Store
<1>2. poll[p].stamp \in 1..MaxAsks
  BY <1>1, StampIsInBound
<1>3. row' = [b \in Adverts |->
       CASE b \in Kept(p) -> IF b \in Stored THEN Seen(p, b) ELSE Fresh(p, b)
         [] b \in Missing(p) /\ ~Suspect(p) -> [row[b] EXCEPT !.closed = TRUE]
         [] OTHER -> row[b]]
  BY DEF Store
<1>8. Missing(p) \cap Kept(p) = {}
  BY DEF Missing
<1>4. ASSUME a \in Kept(p), a \in Stored PROVE row'[a] = SeenRow(p, a)
  <2>1. row'[a] = Seen(p, a)
    BY <1>3, <1>4, <1>8
  <2>2. Seen(p, a) = SeenRow(p, a)
    BY DEF Seen, SeenRow, PostingRow
  <2> QED BY <2>1, <2>2
<1>5. ASSUME a \in Kept(p), a \notin Stored
      PROVE  /\ row'[a] \in PostingRows /\ row'[a].text = poll[p].list[a] /\ ~row'[a].closed
             /\ row'[a].stamp = poll[p].stamp /\ row'[a].told \in {NoText, poll[p].list[a]}
             /\ row'[a].vector = NoText
  <2>1. row'[a] = Fresh(p, a)
    BY <1>3, <1>5, <1>8
  <2>2. poll[p].list[a] \in Texts
    BY <1>1, <1>5, KeptIsListed
  <2>3. PICK told \in {NoText, poll[p].list[a]} :
          row'[a] = [text |-> poll[p].list[a], closed |-> FALSE, stamp |-> poll[p].stamp,
                     told |-> told, vector |-> NoText, match |-> NoText]
    BY <2>1 DEF Fresh
  <2> QED BY <1>2, <2>2, <2>3 DEF PostingRows
<1>6. ASSUME a \notin Kept(p), a \in Missing(p), ~Suspect(p)
      PROVE  row'[a] = PostingRow(row[a].text, TRUE, row[a].stamp, row[a].told, row[a].vector, row[a].match)
  <2>1. row'[a] = [row[a] EXCEPT !.closed = TRUE]
    BY <1>3, <1>6
  <2>2. row[a] = PostingRow(row[a].text, row[a].closed, row[a].stamp, row[a].told, row[a].vector, row[a].match)
        /\ row[a] \in PostingRows
    BY <1>1, <1>6, StoredIsRow, RowIsItsFields DEF Missing, Open
  <2> QED BY <2>1, <2>2 DEF PostingRow, PostingRows
<1>7. ASSUME a \notin Kept(p), a \notin Missing(p) \/ Suspect(p) PROVE row'[a] = row[a]
  BY <1>3, <1>7
<1> QED BY <1>4, <1>5, <1>6, <1>7

\* In short: what is kept is open and says what the board says; nothing else
\* is stored; all derived texts are carried over, but an edited text's vector.
LEMMA StoreSays ==
  ASSUME PostingsInv, NEW p \in BoardPolls, Store(p)
  PROVE  /\ row' \in [Adverts -> PostingRows \cup {NoPosting}]
         /\ Stored' = Stored \cup Kept(p)
         /\ Open' = Kept(p) \cup {a \in Open \ Kept(p) : a \notin Missing(p) \/ Suspect(p)}
         /\ \A a \in Kept(p) : row'[a].text = poll[p].list[a] /\ row'[a].stamp = poll[p].stamp
         /\ \A a \in Stored \ Kept(p) : /\ row'[a].text = row[a].text /\ row'[a].stamp = row[a].stamp
                                        /\ row'[a].told = row[a].told /\ row'[a].vector = row[a].vector
                                        /\ row[a].closed => row'[a].closed
         /\ \A a \in Stored \cap Kept(p) :
              /\ row'[a].told = IF row[a].text # poll[p].list[a] THEN poll[p].list[a] ELSE row[a].told
              /\ row'[a].vector = IF row[a].text # poll[p].list[a] THEN NoText ELSE row[a].vector
         /\ \A a \in Kept(p) \ Stored : /\ row'[a].told \in {NoText, poll[p].list[a]}
                                        /\ row'[a].vector = NoText
<1>1. PostingsTypes /\ poll[p].stamp \in 1..MaxAsks
  BY StampIsInBound DEF PostingsInv, Store
<1>2. \A a \in Kept(p) : a \in Adverts /\ poll[p].list[a] \in Texts
  BY <1>1, KeptIsListed
<1>3. \A a \in Stored : /\ a \in Adverts /\ row[a] \in PostingRows
                        /\ row[a].text \in Texts /\ row[a].closed \in BOOLEAN /\ row[a].stamp \in 1..MaxAsks
                        /\ row[a].told \in Texts \cup {NoText} /\ row[a].vector \in Texts \cup {NoText}
                        /\ row[a].match \in Texts \cup {NoText} /\ row[a] # NoPosting
  BY <1>1, StoredIsRow, RowIsItsFields
<1>4. ASSUME NEW a \in Stored \cap Kept(p)
      PROVE  /\ row'[a] \in PostingRows /\ row'[a].text = poll[p].list[a]
             /\ row'[a].stamp = poll[p].stamp /\ ~row'[a].closed
             /\ row'[a].told = IF row[a].text # poll[p].list[a] THEN poll[p].list[a] ELSE row[a].told
             /\ row'[a].vector = IF row[a].text # poll[p].list[a] THEN NoText ELSE row[a].vector
  <2>1. row'[a] = SeenRow(p, a)
    BY <1>2, StoreLeaves
  <2> QED BY <1>1, <1>2, <1>3, <2>1 DEF SeenRow, PostingRow, PostingRows
<1>5. ASSUME NEW a \in Kept(p) \ Stored
      PROVE  /\ row'[a] \in PostingRows /\ row'[a].text = poll[p].list[a] /\ ~row'[a].closed
             /\ row'[a].stamp = poll[p].stamp /\ row'[a].told \in {NoText, poll[p].list[a]}
             /\ row'[a].vector = NoText
  BY <1>2, StoreLeaves
<1>6. ASSUME NEW a \in Stored \ Kept(p)
      PROVE  /\ row'[a] \in PostingRows
             /\ row'[a].text = row[a].text /\ row'[a].stamp = row[a].stamp
             /\ row'[a].told = row[a].told /\ row'[a].vector = row[a].vector
             /\ row'[a].closed <=> row[a].closed \/ (a \in Missing(p) /\ ~Suspect(p))
  <2>1. CASE a \in Missing(p) /\ ~Suspect(p)
    <3>1. row'[a] = PostingRow(row[a].text, TRUE, row[a].stamp, row[a].told, row[a].vector, row[a].match)
      BY <1>3, <2>1, StoreLeaves
    <3> QED BY <1>3, <2>1, <3>1 DEF PostingRow, PostingRows
  <2>2. CASE a \notin Missing(p) \/ Suspect(p)
    <3>1. row'[a] = row[a]
      BY <1>3, <2>2, StoreLeaves
    <3> QED BY <1>3, <2>2, <3>1
  <2> QED BY <2>1, <2>2
<1>7. ASSUME NEW a \in Adverts \ (Stored \cup Kept(p)) PROVE row'[a] = NoPosting
  <2>1. a \notin Missing(p)
    BY <1>7 DEF Missing, Open
  <2>2. row'[a] = row[a]
    BY <2>1, StoreLeaves
  <2> QED BY <2>2 DEF Stored
<1>8. \A r \in PostingRows : r # NoPosting
  BY NamesApart
<1>9. row' \in [Adverts -> PostingRows \cup {NoPosting}]
  <2>1. row' = [b \in Adverts |-> row'[b]]
    BY DEF Store
  <2>2. \A b \in Adverts : row'[b] \in PostingRows \cup {NoPosting}
    BY <1>4, <1>5, <1>6, <1>7
  <2> QED BY <2>1, <2>2
<1>10. Stored' = Stored \cup Kept(p)
  BY <1>2, <1>3, <1>4, <1>5, <1>6, <1>7, <1>8 DEF Stored
<1>11. Open' = Kept(p) \cup {a \in Open \ Kept(p) : a \notin Missing(p) \/ Suspect(p)}
  <2>1. Open' = {a \in Stored \cup Kept(p) : ~row'[a].closed}
    BY <1>10 DEF Open
  <2>2. \A a \in Stored \cup Kept(p) :
          ~row'[a].closed <=> \/ a \in Kept(p)
                              \/ a \in Open \ Kept(p) /\ (a \notin Missing(p) \/ Suspect(p))
    BY <1>4, <1>5, <1>6 DEF Open
  <2> QED BY <2>1, <2>2 DEF Open
<1> QED BY <1>4, <1>5, <1>6, <1>9, <1>10, <1>11

LEMMA StoreKeepsHash ==
  ASSUME PostingsInv, NEW p \in BoardPolls, Store(p)
  PROVE  HashTells'
<1>1. /\ PostingsTypes /\ StampsApart /\ PollsHold /\ HashTells /\ poll[p].at = "storing"
      /\ poll[p].stamp \in 1..MaxAsks
  BY StampIsInBound DEF PostingsInv, Store
<1>2. /\ Stored' = Stored \cup Kept(p)
      /\ Open' = Kept(p) \cup {a \in Open \ Kept(p) : a \notin Missing(p) \/ Suspect(p)}
      /\ \A a \in Kept(p) : row'[a].text = poll[p].list[a]
      /\ \A a \in Stored \ Kept(p) : row'[a].text = row[a].text
  BY StoreSays
<1>3. /\ boardHash' = (IF Suspect(p) THEN boardHash ELSE poll[p].body) /\ unsettled' = Disorder(p)
      /\ old' = old
  BY DEF Store, siteVars
<1>4. CASE ~poll[p].whole
  BY <1>3, <1>4 DEF HashTells, Disorder
<1>5. CASE poll[p].whole /\ Suspect(p)
  <2>1. Kept(p) = {}
    BY <1>5 DEF Suspect, Kept
  <2>2. boardHash' = boardHash /\ unsettled' = unsettled /\ Stored' = Stored /\ Open' = Open
    BY <1>2, <1>3, <1>5, <2>1 DEF Disorder
  <2>3. \A a \in Open : row'[a].text = row[a].text
    BY <1>2, <2>1 DEF Open
  <2>4. Listed(boardHash') = Listed(boardHash)
    BY <2>2
  <2> QED BY <1>1, <1>3, <2>2, <2>3, <2>4 DEF HashTells
<1>6. CASE poll[p].whole /\ ~Suspect(p)
  <2> SUFFICES ASSUME boardHash' \in Listings, ~unsettled'
               PROVE  /\ \A a \in Open' : boardHash'[a] = row'[a].text
                      /\ \A a \in Listed(boardHash)' :
                           a \in Open' \/ (a \notin Stored' /\ (a \in old' \/ boardHash'[a] \in Abroad))
    BY DEF HashTells
  <2>1. boardHash' = poll[p].body /\ ~\E a \in Stored : row[a].stamp > poll[p].stamp
    BY <1>3, <1>6 DEF Disorder
  <2>2. boardHash' = poll[p].list
    <3>1. poll[p].body \in {poll[p].list, Garbled}
      BY <1>1, <1>6 DEF PollsHold
    <3> QED BY <2>1, <3>1, NamesApart
  <2>3. \A a \in Stored : row[a].stamp < poll[p].stamp
    <3> SUFFICES ASSUME NEW a \in Stored PROVE row[a].stamp < poll[p].stamp
      OBVIOUS
    <3>1. row[a].stamp \in 1..MaxAsks
      BY <1>1, StoredIsRow, RowIsItsFields
    <3>2. row[a].stamp # poll[p].stamp
      BY <1>1 DEF StampsApart
    <3> QED BY <1>1, <2>1, <3>1, <3>2
  <2>4. Open' = Kept(p)
    BY <1>2, <1>6, <2>3 DEF Missing, Open
  <2>5. \A a \in Open' : boardHash'[a] = row'[a].text
    BY <1>2, <2>2, <2>4
  <2>6. ASSUME NEW a \in Listed(boardHash)', a \notin Open'
        PROVE  a \notin Stored' /\ (a \in old' \/ boardHash'[a] \in Abroad)
    <3>1. a \in Listed(poll[p].list) /\ a \notin Kept(p)
      BY <2>2, <2>4, <2>6 DEF Listed
    <3>2. a \notin Known(p) /\ (a \in old \/ poll[p].list[a] \in Abroad)
      BY <3>1 DEF Kept
    <3>3. a \notin Stored
      BY <1>1, <3>2 DEF PollsHold
    <3> QED BY <1>2, <1>3, <2>2, <3>1, <3>2, <3>3
  <2> QED BY <2>5, <2>6
<1> QED BY <1>1, <1>4, <1>5, <1>6

LEMMA StoreKeepsDerived ==
  ASSUME PostingsInv, NEW p \in BoardPolls, Store(p)
  PROVE  TextIsFollowed' /\ ReadIsBare'
<1>1. TextIsFollowed /\ ReadIsBare /\ PostingsTypes
  BY DEF PostingsInv
<1>2. /\ Stored' = Stored \cup Kept(p)
      /\ \A a \in Kept(p) : row'[a].text = poll[p].list[a]
      /\ \A a \in Stored \ Kept(p) : /\ row'[a].text = row[a].text
                                     /\ row'[a].told = row[a].told /\ row'[a].vector = row[a].vector
      /\ \A a \in Stored \cap Kept(p) :
           /\ row'[a].told = IF row[a].text # poll[p].list[a] THEN poll[p].list[a] ELSE row[a].told
           /\ row'[a].vector = IF row[a].text # poll[p].list[a] THEN NoText ELSE row[a].vector
      /\ \A a \in Kept(p) \ Stored : /\ row'[a].told \in {NoText, poll[p].list[a]}
                                     /\ row'[a].vector = NoText
  BY StoreSays
<1>3. /\ pass' = pass
      /\ \A a \in Adverts : a \in raced' <=> IF Edited(p, a) THEN pass.read[a] # NoText ELSE a \in raced
  BY DEF Store
<1>4. ASSUME NEW a \in Stored'
      PROVE  /\ row'[a].told \in {NoText, row'[a].text}
             /\ row'[a].vector \in {NoText, row'[a].text} \/ a \in raced'
  <2>1. CASE a \in Stored \ Kept(p)
    BY <1>1, <1>2, <1>3, <2>1 DEF TextIsFollowed, VersionIsText, VectorIsOfText, Edited, Stored
  <2>2. CASE a \in Stored \cap Kept(p) /\ row[a].text # poll[p].list[a]
    BY <1>2, <2>2
  <2>3. CASE a \in Stored \cap Kept(p) /\ row[a].text = poll[p].list[a]
    BY <1>1, <1>2, <1>3, <2>3 DEF TextIsFollowed, VersionIsText, VectorIsOfText, Edited, Stored
  <2>4. CASE a \in Kept(p) \ Stored
    BY <1>2, <2>4
  <2> QED BY <1>2, <1>4, <2>1, <2>2, <2>3, <2>4
<1>5. ReadIsBare'
  <2> SUFFICES ASSUME NEW a \in Adverts, pass.read[a] # NoText
               PROVE  /\ a \in Stored' /\ row'[a].vector = NoText
                      /\ a \in raced' \/ pass.read[a] = row'[a].text
    BY <1>3 DEF ReadIsBare
  <2>1. a \in Stored /\ row[a].vector = NoText /\ (a \in raced \/ pass.read[a] = row[a].text)
    BY <1>1 DEF ReadIsBare
  <2>2. row'[a].vector = NoText
    BY <1>2, <2>1
  <2>3. CASE Edited(p, a)
    BY <1>2, <1>3, <2>1, <2>2, <2>3
  <2>4. CASE ~Edited(p, a)
    BY <1>2, <1>3, <2>1, <2>2, <2>4 DEF Edited
  <2> QED BY <2>3, <2>4
<1>6. TextIsFollowed'
  BY <1>4 DEF TextIsFollowed, VersionIsText, VectorIsOfText
<1> QED BY <1>5, <1>6

LEMMA StoreKeepsPostings ==
  ASSUME PostingsInv, NEW p \in BoardPolls, Store(p)
  PROVE  PostingsInv'
<1>1. /\ PostingsTypes /\ StampsLast /\ StampsApart /\ PollsHold /\ DoomedIsStale /\ ReadIsBare
      /\ HashTells /\ TextIsFollowed /\ poll[p].at = "storing" /\ poll[p].stamp \in 1..MaxAsks
  BY StampIsInBound DEF PostingsInv, Store
<1>2. /\ row' \in [Adverts -> PostingRows \cup {NoPosting}] /\ Stored' = Stored \cup Kept(p)
      /\ \A a \in Kept(p) : row'[a].stamp = poll[p].stamp
      /\ \A a \in Stored \ Kept(p) : /\ row'[a].stamp = row[a].stamp
                                     /\ row[a].closed => row'[a].closed
  BY StoreSays
<1>3. /\ poll' = [poll EXCEPT ![p] = Quiet] /\ writer' = NoPoll /\ writer = p
      /\ UNCHANGED <<siteVars, pass, stamps>> /\ Kept(p) \cap pass.doomed = {}
      /\ boardHash' = (IF Suspect(p) THEN boardHash ELSE poll[p].body) /\ unsettled' = Disorder(p)
      /\ raced' \subseteq Adverts
  BY <1>1 DEF Store, PollsHold, MustWait
<1>4. writer' = (IF writer = p THEN NoPoll ELSE writer) /\ stamps' = stamps
  BY <1>3
<1>5. /\ poll' \in [BoardPolls -> PollRecords] /\ writer' \in BoardPolls \cup {NoPoll}
      /\ StampsLast'
      /\ \A q \in BoardPolls : /\ q # p => poll'[q] = poll[q]
                               /\ poll'[q].at # "idle" => q # p
                               /\ poll'[q].stamp <= stamps
                               /\ poll'[q].at = "storing" <=> writer' = q
  BY <1>3, <1>4, PollEnds
<1>6. PostingsTypes'
  <2>1. poll[p].body \in Listings \cup {Garbled, NoHash}
    BY <1>1 DEF PostingsTypes, PollRecords
  <2>2. Disorder(p) \in BOOLEAN
    BY <1>1 DEF Disorder, PostingsTypes
  <2>3. boardHash' \in Listings \cup {Garbled, NoHash}
    BY <1>1, <1>3, <2>1 DEF PostingsTypes
  <2>4. unsettled' \in BOOLEAN /\ raced' \subseteq Adverts
    BY <1>1, <1>3, <2>2 DEF PostingsTypes
  <2> QED BY <1>1, <1>2, <1>3, <1>5, <2>3, <2>4 DEF PostingsTypes, siteVars
<1>7. \A a \in Stored' : row'[a].stamp = poll[p].stamp \/ (a \in Stored /\ row'[a].stamp = row[a].stamp)
  BY <1>2
<1>8. StampsApart'
  <2>1. \A a \in Stored' : row'[a].stamp <= stamps
    <3>1. poll[p].stamp <= stamps
      BY <1>1 DEF StampsApart
    <3> QED BY <1>1, <1>7, <3>1 DEF StampsApart
  <2>2. ASSUME NEW q \in BoardPolls, poll'[q].at \in {"stamped", "storing"}
        PROVE  /\ poll'[q].stamp # 0
               /\ \A z \in BoardPolls :
                    poll'[z].at \in {"stamped", "storing"} /\ poll'[z].stamp = poll'[q].stamp => z = q
               /\ \A a \in Stored' : row'[a].stamp # poll'[q].stamp
    <3>1. /\ q # p /\ poll'[q] = poll[q]
          /\ \A z \in BoardPolls : poll'[z].at # "idle" => poll'[z] = poll[z]
      BY <1>5, <2>2
    <3>2. poll[q].stamp # poll[p].stamp /\ poll[q].stamp # 0
      BY <1>1, <2>2, <3>1 DEF StampsApart
    <3>3. \A z \in BoardPolls : poll'[z].at \in {"stamped", "storing"} /\ poll'[z].stamp = poll'[q].stamp => z = q
      BY <1>1, <2>2, <3>1 DEF StampsApart
    <3>4. \A a \in Stored' : row'[a].stamp # poll'[q].stamp
      BY <1>1, <1>7, <2>2, <3>1, <3>2 DEF StampsApart
    <3> QED BY <3>1, <3>2, <3>3, <3>4
  <2> QED BY <1>4, <1>5, <2>1, <2>2 DEF StampsApart
<1>9. PollsHold'
  <2> SUFFICES ASSUME NEW q \in BoardPolls, poll'[q].at # "idle"
               PROVE  /\ poll'[q].whole => poll'[q].body \in {poll'[q].list, Garbled}
                      /\ poll'[q].at # "storing"
    BY <1>5 DEF PollsHold
  <2>1. q # p /\ poll'[q] = poll[q]
    BY <1>5
  <2>2. poll[q].at # "storing"
    BY <1>1, <1>3, <2>1 DEF PollsHold
  <2> QED BY <1>1, <2>1, <2>2 DEF PollsHold
<1>10. DoomedIsStale'
  <2> SUFFICES ASSUME NEW a \in pass.doomed
               PROVE  a \in Stored' /\ a \notin pass.spared /\ (row'[a].closed \/ a \in old)
    BY <1>3 DEF DoomedIsStale, siteVars
  <2>1. a \in Stored \ Kept(p)
    BY <1>1, <1>3 DEF DoomedIsStale
  <2> QED BY <1>1, <1>2, <2>1 DEF DoomedIsStale
<1> QED BY <1>5, <1>6, <1>8, <1>9, <1>10, StoreKeepsHash, StoreKeepsDerived DEF PostingsInv

LEMMA EndPassLeaves ==
  ASSUME PostingsInv, EndPass, NEW a \in Adverts
  PROVE  /\ a \in pass.doomed \/ a \notin Stored => row'[a] = NoPosting
         /\ a \in Stored \ pass.doomed =>
              /\ row'[a] \in PostingRows /\ row'[a].text = row[a].text
              /\ row'[a].closed = row[a].closed /\ row'[a].stamp = row[a].stamp
              /\ row'[a].told = row[a].told
              /\ row'[a].vector = IF pass.read[a] \in Texts \ {Blank} THEN pass.read[a] ELSE row[a].vector
<1>1. PostingsTypes
  BY DEF PostingsInv
<1> DEFINE vector == IF pass.read[a] \in Texts \ {Blank} THEN pass.read[a] ELSE row[a].vector
           match == IF a \in Newest(Unscored) \ Excluded THEN ReadText(a) ELSE row[a].match
<1>2. row'[a] = IF a \in pass.doomed \/ a \notin Stored THEN NoPosting
                ELSE [row[a] EXCEPT !.vector = vector, !.match = match]
  BY DEF EndPass
<1>3. ASSUME a \in Stored \ pass.doomed
      PROVE  /\ row'[a] \in PostingRows /\ row'[a].text = row[a].text
             /\ row'[a].closed = row[a].closed /\ row'[a].stamp = row[a].stamp
             /\ row'[a].told = row[a].told /\ row'[a].vector = vector
  <2>1. row[a] \in PostingRows /\ row[a].text \in Texts
        /\ row[a].vector \in Texts \cup {NoText} /\ row[a].match \in Texts \cup {NoText}
    BY <1>1, <1>3, StoredIsRow, RowIsItsFields
  <2>2. pass.read[a] \in Texts \cup {NoText}
    BY <1>1 DEF PostingsTypes, PassRecords
  <2>3. vector \in Texts \cup {NoText} /\ match \in Texts \cup {NoText}
    BY <2>1, <2>2 DEF ReadText
  <2>4. row'[a] = [row[a] EXCEPT !.vector = vector, !.match = match]
    BY <1>2, <1>3
  <2> HIDE DEF vector, match
  <2>5. row'[a] = [text |-> row[a].text, closed |-> row[a].closed, stamp |-> row[a].stamp,
                   told |-> row[a].told, vector |-> vector, match |-> match]
    BY <2>1, <2>4 DEF PostingRows
  <2> QED BY <2>1, <2>3, <2>5 DEF PostingRows
<1> QED BY <1>2, <1>3

LEMMA EndPassKeepsPostings ==
  ASSUME PostingsInv, EndPass
  PROVE  PostingsInv'
<1>1. /\ PostingsTypes /\ StampsLast /\ StampsApart /\ PollsHold /\ DoomedIsStale /\ ReadIsBare
      /\ HashTells /\ TextIsFollowed
  BY DEF PostingsInv
<1>2. /\ pass' = Resting /\ UNCHANGED <<board, old, changes, boardHash, writer, poll, stamps, unsettled, raced>>
      /\ touched' \subseteq touched
  BY DEF EndPass
<1>3. \A r \in PostingRows : r # NoPosting
  BY NamesApart
<1>4. Stored' = Stored \ pass.doomed
  BY <1>3, EndPassLeaves DEF Stored
<1>5. \A a \in Stored' : /\ a \in Stored \ pass.doomed /\ a \in Adverts
                         /\ row'[a].text = row[a].text /\ row'[a].closed = row[a].closed
                         /\ row'[a].stamp = row[a].stamp /\ row'[a].told = row[a].told
                         /\ row'[a].vector = IF pass.read[a] \in Texts \ {Blank} THEN pass.read[a]
                                             ELSE row[a].vector
  BY <1>4, EndPassLeaves DEF Stored
<1>6. Open' = Open \ pass.doomed
  BY <1>4, <1>5 DEF Open
<1>7. PostingsTypes'
  <2>1. row' \in [Adverts -> PostingRows \cup {NoPosting}]
    <3>1. row' = [b \in Adverts |-> row'[b]]
      BY DEF EndPass
    <3>2. \A b \in Adverts : row'[b] \in PostingRows \cup {NoPosting}
      BY EndPassLeaves
    <3> QED BY <3>1, <3>2
  <2>2. pass' \in PassRecords
    <3>1. pass' = [at |-> "idle", stale |-> {}, spared |-> {}, doomed |-> {},
                   read |-> [a \in Adverts |-> NoText]]
      BY <1>2 DEF Resting
    <3> QED BY <3>1 DEF PassRecords
  <2> QED BY <1>1, <1>2, <2>1, <2>2 DEF PostingsTypes
<1>8. StampsLast' /\ StampsApart' /\ PollsHold'
  <2>1. StampsLast'
    BY <1>1, <1>2 DEF StampsLast, InFlight
  <2>2. StampsApart'
    BY <1>1, <1>2, <1>5 DEF StampsApart
  <2>3. PollsHold'
    BY <1>1, <1>2, <1>4 DEF PollsHold, Known
  <2> QED BY <2>1, <2>2, <2>3
<1>9. DoomedIsStale' /\ ReadIsBare'
  BY <1>2 DEF DoomedIsStale, ReadIsBare, Resting
<1>10. HashTells'
  <2> SUFFICES ASSUME boardHash \in Listings, ~unsettled
               PROVE  /\ \A a \in Open' : boardHash[a] = row'[a].text
                      /\ \A a \in Listed(boardHash) :
                           a \in Open' \/ (a \notin Stored' /\ (a \in old \/ boardHash[a] \in Abroad))
    BY <1>2 DEF HashTells, Listed
  <2>1. \A a \in Open' : boardHash[a] = row'[a].text
    BY <1>1, <1>5, <1>6 DEF HashTells, Open
  <2>2. ASSUME NEW a \in Listed(boardHash)
        PROVE  a \in Open' \/ (a \notin Stored' /\ (a \in old \/ boardHash[a] \in Abroad))
    <3>1. a \in Open \/ (a \notin Stored /\ (a \in old \/ boardHash[a] \in Abroad))
      BY <1>1 DEF HashTells
    <3>2. CASE a \in Open /\ a \in pass.doomed
      <4>1. a \in old
        BY <1>1, <3>2 DEF DoomedIsStale, Open
      <4> QED BY <1>4, <3>2, <4>1
    <3> QED BY <1>4, <1>6, <3>1, <3>2
  <2> QED BY <2>1, <2>2
<1>11. TextIsFollowed'
  <2>1. ASSUME NEW a \in Stored'
        PROVE  /\ row'[a].told \in {NoText, row'[a].text}
               /\ row'[a].vector \in {NoText, row'[a].text} \/ a \in raced'
    <3>1. CASE pass.read[a] \in Texts \ {Blank}
      <4>1. pass.read[a] # NoText
        BY <3>1, PostingsAssumption
      <4>2. row'[a].vector = pass.read[a] /\ row'[a].text = row[a].text /\ row'[a].told = row[a].told
            /\ a \in Stored \ pass.doomed
        BY <1>5, <2>1, <3>1
      <4>3. pass.read[a] = row[a].text \/ a \in raced'
        BY <1>1, <1>2, <4>1, <4>2 DEF ReadIsBare, Stored
      <4>4. row[a].told \in {NoText, row[a].text}
        BY <1>1, <4>2 DEF TextIsFollowed, VersionIsText
      <4> QED BY <4>2, <4>3, <4>4
    <3>2. CASE pass.read[a] \notin Texts \ {Blank}
      BY <1>1, <1>2, <1>5, <2>1, <3>2 DEF TextIsFollowed, VersionIsText, VectorIsOfText
    <3> QED BY <3>1, <3>2
  <2> QED BY <2>1 DEF TextIsFollowed, VersionIsText, VectorIsOfText
<1> QED BY <1>7, <1>8, <1>9, <1>10, <1>11 DEF PostingsInv

LEMMA PostingsStepKeepsInv ==
  ASSUME PostingsInv, [PostingsNext]_postingVars
  PROVE  PostingsInv'
<1>1. CASE UNCHANGED postingVars
  BY <1>1 DEF postingVars, siteVars, PostingsInv, PostingsTypes, StampsLast, StampsApart, PollsHold,
    DoomedIsStale, ReadIsBare, HashTells, TextIsFollowed, VersionIsText, VectorIsOfText, InFlight, Known, Open,
    Stored, Listed
<1>2. ASSUME NEW p \in BoardPolls, PollStep(p) PROVE PostingsInv'
  BY <1>2, AskKeepsPostings, ClockKeepsPostings, BeginStoreKeepsPostings, StoreKeepsPostings,
    PollFailsKeepsPostings DEF PollStep
<1> QED BY <1>1, <1>2, OutsideKeepsPostings, PassTurnsKeepPostings, EndPassKeepsPostings
        DEF PostingsNext

LEMMA PostingsInitHolds == PostingsInit => PostingsInv
<1> SUFFICES ASSUME PostingsInit PROVE PostingsInv
  OBVIOUS
<1>1. /\ Stored = {} /\ Open = {} /\ InFlight = {} /\ boardHash = NoHash /\ NoHash \notin Listings
      /\ pass.doomed = {} /\ \A p \in BoardPolls : poll[p] = Quiet
  BY NamesApart, QuietIsPoll DEF PostingsInit, Stored, Open, InFlight, Resting
<1>2. pass \in PassRecords
  <2>1. pass = [at |-> "idle", stale |-> {}, spared |-> {}, doomed |-> {},
                read |-> [a \in Adverts |-> NoText]]
    BY DEF PostingsInit, Resting
  <2> QED BY <2>1 DEF PassRecords
<1>3. PostingsTypes
  <2>1. board \in Listings
    BY PostingsAssumption DEF PostingsInit, Listings
  <2>2. row \in [Adverts -> PostingRows \cup {NoPosting}] /\ poll \in [BoardPolls -> PollRecords]
    BY QuietIsPoll DEF PostingsInit
  <2>3. /\ old = {} /\ touched = {} /\ raced = {} /\ changes = 0 /\ stamps = 0
        /\ unsettled = FALSE /\ boardHash = NoHash /\ writer = NoPoll
    BY DEF PostingsInit
  <2>4. changes \in 0..MaxChanges /\ stamps \in 0..MaxAsks
    BY <2>3, PostingsAssumption
  <2> QED BY ONLY <1>2, <2>1, <2>2, <2>3, <2>4 DEF PostingsTypes
<1>4. StampsLast
  BY <1>1, FS_EmptySet, PostingsAssumption DEF StampsLast, PostingsInit
<1>5. StampsApart /\ PollsHold
  BY <1>1, QuietIsPoll, PostingsAssumption DEF StampsApart, PollsHold, PostingsInit
<1>6. ReadIsBare
  BY DEF PostingsInit, Resting, ReadIsBare
<1> QED BY <1>1, <1>3, <1>4, <1>5, <1>6 DEF PostingsInv, DoomedIsStale, HashTells, TextIsFollowed,
  VersionIsText, VectorIsOfText

\* However polls, passes and the owner interleave: one poll at a time stores
\* into a company's rows, no poll carries a time that was not read, and what a
\* pass is about to delete is there to be deleted.
THEOREM PostingsTypeCorrect == PostingsSpec => []PostingsTypeOK
<1>1. PostingsInv => PostingsTypeOK
  <2> SUFFICES ASSUME PostingsInv PROVE PostingsTypeOK
    OBVIOUS
  <2>1. PostingsTypes /\ StampsLast /\ StampsApart /\ PollsHold /\ DoomedIsStale
    BY DEF PostingsInv
  <2>2. \A a \in Stored : row[a] \in PostingRows
    BY <2>1, StoredIsRow
  <2>3. stamps \in 0..MaxAsks
    <3>1. PICK n \in Nat : n = Cardinality(InFlight)
      BY FlightCounts
    <3> QED BY <2>1, <3>1, PostingsAssumption DEF PostingsTypes, StampsLast
  <2>4. ASSUME NEW p \in BoardPolls
        PROVE  /\ poll[p].at \in {"idle", "answered", "stamped", "storing"}
               /\ poll[p].list \in Listings /\ poll[p].stamp \in 0..stamps
               /\ poll[p].at = "storing" <=> writer = p
    <3>1. poll[p] \in PollRecords /\ poll[p].stamp <= stamps /\ (poll[p].at = "storing" <=> writer = p)
      BY <2>1 DEF PostingsTypes, StampsApart, PollsHold
    <3> QED BY <2>3, <3>1 DEF PollRecords
  <2>5. pass.at \in {"idle", "deleting", "encoding"} /\ pass.doomed \subseteq Stored
    BY <2>1 DEF PostingsTypes, PassRecords, DoomedIsStale
  <2> QED BY <2>1, <2>2, <2>3, <2>4, <2>5 DEF PostingsTypes, PostingsTypeOK
<1>2. PostingsInv /\ [PostingsNext]_postingVars => PostingsInv'
  BY PostingsStepKeepsInv
<1> QED BY <1>1, <1>2, PostingsInitHolds, PTL DEF PostingsSpec

\* However polls of one board overlap, with passes that prune and embed beside
\* them: a board that is passed over as unchanged is held as it is listed.
THEOREM BoardIsHeld == PostingsSpec => []TableIsBoard
<1>1. PostingsInv => TableIsBoard
  BY DEF PostingsInv, HashTells, TableIsBoard, PostingsTypes
<1>2. PostingsInv /\ [PostingsNext]_postingVars => PostingsInv'
  BY PostingsStepKeepsInv
<1> QED BY <1>1, <1>2, PostingsInitHolds, PTL DEF PostingsSpec

\* No version, and no vector but of a text edited while it was being encoded,
\* speaks of another text than its posting's.
THEOREM DerivedFollowsText == PostingsSpec => []TextIsFollowed
<1>1. PostingsInv => TextIsFollowed
  BY DEF PostingsInv
<1>2. PostingsInv /\ [PostingsNext]_postingVars => PostingsInv'
  BY PostingsStepKeepsInv
<1> QED BY <1>1, <1>2, PostingsInitHolds, PTL DEF PostingsSpec

LEMMA OnlyStaleGoes ==
  ASSUME PostingsInv, PostingsNext, NEW a \in Stored, row'[a] = NoPosting
  PROVE  a \notin pass.spared /\ (row[a].closed \/ a \in old)
<1>1. /\ PostingsTypes /\ DoomedIsStale /\ a \in Adverts /\ row[a] # NoPosting
  BY DEF PostingsInv, Stored
<1>2. row' # row
  BY <1>1
<1>3. ASSUME NEW p \in BoardPolls, Store(p) PROVE FALSE
  <2>1. a \in Stored'
    BY <1>3, StoreSays
  <2> QED BY <2>1 DEF Stored
<1>4. CASE EndPass
  <2>1. a \in pass.doomed
    <3>1. \A r \in PostingRows : r # NoPosting
      BY NamesApart
    <3> QED BY <1>1, <1>4, <3>1, EndPassLeaves
  <2> QED BY <1>1, <2>1 DEF DoomedIsStale
<1>5. ~(\E p \in BoardPolls : AskBoard(p) \/ ReadClock(p) \/ BeginStore(p) \/ PollFails(p))
  BY <1>2 DEF AskBoard, ReadClock, BeginStore, PollFails
<1>6. ~(BeginPass \/ DeleteDoomed \/ PassFails \/ \E b \in Adverts : Publish(b) \/ GrowOld(b) \/ Touch(b))
  BY <1>2 DEF BeginPass, DeleteDoomed, PassFails, Publish, GrowOld, Touch
<1> QED BY <1>3, <1>4, <1>5, <1>6 DEF PostingsNext, PollStep

\* Pruning takes nothing that was the owner's when its DELETE looked, and
\* nothing that a poll had reopened by the time it was deleted.
THEOREM PruningSpares == PostingsSpec => PrunesOnlyStale
<1>1. PostingsInv /\ [PostingsNext]_postingVars
        => [\A a \in Stored : row'[a] = NoPosting => a \notin pass.spared /\ (row[a].closed \/ a \in old)]_postingVars
  BY OnlyStaleGoes
<1>2. PostingsInv /\ [PostingsNext]_postingVars => PostingsInv'
  BY PostingsStepKeepsInv
<1> QED BY <1>1, <1>2, PostingsInitHolds, PTL DEF PostingsSpec, PrunesOnlyStale

\* Beside whatever else is done: boards are held as listed, derived data is of
\* its text, and only stale postings go.
THEOREM PartsHoldBoards == PartsSpec => []TableIsBoard /\ []TextIsFollowed /\ PrunesOnlyStale
<1>1. PartsInit => PostingsInit
  BY DEF PartsInit
<1>2. [PartsNext]_partVars => [PostingsNext]_postingVars
  BY PartsMoveAlone
<1>3. PartsSpec => PostingsSpec
  BY <1>1, <1>2, PTL DEF PartsSpec, PostingsSpec
<1> QED BY <1>3, BoardIsHeld, DerivedFollowsText, PruningSpares, PTL

-----------------------------------------------------------------------------
(* Which company is polled for which board.                                *)

\* Beside whatever else is done the registry holds what it does alone.
THEOREM PartsHoldRegistry == PartsSpec => []RegistryHolds
<1>1. PartsInit => RegistryInit
  BY DEF PartsInit
<1>2. [PartsNext]_partVars => [RegistryNext]_registryVars
  BY PartsMoveAlone
<1>3. PartsSpec => RegistrySpec
  BY <1>1, <1>2, PTL DEF PartsSpec, RegistrySpec
<1> QED BY <1>3, RegistryIsHeld, PTL

-----------------------------------------------------------------------------
(* The types of the parts.                                                  *)

\* Whichever part moves, every variable of every part is what it is said to be.
THEOREM PartsTypeCorrect == PartsSpec => []PartsTypeOK
<1>1. PartsInit => /\ part \in Parts
                   /\ HostInit /\ LocalInit /\ DoorbellInit /\ ReminderInit /\ LockInit
                   /\ PostingsInit /\ InboxInit /\ RegistryInit
  BY DEF PartsInit
<1>2. [PartsNext]_partVars =>
        /\ [HostNext]_slotVars /\ [LocalNext]_localVars /\ [DoorbellNext]_doorbellVars
        /\ [ReminderNext]_reminderVars /\ [LockNext]_lockVars /\ [PostingsNext]_postingVars
        /\ [InboxNext]_inboxVars /\ [RegistryNext]_registryVars
  BY PartsMoveAlone
<1>3. part \in Parts /\ [PartsNext]_partVars => (part \in Parts)'
  BY DEF PartsNext, In, partVars
<1>4. PartsSpec => /\ HostSpec /\ LocalSpec /\ DoorbellSpec /\ ReminderSpec /\ LockSpec
                   /\ PostingsSpec /\ InboxSpec /\ RegistrySpec
  BY <1>1, <1>2, PTL DEF PartsSpec, HostSpec, LocalSpec, DoorbellSpec, ReminderSpec, LockSpec,
    PostingsSpec, InboxSpec, RegistrySpec
<1>5. PartsSpec => [](part \in Parts)
  BY <1>1, <1>3, PTL DEF PartsSpec
<1>6. PartsTypeOK <=> /\ part \in Parts
                      /\ HostTypeOK /\ LocalTypeOK /\ DoorbellTypeOK /\ ReminderTypeOK /\ LockTypeOK
                      /\ PostingsTypeOK /\ InboxTypeOK /\ RegistryTypeOK
  BY DEF PartsTypeOK
<1> QED BY <1>4, <1>5, <1>6, HostTypeCorrect, LocalTypeCorrect, DoorbellTypeCorrect, ReminderTypeCorrect,
          LockTypeCorrect, PostingsTypeCorrect, InboxTypeCorrect, RegistryTypeCorrect, PTL
=============================================================================
