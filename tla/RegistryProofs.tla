---------------------------- MODULE RegistryProofs ----------------------------
(***************************************************************************)
(* Proofs about BoardRegistry: which company is polled for which board; and *)
(* about DiveStarts: how often a note's deep dive is started.               *)
(***************************************************************************)
EXTENDS BoardRegistry, DiveStarts, TLAPS

NoteRecords == [state : {"none", "noted", "queued", "needs_owner"}, category : Categories \cup {"none"}]
LookRecords ==
  [at : {"begun", "read", "asked"}, stage : Stages \cup {"none"}, company : Registered,
   copy : Entries, category : Categories \cup {"none"}, found : JobBoards \cup {NoBoard},
   collided : BOOLEAN, mine : BOOLEAN]

RegistryTypes ==
  /\ entry \in [Registered -> Entries] /\ note \in [Registered -> [Stages -> NoteRecords]]
  /\ look \in [Lookers -> LookRecords \cup {AtRest}] /\ listing \subseteq JobBoards

\* An execution is only asked about a board it found, and a dive for want of a
\* board began with a company that had none.
LooksHold ==
  \A r \in Lookers :
    /\ look[r].at = "asked" => look[r].found # NoBoard
    /\ look[r].at # "idle" /\ look[r].stage = "discovery" => look[r].copy.status # "verified"

RegistryInv == RegistryTypes /\ LooksHold /\ RegistryHolds

\* A record of a company or of an execution is nothing but its fields.
LEMMA ActiveLook ==
  ASSUME RegistryTypes, NEW r \in Lookers, look[r].at # "idle"
  PROVE  look[r] \in LookRecords
BY DEF RegistryTypes, AtRest

LEMMA WrittenIsEntry ==
  ASSUME RegistryTypes, NEW c \in Registered, NEW had \in Entries, NEW new \in Entries
  PROVE  /\ Written(c, had, new) \in Entries
         /\ Written(c, had, new).status = IF new.status = had.status THEN entry[c].status ELSE new.status
         /\ Written(c, had, new).board = IF new.board = had.board THEN entry[c].board ELSE new.board
BY DEF RegistryTypes, Written, Entries

\* Where one row is written, what is promised of the others stays, and these
\* are what it asks of the row.
LEMMA OneRowIsWritten ==
  ASSUME RegistryTypes, RegistryHolds, NEW c \in Registered, NEW e \in Entries,
         entry' = [entry EXCEPT ![c] = e],
         \A d \in Registered \ {c} : note'[d]["discovery"] = note[d]["discovery"],
         crossed \subseteq crossed', curated \subseteq curated',
         e.status = "verified" /\ e.board # NoBoard =>
           (e.status = entry[c].status /\ e.board = entry[c].board) \/ ~IndexRefuses(c, e),
         c \notin crossed' /\ e.status = "verified" => e.board # NoBoard,
         c \notin crossed' \cup curated' /\ e.status = "verified"
           => note'[c]["discovery"].state # "needs_owner"
  PROVE  RegistryHolds'
<1>1. entry'[c] = e /\ \A d \in Registered \ {c} : entry'[d] = entry[d]
  BY DEF RegistryTypes
<1>2. OneBoardOneRow'
  <2> SUFFICES ASSUME NEW d \in Registered, NEW h \in Registered, h # d,
                      entry'[d].status = "verified", entry'[d].board # NoBoard,
                      entry'[h].status = "verified", entry'[h].board = entry'[d].board
               PROVE  FALSE
    BY DEF OneBoardOneRow, Fetchable, HoldersOf
  <2>1. CASE d # c /\ h # c
    BY <1>1, <2>1 DEF RegistryHolds, OneBoardOneRow, Fetchable, HoldersOf
  <2>2. CASE d = c
    BY <1>1, <2>2 DEF RegistryHolds, OneBoardOneRow, Fetchable, HoldersOf, IndexRefuses
  <2>3. CASE h = c
    BY <1>1, <2>3 DEF RegistryHolds, OneBoardOneRow, Fetchable, HoldersOf, IndexRefuses
  <2> QED BY <2>1, <2>2, <2>3
<1>3. InOneSchedule'
  BY <1>1 DEF RegistryHolds, InOneSchedule, Fetchable, Discoverable, Entries
<1>4. VerifiedIsNotOwned'
  BY <1>1 DEF RegistryHolds, VerifiedIsNotOwned, Fetchable
<1> QED BY <1>2, <1>3, <1>4 DEF RegistryHolds

\* Where no row is written, only the notes and the histories count.
LEMMA NoRowIsWritten ==
  ASSUME RegistryTypes, RegistryHolds,
         \A c \in Registered : /\ entry'[c].status = entry[c].status
                               /\ entry'[c].board = entry[c].board,
         \A c \in Registered \ (crossed' \cup curated') :
            note'[c]["discovery"].state = "needs_owner" /\ entry[c].status = "verified"
              => note[c]["discovery"].state = "needs_owner",
         crossed \subseteq crossed', curated \subseteq curated'
  PROVE  RegistryHolds'
<1>1. OneBoardOneRow'
  BY DEF RegistryHolds, OneBoardOneRow, Fetchable, HoldersOf
<1>2. InOneSchedule'
  BY DEF RegistryHolds, InOneSchedule, Fetchable
<1>3. VerifiedIsNotOwned'
  BY DEF RegistryHolds, VerifiedIsNotOwned, Fetchable
<1> QED BY <1>1, <1>2, <1>3 DEF RegistryHolds

\* The executions with some of their notes fixed under them.
LEMMA DisownedLooks ==
  ASSUME RegistryTypes, NEW c \in Registered, NEW s \in Stages
  PROVE  /\ Disowned(c, s) \in [Lookers -> LookRecords \cup {AtRest}]
         /\ \A r \in Lookers : /\ Disowned(c, s)[r].at = look[r].at
                               /\ look[r].at # "idle" =>
                                    /\ Disowned(c, s)[r].stage = look[r].stage
                                    /\ Disowned(c, s)[r].copy = look[r].copy
                                    /\ Disowned(c, s)[r].found = look[r].found
<1>1. ASSUME NEW r \in Lookers, look[r].at # "idle"
      PROVE  LET y == [look[r] EXCEPT !.mine = FALSE] IN
             /\ y \in LookRecords /\ y.at = look[r].at /\ y.stage = look[r].stage
             /\ y.copy = look[r].copy /\ y.found = look[r].found
  <2>1. look[r] \in LookRecords
    BY <1>1, ActiveLook
  <2> QED BY <2>1 DEF LookRecords
<1>2. \A r \in Lookers : look[r] \in LookRecords \cup {AtRest}
  BY DEF RegistryTypes
<1> QED BY <1>1, <1>2 DEF Disowned

\* However an execution ends, the others are on their way as before.
LEMMA EndedLooks ==
  ASSUME RegistryTypes, LooksHold, NEW r \in Lookers, look[r].at # "idle", NEW b \in BOOLEAN,
         EndLook(r, b)
  PROVE  look' \in [Lookers -> LookRecords \cup {AtRest}] /\ LooksHold'
<1>1. look[r].company \in Registered /\ "discovery" \in Stages
  BY ActiveLook DEF LookRecords, Stages
<1>2. PICK held : held = Disowned(look[r].company, "discovery")
  OBVIOUS
<1>3. /\ held \in [Lookers -> LookRecords \cup {AtRest}]
      /\ \A p \in Lookers : /\ held[p].at = look[p].at
                            /\ look[p].at # "idle" => /\ held[p].stage = look[p].stage
                                                      /\ held[p].copy = look[p].copy
                                                      /\ held[p].found = look[p].found
  BY <1>1, <1>2, DisownedLooks
<1>4. look' = [IF b THEN held ELSE look EXCEPT ![r] = AtRest]
  BY <1>2 DEF EndLook
<1>5. /\ look'[r] = AtRest /\ look' \in [Lookers -> LookRecords \cup {AtRest}]
      /\ \A p \in Lookers \ {r} : look'[p] = IF b THEN held[p] ELSE look[p]
  BY <1>3, <1>4 DEF RegistryTypes
<1>6. AtRest.at = "idle"
  BY DEF AtRest
<1> QED BY <1>3, <1>5, <1>6 DEF LooksHold

\* The answer of a dive is written to its own note.
LEMMA AnsweredNotes ==
  ASSUME RegistryTypes, NEW r \in Lookers, look[r].at # "idle",
         NEW notes \in [Registered -> [Stages -> NoteRecords]], NEW answer \in {"fixed", "needs_owner"}
  PROVE  /\ Answered(r, notes, answer) \in [Registered -> [Stages -> NoteRecords]]
         /\ \A d \in Registered \ {look[r].company} : Answered(r, notes, answer)[d] = notes[d]
         /\ \A s \in Stages : s # look[r].stage =>
              Answered(r, notes, answer)[look[r].company][s] = notes[look[r].company][s]
         /\ answer = "fixed" => \A s \in Stages :
              Answered(r, notes, answer)[look[r].company][s] \in {notes[look[r].company][s], NoNote}
<1>1. look[r] \in LookRecords
  BY ActiveLook
<1>2. look[r].stage \in Stages \cup {"none"} /\ look[r].company \in Registered
      /\ look[r].category \in Categories \cup {"none"}
  BY <1>1 DEF LookRecords
<1>3. NoNote \in NoteRecords
  BY DEF NoNote, NoteRecords
<1> DEFINE c == look[r].company
           s == look[r].stage
           said == [state |-> answer,
                    category |-> IF notes[c][s] = NoNote THEN look[r].category ELSE notes[c][s].category]
<1>4. CASE s = "none" \/ (answer = "fixed" /\ ~look[r].mine)
  <2>1. Answered(r, notes, answer) = notes
    BY <1>4 DEF Answered
  <2> QED BY <2>1
<1>5. CASE s \in Stages /\ ~(answer = "fixed" /\ ~look[r].mine)
  <2>1. notes[c][s] \in NoteRecords
    BY <1>2, <1>5
  <2>2. notes[c][s].category \in Categories \cup {"none"}
    BY <2>1 DEF NoteRecords
  <2>3. answer # "fixed" => said \in NoteRecords
    <3>1. PICK k \in Categories \cup {"none"} :
            k = IF notes[c][s] = NoNote THEN look[r].category ELSE notes[c][s].category
      BY <1>2, <2>2
    <3>2. said = [state |-> answer, category |-> k]
      BY <3>1
    <3> HIDE DEF said
    <3> QED BY <3>1, <3>2 DEF NoteRecords
  <2>4. PICK n \in NoteRecords : n = IF answer = "fixed" THEN NoNote ELSE said
    BY <1>3, <2>3
  <2>5. s # "none"
    BY <1>5 DEF Stages
  <2>6. Answered(r, notes, answer) = [notes EXCEPT ![c][s] = n]
    BY <1>5, <2>4, <2>5 DEF Answered
  <2> HIDE DEF said
  <2> QED BY <1>2, <1>5, <2>4, <2>6
<1> QED BY <1>2, <1>4, <1>5

\* A note that is taken is one.
LEMMA NotedIsNote ==
  ASSUME NEW n \in NoteRecords, NEW k \in Categories
  PROVE  Noted(n, k) \in NoteRecords
BY DEF Noted, NoteRecords

LEMMA NotesWritten ==
  ASSUME RegistryTypes, NEW c \in Registered, NEW s \in Stages, NEW n \in NoteRecords
  PROVE  /\ [note EXCEPT ![c][s] = n] \in [Registered -> [Stages -> NoteRecords]]
         /\ [note EXCEPT ![c][s] = n][c][s] = n
         /\ \A d \in Registered : d # c => [note EXCEPT ![c][s] = n][d] = note[d]
         /\ \A z \in Stages \ {s} : [note EXCEPT ![c][s] = n][c][z] = note[c][z]
BY DEF RegistryTypes

\* An execution whose had is no longer the row is told.
LEMMA EndsTells ==
  ASSUME NEW r \in Lookers, Ends(r)
  PROVE  /\ crossed \subseteq crossed' /\ UNCHANGED <<curated, listing>>
         /\ look[r].company \notin crossed' =>
              /\ entry[look[r].company].status = look[r].copy.status
              /\ entry[look[r].company].board = look[r].copy.board
BY DEF Ends

\* The row of a company whose board another has: given up, or what it was.
LEMMA OccupiedKeepsInv ==
  ASSUME RegistryInv, NEW r \in Lookers, look[r].at # "idle", NEW had \in Entries,
         had = look[r].copy \/ had = entry[look[r].company], Occupied(r, had)
  PROVE  RegistryInv'
<1> DEFINE c == look[r].company
           alias == SameCompany(c, look[r].found)
           closed == [note EXCEPT ![c]["discovery"] = NoNote]
           noted == [note EXCEPT ![c]["discovery"] = Noted(note[c]["discovery"], "name_collision")]
           new == [status |-> "failed", board |-> NoBoard, resting |-> TRUE]
<1>1. /\ RegistryTypes /\ LooksHold /\ RegistryHolds /\ look[r] \in LookRecords
      /\ c \in Registered /\ new \in Entries /\ "discovery" \in Stages
  BY ActiveLook DEF RegistryInv, LookRecords, Entries, Discoverable, Stages
<1>2. CASE ~alias /\ Clashes(r, noted)
  <2>1. look' = [look EXCEPT ![r] = AtRest] /\ UNCHANGED <<entry, note, listing, crossed, curated>>
    BY <1>2 DEF Occupied, RolledBack
  <2>2. look'[r] = AtRest /\ \A p \in Lookers \ {r} : look'[p] = look[p]
    BY <1>1, <2>1 DEF RegistryTypes
  <2>3. LooksHold'
    BY <1>1, <2>2 DEF LooksHold, AtRest
  <2>4. RegistryTypes' /\ RegistryHolds'
    BY <1>1, <2>1 DEF RegistryTypes, RegistryHolds, OneBoardOneRow, InOneSchedule, VerifiedIsNotOwned,
      Fetchable, HoldersOf
  <2> QED BY <2>3, <2>4 DEF RegistryInv
<1>3. CASE ~(~alias /\ Clashes(r, noted))
  <2>1. /\ entry' = [entry EXCEPT ![c] = Written(c, had, new)]
        /\ note' = Answered(r, IF alias THEN closed ELSE noted, IF alias THEN "fixed" ELSE "needs_owner")
        /\ EndLook(r, alias) /\ Ends(r)
    BY <1>3 DEF Occupied
  <2>2. PICK e \in Entries :
          /\ e = Written(c, had, new)
          /\ e.status = IF "failed" = had.status THEN entry[c].status ELSE "failed"
          /\ e.board = IF NoBoard = had.board THEN entry[c].board ELSE NoBoard
    <3>1. Written(c, had, new) \in Entries
          /\ Written(c, had, new).status = (IF new.status = had.status THEN entry[c].status ELSE new.status)
          /\ Written(c, had, new).board = (IF new.board = had.board THEN entry[c].board ELSE new.board)
      BY <1>1, WrittenIsEntry
    <3> QED BY <3>1
  <2>3. PICK b \in BOOLEAN : b = alias
    BY DEF SameCompany
  <2>4. PICK n \in NoteRecords :
          n = IF b THEN NoNote ELSE Noted(note[c]["discovery"], "name_collision")
    <3>1. note[c]["discovery"] \in NoteRecords /\ "name_collision" \in Categories /\ NoNote \in NoteRecords
      BY <1>1 DEF RegistryTypes, Categories, NoNote, NoteRecords
    <3> QED BY <3>1, NotedIsNote
  <2>5. note' = Answered(r, [note EXCEPT ![c]["discovery"] = n], IF b THEN "fixed" ELSE "needs_owner")
    BY <2>1, <2>3, <2>4
  <2>6. /\ note' \in [Registered -> [Stages -> NoteRecords]]
        /\ \A d \in Registered \ {c} : note'[d] = note[d]
    <3>1. PICK notes : notes = [note EXCEPT ![c]["discovery"] = n]
      OBVIOUS
    <3>4. notes \in [Registered -> [Stages -> NoteRecords]] /\ \A d \in Registered \ {c} : notes[d] = note[d]
      BY <1>1, <2>4, <3>1 DEF RegistryTypes
    <3>2. PICK answer \in {"fixed", "needs_owner"} : answer = IF b THEN "fixed" ELSE "needs_owner"
      OBVIOUS
    <3>3. note' = Answered(r, notes, answer)
      BY <2>5, <3>1, <3>2
    <3> QED BY <1>1, <3>2, <3>3, <3>4, AnsweredNotes
  <2>7. look' \in [Lookers -> LookRecords \cup {AtRest}] /\ LooksHold'
    BY <1>1, <2>1, <2>3, EndedLooks
  <2>8. RegistryTypes'
    BY <1>1, <2>1, <2>2, <2>6, <2>7, EndsTells DEF RegistryTypes
  <2>9. c \notin crossed' => e.status = "failed"
    BY <1>1, <2>1, <2>2, EndsTells
  <2>10. e.status = "verified" /\ e.board # NoBoard => e.status = entry[c].status /\ e.board = entry[c].board
    BY <2>2
  <2>11. entry' = [entry EXCEPT ![c] = e] /\ crossed \subseteq crossed' /\ curated \subseteq curated'
    BY <2>1, <2>2, EndsTells
  <2> HIDE DEF c
  <2>12. RegistryHolds'
    BY <1>1, <2>6, <2>9, <2>10, <2>11, OneRowIsWritten
  <2> QED BY <2>7, <2>8, <2>12 DEF RegistryInv
<1> QED BY <1>2, <1>3

\* A verified company's note on its way to a board is closed.
LEMMA WriteKeepsInv ==
  ASSUME RegistryInv, NEW r \in Lookers, WriteBoard(r)
  PROVE  RegistryInv'
<1> DEFINE c == look[r].company
           had == look[r].copy
           new == [status |-> "verified", board |-> look[r].found, resting |-> FALSE]
<1>1. /\ RegistryTypes /\ LooksHold /\ RegistryHolds /\ look[r].at = "asked" /\ look[r].at # "idle"
  BY DEF RegistryInv, WriteBoard
<1>2. look[r] \in LookRecords
  BY <1>1, ActiveLook
<1>3. /\ c \in Registered /\ had \in Entries /\ new \in Entries /\ "discovery" \in Stages
      /\ look[r].found \in JobBoards /\ look[r].found # NoBoard
  BY <1>1, <1>2 DEF LooksHold, LookRecords, Entries, Stages
<1>4. PICK e \in Entries :
        /\ e = Written(c, had, new)
        /\ e.status = IF "verified" = had.status THEN entry[c].status ELSE "verified"
        /\ e.board = IF look[r].found = had.board THEN entry[c].board ELSE look[r].found
  <2>1. Written(c, had, new) \in Entries
        /\ Written(c, had, new).status = (IF new.status = had.status THEN entry[c].status ELSE new.status)
        /\ Written(c, had, new).board = (IF new.board = had.board THEN entry[c].board ELSE new.board)
    BY <1>1, <1>3, WrittenIsEntry
  <2> QED BY <2>1
<1>5. CASE ~IndexRefuses(c, e)
  <2>1. /\ entry' = [entry EXCEPT ![c] = e] /\ EndLook(r, TRUE) /\ Ends(r)
        /\ note' = Answered(r, [note EXCEPT ![c]["discovery"] = NoNote], "fixed")
    BY <1>4, <1>5 DEF WriteBoard
  <2>2. PICK notes : notes = [note EXCEPT ![c]["discovery"] = NoNote]
    OBVIOUS
  <2>3. /\ notes \in [Registered -> [Stages -> NoteRecords]] /\ notes[c]["discovery"] = NoNote
        /\ \A d \in Registered \ {c} : notes[d] = note[d]
    <3>1. NoNote \in NoteRecords
      BY DEF NoNote, NoteRecords
    <3> QED BY <1>1, <1>3, <2>2, <3>1 DEF RegistryTypes
  <2>4. note' = Answered(r, notes, "fixed")
    BY <2>1, <2>2
  <2>5. /\ note' \in [Registered -> [Stages -> NoteRecords]]
        /\ \A d \in Registered \ {c} : note'[d] = note[d]
        /\ note'[c]["discovery"] = NoNote
    BY <1>1, <1>3, <2>3, <2>4, AnsweredNotes
  <2>6. look' \in [Lookers -> LookRecords \cup {AtRest}] /\ LooksHold'
    BY <1>1, <2>1, EndedLooks
  <2>7. RegistryTypes'
    BY <1>1, <2>1, <2>5, <2>6, EndsTells DEF RegistryTypes
  <2>8. c \notin crossed' => e.board # NoBoard
    BY <1>3, <1>4, <2>1, EndsTells
  <2>9. NoNote.state # "needs_owner"
    BY DEF NoNote
  <2>10. crossed \subseteq crossed' /\ curated \subseteq curated'
    BY <2>1, EndsTells
  <2> HIDE DEF c
  <2>11. RegistryHolds'
    BY <1>1, <1>3, <1>5, <2>1, <2>5, <2>8, <2>9, <2>10, OneRowIsWritten
  <2> QED BY <2>6, <2>7, <2>11 DEF RegistryInv
<1>6. CASE Occupied(r, entry[c])
  <2>1. entry[c] \in Entries
    BY <1>1, <1>3 DEF RegistryTypes
  <2>2. PICK now \in Entries : now = entry[c]
    BY <2>1
  <2>3. Occupied(r, now)
    BY <1>6, <2>2
  <2> QED BY <1>1, <2>2, <2>3, OccupiedKeepsInv
<1> QED BY <1>4, <1>5, <1>6 DEF WriteBoard

\* Nothing found: only discovery writes the row, and only a dive for want of a
\* board that is still wanted hands it to the owner.
LEMMA UnresolvedKeepsInv ==
  ASSUME RegistryInv, NEW r \in Lookers, look[r].at # "idle", Unresolved(r)
  PROVE  RegistryInv'
<1> DEFINE c == look[r].company
           had == look[r].copy
           kind == IF look[r].collided THEN "name_collision" ELSE look[r].category
<1>1. /\ RegistryTypes /\ LooksHold /\ RegistryHolds /\ look[r] \in LookRecords
  BY ActiveLook DEF RegistryInv
<1>2. /\ c \in Registered /\ had \in Entries /\ "discovery" \in Stages
      /\ look[r].stage \in Stages \cup {"none"} /\ look[r].category \in Categories \cup {"none"}
      /\ "none" \notin Stages
  BY <1>1 DEF LookRecords, Stages
<1>3. CASE Clashes(r, note)
  <2>1. look' = [look EXCEPT ![r] = AtRest] /\ UNCHANGED <<entry, note, listing, crossed, curated>>
    BY <1>3 DEF Unresolved, RolledBack
  <2>2. look'[r] = AtRest /\ \A p \in Lookers \ {r} : look'[p] = look[p]
    BY <1>1, <2>1 DEF RegistryTypes
  <2>3. LooksHold'
    BY <1>1, <2>2 DEF LooksHold, AtRest
  <2>4. RegistryTypes' /\ RegistryHolds'
    BY <1>1, <2>1 DEF RegistryTypes, RegistryHolds, OneBoardOneRow, InOneSchedule, VerifiedIsNotOwned,
      Fetchable, HoldersOf
  <2> QED BY <2>3, <2>4 DEF RegistryInv
<1>4. CASE ~Clashes(r, note) /\ look[r].stage = "none"
  <2>1. /\ entry' = [entry EXCEPT ![c] =
             Written(c, had, [status |-> "failed", board |-> had.board, resting |-> TRUE])]
        /\ \/ note' = note
           \/ kind \notin NotAnIssue
              /\ note' = [note EXCEPT ![c]["discovery"] = Noted(note[c]["discovery"], kind)]
        /\ EndLook(r, FALSE) /\ Ends(r)
    BY <1>4 DEF Unresolved
  <2>2. PICK new \in Entries : new = [status |-> "failed", board |-> had.board, resting |-> TRUE]
    BY <1>2 DEF Entries, Discoverable
  <2>3. PICK e \in Entries :
          /\ e = Written(c, had, new)
          /\ e.status = IF "failed" = had.status THEN entry[c].status ELSE "failed"
          /\ e.board = entry[c].board
    <3>1. Written(c, had, new) \in Entries
          /\ Written(c, had, new).status = (IF new.status = had.status THEN entry[c].status ELSE new.status)
          /\ Written(c, had, new).board = (IF new.board = had.board THEN entry[c].board ELSE new.board)
      BY <1>1, <1>2, WrittenIsEntry
    <3> QED BY <2>2, <3>1
  <2>4. /\ note' \in [Registered -> [Stages -> NoteRecords]]
        /\ \A d \in Registered \ {c} : note'[d] = note[d]
    <3>1. PICK n \in NoteRecords : note' = note \/ note' = [note EXCEPT ![c]["discovery"] = n]
      <4>1. note[c]["discovery"] \in NoteRecords
        BY <1>1, <1>2 DEF RegistryTypes
      <4>2. PICK k \in Categories \cup {"none"} : k = kind
        BY <1>2 DEF Categories
      <4>3. Noted(note[c]["discovery"], k) \in NoteRecords
        BY <4>1 DEF Noted, NoteRecords
      <4> QED BY <2>1, <4>1, <4>2, <4>3
    <3>2. CASE note' = note
      BY <1>1, <3>2 DEF RegistryTypes
    <3>3. CASE note' = [note EXCEPT ![c]["discovery"] = n]
      BY <1>1, <1>2, <3>1, <3>3 DEF RegistryTypes
    <3> QED BY <3>1, <3>2, <3>3
  <2>5. look' \in [Lookers -> LookRecords \cup {AtRest}] /\ LooksHold'
    BY <1>1, <2>1, EndedLooks
  <2>6. entry' = [entry EXCEPT ![c] = e] /\ crossed \subseteq crossed' /\ curated \subseteq curated'
    BY <2>1, <2>2, <2>3, EndsTells
  <2>7. RegistryTypes'
    BY <1>1, <2>1, <2>4, <2>5, <2>6, EndsTells DEF RegistryTypes
  <2>8. c \notin crossed' => e.status = "failed"
    BY <2>1, <2>3, EndsTells
  <2> HIDE DEF c
  <2>9. RegistryHolds'
    BY <1>1, <1>2, <2>3, <2>4, <2>6, <2>8, OneRowIsWritten
  <2> QED BY <2>5, <2>7, <2>9 DEF RegistryInv
<1>5. CASE ~Clashes(r, note) /\ look[r].stage \in Stages
  <2>1. /\ UNCHANGED entry /\ note' = Answered(r, note, "needs_owner")
        /\ EndLook(r, FALSE) /\ Ends(r)
    BY <1>2, <1>5 DEF Unresolved
  <2>2. PICK notes \in [Registered -> [Stages -> NoteRecords]] : notes = note
    BY <1>1 DEF RegistryTypes
  <2>3. note' = Answered(r, notes, "needs_owner")
    BY <2>1, <2>2
  <2>4. /\ note' \in [Registered -> [Stages -> NoteRecords]]
        /\ \A d \in Registered \ {c} : note'[d] = note[d]
        /\ \A s \in Stages : s # look[r].stage => note'[c][s] = note[c][s]
    BY <1>1, <2>2, <2>3, AnsweredNotes
  <2>5. look' \in [Lookers -> LookRecords \cup {AtRest}] /\ LooksHold'
    BY <1>1, <2>1, EndedLooks
  <2>6. RegistryTypes'
    BY <1>1, <2>1, <2>4, <2>5, EndsTells DEF RegistryTypes
  <2>7. c \notin crossed' /\ look[r].stage = "discovery" => entry[c].status # "verified"
    BY <1>1, <2>1, EndsTells DEF LooksHold
  <2>8. crossed \subseteq crossed' /\ curated \subseteq curated'
    BY <2>1, EndsTells
  <2> HIDE DEF c
  <2>9. RegistryHolds'
    BY <1>1, <1>2, <2>1, <2>4, <2>7, <2>8, NoRowIsWritten
  <2> QED BY <2>5, <2>6, <2>9 DEF RegistryInv
<1> QED BY <1>2, <1>3, <1>4, <1>5

\* What a company's site gives is a category and a board with openings, or none.
LEMMA ReadIsTyped ==
  ASSUME RegistryTypes, NEW c \in Registered
  PROVE  /\ Category(site[c]) \in Categories /\ FirstAccepted(c) \in JobBoards \cup {NoBoard}
         /\ \A s \in Stages \cup {"none"}, k \in Categories \cup {"none"} :
              DeepDive(site[c], s, k, listing) \in JobBoards \cup {NoBoard}
<1>1. Category(site[c]) \in Categories
  BY DEF Category, Categories
<1>2. \A b : Confirmed(b, listing) \in JobBoards \cup {NoBoard}
  BY DEF Confirmed, RegistryTypes
<1>3. Proposals(c)[1] \in JobBoards \cup {NoBoard} /\ Proposals(c)[2] \in JobBoards \cup {NoBoard}
  BY <1>2 DEF Proposals
<1>4. FirstAccepted(c) \in JobBoards \cup {NoBoard}
  BY <1>3 DEF FirstAccepted
<1>5. \A s \in Stages \cup {"none"}, k \in Categories \cup {"none"} :
        DeepDive(site[c], s, k, listing) \in JobBoards \cup {NoBoard}
  BY <1>2 DEF DeepDive
<1> QED BY <1>1, <1>4, <1>5

LEMMA ReadKeepsInv ==
  ASSUME RegistryInv, NEW r \in Lookers, ReadSite(r)
  PROVE  RegistryInv'
<1> DEFINE c == look[r].company
<1>1. /\ RegistryTypes /\ LooksHold /\ RegistryHolds /\ look[r].at = "begun" /\ look[r].at # "idle"
      /\ UNCHANGED <<entry, note, listing, crossed, curated>>
  BY DEF RegistryInv, ReadSite
<1>2. look[r] \in LookRecords
  BY <1>1, ActiveLook
<1>3. /\ c \in Registered /\ look[r].copy \in Entries /\ look[r].mine \in BOOLEAN
      /\ look[r].stage \in Stages \cup {"none"} /\ look[r].category \in Categories \cup {"none"}
  BY <1>2 DEF LookRecords
<1>4. PICK found \in JobBoards \cup {NoBoard}, category \in Categories \cup {"none"}, collided \in BOOLEAN :
        look' = [look EXCEPT ![r] =
          [at |-> "read", stage |-> look[r].stage, company |-> c, copy |-> look[r].copy,
           mine |-> look[r].mine, found |-> found, category |-> category, collided |-> collided]]
  <2>1. PICK found \in JobBoards \cup {NoBoard} :
          found = IF look[r].stage = "none" THEN FirstAccepted(c)
                  ELSE DeepDive(site[c], look[r].stage, look[r].category, listing)
    BY <1>1, <1>3, ReadIsTyped
  <2>2. PICK category \in Categories \cup {"none"} :
          category = IF look[r].stage = "none" THEN Category(site[c]) ELSE look[r].category
    BY <1>1, <1>3, ReadIsTyped
  <2>3. PICK collided \in BOOLEAN :
          collided = (look[r].stage = "none" /\ \E i \in 1..2 :
                        Proposals(c)[i] # NoBoard /\ ~Accepted(c, Proposals(c)[i]))
    OBVIOUS
  <2>4. look' = [look EXCEPT ![r] =
          [at |-> "read", stage |-> look[r].stage, company |-> c, copy |-> look[r].copy,
           mine |-> look[r].mine, found |-> found, category |-> category, collided |-> collided]]
    BY <2>1, <2>2, <2>3 DEF ReadSite
  <2> QED BY <2>4
<1>5. PICK y \in LookRecords : /\ look' = [look EXCEPT ![r] = y] /\ y.at = "read"
                               /\ y.stage = look[r].stage /\ y.copy = look[r].copy
  <2> DEFINE y == [at |-> "read", stage |-> look[r].stage, company |-> c, copy |-> look[r].copy,
                   mine |-> look[r].mine, found |-> found, category |-> category, collided |-> collided]
  <2>1. y \in LookRecords
    BY <1>3, <1>4 DEF LookRecords
  <2>2. look' = [look EXCEPT ![r] = y] /\ y.at = "read" /\ y.stage = look[r].stage /\ y.copy = look[r].copy
    BY <1>4
  <2> HIDE DEF y
  <2> QED BY <2>1, <2>2
<1>6. look'[r] = y /\ \A p \in Lookers \ {r} : look'[p] = look[p]
  BY <1>1, <1>5 DEF RegistryTypes
<1>7. LooksHold'
  BY <1>1, <1>5, <1>6 DEF LooksHold
<1>8. RegistryTypes'
  BY <1>1, <1>5 DEF RegistryTypes
<1>9. RegistryHolds'
  BY <1>1, NoRowIsWritten
<1> QED BY <1>7, <1>8, <1>9 DEF RegistryInv

LEMMA AskKeepsInv ==
  ASSUME RegistryInv, NEW r \in Lookers, AskHolder(r)
  PROVE  RegistryInv'
<1>1. /\ RegistryTypes /\ LooksHold /\ RegistryHolds /\ look[r].at = "read" /\ look[r].at # "idle"
  BY DEF RegistryInv, AskHolder
<1>2. look[r] \in LookRecords
  BY <1>1, ActiveLook
<1>3. CASE Unresolved(r)
  BY <1>1, <1>3, UnresolvedKeepsInv
<1>4. CASE Occupied(r, look[r].copy)
  <2>1. PICK had \in Entries : had = look[r].copy
    BY <1>2 DEF LookRecords
  <2>2. Occupied(r, had)
    BY <1>4, <2>1
  <2> QED BY <1>1, <2>1, <2>2, OccupiedKeepsInv
<1>5. CASE /\ look[r].found # NoBoard /\ look' = [look EXCEPT ![r].at = "asked"]
           /\ UNCHANGED <<entry, note, listing, crossed, curated>>
  <2>1. PICK y \in LookRecords : /\ y = [look[r] EXCEPT !.at = "asked"] /\ y.at = "asked"
                                 /\ y.stage = look[r].stage /\ y.copy = look[r].copy /\ y.found = look[r].found
    <3> DEFINE z == [look[r] EXCEPT !.at = "asked"]
    <3>1. z \in LookRecords
      BY <1>2 DEF LookRecords
    <3>2. z.at = "asked" /\ z.stage = look[r].stage /\ z.copy = look[r].copy /\ z.found = look[r].found
      BY <1>2 DEF LookRecords
    <3>3. z = [look[r] EXCEPT !.at = "asked"]
      OBVIOUS
    <3> HIDE DEF z
    <3> QED BY <3>1, <3>2, <3>3
  <2>2. look'[r] = y /\ (\A p \in Lookers \ {r} : look'[p] = look[p])
        /\ look' \in [Lookers -> LookRecords \cup {AtRest}]
    BY <1>1, <1>5, <2>1 DEF RegistryTypes
  <2>3. LooksHold'
    BY <1>1, <1>5, <2>1, <2>2 DEF LooksHold
  <2>4. RegistryTypes'
    BY <1>1, <1>5, <2>2 DEF RegistryTypes
  <2>5. RegistryHolds'
    BY <1>1, <1>5, NoRowIsWritten
  <2> QED BY <2>3, <2>4, <2>5 DEF RegistryInv
<1> QED BY <1>3, <1>4, <1>5 DEF AskHolder

LEMMA BeginsKeepInv ==
  ASSUME RegistryInv, NEW r \in Lookers, NEW c \in Registered,
         BeginDiscovery(r, c) \/ \E s \in Stages : BeginDive(r, c, s)
  PROVE  RegistryInv'
<1>1. /\ RegistryTypes /\ LooksHold /\ RegistryHolds
      /\ UNCHANGED <<entry, listing, crossed, curated>>
  BY DEF RegistryInv, BeginDiscovery, BeginDive
<1>2. ASSUME NEW s \in Stages \cup {"none"}, NEW k \in Categories \cup {"none"},
             s \in {"discovery", "none"} => entry[c].status # "verified",
             look' = [look EXCEPT ![r] = LookBegun(c, s, k)], UNCHANGED note
      PROVE  RegistryInv'
  <2>1. PICK y \in LookRecords : y = LookBegun(c, s, k) /\ y.at = "begun" /\ y.stage = s /\ y.copy = entry[c]
    <3>1. entry[c] \in Entries
      BY <1>1 DEF RegistryTypes
    <3>2. LookBegun(c, s, k) \in LookRecords
      BY <1>2, <3>1 DEF LookBegun, LookRecords
    <3> QED BY <3>2 DEF LookBegun
  <2>2. look'[r] = y /\ (\A p \in Lookers \ {r} : look'[p] = look[p])
        /\ look' \in [Lookers -> LookRecords \cup {AtRest}]
    BY <1>1, <1>2, <2>1 DEF RegistryTypes
  <2>3. LooksHold'
    BY <1>1, <1>2, <2>1, <2>2 DEF LooksHold
  <2>4. RegistryTypes'
    BY <1>1, <1>2, <2>2 DEF RegistryTypes
  <2>5. RegistryHolds'
    BY <1>1, <1>2, NoRowIsWritten
  <2> QED BY <2>3, <2>4, <2>5 DEF RegistryInv
<1>3. CASE BeginDiscovery(r, c)
  <2>1. CASE entry[c].status = "verified"
    <3>1. UNCHANGED <<entry, note, look, listing, crossed, curated>>
      BY <1>3, <2>1 DEF BeginDiscovery
    <3> QED BY <1>1, <3>1, NoRowIsWritten DEF RegistryInv, RegistryTypes, LooksHold
  <2>2. CASE entry[c].status # "verified"
    <3>1. look' = [look EXCEPT ![r] = LookBegun(c, "none", "none")] /\ UNCHANGED note
      BY <1>3, <2>2 DEF BeginDiscovery
    <3> QED BY <1>2, <2>2, <3>1
  <2> QED BY <2>1, <2>2
<1>4. ASSUME NEW s \in Stages, BeginDive(r, c, s) PROVE RegistryInv'
  <2>1. CASE s = "discovery" /\ entry[c].status = "verified"
    <3>1. note' = [note EXCEPT ![c][s] = NoNote] /\ look' = Disowned(c, s)
      BY <1>4, <2>1 DEF BeginDive
    <3>2. NoNote \in NoteRecords /\ NoNote.state # "needs_owner"
      BY DEF NoNote, NoteRecords
    <3>3. /\ note' \in [Registered -> [Stages -> NoteRecords]] /\ note'[c]["discovery"] = NoNote
          /\ \A d \in Registered \ {c} : note'[d] = note[d]
      BY <1>1, <2>1, <3>1, <3>2 DEF RegistryTypes
    <3>4. look' \in [Lookers -> LookRecords \cup {AtRest}] /\ LooksHold'
      BY <1>1, <1>4, <3>1, DisownedLooks DEF LooksHold
    <3>5. RegistryTypes'
      BY <1>1, <3>3, <3>4 DEF RegistryTypes
    <3>6. RegistryHolds'
      BY <1>1, <3>2, <3>3, NoRowIsWritten
    <3> QED BY <3>4, <3>5, <3>6 DEF RegistryInv
  <2>2. CASE ~(s = "discovery" /\ entry[c].status = "verified")
    <3>1. look' = [look EXCEPT ![r] = LookBegun(c, s, note[c][s].category)] /\ UNCHANGED note
      BY <1>4, <2>2 DEF BeginDive
    <3>2. note[c][s] \in NoteRecords
      BY <1>1 DEF RegistryTypes
    <3>3. PICK k \in Categories \cup {"none"} : k = note[c][s].category
      BY <3>2 DEF NoteRecords
    <3>4. s # "none"
      BY DEF Stages
    <3>5. look' = [look EXCEPT ![r] = LookBegun(c, s, k)]
      BY <3>1, <3>3 DEF LookBegun
    <3> QED BY <1>2, <2>2, <3>1, <3>4, <3>5
  <2> QED BY <2>1, <2>2
<1> QED BY <1>3, <1>4

LEMMA LoseKeepsInv ==
  ASSUME RegistryInv, NEW r \in Lookers, LoseExecution(r)
  PROVE  RegistryInv'
<1>1. /\ RegistryTypes /\ LooksHold /\ RegistryHolds /\ look' = [look EXCEPT ![r] = AtRest]
      /\ UNCHANGED <<entry, note, listing, crossed, curated>>
  BY DEF RegistryInv, LoseExecution
<1>2. look'[r] = AtRest /\ (\A p \in Lookers \ {r} : look'[p] = look[p])
      /\ look' \in [Lookers -> LookRecords \cup {AtRest}]
  BY <1>1 DEF RegistryTypes
<1>3. LooksHold'
  BY <1>1, <1>2 DEF LooksHold, AtRest
<1> QED BY <1>1, <1>2, <1>3, NoRowIsWritten DEF RegistryInv, RegistryTypes

\* The rows the owner writes.
LEMMA OwnerKeepsInv ==
  ASSUME RegistryInv, NEW c \in Registered,
         RegisterCandidate(c) \/ SyncSeed(c) \/ RetireSeed(c)
  PROVE  RegistryInv'
<1>1. /\ RegistryTypes /\ LooksHold /\ RegistryHolds /\ entry[c] \in Entries
      /\ UNCHANGED <<note, look, listing, crossed>>
  BY DEF RegistryInv, RegistryTypes, RegisterCandidate, SyncSeed, RetireSeed
<1>2. LooksHold'
  BY <1>1 DEF LooksHold
<1>3. ASSUME NEW e \in Entries, entry' = [entry EXCEPT ![c] = e], e.status # "verified", UNCHANGED curated
      PROVE  RegistryInv'
  <2>1. RegistryTypes'
    BY <1>1, <1>3 DEF RegistryTypes
  <2>2. RegistryHolds'
    BY <1>1, <1>3, OneRowIsWritten
  <2> QED BY <1>2, <2>1, <2>2 DEF RegistryInv
<1>4. CASE RegisterCandidate(c)
  <2>1. PICK b \in JobBoards \cup {entry[c].board}, z \in {"hint", "no_website"} :
          entry' = [entry EXCEPT ![c] = [entry[c] EXCEPT !.status = z, !.board = b]]
    <3>1. CASE \E b \in JobBoards \cup {entry[c].board} :
                 entry' = [entry EXCEPT ![c] = [entry[c] EXCEPT !.status = "hint", !.board = b]]
      BY <3>1
    <3>2. CASE entry' = [entry EXCEPT ![c] = [entry[c] EXCEPT !.status = "no_website"]]
      <4>1. PICK now \in Entries : now = entry[c]
        BY <1>1
      <4>2. [now EXCEPT !.status = "no_website"] = [now EXCEPT !.status = "no_website", !.board = now.board]
        BY DEF Entries
      <4> QED BY <3>2, <4>1, <4>2
    <3> QED BY <1>4, <3>1, <3>2 DEF RegisterCandidate
  <2>2. PICK e \in Entries : e = [entry[c] EXCEPT !.status = z, !.board = b] /\ e.status = z
    <3>1. PICK now \in Entries : now = entry[c]
      BY <1>1
    <3>2. b \in JobBoards \cup {NoBoard} /\ z \in Discoverable \cup {"verified", "no_website"}
      BY <3>1 DEF Entries, Discoverable
    <3>3. /\ [now EXCEPT !.status = z, !.board = b] \in Entries
          /\ [now EXCEPT !.status = z, !.board = b].status = z
      BY <3>1, <3>2 DEF Entries
    <3> QED BY <3>1, <3>3
  <2>3. UNCHANGED curated /\ e.status # "verified"
    BY <1>4, <2>2 DEF RegisterCandidate
  <2> QED BY <1>3, <2>1, <2>2, <2>3
<1>5. CASE RetireSeed(c)
  <2>1. /\ entry' = [entry EXCEPT ![c] = [entry[c] EXCEPT !.status = "failed", !.board = NoBoard]]
        /\ UNCHANGED curated
    BY <1>5 DEF RetireSeed
  <2>2. PICK e \in Entries : e = [entry[c] EXCEPT !.status = "failed", !.board = NoBoard] /\ e.status = "failed"
    <3>1. "failed" \in Discoverable \cup {"verified", "no_website"} /\ NoBoard \in JobBoards \cup {NoBoard}
      BY DEF Discoverable
    <3>2. PICK now \in Entries : now = entry[c]
      BY <1>1
    <3>3. PICK e : e = [now EXCEPT !.status = "failed", !.board = NoBoard]
      OBVIOUS
    <3>5. e \in Entries /\ e.status = "failed" /\ e.board = NoBoard
      <4>1. "failed" \in Discoverable \cup {"verified", "no_website"} /\ NoBoard \in JobBoards \cup {NoBoard}
        BY DEF Discoverable
      <4>2. [now EXCEPT !.status = "failed", !.board = NoBoard] \in Entries
        BY <4>1, <3>2 DEF Entries
      <4>3. /\ [now EXCEPT !.status = "failed", !.board = NoBoard].status = "failed"
            /\ [now EXCEPT !.status = "failed", !.board = NoBoard].board = NoBoard
        BY <4>1, <3>2 DEF Entries
      <4> QED BY <4>2, <4>3, <3>3
    <3> QED BY <3>2, <3>3, <3>5
  <2> QED BY <1>3, <2>1, <2>2
<1>6. CASE SyncSeed(c)
  <2>1. PICK b \in JobBoards : entry' = TakeBoard(c, b) /\ curated' = curated \cup {c}
    BY <1>6 DEF SyncSeed
  <2>2. b # NoBoard
    BY RegistryAssumption
  <2>3. [status |-> "failed", board |-> NoBoard, resting |-> TRUE] \in Entries
    BY DEF Entries, Discoverable
  <2>4. PICK e \in Entries : /\ e = [entry[c] EXCEPT !.status = "verified", !.board = b]
                             /\ e.status = "verified" /\ e.board = b
    <3>1. PICK now \in Entries : now = entry[c]
      BY <1>1
    <3>2. PICK e : e = [now EXCEPT !.status = "verified", !.board = b]
      OBVIOUS
    <3>5. e \in Entries /\ e.status = "verified" /\ e.board = b
      <4>1. "verified" \in Discoverable \cup {"verified", "no_website"} /\ b \in JobBoards \cup {NoBoard}
        BY DEF Discoverable
      <4>2. [now EXCEPT !.status = "verified", !.board = b] \in Entries
        BY <4>1, <3>1 DEF Entries
      <4>3. /\ [now EXCEPT !.status = "verified", !.board = b].status = "verified"
            /\ [now EXCEPT !.status = "verified", !.board = b].board = b
        BY <4>1, <3>1 DEF Entries
      <4> QED BY <4>2, <4>3, <3>2
    <3> QED BY <3>1, <3>2, <3>5
  <2>5. /\ entry'[c] = e /\ entry' \in [Registered -> Entries]
        /\ \A h \in HoldersOf(b, c) : entry'[h].status = "failed"
        /\ \A h \in Registered \ {c} : h \notin HoldersOf(b, c) => entry'[h] = entry[h]
    BY <1>1, <2>1, <2>3, <2>4 DEF TakeBoard, RegistryTypes, HoldersOf
  <2>6. RegistryTypes'
    BY <1>1, <2>5 DEF RegistryTypes
  <2>7. OneBoardOneRow'
    <3> SUFFICES ASSUME NEW d \in Registered, NEW h \in Registered, h # d,
                        entry'[d].status = "verified", entry'[d].board # NoBoard,
                        entry'[h].status = "verified", entry'[h].board = entry'[d].board
                 PROVE  FALSE
      BY DEF OneBoardOneRow, Fetchable, HoldersOf
    <3>1. \A z \in Registered \ {c} : entry'[z].status = "verified"
            => entry'[z] = entry[z] /\ entry'[z].board # b
      BY <2>5 DEF HoldersOf
    <3>2. CASE d # c /\ h # c
      BY <1>1, <3>1, <3>2 DEF RegistryHolds, OneBoardOneRow, Fetchable, HoldersOf
    <3>3. CASE d = c
      BY <2>4, <2>5, <3>1, <3>3
    <3>4. CASE h = c
      BY <2>4, <2>5, <3>1, <3>4
    <3> QED BY <3>2, <3>3, <3>4
  <2>8. InOneSchedule'
    <3> SUFFICES ASSUME NEW d \in Registered \ crossed
                 PROVE  \/ entry'[d].status = "verified" /\ entry'[d].board # NoBoard
                        \/ entry'[d].status \in Discoverable \/ entry'[d].status = "no_website"
      BY <1>1 DEF InOneSchedule, Fetchable
    <3>1. CASE d = c
      BY <2>2, <2>4, <2>5, <3>1
    <3>2. CASE d \in HoldersOf(b, c)
      BY <2>5, <3>2 DEF Discoverable
    <3>3. CASE d # c /\ d \notin HoldersOf(b, c)
      BY <1>1, <2>5, <3>3 DEF RegistryHolds, InOneSchedule, Fetchable
    <3> QED BY <3>1, <3>2, <3>3
  <2>9. VerifiedIsNotOwned'
    BY <1>1, <2>1, <2>5 DEF RegistryHolds, VerifiedIsNotOwned, Fetchable
  <2> QED BY <1>2, <2>6, <2>7, <2>8, <2>9 DEF RegistryInv, RegistryHolds
<1> QED BY <1>4, <1>5, <1>6

LEMMA FailuresAreCategories == \A b : CrawlFailures(b) \subseteq Categories
BY RegistryAssumption DEF CrawlFailures, Categories

LEMMA RecordKeepsInv ==
  ASSUME RegistryInv, NEW c \in Registered, RecordAttempt(c)
  PROVE  RegistryInv'
<1>1. /\ RegistryTypes /\ LooksHold /\ RegistryHolds /\ "crawl" \in Stages
      /\ UNCHANGED <<entry, listing, crossed, curated>>
  BY DEF RegistryInv, RecordAttempt, RecordAnswer, RecordFailure, Stages
<1>2. look' = look \/ look' = Disowned(c, "crawl")
  BY DEF RecordAttempt, RecordAnswer, RecordFailure
<1>3. PICK n \in NoteRecords : note' = note \/ note' = [note EXCEPT ![c]["crawl"] = n]
  <2>1. NoNote \in NoteRecords /\ note[c]["crawl"] \in NoteRecords
    BY <1>1 DEF RegistryTypes, NoNote, NoteRecords
  <2>2. \A category \in CrawlFailures(entry[c].board) : Noted(note[c]["crawl"], category) \in NoteRecords
    BY <2>1, FailuresAreCategories, NotedIsNote
  <2>3. CASE RecordAnswer(c)
    BY <2>1, <2>3 DEF RecordAnswer
  <2>4. CASE RecordFailure(c)
    BY <2>1, <2>2, <2>4 DEF RecordFailure, NoteCompany
  <2> QED BY <2>3, <2>4 DEF RecordAttempt
<1>4. look' \in [Lookers -> LookRecords \cup {AtRest}] /\ LooksHold'
  <2>1. CASE look' = look
    BY <1>1, <2>1 DEF RegistryTypes, LooksHold
  <2>2. CASE look' = Disowned(c, "crawl")
    BY <1>1, <2>2, DisownedLooks DEF LooksHold
  <2> QED BY <1>2, <2>1, <2>2
<1>5. /\ note' \in [Registered -> [Stages -> NoteRecords]]
      /\ \A d \in Registered : note'[d]["discovery"] = note[d]["discovery"]
  <2>1. CASE note' = note
    BY <1>1, <2>1 DEF RegistryTypes
  <2>2. CASE note' = [note EXCEPT ![c]["crawl"] = n]
    <3>1. note' \in [Registered -> [Stages -> NoteRecords]]
      BY <1>1, <1>3, <2>2 DEF RegistryTypes
    <3>2. "discovery" \in Stages /\ "discovery" # "crawl"
      BY DEF Stages
    <3> QED BY <1>1, <2>2, <3>1, <3>2 DEF RegistryTypes
  <2> QED BY <1>3, <2>1, <2>2
<1>6. RegistryTypes'
  BY <1>1, <1>4, <1>5 DEF RegistryTypes
<1>7. RegistryHolds'
  BY <1>1, <1>5, NoRowIsWritten
<1> QED BY <1>4, <1>6, <1>7 DEF RegistryInv

LEMMA TicksKeepInv ==
  ASSUME RegistryInv, StartDeepDives \/ (\E c \in Registered : DispatchDiscovery(c) \/ RestOver(c))
                      \/ OutsideChanges \/ OtherWorkComes \/ OtherWorkDone
  PROVE  RegistryInv'
<1>1. /\ RegistryTypes /\ LooksHold /\ RegistryHolds /\ UNCHANGED <<look, crossed, curated>>
  BY DEF RegistryInv, StartDeepDives, DispatchDiscovery, RestOver, OutsideChanges, OtherWorkComes,
    OtherWorkDone
<1>2. LooksHold'
  BY <1>1 DEF LooksHold
<1>3. CASE StartDeepDives
  <2>1. /\ UNCHANGED <<entry, listing>>
        /\ note' = [c \in Registered |-> [s \in Stages |->
             IF OwedADive(c, s) THEN [note[c][s] EXCEPT !.state = "queued"] ELSE note[c][s]]]
    BY <1>3 DEF StartDeepDives
  <2>2. \A n \in NoteRecords : /\ [n EXCEPT !.state = "queued"] \in NoteRecords
                               /\ [n EXCEPT !.state = "queued"].state = "queued"
    BY DEF NoteRecords
  <2>3. \A c \in Registered, s \in Stages :
          /\ note'[c][s] \in NoteRecords
          /\ note'[c][s] = note[c][s] \/ note'[c][s].state = "queued"
    BY <1>1, <2>1, <2>2 DEF RegistryTypes
  <2>4. note' \in [Registered -> [Stages -> NoteRecords]]
    BY <2>1, <2>3
  <2>5. RegistryTypes'
    BY <1>1, <2>1, <2>4 DEF RegistryTypes
  <2>6. "discovery" \in Stages
    BY DEF Stages
  <2>7. RegistryHolds'
    BY <1>1, <2>1, <2>3, <2>6, NoRowIsWritten
  <2> QED BY <1>2, <2>5, <2>7 DEF RegistryInv
<1>4. ASSUME NEW c \in Registered, DispatchDiscovery(c) \/ RestOver(c) PROVE RegistryInv'
  <2>1. PICK b \in BOOLEAN : /\ entry' = [entry EXCEPT ![c] = [entry[c] EXCEPT !.resting = b]]
                             /\ UNCHANGED <<note, listing>>
    BY <1>4 DEF DispatchDiscovery, RestOver
  <2>2. \A e \in Entries : /\ [e EXCEPT !.resting = b] \in Entries
                           /\ [e EXCEPT !.resting = b].status = e.status
                           /\ [e EXCEPT !.resting = b].board = e.board
    BY DEF Entries
  <2>3. /\ entry' \in [Registered -> Entries]
        /\ \A d \in Registered : entry'[d].status = entry[d].status /\ entry'[d].board = entry[d].board
    BY <1>1, <2>1, <2>2 DEF RegistryTypes
  <2>4. RegistryTypes'
    BY <1>1, <2>1, <2>3 DEF RegistryTypes
  <2>5. RegistryHolds'
    BY <1>1, <2>1, <2>3, NoRowIsWritten
  <2> QED BY <1>2, <2>4, <2>5 DEF RegistryInv
<1>5. CASE OutsideChanges
  <2>1. UNCHANGED <<entry, note>> /\ listing' \subseteq JobBoards
    BY <1>1, <1>5 DEF OutsideChanges, RegistryTypes
  <2>2. RegistryTypes'
    BY <1>1, <2>1 DEF RegistryTypes
  <2>3. RegistryHolds'
    BY <1>1, <2>1, NoRowIsWritten
  <2> QED BY <1>2, <2>2, <2>3 DEF RegistryInv
<1>6. CASE OtherWorkComes \/ OtherWorkDone
  <2>1. UNCHANGED <<entry, note, listing>>
    BY <1>6 DEF OtherWorkComes, OtherWorkDone
  <2>2. RegistryTypes'
    BY <1>1, <2>1 DEF RegistryTypes
  <2>3. RegistryHolds'
    BY <1>1, <2>1, NoRowIsWritten
  <2> QED BY <1>2, <2>2, <2>3 DEF RegistryInv
<1> QED BY <1>3, <1>4, <1>5, <1>6

LEMMA RegistryStepKeepsInv ==
  ASSUME RegistryInv, [RegistryNext]_registryVars
  PROVE  RegistryInv'
<1>1. CASE UNCHANGED registryVars
  BY <1>1 DEF registryVars, RegistryInv, RegistryTypes, LooksHold, RegistryHolds, OneBoardOneRow,
    InOneSchedule, VerifiedIsNotOwned, Fetchable, HoldersOf
<1>2. ASSUME NEW r \in Lookers, LookStep(r) \/ LoseExecution(r) PROVE RegistryInv'
  BY <1>2, BeginsKeepInv, ReadKeepsInv, AskKeepsInv, WriteKeepsInv, LoseKeepsInv DEF LookStep
<1>3. ASSUME NEW c \in Registered, RegisterCandidate(c) \/ SyncSeed(c) \/ RetireSeed(c) \/ RecordAttempt(c)
      PROVE  RegistryInv'
  BY <1>3, OwnerKeepsInv, RecordKeepsInv
<1> QED BY <1>1, <1>2, <1>3, TicksKeepInv DEF RegistryNext

LEMMA RegistryBegins ==
  ASSUME RegistryInit
  PROVE  RegistryInv
<1>1. \A c \in Registered : /\ entry[c] \in Entries /\ entry[c].status = "hint"
                            /\ \A s \in Stages : note[c][s] = NoNote
  BY DEF RegistryInit, Entries, Discoverable
<1>2. NoNote \in NoteRecords /\ NoNote.state # "needs_owner" /\ AtRest.at = "idle" /\ "discovery" \in Stages
  BY DEF NoNote, NoteRecords, AtRest, Stages
<1>3. RegistryTypes
  BY <1>1, <1>2 DEF RegistryInit, RegistryTypes
<1>4. LooksHold
  BY <1>2 DEF RegistryInit, LooksHold
<1>5. RegistryHolds
  BY <1>1 DEF RegistryHolds, OneBoardOneRow, InOneSchedule, VerifiedIsNotOwned, Fetchable,
    HoldersOf, Discoverable
<1> QED BY <1>3, <1>4, <1>5 DEF RegistryInv

\* Whichever discoveries, dives, imports and crawls cross: a board is polled for
\* one company, a company is in one of the two schedules or was registered
\* without a website, and one whose board is known is not handed to the owner
\* for want of it.
THEOREM RegistryIsHeld == RegistrySpec => []RegistryHolds
<1>1. RegistryInit => RegistryInv
  BY RegistryBegins
<1>2. RegistryInv /\ [RegistryNext]_registryVars => RegistryInv'
  BY RegistryStepKeepsInv
<1>3. RegistryInv => RegistryHolds
  BY DEF RegistryInv
<1> QED BY <1>1, <1>2, <1>3, PTL DEF RegistrySpec
-----------------------------------------------------------------------------
(* Notes and the dives for them.  A dive that finds nothing writes the kind *)
(* of failure it was begun with where its note was fixed under it, so that  *)
(* a note always has a kind because a dive is only ever begun for one.      *)

HasNote(r, c, s) ==
  look[r].at # "idle" /\ look[r].company = c /\ look[r].stage = s /\ look[r].mine

\* A dive that waits or runs is for a queued note, and one execution has it.
DiveHolds(c, s) ==
  /\ owesDive[c][s] # "none" => note[c][s].state = "queued"
  /\ \A r \in Lookers : HasNote(r, c, s) => owesDive[c][s] = "running"
  /\ \A q, r \in Lookers : HasNote(q, c, s) /\ HasNote(r, c, s) => q = r

\* What an execution would write into a note is a kind of failure.
KnowsCategory(r) ==
  look[r].at # "idle" /\ ~(look[r].at = "begun" /\ look[r].stage = "none")
    => look[r].category \in Categories

DiveInv ==
  /\ note \in [Registered -> [Stages -> Notes]]
  /\ owesDive \in [Registered -> [Stages -> TaskStates]]
  /\ \A c \in Registered, s \in Stages : DiveHolds(c, s)
  /\ \A r \in Lookers : KnowsCategory(r)

\* Nothing begins at a note: what it was to its dive it is still.
LEMMA DiveStays ==
  ASSUME NEW c \in Registered, NEW s \in Stages, DiveHolds(c, s),
         owesDive'[c][s] = owesDive[c][s], note[c][s].state = "queued" => note'[c][s].state = "queued",
         \A r \in Lookers : HasNote(r, c, s)' => HasNote(r, c, s)
  PROVE  DiveHolds(c, s)'
BY DEF DiveHolds

\* Nobody has it any more.
LEMMA DiveIsOver ==
  ASSUME NEW c \in Registered, NEW s \in Stages,
         owesDive'[c][s] # "none" => note'[c][s].state = "queued",
         \A r \in Lookers : ~HasNote(r, c, s)'
  PROVE  DiveHolds(c, s)'
BY DEF DiveHolds

LEMMA NotesAreKinds ==
  /\ \A n \in Notes : n # NoNote => n.category \in Categories
  /\ \A n \in Notes : n.state = "queued" => n # NoNote
  /\ NoNote \in Notes /\ NoNote.state = "none"
  /\ \A k \in Categories : [state |-> "needs_owner", category |-> k] \in Notes
  /\ \A n \in Notes, k \in Categories :
       Noted(n, k) \in Notes /\ (n.state = "queued" => Noted(n, k).state = "queued")
BY DEF Notes, NoNote, Noted

\* Dropping the dive of a note that there is not drops nothing.
LEMMA DroppedIsNone ==
  ASSUME DiveInv, NEW c \in Registered, NEW s \in Stages
  PROVE  DropDive(owesDive, c, s) = [owesDive EXCEPT ![c][s] = "none"]
<1>1. CASE Resolving(c, s)
  BY <1>1 DEF DropDive
<1>2. CASE ~Resolving(c, s)
  <2>1. owesDive[c][s] = "none"
    BY <1>2, NotesAreKinds DEF DiveInv, DiveHolds, Resolving
  <2>2. owesDive = [owesDive EXCEPT ![c][s] = "none"]
    BY <2>1 DEF DiveInv
  <2> QED BY <1>2, <2>2 DEF DropDive
<1> QED BY <1>1, <1>2

\* Where a note is fixed, no execution has it afterwards.
LEMMA DisownedHasNone ==
  ASSUME RegistryTypes, DiveInv, NEW c \in Registered, NEW s \in Stages
  PROVE  \A r \in Lookers :
           LET x == Disowned(c, s)[r] IN
           /\ x.at = look[r].at
           /\ x.at # "idle" => /\ x.company = look[r].company /\ x.stage = look[r].stage
                               /\ x.category = look[r].category
                               /\ x.mine => look[r].mine /\ ~HasNote(r, c, s)
<1> SUFFICES ASSUME NEW r \in Lookers
             PROVE  LET x == Disowned(c, s)[r] IN
                    /\ x.at = look[r].at
                    /\ x.at # "idle" => /\ x.company = look[r].company /\ x.stage = look[r].stage
                                        /\ x.category = look[r].category
                                        /\ x.mine => look[r].mine /\ ~HasNote(r, c, s)
  OBVIOUS
<1>1. CASE Resolving(c, s) /\ look[r].at # "idle" /\ look[r].company = c /\ look[r].stage = s
  <2>1. look[r] \in LookRecords
    BY <1>1, ActiveLook
  <2>2. Disowned(c, s)[r] = [look[r] EXCEPT !.mine = FALSE]
    BY <1>1 DEF Disowned
  <2> QED BY <2>1, <2>2 DEF LookRecords
<1>2. CASE ~(Resolving(c, s) /\ look[r].at # "idle" /\ look[r].company = c /\ look[r].stage = s)
  <2>1. Disowned(c, s)[r] = look[r]
    BY <1>2 DEF Disowned
  <2>2. ~HasNote(r, c, s)
    BY <1>2, NotesAreKinds DEF DiveInv, DiveHolds, HasNote, Resolving
  <2> QED BY <2>1, <2>2
<1> QED BY <1>1, <1>2

\* However an execution ends it has no note, nor has anybody the one it fixed.
LEMMA EndedHasNone ==
  ASSUME RegistryTypes, DiveInv, NEW r \in Lookers, look[r].at # "idle", NEW b \in BOOLEAN, EndLook(r, b)
  PROVE  /\ \A q \in Lookers, c \in Registered, s \in Stages :
              HasNote(q, c, s)' => /\ HasNote(q, c, s) /\ q # r
                                   /\ ~(b /\ c = look[r].company /\ s = "discovery")
         /\ \A q \in Lookers : KnowsCategory(q)'
<1>1. look[r].company \in Registered /\ "discovery" \in Stages
  BY ActiveLook DEF LookRecords, Stages
<1>2. PICK held : held = Disowned(look[r].company, "discovery")
  OBVIOUS
<1>3. \A q \in Lookers :
        /\ held[q].at = look[q].at
        /\ held[q].at # "idle" => /\ held[q].company = look[q].company /\ held[q].stage = look[q].stage
                                  /\ held[q].category = look[q].category
                                  /\ held[q].mine => look[q].mine /\ ~HasNote(q, look[r].company, "discovery")
  BY <1>1, <1>2, DisownedHasNone
<1>4. held \in [Lookers -> LookRecords \cup {AtRest}]
  BY <1>1, <1>2, DisownedLooks
<1>5. look' = [IF b THEN held ELSE look EXCEPT ![r] = AtRest]
  BY <1>2 DEF EndLook
<1>6. /\ look'[r] = AtRest /\ AtRest.at = "idle"
      /\ \A q \in Lookers \ {r} : look'[q] = IF b THEN held[q] ELSE look[q]
  BY <1>4, <1>5 DEF RegistryTypes, AtRest
<1>7. ASSUME NEW q \in Lookers, NEW c \in Registered, NEW s \in Stages, HasNote(q, c, s)'
      PROVE  HasNote(q, c, s) /\ q # r /\ ~(b /\ c = look[r].company /\ s = "discovery")
  <2>1. q # r /\ look'[q] = IF b THEN held[q] ELSE look[q]
    BY <1>6, <1>7 DEF HasNote
  <2>2. CASE b
    BY <1>3, <1>7, <2>1, <2>2 DEF HasNote
  <2>3. CASE ~b
    BY <1>7, <2>1, <2>3 DEF HasNote
  <2> QED BY <2>2, <2>3
<1>8. ASSUME NEW q \in Lookers PROVE KnowsCategory(q)'
  <2>1. KnowsCategory(q)
    BY DEF DiveInv
  <2>2. CASE q = r
    BY <1>6, <2>2 DEF KnowsCategory
  <2>3. CASE q # r /\ b
    BY <1>3, <1>6, <2>1, <2>3 DEF KnowsCategory
  <2>4. CASE q # r /\ ~b
    BY <1>6, <2>1, <2>4 DEF KnowsCategory
  <2> QED BY <2>2, <2>3, <2>4
<1> QED BY <1>7, <1>8
\* How a dive's note is answered: its dive is over, or the note was fixed and
\* there was none.
LEMMA AnsweredIsNote ==
  ASSUME RegistryTypes, DiveInv, NEW r \in Lookers, look[r].at # "idle",
         NEW notes \in [Registered -> [Stages -> Notes]], NEW answer \in {"fixed", "needs_owner"},
         answer = "fixed" \/ ~Clashes(r, notes)
  PROVE  /\ Answered(r, notes, answer) \in [Registered -> [Stages -> Notes]]
         /\ \A c \in Registered, s \in Stages :
              \/ Answered(r, notes, answer)[c][s] = notes[c][s]
              \/ HasNote(r, c, s)
              \/ notes[c][s] = NoNote
<1>1. /\ look[r].stage \in Stages \cup {"none"} /\ look[r].company \in Registered
      /\ look[r].mine \in BOOLEAN /\ "none" \notin Stages
  BY ActiveLook DEF LookRecords, Stages
<1>2. CASE look[r].stage = "none" \/ (answer = "fixed" /\ ~look[r].mine)
  BY <1>2 DEF Answered
<1>3. CASE look[r].stage \in Stages /\ ~(answer = "fixed" /\ ~look[r].mine)
  <2> PICK c \in Registered : c = look[r].company
    BY <1>1
  <2> PICK s \in Stages : s = look[r].stage
    BY <1>3
  <2> DEFINE said == [state |-> answer,
                      category |-> IF notes[c][s] = NoNote THEN look[r].category ELSE notes[c][s].category]
  <2>1. look[r].category \in Categories
    BY <1>1 DEF DiveInv, KnowsCategory
  <2>2. notes[c][s] \in Notes
    OBVIOUS
  <2>3. answer = "needs_owner" => said \in Notes
    <3>1. PICK k \in Categories : k = IF notes[c][s] = NoNote THEN look[r].category ELSE notes[c][s].category
      BY <2>1, <2>2, NotesAreKinds
    <3>2. said = [state |-> answer, category |-> k]
      BY <3>1
    <3> HIDE DEF said
    <3> QED BY <3>2, NotesAreKinds
  <2>4. PICK n \in Notes : n = IF answer = "fixed" THEN NoNote ELSE said
    BY <2>3, NotesAreKinds
  <2>5. Answered(r, notes, answer) = [notes EXCEPT ![c][s] = n]
    BY <1>1, <1>3, <2>4 DEF Answered
  <2> HIDE DEF said
  <2>6. Answered(r, notes, answer) \in [Registered -> [Stages -> Notes]]
        /\ \A d \in Registered, z \in Stages :
             ~(d = c /\ z = s) => Answered(r, notes, answer)[d][z] = notes[d][z]
    BY <2>5
  <2>7. HasNote(r, c, s) \/ notes[c][s] = NoNote
    BY <1>1, <1>3 DEF HasNote, Clashes
  <2> QED BY <2>6, <2>7
<1> QED BY <1>1, <1>2, <1>3

\* The dives that are left when one is over, and one is dropped.
LEMMA DivesLeft ==
  ASSUME RegistryTypes, DiveInv, NEW r \in Lookers, look[r].at # "idle", NEW b \in BOOLEAN,
         owesDive' = DiveDone(r, IF b THEN DropDive(owesDive, look[r].company, "discovery") ELSE owesDive)
  PROVE  /\ owesDive' \in [Registered -> [Stages -> TaskStates]]
         /\ \A c \in Registered, s \in Stages :
              owesDive'[c][s] = IF HasNote(r, c, s) \/ (b /\ c = look[r].company /\ s = "discovery")
                                  THEN "none" ELSE owesDive[c][s]
<1>1. /\ look[r].stage \in Stages \cup {"none"} /\ look[r].company \in Registered
      /\ look[r].mine \in BOOLEAN /\ "none" \notin Stages /\ "discovery" \in Stages /\ "none" \in TaskStates
  BY ActiveLook DEF LookRecords, Stages, TaskStates
<1> PICK c \in Registered : c = look[r].company
  BY <1>1
<1>2. PICK kept : kept = IF b THEN DropDive(owesDive, c, "discovery") ELSE owesDive
  OBVIOUS
<1>3. kept = IF b THEN [owesDive EXCEPT ![c]["discovery"] = "none"] ELSE owesDive
  BY <1>1, <1>2, DroppedIsNone
<1>4. /\ kept \in [Registered -> [Stages -> TaskStates]]
      /\ \A d \in Registered, s \in Stages :
           kept[d][s] = IF b /\ d = c /\ s = "discovery" THEN "none" ELSE owesDive[d][s]
  BY <1>1, <1>3 DEF DiveInv
<1>5. owesDive' = DiveDone(r, kept)
  BY <1>2
<1>6. CASE look[r].stage = "none" \/ ~look[r].mine
  <2>1. owesDive' = kept
    BY <1>5, <1>6 DEF DiveDone
  <2>2. \A d \in Registered, s \in Stages : ~HasNote(r, d, s)
    BY <1>1, <1>6 DEF HasNote
  <2> QED BY <1>4, <2>1, <2>2
<1>7. CASE look[r].stage # "none" /\ look[r].mine
  <2> PICK s \in Stages : s = look[r].stage
    BY <1>1, <1>7
  <2>1. owesDive' = [kept EXCEPT ![c][s] = "none"]
    BY <1>5, <1>7 DEF DiveDone
  <2>2. \A d \in Registered, z \in Stages : HasNote(r, d, z) <=> d = c /\ z = s
    BY <1>7 DEF HasNote
  <2>3. owesDive' \in [Registered -> [Stages -> TaskStates]]
    BY <1>1, <1>4, <2>1
  <2>4. \A d \in Registered, z \in Stages :
          owesDive'[d][z] = IF d = c /\ z = s THEN "none" ELSE kept[d][z]
    BY <1>1, <1>4, <2>1
  <2> QED BY <1>4, <2>2, <2>3, <2>4
<1> QED BY <1>6, <1>7

\* An execution ends, with an answer for the owner or with its note fixed.
LEMMA EndingKeepsDives ==
  ASSUME RegistryTypes, DiveInv, NEW r \in Lookers, look[r].at # "idle", NEW b \in BOOLEAN, EndLook(r, b),
         NEW notes \in [Registered -> [Stages -> Notes]], NEW answer \in {"fixed", "needs_owner"},
         answer = "fixed" \/ ~Clashes(r, notes),
         \A c \in Registered, s \in Stages :
           \/ b /\ c = look[r].company /\ s = "discovery"
           \/ note[c][s].state = "queued" => notes[c][s].state = "queued",
         note' = Answered(r, notes, answer),
         owesDive' = DiveDone(r, IF b THEN DropDive(owesDive, look[r].company, "discovery") ELSE owesDive)
  PROVE  DiveInv'
<1>1. /\ note' \in [Registered -> [Stages -> Notes]]
      /\ \A c \in Registered, s \in Stages :
           note'[c][s] = notes[c][s] \/ HasNote(r, c, s) \/ notes[c][s] = NoNote
  BY AnsweredIsNote
<1>2. /\ owesDive' \in [Registered -> [Stages -> TaskStates]]
      /\ \A c \in Registered, s \in Stages :
           owesDive'[c][s] = IF HasNote(r, c, s) \/ (b /\ c = look[r].company /\ s = "discovery")
                               THEN "none" ELSE owesDive[c][s]
  BY DivesLeft
<1>3. /\ \A q \in Lookers, c \in Registered, s \in Stages :
           HasNote(q, c, s)' => HasNote(q, c, s) /\ q # r /\ ~(b /\ c = look[r].company /\ s = "discovery")
      /\ \A q \in Lookers : KnowsCategory(q)'
  BY EndedHasNone
<1>4. ASSUME NEW c \in Registered, NEW s \in Stages PROVE DiveHolds(c, s)'
  <2>1. DiveHolds(c, s)
    BY DEF DiveInv
  <2>2. CASE HasNote(r, c, s) \/ (b /\ c = look[r].company /\ s = "discovery")
    <3>1. owesDive'[c][s] = "none"
      BY <1>2, <2>2
    <3>2. \A q \in Lookers : ~HasNote(q, c, s)'
      BY <1>3, <2>1, <2>2 DEF DiveHolds
    <3> QED BY <3>1, <3>2, DiveIsOver
  <2>3. CASE ~(HasNote(r, c, s) \/ (b /\ c = look[r].company /\ s = "discovery"))
    <3>1. owesDive'[c][s] = owesDive[c][s]
      BY <1>2, <2>3
    <3>2. note[c][s].state = "queued" => note'[c][s].state = "queued"
      BY <1>1, <2>3, NotesAreKinds
    <3> QED BY <1>3, <2>1, <3>1, <3>2, DiveStays
  <2> QED BY <2>2, <2>3
<1> QED BY <1>1, <1>2, <1>3, <1>4 DEF DiveInv

\* A transaction that is rolled back writes nothing.
LEMMA RollingBackKeepsDives ==
  ASSUME RegistryTypes, DiveInv, NEW r \in Lookers, look' = [look EXCEPT ![r] = AtRest],
         UNCHANGED <<note, owesDive>>
  PROVE  DiveInv'
<1>1. /\ look'[r] = AtRest /\ AtRest.at = "idle" /\ \A q \in Lookers \ {r} : look'[q] = look[q]
  BY DEF RegistryTypes, AtRest
<1>2. \A q \in Lookers, c \in Registered, s \in Stages : HasNote(q, c, s)' => HasNote(q, c, s)
  BY <1>1 DEF HasNote
<1>3. \A q \in Lookers : KnowsCategory(q)'
  BY <1>1 DEF DiveInv, KnowsCategory
<1>4. \A c \in Registered, s \in Stages : DiveHolds(c, s)'
  BY <1>2, DiveStays DEF DiveInv
<1> QED BY <1>3, <1>4 DEF DiveInv

LEMMA OccupiedKeepsDives ==
  ASSUME RegistryTypes, DiveInv, NEW r \in Lookers, look[r].at # "idle", NEW had, Occupied(r, had)
  PROVE  DiveInv'
<1> PICK c \in Registered : c = look[r].company
  BY ActiveLook DEF LookRecords
<1> PICK b \in BOOLEAN : b = SameCompany(c, look[r].found)
  BY DEF SameCompany
<1> DEFINE noted == [note EXCEPT ![c]["discovery"] = Noted(note[c]["discovery"], "name_collision")]
           closed == [note EXCEPT ![c]["discovery"] = NoNote]
<1>1. "discovery" \in Stages /\ note[c]["discovery"] \in Notes /\ "name_collision" \in Categories
  BY DEF DiveInv, Stages, Categories
<1>2. noted \in [Registered -> [Stages -> Notes]]
      /\ \A d \in Registered, s \in Stages : note[d][s].state = "queued" => noted[d][s].state = "queued"
  <2>1. PICK n \in Notes : /\ n = Noted(note[c]["discovery"], "name_collision")
                           /\ note[c]["discovery"].state = "queued" => n.state = "queued"
    BY <1>1, NotesAreKinds
  <2>2. noted = [note EXCEPT ![c]["discovery"] = n]
    BY <2>1
  <2> HIDE DEF noted
  <2> QED BY <1>1, <2>1, <2>2 DEF DiveInv
<1>3. closed \in [Registered -> [Stages -> Notes]]
      /\ \A d \in Registered, s \in Stages : closed[d][s] = note[d][s] \/ (d = c /\ s = "discovery")
  BY <1>1, NotesAreKinds DEF DiveInv
<1>4. CASE ~b /\ Clashes(r, noted)
  <2>1. RolledBack(r)
    BY <1>4 DEF Occupied
  <2> QED BY <2>1, RollingBackKeepsDives DEF RolledBack
<1>5. CASE ~b /\ ~Clashes(r, noted)
  <2>1. /\ note' = Answered(r, noted, "needs_owner") /\ EndLook(r, FALSE)
        /\ owesDive' = DiveDone(r, owesDive)
    BY <1>5 DEF Occupied
  <2>2. PICK notes : notes = noted
    OBVIOUS
  <2> HIDE DEF noted, closed
  <2> QED BY <1>2, <1>5, <2>1, <2>2, EndingKeepsDives
<1>6. CASE b
  <2>1. /\ note' = Answered(r, closed, "fixed") /\ EndLook(r, TRUE)
        /\ owesDive' = DiveDone(r, DropDive(owesDive, c, "discovery"))
    BY <1>6 DEF Occupied
  <2>2. PICK notes \in [Registered -> [Stages -> Notes]] : notes = closed
    BY <1>3
  <2>3. \A d \in Registered, s \in Stages :
          \/ TRUE /\ d = look[r].company /\ s = "discovery"
          \/ note[d][s].state = "queued" => notes[d][s].state = "queued"
    BY <1>3, <2>2
  <2>4. owesDive' = DiveDone(r, IF TRUE THEN DropDive(owesDive, look[r].company, "discovery") ELSE owesDive)
    BY <2>1
  <2>5. note' = Answered(r, notes, "fixed")
    BY <2>1, <2>2
  <2> HIDE DEF noted, closed
  <2> QED BY <2>1, <2>3, <2>4, <2>5, EndingKeepsDives
<1> QED BY <1>4, <1>5, <1>6

\* Nothing was found, at the first look or at a dive.
LEMMA UnresolvedKeepsDives ==
  ASSUME RegistryTypes, DiveInv, NEW r \in Lookers, look[r].at = "read", Unresolved(r)
  PROVE  DiveInv'
<1> DEFINE kind == IF look[r].collided THEN "name_collision" ELSE look[r].category
<1>1. /\ look[r].at # "idle" /\ look[r].stage \in Stages \cup {"none"} /\ look[r].company \in Registered
      /\ "none" \notin Stages /\ "discovery" \in Stages /\ kind \in Categories
  <2>1. look[r].at # "idle" /\ look[r].category \in Categories /\ "name_collision" \in Categories
    BY DEF DiveInv, KnowsCategory, Categories
  <2> QED BY <2>1, ActiveLook DEF LookRecords, Stages
<1> PICK c \in Registered : c = look[r].company
  BY <1>1
<1>2. CASE Clashes(r, note)
  <2>1. RolledBack(r)
    BY <1>2 DEF Unresolved
  <2> QED BY <2>1, RollingBackKeepsDives DEF RolledBack
<1>3. CASE ~Clashes(r, note)
  <2>1. EndLook(r, FALSE)
    BY <1>3 DEF Unresolved
  <2>2. owesDive' = DiveDone(r, IF FALSE THEN DropDive(owesDive, look[r].company, "discovery") ELSE owesDive)
    BY <1>3 DEF Unresolved
  <2>3. CASE look[r].stage = "none"
    <3>1. PICK notes \in [Registered -> [Stages -> Notes]] :
            /\ notes = note'
            /\ \A d \in Registered, s \in Stages : note[d][s].state = "queued" => notes[d][s].state = "queued"
      <4>1. PICK n \in Notes : /\ n = Noted(note[c]["discovery"], kind)
                               /\ note[c]["discovery"].state = "queued" => n.state = "queued"
        BY <1>1, NotesAreKinds DEF DiveInv
      <4>2. note' = note \/ note' = [note EXCEPT ![c]["discovery"] = n]
        BY <1>3, <2>3, <4>1 DEF Unresolved
      <4> HIDE DEF kind
      <4>3. CASE note' = note
        BY <4>3 DEF DiveInv
      <4>4. CASE note' = [note EXCEPT ![c]["discovery"] = n]
        <5>1. /\ note' \in [Registered -> [Stages -> Notes]]
              /\ \A d \in Registered, s \in Stages :
                   note'[d][s] = note[d][s] \/ (d = c /\ s = "discovery" /\ note'[d][s] = n)
          BY <1>1, <4>4 DEF DiveInv
        <5> QED BY <4>1, <5>1
      <4> QED BY <4>2, <4>3, <4>4
    <3>2. \A d \in Registered, s \in Stages :
            \/ FALSE /\ d = look[r].company /\ s = "discovery"
            \/ note[d][s].state = "queued" => notes[d][s].state = "queued"
      BY <3>1
    <3>3. note' = Answered(r, notes, "fixed")
      BY <2>3, <3>1 DEF Answered
    <3> QED BY <1>1, <2>1, <2>2, <3>2, <3>3, EndingKeepsDives
  <2>4. CASE look[r].stage \in Stages
    <3>1. note' = Answered(r, note, "needs_owner")
      BY <1>1, <1>3, <2>4 DEF Unresolved
    <3>2. PICK notes \in [Registered -> [Stages -> Notes]] : notes = note
      BY DEF DiveInv
    <3>3. \A d \in Registered, s \in Stages :
            \/ FALSE /\ d = look[r].company /\ s = "discovery"
            \/ note[d][s].state = "queued" => notes[d][s].state = "queued"
      BY <3>2
    <3>4. note' = Answered(r, notes, "needs_owner") /\ ~Clashes(r, notes)
      BY <1>3, <3>1, <3>2
    <3> QED BY <1>1, <2>1, <2>2, <3>3, <3>4, EndingKeepsDives
  <2> QED BY <1>1, <2>3, <2>4
<1> QED BY <1>2, <1>3

\* An execution that goes on has the note it had.
LEMMA MovingKeepsDives ==
  ASSUME RegistryTypes, DiveInv, NEW r \in Lookers, look[r].at # "idle", NEW y,
         y.at # "idle", y.company = look[r].company, y.stage = look[r].stage, y.mine = look[r].mine,
         y.category \in Categories, look' = [look EXCEPT ![r] = y], UNCHANGED <<note, owesDive>>
  PROVE  DiveInv'
<1>1. look'[r] = y /\ \A q \in Lookers \ {r} : look'[q] = look[q]
  BY DEF RegistryTypes
<1>2. \A q \in Lookers, c \in Registered, s \in Stages : HasNote(q, c, s)' => HasNote(q, c, s)
  BY <1>1 DEF HasNote
<1>3. \A q \in Lookers : KnowsCategory(q)'
  BY <1>1 DEF DiveInv, KnowsCategory
<1>4. \A c \in Registered, s \in Stages : DiveHolds(c, s)'
  BY <1>2, DiveStays DEF DiveInv
<1> QED BY <1>3, <1>4 DEF DiveInv

LEMMA AskKeepsDives ==
  ASSUME RegistryTypes, DiveInv, NEW r \in Lookers, AskHolder(r)
  PROVE  DiveInv'
<1>1. look[r].at = "read" /\ look[r].at # "idle" /\ look[r].category \in Categories /\ look[r] \in LookRecords
  <2>1. look[r].at = "read"
    BY DEF AskHolder
  <2> QED BY <2>1, ActiveLook DEF DiveInv, KnowsCategory
<1>2. CASE look' = [look EXCEPT ![r].at = "asked"] /\ UNCHANGED <<note, owesDive>>
  <2>1. PICK y : y = [look[r] EXCEPT !.at = "asked"]
    OBVIOUS
  <2>2. y.at = "asked" /\ y.company = look[r].company /\ y.stage = look[r].stage
        /\ y.mine = look[r].mine /\ y.category = look[r].category
    BY <1>1, <2>1 DEF LookRecords
  <2>3. look' = [look EXCEPT ![r] = y]
    BY <1>2, <2>1
  <2> QED BY <1>1, <1>2, <2>2, <2>3, MovingKeepsDives
<1> QED BY <1>1, <1>2, UnresolvedKeepsDives, OccupiedKeepsDives DEF AskHolder

LEMMA WriteKeepsDives ==
  ASSUME RegistryTypes, DiveInv, NEW r \in Lookers, WriteBoard(r)
  PROVE  DiveInv'
<1>1. look[r].at # "idle" /\ "discovery" \in Stages
  BY DEF WriteBoard, Stages
<1> PICK c \in Registered : c = look[r].company
  BY <1>1, ActiveLook DEF LookRecords
<1>2. CASE Occupied(r, entry[c])
  BY <1>1, <1>2, OccupiedKeepsDives
<1>3. CASE ~Occupied(r, entry[c])
  <2>1. /\ note' = Answered(r, [note EXCEPT ![c]["discovery"] = NoNote], "fixed")
        /\ owesDive' = DiveDone(r, IF TRUE THEN DropDive(owesDive, look[r].company, "discovery") ELSE owesDive)
        /\ EndLook(r, TRUE)
    BY <1>3 DEF WriteBoard
  <2>2. PICK notes \in [Registered -> [Stages -> Notes]] : notes = [note EXCEPT ![c]["discovery"] = NoNote]
    BY <1>1, NotesAreKinds DEF DiveInv
  <2>3. \A d \in Registered, s \in Stages : notes[d][s] = note[d][s] \/ (d = c /\ s = "discovery")
    BY <1>1, <2>2 DEF DiveInv
  <2>4. \A d \in Registered, s \in Stages :
          \/ TRUE /\ d = look[r].company /\ s = "discovery"
          \/ note[d][s].state = "queued" => notes[d][s].state = "queued"
    BY <2>3
  <2>5. note' = Answered(r, notes, "fixed")
    BY <2>1, <2>2
  <2> QED BY <1>1, <2>1, <2>4, <2>5, EndingKeepsDives
<1> QED BY <1>2, <1>3

LEMMA ReadKeepsDives ==
  ASSUME RegistryTypes, DiveInv, NEW r \in Lookers, ReadSite(r)
  PROVE  DiveInv'
<1>1. /\ look[r].at = "begun" /\ look[r].at # "idle" /\ look[r].company \in Registered
      /\ UNCHANGED <<note, owesDive>>
  <2>1. look[r].at = "begun" /\ UNCHANGED <<note, owesDive>>
    BY DEF ReadSite
  <2> QED BY <2>1, ActiveLook DEF LookRecords
<1>2. PICK k \in Categories : k = IF look[r].stage = "none" THEN Category(site[look[r].company])
                                  ELSE look[r].category
  BY <1>1, ReadIsTyped DEF DiveInv, KnowsCategory
<1>3. PICK y : /\ look' = [look EXCEPT ![r] = y] /\ y.at = "read" /\ y.company = look[r].company
               /\ y.stage = look[r].stage /\ y.mine = look[r].mine /\ y.category = k
  <2>1. PICK found : found = IF look[r].stage = "none" THEN FirstAccepted(look[r].company)
                             ELSE DeepDive(site[look[r].company], look[r].stage, look[r].category, listing)
    OBVIOUS
  <2>2. PICK collided : collided = (look[r].stage = "none" /\ \E i \in 1..2 :
                          /\ Proposals(look[r].company)[i] # NoBoard
                          /\ ~Accepted(look[r].company, Proposals(look[r].company)[i]))
    OBVIOUS
  <2>3. PICK y : y =
          [at |-> "read", stage |-> look[r].stage, company |-> look[r].company, copy |-> look[r].copy,
           mine |-> look[r].mine, found |-> found, category |-> k, collided |-> collided]
    OBVIOUS
  <2>4. look' = [look EXCEPT ![r] = y]
    BY <1>2, <2>1, <2>2, <2>3 DEF ReadSite
  <2>5. /\ y.at = "read" /\ y.company = look[r].company /\ y.stage = look[r].stage
        /\ y.mine = look[r].mine /\ y.category = k
    BY <2>3
  <2> QED BY <2>4, <2>5
<1> QED BY <1>1, <1>3, MovingKeepsDives

\* A note is fixed with nobody at work on it: its dive is dropped with it.
LEMMA FixingKeepsDives ==
  ASSUME RegistryTypes, DiveInv, NEW c \in Registered, NEW s \in Stages,
         note' = [note EXCEPT ![c][s] = NoNote], owesDive' = [owesDive EXCEPT ![c][s] = "none"],
         look' = Disowned(c, s)
  PROVE  DiveInv'
<1>1. /\ note' \in [Registered -> [Stages -> Notes]] /\ owesDive' \in [Registered -> [Stages -> TaskStates]]
      /\ \A d \in Registered, z \in Stages :
           IF d = c /\ z = s THEN owesDive'[d][z] = "none"
           ELSE note'[d][z] = note[d][z] /\ owesDive'[d][z] = owesDive[d][z]
  <2>1. "none" \in TaskStates
    BY DEF TaskStates
  <2>2. note' \in [Registered -> [Stages -> Notes]]
        /\ \A d \in Registered, z \in Stages : d # c \/ z # s => note'[d][z] = note[d][z]
    BY NotesAreKinds DEF DiveInv
  <2>3. owesDive' \in [Registered -> [Stages -> TaskStates]]
        /\ \A d \in Registered, z \in Stages :
             owesDive'[d][z] = IF d = c /\ z = s THEN "none" ELSE owesDive[d][z]
    BY <2>1 DEF DiveInv
  <2> QED BY <2>2, <2>3
<1>2. \A q \in Lookers :
        /\ look'[q].at = look[q].at
        /\ look'[q].at # "idle" => /\ look'[q].company = look[q].company /\ look'[q].stage = look[q].stage
                                   /\ look'[q].category = look[q].category
                                   /\ look'[q].mine => look[q].mine /\ ~HasNote(q, c, s)
  BY DisownedHasNone
<1>3. \A q \in Lookers, d \in Registered, z \in Stages :
        HasNote(q, d, z)' => HasNote(q, d, z) /\ ~(d = c /\ z = s)
  BY <1>2 DEF HasNote
<1>4. \A q \in Lookers : KnowsCategory(q)'
  BY <1>2 DEF DiveInv, KnowsCategory
<1>5. ASSUME NEW d \in Registered, NEW z \in Stages PROVE DiveHolds(d, z)'
  <2>1. CASE d = c /\ z = s
    BY <1>1, <1>3, <2>1, DiveIsOver
  <2>2. CASE ~(d = c /\ z = s)
    BY <1>1, <1>3, <2>2, DiveStays DEF DiveInv
  <2> QED BY <2>1, <2>2
<1> QED BY <1>1, <1>4, <1>5 DEF DiveInv

LEMMA BeginsKeepDives ==
  ASSUME RegistryTypes, DiveInv, NEW r \in Lookers, NEW c \in Registered,
         BeginDiscovery(r, c) \/ \E s \in Stages : BeginDive(r, c, s)
  PROVE  DiveInv'
<1>1. "none" \notin Stages
  BY DEF Stages
<1>2. CASE BeginDiscovery(r, c)
  <2>1. /\ UNCHANGED <<note, owesDive>>
        /\ look' = look \/ look' = [look EXCEPT ![r] = LookBegun(c, "none", "none")]
    BY <1>2 DEF BeginDiscovery
  <2>2. \A q \in Lookers :
          \/ look'[q] = look[q]
          \/ look'[q].at = "begun" /\ look'[q].stage = "none"
    BY <2>1 DEF RegistryTypes, LookBegun
  <2>3. \A q \in Lookers, d \in Registered, z \in Stages : HasNote(q, d, z)' => HasNote(q, d, z)
    BY <1>1, <2>2 DEF HasNote
  <2>4. \A q \in Lookers : KnowsCategory(q)'
    BY <2>2 DEF DiveInv, KnowsCategory
  <2>5. \A d \in Registered, z \in Stages : DiveHolds(d, z)'
    BY <2>1, <2>3, DiveStays DEF DiveInv
  <2> QED BY <2>1, <2>4, <2>5 DEF DiveInv
<1>3. ASSUME NEW s \in Stages, BeginDive(r, c, s) PROVE DiveInv'
  <2>1. CASE s = "discovery" /\ entry[c].status = "verified"
    BY <1>3, <2>1, FixingKeepsDives DEF BeginDive
  <2>2. CASE ~(s = "discovery" /\ entry[c].status = "verified")
    <3>1. /\ UNCHANGED note /\ owesDive[c][s] = "pending" /\ look[r].at = "idle"
          /\ owesDive' = [owesDive EXCEPT ![c][s] = "running"]
          /\ look' = [look EXCEPT ![r] = LookBegun(c, s, note[c][s].category)]
      BY <1>3, <2>2 DEF BeginDive, Free
    <3>2. /\ note[c][s].state = "queued" /\ note[c][s].category \in Categories
          /\ \A q \in Lookers : ~HasNote(q, c, s)
      BY <3>1, NotesAreKinds DEF DiveInv, DiveHolds
    <3>3. /\ owesDive' \in [Registered -> [Stages -> TaskStates]]
          /\ \A d \in Registered, z \in Stages :
               owesDive'[d][z] = IF d = c /\ z = s THEN "running" ELSE owesDive[d][z]
      BY <3>1 DEF DiveInv, TaskStates
    <3>4. PICK k \in Categories : k = note[c][s].category
      BY <3>2
    <3>5. /\ look'[r].at # "idle" /\ look'[r].company = c /\ look'[r].stage = s /\ look'[r].category = k
          /\ \A q \in Lookers \ {r} : look'[q] = look[q]
      BY <3>1, <3>4 DEF RegistryTypes, LookBegun
    <3>6. \A q \in Lookers, d \in Registered, z \in Stages :
            HasNote(q, d, z)' => HasNote(q, d, z) \/ (q = r /\ d = c /\ z = s)
      BY <3>5 DEF HasNote
    <3>7. \A q \in Lookers : KnowsCategory(q)'
      BY <3>4, <3>5 DEF DiveInv, KnowsCategory
    <3>8. ASSUME NEW d \in Registered, NEW z \in Stages PROVE DiveHolds(d, z)'
      <4>1. CASE d = c /\ z = s
        <5>1. \A q \in Lookers : HasNote(q, d, z)' => q = r
          BY <3>2, <3>6, <4>1
        <5> QED BY <3>1, <3>2, <3>3, <4>1, <5>1 DEF DiveHolds
      <4>2. CASE ~(d = c /\ z = s)
        BY <3>1, <3>3, <3>6, <4>2, DiveStays DEF DiveInv
      <4> QED BY <4>1, <4>2
    <3> QED BY <3>1, <3>3, <3>7, <3>8 DEF DiveInv
  <2> QED BY <2>1, <2>2
<1> QED BY <1>2, <1>3

LEMMA LosingKeepsDives ==
  ASSUME RegistryTypes, DiveInv, NEW r \in Lookers, LoseExecution(r)
  PROVE  DiveInv'
<1>1. /\ look[r].at # "idle" /\ UNCHANGED note /\ look' = [look EXCEPT ![r] = AtRest]
  BY DEF LoseExecution
<1>2. /\ look[r].stage \in Stages \cup {"none"} /\ look[r].company \in Registered /\ look[r].mine \in BOOLEAN
      /\ "none" \notin Stages
  BY <1>1, ActiveLook DEF LookRecords, Stages
<1> PICK c \in Registered : c = look[r].company
  BY <1>2
<1>3. PICK t \in {"pending", "none"} :
        \/ owesDive' = owesDive /\ (look[r].stage = "none" \/ ~look[r].mine)
        \/ /\ look[r].stage \in Stages /\ look[r].mine
           /\ owesDive' = [owesDive EXCEPT ![c][look[r].stage] = t]
  <2>1. PICK t \in {"pending", "none"} :
          IF look[r].stage = "none" THEN UNCHANGED owesDive
          ELSE owesDive' = [owesDive EXCEPT ![c][look[r].stage] = IF look[r].mine THEN t ELSE @]
    BY DEF LoseExecution
  <2>2. CASE look[r].stage = "none"
    BY <2>1, <2>2
  <2>3. CASE look[r].stage \in Stages /\ look[r].mine
    BY <1>2, <2>1, <2>3
  <2>4. CASE look[r].stage \in Stages /\ ~look[r].mine
    <3>1. owesDive' = [owesDive EXCEPT ![c][look[r].stage] = owesDive[c][look[r].stage]]
      BY <1>2, <2>1, <2>4
    <3>2. owesDive' = owesDive
      BY <2>4, <3>1 DEF DiveInv
    <3> QED BY <2>4, <3>2
  <2> QED BY <1>2, <2>2, <2>3, <2>4
<1>4. look'[r] = AtRest /\ AtRest.at = "idle" /\ \A q \in Lookers \ {r} : look'[q] = look[q]
  BY <1>1 DEF RegistryTypes, AtRest
<1>5. \A q \in Lookers, d \in Registered, s \in Stages : HasNote(q, d, s)' => HasNote(q, d, s) /\ q # r
  BY <1>4 DEF HasNote
<1>6. \A q \in Lookers : KnowsCategory(q)'
  BY <1>4 DEF DiveInv, KnowsCategory
<1>7. /\ owesDive' \in [Registered -> [Stages -> TaskStates]]
      /\ \A d \in Registered, s \in Stages :
           owesDive'[d][s] = owesDive[d][s] \/ (HasNote(r, d, s) /\ owesDive'[d][s] = t)
  <2>1. CASE owesDive' = owesDive
    BY <2>1 DEF DiveInv
  <2>2. CASE look[r].stage \in Stages /\ look[r].mine /\ owesDive' = [owesDive EXCEPT ![c][look[r].stage] = t]
    <3> PICK s \in Stages : s = look[r].stage
      BY <2>2
    <3>1. HasNote(r, c, s) /\ t \in TaskStates
      BY <1>1, <2>2 DEF HasNote, TaskStates
    <3> QED BY <2>2, <3>1 DEF DiveInv
  <2> QED BY <1>3, <2>1, <2>2
<1>8. ASSUME NEW d \in Registered, NEW s \in Stages PROVE DiveHolds(d, s)'
  <2>1. CASE owesDive'[d][s] = owesDive[d][s]
    BY <1>1, <1>5, <2>1, DiveStays DEF DiveInv
  <2>2. CASE HasNote(r, d, s)
    <3>1. owesDive[d][s] = "running" /\ note[d][s].state = "queued"
      BY <2>2 DEF DiveInv, DiveHolds
    <3>2. \A q \in Lookers : ~HasNote(q, d, s)'
      BY <1>5, <2>2 DEF DiveInv, DiveHolds
    <3> QED BY <1>1, <3>1, <3>2, DiveIsOver
  <2> QED BY <1>7, <2>1, <2>2
<1> QED BY <1>1, <1>6, <1>7, <1>8 DEF DiveInv

LEMMA RecordingKeepsDives ==
  ASSUME RegistryTypes, DiveInv, NEW c \in Registered, RecordAttempt(c)
  PROVE  DiveInv'
<1>1. "crawl" \in Stages
  BY DEF Stages
<1>2. CASE UNCHANGED <<note, owesDive, look>>
  BY <1>2 DEF DiveInv, DiveHolds, HasNote, KnowsCategory
<1>3. CASE /\ note' = [note EXCEPT ![c]["crawl"] = NoNote]
           /\ owesDive' = DropDive(owesDive, c, "crawl") /\ look' = Disowned(c, "crawl")
  <2>1. owesDive' = [owesDive EXCEPT ![c]["crawl"] = "none"]
    BY <1>1, <1>3, DroppedIsNone
  <2> QED BY <1>1, <1>3, <2>1, FixingKeepsDives
<1>4. ASSUME NEW category \in Categories, NoteCompany(c, "crawl", category), UNCHANGED <<owesDive, look>>
      PROVE  DiveInv'
  <2>1. PICK n \in Notes : /\ n = Noted(note[c]["crawl"], category)
                           /\ note[c]["crawl"].state = "queued" => n.state = "queued"
    BY <1>1, NotesAreKinds DEF DiveInv
  <2>2. note' = [note EXCEPT ![c]["crawl"] = n]
    BY <1>4, <2>1 DEF NoteCompany
  <2>3. /\ note' \in [Registered -> [Stages -> Notes]]
        /\ \A d \in Registered, s \in Stages : note'[d][s] = note[d][s] \/ (d = c /\ s = "crawl" /\ note'[d][s] = n)
    BY <1>1, <2>2 DEF DiveInv
  <2>4. \A q \in Lookers, d \in Registered, s \in Stages : HasNote(q, d, s)' => HasNote(q, d, s)
    BY <1>4 DEF HasNote
  <2>5. \A d \in Registered, s \in Stages : DiveHolds(d, s)'
    BY <1>4, <2>1, <2>3, <2>4, DiveStays DEF DiveInv
  <2>6. \A q \in Lookers : KnowsCategory(q)'
    BY <1>4 DEF DiveInv, KnowsCategory
  <2> QED BY <1>4, <2>3, <2>5, <2>6 DEF DiveInv
<1>5. CASE RecordAnswer(c)
  BY <1>2, <1>3, <1>5 DEF RecordAnswer
<1>6. CASE RecordFailure(c)
  BY <1>2, <1>4, <1>6, FailuresAreCategories DEF RecordFailure
<1> QED BY <1>5, <1>6 DEF RecordAttempt

\* A dive is asked for where there is a note and no dive.
LEMMA StartingKeepsDives ==
  ASSUME RegistryTypes, DiveInv, StartDeepDives
  PROVE  DiveInv'
<1>1. /\ UNCHANGED look
      /\ note' = [c \in Registered |-> [s \in Stages |->
           IF OwedADive(c, s) THEN [note[c][s] EXCEPT !.state = "queued"] ELSE note[c][s]]]
      /\ owesDive' = [c \in Registered |-> [s \in Stages |->
           IF OwedADive(c, s) THEN "pending" ELSE owesDive[c][s]]]
  BY DEF StartDeepDives
<1>2. \A n \in Notes : n.state \in {"noted", "queued"} =>
        [n EXCEPT !.state = "queued"] \in Notes /\ [n EXCEPT !.state = "queued"].state = "queued"
  BY DEF Notes, NoNote
<1>3. \A c \in Registered, s \in Stages :
        /\ note'[c][s] \in Notes /\ owesDive'[c][s] \in TaskStates
        /\ IF OwedADive(c, s) THEN note'[c][s].state = "queued"
           ELSE note'[c][s] = note[c][s] /\ owesDive'[c][s] = owesDive[c][s]
  BY <1>1, <1>2 DEF DiveInv, OwedADive, TaskStates
<1>4. note' \in [Registered -> [Stages -> Notes]] /\ owesDive' \in [Registered -> [Stages -> TaskStates]]
  BY <1>1, <1>3
<1>5. ASSUME NEW c \in Registered, NEW s \in Stages PROVE DiveHolds(c, s)'
  <2>1. DiveHolds(c, s) /\ \A q \in Lookers : HasNote(q, c, s)' => HasNote(q, c, s)
    BY <1>1 DEF DiveInv, HasNote
  <2>2. CASE OwedADive(c, s)
    <3>1. owesDive[c][s] = "none"
      BY <2>1, <2>2 DEF OwedADive, DiveHolds
    <3>2. \A q \in Lookers : ~HasNote(q, c, s)'
      BY <2>1, <3>1 DEF DiveHolds
    <3> QED BY <1>3, <2>2, <3>2, DiveIsOver
  <2>3. CASE ~OwedADive(c, s)
    BY <1>3, <2>1, <2>3, DiveStays
  <2> QED BY <2>2, <2>3
<1>6. \A q \in Lookers : KnowsCategory(q)'
  BY <1>1 DEF DiveInv, KnowsCategory
<1> QED BY <1>4, <1>5, <1>6 DEF DiveInv

LEMMA RegistryStepKeepsDives ==
  ASSUME RegistryTypes, DiveInv, [RegistryNext]_registryVars
  PROVE  DiveInv'
<1>1. CASE UNCHANGED <<note, owesDive, look>>
  BY <1>1 DEF DiveInv, DiveHolds, HasNote, KnowsCategory
<1>2. ASSUME NEW r \in Lookers, LookStep(r) \/ LoseExecution(r) PROVE DiveInv'
  BY <1>2, BeginsKeepDives, ReadKeepsDives, AskKeepsDives, WriteKeepsDives, LosingKeepsDives DEF LookStep
<1>3. ASSUME NEW c \in Registered, \/ DispatchDiscovery(c) \/ RestOver(c) \/ RegisterCandidate(c)
                                   \/ SyncSeed(c) \/ RetireSeed(c)
      PROVE  DiveInv'
  BY <1>1, <1>3 DEF DispatchDiscovery, RestOver, RegisterCandidate, SyncSeed, RetireSeed
<1>4. CASE OutsideChanges \/ OtherWorkComes \/ OtherWorkDone
  BY <1>1, <1>4 DEF OutsideChanges, OtherWorkComes, OtherWorkDone
<1>5. CASE UNCHANGED registryVars
  BY <1>1, <1>5 DEF registryVars
<1> QED BY <1>2, <1>3, <1>4, <1>5, RecordingKeepsDives, StartingKeepsDives DEF RegistryNext

-----------------------------------------------------------------------------
(* The type of the registry: its records, the kinds of its notes, and what is *)
(* counted.                                                                   *)

RegistryInBounds ==
  /\ owesLook \in [Registered -> TaskStates]
  /\ site \in [Registered -> UsedSites] /\ failing \in [Registered -> 0..FailuresBeforeNoted]
  /\ turns \in 0..MaxTurns /\ ahead \in BOOLEAN
  /\ crossed \subseteq Registered /\ curated \subseteq Registered

LEMMA TurnIsBounded ==
  ASSUME turns \in 0..MaxTurns
  PROVE  /\ Turn => turns' \in 0..MaxTurns
         /\ \A r \in Lookers : Free(r) => turns' \in 0..MaxTurns
BY RegistryAssumption DEF Turn, Free

LEMMA EndingStaysInBounds ==
  ASSUME RegistryTypes, RegistryInBounds, NEW r \in Lookers, look[r].at # "idle", Ends(r) \/ RolledBack(r)
  PROVE  RegistryInBounds'
<1>1. look[r].company \in Registered /\ "none" \in TaskStates
  BY ActiveLook DEF LookRecords, TaskStates
<1>2. CASE RolledBack(r)
  BY <1>2 DEF RolledBack, RegistryInBounds
<1>3. CASE Ends(r)
  <2>1. UNCHANGED <<site, failing, turns, curated, ahead>>
    BY <1>3 DEF Ends
  <2>2. owesLook' = owesLook \/ owesLook' = [owesLook EXCEPT ![look[r].company] = "none"]
    BY <1>3 DEF Ends
  <2>3. owesLook' \in [Registered -> TaskStates]
    BY <1>1, <2>2 DEF RegistryInBounds
  <2>4. crossed' \subseteq Registered
    BY <1>1, <1>3 DEF Ends, RegistryInBounds
  <2> QED BY <2>1, <2>3, <2>4 DEF RegistryInBounds
<1> QED BY <1>2, <1>3

LEMMA LookingStaysInBounds ==
  ASSUME RegistryTypes, RegistryInBounds, NEW r \in Lookers, LookStep(r) \/ LoseExecution(r)
  PROVE  RegistryInBounds'
<1>1. "none" \in TaskStates /\ "running" \in TaskStates /\ "pending" \in TaskStates
  BY DEF TaskStates
<1>2. ASSUME NEW c \in Registered, BeginDiscovery(r, c) \/ \E s \in Stages : BeginDive(r, c, s)
      PROVE  RegistryInBounds'
  <2>1. UNCHANGED <<site, failing, crossed, curated, ahead>> /\ Free(r)
    BY <1>2 DEF BeginDiscovery, BeginDive
  <2>2. \/ owesLook' = owesLook
        \/ \E t \in TaskStates : owesLook' = [owesLook EXCEPT ![c] = t]
    BY <1>1, <1>2 DEF BeginDiscovery, BeginDive
  <2> QED BY <2>1, <2>2, TurnIsBounded DEF RegistryInBounds
<1>3. CASE ReadSite(r)
  BY <1>3 DEF ReadSite, RegistryInBounds
<1>4. CASE AskHolder(r)
  <2>1. CASE UNCHANGED <<owesLook, site, failing, turns, crossed, curated, ahead>>
    BY <2>1 DEF RegistryInBounds
  <2>2. look[r].at # "idle" /\ (Unresolved(r) => Ends(r) \/ RolledBack(r))
        /\ (Occupied(r, look[r].copy) => Ends(r) \/ RolledBack(r))
    BY <1>4 DEF AskHolder, Unresolved, Occupied
  <2> QED BY <1>4, <2>1, <2>2, EndingStaysInBounds DEF AskHolder
<1>5. CASE WriteBoard(r)
  <2>1. look[r].at # "idle" /\ (Occupied(r, entry[look[r].company]) => Ends(r) \/ RolledBack(r))
    BY <1>5 DEF WriteBoard, Occupied
  <2> QED BY <1>5, <2>1, EndingStaysInBounds DEF WriteBoard
<1>6. CASE LoseExecution(r)
  <2>1. look[r].company \in Registered /\ Turn /\ UNCHANGED <<site, failing, crossed, curated, ahead>>
    BY <1>6, ActiveLook DEF LoseExecution, LookRecords
  <2>2. \/ owesLook' = owesLook
        \/ \E t \in TaskStates : owesLook' = [owesLook EXCEPT ![look[r].company] = t]
    BY <1>1, <1>6 DEF LoseExecution
  <2> QED BY <2>1, <2>2, TurnIsBounded DEF RegistryInBounds
<1> QED BY <1>2, <1>3, <1>4, <1>5, <1>6 DEF LookStep

LEMMA RegistryStaysInBounds ==
  ASSUME RegistryTypes, RegistryInBounds, [RegistryNext]_registryVars
  PROVE  RegistryInBounds'
<1>1. CASE UNCHANGED <<owesLook, site, failing, turns, crossed, curated, ahead>>
  BY <1>1 DEF RegistryInBounds
<1>2. CASE UNCHANGED registryVars \/ StartDeepDives
  BY <1>1, <1>2 DEF registryVars, StartDeepDives
<1>3. ASSUME NEW c \in Registered, DispatchDiscovery(c) PROVE RegistryInBounds'
  <2>1. owesLook' \in [Registered -> TaskStates]
    BY <1>3 DEF DispatchDiscovery, RegistryInBounds, TaskStates
  <2> QED BY <1>3, <2>1 DEF DispatchDiscovery, RegistryInBounds
<1>4. ASSUME NEW c \in Registered, RestOver(c) PROVE RegistryInBounds'
  BY <1>1, <1>4 DEF RestOver
<1>5. ASSUME NEW c \in Registered, RegisterCandidate(c) \/ SyncSeed(c) \/ RetireSeed(c)
      PROVE  RegistryInBounds'
  <2>1. /\ UNCHANGED <<owesLook, site, failing, crossed, ahead>> /\ Turn
        /\ curated' = curated \/ curated' = curated \cup {c}
    BY <1>5 DEF RegisterCandidate, SyncSeed, RetireSeed
  <2> QED BY <2>1, TurnIsBounded DEF RegistryInBounds
<1>6. ASSUME NEW c \in Registered, RecordAttempt(c) PROVE RegistryInBounds'
  <2>1. UNCHANGED <<owesLook, site, turns, crossed, curated, ahead>>
    BY <1>6 DEF RecordAttempt, RecordAnswer, RecordFailure
  <2>2. failing[c] \in 0..FailuresBeforeNoted /\ FailuresBeforeNoted \in Nat
    BY RegistryAssumption DEF RegistryInBounds
  <2>3. PICK n \in 0..FailuresBeforeNoted : failing' = [failing EXCEPT ![c] = n]
    <3>1. CASE RecordAnswer(c)
      <4>1. 0 \in 0..FailuresBeforeNoted
        BY <2>2
      <4> QED BY <3>1, <4>1 DEF RecordAnswer
    <3>2. CASE RecordFailure(c)
      <4>1. PICK n : n = IF failing[c] = FailuresBeforeNoted THEN failing[c] ELSE failing[c] + 1
        OBVIOUS
      <4>2. n \in 0..FailuresBeforeNoted
        BY <2>2, <4>1
      <4>3. failing' = [failing EXCEPT ![c] = n]
        BY <3>2, <4>1 DEF RecordFailure
      <4> QED BY <4>2, <4>3
    <3> QED BY <1>6, <3>1, <3>2 DEF RecordAttempt
  <2> QED BY <2>1, <2>3 DEF RegistryInBounds
<1>7. CASE OutsideChanges
  <2>1. /\ Turn /\ UNCHANGED <<owesLook, failing, crossed, curated, ahead>>
        /\ site' = site \/ \E c \in Registered, s \in UsedSites : site' = [site EXCEPT ![c] = s]
    BY <1>7 DEF OutsideChanges
  <2> QED BY <2>1, TurnIsBounded DEF RegistryInBounds
<1>8. CASE OtherWorkComes \/ OtherWorkDone
  <2>1. /\ UNCHANGED <<owesLook, site, failing, crossed, curated>> /\ ahead' \in BOOLEAN
        /\ Turn \/ UNCHANGED turns
    BY <1>8 DEF OtherWorkComes, OtherWorkDone
  <2> QED BY <2>1, TurnIsBounded DEF RegistryInBounds
<1> QED BY <1>2, <1>3, <1>4, <1>5, <1>6, <1>7, <1>8, LookingStaysInBounds DEF RegistryNext

\* Every variable of the registry is what it is said to be: in particular a
\* note is always of a kind, because a dive is only begun for one that is.
THEOREM RegistryTypeCorrect == RegistrySpec => []RegistryTypeOK
<1>1. RegistryInit => RegistryInv /\ DiveInv /\ RegistryInBounds
  <2> SUFFICES ASSUME RegistryInit PROVE RegistryInv /\ DiveInv /\ RegistryInBounds
    OBVIOUS
  <2>1. RegistryInv
    BY RegistryBegins
  <2>2. AtRest.at = "idle" /\ NoNote \in Notes /\ "none" \in TaskStates
    BY DEF AtRest, Notes, TaskStates
  <2>3. DiveInv
    BY <2>2 DEF RegistryInit, DiveInv, DiveHolds, HasNote, KnowsCategory
  <2>4. RegistryInBounds
    <3>1. 0 \in 0..FailuresBeforeNoted /\ 0 \in 0..MaxTurns /\ FirstSite \in [Registered -> UsedSites]
      BY RegistryAssumption
    <3> QED BY <2>2, <3>1 DEF RegistryInit, RegistryInBounds
  <2> QED BY <2>1, <2>3, <2>4
<1>2. RegistryInv /\ DiveInv /\ RegistryInBounds /\ [RegistryNext]_registryVars
        => (RegistryInv /\ DiveInv /\ RegistryInBounds)'
  BY RegistryStepKeepsInv, RegistryStepKeepsDives, RegistryStaysInBounds DEF RegistryInv
<1>3. RegistryInv /\ DiveInv /\ RegistryInBounds => RegistryTypeOK
  <2>1. Looks = LookRecords \cup {AtRest}
    BY DEF Looks, LookRecords
  <2> QED BY <2>1 DEF RegistryInv, RegistryTypes, DiveInv, RegistryInBounds, RegistryTypeOK
<1> QED BY <1>1, <1>2, <1>3, PTL DEF RegistrySpec

------------------------------------------------------------------------------
(* DiveStarts.                                                                *)

\* But for what starts queued that overlapped: a note that waits for a dive, or for
\* the owner, has no task; nor has one that a select found without, or one that it
\* locked, until another's commit gives it one.
StartsInv ==
  /\ StartsTypeOK /\ StartedOnce
  /\ \A n \in Issues \ overlapped : issue[n] \in {"noted", "needs_owner"} => dives[n] = 0
  /\ \A k \in Starters : starter[k].at = "selecting" =>
       \A n \in Issues \ (starter[k].live \cup starter[k].since \cup overlapped) : dives[n] = 0
  /\ \A k \in Starters : \A n \in starter[k].held :
       /\ issue[n] \in {"noted", "queued"}
       /\ n \notin starter[k].since \cup overlapped => dives[n] = 0

\* A starter at rest holds and reads nothing.
LEMMA StarterRests ==
  ASSUME StartsTypeOK, NEW k \in Starters, starter[k].at # "selecting"
  PROVE  starter[k] = NoStart
BY DEF StartsTypeOK, Selecting

LEMMA StarterSelects ==
  ASSUME StartsTypeOK, NEW k \in Starters, starter[k].at = "selecting"
  PROVE  starter[k] \in Selecting
BY DEF StartsTypeOK, NoStart

\* A row is taken by changing what is left and held of the starter.
LEMMA RowTaken ==
  ASSUME StartsTypeOK, NEW k \in Starters, NEW n \in Issues, TakeRow(k, n)
  PROVE  /\ starter[k] \in Selecting /\ starter[k].at = "selecting"
         /\ UNCHANGED <<issue, dives, overlapped>>
         /\ starter' \in [Starters -> Selecting \cup {NoStart}]
         /\ \A j \in Starters \ {k} : starter'[j] = starter[j]
         /\ starter'[k].live = starter[k].live /\ starter'[k].since = starter[k].since
         /\ \A m \in starter'[k].held :
              m \in starter[k].held \/ (m = n /\ Owed(n, starter[k].live))
<1>0. n \in starter[k].left
  BY DEF TakeRow
<1>1. starter[k].at = "selecting" /\ starter[k] \in Selecting
  BY <1>0, StarterRests, StarterSelects DEF NoStart
<1> DEFINE held == IF ~Locked(n) /\ Owed(n, starter[k].live) THEN starter[k].held \cup {n}
                                                            ELSE starter[k].held
           next == [starter[k] EXCEPT !.left = starter[k].left \ {n}, !.held = held]
<1>2. starter' = [starter EXCEPT ![k] = next] /\ UNCHANGED <<issue, dives, overlapped>>
  BY DEF TakeRow
<1>3. held \in SUBSET Issues /\ \A m \in held : m \in starter[k].held \/ (m = n /\ Owed(n, starter[k].live))
  BY <1>1 DEF Selecting
<1>4. next \in Selecting /\ next.live = starter[k].live /\ next.since = starter[k].since /\ next.held = held
  <2> HIDE DEF held
  <2>. QED BY <1>1, <1>3 DEF Selecting
<1> HIDE DEF held, next
<1>5. starter'[k] = next /\ \A j \in Starters \ {k} : starter'[j] = starter[j]
  BY <1>2 DEF StartsTypeOK
<1>6. starter' \in [Starters -> Selecting \cup {NoStart}]
  BY <1>2, <1>4 DEF StartsTypeOK
<1>. QED BY <1>1, <1>2, <1>3, <1>4, <1>5, <1>6

\* A commit puts its starter to rest and tells the others that select what it queued.
LEMMA StartCommitted ==
  ASSUME StartsTypeOK, NEW k \in Starters, CommitStart(k)
  PROVE  /\ starter[k] \in Selecting /\ starter[k].at = "selecting"
         /\ starter' \in [Starters -> Selecting \cup {NoStart}] /\ starter'[k] = NoStart
         /\ \A j \in Starters \ {k} : starter[j].at # "selecting" => starter'[j] = starter[j]
         /\ \A j \in Starters \ {k} : starter[j].at = "selecting" =>
              /\ starter'[j].live = starter[j].live /\ starter'[j].held = starter[j].held
              /\ starter'[j].since = starter[j].since \cup starter[k].held
<1>1. starter[k].at = "selecting" /\ starter[k] \in Selecting
  BY StarterSelects DEF CommitStart
<1> DEFINE next(j) == [starter[j] EXCEPT !.since = starter[j].since \cup starter[k].held]
<1>2. starter' = [j \in Starters |->
        IF j = k THEN NoStart ELSE IF starter[j].at = "selecting" THEN next(j) ELSE starter[j]]
  BY DEF CommitStart
<1>3. ASSUME NEW j \in Starters, starter[j].at = "selecting"
      PROVE  /\ next(j) \in Selecting /\ next(j).live = starter[j].live
             /\ next(j).held = starter[j].held
             /\ next(j).since = starter[j].since \cup starter[k].held
  <2>1. starter[j] \in Selecting
    BY <1>3, StarterSelects
  <2>. QED BY <1>1, <2>1 DEF Selecting
<1> HIDE DEF next
<1>4. starter' \in [Starters -> Selecting \cup {NoStart}]
  BY <1>2, <1>3 DEF StartsTypeOK
<1>. QED BY <1>1, <1>2, <1>3, <1>4

LEMMA StartsBegin == StartsInit => StartsInv
BY DiveStartsAssumption, SMTT(30)
   DEF StartsInit, StartsInv, StartsTypeOK, StartedOnce, IssueStates, NoStart, Selecting

\* A step of a starter.
LEMMA StarterKeeps ==
  ASSUME StartsInv, NEW k \in Starters,
         BeginSelect(k) \/ CommitStart(k) \/ AbandonStart(k) \/ \E n \in Issues : TakeRow(k, n)
  PROVE  StartsInv'
<1> USE DEF StartsInv, StartsTypeOK, StartedOnce
<1>1. CASE BeginSelect(k)
  <2> DEFINE live == {n \in Issues : HasTask(n)}
             found == {n \in Issues : Owed(n, live)}
             next == [at |-> "selecting", live |-> live, left |-> found, held |-> {}, since |-> {}]
  <2>1. starter' = [starter EXCEPT ![k] = next] /\ UNCHANGED <<issue, dives, overlapped>>
    BY <1>1 DEF BeginSelect
  <2>2. next \in Selecting
    BY DEF Selecting
  <2>3. \A n \in Issues \ next.live : dives[n] = 0
    BY DEF HasTask
  <2> HIDE DEF next
  <2>4. next.held = {}
    BY DEF next
  <2>. QED BY <2>1, <2>2, <2>3, <2>4, SMTT(30)
<1>2. CASE \E n \in Issues : TakeRow(k, n)
  <2>1. PICK n \in Issues : TakeRow(k, n)
    BY <1>2
  <2>2. Owed(n, starter[k].live) =>
          /\ issue[n] \in {"noted", "queued"}
          /\ n \notin starter[k].since \cup overlapped => dives[n] = 0
    BY <2>1, RowTaken DEF Owed
  <2>. QED BY <2>1, <2>2, RowTaken, SMTT(30)
<1>3. CASE CommitStart(k)
  <2> DEFINE ids == starter[k].held
  <2>1. /\ ids \subseteq Issues /\ overlapped' \subseteq Issues /\ overlapped \subseteq overlapped'
        /\ ids \cap starter[k].since \subseteq overlapped'
    BY <1>3, StartCommitted DEF CommitStart, Selecting
  <2>2. \A n \in ids : n \notin overlapped' => dives[n] = 0
    BY <2>1
  <2>3. /\ issue' \in [Issues -> IssueStates] /\ dives' \in [Issues -> 0..MaxDives]
        /\ \A n \in ids : issue'[n] = "queued" /\ dives'[n] = dives[n] + 1
        /\ \A n \in Issues \ ids : issue'[n] = issue[n] /\ dives'[n] = dives[n]
    BY <1>3, <2>1, DiveStartsAssumption, SMTT(30) DEF CommitStart, IssueStates
  <2> HIDE DEF ids
  <2>4. \A n \in Issues \ overlapped' : dives'[n] <= 1
    BY <2>1, <2>2, <2>3
  <2>5. \A n \in Issues \ overlapped' : issue'[n] \in {"noted", "needs_owner"} => dives'[n] = 0
    BY <2>1, <2>3
  <2>6. ASSUME NEW j \in Starters, starter'[j].at = "selecting",
               NEW n \in Issues \ (starter'[j].live \cup starter'[j].since \cup overlapped')
        PROVE  dives'[n] = 0
    <3>1. j # k
      BY <1>3, <2>6, StartCommitted DEF NoStart
    <3>2. starter[j].at = "selecting"
      BY <1>3, <2>6, <3>1, StartCommitted
    <3>3. starter'[j].live = starter[j].live /\ starter'[j].since = starter[j].since \cup ids
      BY <1>3, <3>1, <3>2, StartCommitted DEF ids
    <3>. QED BY <2>1, <2>3, <2>6, <3>2, <3>3
  <2>7. ASSUME NEW j \in Starters, NEW n \in starter'[j].held
        PROVE  /\ issue'[n] \in {"noted", "queued"}
               /\ n \notin starter'[j].since \cup overlapped' => dives'[n] = 0
    <3>1. j # k
      BY <1>3, <2>7, StartCommitted DEF NoStart
    <3>2. starter[j].at = "selecting"
      BY <1>3, <2>7, <3>1, StartCommitted, StarterRests DEF NoStart
    <3>3. starter'[j].held = starter[j].held /\ starter'[j].since = starter[j].since \cup ids
      BY <1>3, <3>1, <3>2, StartCommitted DEF ids
    <3>4. n \in Issues
      BY <2>7, <3>2, <3>3, StarterSelects DEF Selecting
    <3>. QED BY <2>1, <2>3, <2>7, <3>3, <3>4
  <2>8. starter' \in [Starters -> Selecting \cup {NoStart}]
    BY <1>3, StartCommitted
  <2>. QED BY <2>1, <2>3, <2>4, <2>5, <2>6, <2>7, <2>8
<1>4. CASE AbandonStart(k)
  <2>1. starter' = [starter EXCEPT ![k] = NoStart] /\ UNCHANGED <<issue, dives, overlapped>>
    BY <1>4 DEF AbandonStart
  <2>2. NoStart.held = {} /\ NoStart.at # "selecting"
    BY DEF NoStart
  <2>. QED BY <2>1, <2>2, SMTT(30)
<1>. QED BY <1>1, <1>2, <1>3, <1>4

\* A step of the rest: a task less, and a locked note is left alone.
LEMMA OthersKeepStarts ==
  ASSUME StartsInv, NEW n \in Issues,
         DiveAnswers(n) \/ DiveIsLost(n) \/ NoteAgain(n) \/ ResolveNote(n)
  PROVE  StartsInv'
<1> USE DEF StartsInv, StartsTypeOK, StartedOnce
<1>1. UNCHANGED <<starter, overlapped>>
  BY DEF DiveAnswers, DiveIsLost, NoteAgain, ResolveNote
<1>2. \A k \in Starters : starter[k].held \subseteq Issues
  BY DEF Selecting, NoStart
<1>3. dives' \in [Issues -> 0..MaxDives] /\ \A m \in Issues : dives'[m] <= dives[m] /\ dives'[m] \in Nat
  BY DiveStartsAssumption, SMTT(30) DEF DiveAnswers, DiveIsLost, NoteAgain, ResolveNote, HasTask
<1>4. issue' \in [Issues -> IssueStates] /\ \A m \in Issues \ {n} : issue'[m] = issue[m]
  BY DEF DiveAnswers, DiveIsLost, NoteAgain, ResolveNote, IssueStates
<1>5. issue'[n] # issue[n] => \A k \in Starters : n \notin starter[k].held
  BY DEF DiveAnswers, DiveIsLost, NoteAgain, ResolveNote, Locked
<1>6. n \notin overlapped => dives'[n] = 0 \/ (dives'[n] = dives[n] /\ (issue'[n] = "noted" => issue[n] = "needs_owner")
                                              /\ issue'[n] # "needs_owner")
                             \/ (issue'[n] = issue[n] /\ dives'[n] = dives[n])
  <2>1. CASE DiveAnswers(n) \/ DiveIsLost(n)
    <3>1. dives' = [dives EXCEPT ![n] = dives[n] - 1] /\ dives[n] > 0
      BY <2>1 DEF DiveAnswers, DiveIsLost, HasTask
    <3>2. n \notin overlapped => dives[n] - 1 = 0
      BY <3>1, DiveStartsAssumption
    <3>. QED BY <3>1, <3>2
  <2>2. CASE NoteAgain(n) \/ ResolveNote(n)
    BY <2>2 DEF NoteAgain, ResolveNote
  <2>. QED BY <2>1, <2>2
<1>7. \A m \in Issues : dives[m] = 0 => dives'[m] = 0
  BY <1>3, DiveStartsAssumption
<1>8. \A m \in Issues \ overlapped : issue'[m] \in {"noted", "needs_owner"} => dives'[m] = 0
  BY <1>4, <1>6, <1>7
<1>9. \A m \in Issues \ overlapped : dives'[m] <= 1
  BY <1>3, DiveStartsAssumption
<1>10. \A k \in Starters : \A m \in starter[k].held : issue'[m] \in {"noted", "queued"}
  BY <1>2, <1>4, <1>5
<1>11. \A k \in Starters : starter[k].at = "selecting" =>
         \A m \in Issues \ (starter[k].live \cup starter[k].since \cup overlapped) : dives'[m] = 0
  BY <1>7
<1>12. \A k \in Starters : \A m \in starter[k].held :
         m \notin starter[k].since \cup overlapped => dives'[m] = 0
  BY <1>2, <1>7
<1>. QED BY <1>1, <1>3, <1>4, <1>8, <1>9, <1>10, <1>11, <1>12

LEMMA StartsInvariant == StartsSpec => []StartsInv
<1>1. StartsInv /\ [StartsNext]_startsVars => StartsInv'
  <2> SUFFICES ASSUME StartsInv, [StartsNext]_startsVars PROVE StartsInv'
    OBVIOUS
  <2>1. CASE \E k \in Starters : \/ BeginSelect(k) \/ CommitStart(k) \/ AbandonStart(k)
                                 \/ \E n \in Issues : TakeRow(k, n)
    BY <2>1, StarterKeeps
  <2>2. CASE \E n \in Issues : DiveAnswers(n) \/ DiveIsLost(n) \/ NoteAgain(n) \/ ResolveNote(n)
    BY <2>2, OthersKeepStarts
  <2>3. CASE UNCHANGED startsVars
    BY <2>3 DEF startsVars, StartsInv, StartsTypeOK, StartedOnce
  <2>. QED BY <2>1, <2>2, <2>3 DEF StartsNext
<1>. QED BY <1>1, StartsBegin, PTL DEF StartsSpec

\* For any transactions that start dives (issues.py, start_deep_dives) and any
\* notes, whatever happens to the tasks meanwhile, a note gets a second task only
\* from a start that had begun before another queued it the first.
THEOREM DivesStartOnce == StartsSpec => []StartedOnce
<1>1. StartsInv => StartedOnce
  BY DEF StartsInv
<1>. QED BY <1>1, StartsInvariant, PTL

\* Notes, tasks and starts stay well-typed: a note has no fewer tasks than none.
THEOREM StartsTypeCorrect == StartsSpec => []StartsTypeOK
<1>1. StartsInv => StartsTypeOK
  BY DEF StartsInv
<1>. QED BY <1>1, StartsInvariant, PTL

\* One that starts dives alone, as the tick does where the owner leaves it to
\* DEEP_DIVE_AUTO (dispatch.py), never starts a note's twice.
THEOREM SoleStarterStartsOnce ==
  ASSUME NEW tick, Starters = {tick}
  PROVE  StartsSpec => [](\A n \in Issues : dives[n] <= 1)
<1> DEFINE Alone == overlapped = {} /\ \A k \in Starters : starter[k].since = {}
<1>1. StartsInit => Alone
  BY DEF StartsInit, NoStart
<1>2. StartsInv /\ Alone /\ [StartsNext]_startsVars => Alone'
  <2> SUFFICES ASSUME StartsInv, Alone, [StartsNext]_startsVars PROVE Alone'
    OBVIOUS
  <2>0. StartsTypeOK
    BY DEF StartsInv
  <2>1. CASE \E k \in Starters : BeginSelect(k) \/ AbandonStart(k)
    BY <2>0, <2>1, SMTT(30) DEF BeginSelect, AbandonStart, NoStart, StartsTypeOK
  <2>2. CASE \E k \in Starters : CommitStart(k)
    BY <2>0, <2>2, StartCommitted DEF CommitStart, NoStart
  <2>3. CASE \E k \in Starters : \E n \in Issues : TakeRow(k, n)
    BY <2>0, <2>3, RowTaken
  <2>4. CASE \E n \in Issues : DiveAnswers(n) \/ DiveIsLost(n) \/ NoteAgain(n) \/ ResolveNote(n)
    BY <2>4 DEF DiveAnswers, DiveIsLost, NoteAgain, ResolveNote
  <2>5. CASE UNCHANGED startsVars
    BY <2>5 DEF startsVars
  <2>. QED BY <2>1, <2>2, <2>3, <2>4, <2>5 DEF StartsNext
<1>3. StartsInv /\ Alone => \A n \in Issues : dives[n] <= 1
  BY DEF StartsInv, StartedOnce
<1> HIDE DEF Alone
<1>. QED BY <1>1, <1>2, <1>3, StartsInvariant, PTL DEF StartsSpec
=============================================================================
