------------------------------- MODULE Postings -------------------------------
(***************************************************************************)
(* One company's postings: polls of its board (packages/crawler/crawl.py)  *)
(* beside matching passes (packages/matching/incremental.py), which delete *)
(* postings nobody wants, embed the texts and score them for a profile.    *)
(*                                                                         *)
(* A poll asks the board, reads the clock, and then writes the company's   *)
(* row, so that polls of one company store one after the other though they *)
(* may have asked in another order.  A pass is one transaction that reads  *)
(* texts, encodes them for minutes and writes at its end.                  *)
(***************************************************************************)
EXTENDS Naturals, FiniteSets

CONSTANTS
  Adverts,     \* external ids on the board
  Texts,       \* what an advert says (title, location, body)
  Blank,       \* the text that has no body
  Gone,        \* not on the board
  Boards,      \* what the site may list to begin with
  Abroad,      \* the texts whose location is abroad (search_us_only)
  Excluded,    \* adverts that fail a hard filter of the profile
  Newness,     \* the order of first_seen_at, later is greater
  PassBatch,   \* postings in one pass
  BoardPolls,  \* executions that can overlap
  NoPoll,
  NoText,      \* no vector, no version, no match
  NoPosting,
  NoHash,
  Garbled,     \* a page that parses to nothing and is no empty board
  MaxChanges,  \* bound: changes of the board, of ages and by the owner, and failures of a pass
  MaxAsks      \* bound: polls that store

ASSUME PostingsAssumption ==
  /\ IsFiniteSet(Adverts) /\ Blank \in Texts /\ {Gone, NoText, Garbled, NoPosting, NoHash} \cap Texts = {}
  /\ Abroad \subseteq Texts /\ Excluded \subseteq Adverts /\ Newness \in [Adverts -> Nat] /\ PassBatch \in Nat \ {0}
  /\ Boards \subseteq [Adverts -> Texts \cup {Gone}]
  /\ IsFiniteSet(BoardPolls) /\ NoPoll \notin BoardPolls
  /\ MaxChanges \in Nat /\ MaxAsks \in Nat

VARIABLES
  board,       \* what the site lists
  old,         \* adverts published before the window of posting_max_age_days
  row,         \* the postings held
  boardHash,   \* companies.board_hash
  writer,      \* the poll whose transaction holds the company's row
  poll,        \* the polls
  pass,        \* the matching pass: what it deletes and what it read
  touched,     \* postings the owner applied to, swiped on or labelled
  changes, stamps,
  \* History, never read by an action:
  unsettled,   \* stored in part, or after a poll that had read the clock later
  raced        \* postings last edited while a pass was encoding their text

siteVars == <<board, old, touched, changes>>
postingVars == <<siteVars, row, boardHash, writer, poll, pass, stamps, unsettled, raced>>

Listings == [Adverts -> Texts \cup {Gone}]
Empty == [a \in Adverts |-> Gone]
Listed(list) == {a \in Adverts : list[a] # Gone}
Stored == {a \in Adverts : row[a] # NoPosting}
Open == {a \in Stored : ~row[a].closed}

\* `told` is a posting's newest version, `vector` the text that was embedded,
\* `match` the text that was scored.
PostingRows ==
  [text : Texts, closed : BOOLEAN, stamp : 1..MaxAsks,
   told : Texts \cup {NoText}, vector : Texts \cup {NoText}, match : Texts \cup {NoText}]

ASSUME NamesApart == NoPosting \notin PostingRows /\ {NoHash, Garbled} \cap Listings = {}

Quiet == [at |-> "idle", list |-> Empty, whole |-> TRUE, body |-> NoHash,
          stamp |-> 0, held |-> [a \in Adverts |-> NoText]]
Resting == [at |-> "idle", stale |-> {}, spared |-> {}, doomed |-> {},
            read |-> [a \in Adverts |-> NoText]]

PostingsTypeOK ==
  /\ board \in Listings /\ old \subseteq Adverts
  /\ \A a \in Stored : row[a] \in PostingRows
  /\ boardHash \in Listings \cup {Garbled, NoHash} /\ writer \in BoardPolls \cup {NoPoll}
  /\ \A p \in BoardPolls : /\ poll[p].at \in {"idle", "answered", "stamped", "storing"}
                      /\ poll[p].list \in Listings /\ poll[p].stamp \in 0..stamps
                      /\ poll[p].at = "storing" <=> writer = p
  /\ pass.at \in {"idle", "deleting", "encoding"} /\ pass.doomed \subseteq Stored
  /\ touched \subseteq Adverts /\ changes \in 0..MaxChanges /\ stamps \in 0..MaxAsks

PostingsInit ==
  /\ board \in Boards /\ old = {} /\ touched = {} /\ changes = 0
  /\ row = [a \in Adverts |-> NoPosting] /\ boardHash = NoHash /\ writer = NoPoll
  /\ poll = [p \in BoardPolls |-> Quiet] /\ pass = Resting
  /\ stamps = 0 /\ unsettled = FALSE /\ raced = {}

-----------------------------------------------------------------------------
(* The site, the calendar and the owner.                                   *)

Publish(a) ==
  /\ changes < MaxChanges /\ changes' = changes + 1
  /\ \E t \in Texts \cup {Gone} : t # board[a] /\ board' = [board EXCEPT ![a] = t]
  /\ UNCHANGED <<old, touched, row, boardHash, writer, poll, pass, stamps, unsettled, raced>>

GrowOld(a) ==
  /\ a \notin old /\ changes < MaxChanges
  /\ old' = old \cup {a} /\ changes' = changes + 1
  /\ UNCHANGED <<board, touched, row, boardHash, writer, poll, pass, stamps, unsettled, raced>>

\* A row that refers to a posting waits for whoever has deleted it; it stops
\* no DELETE that has begun.
Touch(a) ==
  /\ a \in Stored \ (touched \cup pass.doomed) /\ changes < MaxChanges
  /\ touched' = touched \cup {a} /\ changes' = changes + 1
  /\ UNCHANGED <<board, old, row, boardHash, writer, poll, pass, stamps, unsettled, raced>>

-----------------------------------------------------------------------------
(* A poll.                                                                 *)

InFlight == {p \in BoardPolls : poll[p].at = "answered"}

\* What a fetch can bring: the board, some of its pages, or a page with a 200
\* that parses to nothing.
Answers ==
  {[list |-> board, whole |-> TRUE, body |-> board],
   [list |-> Empty, whole |-> TRUE, body |-> Garbled]}
  \cup {[list |-> l, whole |-> FALSE, body |-> l] : l \in {[board EXCEPT ![a] = Gone] : a \in Listed(board)}}

\* Refused, failed or unchanged, a poll ends here and writes only its time.
AskBoard(p) ==
  /\ poll[p].at = "idle" /\ stamps + Cardinality(InFlight) < MaxAsks
  /\ \E answer \in Answers :
       /\ answer.body # boardHash
       /\ poll' = [poll EXCEPT ![p] =
                     [at |-> "answered", list |-> answer.list, whole |-> answer.whole,
                      body |-> answer.body, stamp |-> 0, held |-> [a \in Adverts |-> NoText]]]
  /\ UNCHANGED <<siteVars, row, boardHash, writer, pass, stamps, unsettled, raced>>

\* seen_at, read once for both halves of the write.
ReadClock(p) ==
  /\ poll[p].at = "answered"
  /\ stamps' = stamps + 1
  /\ poll' = [poll EXCEPT ![p].at = "stamped", ![p].stamp = stamps + 1]
  /\ UNCHANGED <<siteVars, row, boardHash, writer, pass, unsettled, raced>>

\* The flush of last_polled_at locks the company's row; then the postings
\* held are read.
BeginStore(p) ==
  /\ poll[p].at = "stamped" /\ writer = NoPoll
  /\ writer' = p
  /\ poll' = [poll EXCEPT ![p].at = "storing",
                          ![p].held = [a \in Adverts |-> IF a \in Stored THEN row[a].text ELSE NoText]]
  /\ UNCHANGED <<siteVars, row, boardHash, pass, stamps, unsettled, raced>>

Known(p) == {a \in Adverts : poll[p].held[a] # NoText}

\* A listing is stored if it is recent and not abroad, or held already.
Kept(p) == {a \in Listed(poll[p].list) : 
                a \in Known(p) \/ (a \notin old /\ poll[p].list[a] \notin Abroad)}

\* New rows are read back only where the company holds fewer postings, closed
\* ones included, than the board lists; only these get a version.
ReadBack(p) ==
  IF Cardinality(Known(p)) < Cardinality(Kept(p)) THEN Kept(p) \ Known(p) ELSE {}

\* The posting as the upsert leaves it.
Fresh(p, a) ==
  [text |-> poll[p].list[a], closed |-> FALSE, stamp |-> poll[p].stamp,
   told |-> IF a \in ReadBack(p) THEN poll[p].list[a] ELSE NoText,
   vector |-> NoText, match |-> NoText]

\* Mutant: an edited posting keeps the vector of its old text.
SeenKeeping(p, a) ==
  LET text == poll[p].list[a] IN
  [text |-> text, closed |-> FALSE, stamp |-> poll[p].stamp,
   told |-> IF row[a].text # text THEN text ELSE row[a].told,
   vector |-> row[a].vector, match |-> row[a].match]

Seen(p, a) ==
  LET text == poll[p].list[a] IN
  [text |-> text, closed |-> FALSE, stamp |-> poll[p].stamp,
   told |-> IF row[a].text # text THEN text ELSE row[a].told,
   vector |-> IF row[a].text # text THEN NoText ELSE row[a].vector, match |-> row[a].match]

\* _close_missing declines when nothing was parsed though postings are open,
\* and is not asked when pages are missing.
Suspect(p) == ~poll[p].whole \/ (Listed(poll[p].list) = {} /\ Open # {})

\* Absent is what carries an older stamp.
Missing(p) == {a \in Open \ Kept(p) : row[a].stamp < poll[p].stamp}

\* A row that is being deleted is locked.
MustWait(p) == Kept(p) \cap pass.doomed # {}

\* A version would refer to a posting deleted since the postings were read.
Dangling(p) == \E a \in Kept(p) \cap Known(p) : row[a] = NoPosting /\ poll[p].held[a] # poll[p].list[a]

\* What the hash remembered no longer is what the rows say.
Disorder(p) ==
  IF ~poll[p].whole THEN TRUE
  ELSE IF Suspect(p) THEN unsettled
  ELSE \E a \in Stored : row[a].stamp > poll[p].stamp

Edited(p, a) == a \in Kept(p) /\ (a \notin Stored \/ row[a].text # poll[p].list[a])

\* Mutant: a suspect parse is remembered like any other.
StoreSuspect(p) ==
  /\ poll[p].at = "storing" /\ ~MustWait(p) /\ ~Dangling(p)
  /\ row' = [a \in Adverts |->
       CASE a \in Kept(p) -> IF a \in Stored THEN Seen(p, a) ELSE Fresh(p, a)
         [] a \in Missing(p) /\ ~Suspect(p) -> [row[a] EXCEPT !.closed = TRUE]
         [] OTHER -> row[a]]
  /\ boardHash' = poll[p].body
  /\ unsettled' = Disorder(p)
  /\ raced' = {a \in Adverts : IF Edited(p, a) THEN pass.read[a] # NoText ELSE a \in raced}
  /\ writer' = NoPoll /\ poll' = [poll EXCEPT ![p] = Quiet]
  /\ UNCHANGED <<siteVars, pass, stamps>>

\* _store, _close_missing, the board's hash and the commit.
Store(p) ==
  /\ poll[p].at = "storing" /\ ~MustWait(p) /\ ~Dangling(p)
  /\ row' = [a \in Adverts |->
       CASE a \in Kept(p) -> IF a \in Stored THEN Seen(p, a) ELSE Fresh(p, a)
         [] a \in Missing(p) /\ ~Suspect(p) -> [row[a] EXCEPT !.closed = TRUE]
         [] OTHER -> row[a]]
  /\ boardHash' = IF Suspect(p) THEN boardHash ELSE poll[p].body
  /\ unsettled' = Disorder(p)
  /\ raced' = {a \in Adverts : IF Edited(p, a) THEN pass.read[a] # NoText ELSE a \in raced}
  /\ writer' = NoPoll /\ poll' = [poll EXCEPT ![p] = Quiet]
  /\ UNCHANGED <<siteVars, pass, stamps>>

\* The worker dies, the time limit ends it, or its insert fails.
PollFails(p) ==
  /\ poll[p].at # "idle"
  /\ poll' = [poll EXCEPT ![p] = Quiet]
  /\ writer' = IF writer = p THEN NoPoll ELSE writer
  /\ UNCHANGED <<siteVars, row, boardHash, pass, stamps, unsettled, raced>>

-----------------------------------------------------------------------------
(* A matching pass.                                                        *)

Stale == {a \in Stored : row[a].closed \/ a \in old}

\* Mutant: prunes without asking what the owner did.
DoomedTouched == pass.stale \cap Stale

\* What the statement deletes: a row changed since it looked is judged again
\* as it has become, but the owner's rows only as it saw them (EXISTS).
Doomed == (pass.stale \ pass.spared) \cap Stale

\* The newest of a set, as many as one pass takes.
Newest(s) == {a \in s : Cardinality({b \in s : Newness[b] > Newness[a]}) < PassBatch}

\* Mutant: postings without a body take places in the batch.
UnembeddedAny == {a \in Open : row[a].vector = NoText}

Unembedded == {a \in Open : row[a].vector = NoText /\ row[a].text # Blank}

\* The DELETE looks: at the postings, and at the owner's rows.  (A pass that
\* finds nothing to do changes nothing.)
BeginPass ==
  /\ pass.at = "idle"
  /\ (Stale \ touched) \cup Unembedded \cup {a \in Open : row[a].match = NoText} # {}
  /\ pass' = [Resting EXCEPT !.at = "deleting", !.stale = Stale, !.spared = touched]
  /\ UNCHANGED <<siteVars, row, boardHash, writer, poll, stamps, unsettled, raced>>

\* It deletes, uncommitted; the newest postings without a vector are read.
DeleteDoomed ==
  /\ pass.at = "deleting"
  /\ pass' = [pass EXCEPT !.at = "encoding", !.doomed = Doomed,
                 !.read = [a \in Adverts |-> IF a \in Newest(Unembedded \ Doomed) THEN row[a].text ELSE NoText]]
  /\ UNCHANGED <<siteVars, row, boardHash, writer, poll, stamps, unsettled, raced>>

\* Open postings with no Match, whether or not one would be stored for them.
Unscored == {a \in Open \ pass.doomed : row[a].match = NoText}

\* The session still holds the text of what it has read.
ReadText(a) == IF pass.read[a] # NoText THEN pass.read[a] ELSE row[a].text

\* The vectors are written, the newest unmatched scored, all of it committed.
\* What pointed at a deleted posting is unlinked or goes with it.
EndPass ==
  /\ pass.at = "encoding"
  /\ row' = [a \in Adverts |->
       IF a \in pass.doomed \/ a \notin Stored THEN NoPosting
       ELSE [row[a] EXCEPT
               !.vector = IF pass.read[a] \in Texts \ {Blank} THEN pass.read[a] ELSE @,
               !.match = IF a \in Newest(Unscored) \ Excluded THEN ReadText(a) ELSE @]]
  /\ touched' = touched \ pass.doomed
  /\ pass' = Resting
  /\ UNCHANGED <<board, old, changes, boardHash, writer, poll, stamps, unsettled, raced>>

PassFails ==
  /\ pass.at # "idle" /\ changes < MaxChanges
  /\ pass' = Resting /\ changes' = changes + 1
  /\ raced' = {a \in raced : pass.read[a] = NoText}
  /\ UNCHANGED <<board, old, touched, row, boardHash, writer, poll, stamps, unsettled>>

PollStep(p) == AskBoard(p) \/ ReadClock(p) \/ BeginStore(p) \/ Store(p) \/ PollFails(p)

PostingsNext ==
  \/ \E a \in Adverts : Publish(a) \/ GrowOld(a) \/ Touch(a)
  \/ \E p \in BoardPolls : PollStep(p)
  \/ BeginPass \/ DeleteDoomed \/ EndPass \/ PassFails

PostingsSpec == PostingsInit /\ [][PostingsNext]_postingVars

-----------------------------------------------------------------------------
(* Properties.                                                             *)

\* When the board still is what was last remembered of it, and the next polls
\* will therefore pass it over as unchanged, the open postings are exactly
\* those it lists, with the texts it lists, but for what was too old or too
\* far away to store.
\* (Not after a truncated board was stored, whose hash is not remembered; nor
\* after two polls were stored in the opposite order of their clocks, when
\* what only the earlier stored one listed stays open, crawl.py:596.)
TableIsBoard ==
  boardHash = board /\ ~unsettled =>
    /\ \A a \in Open : board[a] = row[a].text
    /\ \A a \in Listed(board) : a \in Open \/ (a \notin Stored /\ (a \in old \/ board[a] \in Abroad))

\* A posting's newest version says what the posting says, whichever polls
\* edited it; one held from before has none until it changes.
VersionIsText == \A a \in Stored : row[a].told \in {NoText, row[a].text}

\* crawl.py:396: "An edited posting's vector describes text it no longer
\* contains, so it is dropped".
VectorIsOfText == \A a \in Stored : row[a].vector \in {NoText, row[a].text} \/ a \in raced

\* A posting's newest version and its vector are of the text it has.  There is
\* one way out for the vector, and this says it is the only one: an edit
\* stored while a pass is encoding the old text, whose vector the pass then
\* writes over the dropped one (score.py:427).  Nothing is said of the
\* match, which keeps the verdict on an older text.
TextIsFollowed == VersionIsText /\ VectorIsOfText

\* retention.py: "What is never deleted: A posting the owner did something
\* with".  What is deleted had nothing of the owner's when the DELETE looked,
\* and is closed or too old to the end, though polls reopened and edited
\* postings meanwhile.  (What the owner does between the statement's look and
\* its deletion does not save the posting, as the code has it.)
PrunesOnlyStale ==
  [][\A a \in Stored : row'[a] = NoPosting => a \notin pass.spared /\ (row[a].closed \/ a \in old)]_postingVars

\* incremental.py:20: what a pass missed "still appears in the next pass": a
\* posting with a text gets a vector, however many have none to embed.
TextIsEmbedded ==
  \A a \in Adverts :
    a \in Open /\ row[a].text # Blank
      ~> (a \notin Open \/ row[a].text = Blank \/ row[a].vector # NoText)
=============================================================================
