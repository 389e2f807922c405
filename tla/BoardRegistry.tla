---------------------------- MODULE BoardRegistry ----------------------------
(***************************************************************************)
(* Which company is polled for which board.  Discovery and deep dives read *)
(* a company's site and write what they found; the owner imports sheets    *)
(* and projects the curated registry; crawls tell which boards answer.     *)
(* Each works from its own copy of the company's row, and writes back only *)
(* the columns that differ from that copy.                                 *)
(***************************************************************************)
EXTENDS SiteReading

CONSTANTS
  Registered,     \* the companies
  Lookers,        \* executions of discovery and deep-dive tasks
  UsedSites,      \* the sites that occur
  FirstSite,      \* a company's site to begin with
  DirectoryOf,    \* the board a public directory proposes and confirms, if any
  Aliases,        \* companies a board gives evidence of that they are one
  UsedFailures,   \* the ways a crawl fails that occur
  FailuresBeforeNoted,
  MaxTurns        \* bound: owner and outside, other work, lost executions, executions side by side

ASSUME RegistryAssumption ==
  /\ UsedSites \subseteq Sites /\ FirstSite \in [Registered -> UsedSites]
  /\ DirectoryOf \in [Registered -> JobBoards \cup {NoBoard}]
  /\ Aliases \subseteq Registered \X Registered \X JobBoards
  /\ UsedFailures \subseteq {"board_gone", "board_blocked", "board_error", "board_reads_empty"}
  /\ NoBoard \notin JobBoards /\ FailuresBeforeNoted \in Nat \ {0} /\ MaxTurns \in Nat

VARIABLES
  entry,       \* the companies' rows
  note,        \* the open note of a company at each stage, if any
  owesLook,    \* the discovery task of a company
  owesDive,    \* the deep dive of a company's note
  look,        \* what each execution read and is about to write
  site, listing,     \* the outside: the companies' sites, the boards with openings
  failing,     \* crawls of a company's board that failed in a row
  turns,       \* bound
  ahead,       \* work of other kinds is waiting, which is claimed first
  crossed,     \* history: companies written from a copy that was no longer the row
  curated      \* history: companies verified by the curated registry

registryVars == <<entry, note, owesLook, owesDive, look, site, listing, failing,
                  turns, ahead, crossed, curated>>

Stages == {"discovery", "crawl"}
\* hint stands for unverified too: both are owed a discovery.
Discoverable == {"hint", "failed"}
\* resting: the next discovery lies in the future.
\* no_website: registered from a row that says nowhere to look.
Entries ==
  [status : Discoverable \cup {"verified", "no_website"}, board : JobBoards \cup {NoBoard},
   resting : BOOLEAN]
Categories == {"blocked", "unreachable", "board_empty", "multi_company_board", "other_job_system",
               "careers_page_unreadable", "no_careers_page", "no_website", "name_collision",
               "board_gone", "board_blocked", "board_error", "board_reads_empty"}
NoNote == [state |-> "none", category |-> "none"]
Notes == {NoNote} \cup [state : {"noted", "queued", "needs_owner"}, category : Categories]
TaskStates == {"none", "pending", "running"}
AtRest == [at |-> "idle"]
Looks ==
  {AtRest} \cup
  [at : {"begun", "read", "asked"}, stage : Stages \cup {"none"}, company : Registered,
   copy : Entries, category : Categories \cup {"none"}, found : JobBoards \cup {NoBoard},
   collided : BOOLEAN, mine : BOOLEAN]

RegistryTypeOK ==
  /\ entry \in [Registered -> Entries]
  /\ note \in [Registered -> [Stages -> Notes]]
  /\ owesLook \in [Registered -> TaskStates]
  /\ owesDive \in [Registered -> [Stages -> TaskStates]]
  /\ look \in [Lookers -> Looks]
  /\ site \in [Registered -> UsedSites] /\ listing \subseteq JobBoards
  /\ failing \in [Registered -> 0..FailuresBeforeNoted]
  /\ turns \in 0..MaxTurns /\ ahead \in BOOLEAN
  /\ crossed \subseteq Registered /\ curated \subseteq Registered

RegistryInit ==
  /\ entry = [c \in Registered |-> [status |-> "hint", board |-> NoBoard, resting |-> FALSE]]
  /\ note = [c \in Registered |-> [s \in Stages |-> NoNote]]
  /\ owesLook = [c \in Registered |-> "none"]
  /\ owesDive = [c \in Registered |-> [s \in Stages |-> "none"]]
  /\ look = [r \in Lookers |-> AtRest]
  /\ site = FirstSite /\ listing = JobBoards
  /\ failing = [c \in Registered |-> 0]
  /\ turns = 0 /\ ahead = FALSE /\ crossed = {} /\ curated = {}

------------------------------------------------------------------------------
(* Whose board a board is.                                                    *)

Fetchable(c) == entry[c].status = "verified" /\ entry[c].board # NoBoard

\* The verified companies, other than c, that are polled for b.
HoldersOf(b, c) ==
  {h \in Registered \ {c} : entry[h].status = "verified" /\ entry[h].board = b}

\* Positive evidence that c and whoever holds b are one company.
SameCompany(c, b) == \E h \in HoldersOf(b, c) : <<c, h, b>> \in Aliases \/ <<h, c, b>> \in Aliases

\* Only the columns that differ from the copy are written.
Written(c, copy, new) ==
  [status |-> IF new.status = copy.status THEN entry[c].status ELSE new.status,
   board |-> IF new.board = copy.board THEN entry[c].board ELSE new.board,
   resting |-> new.resting]

\* uq_companies_verified_board: one verified row for a board.
IndexRefuses(c, e) == e.status = "verified" /\ e.board # NoBoard /\ HoldersOf(e.board, c) # {}

------------------------------------------------------------------------------
(* Notes.                                                                     *)

\* One open note per company and stage; one the dive gave up on is offered
\* again only when the failure changed kind.
Noted(n, category) ==
  [state |-> IF n.state = "none" \/ (n.state = "needs_owner" /\ n.category # category)
               THEN "noted" ELSE n.state,
   category |-> category]

NoteCompany(c, s, category) == note' = [note EXCEPT ![c][s] = Noted(note[c][s], category)]

\* A note fixed takes its waiting dive with it (which would find it fixed and
\* end), and is no longer the one a running dive has read.
Resolving(c, s) == note[c][s] # NoNote
DropDive(dives, c, s) == IF Resolving(c, s) THEN [dives EXCEPT ![c][s] = "none"] ELSE dives
Disowned(c, s) ==
  [r \in Lookers |-> IF Resolving(c, s) /\ look[r].at # "idle" /\ look[r].company = c /\ look[r].stage = s
                       THEN [look[r] EXCEPT !.mine = FALSE] ELSE look[r]]

\* A note with no dive waiting or running for it, and none done.
OwedADive(c, s) ==
  note[c][s].state = "noted" \/ (note[c][s].state = "queued" /\ owesDive[c][s] = "none")

\* With the owner's permission, asked for or standing. At one blow: DiveStarts has
\* the statements, and what two of these at once can do.
StartDeepDives ==
  /\ \E c \in Registered, s \in Stages : OwedADive(c, s)
  /\ note' = [c \in Registered |-> [s \in Stages |->
       IF OwedADive(c, s) THEN [note[c][s] EXCEPT !.state = "queued"] ELSE note[c][s]]]
  /\ owesDive' = [c \in Registered |-> [s \in Stages |->
       IF OwedADive(c, s) THEN "pending" ELSE owesDive[c][s]]]
  /\ UNCHANGED <<entry, owesLook, look, site, listing, failing, turns, crossed, curated, ahead>>

------------------------------------------------------------------------------
(* Executions.                                                                *)

Turn == turns < MaxTurns /\ turns' = turns + 1

\* Other work comes; a worker takes it before any discovery or dive.
OtherWorkComes ==
  /\ Turn /\ ~ahead /\ ahead' = TRUE
  /\ UNCHANGED <<entry, note, owesLook, owesDive, look, site, listing, failing, crossed, curated>>

OtherWorkDone ==
  /\ ahead /\ ahead' = FALSE
  /\ UNCHANGED <<entry, note, owesLook, owesDive, look, site, listing, failing, turns, crossed, curated>>

\* Beside another, or alone.
Free(r) ==
  /\ look[r].at = "idle" /\ ~ahead
  /\ IF \E q \in Lookers : look[q].at # "idle" THEN Turn ELSE UNCHANGED turns

\* Mutant: a company that discovery failed for is not looked for again.
DueUntried(c) == entry[c].status = "hint" /\ ~entry[c].resting /\ owesLook[c] = "none"

DueForDiscovery(c) ==
  entry[c].status \in Discoverable /\ ~entry[c].resting /\ owesLook[c] = "none"

\* The tick queues a company once, and claims it.
DispatchDiscovery(c) ==
  /\ DueForDiscovery(c)
  /\ owesLook' = [owesLook EXCEPT ![c] = "pending"]
  /\ entry' = [entry EXCEPT ![c].resting = TRUE]
  /\ UNCHANGED <<note, owesDive, look, site, listing, failing, turns, crossed, curated, ahead>>

RestOver(c) ==
  /\ entry[c].resting
  /\ entry' = [entry EXCEPT ![c].resting = FALSE]
  /\ UNCHANGED <<note, owesLook, owesDive, look, site, listing, failing, turns, crossed, curated, ahead>>

LookBegun(c, s, category) ==
  [at |-> "begun", stage |-> s, company |-> c, copy |-> entry[c], category |-> category,
   found |-> NoBoard, collided |-> FALSE, mine |-> TRUE]

BeginDiscovery(r, c) ==
  /\ Free(r) /\ owesLook[c] = "pending"
  /\ IF entry[c].status = "verified"
       THEN owesLook' = [owesLook EXCEPT ![c] = "none"] /\ UNCHANGED look
       ELSE /\ owesLook' = [owesLook EXCEPT ![c] = "running"]
            /\ look' = [look EXCEPT ![r] = LookBegun(c, "none", "none")]
  /\ UNCHANGED <<entry, note, owesDive, site, listing, failing, crossed, curated, ahead>>

\* A company verified some other way since it was noted has its note closed.
BeginDive(r, c, s) ==
  /\ Free(r) /\ owesDive[c][s] = "pending"
  /\ IF s = "discovery" /\ entry[c].status = "verified"
       THEN /\ owesDive' = [owesDive EXCEPT ![c][s] = "none"]
            /\ note' = [note EXCEPT ![c][s] = NoNote] /\ look' = Disowned(c, s)
       ELSE /\ owesDive' = [owesDive EXCEPT ![c][s] = "running"]
            /\ look' = [look EXCEPT ![r] = LookBegun(c, s, note[c][s].category)] /\ UNCHANGED note
  /\ UNCHANGED <<entry, owesLook, site, listing, failing, crossed, curated, ahead>>

\* Discovery asks the directory, then the site, and passes over a board held
\* by another company; a dive looks where the note's category tells it to.
Accepted(c, b) == b # NoBoard /\ (HoldersOf(b, c) = {} \/ SameCompany(c, b))
Proposals(c) == <<Confirmed(DirectoryOf[c], listing), Confirmed(BoardOnSite(site[c]), listing)>>
FirstAccepted(c) ==
  IF Accepted(c, Proposals(c)[1]) THEN Proposals(c)[1]
  ELSE IF Accepted(c, Proposals(c)[2]) THEN Proposals(c)[2] ELSE NoBoard

ReadSite(r) ==
  LET x == look[r] c == look[r].company IN
  /\ x.at = "begun"
  /\ look' = [look EXCEPT ![r] =
       [at |-> "read", stage |-> x.stage, company |-> c, copy |-> x.copy, mine |-> x.mine,
        found |-> IF x.stage = "none" THEN FirstAccepted(c)
                  ELSE DeepDive(site[c], x.stage, x.category, listing),
        category |-> IF x.stage = "none" THEN Category(site[c]) ELSE x.category,
        collided |-> x.stage = "none" /\ \E i \in 1..2 :
                       Proposals(c)[i] # NoBoard /\ ~Accepted(c, Proposals(c)[i])]]
  /\ UNCHANGED <<entry, note, owesLook, owesDive, site, listing, failing, turns, crossed, curated, ahead>>

\* The execution ends: its task is done, and a write from an old copy is told.
Ends(r) ==
  LET x == look[r] IN
  /\ owesLook' = IF x.stage = "none" THEN [owesLook EXCEPT ![x.company] = "none"] ELSE owesLook
  /\ crossed' = IF entry[x.company].status # x.copy.status \/ entry[x.company].board # x.copy.board
                  THEN crossed \cup {x.company} ELSE crossed
  /\ UNCHANGED <<site, listing, failing, turns, curated, ahead>>

\* The dive's own note: it writes its answer over whatever the note has become
\* since, fixed included.
Answered(r, notes, answer) ==
  LET c == look[r].company s == look[r].stage IN
  IF s = "none" \/ (answer = "fixed" /\ ~look[r].mine) THEN notes
  ELSE [notes EXCEPT ![c][s] =
         IF answer = "fixed" THEN NoNote
         ELSE [state |-> answer,
               category |-> IF notes[c][s] = NoNote THEN look[r].category ELSE notes[c][s].category]]
\* But where its note was fixed and there is a new one (uq_company_issues_open).
Clashes(r, notes) ==
  look[r].stage # "none" /\ ~look[r].mine /\ notes[look[r].company][look[r].stage] # NoNote
DiveDone(r, dives) ==
  IF look[r].stage = "none" \/ ~look[r].mine THEN dives
  ELSE [dives EXCEPT ![look[r].company][look[r].stage] = "none"]

\* The transaction of a dive that clashed is rolled back; redelivered, it finds
\* its note fixed.
RolledBack(r) ==
  /\ look' = [look EXCEPT ![r] = AtRest]
  /\ UNCHANGED <<entry, note, owesLook, owesDive, site, listing, failing, turns, crossed, curated, ahead>>

EndLook(r, resolved) ==
  look' = [IF resolved THEN Disowned(look[r].company, "discovery") ELSE look EXCEPT ![r] = AtRest]

\* The board is polled under another company: an alias is set aside, anyone
\* else keeps looking.
Occupied(r, copy) ==
  LET c == look[r].company
      alias == SameCompany(c, look[r].found)
      closed == [note EXCEPT ![c]["discovery"] = NoNote]
      noted == [note EXCEPT ![c]["discovery"] = Noted(note[c]["discovery"], "name_collision")]
  IN
  IF ~alias /\ Clashes(r, noted) THEN RolledBack(r)
  ELSE
  /\ entry' = [entry EXCEPT ![c] = Written(c, copy, [status |-> "failed", board |-> NoBoard, resting |-> TRUE])]
  /\ note' = Answered(r, IF alias THEN closed ELSE noted, IF alias THEN "fixed" ELSE "needs_owner")
  /\ owesDive' = DiveDone(r, IF alias THEN DropDive(owesDive, c, "discovery") ELSE owesDive)
  /\ EndLook(r, alias)
  /\ Ends(r)

\* Nothing was found.  Only discovery writes the company's row.
Unresolved(r) ==
  LET x == look[r] c == look[r].company
      category == IF x.collided THEN "name_collision" ELSE x.category
  IN
  IF Clashes(r, note) THEN RolledBack(r)
  ELSE
  /\ IF x.stage = "none"
       THEN /\ entry' = [entry EXCEPT ![c] = Written(c, x.copy,
                          [status |-> "failed", board |-> x.copy.board, resting |-> TRUE])]
            /\ note' = IF category \in NotAnIssue THEN note
                       ELSE [note EXCEPT ![c]["discovery"] = Noted(note[c]["discovery"], category)]
       ELSE UNCHANGED entry /\ note' = Answered(r, note, "needs_owner")
  /\ owesDive' = DiveDone(r, owesDive)
  /\ EndLook(r, FALSE)
  /\ Ends(r)

AskHolder(r) ==
  /\ look[r].at = "read"
  /\ \/ look[r].found = NoBoard /\ Unresolved(r)
     \/ HoldersOf(look[r].found, look[r].company) # {} /\ Occupied(r, look[r].copy)
     \/ /\ look[r].found # NoBoard /\ HoldersOf(look[r].found, look[r].company) = {}
        /\ look' = [look EXCEPT ![r].at = "asked"]
        /\ UNCHANGED <<entry, note, owesLook, owesDive, site, listing, failing, turns, crossed, curated, ahead>>

\* Verified, and the first crawl queued, unless another task verified the board
\* since the question: the index refuses, and the row is read again.
WriteBoard(r) ==
  LET c == look[r].company
      new == Written(c, look[r].copy, [status |-> "verified", board |-> look[r].found, resting |-> FALSE])
  IN
  /\ look[r].at = "asked"
  /\ \/ /\ ~IndexRefuses(c, new)
        /\ entry' = [entry EXCEPT ![c] = new]
        /\ note' = Answered(r, [note EXCEPT ![c]["discovery"] = NoNote], "fixed")
        /\ owesDive' = DiveDone(r, DropDive(owesDive, c, "discovery"))
        /\ EndLook(r, TRUE)
        /\ Ends(r)
     \/ IndexRefuses(c, new) /\ HoldersOf(look[r].found, c) # {} /\ Occupied(r, entry[c])

\* An execution dies or its task fails: the task waits again, or is lost.
LoseExecution(r) ==
  LET x == look[r] IN
  /\ Turn /\ x.at # "idle"
  /\ look' = [look EXCEPT ![r] = AtRest]
  /\ \E s \in {"pending", "none"} :
       IF x.stage = "none" THEN owesLook' = [owesLook EXCEPT ![x.company] = s] /\ UNCHANGED owesDive
       ELSE /\ owesDive' = [owesDive EXCEPT ![x.company][x.stage] = IF x.mine THEN s ELSE @]
            /\ UNCHANGED owesLook
  /\ UNCHANGED <<entry, note, site, listing, failing, crossed, curated, ahead>>

------------------------------------------------------------------------------
(* The owner, the crawls and the outside.                                     *)

\* A sheet's row for a company without a verified board: a lead, or a
\* board-shaped address, or neither.
RegisterCandidate(c) ==
  /\ Turn /\ entry[c].status # "verified"
  /\ \/ \E b \in JobBoards \cup {entry[c].board} :
          entry' = [entry EXCEPT ![c].status = "hint", ![c].board = b]
     \/ entry' = [entry EXCEPT ![c].status = "no_website"]
  /\ UNCHANGED <<note, owesLook, owesDive, look, site, listing, failing, crossed, curated, ahead>>

\* Mutant: the row that held the board keeps it.
SetAsideNobody(c, b) ==
  [h \in Registered |-> IF h = c THEN [entry[c] EXCEPT !.status = "verified", !.board = b] ELSE entry[h]]

\* The curated name takes a board from whoever is polled for it.
TakeBoard(c, b) ==
  [h \in Registered |->
     IF h = c THEN [entry[c] EXCEPT !.status = "verified", !.board = b]
     ELSE IF h \in HoldersOf(b, c) THEN [status |-> "failed", board |-> NoBoard, resting |-> TRUE]
     ELSE entry[h]]

SyncSeed(c) ==
  /\ Turn
  /\ \E b \in JobBoards : entry' = TakeBoard(c, b)
  /\ curated' = curated \cup {c}
  /\ UNCHANGED <<note, owesLook, owesDive, look, site, listing, failing, crossed, ahead>>

\* A board the registry retired.
RetireSeed(c) ==
  /\ Turn
  /\ entry' = [entry EXCEPT ![c].status = "failed", ![c].board = NoBoard]
  /\ UNCHANGED <<note, owesLook, owesDive, look, site, listing, failing, crossed, curated, ahead>>

\* Why a crawl of a board fails: only a board without openings is gone.
CrawlFailures(b) == IF b \in listing THEN UsedFailures \ {"board_gone"} ELSE UsedFailures

\* What a crawl of a company's board comes to is folded into its state.
RecordAnswer(c) ==
  /\ Fetchable(c)
  /\ failing' = [failing EXCEPT ![c] = 0]
  /\ IF failing[c] > 0
       THEN /\ note' = [note EXCEPT ![c]["crawl"] = NoNote]
            /\ owesDive' = DropDive(owesDive, c, "crawl") /\ look' = Disowned(c, "crawl")
       ELSE UNCHANGED <<note, owesDive, look>>
  /\ UNCHANGED <<entry, owesLook, site, listing, turns, crossed, curated, ahead>>

RecordFailure(c) ==
  /\ Fetchable(c) /\ CrawlFailures(entry[c].board) # {}
  /\ failing' = [failing EXCEPT ![c] = IF @ = FailuresBeforeNoted THEN @ ELSE @ + 1]
  /\ IF failing'[c] = FailuresBeforeNoted
       THEN \E category \in CrawlFailures(entry[c].board) : NoteCompany(c, "crawl", category)
       ELSE UNCHANGED note
  /\ UNCHANGED <<entry, owesLook, owesDive, look, site, listing, turns, crossed, curated, ahead>>

RecordAttempt(c) == RecordAnswer(c) \/ RecordFailure(c)

OutsideChanges ==
  /\ Turn
  /\ \/ \E c \in Registered, s \in UsedSites : s # site[c] /\ site' = [site EXCEPT ![c] = s] /\ UNCHANGED listing
     \/ \E b \in JobBoards : /\ listing' = IF b \in listing THEN listing \ {b} ELSE listing \cup {b}
                          /\ UNCHANGED site
  /\ UNCHANGED <<entry, note, owesLook, owesDive, look, failing, crossed, curated, ahead>>

LookStep(r) ==
  \/ \E c \in Registered : BeginDiscovery(r, c) \/ \E s \in Stages : BeginDive(r, c, s)
  \/ ReadSite(r) \/ AskHolder(r) \/ WriteBoard(r)

RegistryNext ==
  \/ StartDeepDives
  \/ \E c \in Registered : \/ DispatchDiscovery(c) \/ RestOver(c) \/ RegisterCandidate(c)
                           \/ SyncSeed(c) \/ RetireSeed(c) \/ RecordAttempt(c)
  \/ \E r \in Lookers : LookStep(r) \/ LoseExecution(r)
  \/ OutsideChanges \/ OtherWorkComes \/ OtherWorkDone

\* The tick comes round, other work that has come gets done, and then workers
\* come free for a discovery again and again.  Nothing is assumed of dives:
\* they start when the owner says so, and wait for everything else.
FairRegistry ==
  /\ WF_registryVars(OtherWorkDone)
  /\ \A c \in Registered :
       /\ WF_registryVars(DispatchDiscovery(c)) /\ WF_registryVars(RestOver(c))
       /\ SF_registryVars(\E r \in Lookers : BeginDiscovery(r, c))
  /\ \A r \in Lookers : WF_registryVars(ReadSite(r) \/ AskHolder(r) \/ WriteBoard(r))

RegistrySpec == RegistryInit /\ [][RegistryNext]_registryVars
FairRegistrySpec == RegistrySpec /\ FairRegistry

------------------------------------------------------------------------------
(* Properties.                                                                *)

\* models.py, uq_companies_verified_board: "One board, one *verified* row",
\* whichever tasks resolve it at once and whoever takes it from whom.
OneBoardOneRow == \A c \in Registered : Fetchable(c) => HoldersOf(entry[c].board, c) = {}

\* runs.py: due_for_discovery is "the mirror of due_companies": a company is
\* in one of the two schedules, whoever wrote its row, unless it was
\* registered without a website and has not been found a board since.  (Not
\* where an execution wrote one column of a row whose other column had been
\* changed since it was read: that can leave a verified row with no board.)
InOneSchedule ==
  \A c \in Registered \ crossed :
    Fetchable(c) \/ entry[c].status \in Discoverable \/ entry[c].status = "no_website"

\* issues.py: "An ordinary run that succeeds later closes the note".  A company
\* that discovery or a dive verified is not on the owner's error list for want
\* of a board, unless a dive begun before answers after.
VerifiedIsNotOwned ==
  \A c \in Registered \ (crossed \cup curated) :
    Fetchable(c) => note[c]["discovery"].state # "needs_owner"

RegistryHolds == OneBoardOneRow /\ InOneSchedule /\ VerifiedIsNotOwned

\* runs.py: without a schedule of its own a company with no board "would never
\* be retried at all".  A company that is to be looked for, and whose site
\* names a board with openings, is polled for one in the end, whatever
\* discoveries are lost or fail, unless the board is polled for another, an
\* import leaves it without a website, or a stale write crossed it.
BoardIsFound ==
  \A c \in Registered :
    c \notin crossed /\ entry[c].status \in Discoverable
      ~> \/ Fetchable(c) \/ c \in crossed \/ entry[c].status = "no_website"
         \/ Confirmed(BoardOnSite(site[c]), listing) = NoBoard
         \/ HoldersOf(BoardOnSite(site[c]), c) # {}
=============================================================================
