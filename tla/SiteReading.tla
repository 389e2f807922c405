----------------------------- MODULE SiteReading -----------------------------
(***************************************************************************)
(* What a company's own site says about the board its jobs are on: one     *)
(* look by discovery (find_boards.py), and a second, harder one by a deep  *)
(* dive (deep_dive.py).  A page is the set of boards it names.  Guessing   *)
(* vendors, parsing markup and the wording of reasons are left out.        *)
(***************************************************************************)
EXTENDS Naturals, FiniteSets

CONSTANTS
  JobBoards,      \* a system and a slug on it, each
  NoBoard,
  NoPage       \* no page at an address

\* lead: what the row says to start from: nothing, a board's own address, or a
\* page of the company's.  answers: as given, at the other form of its address
\* (www. added or dropped) only, or refusing robots.  home, careers, further:
\* the boards named by the home page, its careers page and the first page that
\* one links to.  own: the board called like the site.  network: the pages are
\* built on a job-board system of many companies.  system: they link a job
\* system that is not read yet.
Sites ==
  [lead : {"none", "board", "page"}, board : JobBoards \cup {NoBoard},
   answers : {"as given", "other form", "refuses"},
   home : SUBSET JobBoards, careers : (SUBSET JobBoards) \cup {NoPage},
   further : (SUBSET JobBoards) \cup {NoPage},
   own : JobBoards \cup {NoBoard}, network : BOOLEAN, system : BOOLEAN]

\* The board a page names as the company's: the only one on it, or the one of
\* several that is called like the site.
ReadPage(s, names) ==
  IF s.network \/ names = {} THEN NoBoard
  ELSE IF Cardinality(names) = 1 THEN CHOOSE b \in names : TRUE
  ELSE IF s.own \in names THEN s.own ELSE NoBoard

\* The page whose links describe the company: the careers page where there is
\* one, or else the one it was asked for.
LastRead(s) == IF s.careers = NoPage THEN s.home ELSE s.careers

\* The home page, and one careers page where it names no board.
BoardOnSite(s) ==
  IF s.lead = "board" THEN s.board
  ELSE IF s.lead = "none" \/ s.answers # "as given" THEN NoBoard
  ELSE IF ReadPage(s, s.home) # NoBoard THEN ReadPage(s, s.home)
  ELSE IF s.careers = NoPage THEN NoBoard ELSE ReadPage(s, s.careers)

\* Which fix a company needs whose board was not verified.
Category(s) ==
  CASE s.lead = "none" -> "no_website"
    [] s.lead = "page" /\ s.answers = "refuses" -> "blocked"
    [] s.lead = "page" /\ s.answers = "other form" -> "unreachable"
    [] BoardOnSite(s) # NoBoard -> "board_empty"
    [] OTHER ->
         IF LastRead(s) # {} \/ s.network THEN "multi_company_board"
         ELSE IF s.system THEN "other_job_system"
         ELSE IF s.careers # NoPage THEN "careers_page_unreadable" ELSE "no_careers_page"

\* A board that lists nothing is a company not hiring today.
NotAnIssue == {"board_empty"}

\* A board counts when it lists an opening now.
Confirmed(b, listing) == IF b \in listing THEN b ELSE NoBoard

\* The site read at the other form of its address, and one link further in
\* than its careers page: where a dive looks, by what was noted.
DiveSite(s, category) ==
  CASE category = "unreachable" /\ s.answers = "other form" ->
         IF BoardOnSite([s EXCEPT !.answers = "as given"]) # NoBoard
           THEN BoardOnSite([s EXCEPT !.answers = "as given"])
         ELSE IF Category([s EXCEPT !.answers = "as given"]) = "careers_page_unreadable"
              /\ s.further # NoPage
           THEN ReadPage(s, s.further) ELSE NoBoard
    [] category = "careers_page_unreadable" /\ s.answers = "as given"
       /\ s.careers # NoPage /\ s.further # NoPage ->
         ReadPage(s, s.further)
    [] OTHER -> NoBoard

\* A known board that fails is looked for again on the company's site, unless
\* it refuses us or answers with nothing our reader understands.
DiveBoard(s, category) ==
  IF category \in {"board_blocked", "board_reads_empty"} THEN NoBoard ELSE BoardOnSite(s)

DeepDive(s, stage, category, listing) ==
  Confirmed(IF stage = "crawl" THEN DiveBoard(s, category) ELSE DiveSite(s, category), listing)
=============================================================================
