------------------------------ MODULE HostFloor ------------------------------
(***************************************************************************)
(* What a RateLimiter promises of one host (packages/crawler/ratelimit.py, *)
(* the protocol): a caller is let through only when the host is owed no    *)
(* quiet, and then at least the floor is owed again; whatever else is      *)
(* recorded against the host - a redirect, a Retry-After, a Crawl-delay -  *)
(* only adds to the quiet.                                                 *)
(***************************************************************************)
EXTENDS Naturals

CONSTANTS
  Callers,
  LowestDelay    \* floor_for(host), above zero

VARIABLES
  quietFor,      \* how long the host is to be left alone
  through        \* the callers that may talk to it

floorVars == <<quietFor, through>>

FloorInit == quietFor = 0 /\ through = {}

LetThrough(c) ==
  /\ quietFor = 0 /\ c \notin through
  /\ through' = through \cup {c}
  /\ quietFor' \in Nat /\ quietFor' >= LowestDelay

MoreQuiet ==
  /\ through' \subseteq through
  /\ quietFor' \in Nat /\ quietFor' >= quietFor

TimePasses ==
  /\ quietFor' = IF quietFor = 0 THEN 0 ELSE quietFor - 1
  /\ UNCHANGED through

FloorNext == MoreQuiet \/ TimePasses \/ \E c \in Callers : LetThrough(c)

FloorSpec == FloorInit /\ [][FloorNext]_floorVars
=============================================================================
