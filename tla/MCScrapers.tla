----------------------------- MODULE MCScrapers -----------------------------
(***************************************************************************)
(* Instances of the two scrapers for TLC: of businesses and of LinkedIn    *)
(* profiles.  They share no row and no instance, so one run explores them  *)
(* one at a time; focus says which one moves.                              *)
(***************************************************************************)
EXTENDS BusinessScraper, LinkedInOutreach, TLC

CONSTANTS x1, x2, y1, y2, s1, s2, p1, o1, q1, l1

VARIABLE focus

\* x1 and x2 are runs of the one and users of the other, y1 and y2 its workers or
\* scrapers: only one of the two moves, so one permutation serves both.
Interchangeable == Permutations({x1, x2}) \cup Permutations({y1, y2}) \cup Permutations(Site)

ScrapersInit == focus \in {"businesses", "profiles"} /\ Init /\ OutreachInit

ScrapersNext ==
  /\ UNCHANGED focus
  /\ \/ focus = "businesses" /\ Next /\ UNCHANGED outreachVars
     \/ focus = "profiles" /\ OutreachNext /\ UNCHANGED vars

ScrapersSpec == ScrapersInit /\ [][ScrapersNext]_<<focus, vars, outreachVars>>

ScrapersFairSpec == ScrapersSpec /\ Fairness
=============================================================================
