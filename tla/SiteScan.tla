------------------------------ MODULE SiteScan ------------------------------
(***************************************************************************)
(* How PROCESS_WEBSITE searches a website (BrowserService): its sitemaps   *)
(* say which pages it has, each page is read in a tab of one browser for   *)
(* the keywords, and if some page mentions one the contact pages are read  *)
(* as well.  Websites come one at a time: the channel has prefetch 1.      *)
(*                                                                         *)
(* The web is external: fetching a sitemap may fail at any time, and       *)
(* reading a page gives a hit, no hit, or nothing.                         *)
(***************************************************************************)
EXTENDS Subsequence

CONSTANTS
    Scan,            \* deliveries of a website
    Url,             \* the pages sitemaps list
    Root,            \* the website's own address
    ContactPage,     \* the pages whose path looks like a contact page
    Sitemap,
    SitemapPlaces,      \* where a sitemap is looked for, in order: three places in the code
    Body,            \* what each sitemap lists: other sitemaps, or pages
    MaxDepth,        \* 2 in the code
    MaxNested,       \* MAX_SITEMAP_NESTED, 12
    MaxPages,        \* MAX_PAGES_TO_SCAN, 150
    MaxVisits,       \* MAX_CONTACT_PAGE_VISITS, 6
    MaxHits          \* 20

ScanAssumption ==
    /\ Scan # {} /\ Root \notin Url /\ ContactPage \subseteq Url
    /\ SitemapPlaces \in Seq(Sitemap)
    /\ Body \in [Sitemap -> [index : {TRUE}, locs : Seq(Sitemap)]
                            \cup [index : {FALSE}, locs : Seq(Url)]]
    /\ MaxDepth \in 0..2 /\ MaxNested \in Nat /\ MaxHits \in Nat
    /\ MaxPages \in Nat \ {0} /\ MaxVisits \in Nat \ {0}
ASSUME ScanAssumption

VARIABLES
    scan,       \* the website being searched
    scanned,    \* how each delivery ended
    chrome,     \* deliveries whose browser is open
    fetches     \* history: sitemaps fetched for the present place

scanVars == <<scan, scanned, chrome, fetches>>

-----------------------------------------------------------------------------
(* State *)

Place == [map : Sitemap, depth : Nat]

\* pc says what is under way, and phase what the pages are listed for.
ScanState == [pc : {"idle", "launch", "list", "read", "visit", "close"},
              phase : {"keywords", "contact"},
              id : Scan,
              places : Seq(Sitemap),         \* candidates not tried
              stack : Seq(Place),            \* sitemaps to fetch, next first
              pages : Seq(Url \cup {Root}),  \* collected, then those still to be read
              hits : SUBSET (Url \cup {Root}),
              stopped : BOOLEAN]             \* enough hits

ScanTypeOK ==
    /\ scan \in ScanState
    /\ scanned \in [Scan -> {"no", "nothing", "saved", "failed"}]
    /\ chrome \subseteq Scan
    /\ fetches \in Nat
    /\ Cardinality(scan.hits) <= MaxHits + 1

ScanInit ==
    /\ scan = [pc |-> "idle", phase |-> "keywords", id |-> CHOOSE s \in Scan : TRUE,
               places |-> <<>>, stack |-> <<>>, pages |-> <<>>, hits |-> {}, stopped |-> FALSE]
    /\ scanned = [s \in Scan |-> "no"]
    /\ chrome = {}
    /\ fetches = 0

ScanAt(pc) == scan.pc = pc
Listed(s) == {s[i] : i \in DOMAIN s}

\* The first n of a sequence, as slice(0, n).
FirstOf(s, n) == SubSeq(s, 1, IF Len(s) < n THEN Len(s) ELSE n)

-----------------------------------------------------------------------------
(* The handler *)

StartScan(s) ==
    /\ ScanAt("idle")
    /\ scanned[s] = "no"
    /\ scan' = [scan EXCEPT !.pc = "launch", !.id = s, !.hits = {}, !.stopped = FALSE]
    /\ UNCHANGED <<scanned, chrome, fetches>>

Listing(phase) == [scan EXCEPT !.pc = "list", !.phase = phase, !.places = SitemapPlaces,
                               !.stack = <<>>, !.pages = <<>>]

\* A browser that does not start is an error the handler catches.
LaunchBrowser ==
    /\ ScanAt("launch")
    /\ \/ /\ chrome' = chrome \cup {scan.id}
          /\ scan' = Listing("keywords")
          /\ fetches' = 0
          /\ UNCHANGED scanned
       \/ /\ scan' = [scan EXCEPT !.pc = "idle"]
          /\ scanned' = [scanned EXCEPT ![scan.id] = "failed"]
          /\ UNCHANGED <<chrome, fetches>>

-----------------------------------------------------------------------------
(* resolveUrlsToScanFromWebsiteRoot *)

\* The next place is tried as long as none has listed a page.
TryPlace ==
    /\ ScanAt("list")
    /\ scan.stack = <<>> /\ scan.pages = <<>> /\ scan.places # <<>>
    /\ scan' = [scan EXCEPT !.places = Tail(@), !.stack = <<[map |-> Head(scan.places), depth |-> 0]>>]
    /\ fetches' = 0
    /\ UNCHANGED <<scanned, chrome>>

\* Appends what is new, in order.
AppendNew(pages, locs) ==
    pages \o Picked(locs, {i \in DOMAIN locs : /\ locs[i] \notin Listed(pages)
                                              /\ \A j \in 1..(i - 1) : locs[j] # locs[i]})

\* Faulty: one level more is followed.
TooDeepLater(depth) == depth > MaxDepth + 1
TooDeep(depth) == depth > MaxDepth

\* A sitemap that is an index is expanded in place; one too deep is left out.
FetchSitemap ==
    LET at == Head(scan.stack)
        below == FirstOf(Body[at.map].locs, MaxNested)
    IN /\ ScanAt("list")
       /\ scan.stack # <<>>
       /\ IF TooDeep(at.depth)
            THEN /\ scan' = [scan EXCEPT !.stack = Tail(@)]
                 /\ UNCHANGED fetches
            ELSE /\ fetches' = fetches + 1
                 /\ \/ scan' = [scan EXCEPT !.stack = Tail(@)]
                    \/ /\ Body[at.map].index
                       /\ scan' = [scan EXCEPT !.stack =
                                     [i \in DOMAIN below |-> [map |-> below[i], depth |-> at.depth + 1]]
                                     \o Tail(@)]
                    \/ /\ ~Body[at.map].index
                       /\ scan' = [scan EXCEPT !.stack = Tail(@),
                                               !.pages = AppendNew(@, Body[at.map].locs)]
       /\ UNCHANGED <<scanned, chrome>>

\* The pages to read: all that were collected, up to a limit, or the root.
ScanPages == IF scan.pages = <<>> THEN <<Root>> ELSE FirstOf(scan.pages, MaxPages)

\* The contact pages among them, after the root.
VisitOrder ==
    FirstOf(<<Root>> \o Picked(ScanPages, {i \in DOMAIN ScanPages : ScanPages[i] \in ContactPage}),
            MaxVisits)

ListPages ==
    /\ ScanAt("list")
    /\ scan.stack = <<>>
    /\ scan.pages # <<>> \/ scan.places = <<>>
    /\ scan' = IF scan.phase = "keywords"
                 THEN [scan EXCEPT !.pc = "read", !.pages = ScanPages]
                 ELSE [scan EXCEPT !.pc = "visit", !.pages = VisitOrder]
    /\ UNCHANGED <<scanned, chrome, fetches>>

-----------------------------------------------------------------------------
(* collectKeywordMatchesAcrossPages *)

\* What a tab gives of a page; an error gives no text.  The tab is closed
\* either way.
Readings == {"keyword", "no keyword", "no text"}

Enough(hits) == Cardinality(hits) > MaxHits

ReadPage ==
    /\ ScanAt("read")
    /\ scan.pages # <<>> /\ ~scan.stopped
    /\ \E reading \in Readings :
         LET hits == IF reading = "keyword" THEN scan.hits \cup {Head(scan.pages)} ELSE scan.hits
         IN scan' = [scan EXCEPT !.pages = Tail(@), !.hits = hits, !.stopped = Enough(hits)]
    /\ UNCHANGED <<scanned, chrome, fetches>>

ReadAll == scan.pages = <<>> \/ scan.stopped

\* Without a hit the handler returns, and the browser stays open.
LeaveSite ==
    /\ ScanAt("read")
    /\ ReadAll /\ scan.hits = {}
    /\ scan' = [scan EXCEPT !.pc = "idle"]
    /\ scanned' = [scanned EXCEPT ![scan.id] = "nothing"]
    /\ UNCHANGED <<chrome, fetches>>

\* The pages are listed again for the contact details.
LookForContact ==
    /\ ScanAt("read")
    /\ ReadAll /\ scan.hits # {}
    /\ scan' = Listing("contact")
    /\ fetches' = 0
    /\ UNCHANGED <<scanned, chrome>>

VisitContactPage ==
    /\ ScanAt("visit")
    /\ scan' = IF Len(scan.pages) = 1 THEN [scan EXCEPT !.pages = <<>>, !.pc = "close"]
               ELSE [scan EXCEPT !.pages = Tail(@)]
    /\ UNCHANGED <<scanned, chrome, fetches>>

CloseBrowser ==
    /\ ScanAt("close")
    /\ chrome' = chrome \ {scan.id}
    /\ scanned' = [scanned EXCEPT ![scan.id] = "saved"]
    /\ scan' = [scan EXCEPT !.pc = "idle"]
    /\ UNCHANGED fetches

ScanStep ==
    \/ LaunchBrowser \/ TryPlace \/ FetchSitemap \/ ListPages \/ ReadPage \/ LeaveSite
    \/ LookForContact \/ VisitContactPage \/ CloseBrowser

ScanNext == (\E s \in Scan : StartScan(s)) \/ ScanStep

ScanSpec == ScanInit /\ [][ScanNext]_scanVars

-----------------------------------------------------------------------------
(* Properties *)

\* A browser that nobody uses any more was left by a website without a hit:
\* every other delivery has closed its own.  (Those that are left stay open
\* until the process ends.)
BrowsersAccounted ==
    \A s \in chrome : scanned[s] = "nothing" \/ (scan.id = s /\ ~ScanAt("idle"))

\* Each page is read once, however many sitemaps list it.
PagesReadOnce ==
    /\ \A i, j \in DOMAIN scan.pages : scan.pages[i] = scan.pages[j] => i = j
    /\ ScanAt("read") => scan.hits \cap Listed(scan.pages) = {}

\* Sitemaps that list each other, or themselves, are followed a bounded number
\* of times.
FetchesBounded ==
    fetches <= 1 + MaxNested + MaxNested * MaxNested

\* A scan reads each page once, in a bounded number of fetches, and leaves no
\* browser behind, except for a website without a hit.
ScanIsSound == ScanTypeOK /\ BrowsersAccounted /\ PagesReadOnce /\ FetchesBounded
=============================================================================
