--------------------------- MODULE LinkedInContact ---------------------------
(***************************************************************************)
(* Collecting from LinkedIn in a browser (LinkedInOutreachService and the  *)
(* LinkedIn part of RealBrowserService).  An outreach lists a company's    *)
(* people, picks one, reads that person's posts in a second browser and    *)
(* drafts a message; a search reads a number of pages of results.          *)
(* PROCESS_WEBSITE and the test endpoint may run outreaches at once.       *)
(*                                                                         *)
(* Whether a page wants a session is read off its address and its text,    *)
(* which tells neither who is signed in nor who is not: any visit may meet *)
(* the wall, after a login as well as before.  Chrome does not open a      *)
(* persistent profile twice.  LinkedIn, Chrome and the LLM are external:   *)
(* each call may throw.                                                    *)
(***************************************************************************)
EXTENDS Subsequence

CONSTANTS
    Errand,             \* outreaches and searches
    Person, Snippet,
    Persistent,         \* CARLETON_REAL_BROWSER_USER_DATA_DIR is set
    HasCredentials,     \* the LinkedIn connector holds a username and a password
    MaxClicks,          \* MAX_LINKEDIN_SHOW_MORE_CLICKS, 25
    MaxRounds,          \* MAX_LINKEDIN_ACTIVITY_SCROLL_ROUNDS, 12
    LastShortRound,     \* the round after which the end of the feed is believed, 2
    MaxSnippets,        \* 5
    PageLimit           \* the pages of a search, 10 at most

ContactAssumption ==
    /\ IsFiniteSet(Person) /\ IsFiniteSet(Snippet)
    /\ Persistent \in BOOLEAN /\ HasCredentials \in BOOLEAN
    /\ MaxClicks \in Nat /\ MaxRounds \in Nat \ {0} /\ LastShortRound \in Nat
    /\ MaxSnippets \in Nat \ {0} /\ PageLimit \in Nat \ {0}
ASSUME ContactAssumption

VARIABLES
    errand,     \* what each errand is doing, and its result
    walled      \* history: searches LinkedIn did not let in

contactVars == <<errand, walled>>

-----------------------------------------------------------------------------
(* State *)

Skip == {"", "no_linkedin_url", "no_search_url", "linkedin_auth_required", "too_many_associated_members",
         "no_profiles_found"}

Task == {"people", "activity", "search"}

ErrandState == [pc : {"idle", "open", "goto", "login", "work", "click", "read", "next", "close",
                      "pick", "draft", "over"},
                task : Task,
                browser : BOOLEAN,
                turn : Nat,                 \* clicks, rounds or the page number
                people : Seq(Person),
                posts : SUBSET Snippet,
                skip : Skip,
                failed : BOOLEAN,
                contact : SUBSET Person,    \* of the result: one or none
                drafted : BOOLEAN]

Unstarted == [pc |-> "idle", task |-> "people", browser |-> FALSE, turn |-> 0, people |-> <<>>,
              posts |-> {}, skip |-> "", failed |-> FALSE, contact |-> {}, drafted |-> FALSE]

ContactTypeOK ==
    /\ errand \in [Errand -> ErrandState]
    /\ walled \subseteq Errand
    /\ \A e \in Errand : Cardinality(errand[e].posts) <= MaxSnippets

ContactInit ==
    /\ errand = [e \in Errand |-> Unstarted]
    /\ walled = {}

ErrandAt(e, pc) == errand[e].pc = pc
Doing(e, pc, task) == errand[e].pc = pc /\ errand[e].task = task
Go(e, pc) == errand' = [errand EXCEPT ![e].pc = pc]

\* One name cards or list items show, each person once.
Cards == {s \in UNION {[1 .. n -> Person] : n \in 0 .. Cardinality(Person)} :
            \A i, j \in DOMAIN s : s[i] = s[j] => i = j}

-----------------------------------------------------------------------------
(* Starting *)

\* runOutreach; a website without a LinkedIn address is left out.
RunOutreach(e) ==
    /\ ErrandAt(e, "idle")
    /\ \/ Go(e, "open")
       \/ errand' = [errand EXCEPT ![e].pc = "over", ![e].skip = "no_linkedin_url"]
    /\ UNCHANGED walled

\* collectLinkedInSearchPeopleProfileUrls
RunSearch(e) ==
    /\ ErrandAt(e, "idle")
    /\ \/ errand' = [errand EXCEPT ![e].pc = "open", ![e].task = "search", ![e].turn = 1]
       \/ errand' = [errand EXCEPT ![e].pc = "over", ![e].task = "search", ![e].skip = "no_search_url"]
    /\ UNCHANGED walled

ProfileInUse == Persistent /\ \E e \in Errand : errand[e].browser

OpenBrowser(e) ==
    /\ ErrandAt(e, "open")
    /\ ~ProfileInUse
    /\ errand' = [errand EXCEPT ![e].pc = "goto", ![e].browser = TRUE]
    /\ UNCHANGED walled

-----------------------------------------------------------------------------
(* ensureLinkedInSession *)

\* What each collection makes of a session it does not get: people are
\* skipped, posts are none, and a search keeps what it has.
NoSession(e) ==
    /\ errand' = [errand EXCEPT ![e].pc = "close",
                                ![e].skip = IF errand[e].task = "people"
                                               \/ (errand[e].task = "search" /\ errand[e].people = <<>>)
                                              THEN "linkedin_auth_required" ELSE ""]
    /\ walled' = IF errand[e].task = "search" THEN walled \cup {e} ELSE walled

\* linkedinPageRequiresAuth looks for a login address, and for the words of an
\* invitation to sign in or to join anywhere on the page.
GotoPage(e) ==
    /\ ErrandAt(e, "goto")
    /\ \/ Go(e, "work") /\ UNCHANGED walled
       \/ IF HasCredentials THEN Go(e, "login") /\ UNCHANGED walled ELSE NoSession(e)

\* The form does not appear, a checkpoint does, or the page that follows still
\* looks like a wall, as does the page itself when it is visited again.
SignIn(e) ==
    /\ ErrandAt(e, "login")
    /\ \/ Go(e, "work") /\ UNCHANGED walled
       \/ NoSession(e)

-----------------------------------------------------------------------------
(* collectLinkedInPeopleProfiles *)

\* Faulty: the method returns before its try block.
CountAndReturn(e) ==
    /\ Doing(e, "work", "people")
    /\ errand' = [errand EXCEPT ![e].pc = "over", ![e].skip = "too_many_associated_members"]
    /\ UNCHANGED walled

CountMembers(e) ==
    /\ Doing(e, "work", "people")
    /\ \/ Go(e, "click")
       \/ errand' = [errand EXCEPT ![e].pc = "close", ![e].skip = "too_many_associated_members"]
    /\ UNCHANGED walled

\* "Show more results", while there is such a button.
ClickShowMore(e) ==
    /\ Doing(e, "click", "people")
    /\ \/ /\ errand[e].turn < MaxClicks
          /\ errand' = [errand EXCEPT ![e].turn = @ + 1]
       \/ Go(e, "read")
    /\ UNCHANGED walled

ReadPeople(e) ==
    /\ Doing(e, "read", "people")
    /\ \E cards \in Cards : errand' = [errand EXCEPT ![e].pc = "close", ![e].people = cards]
    /\ UNCHANGED walled

-----------------------------------------------------------------------------
(* collectLinkedInProfileActivitySnippets *)

Quota(n) == IF n < MaxSnippets THEN n ELSE MaxSnippets

\* Posts that are new, up to the limit, are taken; then the feed is scrolled,
\* unless the limit is reached.
ReadPosts(e) ==
    /\ Doing(e, "work", "activity")
    /\ \E batch \in SUBSET Snippet, atEnd \in BOOLEAN :
         \E taken \in SUBSET (errand[e].posts \cup batch) :
           LET all == errand[e].posts \cup batch
               enough == Cardinality(taken) >= MaxSnippets
               last == (atEnd /\ errand[e].turn > LastShortRound) \/ errand[e].turn + 1 = MaxRounds
           IN /\ errand[e].posts \subseteq taken
              /\ Cardinality(taken) = Quota(Cardinality(all))
              /\ errand' = [errand EXCEPT ![e].posts = taken,
                                          ![e].pc = IF enough \/ last THEN "close" ELSE "work",
                                          ![e].turn = @ + 1]
    /\ UNCHANGED walled

-----------------------------------------------------------------------------
(* collectLinkedInSearchPeopleProfileUrls *)

TakeUnseen(people, cards) ==
    people \o Picked(cards, {i \in DOMAIN cards : \A j \in DOMAIN people : people[j] # cards[i]})

ReadResults(e) ==
    /\ Doing(e, "work", "search")
    /\ \E cards \in Cards :
         errand' = [errand EXCEPT ![e].people = TakeUnseen(@, cards),
                                  ![e].pc = IF errand[e].turn < PageLimit THEN "next" ELSE "close"]
    /\ UNCHANGED walled

\* By the button, or else by address: there is always a next page, and the loop
\* then visits it once more.
NextPage(e) ==
    /\ Doing(e, "next", "search")
    /\ errand' = [errand EXCEPT ![e].pc = "goto", ![e].turn = @ + 1]
    /\ UNCHANGED walled

-----------------------------------------------------------------------------
(* The end of a collection *)

\* Anything in a browser may throw; so does opening one.
FailErrand(e) ==
    /\ errand[e].pc \in {"open", "goto", "login", "work", "click", "read", "next"}
    /\ errand' = [errand EXCEPT ![e].pc = "close", ![e].failed = TRUE]
    /\ UNCHANGED walled

\* What an outreach leaves behind.
Result(x) == [x EXCEPT !.pc = "over", !.turn = 0, !.people = <<>>, !.posts = {}]

AfterPeople(x) ==
    IF x.failed \/ x.skip # "" THEN Result(x)
    ELSE IF x.people = <<>> THEN Result([x EXCEPT !.skip = "no_profiles_found"])
    ELSE [x EXCEPT !.pc = "pick"]

\* The finally block; what is next depends on who called.
CloseErrand(e) ==
    LET x == [errand[e] EXCEPT !.browser = FALSE]
    IN /\ ErrandAt(e, "close")
       /\ errand' = [errand EXCEPT ![e] =
                       CASE x.task = "people"   -> AfterPeople(x)
                         [] x.task = "activity" -> IF x.failed THEN Result([x EXCEPT !.contact = {}])
                                                   ELSE [x EXCEPT !.pc = "draft"]
                         [] x.task = "search"   -> [x EXCEPT !.pc = "over"]]
       /\ UNCHANGED walled

\* The LLM's choice, or the first.
PickProfile(e) ==
    /\ ErrandAt(e, "pick")
    /\ \E i \in DOMAIN errand[e].people :
         errand' = [errand EXCEPT ![e].pc = "open", ![e].task = "activity", ![e].turn = 0,
                                  ![e].people = <<>>, ![e].contact = {errand[e].people[i]}]
    /\ UNCHANGED walled

\* The LLM's text, or a fixed one: there is a message in any case.
DraftMessage(e) ==
    /\ ErrandAt(e, "draft")
    /\ errand' = [errand EXCEPT ![e] = Result([errand[e] EXCEPT !.drafted = TRUE])]
    /\ UNCHANGED walled

ErrandStep(e) ==
    \/ OpenBrowser(e) \/ GotoPage(e) \/ SignIn(e) \/ CountMembers(e) \/ ClickShowMore(e)
    \/ ReadPeople(e) \/ ReadPosts(e) \/ ReadResults(e) \/ NextPage(e) \/ CloseErrand(e)
    \/ PickProfile(e) \/ DraftMessage(e) \/ FailErrand(e)

ContactNext == \E e \in Errand : RunOutreach(e) \/ RunSearch(e) \/ ErrandStep(e)

ContactSpec == ContactInit /\ [][ContactNext]_contactVars

-----------------------------------------------------------------------------
(* Properties *)

\* However an errand ends, skipped, refused, failed or done, its browser is
\* closed.
BrowserReleased ==
    \A e \in Errand : errand[e].pc \in {"idle", "pick", "draft", "over"} => ~errand[e].browser

\* An outreach with a reason to skip reports neither a contact nor a message,
\* which its caller would store.
SkippedReportsNothing ==
    \A e \in Errand : errand[e].skip # "" => errand[e].contact = {} /\ ~errand[e].drafted

\* A search that gives no reason has seen every page, unless it failed or was
\* shut out on the way: that it does not tell, but it does not come with empty
\* hands then.  One that gives a reason keeps nobody back.
SearchIsWhole ==
    \A e \in Errand : Doing(e, "over", "search") =>
      IF errand[e].skip = ""
        THEN errand[e].turn = PageLimit \/ errand[e].failed \/ (e \in walled /\ errand[e].people # <<>>)
        ELSE errand[e].people = <<>>

\* A person that several pages of results show is collected once.
PeopleListedOnce ==
    \A e \in Errand : \A i, j \in DOMAIN errand[e].people :
      errand[e].people[i] = errand[e].people[j] => i = j

\* An errand says what it did, and leaves no browser behind.
ErrandsAreSound ==
    /\ ContactTypeOK /\ BrowserReleased /\ SkippedReportsNothing
    /\ SearchIsWhole /\ PeopleListedOnce
=============================================================================
