----------------------------- MODULE MCServices -----------------------------
(***************************************************************************)
(* The services beside the assistants share no state: one run explores     *)
(* them one at a time, and focus says which one moves.                     *)
(***************************************************************************)
EXTENDS TeamAccess, UserAccounts, TeamSettings, SeoHelper, LinkTracking, Parking,
        SiteScan, LinkedInContact, Changelog, TLC

CONSTANTS alice, bob, t1, admin, notifier, index, list, extra, home, contact, about

VARIABLE focus

\* One notifier, whose first connector is the Kijiji one.
MCTrackerType == notifier :> "kijiji-notifier"
MCLeadConnector == notifier :> "Kijiji"

\* The first place is an index that lists itself, twice, and another sitemap; the
\* second lists a page twice.
MCCandidates == <<index, list>>
MCBody == index :> [index |-> TRUE, locs |-> <<index, index, extra>>]
          @@ extra :> [index |-> FALSE, locs |-> <<home, contact, about>>]
          @@ list :> [index |-> FALSE, locs |-> <<contact, home, contact>>]

\* The other services, which rest.
RestExcept(f) ==
    /\ f # "access"   => UNCHANGED accessVars
    /\ f # "accounts" => UNCHANGED accountVars
    /\ f # "settings" => UNCHANGED settingsVars
    /\ f # "seo"      => UNCHANGED seoVars
    /\ f # "tracking" => UNCHANGED trackingVars
    /\ f # "parking"  => UNCHANGED parkingVars
    /\ f # "scan"     => UNCHANGED scanVars
    /\ f # "contact"  => UNCHANGED contactVars
    /\ f # "changelog" => UNCHANGED changelogVars

\* What the others start from makes no difference while they rest.
Init ==
    /\ focus \in {"access", "accounts", "settings", "seo", "tracking", "parking", "scan", "contact",
                 "changelog"}
    /\ AccessInit /\ AccountsInit /\ SettingsInit /\ SeoInit /\ TrackingInit /\ ParkingInit
    /\ ScanInit /\ ContactInit /\ ChangelogInit
    /\ focus # "access" => group[AdminGroup].state = "live" /\ \A g \in Group \ {AdminGroup} : group[g].state = "absent"
    /\ focus # "accounts" => Accounts = {}

Next ==
    /\ UNCHANGED focus
    /\ \/ focus = "access" /\ AccessNext
       \/ focus = "accounts" /\ AccountsNext
       \/ focus = "settings" /\ SettingsNext
       \/ focus = "seo" /\ SeoNext
       \/ focus = "tracking" /\ TrackingNext
       \/ focus = "parking" /\ ParkingNext
       \/ focus = "scan" /\ ScanNext
       \/ focus = "contact" /\ ContactNext
       \/ focus = "changelog" /\ ChangelogNext
    /\ RestExcept(focus)

vars == <<focus, accessVars, accountVars, settingsVars, seoVars, trackingVars, parkingVars,
          scanVars, contactVars, changelogVars>>

Spec == Init /\ [][Next]_vars /\ SeoFairness
=============================================================================
