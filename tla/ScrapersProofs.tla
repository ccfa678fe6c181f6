-------------------------- MODULE ScrapersProofs --------------------------
(***************************************************************************)
(* Proofs about the two scrapers.                                          *)
(*                                                                         *)
(* LinkedInOutreach: its types, that a run is granted once while its       *)
(* steps are not taken away, that its instance goes with it, and that its  *)
(* leads are neither doubled nor, unless a report says so, reopened, for   *)
(* any runs, users, scrapers and leads.                                    *)
(*                                                                         *)
(* BusinessScraper: that its tables are neither doubled nor torn between   *)
(* two runs, that the status of a run is true, and that a final one stays, *)
(* for any runs, websites and pages, and any number of crashes and lost    *)
(* channels.                                                               *)
(***************************************************************************)
EXTENDS LinkedInOutreach, BusinessScraper, FiniteSetTheorems, TLAPS

-----------------------------------------------------------------------------
(* LinkedInOutreach *)

\* The initial records have their types.
LEMMA InitialRecords ==
  NoRun \in RunRow /\ NoTrigger \in Trigger /\ NoCall \in Call
  BY DEF NoRun, RunRow, NoTrigger, Trigger, NoCall, Call

LEMMA InitTyped == OutreachInit => OutreachTypeOK
  BY InitialRecords, OutreachAssumption
    DEF OutreachInit, OutreachTypeOK, OutreachAssumption, NoTrigger, NoCall

LEMMA TriggerTyped ==
  ASSUME OutreachTypeOK, NEW u \in Requester, TriggerStep(u)
  PROVE  OutreachTypeOK'
  <1> USE OutreachAssumption DEF OutreachAssumption, OutreachTypeOK, outreachHistory, requests
  <1>0. trigger[u] \in Trigger /\ NoTrigger \in Trigger /\ NoTrigger.pc = "idle"
    BY InitialRecords DEF NoTrigger
  <1>1. CASE \E s \in LinkedInSearch : RunForWorkflow(u, s)
    BY <1>1, <1>0 DEF RunForWorkflow, RunsFor, Trigger
  <1>2. CASE InsertRun(u)
    <2>1. PICK r \in Run :
            /\ searchRuns' = [searchRuns EXCEPT ![r] = [NoRun EXCEPT !.status = "pending",
                                                   !.search = trigger[u].search]]
            /\ trigger' = [trigger EXCEPT ![u].pc = "provision", ![u].run = r]
            /\ UNCHANGED <<scraperMachine, leads, call, outreachCrashes, outreachHistory>>
      BY <1>2 DEF InsertRun
    <2>2. [NoRun EXCEPT !.status = "pending", !.search = trigger[u].search] \in RunRow
      BY <1>0, InitialRecords DEF RunRow, Trigger
    <2>3. searchRuns' \in [Run -> RunRow]
      BY <2>1, <2>2
    <2>4. /\ trigger' \in [Requester -> Trigger]
          /\ \A v \in Requester : trigger'[v].pc \in {"provision", "name"} => trigger'[v].run # Nil
      BY <2>1, <1>0 DEF Trigger
    <2> QED
      BY <2>1, <2>3, <2>4
  <1>3. CASE ProvisionRun(u)
    <2>1. trigger[u].run \in Run
      BY <1>3, <1>0 DEF ProvisionRun, Trigger
    <2>2. /\ trigger' \in [Requester -> Trigger]
          /\ \A v \in Requester : trigger'[v].pc \in {"provision", "name"} => trigger'[v].run # Nil
      BY <1>3, <1>0 DEF ProvisionRun, Trigger
    <2> QED
      BY <1>3, <2>1, <2>2 DEF ProvisionRun
  <1>4. CASE NameInstance(u)
    <2>1. trigger[u].run \in Run
      BY <1>4, <1>0 DEF NameInstance, Trigger
    <2>2. searchRuns' \in [Run -> RunRow]
      BY <1>4, <2>1 DEF NameInstance, RunRow
    <2> QED
      BY <1>4, <1>0, <2>2 DEF NameInstance
  <1> QED
    BY <1>1, <1>2, <1>3, <1>4 DEF TriggerStep

\* A call that is replaced by a well-typed one leaves the calls well typed.
LEMMA CallReplaced ==
  ASSUME OutreachTypeOK, NEW p \in Scraper, NEW c \in Call,
         c.pc # "idle" => c.run # Nil, c.pc = "save" => c.row # Nil,
         call' = [call EXCEPT ![p] = c]
  PROVE  /\ call' \in [Scraper -> Call]
         /\ \A q \in Scraper : /\ call'[q].pc # "idle" => call'[q].run # Nil
                               /\ call'[q].pc = "save" => call'[q].row # Nil
  BY DEF OutreachTypeOK

LEMMA AskTyped ==
  ASSUME OutreachTypeOK, NEW p \in Scraper, NEW r \in Run, AskFor(p, r)
  PROVE  OutreachTypeOK'
  <1>0. r # Nil
    BY OutreachAssumption DEF OutreachAssumption
  <1>1. CASE ClaimRun(p, r)
    <2> DEFINE c == [NoCall EXCEPT !.pc = "claim", !.run = r]
    <2>1. c \in Call /\ c.run = r /\ c.pc = "claim"
      BY InitialRecords DEF NoCall, Call
    <2>2. call' = [call EXCEPT ![p] = c]
      BY <1>1 DEF ClaimRun
    <2>3. disputed' \subseteq Run
      BY <1>1 DEF ClaimRun, OutreachTypeOK
    <2> HIDE DEF c
    <2> QED
      BY <1>0, <1>1, <2>1, <2>2, <2>3, CallReplaced DEF ClaimRun, OutreachTypeOK
  <1>2. ASSUME NEW steps \in {"absent", "none", "some"}, UpdateProgress(p, r, steps)
        PROVE  OutreachTypeOK'
    <2>1. searchRuns' \in [Run -> RunRow]
      <3>1. PICK b \in BOOLEAN : searchRuns' = searchRuns \/ searchRuns' = [searchRuns EXCEPT ![r].claimed = b]
        BY <1>2 DEF UpdateProgress
      <3>2. searchRuns \in [Run -> RunRow]
        BY DEF OutreachTypeOK
      <3> QED
        BY <3>1, <3>2 DEF RunRow
    <2>2. claims' \in [Run -> Nat]
      BY <1>2 DEF UpdateProgress, OutreachTypeOK
    <2> QED
      BY <1>2, <2>1, <2>2 DEF UpdateProgress, OutreachTypeOK, requests
  <1>3. ASSUME NEW offered \in SUBSET Lead, NEW decides \in SUBSET offered,
               NEW reopens \in SUBSET (offered \ decides),
               UpsertLeads(p, r, offered, decides, reopens)
        PROVE  OutreachTypeOK'
    <2> DEFINE c == [NoCall EXCEPT !.pc = "leads", !.run = r, !.todo = offered,
                                   !.decides = decides, !.reopens = reopens]
    <2>1. c \in Call /\ c.run = r /\ c.pc = "leads"
      BY InitialRecords DEF NoCall, Call
    <2>2. call' = [call EXCEPT ![p] = c]
      BY <1>3 DEF UpsertLeads
    <2>3. mixed' \subseteq Run
      BY <1>3 DEF UpsertLeads, OutreachTypeOK
    <2> HIDE DEF c
    <2> QED
      BY <1>0, <1>3, <2>1, <2>2, <2>3, CallReplaced DEF UpsertLeads, OutreachTypeOK
  <1>4. ASSUME NEW status \in {"completed", "failed"}, CompleteRun(p, r, status)
        PROVE  OutreachTypeOK'
    <2> DEFINE c == [NoCall EXCEPT !.pc = "complete", !.run = r, !.status = status,
                                   !.named = searchRuns[r].named]
    <2>0. searchRuns[r].named \in BOOLEAN
      BY DEF OutreachTypeOK, RunRow
    <2>1. c \in Call /\ c.run = r /\ c.pc = "complete"
      BY <2>0, InitialRecords DEF NoCall, Call
    <2>2. call' = [call EXCEPT ![p] = c]
      BY <1>4 DEF CompleteRun
    <2> HIDE DEF c
    <2> QED
      BY <1>0, <1>4, <2>1, <2>2, CallReplaced DEF CompleteRun, OutreachTypeOK, outreachHistory
  <1> QED
    BY <1>1, <1>2, <1>3, <1>4 DEF AskFor

LEMMA CallTyped ==
  ASSUME OutreachTypeOK, NEW p \in Scraper, CallStep(p)
  PROVE  OutreachTypeOK'
  <1>0. call[p] \in Call /\ NoCall \in Call /\ NoCall.pc = "idle"
    BY InitialRecords DEF OutreachTypeOK, NoCall
  <1>1. call[p].pc # "idle" => call[p].run \in Run
    BY <1>0 DEF OutreachTypeOK, Call
  <1>2. CASE WriteClaim(p)
    <2>0. call[p].run \in Run
      BY <1>1, <1>2 DEF WriteClaim
    <2>1. searchRuns' \in [Run -> RunRow]
      BY <1>2, <2>0 DEF WriteClaim, OutreachTypeOK, RunRow
    <2>2. claims' \in [Run -> Nat]
      BY <1>2, <2>0 DEF WriteClaim, OutreachTypeOK
    <2> QED
      BY <1>0, <1>2, <2>1, <2>2, CallReplaced DEF WriteClaim, OutreachTypeOK
  <1>3. CASE FindLead(p)
    <2>0. PICK l \in call[p].todo :
            \E x \in leads \cup {[run |-> call[p].run, lead |-> l, by |-> p, decided |-> FALSE]} :
              /\ call[p].pc = "leads"
              /\ call' = [call EXCEPT ![p].pc = "save", ![p].todo = @ \ {l},
                                      ![p].decides = @ \ {l}, ![p].row = Merged(x, p)]
      BY <1>3 DEF FindLead, Existing
    <2>1. PICK x \in leads \cup {[run |-> call[p].run, lead |-> l, by |-> p, decided |-> FALSE]} :
            /\ call[p].pc = "leads"
            /\ call' = [call EXCEPT ![p].pc = "save", ![p].todo = @ \ {l},
                                    ![p].decides = @ \ {l}, ![p].row = Merged(x, p)]
      BY <2>0
    <2> DEFINE c == [call[p] EXCEPT !.pc = "save", !.todo = @ \ {l}, !.decides = @ \ {l},
                                    !.row = Merged(x, p)]
    <2>2. x \in LeadRow
      BY <1>0, <1>1, <2>1 DEF OutreachTypeOK, LeadRow, Call
    <2>3. Merged(x, p) \in LeadRow
      BY <2>2 DEF Merged, LeadRow
    <2>4. Merged(x, p) # Nil
      BY <2>3, OutreachAssumption DEF OutreachAssumption, LeadRow
    <2>5. c \in Call /\ c.run = call[p].run /\ c.pc = "save" /\ c.row = Merged(x, p)
      BY <1>0, <2>3 DEF Call
    <2>6. call' = [call EXCEPT ![p] = c]
      BY <2>1, <1>0 DEF OutreachTypeOK
    <2>7. c.run # Nil
      BY <2>1, <2>5 DEF OutreachTypeOK
    <2> HIDE DEF c
    <2> QED
      BY <1>3, <2>4, <2>5, <2>6, <2>7, CallReplaced
        DEF FindLead, OutreachTypeOK, outreachHistory
  <1>4. CASE SaveLead(p)
    <2> DEFINE c == IF call[p].todo = {} THEN NoCall
                    ELSE [call[p] EXCEPT !.pc = "leads", !.row = Nil]
    <2>1. call[p].row \in LeadRow
      BY <1>0, <1>4 DEF SaveLead, OutreachTypeOK, Call
    <2>2. leads' \subseteq LeadRow
      BY <1>4, <2>1 DEF SaveLead, OutreachTypeOK
    <2>3. /\ c \in Call
          /\ c.pc # "idle" => c.run # Nil
          /\ c.pc # "save"
      BY <1>0, <1>4 DEF SaveLead, Call, OutreachTypeOK
    <2>4. call' = [call EXCEPT ![p] = c]
      BY <1>4 DEF SaveLead
    <2> HIDE DEF c
    <2> QED
      BY <1>4, <2>2, <2>3, <2>4, CallReplaced DEF SaveLead, OutreachTypeOK, outreachHistory
  <1>5. CASE WriteStatus(p)
    <2> DEFINE c == IF call[p].named THEN [call[p] EXCEPT !.pc = "delete"] ELSE NoCall
    <2>1. searchRuns' \in [Run -> RunRow] /\ left' \subseteq Run
      BY <1>0, <1>5, <1>1 DEF WriteStatus, OutreachTypeOK, RunRow, Call
    <2>2. /\ c \in Call
          /\ c.pc # "idle" => c.run # Nil
          /\ c.pc # "save"
      BY <1>0, <1>5 DEF WriteStatus, Call, OutreachTypeOK
    <2>3. call' = [call EXCEPT ![p] = c]
      BY <1>5, <1>0 DEF WriteStatus, OutreachTypeOK
    <2> HIDE DEF c
    <2> QED
      BY <1>5, <2>1, <2>2, <2>3, CallReplaced DEF WriteStatus, OutreachTypeOK
  <1>6. CASE DeleteInstance(p)
    BY <1>0, <1>1, <1>6, CallReplaced DEF DeleteInstance, OutreachTypeOK
  <1> QED
    BY <1>2, <1>3, <1>4, <1>5, <1>6 DEF CallStep

LEMMA CrashTyped == OutreachTypeOK /\ OutreachCrash => OutreachTypeOK'
  BY InitialRecords, OutreachAssumption
    DEF OutreachTypeOK, OutreachCrash, OutreachAssumption, NoTrigger, NoCall

LEMMA NextTyped == OutreachTypeOK /\ [OutreachNext]_outreachVars => OutreachTypeOK'
  <1> SUFFICES ASSUME OutreachTypeOK, [OutreachNext]_outreachVars PROVE OutreachTypeOK'
    OBVIOUS
  <1>1. CASE UNCHANGED outreachVars
    BY <1>1 DEF OutreachTypeOK, outreachVars, outreachHistory, requests
  <1> QED
    BY <1>1, TriggerTyped, AskTyped, CallTyped, CrashTyped DEF OutreachNext

\* Every reachable state of the runs, leads and calls of LinkedIn searches is
\* well typed.
THEOREM TypeCorrect == OutreachSpec => []OutreachTypeOK
  BY InitTyped, NextTyped, PTL DEF OutreachSpec

-----------------------------------------------------------------------------
(* Claims *)

Claiming(p, r) == call[p].pc = "claim" /\ call[p].run = r

Claimed(r) == searchRuns[r].claimed

\* A call is about a run that exists, and a run that does not has no claim.
CallsExist ==
  /\ \A p \in Scraper : call[p].pc # "idle" => searchRuns[call[p].run].status # "none"
  /\ \A r \in Run : searchRuns[r].status = "none" => claims[r] = 0

\* Until a claim is written nobody else has claimed the run, and it shows.
ClaimsAgree ==
  \A r \in Run \ disputed :
    /\ \A p, q \in Scraper : Claiming(p, r) /\ Claiming(q, r) => p = q
    /\ \A p \in Scraper : Claiming(p, r) => claims[r] = 0
    /\ claims[r] <= 1
    /\ claims[r] = 1 => Claimed(r)

ClaimInv == OutreachTypeOK /\ CallsExist /\ ClaimsAgree

\* A step that grants nothing, and neither loses a run nor its claim, keeps the
\* claims in agreement.
LEMMA QuietStep ==
  ASSUME ClaimInv, UNCHANGED <<claims, disputed>>,
         \A x \in Run : searchRuns'[x].status = "none" => searchRuns[x].status = "none",
         \A x \in Run : searchRuns[x].status # "none" /\ Claimed(x) => Claimed(x)',
         \A q \in Scraper : call'[q].pc # "idle" => searchRuns'[call'[q].run].status # "none",
         \A q \in Scraper, x \in Run : Claiming(q, x)' => Claiming(q, x)
  PROVE  CallsExist' /\ ClaimsAgree'
  <1>1. CallsExist'
    BY DEF ClaimInv, CallsExist
  <1>2. ASSUME NEW x \in Run, x \notin disputed
        PROVE  /\ \A p, q \in Scraper : Claiming(p, x)' /\ Claiming(q, x)' => p = q
               /\ \A p \in Scraper : Claiming(p, x)' => claims[x] = 0
               /\ claims[x] <= 1
               /\ claims[x] = 1 => Claimed(x)'
    BY <1>2 DEF ClaimInv, CallsExist, ClaimsAgree
  <1> QED
    BY <1>1, <1>2 DEF ClaimsAgree

LEMMA InitClaims == OutreachInit => ClaimInv
  BY InitTyped DEF OutreachInit, ClaimInv, CallsExist, ClaimsAgree, Claiming, Claimed, NoCall, RunExists

\* Whoever calls does so about a run.
LEMMA CallsTyped ==
  ASSUME OutreachTypeOK
  PROVE  /\ \A q \in Scraper : call[q].pc # "idle" => call[q].run \in Run
         /\ NoCall.pc = "idle"
  BY DEF OutreachTypeOK, Call, NoCall

LEMMA TriggerClaims ==
  ASSUME ClaimInv, NEW u \in Requester, TriggerStep(u)
  PROVE  CallsExist' /\ ClaimsAgree'
  <1>1. UNCHANGED <<call, claims, disputed>>
    BY DEF TriggerStep, RunForWorkflow, InsertRun, ProvisionRun, NameInstance, outreachHistory
  <1>2. /\ \A x \in Run : searchRuns'[x].status = "none" => searchRuns[x].status = "none"
        /\ \A x \in Run : searchRuns[x].status # "none" /\ Claimed(x) => Claimed(x)'
    <2>1. CASE InsertRun(u)
      <3>1. PICK r \in Run :
              /\ ~ RunExists(r)
              /\ searchRuns' = [searchRuns EXCEPT ![r] = [NoRun EXCEPT !.status = "pending",
                                                     !.search = trigger[u].search]]
        BY <2>1 DEF InsertRun
      <3>2. /\ searchRuns[r].status = "none" /\ searchRuns'[r].status = "pending"
            /\ \A x \in Run : x # r => searchRuns'[x] = searchRuns[x]
        BY <3>1 DEF ClaimInv, OutreachTypeOK, NoRun, RunExists
      <3>3. \A x \in Run : x # r => (Claimed(x)' <=> Claimed(x))
        BY <3>2 DEF Claimed
      <3> QED
        BY <3>2, <3>3 DEF RunRow
    <2>2. CASE NameInstance(u)
      <3>1. trigger[u].run \in Run
        BY <2>2 DEF NameInstance, ClaimInv, OutreachTypeOK, Trigger
      <3>2. \A x \in Run : /\ searchRuns'[x].status = searchRuns[x].status
                          /\ searchRuns'[x].claimed = searchRuns[x].claimed
        BY <2>2, <3>1 DEF NameInstance, ClaimInv, OutreachTypeOK, RunRow
      <3>3. \A x \in Run : Claimed(x)' <=> Claimed(x)
        BY <3>2 DEF Claimed
      <3> QED
        BY <3>2, <3>3 DEF RunRow
    <2>3. CASE UNCHANGED searchRuns
      BY <2>3 DEF Claimed
    <2> QED
      BY <2>1, <2>2, <2>3 DEF TriggerStep, RunForWorkflow, ProvisionRun
  <1>3. \A q \in Scraper : call'[q].pc # "idle" => searchRuns'[call'[q].run].status # "none"
    BY <1>1, <1>2, CallsTyped DEF ClaimInv, CallsExist
  <1> QED
    BY <1>1, <1>2, <1>3, QuietStep DEF Claiming

LEMMA AskClaims ==
  ASSUME ClaimInv, NEW p \in Scraper, NEW r \in Run, AskFor(p, r)
  PROVE  CallsExist' /\ ClaimsAgree'
  <1>1. CASE ClaimRun(p, r)
    <2>1. /\ call'[p].pc = "claim" /\ call'[p].run = r
          /\ \A q \in Scraper : q # p => call'[q] = call[q]
      BY <1>1, InitialRecords DEF ClaimRun, ClaimInv, OutreachTypeOK, Call
    <2>2. searchRuns[r].status # "none" /\ ~ Claimed(r)
      BY <1>1 DEF ClaimRun, Claimable, RunExists, Claimed
    <2>3. claims[r] \in Nat
      BY DEF ClaimInv, OutreachTypeOK
    <2>4. r \notin disputed => claims[r] = 0
      BY <2>2, <2>3 DEF ClaimInv, ClaimsAgree
    <2>5. r \notin disputed' => \A q \in Scraper : ~ Claiming(q, r)
      BY <1>1 DEF ClaimRun, Claiming
    <2>6. /\ UNCHANGED <<searchRuns, claims>>
          /\ disputed \subseteq disputed'
      BY <1>1 DEF ClaimRun
    <2>7. CallsExist'
      BY <2>1, <2>2, <2>6 DEF ClaimInv, CallsExist
    <2>8. ASSUME NEW x \in Run \ disputed'
          PROVE  /\ \A q, s \in Scraper : Claiming(q, x)' /\ Claiming(s, x)' => q = s
                 /\ \A q \in Scraper : Claiming(q, x)' => claims'[x] = 0
      <3>1. CASE x = r
        BY <3>1, <2>1, <2>4, <2>5, <2>6 DEF Claiming
      <3>2. CASE x # r
        BY <3>2, <2>1, <2>6 DEF Claiming, ClaimInv, ClaimsAgree
      <3> QED
        BY <3>1, <3>2
    <2>9. ASSUME NEW x \in Run \ disputed'
          PROVE  claims'[x] <= 1 /\ (claims'[x] = 1 => Claimed(x)')
      BY <2>6 DEF ClaimInv, ClaimsAgree, Claimed
    <2> QED
      BY <2>7, <2>8, <2>9 DEF ClaimsAgree
  <1>2. ASSUME NEW steps \in {"absent", "none", "some"}, UpdateProgress(p, r, steps)
        PROVE  CallsExist' /\ ClaimsAgree'
    <2>1. UNCHANGED <<call, disputed>>
      BY <1>2 DEF UpdateProgress, requests
    <2>2. \A x \in Run : searchRuns'[x].status = searchRuns[x].status
      BY <1>2 DEF UpdateProgress, ClaimInv, OutreachTypeOK, RunRow
    <2>3. \A x \in Run : x # r => searchRuns'[x] = searchRuns[x] /\ claims'[x] = claims[x]
      BY <1>2 DEF UpdateProgress, ClaimInv, OutreachTypeOK
    <2>4. \A x \in Run : x # r => (Claimed(x)' <=> Claimed(x))
      BY <2>3 DEF Claimed
    <2>5. \/ claims'[r] = 0
          \/ claims'[r] = claims[r] /\ (Claimed(r) => Claimed(r)')
      BY <1>2 DEF UpdateProgress, ClaimInv, OutreachTypeOK, RunRow, Claimed
    <2>6. CallsExist'
      <3>1. \A q \in Scraper : call'[q].pc # "idle" => searchRuns'[call'[q].run].status # "none"
        BY <2>1, <2>2, CallsTyped DEF ClaimInv, CallsExist
      <3>2. \A x \in Run : searchRuns'[x].status = "none" => claims'[x] = 0
        BY <2>2, <2>3, <2>5 DEF ClaimInv, CallsExist
      <3> QED
        BY <3>1, <3>2 DEF CallsExist
    <2>7. ASSUME NEW x \in Run \ disputed'
          PROVE  /\ \A q, s \in Scraper : Claiming(q, x)' /\ Claiming(s, x)' => q = s
                 /\ \A q \in Scraper : Claiming(q, x)' => claims'[x] = 0
                 /\ claims'[x] <= 1
                 /\ claims'[x] = 1 => Claimed(x)'
      <3>1. /\ \A q, s \in Scraper : Claiming(q, x) /\ Claiming(s, x) => q = s
            /\ \A q \in Scraper : Claiming(q, x) => claims[x] = 0
            /\ claims[x] <= 1
            /\ claims[x] = 1 => Claimed(x)
        BY <2>1 DEF ClaimInv, ClaimsAgree
      <3>2. \A q \in Scraper : Claiming(q, x)' <=> Claiming(q, x)
        BY <2>1 DEF Claiming
      <3>3. \/ claims'[x] = 0
            \/ claims'[x] = claims[x] /\ (Claimed(x) => Claimed(x)')
        BY <2>3, <2>4, <2>5
      <3>4. CASE claims'[x] = 0
        <4>1. \A q, s \in Scraper : Claiming(q, x)' /\ Claiming(s, x)' => q = s
          BY <3>1, <3>2
        <4>2. \A q \in Scraper : Claiming(q, x)' => claims'[x] = 0
          BY <3>4
        <4>3. claims'[x] <= 1 /\ claims'[x] # 1
          BY <3>4
        <4> QED
          BY <4>1, <4>2, <4>3
      <3>5. CASE claims'[x] = claims[x] /\ (Claimed(x) => Claimed(x)')
        BY <3>1, <3>2, <3>5
      <3> QED
        BY <3>3, <3>4, <3>5
    <2> QED
      BY <2>6, <2>7 DEF ClaimsAgree
  <1>3. ASSUME NEW offered \in SUBSET Lead, NEW decides \in SUBSET offered,
               NEW reopens \in SUBSET (offered \ decides),
               UpsertLeads(p, r, offered, decides, reopens)
        PROVE  CallsExist' /\ ClaimsAgree'
    <2>1. /\ call'[p].pc = "leads" /\ call'[p].run = r
          /\ \A q \in Scraper : q # p => call'[q] = call[q]
      BY <1>3, InitialRecords DEF UpsertLeads, ClaimInv, OutreachTypeOK, Call
    <2>2. UNCHANGED <<searchRuns, claims, disputed>> /\ searchRuns[r].status # "none"
      BY <1>3 DEF UpsertLeads, RunExists
    <2>3. /\ \A q \in Scraper : call'[q].pc # "idle" => searchRuns'[call'[q].run].status # "none"
          /\ \A q \in Scraper, x \in Run : Claiming(q, x)' => Claiming(q, x)
      BY <2>1, <2>2 DEF ClaimInv, CallsExist, Claiming
    <2> QED
      BY <2>2, <2>3, QuietStep DEF Claimed
  <1>4. ASSUME NEW status \in {"completed", "failed"}, CompleteRun(p, r, status)
        PROVE  CallsExist' /\ ClaimsAgree'
    <2>1. /\ call'[p].pc = "complete" /\ call'[p].run = r
          /\ \A q \in Scraper : q # p => call'[q] = call[q]
      BY <1>4, InitialRecords DEF CompleteRun, ClaimInv, OutreachTypeOK, Call
    <2>2. UNCHANGED <<searchRuns, claims, disputed>> /\ searchRuns[r].status # "none"
      BY <1>4 DEF CompleteRun, RunExists, outreachHistory
    <2>3. /\ \A q \in Scraper : call'[q].pc # "idle" => searchRuns'[call'[q].run].status # "none"
          /\ \A q \in Scraper, x \in Run : Claiming(q, x)' => Claiming(q, x)
      BY <2>1, <2>2 DEF ClaimInv, CallsExist, Claiming
    <2> QED
      BY <2>2, <2>3, QuietStep DEF Claimed
  <1> QED
    BY <1>1, <1>2, <1>3, <1>4 DEF AskFor

LEMMA CallClaims ==
  ASSUME ClaimInv, NEW p \in Scraper, CallStep(p)
  PROVE  CallsExist' /\ ClaimsAgree'
  <1> DEFINE r == call[p].run
  <1>0. /\ call[p].pc # "idle" => r \in Run
        /\ NoCall.pc = "idle"
    BY DEF ClaimInv, OutreachTypeOK, Call, NoCall
  <1>1. CASE WriteClaim(p)
    <2>1. /\ r \in Run /\ Claiming(p, r)
          /\ \A q \in Scraper : call'[q] = IF q = p THEN NoCall ELSE call[q]
          /\ \A x \in Run : claims'[x] = IF x = r THEN claims[r] + 1 ELSE claims[x]
          /\ disputed' = disputed
      BY <1>0, <1>1 DEF WriteClaim, Claiming, ClaimInv, OutreachTypeOK
    <2>2. /\ \A x \in Run : searchRuns'[x].status = searchRuns[x].status
          /\ \A x \in Run : x # r => searchRuns'[x] = searchRuns[x]
          /\ searchRuns'[r].claimed
      BY <1>1, <2>1 DEF WriteClaim, ClaimInv, OutreachTypeOK, RunRow
    <2>3. searchRuns[r].status # "none"
      BY <2>1 DEF ClaimInv, CallsExist, Claiming
    <2>4. /\ \A x \in Run : x = r => Claimed(x)'
          /\ \A x \in Run : x # r => (Claimed(x)' <=> Claimed(x))
      BY <2>2 DEF Claimed
    <2>5. CallsExist'
      <3>1. ASSUME NEW q \in Scraper, call'[q].pc # "idle"
            PROVE  searchRuns'[call'[q].run].status # "none"
        <4>1. q # p /\ call'[q] = call[q]
          BY <3>1, <2>1, <1>0
        <4> QED
          BY <4>1, <3>1, <2>2, CallsTyped DEF ClaimInv, CallsExist
      <3>2. ASSUME NEW x \in Run, searchRuns'[x].status = "none"
            PROVE  claims'[x] = 0
        BY <3>2, <2>1, <2>2, <2>3 DEF ClaimInv, CallsExist
      <3> QED
        BY <3>1, <3>2 DEF CallsExist
    <2>6. r \notin disputed => claims[r] = 0 /\ \A q \in Scraper : q # p => ~ Claiming(q, r)
      BY <2>1 DEF ClaimInv, ClaimsAgree
    <2>7. \A q \in Scraper, x \in Run : Claiming(q, x)' => Claiming(q, x) /\ q # p
      BY <1>0, <2>1 DEF Claiming
    <2>8. \A x \in Run \ disputed' : \A q, s \in Scraper :
             Claiming(q, x)' /\ Claiming(s, x)' => q = s
      BY <2>1, <2>7 DEF ClaimInv, ClaimsAgree
    <2>9. ASSUME NEW x \in Run \ disputed'
          PROVE  /\ \A q \in Scraper : Claiming(q, x)' => claims'[x] = 0
                 /\ claims'[x] <= 1
                 /\ claims'[x] = 1 => Claimed(x)'
      <3>1. CASE x = r
        <4>1. claims'[r] = 1
          BY <3>1, <2>1, <2>6
        <4>2. \A q \in Scraper : ~ Claiming(q, x)'
          BY <3>1, <2>1, <2>6, <2>7
        <4>3. claims'[x] <= 1
          BY <3>1, <4>1
        <4> QED
          BY <3>1, <4>2, <4>3, <2>4
      <3>2. CASE x # r
        <4>1. claims'[x] = claims[x] /\ x \notin disputed
          BY <3>2, <2>1
        <4>2. /\ \A q \in Scraper : Claiming(q, x) => claims[x] = 0
              /\ claims[x] <= 1
              /\ claims[x] = 1 => Claimed(x)
          BY <4>1 DEF ClaimInv, ClaimsAgree
        <4> QED
          BY <3>2, <4>1, <4>2, <2>4, <2>7
      <3> QED
        BY <3>1, <3>2
    <2> QED
      BY <2>5, <2>8, <2>9 DEF ClaimsAgree
  <1>2. ASSUME UNCHANGED <<claims, disputed>>,
               call[p].pc \notin {"idle", "claim"},
               \A x \in Run : Claimed(x) => Claimed(x)',
               \A x \in Run : searchRuns'[x].status = "none" => searchRuns[x].status = "none",
               \A q \in Scraper : q # p => call'[q] = call[q],
               call'[p].pc # "claim",
               call'[p].pc # "idle" => call'[p].run = r
        PROVE  CallsExist' /\ ClaimsAgree'
    <2>1. \A q \in Scraper : call'[q].pc # "idle" => searchRuns'[call'[q].run].status # "none"
      BY <1>2, CallsTyped DEF ClaimInv, CallsExist
    <2>2. \A q \in Scraper, x \in Run : Claiming(q, x)' => Claiming(q, x)
      BY <1>2 DEF Claiming
    <2> QED
      BY <1>2, <2>1, <2>2, QuietStep
  <1>3. CASE FindLead(p) \/ SaveLead(p) \/ DeleteInstance(p)
    <2>1. /\ UNCHANGED <<searchRuns, claims, disputed>>
          /\ call[p].pc \notin {"idle", "claim"}
      BY <1>3 DEF FindLead, SaveLead, DeleteInstance, outreachHistory
    <2>2. /\ \A q \in Scraper : q # p => call'[q] = call[q]
          /\ call'[p].pc # "claim"
          /\ call'[p].pc # "idle" => call'[p].run = r
      <3>1. CASE FindLead(p)
        <4>1. PICK l, x : call' = [call EXCEPT ![p].pc = "save", ![p].todo = @ \ {l},
                                               ![p].decides = @ \ {l}, ![p].row = Merged(x, p)]
          BY <3>1 DEF FindLead
        <4> QED
          BY <4>1 DEF ClaimInv, OutreachTypeOK, Call
      <3>2. CASE DeleteInstance(p)
        BY <3>2, <1>0 DEF DeleteInstance, ClaimInv, OutreachTypeOK, Call
      <3>3. CASE SaveLead(p)
        <4> DEFINE c == IF call[p].todo = {} THEN NoCall
                        ELSE [call[p] EXCEPT !.pc = "leads", !.row = Nil]
        <4>1. call' = [call EXCEPT ![p] = c] /\ call[p] \in Call
          BY <3>3 DEF SaveLead, ClaimInv, OutreachTypeOK
        <4>2. c.pc # "claim" /\ (c.pc # "idle" => c.run = r)
          BY <4>1, <1>0 DEF Call
        <4> HIDE DEF c
        <4> QED
          BY <4>1, <4>2 DEF ClaimInv, OutreachTypeOK
      <3> QED
        BY <1>3, <3>1, <3>2, <3>3
    <2> QED
      BY <2>1, <2>2, <1>2 DEF Claimed
  <1>4. CASE WriteStatus(p)
    <2>1. r \in Run /\ call[p].status \in {"completed", "failed"}
      BY <1>0, <1>4 DEF WriteStatus, ClaimInv, OutreachTypeOK, Call
    <2>3. /\ \A x \in Run : searchRuns'[x].claimed = searchRuns[x].claimed
          /\ \A x \in Run \ {r} : searchRuns'[x].status = searchRuns[x].status
          /\ searchRuns'[r].status # "none"
      BY <1>4, <2>1 DEF WriteStatus, ClaimInv, OutreachTypeOK, RunRow
    <2>4. /\ \A q \in Scraper : q # p => call'[q] = call[q]
          /\ call'[p].pc # "claim"
          /\ call'[p].pc # "idle" => call'[p].run = r
      BY <1>4, <1>0 DEF WriteStatus, ClaimInv, OutreachTypeOK, Call
    <2>5. \A x \in Run : searchRuns'[x].status = "none" => searchRuns[x].status = "none"
      BY <2>3
    <2>7. \A x \in Run : Claimed(x) => Claimed(x)'
      BY <2>3 DEF Claimed
    <2>6. UNCHANGED <<claims, disputed>> /\ call[p].pc \notin {"idle", "claim"}
      BY <1>4 DEF WriteStatus
    <2> QED
      BY <2>4, <2>5, <2>6, <2>7, <1>2
  <1> QED
    BY <1>1, <1>3, <1>4 DEF CallStep

LEMMA NextClaims == ClaimInv /\ [OutreachNext]_outreachVars => ClaimInv'
  <1> SUFFICES ASSUME ClaimInv, [OutreachNext]_outreachVars PROVE CallsExist' /\ ClaimsAgree'
    BY NextTyped DEF ClaimInv
  <1>1. CASE UNCHANGED outreachVars
    BY <1>1 DEF ClaimInv, CallsExist, ClaimsAgree, Claiming, Claimed, RunExists, outreachVars,
                outreachHistory, requests
  <1>2. CASE OutreachCrash
    BY <1>2 DEF OutreachCrash, ClaimInv, CallsExist, ClaimsAgree, Claiming, Claimed, RunExists, NoCall
  <1> QED
    BY <1>1, <1>2, TriggerClaims, AskClaims, CallClaims DEF OutreachNext

\* A run is granted to one scraper until somebody reports that it has no steps,
\* unless two claims of it overlap.
THEOREM ClaimedOnce == OutreachSpec => []OneClaim
  <1>1. ClaimInv => OneClaim
    BY DEF ClaimInv, ClaimsAgree, OneClaim
  <1> QED
    BY <1>1, InitClaims, NextClaims, PTL DEF OutreachSpec

-----------------------------------------------------------------------------
(* The instance of a run that has ended *)

\* A step that ends no run, makes no instance and takes up no deletion leaves no
\* instance behind.
LEMMA IdleKept ==
  ASSUME NoIdleInstance,
         scraperMachine' \subseteq scraperMachine, left \subseteq left',
         \A x \in scraperMachine' : searchRuns'[x].status = searchRuns[x].status,
         \A q \in Scraper : call[q].pc = "delete" => call'[q] = call[q]
  PROVE  NoIdleInstance'
  <1> SUFFICES ASSUME NEW x \in scraperMachine' \ left', Finished(x)'
               PROVE  \E p \in Scraper : call'[p].pc = "delete" /\ call'[p].run = x
    BY DEF NoIdleInstance
  <1>1. x \in scraperMachine \ left /\ Finished(x)
    BY DEF Finished
  <1> QED
    BY <1>1 DEF NoIdleInstance

LEMMA TriggerIdle ==
  ASSUME OutreachTypeOK, NoIdleInstance, NEW u \in Requester, TriggerStep(u)
  PROVE  NoIdleInstance'
  <1>0. UNCHANGED call
    BY DEF TriggerStep, RunForWorkflow, InsertRun, ProvisionRun, NameInstance
  <1>1. CASE \E s \in LinkedInSearch : RunForWorkflow(u, s)
    BY <1>0, <1>1, IdleKept DEF RunForWorkflow, outreachHistory
  <1>2. CASE InsertRun(u)
    <2>1. PICK r \in Run : searchRuns' = [searchRuns EXCEPT ![r] =
                             [NoRun EXCEPT !.status = "pending", !.search = trigger[u].search]]
      BY <1>2 DEF InsertRun
    <2>2. \A x \in Run : Finished(x)' => Finished(x)
      BY <2>1 DEF OutreachTypeOK, NoRun, Finished
    <2>3. UNCHANGED <<scraperMachine, left>>
      BY <1>2 DEF InsertRun, outreachHistory
    <2> QED
      BY <1>0, <2>2, <2>3 DEF NoIdleInstance, OutreachTypeOK
  <1>3. CASE ProvisionRun(u)
    <2>1. UNCHANGED searchRuns
      BY <1>3 DEF ProvisionRun
    <2>2. CASE UNCHANGED <<scraperMachine, left>>
      BY <1>0, <2>1, <2>2, IdleKept
    <2>3. CASE /\ scraperMachine' = scraperMachine \cup {trigger[u].run}
               /\ left' = IF Finished(trigger[u].run) THEN left \cup {trigger[u].run} ELSE left
      BY <1>0, <2>1, <2>3 DEF NoIdleInstance, Finished
    <2> QED
      BY <1>3, <2>2, <2>3 DEF ProvisionRun
  <1>4. CASE NameInstance(u)
    <2>1. trigger[u].run \in Run
      BY <1>4 DEF NameInstance, OutreachTypeOK, Trigger
    <2>2. \A x \in Run : searchRuns'[x].status = searchRuns[x].status
      BY <1>4, <2>1 DEF NameInstance, OutreachTypeOK, RunRow
    <2>3. UNCHANGED <<scraperMachine, left>>
      BY <1>4 DEF NameInstance, outreachHistory
    <2> QED
      BY <1>0, <2>2, <2>3, IdleKept DEF OutreachTypeOK
  <1> QED
    BY <1>1, <1>2, <1>3, <1>4 DEF TriggerStep

LEMMA AskIdle ==
  ASSUME OutreachTypeOK, NoIdleInstance, NEW p \in Scraper, NEW r \in Run, AskFor(p, r)
  PROVE  NoIdleInstance'
  <1>1. UNCHANGED <<scraperMachine, left>> /\ call[p].pc = "idle"
    BY DEF AskFor, ClaimRun, UpdateProgress, UpsertLeads, CompleteRun, outreachHistory
  <1>2. \A x \in Run : searchRuns'[x].status = searchRuns[x].status
    <2>1. CASE \E steps \in {"absent", "none", "some"} : UpdateProgress(p, r, steps)
      <3>1. PICK steps \in {"absent", "none", "some"} : UpdateProgress(p, r, steps)
        BY <2>1
      <3>2. searchRuns' = searchRuns \/ searchRuns' = [searchRuns EXCEPT ![r].claimed = (steps # "none")]
        BY <3>1 DEF UpdateProgress
      <3>3. searchRuns \in [Run -> RunRow]
        BY DEF OutreachTypeOK
      <3> QED
        BY <3>2, <3>3 DEF RunRow
    <2>2. CASE UNCHANGED searchRuns
      BY <2>2
    <2> QED
      BY <2>1, <2>2 DEF AskFor, ClaimRun, UpsertLeads, CompleteRun
  <1>3. \A q \in Scraper : call[q].pc = "delete" => call'[q] = call[q]
    <2>1. UNCHANGED call \/ \E c : call' = [call EXCEPT ![p] = c]
      BY DEF AskFor, ClaimRun, UpdateProgress, UpsertLeads, CompleteRun, requests
    <2> QED
      BY <1>1, <2>1 DEF OutreachTypeOK
  <1> QED
    BY <1>1, <1>2, <1>3, IdleKept DEF OutreachTypeOK

LEMMA CallIdle ==
  ASSUME OutreachTypeOK, NoIdleInstance, NEW p \in Scraper, CallStep(p)
  PROVE  NoIdleInstance'
  <1>1. \A q \in Scraper : q # p => call'[q] = call[q]
    <2>1. \E c : call' = [call EXCEPT ![p] = c]
      <3>1. CASE FindLead(p)
        <4>1. PICK l, x : call' = [call EXCEPT ![p].pc = "save", ![p].todo = @ \ {l},
                                               ![p].decides = @ \ {l}, ![p].row = Merged(x, p)]
          BY <3>1 DEF FindLead
        <4>2. call' = [call EXCEPT ![p] = [call[p] EXCEPT !.pc = "save", !.todo = @ \ {l},
                                                          !.decides = @ \ {l}, !.row = Merged(x, p)]]
          BY <4>1 DEF OutreachTypeOK
        <4> QED
          BY <4>2
      <3>2. CASE WriteStatus(p)
        <4>1. call' = [call EXCEPT ![p] = NoCall]
              \/ call' = [call EXCEPT ![p] = [call[p] EXCEPT !.pc = "delete"]]
          BY <3>2 DEF WriteStatus, OutreachTypeOK
        <4> QED
          BY <4>1
      <3>3. CASE SaveLead(p)
        BY <3>3 DEF SaveLead
      <3>4. CASE WriteClaim(p) \/ DeleteInstance(p)
        BY <3>4 DEF WriteClaim, DeleteInstance
      <3> QED
        BY <3>1, <3>2, <3>3, <3>4 DEF CallStep
    <2> QED
      BY <2>1 DEF OutreachTypeOK
  <1>2. CASE WriteClaim(p)
    <2>1. call[p].run \in Run
      BY <1>2 DEF WriteClaim, OutreachTypeOK, Call
    <2>2. \A x \in Run : searchRuns'[x].status = searchRuns[x].status
      BY <1>2, <2>1 DEF WriteClaim, OutreachTypeOK, RunRow
    <2>3. \A q \in Scraper : call[q].pc = "delete" => call'[q] = call[q]
      BY <1>1, <1>2 DEF WriteClaim
    <2> QED
      BY <1>2, <2>2, <2>3, IdleKept DEF WriteClaim, OutreachTypeOK
  <1>3. CASE FindLead(p) \/ SaveLead(p)
    <2>1. \A q \in Scraper : call[q].pc = "delete" => call'[q] = call[q]
      BY <1>1, <1>3 DEF FindLead, SaveLead
    <2>2. UNCHANGED <<searchRuns, scraperMachine, left>>
      BY <1>3 DEF FindLead, SaveLead, outreachHistory
    <2> QED
      BY <2>1, <2>2, IdleKept
  <1>4. CASE WriteStatus(p)
    <2> DEFINE r == call[p].run
    <2>1. r \in Run /\ call[p] \in Call
      BY <1>4 DEF WriteStatus, OutreachTypeOK, Call
    <2>2. /\ UNCHANGED scraperMachine
          /\ left \subseteq left'
          /\ \A x \in Run : x # r => searchRuns'[x] = searchRuns[x]
      BY <1>4, <2>1 DEF WriteStatus, OutreachTypeOK
    <2>3. \/ call'[p].pc = "delete" /\ call'[p].run = r
          \/ left' = left \cup ({r} \cap scraperMachine)
      BY <1>4, <2>1 DEF WriteStatus, OutreachTypeOK, Call
    <2>4. ASSUME NEW x \in scraperMachine' \ left', Finished(x)'
          PROVE  \E q \in Scraper : call'[q].pc = "delete" /\ call'[q].run = x
      <3>1. CASE x = r
        BY <2>2, <2>3, <3>1
      <3>2. CASE x # r
        <4>1. x \in scraperMachine \ left /\ Finished(x)
          BY <2>2, <2>4, <3>2 DEF Finished, OutreachTypeOK
        <4>2. PICK q \in Scraper : call[q].pc = "delete" /\ call[q].run = x
          BY <4>1 DEF NoIdleInstance
        <4>3. q # p
          BY <4>2, <1>4 DEF WriteStatus
        <4> QED
          BY <4>2, <4>3, <1>1
      <3> QED
        BY <3>1, <3>2
    <2> QED
      BY <2>4 DEF NoIdleInstance
  <1>5. CASE DeleteInstance(p)
    <2>1. /\ \A x : x \in scraperMachine' \ left' => x \in scraperMachine \ left /\ x # call[p].run
          /\ UNCHANGED searchRuns
      BY <1>5 DEF DeleteInstance
    <2>2. ASSUME NEW x \in scraperMachine' \ left', Finished(x)'
          PROVE  \E q \in Scraper : call'[q].pc = "delete" /\ call'[q].run = x
      <3>1. x \in scraperMachine \ left /\ Finished(x)
        BY <2>1, <2>2 DEF Finished
      <3>2. PICK q \in Scraper : call[q].pc = "delete" /\ call[q].run = x
        BY <3>1 DEF NoIdleInstance
      <3>3. q # p
        BY <2>1, <3>2
      <3> QED
        BY <3>2, <3>3, <1>1
    <2> QED
      BY <2>2 DEF NoIdleInstance
  <1> QED
    BY <1>2, <1>3, <1>4, <1>5 DEF CallStep

LEMMA CrashIdle == NoIdleInstance /\ OutreachCrash => NoIdleInstance'
  BY DEF NoIdleInstance, OutreachCrash, Finished

\* The instance of a run that has ended is gone or about to be deleted.
THEOREM EndedRunsKeepNoInstance == OutreachSpec => []NoIdleInstance
  <1>1. OutreachInit => NoIdleInstance
    BY DEF OutreachInit, NoIdleInstance
  <1>2. OutreachTypeOK /\ NoIdleInstance /\ [OutreachNext]_outreachVars => NoIdleInstance'
    <2> SUFFICES ASSUME OutreachTypeOK, NoIdleInstance, [OutreachNext]_outreachVars
                 PROVE  NoIdleInstance'
      OBVIOUS
    <2>1. CASE UNCHANGED outreachVars
      BY <2>1, IdleKept DEF outreachVars, outreachHistory, requests
    <2> QED
      BY <2>1, TriggerIdle, AskIdle, CallIdle, CrashIdle DEF OutreachNext
  <1> QED
    BY <1>1, <1>2, TypeCorrect, PTL DEF OutreachSpec

-----------------------------------------------------------------------------
(* Leads *)

Reports(p) == call[p].pc \in {"leads", "save"}

\* A call that is about to save its row over x keeps x decided, or was told not to.
Keeps(c, x) == x.decided => c.row.decided \/ x.lead \in c.reopens

\* Unless leads of a run are reported twice at once, one scraper reports them, and
\* the row it is about to save agrees with the row the run has for that lead.
ReportsAgree ==
  /\ \A p \in Scraper : call[p].pc = "save" => call[p].row.run = call[p].run
  /\ \A p, q \in Scraper :
       Reports(p) /\ Reports(q) /\ call[p].run = call[q].run /\ call[p].run \notin mixed => p = q
  /\ \A p \in Scraper : call[p].pc = "save" /\ call[p].run \notin mixed =>
       \A x \in leads : x.run = call[p].row.run /\ x.lead = call[p].row.lead =>
         SameRow(x, call[p].row) /\ Keeps(call[p], x)

LeadInv == OutreachTypeOK /\ OneRowPerLead /\ ReportsAgree

\* A step that saves no lead and starts no report keeps the leads in agreement.
LEMMA LeadsKept ==
  ASSUME LeadInv, leads' = leads, mixed' = mixed,
         \A q \in Scraper : Reports(q)' => call'[q] = call[q]
  PROVE  OneRowPerLead' /\ ReportsAgree'
  <1>1. OneRowPerLead'
    BY DEF LeadInv, OneRowPerLead
  <1> QED
    BY <1>1 DEF LeadInv, ReportsAgree, Reports

LEMMA UpsertKeepsLeads ==
  ASSUME LeadInv, NEW p \in Scraper, NEW r \in Run,
         NEW offered \in SUBSET Lead, NEW decides \in SUBSET offered,
         NEW reopens \in SUBSET (offered \ decides),
         UpsertLeads(p, r, offered, decides, reopens)
  PROVE  OneRowPerLead' /\ ReportsAgree'
  <1>1. /\ call'[p].pc = "leads" /\ call'[p].run = r
        /\ \A q \in Scraper : q # p => call'[q] = call[q]
    BY InitialRecords DEF UpsertLeads, LeadInv, OutreachTypeOK, Call
  <1>2. /\ leads' = leads /\ mixed \subseteq mixed'
        /\ r \notin mixed' => \A q \in Scraper : ~ (Reports(q) /\ call[q].run = r)
    BY DEF UpsertLeads, ReportsOn, Reports
  <1>3. OneRowPerLead'
    BY <1>2 DEF LeadInv, OneRowPerLead
  <1>4. \A x, y \in Scraper :
          Reports(x)' /\ Reports(y)' /\ call'[x].run = call'[y].run /\ call'[x].run \notin mixed'
            => x = y
    <2> SUFFICES ASSUME NEW x \in Scraper, NEW y \in Scraper, Reports(x)', Reports(y)',
                        call'[x].run = call'[y].run, call'[x].run \notin mixed'
                 PROVE  x = y
      OBVIOUS
    <2>1. CASE x = p \/ y = p
      BY <1>1, <1>2, <2>1 DEF Reports
    <2>2. CASE x # p /\ y # p
      BY <1>1, <1>2, <2>2 DEF Reports, LeadInv, ReportsAgree
    <2> QED
      BY <2>1, <2>2
  <1>5. \A q \in Scraper : call'[q].pc = "save" => call'[q] = call[q]
    BY <1>1
  <1> QED
    BY <1>2, <1>3, <1>4, <1>5 DEF LeadInv, ReportsAgree

LEMMA FindKeepsLeads ==
  ASSUME LeadInv, NEW p \in Scraper, FindLead(p)
  PROVE  OneRowPerLead' /\ ReportsAgree'
  <1> DEFINE r == call[p].run
  <1>1. PICK l \in call[p].todo :
          \E x \in IF Existing(r, l) = {} THEN {[run |-> r, lead |-> l, by |-> p, decided |-> FALSE]}
                   ELSE Existing(r, l) :
            call' = [call EXCEPT ![p].pc = "save", ![p].todo = @ \ {l}, ![p].decides = @ \ {l},
                                 ![p].row = Merged(x, p)]
    BY DEF FindLead
  <1>2. PICK x \in IF Existing(r, l) = {} THEN {[run |-> r, lead |-> l, by |-> p, decided |-> FALSE]}
                   ELSE Existing(r, l) :
          call' = [call EXCEPT ![p].pc = "save", ![p].todo = @ \ {l}, ![p].decides = @ \ {l},
                               ![p].row = Merged(x, p)]
    BY <1>1
  <1>3. /\ call[p] \in Call /\ call[p].pc = "leads" /\ UNCHANGED <<leads, mixed>>
        /\ r \in Run
    BY DEF FindLead, LeadInv, OutreachTypeOK, Call, outreachHistory
  <1>4. x \in LeadRow /\ x.run = r /\ x.lead = l
    BY <1>2, <1>3 DEF Existing, LeadInv, OutreachTypeOK, LeadRow, Call
  <1> DEFINE row == Merged(x, p)
  <1>5. /\ row.run = r /\ row.lead = l /\ SameRow(x, row)
        /\ x.decided => row.decided \/ x.lead \in call[p].reopens
    BY <1>4 DEF Merged, SameRow, LeadRow
  <1>6. /\ call'[p].pc = "save" /\ call'[p].run = r /\ call'[p].row = row
        /\ call'[p].reopens = call[p].reopens
        /\ \A q \in Scraper : q # p => call'[q] = call[q]
    BY <1>2, <1>3 DEF LeadInv, OutreachTypeOK, Call
  <1>7. OneRowPerLead'
    BY <1>3 DEF LeadInv, OneRowPerLead
  <1>8. \A q \in Scraper : call'[q].run = call[q].run /\ (Reports(q)' => Reports(q))
    BY <1>3, <1>6 DEF Reports
  <1>9. ASSUME r \notin mixed, NEW y \in leads, y.run = r, y.lead = l
        PROVE  SameRow(y, row) /\ Keeps(call'[p], y)
    <2>1. Existing(r, l) # {} /\ x \in leads
      BY <1>2, <1>9 DEF Existing
    <2>2. x = y
      BY <1>4, <1>9, <2>1 DEF LeadInv, OneRowPerLead
    <2> QED
      BY <1>5, <1>6, <2>2 DEF Keeps
  <1> HIDE DEF row
  <1>10. \A q \in Scraper : call'[q].pc = "save" /\ call'[q].run \notin mixed' =>
           \A y \in leads' : y.run = call'[q].row.run /\ y.lead = call'[q].row.lead =>
             SameRow(y, call'[q].row) /\ Keeps(call'[q], y)
    <2> SUFFICES ASSUME NEW q \in Scraper, call'[q].pc = "save", call'[q].run \notin mixed',
                        NEW y \in leads', y.run = call'[q].row.run, y.lead = call'[q].row.lead
                 PROVE  SameRow(y, call'[q].row) /\ Keeps(call'[q], y)
      OBVIOUS
    <2>1. CASE q = p
      BY <2>1, <1>3, <1>5, <1>6, <1>9
    <2>2. CASE q # p
      BY <2>2, <1>3, <1>6 DEF LeadInv, ReportsAgree
    <2> QED
      BY <2>1, <2>2
  <1>11. \A q \in Scraper : call'[q].pc = "save" => call'[q].row.run = call'[q].run
    BY <1>5, <1>6 DEF LeadInv, ReportsAgree
  <1>12. \A q, s \in Scraper :
           Reports(q)' /\ Reports(s)' /\ call'[q].run = call'[s].run /\ call'[q].run \notin mixed'
             => q = s
    BY <1>3, <1>8 DEF LeadInv, ReportsAgree
  <1> QED
    BY <1>7, <1>10, <1>11, <1>12 DEF ReportsAgree

LEMMA SaveKeepsLeads ==
  ASSUME LeadInv, NEW p \in Scraper, SaveLead(p)
  PROVE  OneRowPerLead' /\ ReportsAgree'
  <1> DEFINE r == call[p].run
             row == call[p].row
             c == IF call[p].todo = {} THEN NoCall
                  ELSE [call[p] EXCEPT !.pc = "leads", !.row = Nil]
  <1>1. /\ call[p] \in Call /\ call[p].pc = "save" /\ mixed' = mixed
        /\ leads' = {x \in leads : ~ SameRow(x, row)} \cup {row}
        /\ row.run = r /\ r \in Run
    BY DEF SaveLead, LeadInv, OutreachTypeOK, ReportsAgree, Call, outreachHistory
  <1>2. call' = [call EXCEPT ![p] = c]
    BY DEF SaveLead
  <1>3. c.pc # "save" /\ (c.pc = "leads" => c.run = r)
    BY <1>1 DEF Call, NoCall
  <1> HIDE DEF c
  <1>4. /\ call'[p].pc # "save" /\ (call'[p].pc = "leads" => call'[p].run = r)
        /\ \A q \in Scraper : q # p => call'[q] = call[q]
    BY <1>2, <1>3 DEF LeadInv, OutreachTypeOK
  <1>5. r \notin mixed => \A x \in leads : x.run = r /\ x.lead = row.lead => SameRow(x, row)
    BY <1>1 DEF LeadInv, ReportsAgree
  <1>6. OneRowPerLead'
    <2> SUFFICES ASSUME NEW x \in leads', NEW y \in leads', x.run = y.run, x.lead = y.lead,
                        x.run \notin mixed'
                 PROVE  x = y
      BY DEF OneRowPerLead
    <2>1. CASE x \in leads /\ y \in leads
      BY <2>1, <1>1 DEF LeadInv, OneRowPerLead
    <2>2. CASE x = row \/ y = row
      BY <2>2, <1>1, <1>5
    <2> QED
      BY <2>1, <2>2, <1>1
  <1>7. \A q \in Scraper : Reports(q)' => Reports(q) /\ call'[q].run = call[q].run
    BY <1>1, <1>4 DEF Reports
  <1>8. ASSUME NEW q \in Scraper, call'[q].pc = "save", call'[q].run \notin mixed',
               NEW y \in leads', y.run = call'[q].row.run, y.lead = call'[q].row.lead
        PROVE  SameRow(y, call'[q].row) /\ Keeps(call'[q], y)
    <2>1. q # p /\ call'[q] = call[q]
      BY <1>4, <1>8
    <2>2. call[q].run # r
      BY <1>1, <1>8, <2>1 DEF LeadInv, ReportsAgree, Reports
    <2>3. call[q].row.run = call[q].run
      BY <1>8, <2>1 DEF LeadInv, ReportsAgree
    <2>4. y \in leads
      BY <1>1, <1>8, <2>1, <2>2, <2>3
    <2> QED
      BY <1>1, <1>8, <2>1, <2>4 DEF LeadInv, ReportsAgree
  <1>9. \A q \in Scraper : call'[q].pc = "save" => call'[q].row.run = call'[q].run
    BY <1>4 DEF LeadInv, ReportsAgree
  <1>10. \A q, s \in Scraper :
           Reports(q)' /\ Reports(s)' /\ call'[q].run = call'[s].run /\ call'[q].run \notin mixed'
             => q = s
    BY <1>1, <1>7 DEF LeadInv, ReportsAgree
  <1> QED
    BY <1>6, <1>8, <1>9, <1>10 DEF ReportsAgree

LEMMA NextLeads == LeadInv /\ [OutreachNext]_outreachVars => LeadInv'
  <1> SUFFICES ASSUME LeadInv, [OutreachNext]_outreachVars PROVE OneRowPerLead' /\ ReportsAgree'
    BY NextTyped DEF LeadInv
  <1>1. CASE UNCHANGED outreachVars
    BY <1>1, LeadsKept DEF outreachVars, outreachHistory, requests
  <1>2. ASSUME NEW u \in Requester, TriggerStep(u)
        PROVE  OneRowPerLead' /\ ReportsAgree'
    <2>1. UNCHANGED <<call, leads, mixed>>
      BY <1>2 DEF TriggerStep, RunForWorkflow, InsertRun, ProvisionRun, NameInstance, outreachHistory
    <2> QED
      BY <2>1, LeadsKept
  <1>3. ASSUME NEW p \in Scraper, NEW r \in Run,
               ClaimRun(p, r)
                 \/ \E steps \in {"absent", "none", "some"} : UpdateProgress(p, r, steps)
                 \/ \E status \in {"completed", "failed"} : CompleteRun(p, r, status)
        PROVE  OneRowPerLead' /\ ReportsAgree'
    <2>1. UNCHANGED <<leads, mixed>>
      BY <1>3 DEF ClaimRun, UpdateProgress, CompleteRun, outreachHistory
    <2>2. CASE \E steps \in {"absent", "none", "some"} : UpdateProgress(p, r, steps)
      BY <2>1, <2>2, LeadsKept DEF UpdateProgress, requests
    <2>3. CASE ClaimRun(p, r)
      <3>1. call'[p].pc = "claim" /\ \A q \in Scraper : q # p => call'[q] = call[q]
        BY <2>3, InitialRecords DEF ClaimRun, LeadInv, OutreachTypeOK, Call
      <3>2. \A q \in Scraper : Reports(q)' => call'[q] = call[q]
        BY <3>1 DEF Reports
      <3> QED
        BY <2>1, <3>2, LeadsKept
    <2>4. ASSUME NEW status \in {"completed", "failed"}, CompleteRun(p, r, status)
          PROVE  OneRowPerLead' /\ ReportsAgree'
      <3>1. call'[p].pc = "complete" /\ \A q \in Scraper : q # p => call'[q] = call[q]
        BY <2>4, InitialRecords DEF CompleteRun, LeadInv, OutreachTypeOK, Call
      <3>2. \A q \in Scraper : Reports(q)' => call'[q] = call[q]
        BY <3>1 DEF Reports
      <3> QED
        BY <2>1, <3>2, LeadsKept
    <2> QED
      BY <1>3, <2>2, <2>3, <2>4
  <1>4. ASSUME NEW p \in Scraper, WriteClaim(p) \/ WriteStatus(p) \/ DeleteInstance(p)
        PROVE  OneRowPerLead' /\ ReportsAgree'
    <2>1. UNCHANGED <<leads, mixed>>
      BY <1>4 DEF WriteClaim, WriteStatus, DeleteInstance
    <2>2. \/ call' = [call EXCEPT ![p] = NoCall]
          \/ call' = [call EXCEPT ![p] = [call[p] EXCEPT !.pc = "delete"]]
      BY <1>4 DEF WriteClaim, WriteStatus, DeleteInstance, LeadInv, OutreachTypeOK
    <2>3. call'[p].pc \in {"idle", "delete"} /\ \A q \in Scraper : q # p => call'[q] = call[q]
      BY <2>2 DEF LeadInv, OutreachTypeOK, Call, NoCall
    <2>4. \A q \in Scraper : Reports(q)' => call'[q] = call[q]
      BY <2>3 DEF Reports
    <2> QED
      BY <2>1, <2>4, LeadsKept
  <1>5. CASE OutreachCrash
    <2>1. UNCHANGED <<leads, mixed>> /\ \A q \in Scraper : ~ Reports(q)'
      BY <1>5 DEF OutreachCrash, Reports, NoCall
    <2> QED
      BY <2>1, LeadsKept
  <1> QED
    BY <1>1, <1>2, <1>3, <1>4, <1>5, UpsertKeepsLeads, FindKeepsLeads, SaveKeepsLeads
      DEF OutreachNext, AskFor, CallStep

LEMMA InitLeads == OutreachInit => LeadInv
  BY InitTyped DEF OutreachInit, LeadInv, OneRowPerLead, ReportsAgree, Reports, NoCall

\* A run has one row per lead, unless leads of it are reported twice at once.
THEOREM LeadsAreNotDoubled == OutreachSpec => []OneRowPerLead
  <1>1. LeadInv => OneRowPerLead
    BY DEF LeadInv
  <1> QED
    BY <1>1, InitLeads, NextLeads, PTL DEF OutreachSpec

\* A decided lead stays in the table as it is until a report says that it is
\* pending, unless leads of its run are reported twice at once.
THEOREM LeadsAreNotReopened == OutreachSpec => DecidedStays
  <1> DEFINE Kept == \A x \in leads :
                       x.decided /\ x.run \notin mixed' =>
                         \/ x \in leads'
                         \/ \E p \in Scraper : SaveLead(p) /\ SameRow(x, call[p].row)
                                               /\ x.lead \in call[p].reopens
  <1>1. ASSUME LeadInv, [OutreachNext]_outreachVars PROVE [Kept]_outreachVars
    <2>1. CASE leads' = leads
      BY <2>1
    <2>2. ASSUME NEW p \in Scraper, SaveLead(p) PROVE Kept
      <3>0. /\ call[p].pc = "save" /\ call[p].row.run = call[p].run /\ mixed' = mixed
            /\ leads' = {x \in leads : ~ SameRow(x, call[p].row)} \cup {call[p].row}
            /\ call[p].row \in LeadRow /\ leads \subseteq LeadRow
        BY <1>1, <2>2 DEF SaveLead, LeadInv, OutreachTypeOK, ReportsAgree, Call, outreachHistory
      <3>1. ASSUME NEW x \in leads, x.decided = TRUE, x.run \notin mixed, SameRow(x, call[p].row)
            PROVE  x = call[p].row \/ x.lead \in call[p].reopens
        <4>1. x.run = call[p].row.run /\ x.lead = call[p].row.lead /\ x.by = call[p].row.by
          BY <3>1 DEF SameRow
        <4>2. x.decided => call[p].row.decided \/ x.lead \in call[p].reopens
          BY <1>1, <3>0, <3>1, <4>1 DEF LeadInv, ReportsAgree, Keeps
        <4>3. call[p].row.decided = TRUE \/ x.lead \in call[p].reopens
          BY <3>0, <3>1, <4>2 DEF LeadRow
        <4> QED
          BY <3>0, <3>1, <4>1, <4>3 DEF LeadRow
      <3>2. \A x \in leads : x.decided => x.decided = TRUE
        BY <3>0 DEF LeadRow
      <3> QED
        BY <2>2, <3>0, <3>1, <3>2
    <2> QED
      <3>1. ASSUME NEW u \in Requester, TriggerStep(u) PROVE leads' = leads
        BY <3>1 DEF TriggerStep, RunForWorkflow, InsertRun, ProvisionRun, NameInstance, outreachHistory
      <3>2. ASSUME NEW p \in Scraper, NEW r \in Run, AskFor(p, r) PROVE leads' = leads
        BY <3>2 DEF AskFor, ClaimRun, UpdateProgress, UpsertLeads, CompleteRun
      <3>3. ASSUME NEW p \in Scraper, CallStep(p) PROVE leads' = leads \/ SaveLead(p)
        BY <3>3 DEF CallStep, WriteClaim, FindLead, WriteStatus, DeleteInstance, outreachHistory
      <3>4. OutreachCrash \/ UNCHANGED outreachVars => leads' = leads
        BY DEF OutreachCrash, outreachVars
      <3>5. leads' = leads \/ \E p \in Scraper : SaveLead(p)
        BY <1>1, <3>1, <3>2, <3>3, <3>4 DEF OutreachNext
      <3> QED
        BY <2>1, <2>2, <3>5
  <1>2. OutreachSpec => []LeadInv
    BY InitLeads, NextLeads, PTL DEF OutreachSpec
  <1> QED
    BY <1>1, <1>2, PTL DEF OutreachSpec, DecidedStays

-----------------------------------------------------------------------------
(* BusinessScraper *)

Busy(w) == job[w].pc # "idle"
IsOf(m, r, s) == m.run = r /\ m.site = s

\* What a handler has in hand is of its website.
JobsAgree ==
  \A w \in Worker :
    /\ Busy(w) => job[w].msg \in Message
    /\ job[w].held => Busy(w)
    /\ job[w].pc \in {"find_page", "save_page"} => job[w].root # None
    /\ job[w].root # None =>
         job[w].root \in roots /\ IsOf(job[w].root, job[w].msg.run, job[w].msg.site)
    /\ job[w].pc = "save_page" => job[w].page \in Page

\* The broker has given one website away.
OneHeld == \A v, w \in Worker : job[v].held /\ job[w].held => v = w

\* Before the first reconnect whoever is at work holds its website, and what it
\* has not found is not there.
LookupsHold ==
  reconnects = 0 => \A w \in Worker :
    /\ Busy(w) => job[w].held
    /\ job[w].pc = "save_root" /\ job[w].root = None => RootsOf(job[w].msg) = {}
    /\ job[w].pc = "save_page" /\ job[w].row = None =>
         ~ \E x \in pages : x.site = job[w].msg.site /\ x.page = job[w].page

\* A task that queues websites has some left.
SitesLeft == \A r \in RunId : task[r].pc = "publish" => task[r].rest # <<>>

BaseInv == TypeOK /\ IsFiniteSet(roots) /\ IsFiniteSet(pages) /\ JobsAgree /\ OneHeld /\ SitesLeft

RowsInv == BaseInv /\ LookupsHold /\ PagesFollowRoots /\ RowsAreUnique

\* The status of a run that is still listed, or has just failed.
TaskAgrees ==
  \A r \in RunId :
    /\ task[r].pc \in {"view", "scrape", "publish"} => runs[r].status = "pending"
    /\ task[r].pc \in {"scrape", "publish"} => runs[r].view

\* A website that the broker has, or a handler.
Out(m) ==
  \/ \E i \in DOMAIN queue : queue[i] = m
  \/ \E w \in Worker : Busy(w) /\ job[w].msg = m

\* The last website of a run is out when its task has ended, and not failed.
LastsAreOut ==
  \A m \in Message : m.last /\ Out(m) =>
    task[m.run].pc = "ended" /\ runs[m.run].status \in {"pending", "completed"}

\* The website is being handled, and will come again if that does not end.
Held(r, s) == \E w \in Worker : job[w].held /\ IsOf(job[w].msg, r, s)
Queued(messages, r, s, n) == \E i \in 1 .. n : IsOf(messages[i], r, s)

\* Every website that a run was listed with has been searched, is on its way, or
\* has yet to be queued.
PublishedInOrder ==
  \A r \in RunId : task[r].pc = "publish" =>
    \A s \in SitesFound(r) :
      \/ <<r, s>> \in searched
      \/ Queued(queue, r, s, Len(queue)) \/ Held(r, s)
      \/ \E i \in DOMAIN task[r].rest : task[r].rest[i] = s

\* The last website of a run comes after all the others.
LastComesLast ==
  \A m \in Message : m.last =>
    /\ \A i \in DOMAIN queue : queue[i] = m =>
         \A s \in SitesFound(m.run) :
           \/ s = m.site \/ <<m.run, s>> \in searched
           \/ Queued(queue, m.run, s, i - 1) \/ Held(m.run, s)
    /\ \A w \in Worker : Busy(w) /\ job[w].msg = m =>
         \A s \in SitesFound(m.run) : s = m.site \/ <<m.run, s>> \in searched

\* A handler that is done has searched its website, and the last one has
\* completed the run or missed it.
DoneIsDone ==
  \A w \in Worker : job[w].pc = "done" =>
    /\ <<job[w].msg.run, job[w].msg.site>> \in searched
    /\ job[w].msg.last => runs[job[w].msg.run].status = "completed" \/ job[w].msg.run \in missed

\* The last website of a pending run is queued or held.
LastAwaited(r) ==
  \/ task[r].pc \in {"view", "scrape", "publish"}
  \/ \E i \in DOMAIN queue : queue[i].run = r /\ queue[i].last
  \/ \E w \in Worker : job[w].held /\ job[w].msg.run = r /\ job[w].msg.last

PendingAwaited ==
  \A r \in RunId : runs[r].status = "pending" => LastAwaited(r) \/ r \in cut \/ r \in missed

ScrapeInv ==
  /\ BaseInv
  /\ TaskAgrees /\ LastsAreOut /\ PublishedInOrder /\ LastComesLast /\ DoneIsDone
  /\ CompletedIsSearched /\ PendingAwaited

\* The types of a handler at rest, and what is empty.
LEMMA InitialScrape == Idle \in Job /\ IsFiniteSet({}) /\ <<>> \in Seq(Site) /\ <<>> \in Seq(Message)
  BY FS_EmptySet DEF Idle, Job

LEMMA InitBase == Init => BaseInv
  BY InitialScrape, ConstantsAssumption
    DEF Init, BaseInv, TypeOK, JobsAgree, OneHeld, SitesLeft, Busy, Idle, ConstantsAssumption

\* What goes back to the queue is the website that is held, and comes first.
LEMMA ReturnedQueue ==
  ASSUME BaseInv
  PROVE  /\ Returned \in Seq(Message)
         /\ (\A v \in Worker : ~ job[v].held) => Returned = queue
         /\ \A w \in Worker : job[w].held =>
              /\ Len(Returned) = Len(queue) + 1 /\ Returned[1] = job[w].msg
              /\ \A i \in 1 .. Len(queue) : Returned[i + 1] = queue[i]
  <1>1. CASE \A v \in Worker : ~ job[v].held
    <2>1. {v \in Worker : job[v].held} = {}
      BY <1>1
    <2>2. Returned = queue
      BY <2>1 DEF Returned
    <2> QED
      BY <1>1, <2>2 DEF BaseInv, TypeOK
  <1>2. ASSUME NEW w \in Worker, job[w].held
        PROVE  /\ Returned \in Seq(Message)
               /\ Len(Returned) = Len(queue) + 1 /\ Returned[1] = job[w].msg
               /\ \A i \in 1 .. Len(queue) : Returned[i + 1] = queue[i]
    <2>1. {v \in Worker : job[v].held} = {w}
      BY <1>2 DEF BaseInv, OneHeld
    <2>2. (CHOOSE v \in {v \in Worker : job[v].held} : TRUE) = w
      BY <2>1
    <2>3. Returned = <<job[w].msg>> \o queue
      BY <2>1, <2>2 DEF Returned
    <2>4. job[w].msg \in Message /\ queue \in Seq(Message)
      BY <1>2 DEF BaseInv, JobsAgree, TypeOK
    <2> QED
      BY <2>3, <2>4
  <1> QED
    BY <1>1, <1>2

\* A handler's step changes what it has in hand, and neither its website nor
\* whether it holds it.
LEMMA WorkerMoves ==
  ASSUME BaseInv, NEW w \in Worker,
         Search(w) \/ FindRoot(w) \/ SaveRoot(w) \/ FindPage(w) \/ SavePage(w) \/ Finish(w)
  PROVE  \E rec \in Job :
           /\ job' = [job EXCEPT ![w] = rec] /\ rec.msg = job[w].msg /\ rec.held = job[w].held
           /\ Busy(w) /\ rec.pc # "idle"
           /\ job[w].msg \in Message /\ job[w].msg.run \in RunId /\ job[w].msg.site \in Site
  <1>0. job \in [Worker -> Job] /\ job[w] \in Job /\ roots \subseteq Root /\ pages \subseteq Flagged
    BY DEF BaseInv, TypeOK
  <1>1. Busy(w)
    BY DEF Search, FindRoot, SaveRoot, FindPage, SavePage, Finish, Busy
  <1>2. job[w].msg \in Message /\ job[w].msg.run \in RunId /\ job[w].msg.site \in Site
    BY <1>1 DEF BaseInv, JobsAgree, Message
  <1>3. ASSUME NEW rec \in Job, job' = [job EXCEPT ![w] = rec], rec.msg = job[w].msg,
               rec.held = job[w].held, rec.pc # "idle"
        PROVE  \E x \in Job :
                 /\ job' = [job EXCEPT ![w] = x] /\ x.msg = job[w].msg /\ x.held = job[w].held
                 /\ Busy(w) /\ x.pc # "idle"
                 /\ job[w].msg \in Message /\ job[w].msg.run \in RunId /\ job[w].msg.site \in Site
    BY <1>1, <1>2, <1>3
  <1>4. CASE Search(w)
    <2>1. ASSUME NEW hits \in SUBSET Page,
                 job' = [job EXCEPT ![w].pc = "find_root", ![w].todo = hits]
          PROVE  \E rec \in Job : /\ job' = [job EXCEPT ![w] = rec] /\ rec.msg = job[w].msg
                                  /\ rec.held = job[w].held /\ rec.pc # "idle"
      <3> DEFINE rec == [job[w] EXCEPT !.pc = "find_root", !.todo = hits]
      <3>1. job' = [job EXCEPT ![w] = rec]
        BY <2>1
      <3>2. rec \in Job /\ rec.msg = job[w].msg /\ rec.held = job[w].held /\ rec.pc # "idle"
        BY <1>0 DEF Job
      <3> HIDE DEF rec
      <3> QED
        BY <3>1, <3>2
    <2>2. ASSUME Leave(w)
          PROVE  \E rec \in Job : /\ job' = [job EXCEPT ![w] = rec] /\ rec.msg = job[w].msg
                                  /\ rec.held = job[w].held /\ rec.pc # "idle"
      <3> DEFINE rec == [job[w] EXCEPT !.pc = "done"]
      <3>1. job' = [job EXCEPT ![w] = rec]
        BY <2>2 DEF Leave
      <3>2. rec \in Job /\ rec.msg = job[w].msg /\ rec.held = job[w].held /\ rec.pc # "idle"
        BY <1>0 DEF Job
      <3> HIDE DEF rec
      <3> QED
        BY <3>1, <3>2
    <2> QED
      BY <1>4, <2>1, <2>2, <1>3 DEF Search
  <1>5. CASE FindRoot(w)
    <2>1. PICK x \in Root \cup {None} : job' = [job EXCEPT ![w].pc = "save_root", ![w].root = x]
      BY <1>0, <1>5 DEF FindRoot, RootsOf
    <2> DEFINE rec == [job[w] EXCEPT !.pc = "save_root", !.root = x]
    <2>2. job' = [job EXCEPT ![w] = rec]
      BY <2>1
    <2>3. rec \in Job /\ rec.msg = job[w].msg /\ rec.held = job[w].held /\ rec.pc # "idle"
      BY <1>0 DEF Job
    <2> HIDE DEF rec
    <2> QED
      BY <1>3, <2>2, <2>3
  <1>6. CASE SaveRoot(w)
    <2>1. Cardinality({x \in roots : x.run = job[w].msg.run /\ x.site = job[w].msg.site}) \in Nat
      BY FS_Subset, FS_CardinalityType DEF BaseInv
    <2>2. PICK x \in Root : job' = [job EXCEPT ![w].pc = "find_page", ![w].root = x]
      BY <1>0, <1>2, <1>6, <2>1 DEF SaveRoot, Root, Job
    <2> DEFINE rec == [job[w] EXCEPT !.pc = "find_page", !.root = x]
    <2>3. job' = [job EXCEPT ![w] = rec]
      BY <2>2
    <2>4. rec \in Job /\ rec.msg = job[w].msg /\ rec.held = job[w].held /\ rec.pc # "idle"
      BY <1>0 DEF Job
    <2> HIDE DEF rec
    <2> QED
      BY <1>3, <2>3, <2>4
  <1>7. CASE FindPage(w)
    <2>1. PICK p \in Page, x \in Flagged \cup {None} :
            job' = [job EXCEPT ![w].pc = "save_page", ![w].page = p, ![w].row = x]
      <3>1. job[w].todo \subseteq Page
        BY <1>0 DEF Job
      <3> QED
        BY <1>0, <1>7, <3>1 DEF FindPage
    <2> DEFINE rec == [job[w] EXCEPT !.pc = "save_page", !.page = p, !.row = x]
    <2>2. job' = [job EXCEPT ![w] = rec]
      BY <2>1
    <2>3. rec \in Job /\ rec.msg = job[w].msg /\ rec.held = job[w].held /\ rec.pc # "idle"
      BY <1>0 DEF Job
    <2> HIDE DEF rec
    <2> QED
      BY <1>3, <2>2, <2>3
  <1>8. CASE SavePage(w)
    <2>1. PICK to \in {"finish", "find_page"}, rest \in SUBSET Page :
            job' = [job EXCEPT ![w].pc = to, ![w].todo = rest]
      BY <1>0, <1>8 DEF SavePage, Job
    <2> DEFINE rec == [job[w] EXCEPT !.pc = to, !.todo = rest]
    <2>2. job' = [job EXCEPT ![w] = rec]
      BY <2>1
    <2>3. rec \in Job /\ rec.msg = job[w].msg /\ rec.held = job[w].held /\ rec.pc # "idle"
      BY <1>0 DEF Job
    <2> HIDE DEF rec
    <2> QED
      BY <1>3, <2>2, <2>3
  <1>9. CASE Finish(w)
    <2> DEFINE rec == [job[w] EXCEPT !.pc = "done"]
    <2>1. job' = [job EXCEPT ![w] = rec]
      BY <1>9 DEF Finish
    <2>2. rec \in Job /\ rec.msg = job[w].msg /\ rec.held = job[w].held /\ rec.pc # "idle"
      BY <1>0 DEF Job
    <2> HIDE DEF rec
    <2> QED
      BY <1>3, <2>1, <2>2
  <1> QED
    BY <1>4, <1>5, <1>6, <1>7, <1>8, <1>9

\* What a website and a page are written as.
LEMMA RootIsSaved ==
  ASSUME BaseInv, NEW w \in Worker, SaveRoot(w)
  PROVE  \E row \in Root :
           /\ roots' = roots \cup {row} /\ row # None /\ IsOf(row, job[w].msg.run, job[w].msg.site)
           /\ job'[w].root = row /\ job'[w].pc = "find_page"
           /\ IsFiniteSet(roots') /\ UNCHANGED pages
           /\ job[w].root # None => roots' = roots
  <1>0. /\ job \in [Worker -> Job] /\ job[w] \in Job /\ roots \subseteq Root /\ IsFiniteSet(roots)
        /\ job[w].msg \in Message /\ job[w].msg.run \in RunId /\ job[w].msg.site \in Site
    BY DEF BaseInv, TypeOK, JobsAgree, SaveRoot, Busy, Message
  <1>1. PICK n \in Nat : n = Cardinality({x \in roots : x.run = job[w].msg.run /\ x.site = job[w].msg.site})
    BY FS_Subset, FS_CardinalityType, <1>0
  <1> DEFINE row == IF job[w].root = None THEN [run |-> job[w].msg.run, site |-> job[w].msg.site, copy |-> n]
                    ELSE job[w].root
  <1>2. roots' = roots \cup {row} /\ job' = [job EXCEPT ![w].pc = "find_page", ![w].root = row] /\ UNCHANGED pages
    BY <1>1 DEF SaveRoot
  <1>3. row \in Root /\ IsOf(row, job[w].msg.run, job[w].msg.site) /\ (job[w].root # None => row \in roots)
    BY <1>0 DEF Root, IsOf, BaseInv, JobsAgree
  <1>4. row # None
    BY <1>3, RowsAreNotNone
  <1> HIDE DEF row
  <1>5. job'[w].root = row /\ job'[w].pc = "find_page"
    BY <1>0, <1>2 DEF Job
  <1>6. IsFiniteSet(roots') /\ (job[w].root # None => roots' = roots)
    BY <1>0, <1>2, <1>3, FS_AddElement
  <1> QED
    BY <1>2, <1>3, <1>4, <1>5, <1>6

\* The rows of the page at hand that are written again.
OldRows(w) == {x \in pages : job[w].row # None /\ x.site = job[w].msg.site /\ x.page = job[w].page
                             /\ x.copy = job[w].row.copy}

LEMMA PageIsSaved ==
  ASSUME BaseInv, NEW w \in Worker, SavePage(w)
  PROVE  /\ \/ /\ job[w].row = None
               /\ \E new \in Flagged :
                    /\ pages' = pages \cup {new} /\ IsOf(new, job[w].msg.run, job[w].msg.site)
                    /\ new.page = job[w].page /\ new.root = job[w].root
            \/ /\ job[w].row # None
               /\ pages' = (pages \ OldRows(w)) \cup {Rewritten(w, x) : x \in OldRows(w)}
         /\ \A x \in Flagged : /\ Rewritten(w, x) \in Flagged
                               /\ IsOf(Rewritten(w, x), job[w].msg.run, x.site)
                               /\ Rewritten(w, x).page = x.page /\ Rewritten(w, x).root = job[w].root
         /\ pages' \subseteq Flagged /\ IsFiniteSet(pages') /\ UNCHANGED roots
         /\ job'[w].pc \in {"finish", "find_page"} /\ job'[w].root = job[w].root
  <1>0. /\ job \in [Worker -> Job] /\ job[w] \in Job /\ pages \subseteq Flagged /\ roots \subseteq Root
        /\ IsFiniteSet(pages)
        /\ job[w].msg.run \in RunId /\ job[w].msg.site \in Site /\ job[w].page \in Page
        /\ job[w].root \in Root
    <2>1. Busy(w) /\ job[w].pc = "save_page"
      BY DEF SavePage, Busy
    <2>2. job[w].root # None /\ job[w].root \in roots /\ job[w].page \in Page /\ job[w].msg \in Message
      BY <2>1 DEF BaseInv, JobsAgree
    <2> QED
      BY <2>2 DEF BaseInv, TypeOK, Message
  <1>1. PICK n \in Nat : n = Cardinality({x \in pages : x.site = job[w].msg.site /\ x.page = job[w].page})
    BY FS_Subset, FS_CardinalityType, <1>0
  <1>2. \A x \in Flagged : /\ Rewritten(w, x) \in Flagged
                           /\ IsOf(Rewritten(w, x), job[w].msg.run, x.site)
                           /\ Rewritten(w, x).page = x.page /\ Rewritten(w, x).root = job[w].root
    BY <1>0 DEF Rewritten, Flagged, IsOf
  <1>3. UNCHANGED roots /\ job'[w].pc \in {"finish", "find_page"} /\ job'[w].root = job[w].root
    <2>1. PICK to, rest : /\ job' = [job EXCEPT ![w].pc = to, ![w].todo = rest]
                          /\ to \in {"finish", "find_page"}
      BY DEF SavePage
    <2> QED
      BY <1>0, <2>1 DEF SavePage, Job
  <1>4. CASE job[w].row = None
    <2> DEFINE new == [site |-> job[w].msg.site, page |-> job[w].page, run |-> job[w].msg.run,
                       root |-> job[w].root, copy |-> n]
    <2>1. pages' = pages \cup {new}
      BY <1>1, <1>4 DEF SavePage
    <2>2. new \in Flagged
      BY <1>0 DEF Flagged
    <2>3. IsOf(new, job[w].msg.run, job[w].msg.site) /\ new.page = job[w].page /\ new.root = job[w].root
      BY DEF IsOf
    <2> HIDE DEF new
    <2>4. IsFiniteSet(pages') /\ pages' \subseteq Flagged
      BY <1>0, <2>1, <2>2, FS_AddElement
    <2> QED
      BY <1>2, <1>3, <1>4, <2>1, <2>2, <2>3, <2>4
  <1>5. CASE job[w].row # None
    <2> DEFINE again == {Rewritten(w, x) : x \in OldRows(w)}
    <2>1. pages' = (pages \ OldRows(w)) \cup again
      BY <1>5 DEF SavePage, OldRows
    <2>2. IsFiniteSet(OldRows(w)) /\ IsFiniteSet(pages \ OldRows(w)) /\ OldRows(w) \subseteq Flagged
      BY <1>0, FS_Subset DEF OldRows
    <2>3. IsFiniteSet(again)
      <3> DEFINE f == [x \in OldRows(w) |-> Rewritten(w, x)]
      <3>1. f \in Surjection(OldRows(w), again)
        BY DEF Surjection
      <3> HIDE DEF f, again
      <3> QED
        BY <2>2, <3>1, FS_Surjection
    <2>4. again \subseteq Flagged
      BY <1>2, <2>2
    <2> HIDE DEF again
    <2>5. IsFiniteSet(pages') /\ pages' \subseteq Flagged
      BY <1>0, <2>1, <2>2, <2>3, <2>4, FS_Union
    <2> QED
      BY <1>2, <1>3, <1>5, <2>1, <2>5 DEF again
  <1> QED
    BY <1>4, <1>5

\* The tables and the histories have their types after a handler's step.
LEMMA TablesTyped ==
  ASSUME BaseInv, NEW w \in Worker,
         Search(w) \/ FindRoot(w) \/ SaveRoot(w) \/ FindPage(w) \/ SavePage(w) \/ Finish(w)
  PROVE  TypeOK' /\ IsFiniteSet(roots)' /\ IsFiniteSet(pages)'
  <1>0. TypeOK /\ IsFiniteSet(roots) /\ IsFiniteSet(pages)
    BY DEF BaseInv
  <1>1. PICK rec \in Job :
          /\ job' = [job EXCEPT ![w] = rec] /\ rec.msg = job[w].msg
          /\ job[w].msg \in Message /\ job[w].msg.run \in RunId /\ job[w].msg.site \in Site
    BY WorkerMoves
  <1>2. job' \in [Worker -> Job]
    BY <1>0, <1>1 DEF TypeOK
  <1>3. UNCHANGED <<task, queue, faults, found, cut>>
    BY DEF Search, FindRoot, SaveRoot, FindPage, SavePage, Finish, history
  <1>4. /\ searched' \subseteq RunId \X Site /\ missed' \subseteq RunId
        /\ runs' \in [RunId -> [status : {"absent", "pending", "completed", "failed"}, view : BOOLEAN]]
    <2>0. /\ searched \subseteq RunId \X Site /\ missed \subseteq RunId
          /\ runs \in [RunId -> [status : {"absent", "pending", "completed", "failed"}, view : BOOLEAN]]
      BY <1>0 DEF TypeOK
    <2>1. CASE Search(w)
      <3>1. /\ UNCHANGED runs
            /\ UNCHANGED searched \/ searched' = searched \cup {<<job[w].msg.run, job[w].msg.site>>}
            /\ UNCHANGED missed \/ missed' = missed \cup {job[w].msg.run}
        BY <2>1 DEF Search, Leave
      <3>2. searched' \subseteq RunId \X Site
        BY <1>1, <2>0, <3>1
      <3>3. missed' \subseteq RunId
        BY <1>1, <2>0, <3>1
      <3> QED
        BY <2>0, <3>1, <3>2, <3>3
    <2>2. CASE Finish(w)
      <3>1. /\ UNCHANGED missed /\ searched' = searched \cup {<<job[w].msg.run, job[w].msg.site>>}
            /\ UNCHANGED runs \/ runs' = [runs EXCEPT ![job[w].msg.run] = [status |-> "completed", view |-> TRUE]]
        BY <2>2 DEF Finish
      <3>2. searched' \subseteq RunId \X Site /\ missed' \subseteq RunId
        BY <1>1, <2>0, <3>1
      <3>3. [status |-> "completed", view |-> TRUE]
            \in [status : {"absent", "pending", "completed", "failed"}, view : BOOLEAN]
        OBVIOUS
      <3>4. runs' \in [RunId -> [status : {"absent", "pending", "completed", "failed"}, view : BOOLEAN]]
        BY <2>0, <3>1, <3>3
      <3> QED
        BY <3>2, <3>4
    <2>3. CASE FindRoot(w) \/ SaveRoot(w) \/ FindPage(w) \/ SavePage(w)
      <3>1. UNCHANGED <<runs, searched, missed>>
        BY <2>3 DEF FindRoot, SaveRoot, FindPage, SavePage, history
      <3> QED
        BY <2>0, <3>1
    <2> QED
      BY <2>1, <2>2, <2>3
  <1>5. roots' \subseteq Root /\ pages' \subseteq Flagged /\ IsFiniteSet(roots') /\ IsFiniteSet(pages')
    <2>1. CASE SaveRoot(w)
      BY <1>0, <2>1, RootIsSaved DEF TypeOK
    <2>2. CASE SavePage(w)
      BY <1>0, <2>2, PageIsSaved DEF TypeOK
    <2>3. CASE Search(w) \/ FindRoot(w) \/ FindPage(w) \/ Finish(w)
      BY <1>0, <2>3 DEF TypeOK, Search, FindRoot, FindPage, Finish
    <2> QED
      BY <2>1, <2>2, <2>3
  <1> QED
    BY <1>0, <1>2, <1>3, <1>4, <1>5 DEF TypeOK, faults

\* What a handler has in hand stays of its website.
LEMMA WorkerBase ==
  ASSUME BaseInv, NEW w \in Worker,
         Search(w) \/ FindRoot(w) \/ SaveRoot(w) \/ FindPage(w) \/ SavePage(w) \/ Finish(w)
  PROVE  BaseInv'
  <1>0. /\ TypeOK' /\ IsFiniteSet(roots)' /\ IsFiniteSet(pages)'
        /\ job \in [Worker -> Job] /\ job[w] \in Job /\ roots \subseteq Root
    BY TablesTyped DEF BaseInv, TypeOK
  <1>1. PICK rec \in Job :
          /\ job' = [job EXCEPT ![w] = rec] /\ rec.msg = job[w].msg /\ rec.held = job[w].held
          /\ Busy(w) /\ rec.pc # "idle"
          /\ job[w].msg \in Message
    BY WorkerMoves
  <1>2. job'[w] = rec /\ \A v \in Worker : v # w => job'[v] = job[v]
    BY <1>0, <1>1
  <1>3. OneHeld'
    BY <1>1, <1>2 DEF BaseInv, OneHeld
  <1>4. roots \subseteq roots'
    <2>1. CASE SaveRoot(w)
      BY <2>1, RootIsSaved
    <2>2. CASE ~ SaveRoot(w)
      BY <2>2 DEF Search, FindRoot, FindPage, SavePage, Finish
    <2> QED
      BY <2>1, <2>2
  <1>5. /\ rec.pc \in {"find_page", "save_page"} => rec.root # None
        /\ rec.root # None => rec.root \in roots' /\ IsOf(rec.root, rec.msg.run, rec.msg.site)
        /\ rec.pc = "save_page" => rec.page \in Page
    <2>0. /\ job[w].pc \in {"find_page", "save_page"} => job[w].root # None
          /\ job[w].root # None => job[w].root \in roots /\ IsOf(job[w].root, job[w].msg.run, job[w].msg.site)
      BY DEF BaseInv, JobsAgree
    <2>1. CASE Search(w)
      <3>1. rec.pc \in {"find_root", "done"} /\ rec.root = job[w].root
        BY <1>0, <1>2, <2>1 DEF Search, Leave, Job
      <3> QED
        BY <1>1, <1>4, <2>0, <3>1
    <2>2. CASE FindRoot(w)
      <3>1. PICK x : /\ x = None \/ x \in RootsOf(job[w].msg)
                     /\ job' = [job EXCEPT ![w].pc = "save_root", ![w].root = x]
        BY <2>2 DEF FindRoot
      <3>2. rec.pc = "save_root" /\ rec.root = x
        BY <1>0, <1>2, <3>1 DEF Job
      <3>3. x # None => x \in roots /\ IsOf(x, job[w].msg.run, job[w].msg.site)
        BY <3>1 DEF RootsOf, IsOf
      <3> QED
        BY <1>1, <1>4, <3>2, <3>3
    <2>3. CASE SaveRoot(w)
      <3>1. PICK row \in Root : /\ roots' = roots \cup {row} /\ row # None
                                /\ IsOf(row, job[w].msg.run, job[w].msg.site)
                                /\ job'[w].root = row /\ job'[w].pc = "find_page"
        BY <2>3, RootIsSaved
      <3> QED
        BY <1>1, <1>2, <3>1
    <2>4. CASE FindPage(w)
      <3>1. PICK p \in Page, x \in Flagged \cup {None} :
              job' = [job EXCEPT ![w].pc = "save_page", ![w].page = p, ![w].row = x]
        <4>1. job[w].todo \subseteq Page /\ pages \subseteq Flagged
          BY <1>0 DEF BaseInv, TypeOK, Job
        <4> QED
          BY <2>4, <4>1 DEF FindPage
      <3>2. rec.pc = "save_page" /\ rec.page = p /\ rec.root = job[w].root
        BY <1>0, <1>2, <3>1 DEF Job
      <3>3. job[w].root # None
        BY <2>0, <2>4 DEF FindPage
      <3> QED
        BY <1>1, <1>4, <2>0, <3>2, <3>3
    <2>5. CASE SavePage(w)
      <3>1. rec.pc \in {"finish", "find_page"} /\ rec.root = job[w].root
        BY <1>2, <2>5, PageIsSaved
      <3>2. job[w].root # None
        BY <2>0, <2>5 DEF SavePage
      <3> QED
        BY <1>1, <1>4, <2>0, <3>1, <3>2
    <2>6. CASE Finish(w)
      <3>1. rec.pc = "done" /\ rec.root = job[w].root
        BY <1>0, <1>2, <2>6 DEF Finish, Job
      <3> QED
        BY <1>1, <1>4, <2>0, <3>1
    <2> QED
      BY <2>1, <2>2, <2>3, <2>4, <2>5, <2>6
  <1>6. JobsAgree'
    <2> SUFFICES ASSUME NEW v \in Worker
                 PROVE  /\ job'[v].pc # "idle" => job'[v].msg \in Message
                        /\ job'[v].held => job'[v].pc # "idle"
                        /\ job'[v].pc \in {"find_page", "save_page"} => job'[v].root # None
                        /\ job'[v].root # None =>
                             job'[v].root \in roots' /\ IsOf(job'[v].root, job'[v].msg.run, job'[v].msg.site)
                        /\ job'[v].pc = "save_page" => job'[v].page \in Page
      BY DEF JobsAgree, Busy, IsOf
    <2>1. CASE v = w
      BY <1>1, <1>2, <1>5, <2>1
    <2>2. CASE v # w
      <3>1. /\ Busy(v) => job[v].msg \in Message
            /\ job[v].held => Busy(v)
            /\ job[v].pc \in {"find_page", "save_page"} => job[v].root # None
            /\ job[v].root # None => job[v].root \in roots /\ IsOf(job[v].root, job[v].msg.run, job[v].msg.site)
            /\ job[v].pc = "save_page" => job[v].page \in Page
        BY DEF BaseInv, JobsAgree
      <3> QED
        BY <1>2, <1>4, <2>2, <3>1 DEF Busy
    <2> QED
      BY <2>1, <2>2
  <1>7. SitesLeft'
    BY DEF BaseInv, SitesLeft, Search, FindRoot, SaveRoot, FindPage, SavePage, Finish
  <1> QED
    BY <1>0, <1>3, <1>6, <1>7 DEF BaseInv

\* The task of a run, and the request before it.
LEMMA TaskBase ==
  ASSUME BaseInv, NEW r \in RunId, CreateRun(r) \/ SetView(r) \/ Scrape(r) \/ PublishSite(r) \/ TaskFails(r)
  PROVE  BaseInv'
  <1>0. TypeOK /\ task[r] \in [pc : {"none", "view", "scrape", "publish", "rethrow", "ended"}, rest : Seq(Site)]
    BY DEF BaseInv, TypeOK
  <1>1. UNCHANGED <<job, roots, pages, faults, searched, cut, missed>>
    BY DEF CreateRun, SetView, Scrape, PublishSite, TaskFails, history
  <1>2. JobsAgree' /\ OneHeld'
    BY <1>1 DEF BaseInv, JobsAgree, OneHeld, Busy, IsOf
  <1>3. /\ runs' \in [RunId -> [status : {"absent", "pending", "completed", "failed"}, view : BOOLEAN]]
        /\ task' \in [RunId -> [pc : {"none", "view", "scrape", "publish", "rethrow", "ended"}, rest : Seq(Site)]]
        /\ queue' \in Seq(Message) /\ found' \in [RunId -> Seq(Site)] /\ SitesLeft'
    <2>0. /\ runs \in [RunId -> [status : {"absent", "pending", "completed", "failed"}, view : BOOLEAN]]
          /\ task \in [RunId -> [pc : {"none", "view", "scrape", "publish", "rethrow", "ended"}, rest : Seq(Site)]]
          /\ queue \in Seq(Message) /\ found \in [RunId -> Seq(Site)]
          /\ \A q \in RunId : task[q].pc = "publish" => task[q].rest # <<>>
      BY <1>0 DEF TypeOK, BaseInv, SitesLeft
    <2>1. CASE CreateRun(r) \/ SetView(r) \/ TaskFails(r)
      <3>1. PICK to \in {"view", "scrape", "rethrow"} : task' = [task EXCEPT ![r].pc = to]
        BY <2>1 DEF CreateRun, SetView, TaskFails
      <3>2. UNCHANGED <<queue, found>>
        BY <2>1 DEF CreateRun, SetView, TaskFails, history
      <3>3. /\ task' \in [RunId -> [pc : {"none", "view", "scrape", "publish", "rethrow", "ended"}, rest : Seq(Site)]]
            /\ task'[r].pc = to /\ \A q \in RunId : q # r => task'[q] = task[q]
        BY <2>0, <3>1
      <3>4. \/ runs' = [runs EXCEPT ![r].status = "pending"]
            \/ runs' = [runs EXCEPT ![r].status = "failed"]
            \/ runs' = [runs EXCEPT ![r].view = TRUE]
        BY <2>1 DEF CreateRun, SetView, TaskFails
      <3>5. runs' \in [RunId -> [status : {"absent", "pending", "completed", "failed"}, view : BOOLEAN]]
        <4>1. runs[r] \in [status : {"absent", "pending", "completed", "failed"}, view : BOOLEAN]
          BY <2>0
        <4>2. PICK x \in [status : {"absent", "pending", "completed", "failed"}, view : BOOLEAN] :
                runs' = [runs EXCEPT ![r] = x]
          <5>1. /\ [runs[r] EXCEPT !.status = "pending"] \in [status : {"absent", "pending", "completed", "failed"}, view : BOOLEAN]
                /\ [runs[r] EXCEPT !.status = "failed"] \in [status : {"absent", "pending", "completed", "failed"}, view : BOOLEAN]
                /\ [runs[r] EXCEPT !.view = TRUE] \in [status : {"absent", "pending", "completed", "failed"}, view : BOOLEAN]
            BY <4>1
          <5> QED
            BY <3>4, <5>1
        <4> QED
          BY <2>0, <4>2
      <3> QED
        BY <2>0, <3>2, <3>3, <3>5 DEF SitesLeft
    <2>2. CASE Scrape(r)
      <3>1. PICK sites \in Listing :
              /\ found' = [found EXCEPT ![r] = sites]
              /\ runs' = IF sites = <<>> THEN [runs EXCEPT ![r].status = "completed"] ELSE runs
              /\ task' = [task EXCEPT ![r] = [pc |-> IF sites = <<>> THEN "ended" ELSE "publish", rest |-> sites]]
        BY <2>2 DEF Scrape
      <3>2. sites \in Seq(Site)
        BY ConstantsAssumption DEF Listing, ConstantsAssumption
      <3>3. UNCHANGED queue
        BY <2>2 DEF Scrape
      <3> QED
        BY <2>0, <3>1, <3>2, <3>3 DEF SitesLeft
    <2>3. CASE PublishSite(r)
      <3>1. task[r].rest \in Seq(Site) /\ task[r].rest # <<>>
        BY <2>0, <2>3 DEF PublishSite
      <3>2. Head(task[r].rest) \in Site /\ Tail(task[r].rest) \in Seq(Site) /\ Len(Tail(task[r].rest)) = Len(task[r].rest) - 1
        BY <3>1
      <3>3. [run |-> r, site |-> Head(task[r].rest), last |-> IsLast(r)] \in Message
        BY <3>2 DEF Message, IsLast
      <3>4. queue' \in Seq(Message) /\ UNCHANGED <<runs, found>>
        BY <2>0, <2>3, <3>3 DEF PublishSite, history
      <3>5. PICK to \in {"ended", "publish"} :
              /\ task' = [task EXCEPT ![r].rest = Tail(@), ![r].pc = to]
              /\ to = "publish" => Len(task[r].rest) # 1
        BY <2>3 DEF PublishSite
      <3>6. /\ task' \in [RunId -> [pc : {"none", "view", "scrape", "publish", "rethrow", "ended"}, rest : Seq(Site)]]
            /\ task'[r].pc = to /\ task'[r].rest = Tail(task[r].rest)
            /\ \A q \in RunId : q # r => task'[q] = task[q]
        BY <2>0, <3>2, <3>5
      <3>7. to = "publish" => Tail(task[r].rest) # <<>>
        <4>1. Len(task[r].rest) \in Nat /\ Len(<<>>) = 0
          BY <3>1
        <4> DEFINE after == Tail(task[r].rest)
        <4>2. Len(after) = Len(task[r].rest) - 1
          BY <3>2
        <4> HIDE DEF after
        <4>3. after = <<>> => Len(after) = 0
          BY <4>1
        <4>4. to = "publish" => after # <<>>
          BY <3>5, <4>1, <4>2, <4>3
        <4> QED
          BY <4>4 DEF after
      <3> QED
        BY <2>0, <3>4, <3>6, <3>7 DEF SitesLeft
    <2> QED
      BY <2>1, <2>2, <2>3
  <1> QED
    BY <1>0, <1>1, <1>2, <1>3 DEF TypeOK, BaseInv, faults

\* The process ends, with every handler and task.
LEMMA EndBase ==
  ASSUME BaseInv, ProcessEnds, UNCHANGED <<runs, roots, pages, found, searched, missed, reconnects>>,
         crashes' \in 0 .. MaxCrashes
  PROVE  BaseInv' /\ \A w \in Worker : job'[w] = Idle
  <1>0. TypeOK /\ Idle \in Job /\ Idle.pc = "idle" /\ Idle.root = None /\ ~ Idle.held
    BY InitialScrape DEF BaseInv, Idle
  <1>1. job' \in [Worker -> Job] /\ \A w \in Worker : job'[w] = Idle
    BY <1>0 DEF ProcessEnds
  <1>2. queue' \in Seq(Message)
    BY ReturnedQueue DEF ProcessEnds
  <1>3. \A r \in RunId : \/ task[r].pc \in {"none", "ended"} /\ task'[r] = task[r]
                         \/ task'[r] = [pc |-> "ended", rest |-> <<>>]
    BY DEF ProcessEnds
  <1>4. task' \in [RunId -> [pc : {"none", "view", "scrape", "publish", "rethrow", "ended"}, rest : Seq(Site)]]
    <2>1. task' = [r \in RunId |-> task'[r]]
      BY DEF ProcessEnds
    <2>2. \A r \in RunId : task'[r] \in [pc : {"none", "view", "scrape", "publish", "rethrow", "ended"}, rest : Seq(Site)]
      <3>1. [pc |-> "ended", rest |-> <<>>]
            \in [pc : {"none", "view", "scrape", "publish", "rethrow", "ended"}, rest : Seq(Site)]
        BY InitialScrape
      <3>2. task \in [RunId -> [pc : {"none", "view", "scrape", "publish", "rethrow", "ended"}, rest : Seq(Site)]]
        BY <1>0 DEF TypeOK
      <3> QED
        BY <1>3, <3>1, <3>2
    <2> QED
      BY <2>1, <2>2
  <1>5. cut' \subseteq RunId
    BY <1>0 DEF TypeOK, ProcessEnds
  <1>6. TypeOK'
    BY <1>0, <1>1, <1>2, <1>4, <1>5 DEF TypeOK
  <1>7. SitesLeft' /\ JobsAgree' /\ OneHeld'
    BY <1>0, <1>1, <1>3 DEF SitesLeft, JobsAgree, OneHeld, Busy
  <1> QED
    BY <1>1, <1>6, <1>7 DEF BaseInv

LEMMA DeliveryBase ==
  ASSUME BaseInv, (\E w \in Worker : Receive(w) \/ Ack(w)) \/ Reconnect
  PROVE  BaseInv'
  <1>0. TypeOK /\ Idle \in Job /\ Idle.pc = "idle" /\ Idle.root = None /\ ~ Idle.held
        /\ job \in [Worker -> Job] /\ queue \in Seq(Message)
    BY InitialScrape DEF BaseInv, Idle, TypeOK
  <1>1. ASSUME NEW w \in Worker, Receive(w) PROVE BaseInv'
    <2> DEFINE rec == [Idle EXCEPT !.pc = "search", !.held = TRUE, !.msg = Head(queue)]
    <2>1. job' = [job EXCEPT ![w] = rec] /\ queue' = Tail(queue) /\ queue # <<>>
          /\ UNCHANGED <<runs, task, roots, pages, faults, history>> /\ \A v \in Worker : ~ job[v].held
      BY <1>1 DEF Receive
    <2>2. Head(queue) \in Message /\ queue' \in Seq(Message)
      BY <1>0, <2>1
    <2>3. rec \in Job /\ rec.pc = "search" /\ rec.msg = Head(queue) /\ rec.root = None
      BY <2>2 DEF Idle, Job
    <2> HIDE DEF rec
    <2>4. job' \in [Worker -> Job] /\ job'[w] = rec /\ \A v \in Worker : v # w => job'[v] = job[v]
      BY <1>0, <2>1, <2>3
    <2>5. TypeOK' /\ SitesLeft'
      BY <1>0, <2>1, <2>2, <2>4 DEF BaseInv, TypeOK, SitesLeft, faults, history
    <2>6. OneHeld'
      BY <2>1, <2>4 DEF OneHeld
    <2>7. JobsAgree'
      BY <2>1, <2>2, <2>3, <2>4 DEF BaseInv, JobsAgree, Busy, IsOf
    <2> QED
      BY <2>1, <2>5, <2>6, <2>7 DEF BaseInv
  <1>2. ASSUME NEW w \in Worker, Ack(w) PROVE BaseInv'
    <2>1. job' = [job EXCEPT ![w] = Idle] /\ UNCHANGED <<runs, task, queue, roots, pages, faults, history>>
      BY <1>2 DEF Ack
    <2>2. job' \in [Worker -> Job] /\ job'[w] = Idle /\ \A v \in Worker : v # w => job'[v] = job[v]
      BY <1>0, <2>1
    <2>3. TypeOK' /\ SitesLeft'
      BY <1>0, <2>1, <2>2 DEF BaseInv, TypeOK, SitesLeft, faults, history
    <2>4. OneHeld'
      BY <1>0, <2>2 DEF BaseInv, OneHeld
    <2>5. JobsAgree'
      BY <1>0, <2>1, <2>2 DEF BaseInv, JobsAgree, Busy, IsOf
    <2> QED
      BY <2>1, <2>3, <2>4, <2>5 DEF BaseInv
  <1>3. CASE Reconnect
    <2>1. /\ job' = [w \in Worker |-> [job[w] EXCEPT !.held = FALSE]] /\ queue' = Returned
          /\ UNCHANGED <<runs, task, roots, pages, crashes, history>>
          /\ reconnects' = reconnects + 1 /\ reconnects < MaxReconnects
      BY <1>3 DEF Reconnect
    <2>2. \A w \in Worker : /\ job'[w] \in Job /\ ~ job'[w].held /\ job'[w].pc = job[w].pc
                            /\ job'[w].msg = job[w].msg /\ job'[w].root = job[w].root
                            /\ job'[w].page = job[w].page
      BY <1>0, <2>1 DEF Job
    <2>3. job' \in [Worker -> Job]
      BY <2>1, <2>2
    <2>4. queue' \in Seq(Message)
      BY <2>1, ReturnedQueue
    <2>5. reconnects' \in 0 .. MaxReconnects
      BY <1>0, <2>1, ConstantsAssumption DEF TypeOK, ConstantsAssumption
    <2>6. TypeOK' /\ SitesLeft'
      BY <1>0, <2>1, <2>3, <2>4, <2>5 DEF BaseInv, TypeOK, SitesLeft, history
    <2>7. OneHeld'
      BY <2>2 DEF OneHeld
    <2>8. JobsAgree'
      BY <2>1, <2>2 DEF BaseInv, JobsAgree, Busy, IsOf
    <2> QED
      BY <2>1, <2>6, <2>7, <2>8 DEF BaseInv
  <1> QED
    BY <1>1, <1>2, <1>3

LEMMA BaseStep == BaseInv /\ [Next]_vars => BaseInv'
  <1> SUFFICES ASSUME BaseInv, [Next]_vars PROVE BaseInv'
    OBVIOUS
  <1>1. ASSUME NEW r \in RunId, CreateRun(r) \/ SetView(r) \/ Scrape(r) \/ PublishSite(r) \/ TaskFails(r)
        PROVE  BaseInv'
    BY <1>1, TaskBase
  <1>2. ASSUME NEW w \in Worker,
               Search(w) \/ FindRoot(w) \/ SaveRoot(w) \/ FindPage(w) \/ SavePage(w) \/ Finish(w)
        PROVE  BaseInv'
    BY <1>2, WorkerBase
  <1>3. ASSUME NEW w \in Worker, Receive(w) \/ Ack(w) PROVE BaseInv'
    BY <1>3, DeliveryBase
  <1>4. CASE Reconnect
    BY <1>4, DeliveryBase
  <1>5. CASE Crash
    <2>1. crashes' \in 0 .. MaxCrashes
      BY <1>5, ConstantsAssumption DEF Crash, BaseInv, TypeOK, ConstantsAssumption
    <2> QED
      BY <1>5, <2>1, EndBase DEF Crash
  <1>6. ASSUME NEW r \in RunId, Rethrow(r) PROVE BaseInv'
    <2>1. crashes' \in 0 .. MaxCrashes
      BY <1>6 DEF Rethrow, BaseInv, TypeOK, faults
    <2> QED
      BY <1>6, <2>1, EndBase DEF Rethrow, faults
  <1>7. CASE UNCHANGED vars
    BY <1>7 DEF vars, faults, history, BaseInv, TypeOK, JobsAgree, OneHeld, SitesLeft, Busy, IsOf
  <1> QED
    BY <1>1, <1>2, <1>3, <1>4, <1>5, <1>6, <1>7 DEF Next, TaskStep, WorkerStep

-----------------------------------------------------------------------------
(* The tables of the business scraper *)

\* A step that leaves the tables alone, and no handler where it matters.
LEMMA TablesKept ==
  ASSUME RowsInv, UNCHANGED <<roots, pages>>, reconnects' = 0 => reconnects = 0,
         reconnects' = 0 => \A w \in Worker :
           /\ Busy(w)' => job'[w].held
           /\ \/ job'[w] = job[w]
              \/ ~ (job'[w].pc = "save_root" /\ job'[w].root = None) /\ ~ (job'[w].pc = "save_page" /\ job'[w].row = None)
  PROVE  LookupsHold' /\ PagesFollowRoots' /\ RowsAreUnique'
  <1>1. PagesFollowRoots' /\ RowsAreUnique'
    BY DEF RowsInv, PagesFollowRoots, RowsAreUnique
  <1>2. LookupsHold'
    BY DEF RowsInv, LookupsHold, RootsOf
  <1> QED
    BY <1>1, <1>2

\* Before the first reconnect a handler at work is the only one.
LEMMA OneAtWork ==
  ASSUME RowsInv, reconnects = 0, NEW v \in Worker, NEW w \in Worker, Busy(v), Busy(w)
  PROVE  v = w
  BY DEF RowsInv, BaseInv, LookupsHold, OneHeld

LEMMA WorkerRows ==
  ASSUME RowsInv, NEW w \in Worker,
         Search(w) \/ FindRoot(w) \/ SaveRoot(w) \/ FindPage(w) \/ SavePage(w) \/ Finish(w)
  PROVE  LookupsHold' /\ PagesFollowRoots' /\ RowsAreUnique'
  <1>0. /\ BaseInv /\ job \in [Worker -> Job] /\ roots \subseteq Root /\ pages \subseteq Flagged
        /\ job[w] \in Job /\ UNCHANGED reconnects
    BY DEF RowsInv, BaseInv, TypeOK, Search, FindRoot, SaveRoot, FindPage, SavePage, Finish, faults
  <1>1. PICK rec \in Job :
          /\ job' = [job EXCEPT ![w] = rec] /\ rec.msg = job[w].msg /\ rec.held = job[w].held
          /\ Busy(w) /\ rec.pc # "idle"
          /\ job[w].msg \in Message /\ job[w].msg.run \in RunId /\ job[w].msg.site \in Site
    BY <1>0, WorkerMoves
  <1>2. job'[w] = rec /\ \A v \in Worker : v # w => job'[v] = job[v]
    BY <1>0, <1>1
  <1>3. ASSUME reconnects = 0 PROVE \A v \in Worker : Busy(v)' => v = w /\ job'[v].held
    <2>1. job[w].held
      BY <1>1, <1>3 DEF RowsInv, LookupsHold
    <2>2. \A v \in Worker : Busy(v) => v = w
      BY <1>1, <1>3, OneAtWork
    <2> QED
      BY <1>1, <1>2, <2>1, <2>2 DEF Busy
  <1>4. ASSUME /\ reconnects = 0 /\ rec.pc = "save_root" /\ rec.root = None => {x \in roots' : IsOf(x, rec.msg.run, rec.msg.site)} = {}
               /\ reconnects = 0 /\ rec.pc = "save_page" /\ rec.row = None =>
                    ~ \E x \in pages' : x.site = rec.msg.site /\ x.page = rec.page
        PROVE  LookupsHold'
    <2> SUFFICES ASSUME reconnects' = 0, NEW v \in Worker
                 PROVE  /\ Busy(v)' => job'[v].held
                        /\ job'[v].pc = "save_root" /\ job'[v].root = None => RootsOf(job[v].msg)' = {}
                        /\ job'[v].pc = "save_page" /\ job'[v].row = None =>
                             ~ \E x \in pages' : x.site = job'[v].msg.site /\ x.page = job'[v].page
      BY DEF LookupsHold
    <2>1. CASE Busy(v)'
      <3>1. v = w /\ job'[v].held /\ job'[v] = rec
        BY <1>0, <1>2, <1>3, <2>1
      <3> QED
        BY <1>0, <1>4, <3>1 DEF RootsOf, IsOf
    <2>2. CASE ~ Busy(v)'
      BY <2>2 DEF Busy
    <2> QED
      BY <2>1, <2>2
  <1>5. CASE Search(w) \/ Finish(w)
    <2>1. UNCHANGED <<roots, pages>>
      BY <1>5 DEF Search, Finish
    <2>2. rec.pc \in {"find_root", "done"}
      BY <1>0, <1>2, <1>5 DEF Search, Leave, Finish, Job
    <2>3. LookupsHold'
      BY <1>4, <2>2
    <2> QED
      BY <1>0, <2>1, <2>3 DEF RowsInv, PagesFollowRoots, RowsAreUnique
  <1>6. CASE FindRoot(w)
    <2>1. PICK x : /\ (x = None /\ RootsOf(job[w].msg) = {}) \/ x \in RootsOf(job[w].msg)
                   /\ job' = [job EXCEPT ![w].pc = "save_root", ![w].root = x]
                   /\ UNCHANGED <<roots, pages>>
      BY <1>6 DEF FindRoot
    <2>2. rec.pc = "save_root" /\ rec.root = x
      BY <1>0, <1>2, <2>1 DEF Job
    <2>3. x = None => RootsOf(job[w].msg) = {}
      BY <1>0, <2>1, RowsAreNotNone DEF RootsOf
    <2>4. LookupsHold'
      BY <1>1, <1>4, <2>1, <2>2, <2>3 DEF RootsOf, IsOf
    <2> QED
      BY <1>0, <2>1, <2>4 DEF RowsInv, PagesFollowRoots, RowsAreUnique
  <1>7. CASE SaveRoot(w)
    <2>1. PICK row \in Root :
            /\ roots' = roots \cup {row} /\ row # None /\ IsOf(row, job[w].msg.run, job[w].msg.site)
            /\ job'[w].root = row /\ job'[w].pc = "find_page" /\ UNCHANGED pages
            /\ job[w].root # None => roots' = roots
      BY <1>0, <1>7, RootIsSaved
    <2>2. LookupsHold'
      BY <1>2, <1>4, <2>1
    <2>3. PagesFollowRoots'
      BY <2>1 DEF RowsInv, PagesFollowRoots
    <2>4. RowsAreUnique'
      <3>1. CASE job[w].root # None
        BY <1>0, <2>1, <3>1 DEF RowsInv, RowsAreUnique
      <3>2. CASE job[w].root = None
        <4>1. reconnects = 0 => RootsOf(job[w].msg) = {}
          BY <1>7, <3>2 DEF RowsInv, LookupsHold, SaveRoot
        <4>2. reconnects = 0 => \A x \in roots : ~ IsOf(x, job[w].msg.run, job[w].msg.site)
          BY <4>1 DEF RootsOf, IsOf
        <4> QED
          BY <1>0, <2>1, <4>2 DEF RowsInv, RowsAreUnique, IsOf
      <3> QED
        BY <3>1, <3>2
    <2> QED
      BY <2>2, <2>3, <2>4
  <1>8. CASE FindPage(w)
    <2>1. PICK p, x : /\ \/ x = None /\ ~ \E y \in pages : y.site = job[w].msg.site /\ y.page = p
                         \/ x \in pages
                      /\ job' = [job EXCEPT ![w].pc = "save_page", ![w].page = p, ![w].row = x]
                      /\ UNCHANGED <<roots, pages>>
      <3>1. PICK p \in job[w].todo :
              \/ /\ {y \in pages : y.site = job[w].msg.site /\ y.page = p} = {}
                 /\ job' = [job EXCEPT ![w].pc = "save_page", ![w].page = p, ![w].row = None]
              \/ \E x \in {y \in pages : y.site = job[w].msg.site /\ y.page = p} :
                   job' = [job EXCEPT ![w].pc = "save_page", ![w].page = p, ![w].row = x]
        BY <1>8 DEF FindPage
      <3>2. UNCHANGED <<roots, pages>>
        BY <1>8 DEF FindPage
      <3> QED
        BY <3>1, <3>2
    <2>2. rec.pc = "save_page" /\ rec.page = p /\ rec.row = x
      BY <1>0, <1>2, <2>1 DEF Job
    <2>3. x = None => ~ \E y \in pages : y.site = job[w].msg.site /\ y.page = p
      BY <1>0, <2>1, RowsAreNotNone
    <2>4. LookupsHold'
      BY <1>1, <1>4, <2>1, <2>2, <2>3
    <2> QED
      BY <1>0, <2>1, <2>4 DEF RowsInv, PagesFollowRoots, RowsAreUnique
  <1>9. CASE SavePage(w)
    <2>0. /\ \A x \in Flagged : /\ Rewritten(w, x) \in Flagged
                                /\ IsOf(Rewritten(w, x), job[w].msg.run, x.site)
                                /\ Rewritten(w, x).page = x.page /\ Rewritten(w, x).root = job[w].root
          /\ UNCHANGED roots /\ job'[w].pc \in {"finish", "find_page"}
      BY <1>0, <1>9, PageIsSaved
    <2>1. LookupsHold'
      BY <1>2, <1>4, <2>0
    <2>2. job[w].root \in roots /\ IsOf(job[w].root, job[w].msg.run, job[w].msg.site)
      BY <1>0, <1>9 DEF BaseInv, JobsAgree, SavePage
    <2>3. CASE job[w].row = None
      <3>1. PICK new \in Flagged :
              /\ pages' = pages \cup {new} /\ IsOf(new, job[w].msg.run, job[w].msg.site)
              /\ new.page = job[w].page /\ new.root = job[w].root
        BY <1>0, <1>9, <2>3, PageIsSaved
      <3>2. PagesFollowRoots'
        BY <2>0, <2>2, <3>1 DEF RowsInv, PagesFollowRoots, IsOf
      <3>3. reconnects = 0 => ~ \E x \in pages : x.site = job[w].msg.site /\ x.page = job[w].page
        BY <1>9, <2>3 DEF RowsInv, LookupsHold, SavePage
      <3>4. RowsAreUnique'
        BY <1>0, <2>0, <3>1, <3>3 DEF RowsInv, RowsAreUnique, IsOf
      <3> QED
        BY <2>1, <3>2, <3>4
    <2>4. CASE job[w].row # None
      <3>1. pages' = (pages \ OldRows(w)) \cup {Rewritten(w, x) : x \in OldRows(w)}
        BY <1>0, <1>9, <2>4, PageIsSaved
      <3>2. \A y \in pages' : \E x \in pages :
              /\ x.site = y.site /\ x.page = y.page
              /\ \/ y = x /\ x \notin OldRows(w)
                 \/ y = Rewritten(w, x) /\ x \in OldRows(w)
        <4>1. \A x \in pages : IsOf(Rewritten(w, x), job[w].msg.run, x.site) /\ Rewritten(w, x).page = x.page
          BY <1>0, <2>0
        <4>2. OldRows(w) \subseteq pages
          BY DEF OldRows
        <4> QED
          BY <3>1, <4>1, <4>2 DEF IsOf
      <3>3. PagesFollowRoots'
        <4> SUFFICES ASSUME NEW y \in pages' PROVE y.run = y.root.run /\ y.site = y.root.site /\ y.root \in roots
          BY <2>0 DEF PagesFollowRoots
        <4>1. PICK x \in pages : \/ y = x /\ x \notin OldRows(w)
                                 \/ y = Rewritten(w, x) /\ x \in OldRows(w)
          BY <3>2
        <4>2. CASE y = x
          BY <4>2 DEF RowsInv, PagesFollowRoots
        <4>3. CASE y = Rewritten(w, x) /\ x \in OldRows(w)
          <5>1. IsOf(y, job[w].msg.run, x.site) /\ y.root = job[w].root /\ x.site = job[w].msg.site
            BY <1>0, <2>0, <4>3 DEF OldRows
          <5> QED
            BY <2>2, <5>1 DEF IsOf
        <4> QED
          BY <4>1, <4>2, <4>3
      <3>4. RowsAreUnique'
        <4>1. reconnects = 0 => \A x, y \in pages : x.site = y.site /\ x.page = y.page => x = y
          BY DEF RowsInv, RowsAreUnique
        <4>2. ASSUME reconnects = 0, NEW a \in pages', NEW b \in pages', a.site = b.site, a.page = b.page
              PROVE  a = b
          <5>1. PICK x \in pages : /\ x.site = a.site /\ x.page = a.page
                                   /\ \/ a = x /\ x \notin OldRows(w)
                                      \/ a = Rewritten(w, x) /\ x \in OldRows(w)
            BY <3>2
          <5>2. PICK y \in pages : /\ y.site = b.site /\ y.page = b.page
                                   /\ \/ b = y /\ y \notin OldRows(w)
                                      \/ b = Rewritten(w, y) /\ y \in OldRows(w)
            BY <3>2
          <5>3. x = y
            BY <4>1, <4>2, <5>1, <5>2
          <5> QED
            BY <5>1, <5>2, <5>3
        <4> QED
          BY <1>0, <2>0, <4>2 DEF RowsInv, RowsAreUnique
      <3> QED
        BY <2>1, <3>3, <3>4
    <2> QED
      BY <2>3, <2>4
  <1> QED
    BY <1>5, <1>6, <1>7, <1>8, <1>9

LEMMA RowsStep == RowsInv /\ [Next]_vars => RowsInv'
  <1> SUFFICES ASSUME RowsInv, [Next]_vars PROVE RowsInv'
    OBVIOUS
  <1>0. /\ BaseInv /\ BaseInv' /\ Idle.pc = "idle" /\ job \in [Worker -> Job]
        /\ reconnects \in 0 .. MaxReconnects
    BY BaseStep DEF RowsInv, BaseInv, TypeOK, Idle
  <1>1. ASSUME NEW r \in RunId, CreateRun(r) \/ SetView(r) \/ Scrape(r) \/ PublishSite(r) \/ TaskFails(r)
        PROVE  RowsInv'
    <2>1. UNCHANGED <<job, roots, pages, reconnects>>
      BY <1>1 DEF CreateRun, SetView, Scrape, PublishSite, TaskFails, faults
    <2>2. reconnects' = 0 => \A w \in Worker : Busy(w)' => job'[w].held
      BY <2>1 DEF RowsInv, LookupsHold, Busy
    <2> QED
      BY <1>0, <2>1, <2>2, TablesKept DEF RowsInv
  <1>2. ASSUME NEW w \in Worker,
               Search(w) \/ FindRoot(w) \/ SaveRoot(w) \/ FindPage(w) \/ SavePage(w) \/ Finish(w)
        PROVE  RowsInv'
    BY <1>0, <1>2, WorkerRows DEF RowsInv
  <1>3. ASSUME NEW w \in Worker, Receive(w) PROVE RowsInv'
    <2> DEFINE rec == [Idle EXCEPT !.pc = "search", !.held = TRUE, !.msg = Head(queue)]
    <2>1. job' = [job EXCEPT ![w] = rec] /\ UNCHANGED <<roots, pages, reconnects>>
      BY <1>3 DEF Receive, faults
    <2>2. rec.pc = "search" /\ rec.held
      BY DEF Idle
    <2> HIDE DEF rec
    <2>3. job'[w] = rec /\ \A v \in Worker : v # w => job'[v] = job[v]
      BY <1>0, <2>1
    <2>4. reconnects' = 0 => \A v \in Worker : Busy(v)' => job'[v].held
      BY <2>1, <2>2, <2>3 DEF RowsInv, LookupsHold, Busy
    <2> QED
      BY <1>0, <2>1, <2>2, <2>3, <2>4, TablesKept DEF RowsInv
  <1>4. ASSUME NEW w \in Worker, Ack(w) PROVE RowsInv'
    <2>1. job' = [job EXCEPT ![w] = Idle] /\ UNCHANGED <<roots, pages, reconnects>>
      BY <1>4 DEF Ack, faults
    <2>2. job'[w] = Idle /\ \A v \in Worker : v # w => job'[v] = job[v]
      BY <1>0, <2>1
    <2>3. reconnects' = 0 => \A v \in Worker : Busy(v)' => job'[v].held
      BY <1>0, <2>1, <2>2 DEF RowsInv, LookupsHold, Busy
    <2> QED
      BY <1>0, <2>1, <2>2, <2>3, TablesKept DEF RowsInv
  <1>5. CASE Crash \/ \E r \in RunId : Rethrow(r)
    <2>1. UNCHANGED <<roots, pages, reconnects>> /\ \A w \in Worker : job'[w] = Idle
      BY <1>5 DEF Crash, Rethrow, ProcessEnds, faults
    <2> QED
      BY <1>0, <2>1, TablesKept DEF RowsInv, Busy
  <1>6. CASE Reconnect
    <2>1. reconnects' # 0 /\ UNCHANGED <<roots, pages>>
      BY <1>0, <1>6 DEF Reconnect
    <2> QED
      BY <1>0, <2>1, TablesKept DEF RowsInv
  <1>7. CASE UNCHANGED vars
    <2>1. UNCHANGED <<job, roots, pages, reconnects>>
      BY <1>7 DEF vars, faults
    <2>2. reconnects' = 0 => \A w \in Worker : Busy(w)' => job'[w].held
      BY <2>1 DEF RowsInv, LookupsHold, Busy
    <2> QED
      BY <1>0, <2>1, <2>2, TablesKept DEF RowsInv
  <1> QED
    BY <1>1, <1>2, <1>3, <1>4, <1>5, <1>6, <1>7 DEF Next, TaskStep, WorkerStep

\* The website of a page is the website of its row, and before the first
\* reconnect nothing is written twice, for any runs, websites, pages and workers.
THEOREM RowsAreNotTorn == Spec => []RowsAreSound
  <1>1. Init => RowsInv
    <2>1. Init => LookupsHold /\ PagesFollowRoots /\ RowsAreUnique
      BY DEF Init, LookupsHold, Busy, Idle, PagesFollowRoots, RowsAreUnique
    <2> QED
      BY <2>1, InitBase DEF RowsInv
  <1>2. RowsInv => RowsAreSound
    BY DEF RowsInv, BaseInv, RowsAreSound
  <1> QED
    BY <1>1, <1>2, RowsStep, PTL DEF Spec

-----------------------------------------------------------------------------
(* The status of the runs of the business scraper *)

\* What is held and awaited, where the queue and the websites at work stay.
LEMMA SameMessages ==
  ASSUME UNCHANGED queue,
         \A v \in Worker : job'[v].held = job[v].held /\ job'[v].msg = job[v].msg
  PROVE  /\ \A r, s : Held(r, s)' = Held(r, s)
         /\ \A r : UNCHANGED task => LastAwaited(r)' = LastAwaited(r)
  BY DEF Held, LastAwaited

\* A handler's step but the last.
LEMMA WorkerScrapes ==
  ASSUME ScrapeInv, NEW w \in Worker,
         Search(w) \/ FindRoot(w) \/ SaveRoot(w) \/ FindPage(w) \/ SavePage(w) \/ Finish(w)
  PROVE  ScrapeInv'
  <1>0. /\ BaseInv /\ BaseInv' /\ job \in [Worker -> Job] /\ job[w] \in Job
        /\ runs \in [RunId -> [status : {"absent", "pending", "completed", "failed"}, view : BOOLEAN]]
    BY WorkerBase DEF ScrapeInv, BaseInv, TypeOK
  <1>1. PICK rec \in Job :
          /\ job' = [job EXCEPT ![w] = rec] /\ rec.msg = job[w].msg /\ rec.held = job[w].held
          /\ Busy(w) /\ rec.pc # "idle"
          /\ job[w].msg \in Message /\ job[w].msg.run \in RunId /\ job[w].msg.site \in Site
    BY <1>0, WorkerMoves
  <1>2. /\ job'[w] = rec /\ \A v \in Worker : v # w => job'[v] = job[v]
        /\ \A v \in Worker : job'[v].held = job[v].held /\ job'[v].msg = job[v].msg /\ Busy(v)' = Busy(v)
    BY <1>0, <1>1 DEF Busy
  <1>3. UNCHANGED <<task, queue, found, cut>>
    BY DEF Search, FindRoot, SaveRoot, FindPage, SavePage, Finish, history
  <1>4. /\ \A r, s : Held(r, s)' = Held(r, s)
        /\ \A r : LastAwaited(r)' = LastAwaited(r)
        /\ \A r : SitesFound(r)' = SitesFound(r)
        /\ \A m : Out(m)' = Out(m)
    BY <1>2, <1>3, SameMessages DEF SitesFound, Out
  <1>5. searched \subseteq searched' /\ missed \subseteq missed'
    BY DEF Search, Leave, FindRoot, SaveRoot, FindPage, SavePage, Finish, history
  <1>6. \A r \in RunId :
          \/ runs'[r] = runs[r]
          \/ /\ r = job[w].msg.run /\ job[w].msg.last /\ <<r, job[w].msg.site>> \in searched'
             /\ runs'[r].status = "completed" /\ runs'[r].view
    <2>1. CASE Finish(w)
      <3>1. /\ <<job[w].msg.run, job[w].msg.site>> \in searched'
            /\ \/ UNCHANGED runs
               \/ /\ job[w].msg.last
                  /\ runs' = [runs EXCEPT ![job[w].msg.run] = [status |-> "completed", view |-> TRUE]]
        BY <2>1 DEF Finish
      <3> QED
        BY <1>0, <1>1, <3>1
    <2>2. CASE ~ Finish(w)
      <3>1. UNCHANGED runs
        BY <2>2 DEF Search, FindRoot, SaveRoot, FindPage, SavePage
      <3> QED
        BY <3>1
    <2> QED
      BY <2>1, <2>2
  <1>7. rec.pc = "done" => /\ <<job[w].msg.run, job[w].msg.site>> \in searched'
                           /\ job[w].msg.last => \/ runs'[job[w].msg.run].status = "completed"
                                                 \/ job[w].msg.run \in missed'
    <2>1. CASE Finish(w)
      <3>1. /\ <<job[w].msg.run, job[w].msg.site>> \in searched'
            /\ job[w].msg.last =>
                 runs' = [runs EXCEPT ![job[w].msg.run] = [status |-> "completed", view |-> TRUE]]
        BY <2>1 DEF Finish
      <3> QED
        BY <1>0, <1>1, <3>1
    <2>2. CASE Search(w)
      <3>1. CASE Leave(w)
        BY <3>1 DEF Leave
      <3>2. CASE ~ Leave(w)
        <4>1. rec.pc = "find_root"
          BY <1>0, <1>2, <2>2, <3>2 DEF Search, Job
        <4> QED
          BY <4>1
      <3> QED
        BY <3>1, <3>2
    <2>3. CASE FindRoot(w)
      <3>1. PICK x : job' = [job EXCEPT ![w].pc = "save_root", ![w].root = x]
        BY <2>3 DEF FindRoot
      <3> QED
        BY <1>0, <1>2, <3>1 DEF Job
    <2>4. CASE SaveRoot(w)
      BY <1>0, <1>2, <2>4, RootIsSaved
    <2>5. CASE FindPage(w)
      <3>1. PICK p, x : job' = [job EXCEPT ![w].pc = "save_page", ![w].page = p, ![w].row = x]
        BY <2>5 DEF FindPage
      <3> QED
        BY <1>0, <1>2, <3>1 DEF Job
    <2>6. CASE SavePage(w)
      BY <1>0, <1>2, <2>6, PageIsSaved
    <2> QED
      BY <2>1, <2>2, <2>3, <2>4, <2>5, <2>6
  <1>8. /\ Out(job[w].msg)
        /\ job[w].msg.last =>
             /\ task[job[w].msg.run].pc = "ended"
             /\ \A s \in SitesFound(job[w].msg.run) : s = job[w].msg.site \/ <<job[w].msg.run, s>> \in searched
    BY <1>1 DEF ScrapeInv, LastsAreOut, Out, LastComesLast
  <1>9. TaskAgrees'
    BY <1>3, <1>6, <1>8 DEF ScrapeInv, TaskAgrees
  <1>10. \A r \in RunId : runs'[r].status = runs[r].status \/ runs'[r].status = "completed"
    BY <1>6
  <1>11. LastsAreOut'
    BY <1>3, <1>4, <1>10 DEF ScrapeInv, LastsAreOut, Message
  <1>12. PublishedInOrder'
    BY <1>3, <1>4, <1>5 DEF ScrapeInv, PublishedInOrder
  <1>13. LastComesLast'
    BY <1>2, <1>3, <1>4, <1>5 DEF ScrapeInv, LastComesLast
  <1>14. DoneIsDone'
    <2> SUFFICES ASSUME NEW v \in Worker, job'[v].pc = "done"
                 PROVE  /\ <<job'[v].msg.run, job'[v].msg.site>> \in searched'
                        /\ job'[v].msg.last => \/ runs'[job'[v].msg.run].status = "completed"
                                               \/ job'[v].msg.run \in missed'
      BY DEF DoneIsDone
    <2>1. CASE v = w
      BY <1>1, <1>2, <1>7, <2>1
    <2>2. CASE v # w
      <3>1. /\ job'[v] = job[v] /\ job[v].msg \in Message /\ job[v].msg.run \in RunId
            /\ <<job[v].msg.run, job[v].msg.site>> \in searched
            /\ job[v].msg.last => runs[job[v].msg.run].status = "completed" \/ job[v].msg.run \in missed
        BY <1>0, <1>2, <2>2 DEF ScrapeInv, DoneIsDone, BaseInv, JobsAgree, Busy, Message
      <3> QED
        BY <1>5, <1>10, <3>1
    <2> QED
      BY <2>1, <2>2
  <1>15. CompletedIsSearched'
    BY <1>4, <1>5, <1>6, <1>8 DEF ScrapeInv, CompletedIsSearched
  <1>16. PendingAwaited'
    BY <1>3, <1>4, <1>5, <1>10 DEF ScrapeInv, PendingAwaited
  <1> QED
    BY <1>0, <1>9, <1>11, <1>12, <1>13, <1>14, <1>15, <1>16 DEF ScrapeInv

\* What may be said of a message of a run whose task goes on: it is not the last.
LEMMA NotLastYet ==
  ASSUME ScrapeInv, NEW r \in RunId, task[r].pc # "ended"
  PROVE  \A m \in Message : m.last /\ Out(m) => m.run # r
  BY DEF ScrapeInv, LastsAreOut

\* A step of the task, which queues nothing.
LEMMA TaskScrapes ==
  ASSUME ScrapeInv, NEW r \in RunId, CreateRun(r) \/ SetView(r) \/ Scrape(r) \/ TaskFails(r)
  PROVE  ScrapeInv'
  <1>0. /\ BaseInv /\ BaseInv'
        /\ runs \in [RunId -> [status : {"absent", "pending", "completed", "failed"}, view : BOOLEAN]]
        /\ task \in [RunId -> [pc : {"none", "view", "scrape", "publish", "rethrow", "ended"}, rest : Seq(Site)]]
        /\ found \in [RunId -> Seq(Site)]
    BY TaskBase DEF ScrapeInv, BaseInv, TypeOK
  <1>1. UNCHANGED <<queue, job, searched, cut, missed>>
    BY DEF CreateRun, SetView, Scrape, TaskFails, history
  <1>2. task[r].pc # "ended"
    BY DEF CreateRun, SetView, Scrape, TaskFails
  <1>3. /\ \A q \in RunId : q # r => task'[q] = task[q] /\ runs'[q] = runs[q] /\ found'[q] = found[q]
        /\ \/ task'[r].pc \in {"view", "scrape"} /\ runs'[r].status = "pending"
              /\ (task'[r].pc = "scrape" => runs'[r].view)
           \/ task'[r].pc = "rethrow" /\ runs'[r].status = "failed"
           \/ task'[r].pc = "publish" /\ runs'[r].status = "pending" /\ runs'[r].view /\ task'[r].rest = found'[r]
           \/ task'[r].pc = "ended" /\ runs'[r].status = "completed" /\ runs'[r].view /\ found'[r] = <<>>
    <2>1. CASE CreateRun(r)
      BY <1>0, <2>1 DEF CreateRun, history
    <2>2. CASE SetView(r)
      <3>1. runs[r].status = "pending"
        BY <2>2 DEF ScrapeInv, TaskAgrees, SetView
      <3> QED
        BY <1>0, <2>2, <3>1 DEF SetView, history
    <2>3. CASE TaskFails(r)
      BY <1>0, <2>3 DEF TaskFails, history
    <2>4. CASE Scrape(r)
      <3>1. runs[r].status = "pending" /\ runs[r].view
        BY <2>4 DEF ScrapeInv, TaskAgrees, Scrape
      <3>2. PICK sites \in Listing :
              /\ found' = [found EXCEPT ![r] = sites]
              /\ runs' = IF sites = <<>> THEN [runs EXCEPT ![r].status = "completed"] ELSE runs
              /\ task' = [task EXCEPT ![r] = [pc |-> IF sites = <<>> THEN "ended" ELSE "publish", rest |-> sites]]
        BY <2>4 DEF Scrape
      <3>3. CASE sites = <<>>
        BY <1>0, <3>1, <3>2, <3>3
      <3>4. CASE sites # <<>>
        BY <1>0, <3>1, <3>2, <3>4
      <3> QED
        BY <3>3, <3>4
    <2> QED
      BY <2>1, <2>2, <2>3, <2>4
  <1>4. /\ \A q, s : Held(q, s)' = Held(q, s)
        /\ \A m : Out(m)' = Out(m)
        /\ \A q \in RunId : q # r => SitesFound(q)' = SitesFound(q) /\ LastAwaited(q)' = LastAwaited(q)
        /\ \A w \in Worker : Busy(w)' = Busy(w)
    BY <1>1, <1>3 DEF Out, Held, SitesFound, LastAwaited, Busy
  <1>5. \A w \in Worker : Busy(w) => job[w].msg \in Message /\ job[w].msg.run \in RunId /\ Out(job[w].msg)
    BY <1>0 DEF BaseInv, JobsAgree, Message, Out
  <1>6. \A m \in Message : m.last /\ Out(m) => m.run \in RunId /\ m.run # r
    BY <1>2, NotLastYet DEF Message
  <1>7. TaskAgrees'
    BY <1>3 DEF ScrapeInv, TaskAgrees
  <1>8. LastsAreOut'
    BY <1>3, <1>4, <1>6 DEF ScrapeInv, LastsAreOut
  <1>9. PublishedInOrder'
    <2> SUFFICES ASSUME NEW q \in RunId, task'[q].pc = "publish", NEW s \in SitesFound(q)'
                 PROVE  \/ <<q, s>> \in searched'
                        \/ Queued(queue', q, s, Len(queue')) \/ Held(q, s)'
                        \/ \E i \in DOMAIN task'[q].rest : task'[q].rest[i] = s
      BY DEF PublishedInOrder
    <2>1. CASE q = r
      <3>1. task'[q].rest = found'[q]
        BY <1>3, <2>1
      <3> QED
        BY <3>1 DEF SitesFound
    <2>2. CASE q # r
      BY <1>1, <1>3, <1>4, <2>2 DEF ScrapeInv, PublishedInOrder
    <2> QED
      BY <2>1, <2>2
  <1>10. LastComesLast'
    BY <1>1, <1>4, <1>6 DEF ScrapeInv, LastComesLast, Out
  <1>11. DoneIsDone'
    BY <1>1, <1>3, <1>4, <1>5, <1>6 DEF ScrapeInv, DoneIsDone, Busy
  <1>12. CompletedIsSearched'
    <2>1. runs'[r].status = "completed" => runs'[r].view /\ SitesFound(r)' = {}
      BY <1>3 DEF SitesFound
    <2> QED
      BY <1>1, <1>3, <1>4, <2>1 DEF ScrapeInv, CompletedIsSearched
  <1>13. PendingAwaited'
    <2>1. runs'[r].status = "pending" => LastAwaited(r)'
      BY <1>3 DEF LastAwaited
    <2> QED
      BY <1>1, <1>3, <1>4, <2>1 DEF ScrapeInv, PendingAwaited
  <1> QED
    BY <1>0, <1>7, <1>8, <1>9, <1>10, <1>11, <1>12, <1>13 DEF ScrapeInv

\* A website is queued behind those before it.
LEMMA PublishScrapes ==
  ASSUME ScrapeInv, NEW r \in RunId, PublishSite(r)
  PROVE  ScrapeInv'
  <1>0. /\ BaseInv /\ BaseInv' /\ queue \in Seq(Message) /\ task[r].pc = "publish" /\ task[r].rest # <<>>
        /\ task \in [RunId -> [pc : {"none", "view", "scrape", "publish", "rethrow", "ended"}, rest : Seq(Site)]]
        /\ task[r].rest \in Seq(Site) /\ found \in [RunId -> Seq(Site)]
    BY TaskBase DEF ScrapeInv, BaseInv, TypeOK, SitesLeft, PublishSite
  <1> DEFINE m == [run |-> r, site |-> Head(task[r].rest), last |-> IsLast(r)]
  <1>1. queue' = Append(queue, m) /\ UNCHANGED <<runs, job, found, searched, cut, missed>>
    BY DEF PublishSite, history
  <1>2. m \in Message /\ m.run = r /\ m.site = task[r].rest[1] /\ m.last = IsLast(r)
    BY <1>0 DEF Message, IsLast
  <1>3. \A q \in RunId : q # r => task'[q] = task[q]
    BY <1>0 DEF PublishSite
  <1>4. /\ task'[r].rest = Tail(task[r].rest)
        /\ task'[r].pc = IF IsLast(r) THEN "ended" ELSE "publish"
    BY <1>0 DEF PublishSite, IsLast
  <1> HIDE DEF m
  <1>5. /\ Len(queue) \in Nat /\ Len(queue') = Len(queue) + 1
        /\ DOMAIN queue = 1 .. Len(queue) /\ DOMAIN queue' = 1 .. (Len(queue) + 1)
        /\ queue'[Len(queue) + 1] = m
        /\ \A i \in 1 .. Len(queue) : queue'[i] = queue[i]
    BY <1>0, <1>1, <1>2
  <1>6. /\ \A q, s : \A n \in 0 .. Len(queue) : Queued(queue, q, s, n) => Queued(queue', q, s, n)
        /\ \A q, s : Queued(queue, q, s, Len(queue)) => Queued(queue', q, s, Len(queue'))
        /\ Queued(queue', r, m.site, Len(queue'))
        /\ \A q, s : Held(q, s)' = Held(q, s)
        /\ \A q : SitesFound(q)' = SitesFound(q)
        /\ \A w \in Worker : Busy(w)' = Busy(w)
    <2>1. \A q, s : \A n \in 0 .. Len(queue) : Queued(queue, q, s, n) => Queued(queue', q, s, n)
      BY <1>5 DEF Queued
    <2>2. \A q, s : Queued(queue, q, s, Len(queue)) => Queued(queue', q, s, Len(queue'))
      BY <1>5 DEF Queued
    <2>3. Queued(queue', r, m.site, Len(queue'))
      BY <1>2, <1>5 DEF Queued, IsOf
    <2> QED
      BY <1>1, <2>1, <2>2, <2>3 DEF Held, SitesFound, Busy
  <1>7. \A x \in Message : x.last /\ Out(x) => x.run \in RunId /\ x.run # r
    BY <1>0, NotLastYet DEF Message
  <1>8. \A x : Out(x)' => Out(x) \/ x = m
    BY <1>1, <1>5, <1>6 DEF Out, Busy
  <1>9. runs[r].status = "pending" /\ runs[r].view
    BY <1>0 DEF ScrapeInv, TaskAgrees
  <1>10. \A s \in SitesFound(r) :
           \/ <<r, s>> \in searched
           \/ Queued(queue, r, s, Len(queue)) \/ Held(r, s)
           \/ \E i \in DOMAIN task[r].rest : task[r].rest[i] = s
    BY <1>0 DEF ScrapeInv, PublishedInOrder
  <1>11. TaskAgrees'
    BY <1>1, <1>3, <1>9 DEF ScrapeInv, TaskAgrees
  <1>12. LastsAreOut'
    BY <1>1, <1>2, <1>3, <1>4, <1>7, <1>8, <1>9 DEF ScrapeInv, LastsAreOut
  <1>13. PublishedInOrder'
    <2> SUFFICES ASSUME NEW q \in RunId, task'[q].pc = "publish", NEW s \in SitesFound(q)
                 PROVE  \/ <<q, s>> \in searched
                        \/ Queued(queue', q, s, Len(queue')) \/ Held(q, s)
                        \/ \E i \in DOMAIN task'[q].rest : task'[q].rest[i] = s
      BY <1>1, <1>6 DEF PublishedInOrder
    <2>1. CASE q # r
      BY <1>3, <1>6, <2>1 DEF ScrapeInv, PublishedInOrder
    <2>2. CASE q = r
      <3>1. CASE <<r, s>> \in searched \/ Queued(queue, r, s, Len(queue)) \/ Held(r, s)
        BY <1>6, <2>2, <3>1
      <3>2. ASSUME NEW i \in DOMAIN task[r].rest, task[r].rest[i] = s
            PROVE  s = m.site \/ \E j \in DOMAIN task'[r].rest : task'[r].rest[j] = s
        <4>1. CASE i = 1
          BY <1>2, <3>2, <4>1
        <4>2. CASE i # 1
          <5>1. /\ i - 1 \in 1 .. (Len(task[r].rest) - 1) /\ Tail(task[r].rest) \in Seq(Site)
                /\ Len(Tail(task[r].rest)) = Len(task[r].rest) - 1
            BY <1>0, <4>2
          <5>2. \A j \in 1 .. (Len(task[r].rest) - 1) : Tail(task[r].rest)[j] = task[r].rest[j + 1]
            BY <1>0
          <5>3. Tail(task[r].rest)[i - 1] = s /\ i - 1 \in DOMAIN Tail(task[r].rest)
            BY <1>0, <3>2, <5>1, <5>2
          <5> QED
            BY <1>4, <5>3
        <4> QED
          BY <4>1, <4>2
      <3> QED
        BY <1>6, <1>10, <2>2, <3>1, <3>2
    <2> QED
      BY <2>1, <2>2
  <1>14. LastComesLast'
    <2>1. ASSUME NEW x \in Message, x.last, NEW i \in 1 .. Len(queue), queue[i] = x, NEW s \in SitesFound(x.run)
          PROVE  s = x.site \/ <<x.run, s>> \in searched \/ Queued(queue', x.run, s, i - 1) \/ Held(x.run, s)
      <3>1. i - 1 \in 0 .. Len(queue)
        BY <1>5
      <3> QED
        BY <1>5, <1>6, <2>1, <3>1 DEF ScrapeInv, LastComesLast
    <2>2. ASSUME m.last, NEW s \in SitesFound(r)
          PROVE  s = m.site \/ <<r, s>> \in searched \/ Queued(queue', r, s, Len(queue)) \/ Held(r, s)
      <3>1. Len(task[r].rest) = 1
        BY <1>2, <2>2 DEF IsLast
      <3>2. ASSUME NEW i \in DOMAIN task[r].rest, task[r].rest[i] = s PROVE s = m.site
        BY <1>0, <1>2, <3>1, <3>2
      <3>3. Len(queue) \in 0 .. Len(queue)
        BY <1>5
      <3> QED
        BY <1>6, <1>10, <3>2, <3>3
    <2>3. ASSUME NEW x \in Message, x.last, NEW i \in DOMAIN queue', queue'[i] = x, NEW s \in SitesFound(x.run)
          PROVE  s = x.site \/ <<x.run, s>> \in searched \/ Queued(queue', x.run, s, i - 1) \/ Held(x.run, s)
      <3>1. CASE i \in 1 .. Len(queue)
        BY <1>5, <2>1, <2>3, <3>1
      <3>2. CASE i = Len(queue) + 1
        <4>1. x = m /\ i - 1 = Len(queue)
          BY <1>5, <2>3, <3>2
        <4> QED
          BY <1>2, <2>2, <2>3, <4>1
      <3> QED
        BY <1>5, <3>1, <3>2
    <2>4. ASSUME NEW x \in Message, x.last, NEW w \in Worker, Busy(w), job[w].msg = x, NEW s \in SitesFound(x.run)
          PROVE  s = x.site \/ <<x.run, s>> \in searched
      BY <2>4 DEF ScrapeInv, LastComesLast
    <2> QED
      BY <1>1, <1>6, <2>3, <2>4 DEF LastComesLast
  <1>15. DoneIsDone' /\ CompletedIsSearched'
    BY <1>1, <1>6 DEF ScrapeInv, DoneIsDone, CompletedIsSearched
  <1>16. PendingAwaited'
    <2> SUFFICES ASSUME NEW q \in RunId, runs[q].status = "pending", q \notin cut, q \notin missed
                 PROVE  LastAwaited(q)'
      BY <1>1 DEF PendingAwaited
    <2>1. CASE q = r
      <3>1. CASE IsLast(r)
        <4>1. m.run = q /\ m.last
          BY <1>2, <2>1, <3>1
        <4>2. Len(queue) + 1 \in DOMAIN queue' /\ queue'[Len(queue) + 1] = m
          BY <1>5
        <4> QED
          BY <4>1, <4>2 DEF LastAwaited
      <3>2. CASE ~ IsLast(r)
        BY <1>4, <2>1, <3>2 DEF LastAwaited
      <3> QED
        BY <3>1, <3>2
    <2>2. CASE q # r
      <3>1. LastAwaited(q)
        BY DEF ScrapeInv, PendingAwaited
      <3> QED
        BY <1>1, <1>3, <1>5, <2>2, <3>1 DEF LastAwaited
    <2> QED
      BY <2>1, <2>2
  <1> QED
    BY <1>0, <1>11, <1>12, <1>13, <1>14, <1>15, <1>16 DEF ScrapeInv

\* The first website of the queue is handed out: nobody holds one.
LEMMA ReceiveScrapes ==
  ASSUME ScrapeInv, NEW w \in Worker, Receive(w)
  PROVE  ScrapeInv'
  <1>0. /\ BaseInv /\ BaseInv' /\ queue \in Seq(Message) /\ queue # <<>> /\ job \in [Worker -> Job]
    BY DeliveryBase DEF ScrapeInv, BaseInv, TypeOK, Receive
  <1> DEFINE rec == [Idle EXCEPT !.pc = "search", !.held = TRUE, !.msg = Head(queue)]
  <1>1. /\ job' = [job EXCEPT ![w] = rec] /\ queue' = Tail(queue)
        /\ UNCHANGED <<runs, task, found, searched, cut, missed>>
        /\ job[w].pc = "idle" /\ \A v \in Worker : ~ job[v].held
    BY DEF Receive, history
  <1>2. rec.pc = "search" /\ rec.held /\ rec.msg = queue[1]
    BY <1>0 DEF Idle
  <1> HIDE DEF rec
  <1>3. job'[w] = rec /\ \A v \in Worker : v # w => job'[v] = job[v]
    BY <1>0, <1>1
  <1>4. /\ Len(queue) \in Nat \ {0} /\ Len(queue') = Len(queue) - 1
        /\ DOMAIN queue = 1 .. Len(queue) /\ DOMAIN queue' = 1 .. (Len(queue) - 1)
        /\ \A i \in 1 .. (Len(queue) - 1) : queue'[i] = queue[i + 1]
    BY <1>0, <1>1
  <1>5. /\ \A q, s : ~ Held(q, s)
        /\ \A q, s : IsOf(queue[1], q, s) => Held(q, s)'
        /\ \A q, s : \A n \in 0 .. (Len(queue) - 1) :
             Queued(queue, q, s, n + 1) => Queued(queue', q, s, n) \/ Held(q, s)'
        /\ \A q : SitesFound(q)' = SitesFound(q)
    <2>1. \A q, s : ~ Held(q, s)
      BY <1>1 DEF Held
    <2>2. \A q, s : IsOf(queue[1], q, s) => Held(q, s)'
      BY <1>2, <1>3 DEF Held
    <2>3. ASSUME NEW q, NEW s, NEW n \in 0 .. (Len(queue) - 1), Queued(queue, q, s, n + 1)
          PROVE  Queued(queue', q, s, n) \/ Held(q, s)'
      <3>1. PICK i \in 1 .. (n + 1) : IsOf(queue[i], q, s)
        BY <2>3 DEF Queued
      <3>2. CASE i = 1
        BY <2>2, <3>1, <3>2
      <3>3. CASE i # 1
        <4>1. i - 1 \in 1 .. n /\ i - 1 \in 1 .. (Len(queue) - 1) /\ (i - 1) + 1 = i
          BY <1>4, <3>3
        <4>2. IsOf(queue'[i - 1], q, s)
          BY <1>4, <3>1, <4>1
        <4> QED
          BY <4>1, <4>2 DEF Queued, IsOf
      <3> QED
        BY <3>2, <3>3 DEF RunRow
    <2> QED
      BY <1>1, <2>1, <2>2, <2>3 DEF SitesFound
  <1>6. TaskAgrees' /\ CompletedIsSearched'
    BY <1>1, <1>5 DEF ScrapeInv, TaskAgrees, CompletedIsSearched
  <1>7. LastsAreOut'
    <2>1. \A x : Out(x)' => Out(x)
      <3> SUFFICES ASSUME NEW x, Out(x)' PROVE Out(x)
        OBVIOUS
      <3>1. ASSUME NEW i \in DOMAIN queue', queue'[i] = x PROVE Out(x)
        <4>1. i + 1 \in DOMAIN queue /\ queue[i + 1] = x
          BY <1>4, <3>1
        <4> QED
          BY <4>1 DEF Out
      <3>2. ASSUME NEW v \in Worker, job'[v].pc # "idle", job'[v].msg = x PROVE Out(x)
        <4>1. CASE v = w
          <5>1. 1 \in DOMAIN queue /\ queue[1] = x
            BY <1>2, <1>3, <1>4, <3>2, <4>1
          <5> QED
            BY <5>1 DEF Out
        <4>2. CASE v # w
          BY <1>3, <3>2, <4>2 DEF Out, Busy
        <4> QED
          BY <4>1, <4>2
      <3> QED
        BY <3>1, <3>2 DEF Out, Busy
    <2> QED
      BY <1>1, <2>1 DEF ScrapeInv, LastsAreOut
  <1>8. PublishedInOrder'
    <2> SUFFICES ASSUME NEW q \in RunId, task[q].pc = "publish", NEW s \in SitesFound(q)
                 PROVE  \/ <<q, s>> \in searched
                        \/ Queued(queue', q, s, Len(queue')) \/ Held(q, s)'
                        \/ \E i \in DOMAIN task[q].rest : task[q].rest[i] = s
      BY <1>1, <1>5 DEF PublishedInOrder
    <2>1. Len(queue) - 1 \in 0 .. (Len(queue) - 1) /\ (Len(queue) - 1) + 1 = Len(queue)
      BY <1>4
    <2>2. Queued(queue, q, s, Len(queue)) => Queued(queue', q, s, Len(queue')) \/ Held(q, s)'
      BY <1>4, <1>5, <2>1
    <2> QED
      BY <1>5, <2>2 DEF ScrapeInv, PublishedInOrder
  <1>9. LastComesLast'
    <2>1. ASSUME NEW x \in Message, x.last, NEW i \in DOMAIN queue', queue'[i] = x, NEW s \in SitesFound(x.run)
          PROVE  s = x.site \/ <<x.run, s>> \in searched \/ Queued(queue', x.run, s, i - 1) \/ Held(x.run, s)'
      <3>1. /\ x = queue[i + 1] /\ i + 1 \in DOMAIN queue /\ (i + 1) - 1 = (i - 1) + 1
            /\ i - 1 \in 0 .. (Len(queue) - 1)
        BY <1>4, <2>1
      <3>2. s = x.site \/ <<x.run, s>> \in searched \/ Queued(queue, x.run, s, (i + 1) - 1)
        BY <1>5, <2>1, <3>1 DEF ScrapeInv, LastComesLast
      <3>3. Queued(queue, x.run, s, (i - 1) + 1) => Queued(queue', x.run, s, i - 1) \/ Held(x.run, s)'
        BY <1>5, <3>1
      <3> QED
        BY <3>1, <3>2, <3>3
    <2>2. ASSUME NEW x \in Message, x.last, NEW v \in Worker, job'[v].pc # "idle", job'[v].msg = x,
                 NEW s \in SitesFound(x.run)
          PROVE  s = x.site \/ <<x.run, s>> \in searched
      <3>1. CASE v # w
        BY <1>3, <2>2, <3>1 DEF ScrapeInv, LastComesLast, Busy
      <3>2. CASE v = w
        <4>1. 1 \in DOMAIN queue /\ queue[1] = x
          BY <1>2, <1>3, <1>4, <2>2, <3>2
        <4>2. ~ Queued(queue, x.run, s, 1 - 1)
          BY DEF Queued
        <4> QED
          BY <1>5, <2>2, <4>1, <4>2 DEF ScrapeInv, LastComesLast
      <3> QED
        BY <3>1, <3>2
    <2> QED
      BY <1>1, <1>5, <2>1, <2>2 DEF LastComesLast, Busy
  <1>10. DoneIsDone'
    BY <1>1, <1>2, <1>3 DEF ScrapeInv, DoneIsDone
  <1>11. PendingAwaited'
    <2> SUFFICES ASSUME NEW q \in RunId, runs[q].status = "pending", q \notin cut, q \notin missed
                 PROVE  LastAwaited(q)'
      BY <1>1 DEF PendingAwaited
    <2>1. LastAwaited(q)
      BY DEF ScrapeInv, PendingAwaited
    <2>2. ASSUME NEW i \in DOMAIN queue, queue[i].run = q, queue[i].last PROVE LastAwaited(q)'
      <3>1. CASE i = 1
        BY <1>2, <1>3, <2>2, <3>1 DEF LastAwaited
      <3>2. CASE i # 1
        <4>1. i - 1 \in DOMAIN queue' /\ queue'[i - 1] = queue[i]
          BY <1>4, <3>2
        <4> QED
          BY <2>2, <4>1 DEF LastAwaited
      <3> QED
        BY <3>1, <3>2
    <2> QED
      BY <1>1, <2>1, <2>2 DEF LastAwaited
  <1> QED
    BY <1>0, <1>6, <1>7, <1>8, <1>9, <1>10, <1>11 DEF ScrapeInv

\* The process ends or the channel is lost: what was held comes first again, and
\* everything else is where it was, one place further if something was held.
LEMMA ReturnScrapes ==
  ASSUME ScrapeInv, BaseInv', queue' = Returned, UNCHANGED <<runs, found, searched, missed>>,
         \A w \in Worker :
           /\ ~ job'[w].held
           /\ job'[w].pc = "idle" \/ (job'[w].pc = job[w].pc /\ job'[w].msg = job[w].msg),
         cut \subseteq cut',
         \A r \in RunId :
           \/ task'[r] = task[r]
           \/ /\ task[r].pc # "ended" /\ task'[r].pc = "ended"
              /\ task[r].pc \in {"view", "scrape", "publish"} => r \in cut'
  PROVE  ScrapeInv'
  <1>0. BaseInv /\ queue \in Seq(Message) /\ Len(queue) \in Nat /\ DOMAIN queue = 1 .. Len(queue)
    BY DEF ScrapeInv, BaseInv, TypeOK
  <1>1. PICK k \in {0, 1} :
          /\ Len(queue') = Len(queue) + k /\ DOMAIN queue' = 1 .. (Len(queue) + k)
          /\ \A i \in 1 .. Len(queue) : queue'[i + k] = queue[i]
          /\ \A w \in Worker : job[w].held => k = 1 /\ queue'[1] = job[w].msg
          /\ k = 1 => \E w \in Worker : Busy(w) /\ queue'[1] = job[w].msg
    <2>1. CASE \A w \in Worker : ~ job[w].held
      <3>1. queue' = queue
        BY <1>0, <2>1, ReturnedQueue
      <3>2. /\ Len(queue') = Len(queue) + 0 /\ DOMAIN queue' = 1 .. (Len(queue) + 0)
            /\ \A i \in 1 .. Len(queue) : queue'[i + 0] = queue[i]
        BY <1>0, <3>1
      <3> WITNESS 0 \in {0, 1}
      <3> QED
        BY <2>1, <3>2
    <2>2. ASSUME NEW h \in Worker, job[h].held
          PROVE  /\ Len(queue') = Len(queue) + 1 /\ DOMAIN queue' = 1 .. (Len(queue) + 1)
                 /\ \A i \in 1 .. Len(queue) : queue'[i + 1] = queue[i]
                 /\ \A w \in Worker : job[w].held => queue'[1] = job[w].msg
                 /\ \E w \in Worker : Busy(w) /\ queue'[1] = job[w].msg
      <3>1. queue' \in Seq(Message) /\ Len(queue') = Len(queue) + 1
            /\ \A i \in 1 .. Len(queue) : queue'[i + 1] = queue[i]
        BY <1>0, <2>2, ReturnedQueue
      <3>2. \A w \in Worker : job[w].held => queue'[1] = job[w].msg
        BY <1>0, ReturnedQueue
      <3>3. Busy(h)
        BY <1>0, <2>2 DEF BaseInv, JobsAgree
      <3> QED
        BY <2>2, <3>1, <3>2, <3>3
    <2>3. CASE \E h \in Worker : job[h].held
      <3>1. /\ Len(queue') = Len(queue) + 1 /\ DOMAIN queue' = 1 .. (Len(queue) + 1)
            /\ \A i \in 1 .. Len(queue) : queue'[i + 1] = queue[i]
            /\ \A w \in Worker : job[w].held => queue'[1] = job[w].msg
            /\ \E w \in Worker : Busy(w) /\ queue'[1] = job[w].msg
        BY <2>2, <2>3
      <3> WITNESS 1 \in {0, 1}
      <3> QED
        BY <3>1
    <2> QED
      BY <2>1, <2>3
  <1>2. \A q, s : Held(q, s) => k = 1 /\ IsOf(queue'[1], q, s)
    BY <1>1 DEF Held
  <1>3. ASSUME NEW q, NEW s, NEW n \in 0 .. Len(queue), Queued(queue, q, s, n) \/ Held(q, s)
        PROVE  Queued(queue', q, s, n + k)
    <2>1. CASE Held(q, s)
      <3>1. 1 \in 1 .. (n + k) /\ IsOf(queue'[1], q, s)
        BY <1>2, <2>1
      <3> QED
        BY <3>1 DEF Queued
    <2>2. CASE Queued(queue, q, s, n)
      <3>1. PICK i \in 1 .. n : IsOf(queue[i], q, s)
        BY <2>2 DEF Queued
      <3>2. i + k \in 1 .. (n + k) /\ queue'[i + k] = queue[i]
        BY <1>0, <1>1
      <3> QED
        BY <3>1, <3>2 DEF Queued, IsOf
    <2> QED
      BY <1>3, <2>1, <2>2
  <1>4. ASSUME NEW i \in DOMAIN queue'
        PROVE  \/ /\ i = 1 /\ k = 1 /\ \E w \in Worker : Busy(w) /\ queue'[i] = job[w].msg
               \/ i - k \in DOMAIN queue /\ queue'[i] = queue[i - k]
    <2>1. CASE i = 1 /\ k = 1
      BY <1>1, <2>1
    <2>2. CASE ~ (i = 1 /\ k = 1)
      <3>1. i - k \in 1 .. Len(queue) /\ (i - k) + k = i
        BY <1>0, <1>1, <2>2
      <3> QED
        BY <1>0, <1>1, <3>1
    <2> QED
      BY <2>1, <2>2
  <1>5. /\ \A x : Out(x)' => Out(x)
        /\ \A q : SitesFound(q)' = SitesFound(q)
        /\ \A w \in Worker : Busy(w)' => Busy(w) /\ job'[w].msg = job[w].msg
    <2>1. \A w \in Worker : Busy(w)' => Busy(w) /\ job'[w].msg = job[w].msg
      BY DEF Busy
    <2>2. ASSUME NEW x, Out(x)' PROVE Out(x)
      <3>1. ASSUME NEW i \in DOMAIN queue', queue'[i] = x PROVE Out(x)
        BY <1>4, <3>1 DEF Out
      <3>2. ASSUME NEW w \in Worker, Busy(w)', job'[w].msg = x PROVE Out(x)
        BY <2>1, <3>2 DEF Out
      <3> QED
        BY <2>2, <3>1, <3>2 DEF Out, Busy
    <2> QED
      BY <2>1, <2>2 DEF SitesFound
  <1>6. TaskAgrees' /\ CompletedIsSearched'
    BY <1>5 DEF ScrapeInv, TaskAgrees, CompletedIsSearched
  <1>7. LastsAreOut'
    <2> SUFFICES ASSUME NEW m \in Message, m.last, Out(m)'
                 PROVE  task'[m.run].pc = "ended" /\ runs'[m.run].status \in {"pending", "completed"}
      BY DEF LastsAreOut
    <2>1. task[m.run].pc = "ended" /\ runs[m.run].status \in {"pending", "completed"} /\ m.run \in RunId
      BY <1>5 DEF ScrapeInv, LastsAreOut, Message
    <2> QED
      BY <2>1
  <1>8. PublishedInOrder'
    <2> SUFFICES ASSUME NEW r \in RunId, task'[r].pc = "publish", NEW s \in SitesFound(r)
                 PROVE  \/ <<r, s>> \in searched
                        \/ Queued(queue', r, s, Len(queue'))
                        \/ \E i \in DOMAIN task'[r].rest : task'[r].rest[i] = s
      BY <1>5 DEF PublishedInOrder
    <2>1. task'[r] = task[r]
      OBVIOUS
    <2>2. \/ <<r, s>> \in searched \/ Queued(queue, r, s, Len(queue)) \/ Held(r, s)
          \/ \E i \in DOMAIN task[r].rest : task[r].rest[i] = s
      BY <2>1 DEF ScrapeInv, PublishedInOrder
    <2>3. Len(queue) \in 0 .. Len(queue) /\ Len(queue') = Len(queue) + k
      BY <1>0, <1>1
    <2>4. Queued(queue, r, s, Len(queue)) \/ Held(r, s) => Queued(queue', r, s, Len(queue'))
      BY <1>3, <2>3
    <2> QED
      BY <2>1, <2>2, <2>4
  <1>9. LastComesLast'
    <2>1. ASSUME NEW x \in Message, x.last, NEW i \in DOMAIN queue', queue'[i] = x, NEW s \in SitesFound(x.run)
          PROVE  s = x.site \/ <<x.run, s>> \in searched \/ Queued(queue', x.run, s, i - 1)
      <3>1. ASSUME NEW w \in Worker, Busy(w), queue'[i] = job[w].msg
            PROVE  s = x.site \/ <<x.run, s>> \in searched
        BY <2>1, <3>1 DEF ScrapeInv, LastComesLast
      <3>2. ASSUME i - k \in DOMAIN queue, queue'[i] = queue[i - k]
            PROVE  s = x.site \/ <<x.run, s>> \in searched \/ Queued(queue', x.run, s, i - 1)
        <4>1. s = x.site \/ <<x.run, s>> \in searched \/ Queued(queue, x.run, s, (i - k) - 1) \/ Held(x.run, s)
          BY <2>1, <3>2 DEF ScrapeInv, LastComesLast
        <4>2. (i - k) - 1 \in 0 .. Len(queue) /\ ((i - k) - 1) + k = i - 1
          BY <1>0, <1>1, <3>2
        <4>3. Queued(queue, x.run, s, (i - k) - 1) \/ Held(x.run, s) => Queued(queue', x.run, s, i - 1)
          BY <1>3, <4>2
        <4> QED
          BY <4>1, <4>3
      <3> QED
        BY <1>4, <3>1, <3>2
    <2>2. ASSUME NEW x \in Message, x.last, NEW w \in Worker, Busy(w)', job'[w].msg = x, NEW s \in SitesFound(x.run)
          PROVE  s = x.site \/ <<x.run, s>> \in searched
      BY <1>5, <2>2 DEF ScrapeInv, LastComesLast
    <2> QED
      BY <1>5, <2>1, <2>2 DEF LastComesLast
  <1>10. DoneIsDone'
    BY DEF ScrapeInv, DoneIsDone
  <1>11. PendingAwaited'
    <2> SUFFICES ASSUME NEW q \in RunId, runs[q].status = "pending", q \notin cut', q \notin missed
                 PROVE  LastAwaited(q)'
      BY DEF PendingAwaited
    <2>1. LastAwaited(q)
      BY DEF ScrapeInv, PendingAwaited
    <2>2. ASSUME NEW i \in DOMAIN queue, queue[i].run = q, queue[i].last PROVE LastAwaited(q)'
      <3>1. i \in 1 .. Len(queue) /\ i + k \in 1 .. (Len(queue) + k)
        BY <1>0
      <3>2. i + k \in DOMAIN queue' /\ queue'[i + k] = queue[i]
        BY <1>1, <3>1
      <3> QED
        BY <2>2, <3>2 DEF LastAwaited
    <2>3. ASSUME NEW w \in Worker, job[w].held, job[w].msg.run = q, job[w].msg.last PROVE LastAwaited(q)'
      <3>1. 1 \in DOMAIN queue' /\ queue'[1] = job[w].msg
        BY <1>0, <1>1, <2>3
      <3> QED
        BY <2>3, <3>1 DEF LastAwaited
    <2>4. CASE task[q].pc \in {"view", "scrape", "publish"}
      <3>1. task'[q].pc \in {"view", "scrape", "publish"}
        BY <2>4
      <3> QED
        BY <3>1 DEF LastAwaited
    <2> QED
      BY <2>1, <2>2, <2>3, <2>4 DEF LastAwaited
  <1> QED
    BY <1>6, <1>7, <1>8, <1>9, <1>10, <1>11 DEF ScrapeInv

\* A handler has resolved, and its website is acknowledged: it has been
\* searched, and the last one has been accounted for.
LEMMA AckScrapes ==
  ASSUME ScrapeInv, NEW w \in Worker, Ack(w)
  PROVE  ScrapeInv'
  <1>0. BaseInv /\ BaseInv' /\ job \in [Worker -> Job]
    BY DeliveryBase DEF ScrapeInv, BaseInv, TypeOK
  <1>1. /\ UNCHANGED <<runs, task, queue, found, searched, cut, missed>>
        /\ job'[w] = Idle /\ \A v \in Worker : v # w => job'[v] = job[v]
        /\ Idle.pc = "idle"
    BY <1>0 DEF Ack, history, Idle
  <1>2. /\ <<job[w].msg.run, job[w].msg.site>> \in searched
        /\ job[w].msg.last => runs[job[w].msg.run].status = "completed" \/ job[w].msg.run \in missed
    BY DEF ScrapeInv, DoneIsDone, Ack
  <1>3. /\ \A q, s : Held(q, s) => Held(q, s)' \/ <<q, s>> \in searched
        /\ \A q : SitesFound(q)' = SitesFound(q)
        /\ \A x : Out(x)' => Out(x)
        /\ \A v \in Worker : Busy(v)' => Busy(v) /\ job'[v] = job[v]
    <2>1. \A q, s : Held(q, s) => Held(q, s)' \/ <<q, s>> \in searched
      BY <1>1, <1>2 DEF Held, IsOf
    <2>2. \A v \in Worker : Busy(v)' => Busy(v) /\ job'[v] = job[v]
      BY <1>1 DEF Busy
    <2> QED
      BY <1>1, <2>1, <2>2 DEF SitesFound, Out
  <1>4. TaskAgrees' /\ CompletedIsSearched' /\ LastsAreOut'
    BY <1>1, <1>3 DEF ScrapeInv, TaskAgrees, CompletedIsSearched, LastsAreOut
  <1>5. PublishedInOrder'
    BY <1>1, <1>3 DEF ScrapeInv, PublishedInOrder
  <1>6. LastComesLast'
    BY <1>1, <1>3 DEF ScrapeInv, LastComesLast
  <1>7. DoneIsDone'
    BY <1>1 DEF ScrapeInv, DoneIsDone
  <1>8. PendingAwaited'
    <2> SUFFICES ASSUME NEW q \in RunId, runs[q].status = "pending", q \notin cut, q \notin missed
                 PROVE  LastAwaited(q)'
      BY <1>1 DEF PendingAwaited
    <2>1. LastAwaited(q)
      BY DEF ScrapeInv, PendingAwaited
    <2> QED
      BY <1>1, <1>2, <2>1 DEF LastAwaited
  <1> QED
    BY <1>0, <1>4, <1>5, <1>6, <1>7, <1>8 DEF ScrapeInv

\* The process ends under its tasks and handlers.
LEMMA EndScrapes ==
  ASSUME ScrapeInv, ProcessEnds, UNCHANGED <<runs, roots, pages, found, searched, missed, reconnects>>,
         crashes' \in 0 .. MaxCrashes
  PROVE  ScrapeInv'
  <1>1. BaseInv' /\ \A w \in Worker : job'[w] = Idle
    BY EndBase DEF ScrapeInv
  <1>2. Idle.pc = "idle" /\ ~ Idle.held
    BY DEF Idle
  <1>3. \A r \in RunId :
          \/ task'[r] = task[r]
          \/ /\ task[r].pc # "ended" /\ task'[r].pc = "ended"
             /\ task[r].pc \in {"view", "scrape", "publish"} => r \in cut'
    BY DEF ProcessEnds
  <1>4. queue' = Returned /\ cut \subseteq cut'
    BY DEF ProcessEnds
  <1>5. \A w \in Worker :
          /\ ~ job'[w].held
          /\ job'[w].pc = "idle" \/ (job'[w].pc = job[w].pc /\ job'[w].msg = job[w].msg)
    BY <1>1, <1>2
  <1> QED
    BY <1>1, <1>3, <1>4, <1>5, ReturnScrapes

\* The handlers go on, and hold nothing.
LEMMA ReconnectScrapes ==
  ASSUME ScrapeInv, Reconnect
  PROVE  ScrapeInv'
  <1>0. BaseInv' /\ job \in [Worker -> Job]
    BY DeliveryBase DEF ScrapeInv, BaseInv, TypeOK
  <1>1. UNCHANGED <<runs, task, found, searched, cut, missed>> /\ queue' = Returned
    BY DEF Reconnect, history
  <1>2. \A w \in Worker : ~ job'[w].held /\ job'[w].pc = job[w].pc /\ job'[w].msg = job[w].msg
    BY <1>0 DEF Reconnect, Job
  <1> QED
    BY <1>0, <1>1, <1>2, ReturnScrapes

LEMMA InitScrape == Init => ScrapeInv
  <1> SUFFICES ASSUME Init PROVE ScrapeInv
    OBVIOUS
  <1>1. BaseInv
    BY InitBase
  <1>2. /\ queue = <<>> /\ \A r \in RunId : runs[r].status = "absent" /\ task[r].pc = "none"
        /\ \A w \in Worker : job[w].pc = "idle"
    BY DEF Init, Idle
  <1>3. \A m : ~ Out(m)
    BY <1>2 DEF Out, Busy
  <1>4. TaskAgrees /\ LastsAreOut /\ PublishedInOrder /\ DoneIsDone /\ CompletedIsSearched /\ PendingAwaited
    BY <1>2, <1>3
      DEF TaskAgrees, LastsAreOut, PublishedInOrder, DoneIsDone, CompletedIsSearched, PendingAwaited
  <1>5. LastComesLast
    BY <1>2 DEF LastComesLast, Busy
  <1> QED
    BY <1>1, <1>4, <1>5 DEF ScrapeInv

LEMMA ScrapeStep == ScrapeInv /\ [Next]_vars => ScrapeInv'
  <1> SUFFICES ASSUME ScrapeInv, [Next]_vars PROVE ScrapeInv'
    OBVIOUS
  <1>1. ASSUME NEW r \in RunId, CreateRun(r) \/ SetView(r) \/ Scrape(r) \/ TaskFails(r)
        PROVE  ScrapeInv'
    BY <1>1, TaskScrapes
  <1>2. ASSUME NEW r \in RunId, PublishSite(r) PROVE ScrapeInv'
    BY <1>2, PublishScrapes
  <1>3. ASSUME NEW r \in RunId, Rethrow(r) PROVE ScrapeInv'
    <2>1. crashes' \in 0 .. MaxCrashes
      BY <1>3 DEF ScrapeInv, BaseInv, TypeOK, Rethrow, faults
    <2> QED
      BY <1>3, <2>1, EndScrapes DEF Rethrow, faults
  <1>4. ASSUME NEW w \in Worker,
               Search(w) \/ FindRoot(w) \/ SaveRoot(w) \/ FindPage(w) \/ SavePage(w) \/ Finish(w)
        PROVE  ScrapeInv'
    BY <1>4, WorkerScrapes
  <1>5. ASSUME NEW w \in Worker, Receive(w) PROVE ScrapeInv'
    BY <1>5, ReceiveScrapes
  <1>6. ASSUME NEW w \in Worker, Ack(w) PROVE ScrapeInv'
    BY <1>6, AckScrapes
  <1>7. CASE Crash
    <2>1. crashes' \in 0 .. MaxCrashes
      BY <1>7, ConstantsAssumption DEF ScrapeInv, BaseInv, TypeOK, Crash, ConstantsAssumption
    <2> QED
      BY <1>7, <2>1, EndScrapes DEF Crash
  <1>8. CASE Reconnect
    BY <1>8, ReconnectScrapes
  <1>9. CASE UNCHANGED vars
    <2>1. BaseInv'
      BY BaseStep DEF ScrapeInv
    <2>2. UNCHANGED <<runs, task, queue, job, found, searched, cut, missed>>
      BY <1>9 DEF vars, history
    <2>3. /\ \A q, s : Held(q, s)' = Held(q, s)
          /\ \A x : Out(x)' = Out(x)
          /\ \A q : SitesFound(q)' = SitesFound(q) /\ LastAwaited(q)' = LastAwaited(q)
          /\ \A w \in Worker : Busy(w)' = Busy(w)
      BY <2>2 DEF Held, Out, SitesFound, LastAwaited, Busy
    <2> QED
      BY <2>1, <2>2, <2>3
        DEF ScrapeInv, TaskAgrees, LastsAreOut, PublishedInOrder, LastComesLast, DoneIsDone,
            CompletedIsSearched, PendingAwaited
  <1> QED
    BY <1>1, <1>2, <1>3, <1>4, <1>5, <1>6, <1>7, <1>8, <1>9 DEF Next, TaskStep, WorkerStep

\* A completed run has been searched whole and has its view, because its last
\* website comes after all the others, through crashes and redeliveries; and a
\* pending run that nobody works on is one whose task died with the process, or
\* whose last website ended without reaching the completion.
THEOREM StatusesAreTrue == Spec => []StatusIsTrue
  <1>1. ScrapeInv => StatusIsTrue
    <2> SUFFICES ASSUME ScrapeInv PROVE PendingIsExplained
      BY DEF ScrapeInv, StatusIsTrue
    <2>1. \A r \in RunId : LastAwaited(r) => Attended(r)
      BY DEF LastAwaited, Attended, ScrapeInv, BaseInv, JobsAgree, Busy
    <2> QED
      BY <2>1 DEF ScrapeInv, PendingAwaited, PendingIsExplained
  <1> QED
    BY <1>1, InitScrape, ScrapeStep, PTL DEF Spec

\* A run that has failed or completed never changes its status again: a website
\* of a failed run completes nothing, because its last one was never queued.
THEOREM FinalStatusStays == Spec => FinalStays
  <1>1. ASSUME ScrapeInv, [Next]_vars
        PROVE  [\A r \in RunId : runs[r].status \in {"completed", "failed"} =>
                  runs'[r].status = runs[r].status]_vars
    <2> SUFFICES ASSUME Next, NEW r \in RunId, runs[r].status \in {"completed", "failed"}
                 PROVE  runs'[r].status = runs[r].status
      BY <1>1
    <2>0. runs \in [RunId -> [status : {"absent", "pending", "completed", "failed"}, view : BOOLEAN]]
      BY <1>1 DEF ScrapeInv, BaseInv, TypeOK
    <2>1. ASSUME NEW q \in RunId, CreateRun(q) \/ SetView(q) \/ Scrape(q) \/ TaskFails(q)
          PROVE  runs'[r].status = runs[r].status
      <3>1. \A p \in RunId : p # q => runs'[p] = runs[p]
        <4>1. CASE Scrape(q)
          <5>1. UNCHANGED runs \/ runs' = [runs EXCEPT ![q].status = "completed"]
            BY <4>1 DEF Scrape
          <5> QED
            BY <2>0, <5>1
        <4> QED
          BY <2>0, <2>1, <4>1 DEF CreateRun, SetView, TaskFails
      <3>2. CASE CreateRun(q)
        BY <3>1, <3>2 DEF CreateRun
      <3>3. CASE SetView(q)
        BY <2>0, <3>3 DEF SetView
      <3>4. CASE Scrape(q) \/ TaskFails(q)
        <4>1. runs[q].status = "pending"
          BY <1>1, <3>4 DEF ScrapeInv, TaskAgrees, Scrape, TaskFails
        <4> QED
          BY <3>1, <4>1
      <3> QED
        BY <2>1, <3>2, <3>3, <3>4
    <2>2. ASSUME NEW w \in Worker, Finish(w) PROVE runs'[r].status = runs[r].status
      <3>1. CASE ~ job[w].msg.last
        BY <2>2, <3>1 DEF Finish
      <3>2. CASE job[w].msg.last
        <4>1. Busy(w) /\ job[w].msg \in Message /\ job[w].msg.run \in RunId
          BY <1>1, <2>2 DEF Finish, Busy, ScrapeInv, BaseInv, JobsAgree, Message
        <4>2. runs[job[w].msg.run].status \in {"pending", "completed"}
          BY <1>1, <3>2, <4>1 DEF ScrapeInv, LastsAreOut, Out
        <4> QED
          BY <2>0, <2>2, <3>2, <4>1, <4>2 DEF Finish
      <3> QED
        BY <3>1, <3>2
    <2>3. CASE UNCHANGED runs
      BY <2>3
    <2> QED
      BY <2>1, <2>2, <2>3
        DEF Next, TaskStep, WorkerStep, PublishSite, Rethrow, Receive, Search, FindRoot, SaveRoot,
            FindPage, SavePage, Ack, Crash, Reconnect
  <1> QED
    BY <1>1, InitScrape, ScrapeStep, PTL DEF Spec, FinalStays
=============================================================================
