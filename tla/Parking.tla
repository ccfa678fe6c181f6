------------------------------- MODULE Parking -------------------------------
(***************************************************************************)
(* The Carleton parking assistant of one user: a text message finds or     *)
(* makes a run (a stay), an LLM reads the details out of it, and once they *)
(* are complete the car is registered in a browser, in the background      *)
(* (CarletonParkingWebhookHandler, RealBrowserService).  The site, the LLM *)
(* and Telegram are external.                                              *)
(*                                                                         *)
(* registerCar is not awaited and nothing catches what its catch throws:   *)
(* such a rejection ends the process, and every job with it.               *)
(***************************************************************************)
EXTENDS Naturals, FiniteSets

CONSTANTS
    Text,               \* the user's messages; each is sent once
    MaxStays,           \* bound on the runs ever made
    MaxRegistrationAttempts,  \* CARLETON_MAX_REGISTRATION_ATTEMPTS, 5 in the code
    MaxParkingCrashes   \* bound on the restarts for other reasons

ParkingAssumption ==
    /\ MaxStays \in Nat \ {0}
    /\ MaxRegistrationAttempts \in Nat \ {0}
    /\ MaxParkingCrashes \in Nat
ASSUME ParkingAssumption

VARIABLES
    stay,       \* rows of workflow_runs
    text,       \* webhook requests at work
    job,        \* registrations at work, by the message that started them
    site,       \* registrations the site has accepted, by job
    heard,      \* what each job has told the user
    parkingCrashes,
    met,        \* history: messages looked for a run at the same time
    late,       \* history: jobs that did not see a confirmation in time
    crossed,    \* history: stays with two jobs at the same time
    killed      \* history: jobs a crash has ended

parkingVars == <<stay, text, job, site, heard, parkingCrashes, met, late, crossed, killed>>

-----------------------------------------------------------------------------
(* Types *)

StayId == 1..MaxStays

TextState == [pc : {"idle", "find", "create", "extract", "save", "reply", "done"},
              stay : StayId, complete : BOOLEAN]

JobState == [pc : {"none", "hello", "open", "fill", "submit", "photo", "success", "complete",
                   "apologise", "over"},
             attempt : 0..MaxRegistrationAttempts, succeeded : BOOLEAN]

ParkingTypeOK ==
    /\ stay \in [StayId -> {"absent", "pending", "completed"}]
    /\ text \in [Text -> TextState]
    /\ job \in [Text -> JobState]
    /\ site \in [Text -> Nat]
    /\ heard \in [Text -> SUBSET {"submitting", "photo", "success", "failure"}]
    /\ parkingCrashes \in 0..MaxParkingCrashes
    /\ met \in BOOLEAN
    /\ late \subseteq Text
    /\ crossed \subseteq StayId
    /\ killed \subseteq Text

ParkingInit ==
    /\ stay = [s \in StayId |-> "absent"]
    /\ text = [m \in Text |-> [pc |-> "idle", stay |-> 1, complete |-> FALSE]]
    /\ job = [m \in Text |-> [pc |-> "none", attempt |-> 0, succeeded |-> FALSE]]
    /\ site = [m \in Text |-> 0]
    /\ heard = [m \in Text |-> {}]
    /\ parkingCrashes = 0
    /\ met = FALSE
    /\ late = {}
    /\ crossed = {}
    /\ killed = {}

-----------------------------------------------------------------------------
(* handleWebhook *)

jobVars == <<site, heard, parkingCrashes, late, killed>>

TextAt(m, pc) == text[m].pc = pc
PendingStays == {s \in StayId : stay[s] = "pending"}
JobsOf(s) == {m \in Text : text[m].stay = s /\ job[m].pc \notin {"none", "over"}}

ReceiveText(m) ==
    /\ TextAt(m, "idle")
    /\ text' = [text EXCEPT ![m].pc = "find"]
    /\ UNCHANGED <<stay, job, met, crossed, jobVars>>

\* A pending run of the chat is used,
FindStay(m) ==
    /\ TextAt(m, "find")
    /\ IF PendingStays = {}
         THEN /\ text' = [text EXCEPT ![m].pc = "create"]
              /\ met' = (met \/ \E n \in Text : TextAt(n, "create"))
         ELSE /\ \E s \in PendingStays : text' = [text EXCEPT ![m].pc = "extract", ![m].stay = s]
              /\ UNCHANGED met
    /\ UNCHANGED <<stay, job, crossed, jobVars>>

\* or one is created.
CreateStay(m) ==
    /\ TextAt(m, "create")
    /\ \E s \in StayId :
         /\ stay[s] = "absent"
         /\ \A t \in 1..(s - 1) : stay[t] # "absent"
         /\ stay' = [stay EXCEPT ![s] = "pending"]
         /\ text' = [text EXCEPT ![m].pc = "extract", ![m].stay = s]
    /\ UNCHANGED <<job, met, crossed, jobVars>>

\* The LLM may make anything of the message; what is not JSON is incomplete.
ExtractDetails(m) ==
    /\ TextAt(m, "extract")
    /\ \E complete \in BOOLEAN :
         text' = [text EXCEPT ![m].pc = "save", ![m].complete = complete]
    /\ UNCHANGED <<stay, job, met, crossed, jobVars>>

\* The details are written over those of the run, whatever its status is by
\* now; complete ones start a job that nobody waits for.
SaveDetails(m) ==
    /\ TextAt(m, "save")
    /\ IF text[m].complete
         THEN /\ job' = [job EXCEPT ![m].pc = "hello"]
              /\ text' = [text EXCEPT ![m].pc = "done"]
              /\ crossed' = IF JobsOf(text[m].stay) # {} \/ stay[text[m].stay] = "completed"
                              THEN crossed \cup {text[m].stay} ELSE crossed
         ELSE /\ text' = [text EXCEPT ![m].pc = "reply"]
              /\ UNCHANGED <<job, crossed>>
    /\ UNCHANGED <<stay, met, jobVars>>

ReplyToText(m) ==
    /\ TextAt(m, "reply")
    /\ text' = [text EXCEPT ![m].pc = "done"]
    /\ UNCHANGED <<stay, job, met, crossed, jobVars>>

\* A statement, the LLM or Telegram fails: the controller says {ok: false}.
FailText(m) ==
    /\ text[m].pc \notin {"idle", "done"}
    /\ text' = [text EXCEPT ![m].pc = "done"]
    /\ UNCHANGED <<stay, job, met, crossed, jobVars>>

-----------------------------------------------------------------------------
(* registerCar and carletonParkingRegistration *)

textVars == <<text, met, crossed>>

JobAt(m, pc) == job[m].pc = pc
Tell(m, what) == heard' = [heard EXCEPT ![m] = @ \cup {what}]

SaySubmitting(m) ==
    /\ JobAt(m, "hello")
    /\ Tell(m, "submitting")
    /\ job' = [job EXCEPT ![m].pc = "open"]
    /\ UNCHANGED <<stay, site, parkingCrashes, late, killed, textVars>>

OpenSite(m) ==
    /\ JobAt(m, "open")
    /\ job' = [job EXCEPT ![m].pc = "fill", ![m].attempt = 1]
    /\ UNCHANGED <<stay, textVars, jobVars>>

FillForm(m) ==
    /\ JobAt(m, "fill")
    /\ job' = [job EXCEPT ![m].pc = "submit"]
    /\ UNCHANGED <<stay, textVars, jobVars>>

NextAttempt(m) ==
    IF job[m].attempt < MaxRegistrationAttempts
      THEN [job EXCEPT ![m].pc = "fill", ![m].attempt = @ + 1]
      ELSE [job EXCEPT ![m].pc = "photo"]

\* Faulty: the loop goes on after a success.
SubmitAgain(m) ==
    /\ JobAt(m, "submit")
    /\ job' = NextAttempt(m)
    /\ site' = [site EXCEPT ![m] = @ + 1]
    /\ UNCHANGED <<stay, heard, parkingCrashes, late, killed, textVars>>

\* The site accepts and shows the confirmation, accepts without showing it in
\* time, or refuses; without a confirmation the form is filled in again, and
\* after the last attempt the page is photographed as it is.
SubmitForm(m) ==
    /\ JobAt(m, "submit")
    /\ \/ /\ job' = [job EXCEPT ![m].pc = "photo", ![m].succeeded = TRUE]
          /\ site' = [site EXCEPT ![m] = @ + 1]
          /\ UNCHANGED late
       \/ /\ job' = NextAttempt(m)
          /\ site' = [site EXCEPT ![m] = @ + 1]
          /\ late' = late \cup {m}
       \/ /\ job' = NextAttempt(m)
          /\ UNCHANGED <<site, late>>
    /\ UNCHANGED <<stay, heard, parkingCrashes, killed, textVars>>

SendPhoto(m) ==
    /\ JobAt(m, "photo")
    /\ Tell(m, "photo")
    /\ job' = [job EXCEPT ![m].pc = "success"]
    /\ UNCHANGED <<stay, site, parkingCrashes, late, killed, textVars>>

\* "Registration completed successfully", whether it was or not,
SaySuccess(m) ==
    /\ JobAt(m, "success")
    /\ Tell(m, "success")
    /\ job' = [job EXCEPT ![m].pc = "complete"]
    /\ UNCHANGED <<stay, site, parkingCrashes, late, killed, textVars>>

\* and then the run is completed.
CompleteStay(m) ==
    /\ JobAt(m, "complete")
    /\ stay' = [stay EXCEPT ![text[m].stay] = "completed"]
    /\ job' = [job EXCEPT ![m].pc = "over"]
    /\ UNCHANGED <<site, heard, parkingCrashes, late, killed, textVars>>

\* The browser, the site or Telegram fails: the user is told.
FailJob(m) ==
    /\ job[m].pc \in {"hello", "open", "fill", "submit", "photo", "success"}
    /\ job' = [job EXCEPT ![m].pc = "apologise"]
    /\ UNCHANGED <<stay, textVars, jobVars>>

Apologise(m) ==
    /\ JobAt(m, "apologise")
    /\ Tell(m, "failure")
    /\ job' = [job EXCEPT ![m].pc = "over"]
    /\ UNCHANGED <<stay, site, parkingCrashes, late, killed, textVars>>

-----------------------------------------------------------------------------
(* The end of the process: nothing takes the jobs up again. *)

Die ==
    /\ text' = [m \in Text |-> IF TextAt(m, "idle") THEN text[m] ELSE [text[m] EXCEPT !.pc = "done"]]
    /\ killed' = killed \cup {m \in Text : job[m].pc \notin {"none", "over"}}
    /\ job' = [m \in Text |-> IF JobAt(m, "none") THEN job[m] ELSE [job[m] EXCEPT !.pc = "over"]]
    /\ UNCHANGED <<stay, site, heard, met, late, crossed>>

\* Apologising fails as well, or the run cannot be completed: the rejection is
\* nobody's to handle.
RejectUnhandled(m) ==
    /\ job[m].pc \in {"apologise", "complete"}
    /\ Die
    /\ UNCHANGED parkingCrashes

ParkingCrash ==
    /\ parkingCrashes < MaxParkingCrashes
    /\ parkingCrashes' = parkingCrashes + 1
    /\ Die

TextStep(m) ==
    \/ FindStay(m) \/ CreateStay(m) \/ ExtractDetails(m) \/ SaveDetails(m) \/ ReplyToText(m)
    \/ FailText(m)

JobStep(m) ==
    \/ SaySubmitting(m) \/ OpenSite(m) \/ FillForm(m) \/ SubmitForm(m) \/ SendPhoto(m)
    \/ SaySuccess(m) \/ CompleteStay(m) \/ FailJob(m) \/ Apologise(m) \/ RejectUnhandled(m)

ParkingNext ==
    \/ \E m \in Text : ReceiveText(m) \/ TextStep(m) \/ JobStep(m)
    \/ ParkingCrash

ParkingSpec == ParkingInit /\ [][ParkingNext]_parkingVars

-----------------------------------------------------------------------------
(* Properties *)

\* There is one pending run at a time, unless two messages looked for it at
\* the same time.
OnePendingStay == Cardinality(PendingStays) <= 1 \/ met

\* What a message led to, the user hears: a job ends with a success or a
\* failure reported, unless the process has died under it.
JobsReport == \A m \in Text : JobAt(m, "over") => heard[m] \cap {"success", "failure"} # {} \/ m \in killed

\* A job that registered the car and did not get to say so, or died before it
\* could complete the run: the next message finds the run pending.
Unfinished == {m \in Text : site[m] > 0 /\ ("success" \notin heard[m] \/ m \in killed)}

\* A stay is registered once, unless the site confirmed too late, two messages
\* started a job for it, or a job that had registered it left it unfinished.
RegisteredOnce ==
    \A s \in StayId :
      LET jobs == {m \in Text : text[m].stay = s /\ site[m] > 0}
      IN \/ Cardinality(jobs) <= 1 /\ \A m \in jobs : site[m] = 1
         \/ s \in crossed
         \/ jobs \cap (late \cup Unfinished) # {}

\* A completed run has been reported to the user as one.
CompletedIsReported ==
    \A s \in StayId : stay[s] = "completed" => \E m \in Text : text[m].stay = s /\ "success" \in heard[m]

\* A stay is registered and reported as one, whatever overlaps, outside of the
\* named races.
StaysAreSound ==
    ParkingTypeOK /\ OnePendingStay /\ JobsReport /\ RegisteredOnce /\ CompletedIsReported

\* "Registration completed successfully"
\* (carleton-parking-webhook.handler.ts:199): the site has registered the car.
SuccessIsRegistered == \A m \in Text : "success" \in heard[m] => site[m] > 0
=============================================================================
