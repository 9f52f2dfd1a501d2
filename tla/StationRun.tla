------------------------------ MODULE StationRun ------------------------------
(***************************************************************************)
(* One tab at one task's station (app/station/[taskId]/page.tsx): runs are *)
(* driven, measured, kept as a draft (lib/run-draft.ts) and submitted      *)
(* (useSubmitRun of lib/submit.ts). A submission goes on while the page    *)
(* moves: across another run, another page, or a reload, and its           *)
(* transaction even when nobody waits for it any more. A run is known by   *)
(* its number; the task draws the object of each run anew.                 *)
(***************************************************************************)
EXTENDS Naturals, FiniteSets

CONSTANTS
  Scenes,          \* objects a run may be driven with
  NoScene,
  MaxRuns, MaxSends, MaxLoads    \* bounds: runs, submissions, page loads

VARIABLES
  page,            \* phase, scene, drawing: the object is still to be drawn,
                   \* auto: policy or skill drive, drove: they did in this run,
                   \* practise, recovered: the draft offered
  run,             \* samples.current and the verdict on them
  elapsed,         \* the run that the page's clock timed, 0 for none
  card,            \* the state of useSubmitRun, the run its phase is about, and
                   \* the run its line on shares is about, 0 for none yet
  send,            \* send[k]: the k-th submission; live: its page is there,
                   \* tx: its transaction
  draft,           \* sessionStorage "thenar:run-draft:v1"
  stale,           \* the draft is more than an hour old
  paidRuns,        \* runs the contract paid
  made, loads,     \* runs measured, page loads
  owed,            \* the operator's run that was stored and is neither paid nor
                   \* given up: to another run, by discarding it, to its age
  rig              \* headset: its A button starts runs too; admission: "member",
                   \* or how far the passkey step of this tab has come

stationVars == <<page, run, elapsed, card, send, draft, stale, paidRuns, made, loads, owed, rig>>

StationAssumption ==
  /\ Scenes # {} /\ NoScene \notin Scenes
  /\ MaxRuns \in Nat /\ MaxSends \in Nat /\ MaxLoads \in Nat
ASSUME StationFacts == StationAssumption

Sends == 1..MaxSends

NoRun == [id |-> 0, scene |-> NoScene, auto |-> FALSE]

FreshPage(scene, kept) ==
  [phase |-> "brief", scene |-> scene, drawing |-> TRUE, auto |-> FALSE,
   drove |-> FALSE, practise |-> FALSE, recovered |-> kept]

CardOf(phase, id) == [phase |-> phase, of |-> id, shares |-> 0]

IdleCard == CardOf("idle", 0)

NoSend == [at |-> "none", tx |-> "none", run |-> NoRun, elapsed |-> 0,
           scene |-> NoScene, live |-> FALSE]

StationInit ==
  /\ \E s \in Scenes : page = FreshPage(s, NoRun)
  /\ run = NoRun /\ elapsed = 0 /\ card = IdleCard
  /\ send = [k \in Sends |-> NoSend]
  /\ draft = NoRun /\ stale = FALSE /\ paidRuns = {} /\ made = 0 /\ loads = 1 /\ owed = 0
  /\ rig \in [headset : BOOLEAN, admission : {"member", "none"}]

Admitted == {"member", "answered", "done"}

Busy == card.phase \in {"verifying", "signing", "pending"}
Done == card.phase = "confirmed"
Practice == page.practise \/ page.auto

Store(d) == draft' = d /\ stale' = FALSE

\* saveDraft, of a run that was paid too: a full or disabled store keeps what it
\* has, and nobody is told.
Keep(r) ==
  \/ Store(r) /\ owed' = IF r.id \in paidRuns THEN 0 ELSE r.id
  \/ UNCHANGED <<draft, stale, owed>>

\* clearDraft, and whoever was in it.
Forget == Store(NoRun) /\ owed' = IF draft.id = owed THEN 0 ELSE owed

\* loadDraft: an hour later it is not offered, and cleared.
LoadDraft == IF stale THEN Forget ELSE UNCHANGED <<draft, stale, owed>>

\* setTimeout: payloads are drawn again after each start.
DrawScene ==
  /\ page.drawing
  /\ \E s \in Scenes : page' = [page EXCEPT !.scene = s, !.drawing = FALSE]
  /\ UNCHANGED <<run, elapsed, card, send, draft, stale, paidRuns, made, loads, owed, rig>>

\* start(): from the brief, by "Run again", or by the A button at any time but
\* while a run is on. Another run gives the last one up.
MayStart(practise) ==
  \/ page.phase = "brief"
  \/ page.phase = "measured" /\ ~Busy /\ ~practise
  \/ rig.headset /\ page.phase = "measured" /\ practise = page.practise

\* Mutant: the card is not reset.
Start_KeepsCard(practise) ==
  /\ made < MaxRuns /\ MayStart(practise)
  /\ page' = [page EXCEPT !.phase = "running", !.drawing = TRUE,
                          !.practise = practise, !.drove = page.auto]
  /\ run' = NoRun /\ elapsed' = 0 /\ owed' = 0
  /\ UNCHANGED <<card, send, draft, stale, paidRuns, made, loads, rig>>

Start(practise) ==
  /\ made < MaxRuns /\ MayStart(practise)
  /\ page' = [page EXCEPT !.phase = "running", !.drawing = TRUE,
                          !.practise = practise, !.drove = page.auto]
  /\ run' = NoRun /\ elapsed' = 0 /\ card' = IdleCard /\ owed' = 0
  /\ UNCHANGED <<send, draft, stale, paidRuns, made, loads, rig>>

\* finish(): measured, and what the operator drove is kept.
Finish ==
  LET new == [id |-> made + 1, scene |-> page.scene, auto |-> page.drove]
  IN  /\ page.phase = "running" /\ ~page.drawing
      /\ made' = new.id /\ run' = new /\ elapsed' = new.id
      /\ page' = [page EXCEPT !.phase = "measured"]
      /\ IF Practice THEN UNCHANGED <<draft, stale, owed>> ELSE Keep(new)
      /\ UNCHANGED <<card, send, paidRuns, loads, rig>>

\* "Let the policy drive", or a taught skill, on or off, at any time. Turned
\* off, a measured run is kept like any other.
ToggleAuto ==
  /\ page' = [page EXCEPT !.auto = ~@, !.drove = @ \/ (page.phase = "running" /\ ~page.auto)]
  /\ IF page.phase = "measured" /\ page.auto /\ ~page.practise
     THEN Keep(run) ELSE UNCHANGED <<draft, stale, owed>>
  /\ UNCHANGED <<run, elapsed, card, send, paidRuns, made, loads, rig>>

\* The catalogue is read again every 6 s. When a task changed in it, as it does
\* with every paid run, the page keeps a measured run anew, or reads the draft.
CatalogueChanges ==
  /\ \/ page.phase = "measured" /\ ~Practice /\ Keep(run) /\ UNCHANGED page
     \/ page.phase = "brief" /\ LoadDraft /\ page' = [page EXCEPT !.recovered = draft']
  /\ UNCHANGED <<run, elapsed, card, send, paidRuns, made, loads, rig>>

HourPasses ==
  /\ draft # NoRun /\ ~stale
  /\ stale' = TRUE
  /\ UNCHANGED <<page, run, elapsed, card, send, draft, paidRuns, made, loads, owed, rig>>

\* "Pick it back up", "Discard it"
PickUp ==
  /\ page.phase = "brief" /\ page.recovered # NoRun
  /\ run' = page.recovered
  /\ page' = [page EXCEPT !.phase = "measured", !.recovered = NoRun]
  /\ IF Practice THEN UNCHANGED <<draft, stale, owed>> ELSE Keep(page.recovered)
  /\ UNCHANGED <<elapsed, card, send, paidRuns, made, loads, rig>>

Discard ==
  /\ page.phase = "brief" /\ page.recovered # NoRun
  /\ page' = [page EXCEPT !.recovered = NoRun]
  /\ Forget
  /\ UNCHANGED <<run, elapsed, card, send, paidRuns, made, loads, rig>>

\* Mutant: the draft is cleared when the run is sent.
Submit_ClearsDraft(k) ==
  /\ page.phase = "measured" /\ ~Busy /\ ~Done /\ ~Practice
  /\ send[k].at = "none" /\ \A j \in Sends : j < k => send[j].at # "none"
  /\ send' = [send EXCEPT ![k] = [at |-> "verifying", tx |-> "none", run |-> run,
                                  elapsed |-> elapsed, scene |-> page.scene, live |-> TRUE]]
  /\ card' = CardOf("verifying", run.id)
  /\ Store(NoRun)
  /\ UNCHANGED <<page, run, elapsed, paidRuns, made, loads, owed, rig>>

\* submit(): what goes to /api/verify is what the page holds now.
Submit(k) ==
  /\ page.phase = "measured" /\ ~Busy /\ ~Done /\ ~Practice
  /\ send[k].at = "none" /\ \A j \in Sends : j < k => send[j].at # "none"
  /\ send' = [send EXCEPT ![k] = [at |-> "verifying", tx |-> "none", run |-> run,
                                  elapsed |-> elapsed, scene |-> page.scene, live |-> TRUE]]
  /\ card' = CardOf("verifying", run.id)
  /\ UNCHANGED <<page, run, elapsed, draft, stale, paidRuns, made, loads, owed, rig>>

\* setState of the page that submitted. A line on shares is shown with a
\* confirmed card only, and that phase begins without one.
Show(k, phase) ==
  card' = IF send[k].live THEN CardOf(phase, send[k].run.id) ELSE card

Proceed(k, from, to) ==
  /\ send[k].at = from
  /\ send' = [send EXCEPT ![k].at = to]
  /\ UNCHANGED <<page, run, elapsed, paidRuns, made, loads, owed, rig>>

\* A submission without a duration is refused, and one of an operator who is
\* not admitted; any may be.
Verified(k) ==
  /\ send[k].elapsed # 0 /\ rig.admission \in Admitted
  /\ Proceed(k, "verifying", "signing") /\ Show(k, "signing")
  /\ UNCHANGED <<draft, stale>>

SignAndSend(k) ==
  /\ send[k].at = "signing" /\ Show(k, "pending")
  /\ send' = [send EXCEPT ![k].at = "pending", ![k].tx = "sent"]
  /\ UNCHANGED <<page, run, elapsed, draft, stale, paidRuns, made, loads, owed, rig>>

\* The verifier, the wallet or the chain refuses, or there is no receipt in 60 s,
\* whatever becomes of the transaction.
Refused(k) ==
  /\ \E at \in {"verifying", "signing", "pending"} : Proceed(k, at, "ended")
  /\ Show(k, "error")
  /\ UNCHANGED <<draft, stale>>

\* The contract pays a recording once, whether or not anybody waits for it.
Mined(k) ==
  /\ send[k].tx = "sent" /\ send[k].run.id \notin paidRuns
  /\ send' = [send EXCEPT ![k].tx = "mined"]
  /\ paidRuns' = paidRuns \cup {send[k].run.id}
  /\ owed' = IF send[k].run.id = owed THEN 0 ELSE owed
  /\ UNCHANGED <<page, run, elapsed, card, draft, stale, made, loads, rig>>

\* The receipt: the card says so, and the draft is cleared.
Confirmed(k) ==
  /\ send[k].tx = "mined"
  /\ Proceed(k, "pending", "reporting") /\ Show(k, "confirmed")
  /\ IF send[k].live THEN Store(NoRun) ELSE UNCHANGED <<draft, stale>>

\* The answer of /api/submitted goes on the card, whatever the card is by then.
SharesAnswered(k) ==
  /\ Proceed(k, "reporting", "ended")
  /\ card' = IF send[k].live THEN [card EXCEPT !.shares = send[k].run.id] ELSE card
  /\ UNCHANGED <<draft, stale>>

\* The page is left and come back to, or loaded again; a reload also ends what
\* its submissions had still to do, but not a transaction already sent. A run
\* measured at another task's station meanwhile has taken the draft's place.
Load ==
  /\ loads < MaxLoads /\ loads' = loads + 1
  /\ \E elsewhere \in BOOLEAN : IF elsewhere THEN Forget ELSE LoadDraft
  /\ \E s \in Scenes : page' = FreshPage(s, draft')
  /\ run' = NoRun /\ elapsed' = 0 /\ card' = IdleCard
  /\ \E reloaded \in BOOLEAN :
       send' = [k \in Sends |->
         [send[k] EXCEPT !.live = FALSE,
                         !.at = IF reloaded /\ @ # "none" THEN "ended" ELSE @]]
  /\ rig' = [rig EXCEPT !.admission =
       CASE @ = "asking" -> "none" [] @ = "answered" -> "done" [] OTHER -> @]
  /\ UNCHANGED <<paidRuns, made>>

\* OperatorGate on the card: the passkey step, at any time until the run is paid.
AskAdmission ==
  /\ rig.admission = "none"
  /\ page.phase = "measured" /\ ~Done /\ ~Practice
  /\ rig' = [rig EXCEPT !.admission = "asking"]
  /\ UNCHANGED <<page, run, elapsed, card, send, draft, stale, paidRuns, made, loads, owed>>

\* The server admits the address, or the step fails.
AdmissionAnswered ==
  /\ rig.admission = "asking"
  /\ \E answer \in {"answered", "none"} : rig' = [rig EXCEPT !.admission = answer]
  /\ UNCHANGED <<page, run, elapsed, card, send, draft, stale, paidRuns, made, loads, owed>>

\* onAdmitted, once the gate has read its status again: the card is reset,
\* whatever it shows by then.
OnAdmitted ==
  /\ rig.admission = "answered"
  /\ rig' = [rig EXCEPT !.admission = "done"]
  /\ card' = IdleCard
  /\ UNCHANGED <<page, run, elapsed, send, draft, stale, paidRuns, made, loads, owed>>

StationNext ==
  \/ DrawScene \/ (\E practise \in BOOLEAN : Start(practise)) \/ Finish \/ ToggleAuto
  \/ PickUp \/ Discard \/ Load \/ CatalogueChanges \/ HourPasses
  \/ AskAdmission \/ AdmissionAnswered \/ OnAdmitted
  \/ \E k \in Sends : \/ Submit(k) \/ Verified(k) \/ SignAndSend(k)
                      \/ Refused(k) \/ Mined(k) \/ Confirmed(k) \/ SharesAnswered(k)

StationSpec == StationInit /\ [][StationNext]_stationVars
-----------------------------------------------------------------------------
\* Neither a headset nor the passkey step starts or resets anything while a
\* submission is under way.
Plain == ~rig.headset /\ rig.admission = "member"

\* Once stored, the operator's measured run stays in the tab's draft until it is
\* paid, discarded, given up for another run (here, or measured at another task's
\* station in the same tab), or found more than an hour old: through refusals,
\* receipts that do not come, reloads and pages left, and whatever the submissions
\* of other runs still do (run-draft.ts 8-17, 30-53). Without a headset and for an
\* operator already admitted; a run that the store did not take is not in it.
MeasuredIsKept == Plain /\ owed # 0 => draft.id = owed

\* The phase the card shows (verification, signing, payment, refusal) is that of
\* the run it is shown with, never of an earlier submission that comes through
\* late, and it says paid of a paid run only (page.tsx 784-806), for the same
\* operators. The card's line on shares is not meant: see SharesToldOfItsRun.
CardTellsOfItsRun ==
  /\ Plain /\ card.phase # "idle" => page.phase = "measured" /\ card.of = run.id
  /\ Done => card.of \in paidRuns

\* The line on shares is about the run the card is about ("The run's corpus
\* shares", submit.ts 27). The code does not keep it: the answer for a run that was
\* confirmed is written on the card of the next one (submit.ts 334).
SharesToldOfItsRun == Done /\ card.shares # 0 => card.shares = card.of

\* The draft is only ever an unsent run (run-draft.ts 15-17). The code does not
\* keep it: the run that was just paid changes its task in the catalogue, and the
\* page keeps it anew (page.tsx 247-256).
DraftIsUnsent == draft.id \notin paidRuns

\* What is submitted belongs together: recording, duration and objects are one
\* run's (submit.ts 210-212).
SubmissionIsWhole ==
  \A k \in Sends : send[k].at # "none" =>
    send[k].elapsed = send[k].run.id /\ send[k].scene = send[k].run.scene

\* A run the policy or a skill drove is never submitted (page.tsx 160-166).
OwnRunsOnly == \A k \in Sends : send[k].at # "none" => ~send[k].run.auto
=============================================================================
