----------------------------- MODULE Retirement -----------------------------
(***************************************************************************)
(* The retirement of one learner's account.  The LMS keeps the learner's   *)
(* UserRetirementStatus; driver scripts outside of it call its REST API:   *)
(* for each step of the pipeline they set the working state, have the step *)
(* done, and set the state that says so.  The learner may cancel while the *)
(* status is PENDING, operators force states, partners are told, and       *)
(* finished rows are archived and deleted.                                 *)
(*                                                                         *)
(* A request to the LMS reads the row, and writes it later, without a      *)
(* lock; a caller may give up on a request that the LMS goes on to serve.  *)
(***************************************************************************)
EXTENDS Naturals, FiniteSets

CONSTANTS
    Drivers,      \* runs of retire_one_learner that may be going at a time
    Reporters,    \* runs of the partner report
    Operator,     \* who forces states, no driver
    Steps,        \* the number of steps of the pipeline; the last is LMS retirement
    PartnerStep,  \* the step that queues the learner for the partner report
    NoRow,        \* there is no UserRetirementStatus
    Unread,       \* what a request that has not read the row has seen
    MaxRequests,  \* bound: retirements requested
    MaxTrouble    \* bound: failed steps, lost answers, dead scripts and forced states

ASSUME RetirementAssumption ==
    /\ Operator \notin Drivers
    /\ Steps \in Nat \ {0}
    /\ PartnerStep \in 1..Steps
    /\ {MaxRequests, MaxTrouble} \subseteq Nat

VARIABLES
    row,        \* the UserRetirementStatus of the learner
    request,    \* whether there is a UserRetirementRequest
    account,    \* the learner's account
    done,       \* the steps done since retirement was requested
    report,     \* the UserRetirementPartnerReportingStatus
    calls,      \* requests that the LMS has not answered
    drv,        \* what each driver is doing
    rep,        \* what each reporter is doing
    desk,       \* the row that a cancellation has read
    cleaner,    \* the row that a cleanup has read
    requests,   \* how many requests there were
    trouble,    \* how much trouble there was
    orgs,       \* whether the learner was ever enrolled with a partner
    told,       \* history: partners have been told since retirement was requested
    waived,     \* history: steps that operators have claimed as done without
    left,       \* history: nobody goes on from the state of the row
    accidents   \* history: what has happened of AccidentKinds

lms == <<row, request, account, done, report>>
scripts == <<calls, drv>>
staff == <<desk, cleaner>>
history == <<told, waived, left>>
vars == <<lms, scripts, rep, staff, requests, trouble, orgs, history, accidents>>

-----------------------------------------------------------------------------
(* States, rows and calls                                                  *)

\* RETIREMENT_STATES, by their positions.
PENDING == 0
Starting(k) == 2 * k - 1
Complete(k) == 2 * k
ERRORED == 2 * Steps + 1
ABORTED == 2 * Steps + 2
COMPLETE == 2 * Steps + 3

States == PENDING..COMPLETE
WorkingStates == {Starting(k) : k \in 1..Steps}
DeadEnds == {ERRORED, ABORTED, COMPLETE}

\* redacted: original_username is "redacted-before-delete".  Of last_state there
\* is nothing here: operators alone read it, and they may force any state.
Rows == [id : 1..MaxRequests, current : States, redacted : BOOLEAN]

\* No row is not a row, nor is a row that was not read.
ASSUME NoRowAssumption == NoRow \notin Rows /\ Unread \notin Rows

\* A request: set a state, or do a step.  late is 0 while the caller waits, and
\* tells the requests apart that nobody waits for.
Calls == [by : Drivers \cup {Operator}, what : {"state", "step"}, to : States,
          force : BOOLEAN, seen : Rows \cup {Unread}, late : Nat]

\* What happens to a retirement that the protocol does not control:
\*   reopened an operator sets a retirement back to PENDING, which can be cancelled
\*   crossed  a cancellation deletes a row that has left PENDING or was reopened, or
\*            a step is done for a row that is gone
\*   revived  a row is saved that was deleted since it was read, and is there again
\*   redacted a cleanup redacts a row that it does not delete
\*   missed   a learner is marked as being reported by a report that lacks it
\*   crash    a script dies, or a report fails
AccidentKinds == {"reopened", "crossed", "revived", "redacted", "missed", "crash"}

\* Its caller is a driver, and waits for the answer.
Waits(c) == c.by \in Drivers /\ c.late = 0

Idle == [at |-> "idle", k |-> 1]

Init ==
    /\ row = NoRow
    /\ request = FALSE
    /\ account = "open"
    /\ done = {}
    /\ report = "none"
    /\ calls = {}
    /\ drv = [d \in Drivers |-> Idle]
    /\ rep = [r \in Reporters |-> "idle"]
    /\ desk = NoRow
    /\ cleaner = NoRow
    /\ requests = 0
    /\ trouble = 0
    /\ orgs = FALSE
    /\ told = FALSE
    /\ waived = {}
    /\ left = FALSE
    /\ accidents = {}

Found(r) == r # NoRow /\ ~r.redacted
HitIf(cond, kind) == accidents' = IF cond THEN accidents \cup {kind} ELSE accidents
Trouble == trouble < MaxTrouble /\ trouble' = trouble + 1

-----------------------------------------------------------------------------
(* What the LMS does with a request                                        *)

\* update_state and get_retirement_for_retirement_action: no row, or one that
\* does not allow it.  The check for dead ends of _validate_state_update
\* compares a RetirementState with their names, which no object equals.
Refused(c, r) ==
    \/ ~Found(r)
    \/ c.what = "state" /\ ~c.force /\ c.to <= r.current
    \/ c.what = "step" /\ r.current \notin WorkingStates

\* The steps that a state says are done; ERRORED and ABORTED say nothing.
Behind(state) ==
    {j \in 1..Steps : state \notin {ERRORED, ABORTED} /\ Complete(j) <= state}

\* The row that was read cannot be written: the learner has another one.
Conflict(c) == row # NoRow /\ row.id # c.seen.id

\* Django's save(): an UPDATE of the whole row by its id, or an INSERT if it is
\* gone.
SaveState(c) ==
    /\ ~Conflict(c)
    /\ row' = [c.seen EXCEPT !.current = c.to]
    /\ waived' = IF c.force THEN waived \cup (Behind(c.to) \ done) ELSE waived
    /\ left' = ~Waits(c)
    /\ accidents' = accidents \cup (IF row = NoRow THEN {"revived"} ELSE {})
                               \cup (IF c.to = PENDING THEN {"reopened"} ELSE {})
    /\ UNCHANGED <<request, account, done, report, told>>

\* retirement_partner_status_create: get_or_create, for a learner with
\* organisations.
Queued == IF orgs /\ report = "none" THEN "queued" ELSE report

\* The step itself; the last one retires the account.
DoStep(c) ==
    /\ done' = done \cup {c.to}
    /\ account' = IF c.to = Steps THEN "retired" ELSE account
    /\ report' = IF c.to = PartnerStep THEN Queued ELSE report
    /\ HitIf(row = NoRow \/ row.id # c.seen.id, "crossed")
    /\ UNCHANGED <<row, request, history>>

-----------------------------------------------------------------------------
(* The driver: retire_one_learner                                          *)

\* What a driver asks for at each point.
Ask(d, at, k) ==
    [by |-> d, force |-> FALSE, seen |-> Unread, late |-> 0,
     what |-> IF at = "step" THEN "step" ELSE "state",
     to |-> [start |-> Starting(k), step |-> k, end |-> Complete(k),
             finish |-> COMPLETE, error |-> ERRORED][at]]

\* Mutant of Follow: a failure ends the script.
FollowOrStop(at, k, ok) ==
    IF ~ok THEN Idle
    ELSE [start  |-> [at |-> "step", k |-> k],
          step   |-> [at |-> "end", k |-> k],
          end    |-> IF k < Steps THEN [at |-> "start", k |-> k + 1]
                                  ELSE [at |-> "finish", k |-> k],
          finish |-> Idle,
          error  |-> Idle][at]

\* After an answer.  Any failure goes to ERRORED; failing to set that is
\* logged and the script ends.
Follow(at, k, ok) ==
    IF ~ok THEN IF at = "error" THEN Idle ELSE [at |-> "error", k |-> k]
    ELSE [start  |-> [at |-> "step", k |-> k],
          step   |-> [at |-> "end", k |-> k],
          end    |-> IF k < Steps THEN [at |-> "start", k |-> k + 1]
                                  ELSE [at |-> "finish", k |-> k],
          finish |-> Idle,
          error  |-> Idle][at]

\* The driver goes to a point and asks for what belongs to it; rest is what
\* the LMS still has to answer besides.
Go(d, point, rest) ==
    /\ drv' = [drv EXCEPT ![d] = point]
    /\ calls' = rest \cup IF point.at = "idle" THEN {} ELSE {Ask(d, point.at, point.k)}

\* c is answered; its caller goes on, if there is one.
Answer(c, ok) ==
    IF Waits(c) THEN Go(c.by, Follow(drv[c.by].at, drv[c.by].k, ok), calls \ {c})
    ELSE calls' = calls \ {c} /\ UNCHANGED drv

\* c is answered by an error that is tried again.
Again(c) ==
    IF Waits(c) THEN Go(c.by, drv[c.by], calls \ {c}) ELSE calls' = calls \ {c} /\ UNCHANGED drv

\* Mutant of FirstStep: one step too many is skipped.
FirstStepTooFar(i) == i \div 2 + 2

\* Steps that are done are skipped: a learner in state i goes on with the
\* first step whose working state is not before i.
FirstStep(i) == i \div 2 + 1

\* get_learners_to_retire lists learners in PENDING or after a step; the driver
\* reads the state again, and exits unless it is one of these.
Listed(i) == i \notin WorkingStates \cup DeadEnds

Start(d) ==
    /\ drv[d].at = "idle"
    /\ Found(row)
    /\ Listed(row.current)
    /\ Go(d, IF FirstStep(row.current) > Steps THEN [at |-> "finish", k |-> Steps]
             ELSE [at |-> "start", k |-> FirstStep(row.current)], calls)
    /\ UNCHANGED <<lms, rep, staff, requests, trouble, orgs, history, accidents>>

\* The LMS reads the row for a request, or refuses it.
Read(c) ==
    /\ c.seen = Unread
    /\ IF Refused(c, row)
       THEN Answer(c, FALSE)
       ELSE /\ calls' = (calls \ {c}) \cup {[c EXCEPT !.seen = row]}
            /\ UNCHANGED drv
    /\ UNCHANGED <<lms, rep, staff, requests, trouble, orgs, history, accidents>>

\* The LMS does what was asked.  A save that meets another row of the learner
\* fails with 500, which is tried again.
Perform(c) ==
    /\ c.seen # Unread
    /\ \/ c.what = "state" /\ SaveState(c) /\ Answer(c, TRUE)
       \/ c.what = "state" /\ Conflict(c) /\ Again(c) /\ UNCHANGED <<lms, history, accidents>>
       \/ c.what = "step" /\ DoStep(c) /\ Answer(c, TRUE)
    /\ UNCHANGED <<rep, staff, requests, trouble, orgs>>

\* A step fails for good and leaves nothing done.
StepFails(c) ==
    /\ Trouble
    /\ c.what = "step" /\ c.seen # Unread
    /\ Answer(c, FALSE)
    /\ UNCHANGED <<lms, rep, staff, requests, orgs, history, accidents>>

\* A number for a request that nobody waits for any more.
LateNumber == CHOOSE n \in 1..(Cardinality(calls) + 1) : \A c \in calls : c.late # n

\* The connection breaks or times out while the LMS is, or is not, at work.  The
\* driver asks again (_retry_lms_api), or takes it for a failure.
GiveUp(c) ==
    /\ Trouble
    /\ Waits(c)
    /\ \E point \in {drv[c.by], Follow(drv[c.by].at, drv[c.by].k, FALSE)} :
          /\ Go(c.by, point, (calls \ {c}) \cup {[c EXCEPT !.late = LateNumber]})
          /\ left' = (left \/ point = Idle)
    /\ UNCHANGED <<lms, rep, staff, requests, orgs, told, waived, accidents>>

Crash(d) ==
    /\ Trouble
    /\ drv[d].at # "idle"
    /\ Go(d, Idle, {IF Waits(c) /\ c.by = d THEN [c EXCEPT !.late = LateNumber] ELSE c : c \in calls})
    /\ left' = TRUE
    /\ HitIf(TRUE, "crash")
    /\ UNCHANGED <<lms, rep, staff, requests, orgs, told, waived>>

-----------------------------------------------------------------------------
(* The learner, operators and cleanup                                      *)

\* create_retirement_request_and_deactivate_account, in one transaction.
Request ==
    /\ row = NoRow /\ ~request /\ account = "open"
    /\ requests < MaxRequests
    /\ requests' = requests + 1
    /\ row' = [id |-> requests + 1, current |-> PENDING, redacted |-> FALSE]
    /\ request' = TRUE
    /\ account' = "locked"
    /\ done' = {}
    /\ orgs' \in BOOLEAN
    /\ told' = FALSE
    /\ waived' = {}
    /\ left' = FALSE
    /\ UNCHANGED <<report, scripts, rep, staff, trouble, accidents>>

\* Mutant of CanCancel: until the end.
CanCancelLater(r) == r.current \notin DeadEnds

CanCancel(r) == r.current = PENDING

\* cancel_retirement reads the row ...
Look ==
    /\ desk = NoRow
    /\ row # NoRow /\ CanCancel(row)
    /\ desk' = row
    /\ UNCHANGED <<lms, scripts, rep, cleaner, requests, trouble, orgs, history, accidents>>

\* Mutant of DropsRequest: in any state.
DropsRequestAlways(r) == TRUE

\* remove_pending_retirement_request goes by the row as it was read.
DropsRequest(r) == r.current = PENDING

\* ... and handle_retirement_cancellation saves the user and deletes the row by
\* its id.
Cancel ==
    /\ desk # NoRow
    /\ account' = "open"
    /\ row' = IF row # NoRow /\ row.id = desk.id THEN NoRow ELSE row
    /\ request' = (request /\ ~DropsRequest(desk))
    /\ HitIf(row # desk \/ "reopened" \in accidents, "crossed")
    /\ desk' = NoRow
    /\ UNCHANGED <<done, report, scripts, rep, cleaner, requests, trouble, orgs, history>>

\* retirement_bulk_status_update: any state, or the last one.
ForceState ==
    /\ Found(row)
    /\ Trouble
    /\ \E to \in States :
          calls' = calls \cup {[by |-> Operator, what |-> "state", to |-> to, force |-> TRUE,
                               seen |-> Unread, late |-> LateNumber]}
    /\ UNCHANGED <<lms, drv, rep, staff, requests, orgs, history, accidents>>

\* archive_and_cleanup has archived the row, and cleanup finds it COMPLETE ...
CheckComplete ==
    /\ cleaner = NoRow
    /\ Found(row) /\ row.current = COMPLETE
    /\ cleaner' = row
    /\ UNCHANGED <<lms, scripts, rep, desk, requests, trouble, orgs, history, accidents>>

\* ... redacts it by its id, and deletes it if it is still COMPLETE.
Cleanup ==
    /\ cleaner # NoRow
    /\ cleaner' = NoRow
    /\ LET there == row # NoRow /\ row.id = cleaner.id
           gone == there /\ row.current = COMPLETE
       IN  /\ row' = IF gone THEN NoRow ELSE IF there THEN [row EXCEPT !.redacted = TRUE] ELSE row
           /\ request' = (request /\ ~(gone /\ DropsRequest(row)))
           /\ HitIf(there /\ ~gone, "redacted")
    /\ UNCHANGED <<account, done, report, scripts, rep, desk, requests, trouble, orgs, history>>

-----------------------------------------------------------------------------
(* The partner report: generate_report                                     *)

Turn(r, stage) == rep' = [rep EXCEPT ![r] = stage]

\* A learner that is marked is no longer queued.
Marked == IF report = "queued" THEN "processing" ELSE report

\* Mutant of List: the learners are marked before they are listed.
ListAfterMark(r) ==
    /\ rep[r] = "idle"
    /\ report' = Marked
    /\ Turn(r, "empty")
    /\ UNCHANGED <<row, request, account, done, scripts, staff, requests, trouble, orgs, history, accidents>>

\* retirement_partner_report reads who is not being processed ...
List(r) ==
    /\ rep[r] = "idle"
    /\ Turn(r, IF report = "queued" THEN "listed" ELSE "empty")
    /\ UNCHANGED <<lms, scripts, staff, requests, trouble, orgs, history, accidents>>

\* ... and marks those who are not being processed: it asks a second time.
Mark(r) ==
    /\ rep[r] \in {"listed", "empty"}
    /\ report' = Marked
    /\ HitIf(rep[r] = "empty" /\ report = "queued", "missed")
    /\ Turn(r, IF rep[r] = "listed" THEN "marked" ELSE "idle")
    /\ UNCHANGED <<row, request, account, done, scripts, staff, requests, trouble, orgs, history>>

\* The report is written and pushed to the partners,
Push(r) ==
    /\ rep[r] = "marked"
    /\ told' = TRUE
    /\ Turn(r, "pushed")
    /\ UNCHANGED <<lms, scripts, staff, requests, trouble, orgs, waived, left, accidents>>

\* and retirement_partner_cleanup deletes what is being processed.
Clear(r) ==
    /\ rep[r] = "pushed"
    /\ report' = IF report = "processing" THEN "none" ELSE report
    /\ Turn(r, "idle")
    /\ UNCHANGED <<row, request, account, done, scripts, staff, requests, trouble, orgs, history, accidents>>

\* The script exits before it is done.
ReportFails(r) ==
    /\ Trouble
    /\ rep[r] \in {"marked", "pushed"}
    /\ Turn(r, "idle")
    /\ HitIf(TRUE, "crash")
    /\ UNCHANGED <<lms, scripts, staff, requests, orgs, history>>

Serve(d) == \E c \in calls : c.by = d /\ Waits(c) /\ (Read(c) \/ Perform(c))
Tell(r) == List(r) \/ Mark(r) \/ Push(r) \/ Clear(r)

Next ==
    \/ \E c \in calls : Read(c) \/ Perform(c) \/ StepFails(c) \/ GiveUp(c)
    \/ \E d \in Drivers : Start(d) \/ Crash(d)
    \/ \E r \in Reporters : Tell(r) \/ ReportFails(r)
    \/ Request \/ Look \/ Cancel \/ ForceState
    \/ CheckComplete \/ Cleanup

Spec == Init /\ [][Next]_vars

\* Drivers are started again and again, and get their answers.
FairSpec ==
    /\ Spec
    /\ \A d \in Drivers : WF_vars(Start(d)) /\ WF_vars(Serve(d))

-----------------------------------------------------------------------------
(* Properties                                                              *)

\* The variables have their types.
TypeOK ==
    /\ row \in Rows \cup {NoRow}
    /\ request \in BOOLEAN
    /\ account \in {"open", "locked", "retired"}
    /\ done \subseteq 1..Steps
    /\ report \in {"none", "queued", "processing"}
    /\ calls \subseteq Calls
    /\ drv \in [Drivers -> [at : {"idle", "start", "step", "end", "finish", "error"}, k : 1..Steps]]
    /\ rep \in [Reporters -> {"idle", "listed", "empty", "marked", "pushed"}]
    /\ {desk, cleaner} \subseteq Rows \cup {NoRow}
    /\ requests \in 0..MaxRequests
    /\ trouble \in 0..MaxTrouble
    /\ {orgs, told, left} \subseteq BOOLEAN
    /\ waived \subseteq 1..Steps
    /\ accidents \subseteq AccidentKinds

\* No cancellation has crossed a retirement that had begun or that an operator had
\* reopened, no step was done for a row that is gone, and no row that was deleted
\* has come back.
Undisturbed == accidents \cap {"crossed", "revived"} = {}

\* A learner whose retirement is COMPLETE has been through every step since it
\* was requested, and the account is retired, except for the steps that an
\* operator has claimed as done by the state that was forced; whatever drivers
\* repeat, lose or leave behind, and although a late save may set the row back
\* (retire_learner skips what is done; the row alone remembers it).
RetiredInFull ==
    Undisturbed /\ row # NoRow /\ row.current = COMPLETE =>
        /\ done \cup waived = 1..Steps
        /\ account = "retired" \/ Steps \in waived

\* A learner who has cancelled is in no queue, and nothing of the account has
\* been retired (special_cases.rst, "Cancelling a Retirement").
CancelledIsLeftAlone ==
    Undisturbed /\ account = "open" => row = NoRow /\ ~request /\ done = {}

\* The UserRetirementRequest, which keeps a learner from signing up again under
\* the same name, outlives the row of a retirement that has begun
\* (remove_pending_retirement_request runs on every deletion).
RetiredIsRecorded == Undisturbed /\ done # {} => request

\* A learner with organisations who is retired is told of to the partners, or
\* queued for it, or in the list of a report that is under way, unless a script
\* died, the marking query found a learner that the list lacks, or the retirement
\* was disturbed (retirement_partner_report).
PartnersAreTold ==
    orgs /\ PartnerStep \in done /\ Undisturbed /\ accidents \cap {"missed", "crash"} = {} =>
        told \/ report = "queued" \/ \E r \in Reporters : rep[r] \in {"listed", "marked", "pushed"}

\* A retirement never stays between two steps: it lands in a terminal state, or
\* is cancelled or cleaned up (get_learners_to_retire finds it again).  It may rest
\* in a working state only where a script died, could not set ERRORED, or left a
\* call behind that was served late, or where an operator put it: a step that
\* fails and a repeated call that is refused lead to ERRORED.
LandsInTheEnd ==
    <>[](Found(row) => row.current \in DeadEnds \/ (row.current \in WorkingStates /\ left))
=============================================================================
