------------------------------ MODULE WebAdmin ------------------------------
(***************************************************************************)
(* The admin panel of the web client (web/src/App.svelte): the job that is *)
(* shown and the timer that asks for it.  Every await is a slot of         *)
(* requests; the server answers with the job as it is at that moment, and  *)
(* answers overtake each other or are lost.                                *)
(***************************************************************************)
EXTENDS Naturals, FiniteSets

CONSTANTS
  Requests,   \* requests that can be pending at once
  MaxJobs     \* bound on the jobs the server runs

ASSUME AdminAssumption == Requests \subseteq Nat /\ MaxJobs \in Nat

VARIABLES
  adminOpen,  \* the panel is on the screen
  adminPoll,  \* the interval that polls is set
  adminJob,   \* the status of the job on the screen
  job,        \* the status of the server's job
  jobs,       \* jobs the server has started
  requests    \* pending awaits of the panel

adminVars == <<adminOpen, adminPoll, adminJob, job, jobs, requests>>

Status == {"none", "running", "ended"}

NoRequest == [op |-> "free", at |-> "free", status |-> "none"]

AdminTypeOK ==
  /\ {adminOpen, adminPoll} \subseteq BOOLEAN
  /\ {adminJob, job} \subseteq Status /\ jobs \in 0..MaxJobs
  /\ requests \in [Requests ->
       [op : {"free", "open", "poll", "stats", "start", "cancel", "edit"},
        at : {"free", "sent", "served", "rest"}, status : Status]]

AdminInit ==
  /\ adminOpen = FALSE /\ adminPoll = FALSE
  /\ adminJob = "none" /\ job = "none" /\ jobs = 0
  /\ requests = [r \in Requests |-> NoRequest]

Sent(op) == [op |-> op, at |-> "sent", status |-> "none"]

\* A request goes out through the first free slot.
Send(op) ==
  \E r \in Requests :
    /\ requests[r] = NoRequest
    /\ \A q \in Requests : q < r => requests[q] # NoRequest
    /\ requests' = [requests EXCEPT ![r] = Sent(op)]

Turns(r, to) == requests' = [requests EXCEPT ![r] = to]

-----------------------------------------------------------------------------
(* The user *)

\* openAdmin: statistics, users and keys are asked for.
OpenAdmin ==
  /\ ~adminOpen /\ adminOpen' = TRUE
  /\ Send("open")
  /\ UNCHANGED <<adminPoll, adminJob, job, jobs>>

\* closeAdmin
CloseAdmin ==
  /\ adminOpen /\ adminOpen' = FALSE
  /\ adminPoll' = FALSE
  /\ UNCHANGED <<adminJob, job, jobs, requests>>

\* runAdminJob
RunAdminJob ==
  /\ adminOpen /\ adminJob # "running"
  /\ Send("start")
  /\ UNCHANGED <<adminOpen, adminPoll, adminJob, job, jobs>>

\* cancelRunningAdminJob
CancelAdminJob ==
  /\ adminOpen /\ adminJob = "running"
  /\ Send("cancel")
  /\ UNCHANGED <<adminOpen, adminPoll, adminJob, job, jobs>>

\* clearPreviewCacheFromAdmin, saveAdminUser and createUserFromAdmin: their
\* request, and when it has succeeded the statistics again.
EditAdmin ==
  /\ adminOpen
  /\ Send("edit")
  /\ UNCHANGED <<adminOpen, adminPoll, adminJob, job, jobs>>

\* What the panel offers.
AdminPanel == CloseAdmin \/ RunAdminJob \/ CancelAdminJob \/ EditAdmin

-----------------------------------------------------------------------------
(* The server *)

Starts(r) == requests[r].op = "start" /\ job # "running" /\ jobs < MaxJobs

\* The request reaches the server: a start starts a job or is refused, a
\* cancel leaves the job running until it has noticed.
Served(r) ==
  /\ requests[r].at = "sent"
  /\ IF Starts(r) THEN job' = "running" /\ jobs' = jobs + 1
                  ELSE UNCHANGED <<job, jobs>>
  /\ Turns(r, IF requests[r].op \in {"start", "cancel"}
                   /\ ~Starts(r) /\ (requests[r].op = "cancel" => job # "running")
                THEN NoRequest
                ELSE [requests[r] EXCEPT !.at = "served", !.status = job'])
  /\ UNCHANGED <<adminOpen, adminPoll, adminJob>>

\* The job ends, or is found cancelled; reconciliations and other
\* administrators start jobs too.
JobEnds ==
  /\ job = "running" /\ job' = "ended"
  /\ UNCHANGED <<adminOpen, adminPoll, adminJob, jobs, requests>>

JobStarts ==
  /\ job # "running" /\ jobs < MaxJobs
  /\ job' = "running" /\ jobs' = jobs + 1
  /\ UNCHANGED <<adminOpen, adminPoll, adminJob, requests>>

-----------------------------------------------------------------------------
(* Answers and the timer *)

\* Mutant: the panel stops asking when it has seen a job run.
AsksOnce == adminPoll /\ adminJob # "running"

\* The interval is set: pollAdminJob runs every 1500 ms.
Asks == adminPoll

\* The interval fires.
PollTick ==
  /\ Asks /\ Send("poll")
  /\ UNCHANGED <<adminOpen, adminPoll, adminJob, job, jobs>>

\* An answer.  A poll that finds no running job asks for the statistics; what
\* starts or cancels a job sets the interval anew, whether or not the panel is
\* still open.
Answers(r) ==
  LET q == requests[r] IN
  /\ q.at = "served"
  /\ adminJob' = IF q.op = "edit" THEN adminJob ELSE q.status
  /\ adminPoll' = (adminPoll \/ q.op \in {"start", "cancel"})
  /\ Turns(r, CASE q.op = "open" -> [q EXCEPT !.at = "rest"]
                [] q.op = "edit" \/ (q.op = "poll" /\ q.status # "running")
                     -> Sent("stats")
                [] OTHER -> NoRequest)
  /\ UNCHANGED <<adminOpen, job, jobs>>

\* The rest of openAdmin: users and keys have been answered too.
OpenEnds(r) ==
  /\ requests[r].at = "rest"
  /\ adminPoll' = TRUE
  /\ Turns(r, NoRequest)
  /\ UNCHANGED <<adminOpen, adminJob, job, jobs>>

\* An error, or the answer is lost: only openAdmin goes on.
Fails(r) ==
  /\ requests[r].at \in {"sent", "served"}
  /\ Turns(r, IF requests[r].op = "open" THEN [requests[r] EXCEPT !.at = "rest"]
                                         ELSE NoRequest)
  /\ UNCHANGED <<adminOpen, adminPoll, adminJob, job, jobs>>

AdminAnswers ==
  PollTick \/ \E r \in Requests : Served(r) \/ Answers(r) \/ OpenEnds(r) \/ Fails(r)

AdminNext == OpenAdmin \/ AdminPanel \/ AdminAnswers \/ JobEnds \/ JobStarts

\* The interval fires again and again, and what goes out again and again is
\* served and answered at last.
AdminFairness ==
  /\ WF_adminVars(PollTick)
  /\ \A r \in Requests :
       /\ SF_adminVars(Served(r)) /\ SF_adminVars(Answers(r))
       /\ WF_adminVars(OpenEnds(r))

AdminSpec == AdminInit /\ [][AdminNext]_adminVars /\ AdminFairness

-----------------------------------------------------------------------------
(* Properties *)

\* While the panel polls, the end of a job is shown at last, although answers
\* overtake each other and are lost.
JobEndShown ==
  adminPoll /\ job # "running"
    ~> adminJob # "running" \/ ~adminPoll \/ job = "running"
=============================================================================
