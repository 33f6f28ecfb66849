------------------------------ MODULE Feedback ------------------------------
(***************************************************************************)
(* The feedback requests of one ticket and one satisfaction form, composed *)
(* with the ticket's workflow: resolving the ticket generates a request,   *)
(* the customer opens and answers it, and the job that runs every ten      *)
(* minutes expires and reminds.  Every await is a step of its own, and     *)
(* all of them overwrite the request row by id.                            *)
(***************************************************************************)
EXTENDS Tickets, FiniteSets

CONSTANTS
  Requests,        \* feedback requests the ticket may get
  NoRequest,
  Workers,         \* customers' requests and jobs in flight together
  AllowMultiple,   \* FeedbackForm.allowMultipleResponses
  HasAttachments,  \* whether FeedbackResponse has the relation that submit
                   \* writes; schema.prisma has no such relation
  MaxResponses     \* bound: responses told apart

ASSUME FeedbackAssumption ==
  /\ NoRequest \notin Requests
  /\ IsFiniteSet(Workers)
  /\ AllowMultiple \in BOOLEAN
  /\ HasAttachments \in BOOLEAN
  /\ MaxResponses \in Nat \ {0}

VARIABLES
  formActive,   \* whether the form is ACTIVE
  request,      \* the FeedbackRequest rows
  overdue,      \* requests whose expiresAt has passed
  reminded,     \* requests whose reminderSentAt is set
  responses,    \* FeedbackResponse rows by request, NoRequest if direct
  told,         \* requests whose expiry the customer was told of
  prompted,     \* requests the customer was reminded of
  worker        \* the step each worker has still to do

feedbackVars ==
  <<formActive, request, overdue, reminded, responses, told, prompted, worker>>

vars == <<ticketVars, feedbackVars>>
-----------------------------------------------------------------------------
Live == {"PENDING", "OPENED"}

RequestStatus == {"NONE", "COMPLETED", "EXPIRED"} \union Live

WorkerJob == [pc  : {"idle", "open", "submit", "complete", "expire",
                     "notifyExpired", "remind", "markReminded"},
              req : Requests \union {NoRequest}]

Idle == [pc |-> "idle", req |-> NoRequest]

TypeOK ==
  /\ TicketTypeOK
  /\ formActive \in BOOLEAN
  /\ request \in [Requests -> RequestStatus]
  /\ overdue \subseteq Requests
  /\ reminded \subseteq Requests
  /\ responses \in [Requests \union {NoRequest} -> Nat]
  /\ told \subseteq Requests
  /\ prompted \subseteq Requests
  /\ worker \in [Workers -> WorkerJob]

Init ==
  /\ TicketInit
  /\ formActive = TRUE
  /\ request = [q \in Requests |-> "NONE"]
  /\ overdue = {}
  /\ reminded = {}
  /\ responses = [q \in Requests \union {NoRequest} |-> 0]
  /\ told = {}
  /\ prompted = {}
  /\ worker = [w \in Workers |-> Idle]

Responded == \E q \in Requests \union {NoRequest} : responses[q] > 0

\* Worker w goes on to pc with request q.
Goto(w, pc, q) == worker' = [worker EXCEPT ![w] = [pc |-> pc, req |-> q]]

Begins(w, pc, q) ==
  /\ worker[w].pc = "idle"
  /\ Goto(w, pc, q)
  /\ UNCHANGED <<ticketVars, formActive, request, overdue, reminded, responses,
                 told, prompted>>

\* Worker w is at pc and goes on to next with the same request.
Moves(w, pc, next) ==
  /\ worker[w].pc = pc
  /\ IF next = "idle" THEN worker' = [worker EXCEPT ![w] = Idle]
     ELSE Goto(w, next, worker[w].req)
  /\ UNCHANGED <<ticketVars, formActive, overdue>>
-----------------------------------------------------------------------------
(* generateForTicket, in the request of the staff member who resolved. *)

\* No second request while one is live, nor after one was completed when the
\* form takes a single response.
Surveyable ==
  /\ formActive
  /\ \A q \in Requests : request[q] \notin Live
  /\ AllowMultiple \/ \A q \in Requests : request[q] # "COMPLETED"

CheckSurvey(s) ==
  /\ Continues(s, "survey", IF Surveyable THEN "createSurvey" ELSE "idle")
  /\ UNCHANGED <<ticket, resolvedOnce, failures, feedbackVars>>

CreateSurvey(s, q) ==
  /\ Continues(s, "createSurvey", "idle")
  /\ request[q] = "NONE"
  /\ request' = [request EXCEPT ![q] = "PENDING"]
  /\ UNCHANGED <<ticket, resolvedOnce, failures, formActive, overdue, reminded,
                 responses, told, prompted, worker>>
-----------------------------------------------------------------------------
(* The customer: findForSubmission, submit. *)

OpenRequest(w, q) ==
  /\ request[q] \in Live
  /\ q \notin overdue
  /\ Resolvable
  /\ Begins(w, IF request[q] = "PENDING" THEN "open" ELSE "submit", q)

\* A live request that turns out to be overdue is expired on the spot.
OpenOverdue(w, q) ==
  /\ request[q] \in Live
  /\ q \in overdue
  /\ Begins(w, "expire", q)

\* Mutant of OpenDirect: the ticket need not have been resolved.
OpenDirectUnresolved(w) ==
  /\ formActive
  /\ AllowMultiple \/ ~Responded
  /\ Begins(w, "submit", NoRequest)

\* A submission that names form and ticket instead of a request.
OpenDirect(w) ==
  /\ formActive
  /\ Resolvable
  /\ AllowMultiple \/ ~Responded
  /\ Begins(w, "submit", NoRequest)

\* Answers that do not validate are refused after the request was opened.
MarkOpened(w) ==
  /\ Moves(w, "open", "submit") \/ Moves(w, "open", "idle")
  /\ request' = [request EXCEPT ![worker[w].req] = "OPENED"]
  /\ UNCHANGED <<reminded, responses, told, prompted>>

\* Valid answers, their files uploaded.  Prisma refuses a create that names a
\* relation which the schema does not have.
CreateResponse(w) ==
  LET q == worker[w].req
  IN /\ Moves(w, "submit", IF HasAttachments /\ q # NoRequest THEN "complete"
                           ELSE "idle")
     /\ responses' = IF HasAttachments /\ responses[q] < MaxResponses
                     THEN [responses EXCEPT ![q] = @ + 1]
                     ELSE responses
     /\ UNCHANGED <<request, reminded, told, prompted>>

MarkCompleted(w) ==
  /\ Moves(w, "complete", "idle")
  /\ request' = [request EXCEPT ![worker[w].req] = "COMPLETED"]
  /\ UNCHANGED <<reminded, responses, told, prompted>>
-----------------------------------------------------------------------------
(* The job, and listPending, which runs the same sweeps for one customer. *)

FindOverdue(w, q) ==
  /\ request[q] \in Live
  /\ q \in overdue
  /\ Begins(w, "expire", q)

\* Mutants of MarkExpired: the row is left as it is; nobody is told.
MarkExpiredNot(w) ==
  /\ Moves(w, "expire", "notifyExpired")
  /\ UNCHANGED <<request, reminded, responses, told, prompted>>

MarkExpiredSilently(w) ==
  /\ Moves(w, "expire", "idle")
  /\ request' = [request EXCEPT ![worker[w].req] = "EXPIRED"]
  /\ UNCHANGED <<reminded, responses, told, prompted>>

MarkExpired(w) ==
  /\ Moves(w, "expire", "notifyExpired")
  /\ request' = [request EXCEPT ![worker[w].req] = "EXPIRED"]
  /\ UNCHANGED <<reminded, responses, told, prompted>>

NotifyExpired(w) ==
  /\ Moves(w, "notifyExpired", "idle")
  /\ told' = told \union {worker[w].req}
  /\ UNCHANGED <<request, reminded, responses, prompted>>

FindUnopened(w, q) ==
  /\ request[q] = "PENDING"
  /\ q \notin overdue \union reminded
  /\ Begins(w, "remind", q)

Remind(w) ==
  /\ Moves(w, "remind", "markReminded")
  /\ prompted' = prompted \union {worker[w].req}
  /\ UNCHANGED <<request, reminded, responses, told>>

\* Mutant of MarkReminded: the reminder is recorded as a status.
MarkRemindedAsStatus(w) ==
  /\ Moves(w, "markReminded", "idle")
  /\ request' = [request EXCEPT ![worker[w].req] = "REMINDED"]
  /\ UNCHANGED <<reminded, responses, told, prompted>>

MarkReminded(w) ==
  /\ Moves(w, "markReminded", "idle")
  /\ reminded' = reminded \union {worker[w].req}
  /\ UNCHANGED <<request, responses, told, prompted>>
-----------------------------------------------------------------------------
(* The calendar, the form's owner, and failures. *)

TimePasses(q) ==
  /\ request[q] \in Live
  /\ q \notin overdue
  /\ overdue' = overdue \union {q}
  /\ UNCHANGED <<ticketVars, formActive, request, reminded, responses, told,
                 prompted, worker>>

SetFormStatus ==
  /\ formActive' = ~formActive
  /\ UNCHANGED <<ticketVars, request, overdue, reminded, responses, told,
                 prompted, worker>>

WorkerAbort(w) ==
  /\ worker[w].pc # "idle"
  /\ failures < MaxFailures
  /\ failures' = failures + 1
  /\ worker' = [worker EXCEPT ![w] = Idle]
  /\ UNCHANGED <<ticket, resolvedOnce, staff, formActive, request, overdue,
                 reminded, responses, told, prompted>>
-----------------------------------------------------------------------------
Work(w) ==
  \/ MarkOpened(w) \/ CreateResponse(w) \/ MarkCompleted(w)
  \/ MarkExpired(w) \/ NotifyExpired(w) \/ Remind(w) \/ MarkReminded(w)

Next ==
  \/ TicketNext /\ UNCHANGED feedbackVars
  \/ \E s \in Staff : CheckSurvey(s) \/ \E q \in Requests : CreateSurvey(s, q)
  \/ \E w \in Workers :
       \/ Work(w) \/ WorkerAbort(w) \/ OpenDirect(w)
       \/ \E q \in Requests : \/ OpenRequest(w, q) \/ OpenOverdue(w, q)
                              \/ FindOverdue(w, q) \/ FindUnopened(w, q)
  \/ \E q \in Requests : TimePasses(q)
  \/ SetFormStatus

Spec == Init /\ [][Next]_vars

\* Requests and jobs finish what they began, and the job keeps sweeping.
Fairness ==
  /\ \A w \in Workers : WF_vars(Work(w))
  /\ \A q \in Requests : SF_vars(\E w \in Workers : FindOverdue(w, q))

FairSpec == Spec /\ Fairness
-----------------------------------------------------------------------------
(* Properties. *)

\* Nobody is asked for feedback, and no feedback is accepted, before the
\* ticket was resolved or closed.
FeedbackOnlyAfterResolution ==
  Responded \/ (\E q \in Requests : request[q] # "NONE") => resolvedOnce

\* A COMPLETED request has its response, whichever of several submissions
\* completed it and whatever died on the way.
CompletedHasResponse ==
  \A q \in Requests : request[q] = "COMPLETED" => responses[q] > 0

\* Feedback is earned by a resolution and is not lost: nothing is asked or
\* accepted before one, what counts as answered was answered, and the dates
\* that it goes by fit the ticket's status (generateForTicket, submit,
\* changeStatus, reopenTicket).
FeedbackIsEarned ==
  FeedbackOnlyAfterResolution /\ CompletedHasResponse /\ DatesFitStatus

\* An EXPIRED request was announced to the customer, unless the request that
\* expired it is still to do so or died.
ExpiryIsTold ==
  \A q \in Requests :
    request[q] = "EXPIRED"
      => \/ q \in told
         \/ \E w \in Workers : worker[w] = [pc |-> "notifyExpired", req |-> q]
         \/ failures > 0

\* A reminder that was sent is noted, so that no later job repeats it, unless
\* the job that sent it is still to do so or died.
ReminderIsNoted ==
  prompted \subseteq
    reminded \union {q \in Requests :
      \/ \E w \in Workers : worker[w] = [pc |-> "markReminded", req |-> q]
      \/ failures > 0}

\* What the job does and what it notes go together: an expiry is told, a
\* reminder is noted (markExpiredAndNotify, sendReminders).
JobsAreNoted == ExpiryIsTold /\ ReminderIsNoted

\* The sweep catches every overdue request, although submissions in flight
\* overwrite the status it wrote.
OverdueIsExpired ==
  \A q \in Requests :
    request[q] \in Live /\ q \in overdue ~> request[q] \notin Live
-----------------------------------------------------------------------------
(* Statements of the repository that the code does not keep. *)

\* docs/AUDIT.md:21: the schema has the data shapes that the application
\* uses.  So a submission with valid answers, unless its instance stops, is
\* stored as a response to its request.
ValidFeedbackIsStored ==
  [][\A w \in Workers :
       worker[w].pc = "submit" /\ worker'[w].pc # "submit" /\ failures' = failures
         => responses'[worker[w].req] > 0]_vars
=============================================================================
