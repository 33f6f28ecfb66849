--------------------------- MODULE FeedbackProofs ---------------------------
(***************************************************************************)
(* Proofs about Feedback and the ticket it is about, and about Forms, for  *)
(* any requests, forms and questions and any number of staff, customers    *)
(* and jobs in flight.                                                     *)
(***************************************************************************)
EXTENDS Feedback, Forms, TLAPS

\* The ticket's own part: its dates fit its status, and both a date and a
\* survey to come are the work of a resolution.
TicketInv ==
  /\ TicketTypeOK
  /\ DatesFitStatus
  /\ Resolvable => resolvedOnce
  /\ \A s \in Staff : staff[s].pc \in {"survey", "createSurvey"} => resolvedOnce

\* What a customer's request or job in flight knows: it is about a request
\* that was created, a submission follows a resolution (it need not name a
\* request), and one that is to be completed has its response.
WorkerKnows(w) ==
  /\ worker[w].pc \notin {"idle", "submit"} => worker[w].req \in Requests
  /\ worker[w].req \in Requests => request[worker[w].req] # "NONE"
  /\ worker[w].pc = "submit" => resolvedOnce
  /\ worker[w].pc = "complete" => responses[worker[w].req] > 0

FeedbackInv ==
  /\ TypeOK
  /\ TicketInv
  /\ \A w \in Workers : WorkerKnows(w)
  /\ FeedbackOnlyAfterResolution
  /\ CompletedHasResponse
  /\ ExpiryIsTold
  /\ ReminderIsNoted
-----------------------------------------------------------------------------
(* The ticket. *)

\* A staff request moves, and the row stays.
LEMMA StaffStep ==
  ASSUME TicketInv, NEW s \in Staff, NEW job \in StaffJob,
         staff' = [staff EXCEPT ![s] = job],
         job.pc \in {"survey", "createSurvey"} => resolvedOnce,
         UNCHANGED <<ticket, resolvedOnce>>, failures' \in 0 .. MaxFailures
  PROVE  TicketInv'
<1>1. TicketTypeOK'
  BY DEF TicketInv, TicketTypeOK
<1>2. \A d \in Staff : staff'[d].pc \in {"survey", "createSurvey"} => resolvedOnce'
  BY DEF TicketInv, TicketTypeOK
<1>3. DatesFitStatus' /\ (Resolvable => resolvedOnce)'
  BY DEF TicketInv, DatesFitStatus, Resolvable
<1> QED
  BY <1>1, <1>2, <1>3 DEF TicketInv

\* A staff request writes a status, with the dates that go with it.
LEMMA StatusStep ==
  ASSUME TicketInv, NEW s \in Staff, NEW job \in StaffJob, NEW to \in TicketStatus,
         staff' = [staff EXCEPT ![s] = job],
         ticket' = WithStatus(to),
         resolvedOnce' = (resolvedOnce \/ to \in Done),
         job.pc \in {"survey", "createSurvey"} => to \in Done,
         UNCHANGED failures
  PROVE  TicketInv'
<1>0. /\ ticket \in Ticket /\ resolvedOnce \in BOOLEAN
      /\ DatesFitStatus /\ (Resolvable => resolvedOnce)
      /\ failures \in 0 .. MaxFailures /\ staff \in [Staff -> StaffJob]
  BY DEF TicketInv, TicketTypeOK
<1>1. ticket' \in Ticket
  BY <1>0 DEF WithStatus, Ticket
<1>2. /\ ticket'.status = to
      /\ ticket'.resolvedAt <=> (ticket.resolvedAt \/ to = "RESOLVED") /\ to # "REOPENED"
      /\ ticket'.closedAt <=> (ticket.closedAt \/ to = "CLOSED") /\ to # "REOPENED"
  BY <1>0 DEF WithStatus, Ticket
<1>3. resolvedOnce' \in BOOLEAN /\ (resolvedOnce => resolvedOnce')
  BY <1>0
<1>4. staff' \in [Staff -> StaffJob] /\ failures' \in 0 .. MaxFailures
  BY <1>0
<1>5. TicketTypeOK'
  BY <1>1, <1>3, <1>4 DEF TicketTypeOK
<1>6. DatesFitStatus'
  BY <1>2 DEF DatesFitStatus
<1>7. (Resolvable => resolvedOnce)'
  BY <1>0, <1>2 DEF Resolvable, Done
<1>8. \A d \in Staff : staff'[d].pc \in {"survey", "createSurvey"} => resolvedOnce'
  BY <1>0, <1>3 DEF TicketInv
<1> QED
  BY <1>5, <1>6, <1>7, <1>8 DEF TicketInv

\* The workflow keeps the ticket's part of the invariant, and what was once
\* resolved stays so.
LEMMA TicketStep ==
  ASSUME TicketInv, TicketNext
  PROVE  /\ TicketInv'
         /\ resolvedOnce => resolvedOnce'
         /\ failures' \in Nat /\ failures' >= failures
<1> USE TicketsAssumption
<1>0. TicketTypeOK /\ failures \in Nat /\ "OPEN" \in TicketStatus
  BY DEF TicketInv, TicketTypeOK, TicketStatus
<1>1. ASSUME NEW s \in Staff, NEW pc \in {"changeStatus", "close", "reopen", "remove", "restore"},
             NEW to \in TicketStatus, Starts(s, pc, to)
      PROVE  TicketInv' /\ UNCHANGED <<resolvedOnce, failures>>
  <2>1. [pc |-> pc, to |-> to] \in StaffJob
    BY DEF StaffJob
  <2> QED
    BY <1>0, <1>1, <2>1, StaffStep DEF Starts, TicketTypeOK
<1>2. ASSUME NEW s \in Staff, StaffReads(s)
      PROVE  TicketInv' /\ UNCHANGED <<resolvedOnce, failures>>
  <2>1. ASSUME NEW to \in TicketStatus, ChangeStatus(s, to)
        PROVE  TicketInv' /\ UNCHANGED <<resolvedOnce, failures>>
    BY <1>1, <2>1 DEF ChangeStatus
  <2>2. CASE Close(s) \/ Reopen(s)
    BY <1>1, <2>2 DEF Close, Reopen, TicketStatus, Done
  <2>3. CASE Remove(s) \/ Restore(s)
    BY <1>0, <1>1, <2>3 DEF Remove, Restore
  <2> QED
    BY <1>2, <2>1, <2>2, <2>3 DEF StaffReads
<1>3. ASSUME NEW s \in Staff, WriteStatus(s)
      PROVE  /\ TicketInv' /\ UNCHANGED failures
             /\ resolvedOnce => resolvedOnce'
  <2> DEFINE to == staff[s].to
             job == [NoJob EXCEPT !.pc = IF to \in Done THEN "survey" ELSE "idle"]
  <2>1. to \in TicketStatus /\ staff' = [staff EXCEPT ![s] = job]
    BY <1>0, <1>3 DEF WriteStatus, Continues, TicketTypeOK, StaffJob
  <2>2. job \in StaffJob
    BY <1>0 DEF NoJob, StaffJob
  <2>3. job.pc \in {"survey", "createSurvey"} => to \in Done
    BY DEF NoJob
  <2> HIDE DEF job
  <2> QED
    BY <1>3, <2>1, <2>2, <2>3, StatusStep DEF WriteStatus
<1>4. ASSUME NEW s \in Staff, WriteClose(s)
      PROVE  /\ TicketInv' /\ UNCHANGED failures
             /\ resolvedOnce => resolvedOnce'
  <2>1. [NoJob EXCEPT !.pc = "survey"] \in StaffJob /\ "CLOSED" \in TicketStatus
    BY <1>0 DEF NoJob, StaffJob, TicketStatus, Done
  <2> QED
    BY <1>4, <2>1, StatusStep DEF WriteClose, Continues, Done
<1>5. ASSUME NEW s \in Staff, WriteReopen(s)
      PROVE  TicketInv' /\ UNCHANGED <<resolvedOnce, failures>>
  <2>1. /\ [NoJob EXCEPT !.pc = "idle"] \in StaffJob
        /\ [NoJob EXCEPT !.pc = "idle"].pc = "idle"
        /\ "REOPENED" \in TicketStatus /\ "REOPENED" \notin Done
    BY <1>0 DEF NoJob, StaffJob, TicketStatus, Done
  <2>2. resolvedOnce' = (resolvedOnce \/ "REOPENED" \in Done)
    BY <1>0, <1>5, <2>1 DEF WriteReopen, TicketTypeOK
  <2> QED
    BY <1>5, <2>1, <2>2, StatusStep DEF WriteReopen, Continues
<1>6. ASSUME NEW s \in Staff, WriteRemove(s) \/ WriteRestore(s)
      PROVE  TicketInv' /\ UNCHANGED <<resolvedOnce, failures>>
  <2>1. /\ staff' = [staff EXCEPT ![s] = NoJob]
        /\ UNCHANGED <<resolvedOnce, failures>>
        /\ \E deleted \in BOOLEAN : ticket' = [ticket EXCEPT !.deleted = deleted]
    BY <1>6 DEF WriteRemove, WriteRestore, Continues, NoJob
  <2>2. /\ ticket' \in Ticket /\ ticket'.status = ticket.status
        /\ ticket'.resolvedAt = ticket.resolvedAt
        /\ ticket'.closedAt = ticket.closedAt
    BY <1>0, <2>1 DEF TicketTypeOK, Ticket
  <2>3. NoJob \in StaffJob /\ NoJob.pc = "idle"
    BY <1>0 DEF NoJob, StaffJob
  <2>4. /\ staff' \in [Staff -> StaffJob]
        /\ \A d \in Staff : staff'[d] \in {staff[d], NoJob}
    BY <1>0, <2>1, <2>3 DEF TicketTypeOK
  <2>5. TicketTypeOK'
    BY <1>0, <2>1, <2>2, <2>4 DEF TicketTypeOK
  <2>6. \A d \in Staff : staff'[d].pc \in {"survey", "createSurvey"} => resolvedOnce'
    BY <2>1, <2>3, <2>4 DEF TicketInv
  <2>7. DatesFitStatus' /\ (Resolvable => resolvedOnce)'
    BY <2>1, <2>2 DEF TicketInv, DatesFitStatus, Resolvable
  <2> QED
    BY <2>1, <2>5, <2>6, <2>7 DEF TicketInv
<1>7. ASSUME NEW s \in Staff, StaffAbort(s)
      PROVE  /\ TicketInv' /\ UNCHANGED resolvedOnce
             /\ failures' = failures + 1
  <2>1. NoJob \in StaffJob /\ NoJob.pc = "idle"
    BY <1>0 DEF NoJob, StaffJob
  <2>2. failures' \in 0 .. MaxFailures
    BY <1>0, <1>7 DEF StaffAbort
  <2> QED
    BY <1>7, <2>1, <2>2, StaffStep DEF StaffAbort
<1> QED
  BY <1>0, <1>2, <1>3, <1>4, <1>5, <1>6, <1>7 DEF TicketNext, StaffWrites
-----------------------------------------------------------------------------
(* The requests for feedback. *)

\* Resolutions, requests that were created and responses do not go away.
Grows ==
  /\ resolvedOnce => resolvedOnce'
  /\ \A q \in Requests : request[q] # "NONE" => request'[q] # "NONE"
  /\ \A q \in Requests \union {NoRequest} : responses[q] > 0 => responses'[q] > 0

LEMMA KnowsKept ==
  ASSUME NEW w \in Workers, worker[w] \in WorkerJob, WorkerKnows(w), Grows,
         worker'[w] = worker[w]
  PROVE  WorkerKnows(w)'
BY DEF WorkerKnows, Grows, WorkerJob

\* Whoever works on a request works after a resolution.
LEMMA WorkIsEarned ==
  ASSUME FeedbackInv, NEW w \in Workers, worker[w].pc # "idle"
  PROVE  resolvedOnce
<1>1. WorkerKnows(w) /\ FeedbackOnlyAfterResolution
  BY DEF FeedbackInv
<1>2. CASE worker[w].pc = "submit"
  BY <1>1, <1>2 DEF WorkerKnows
<1>3. CASE worker[w].pc # "submit"
  BY <1>1, <1>3 DEF WorkerKnows, FeedbackOnlyAfterResolution
<1> QED
  BY <1>2, <1>3

\* What a worker's step owes the invariant: an expiry it writes it goes on to
\* tell, one that it was to tell is told, and likewise for reminders.
LEMMA WorkStep ==
  ASSUME FeedbackInv, NEW w \in Workers, NEW job \in WorkerJob,
         worker' = [worker EXCEPT ![w] = job], WorkerKnows(w)',
         UNCHANGED <<ticket, resolvedOnce, staff, formActive, overdue>>,
         failures' \in 0 .. MaxFailures, failures > 0 => failures' > 0,
         request' \in [Requests -> RequestStatus],
         responses' \in [Requests \union {NoRequest} -> Nat],
         reminded \subseteq reminded', reminded' \subseteq Requests,
         told \subseteq told', told' \subseteq Requests,
         prompted' \subseteq Requests,
         Grows,
         \/ request' = request /\ responses' = responses
         \/ resolvedOnce,
         \A q \in Requests : request'[q] = "COMPLETED"
           => request[q] = "COMPLETED" \/ responses[q] > 0,
         \A q \in Requests : request'[q] = "EXPIRED"
           => request[q] = "EXPIRED" \/ job = [pc |-> "notifyExpired", req |-> q],
         worker[w].pc = "notifyExpired"
           => worker[w].req \in told' \/ failures' > 0,
         \A q \in prompted' \ prompted : job = [pc |-> "markReminded", req |-> q],
         worker[w].pc = "markReminded"
           => worker[w].req \in reminded' \/ failures' > 0
  PROVE  FeedbackInv'
<1>0. TypeOK /\ TicketInv /\ worker \in [Workers -> WorkerJob]
  BY DEF FeedbackInv, TypeOK
<1>1. /\ worker'[w] = job
      /\ \A d \in Workers \ {w} : worker'[d] = worker[d]
      /\ worker' \in [Workers -> WorkerJob]
  BY <1>0
<1>2. TicketInv'
  BY <1>0 DEF TicketInv, TicketTypeOK, DatesFitStatus, Resolvable
<1>3. TypeOK'
  BY <1>0, <1>1, <1>2 DEF TypeOK, TicketInv
<1>4. \A d \in Workers : WorkerKnows(d)'
  <2>1. \A d \in Workers : WorkerKnows(d) /\ worker[d] \in WorkerJob
    BY <1>0 DEF FeedbackInv
  <2> QED
    BY <1>1, <2>1, KnowsKept
<1>5. FeedbackOnlyAfterResolution'
  <2>1. CASE request' = request /\ responses' = responses
    BY <2>1 DEF FeedbackInv, FeedbackOnlyAfterResolution, Responded
  <2>2. CASE resolvedOnce
    BY <2>2 DEF FeedbackOnlyAfterResolution
  <2> QED
    BY <2>1, <2>2
<1>6. CompletedHasResponse'
  BY DEF FeedbackInv, CompletedHasResponse, Grows
<1>7. ExpiryIsTold'
  <2> SUFFICES ASSUME NEW q \in Requests, request'[q] = "EXPIRED"
               PROVE  \/ q \in told'
                      \/ \E d \in Workers : worker'[d] = [pc |-> "notifyExpired", req |-> q]
                      \/ failures' > 0
    BY DEF ExpiryIsTold
  <2>1. CASE job = [pc |-> "notifyExpired", req |-> q]
    BY <1>1, <2>1
  <2>2. CASE request[q] = "EXPIRED"
    <3>1. CASE q \in told \/ failures > 0
      BY <3>1
    <3>2. ASSUME NEW d \in Workers, worker[d] = [pc |-> "notifyExpired", req |-> q]
          PROVE  \/ q \in told'
                 \/ \E e \in Workers : worker'[e] = [pc |-> "notifyExpired", req |-> q]
                 \/ failures' > 0
      <4>1. CASE d = w
        BY <3>2, <4>1
      <4>2. CASE d # w
        BY <1>1, <3>2, <4>2
      <4> QED
        BY <4>1, <4>2
    <3> QED
      BY <2>2, <3>1, <3>2 DEF FeedbackInv, ExpiryIsTold
  <2> QED
    BY <2>1, <2>2
<1>8. ReminderIsNoted'
  <2> SUFFICES ASSUME NEW q \in prompted'
               PROVE  \/ q \in reminded'
                      \/ \E d \in Workers : worker'[d] = [pc |-> "markReminded", req |-> q]
                      \/ failures' > 0
    BY DEF ReminderIsNoted
  <2>1. CASE job = [pc |-> "markReminded", req |-> q]
    BY <1>1, <2>1
  <2>2. CASE q \in prompted
    <3>1. CASE q \in reminded \/ failures > 0
      BY <3>1
    <3>2. ASSUME NEW d \in Workers, worker[d] = [pc |-> "markReminded", req |-> q]
          PROVE  \/ q \in reminded'
                 \/ \E e \in Workers : worker'[e] = [pc |-> "markReminded", req |-> q]
                 \/ failures' > 0
      <4>1. CASE d = w
        BY <3>2, <4>1
      <4>2. CASE d # w
        BY <1>1, <3>2, <4>2
      <4> QED
        BY <4>1, <4>2
    <3> QED
      BY <2>2, <3>1, <3>2 DEF FeedbackInv, ReminderIsNoted
  <2> QED
    BY <2>1, <2>2
<1> QED
  BY <1>2, <1>3, <1>4, <1>5, <1>6, <1>7, <1>8 DEF FeedbackInv

\* Where a worker goes when it moves on.
LEMMA MoveTarget ==
  ASSUME TypeOK, NEW w \in Workers, NEW pc, NEW next, Moves(w, pc, next),
         next \in {"idle", "submit", "complete", "notifyExpired", "markReminded"}
  PROVE  /\ worker[w].pc = pc /\ worker[w] \in WorkerJob
         /\ UNCHANGED <<ticketVars, formActive, overdue>>
         /\ \E job \in WorkerJob :
              /\ worker' = [worker EXCEPT ![w] = job] /\ worker'[w] = job
              /\ job = IF next = "idle" THEN Idle
                       ELSE [pc |-> next, req |-> worker[w].req]
<1> DEFINE job == IF next = "idle" THEN Idle ELSE [pc |-> next, req |-> worker[w].req]
<1>1. worker[w] \in WorkerJob /\ worker \in [Workers -> WorkerJob]
  BY DEF TypeOK
<1>2. job \in WorkerJob
  BY <1>1 DEF WorkerJob, Idle
<1>3. worker' = [worker EXCEPT ![w] = job]
  BY DEF Moves, Goto
<1> QED
  BY <1>1, <1>2, <1>3 DEF Moves

\* Each step of a customer's request or job keeps the invariant.
LEMMA WorkInductive ==
  ASSUME FeedbackInv, NEW w \in Workers, Work(w)
  PROVE  FeedbackInv'
<1> DEFINE q == worker[w].req
<1> USE FeedbackAssumption
<1>0. /\ TypeOK /\ WorkerKnows(w) /\ worker[w] \in WorkerJob
      /\ failures \in 0 .. MaxFailures
      /\ request \in [Requests -> RequestStatus]
      /\ responses \in [Requests \union {NoRequest} -> Nat]
      /\ reminded \subseteq Requests /\ told \subseteq Requests
      /\ prompted \subseteq Requests
  BY DEF FeedbackInv, TypeOK, TicketTypeOK
<1>1. ASSUME NEW status \in {"OPENED", "COMPLETED", "EXPIRED"}, q \in Requests,
             request' = [request EXCEPT ![q] = status],
             UNCHANGED <<resolvedOnce, responses>>
      PROVE  /\ request' \in [Requests -> RequestStatus]
             /\ request'[q] = status
             /\ \A p \in Requests \ {q} : request'[p] = request[p]
             /\ Grows
  BY <1>0, <1>1 DEF RequestStatus, Live, Grows
<1>2. CASE MarkOpened(w)
  <2>1. PICK next \in {"submit", "idle"} : Moves(w, "open", next)
    BY <1>2 DEF MarkOpened
  <2>2. PICK job \in WorkerJob :
          /\ worker' = [worker EXCEPT ![w] = job] /\ worker'[w] = job
          /\ job = IF next = "idle" THEN Idle ELSE [pc |-> next, req |-> q]
    BY <1>0, <2>1, MoveTarget
  <2>3. worker[w].pc = "open" /\ UNCHANGED <<ticketVars, formActive, overdue>>
    BY <1>0, <2>1, MoveTarget
  <2>4. q \in Requests /\ resolvedOnce
    BY <1>0, <2>3, WorkIsEarned DEF WorkerKnows
  <2>5. /\ request' = [request EXCEPT ![q] = "OPENED"]
        /\ UNCHANGED <<reminded, responses, told, prompted>>
    BY <1>2 DEF MarkOpened
  <2>6. /\ request' \in [Requests -> RequestStatus]
        /\ request'[q] = "OPENED"
        /\ \A p \in Requests \ {q} : request'[p] = request[p]
        /\ Grows
    BY <1>1, <2>3, <2>4, <2>5 DEF ticketVars
  <2>7. WorkerKnows(w)'
    BY <2>2, <2>3, <2>4, <2>6 DEF WorkerKnows, Idle, ticketVars
  <2> QED
    BY <1>0, <2>2, <2>3, <2>4, <2>5, <2>6, <2>7, WorkStep DEF ticketVars
<1>3. CASE CreateResponse(w)
  <2>1. PICK next \in {"complete", "idle"} :
          /\ Moves(w, "submit", next)
          /\ next = "complete" => HasAttachments /\ q # NoRequest
    BY <1>3 DEF CreateResponse
  <2>2. PICK job \in WorkerJob :
          /\ worker' = [worker EXCEPT ![w] = job] /\ worker'[w] = job
          /\ job = IF next = "idle" THEN Idle ELSE [pc |-> next, req |-> q]
    BY <1>0, <2>1, MoveTarget
  <2>3. worker[w].pc = "submit" /\ UNCHANGED <<ticketVars, formActive, overdue>>
    BY <1>0, <2>1, MoveTarget
  <2>4. q \in Requests \union {NoRequest} /\ resolvedOnce
    BY <1>0, <2>3, WorkIsEarned DEF WorkerJob
  <2>5. /\ responses' = IF HasAttachments /\ responses[q] < MaxResponses
                        THEN [responses EXCEPT ![q] = @ + 1] ELSE responses
        /\ UNCHANGED <<request, reminded, told, prompted>>
    BY <1>3 DEF CreateResponse
  <2>6. /\ responses' \in [Requests \union {NoRequest} -> Nat]
        /\ \A p \in Requests \union {NoRequest} : responses'[p] >= responses[p]
        /\ HasAttachments => responses'[q] > 0
    BY <1>0, <2>4, <2>5
  <2>7. Grows
    BY <1>0, <2>3, <2>5, <2>6 DEF Grows, ticketVars
  <2>8. WorkerKnows(w)'
    BY <1>0, <2>1, <2>2, <2>3, <2>4, <2>5, <2>6 DEF WorkerKnows, Idle, ticketVars
  <2> QED
    BY <1>0, <2>2, <2>3, <2>4, <2>5, <2>6, <2>7, <2>8, WorkStep DEF ticketVars
<1>4. CASE MarkCompleted(w)
  <2>1. Moves(w, "complete", "idle")
    BY <1>4 DEF MarkCompleted
  <2>2. /\ Idle \in WorkerJob
        /\ worker' = [worker EXCEPT ![w] = Idle] /\ worker'[w] = Idle
        /\ worker[w].pc = "complete" /\ UNCHANGED <<ticketVars, formActive, overdue>>
    BY <1>0, <2>1, MoveTarget
  <2>3. q \in Requests /\ resolvedOnce /\ responses[q] > 0
    BY <1>0, <2>2, WorkIsEarned DEF WorkerKnows
  <2>4. /\ request' = [request EXCEPT ![q] = "COMPLETED"]
        /\ UNCHANGED <<reminded, responses, told, prompted>>
    BY <1>4 DEF MarkCompleted
  <2>5. /\ request' \in [Requests -> RequestStatus]
        /\ request'[q] = "COMPLETED"
        /\ \A p \in Requests \ {q} : request'[p] = request[p]
        /\ Grows
    BY <1>1, <2>2, <2>3, <2>4 DEF ticketVars
  <2>6. WorkerKnows(w)'
    BY <2>2 DEF WorkerKnows, Idle
  <2> QED
    BY <1>0, <2>2, <2>3, <2>4, <2>5, <2>6, WorkStep DEF ticketVars
<1>5. CASE MarkExpired(w)
  <2>1. Moves(w, "expire", "notifyExpired")
    BY <1>5 DEF MarkExpired
  <2>2. PICK job \in WorkerJob :
          /\ worker' = [worker EXCEPT ![w] = job] /\ worker'[w] = job
          /\ job = [pc |-> "notifyExpired", req |-> q]
    BY <1>0, <2>1, MoveTarget
  <2>3. worker[w].pc = "expire" /\ UNCHANGED <<ticketVars, formActive, overdue>>
    BY <1>0, <2>1, MoveTarget
  <2>4. q \in Requests /\ resolvedOnce
    BY <1>0, <2>3, WorkIsEarned DEF WorkerKnows
  <2>5. /\ request' = [request EXCEPT ![q] = "EXPIRED"]
        /\ UNCHANGED <<reminded, responses, told, prompted>>
    BY <1>5 DEF MarkExpired
  <2>6. /\ request' \in [Requests -> RequestStatus]
        /\ request'[q] = "EXPIRED"
        /\ \A p \in Requests \ {q} : request'[p] = request[p]
        /\ Grows
    BY <1>1, <2>3, <2>4, <2>5 DEF ticketVars
  <2>7. WorkerKnows(w)'
    BY <2>2, <2>4, <2>6 DEF WorkerKnows
  <2> QED
    BY <1>0, <2>2, <2>3, <2>4, <2>5, <2>6, <2>7, WorkStep DEF ticketVars
<1>6. CASE NotifyExpired(w)
  <2>1. Moves(w, "notifyExpired", "idle")
    BY <1>6 DEF NotifyExpired
  <2>2. /\ Idle \in WorkerJob
        /\ worker' = [worker EXCEPT ![w] = Idle] /\ worker'[w] = Idle
        /\ worker[w].pc = "notifyExpired" /\ UNCHANGED <<ticketVars, formActive, overdue>>
    BY <1>0, <2>1, MoveTarget
  <2>3. q \in Requests
    BY <1>0, <2>2 DEF WorkerKnows
  <2>4. told' = told \union {q} /\ UNCHANGED <<request, reminded, responses, prompted>>
    BY <1>6 DEF NotifyExpired
  <2>5. Grows /\ WorkerKnows(w)'
    BY <2>2, <2>4 DEF Grows, WorkerKnows, Idle, ticketVars
  <2> QED
    BY <1>0, <2>2, <2>3, <2>4, <2>5, WorkStep DEF ticketVars
<1>7. CASE Remind(w)
  <2>1. Moves(w, "remind", "markReminded")
    BY <1>7 DEF Remind
  <2>2. PICK job \in WorkerJob :
          /\ worker' = [worker EXCEPT ![w] = job] /\ worker'[w] = job
          /\ job = [pc |-> "markReminded", req |-> q]
    BY <1>0, <2>1, MoveTarget
  <2>3. worker[w].pc = "remind" /\ UNCHANGED <<ticketVars, formActive, overdue>>
    BY <1>0, <2>1, MoveTarget
  <2>4. q \in Requests /\ request[q] # "NONE"
    BY <1>0, <2>3 DEF WorkerKnows
  <2>5. prompted' = prompted \union {q} /\ UNCHANGED <<request, reminded, responses, told>>
    BY <1>7 DEF Remind
  <2>6. Grows /\ WorkerKnows(w)'
    BY <2>2, <2>3, <2>4, <2>5 DEF Grows, WorkerKnows, ticketVars
  <2> QED
    BY <1>0, <2>2, <2>3, <2>4, <2>5, <2>6, WorkStep DEF ticketVars
<1>8. CASE MarkReminded(w)
  <2>1. Moves(w, "markReminded", "idle")
    BY <1>8 DEF MarkReminded
  <2>2. /\ Idle \in WorkerJob
        /\ worker' = [worker EXCEPT ![w] = Idle] /\ worker'[w] = Idle
        /\ worker[w].pc = "markReminded" /\ UNCHANGED <<ticketVars, formActive, overdue>>
    BY <1>0, <2>1, MoveTarget
  <2>3. q \in Requests
    BY <1>0, <2>2 DEF WorkerKnows
  <2>4. reminded' = reminded \union {q} /\ UNCHANGED <<request, responses, told, prompted>>
    BY <1>8 DEF MarkReminded
  <2>5. Grows /\ WorkerKnows(w)'
    BY <2>2, <2>4 DEF Grows, WorkerKnows, Idle, ticketVars
  <2> QED
    BY <1>0, <2>2, <2>3, <2>4, <2>5, WorkStep DEF ticketVars
<1> QED
  BY <1>2, <1>3, <1>4, <1>5, <1>6, <1>7, <1>8 DEF Work

\* A worker starts on something.
LEMMA BeginStep ==
  ASSUME FeedbackInv, NEW w \in Workers,
         NEW pc \in {"open", "submit", "expire", "remind"},
         NEW q \in Requests \union {NoRequest}, Begins(w, pc, q),
         pc # "submit" => q \in Requests,
         q \in Requests => request[q] # "NONE",
         pc = "submit" => resolvedOnce
  PROVE  FeedbackInv'
<1> DEFINE job == [pc |-> pc, req |-> q]
<1>0. /\ worker \in [Workers -> WorkerJob]
      /\ failures \in 0 .. MaxFailures
      /\ request \in [Requests -> RequestStatus]
      /\ responses \in [Requests \union {NoRequest} -> Nat]
      /\ reminded \subseteq Requests /\ told \subseteq Requests
      /\ prompted \subseteq Requests
  BY DEF FeedbackInv, TypeOK, TicketTypeOK
<1>1. job \in WorkerJob
  BY DEF WorkerJob
<1>2. /\ worker' = [worker EXCEPT ![w] = job]
      /\ worker[w].pc = "idle"
      /\ UNCHANGED <<ticketVars, formActive, request, overdue, reminded,
                     responses, told, prompted>>
  BY DEF Begins, Goto
<1>3. WorkerKnows(w)'
  BY <1>0, <1>2 DEF WorkerKnows, ticketVars
<1>4. Grows
  BY <1>2 DEF Grows, ticketVars
<1> QED
  BY <1>0, <1>1, <1>2, <1>3, <1>4, WorkStep DEF ticketVars

\* The staff's side moves; the requests for feedback stay, or one is created.
LEMMA SurveyStep ==
  ASSUME FeedbackInv, TicketInv', resolvedOnce => resolvedOnce',
         failures > 0 => failures' > 0,
         request' \in [Requests -> RequestStatus],
         request' = request \/ resolvedOnce,
         \A q \in Requests : request'[q] # request[q] => request'[q] = "PENDING",
         UNCHANGED <<formActive, overdue, reminded, responses, told, prompted, worker>>
  PROVE  FeedbackInv'
<1>0. TypeOK /\ TypeOK'
  BY DEF FeedbackInv, TypeOK, TicketInv
<1>1. Grows
  BY DEF Grows
<1>2. \A w \in Workers : WorkerKnows(w)'
  <2>1. \A w \in Workers : WorkerKnows(w) /\ worker[w] \in WorkerJob
    BY <1>0 DEF FeedbackInv, TypeOK
  <2> QED
    BY <1>1, <2>1, KnowsKept
<1>3. FeedbackOnlyAfterResolution'
  BY DEF FeedbackInv, FeedbackOnlyAfterResolution, Responded
<1>4. CompletedHasResponse'
  BY DEF FeedbackInv, CompletedHasResponse
<1>5. ExpiryIsTold' /\ ReminderIsNoted'
  BY DEF FeedbackInv, ExpiryIsTold, ReminderIsNoted
<1> QED
  BY <1>0, <1>2, <1>3, <1>4, <1>5 DEF FeedbackInv

\* The invariant is inductive.
LEMMA FeedbackInductive == FeedbackInv /\ [Next]_vars => FeedbackInv'
<1> SUFFICES ASSUME FeedbackInv, [Next]_vars
             PROVE  FeedbackInv'
  OBVIOUS
<1> USE FeedbackAssumption
<1>0. /\ TypeOK /\ TicketInv
      /\ request \in [Requests -> RequestStatus] /\ failures \in 0 .. MaxFailures
      /\ responses \in [Requests \union {NoRequest} -> Nat]
      /\ reminded \subseteq Requests /\ told \subseteq Requests
      /\ prompted \subseteq Requests
  BY DEF FeedbackInv, TypeOK, TicketTypeOK
<1>1. CASE TicketNext /\ UNCHANGED feedbackVars
  <2>1. /\ TicketInv' /\ (resolvedOnce => resolvedOnce')
        /\ failures' \in Nat /\ failures' >= failures
    BY <1>0, <1>1, TicketStep
  <2>2. failures > 0 => failures' > 0
    BY <1>0, <2>1
  <2> QED
    BY <1>0, <1>1, <2>1, <2>2, SurveyStep DEF feedbackVars
<1>2. ASSUME NEW s \in Staff, CheckSurvey(s)
      PROVE  FeedbackInv'
  <2> DEFINE job == [NoJob EXCEPT !.pc = IF Surveyable THEN "createSurvey" ELSE "idle"]
  <2>1. /\ staff[s].pc = "survey" /\ staff' = [staff EXCEPT ![s] = job]
        /\ UNCHANGED <<ticket, resolvedOnce, failures, feedbackVars>>
    BY <1>2 DEF CheckSurvey, Continues
  <2>2. job \in StaffJob /\ resolvedOnce
    BY <1>0, <2>1, TicketsAssumption DEF NoJob, StaffJob, TicketStatus, TicketInv
  <2> HIDE DEF job
  <2>3. TicketInv'
    BY <1>0, <2>1, <2>2, StaffStep
  <2> QED
    BY <1>0, <2>1, <2>3, SurveyStep DEF feedbackVars
<1>3. ASSUME NEW s \in Staff, NEW q \in Requests, CreateSurvey(s, q)
      PROVE  FeedbackInv'
  <2> DEFINE job == [NoJob EXCEPT !.pc = "idle"]
  <2>1. /\ staff[s].pc = "createSurvey" /\ staff' = [staff EXCEPT ![s] = job]
        /\ UNCHANGED <<ticket, resolvedOnce, failures, formActive, overdue, reminded,
                       responses, told, prompted, worker>>
        /\ request' = [request EXCEPT ![q] = "PENDING"]
    BY <1>3 DEF CreateSurvey, Continues
  <2>2. job \in StaffJob /\ resolvedOnce
    BY <1>0, <2>1, TicketsAssumption DEF NoJob, StaffJob, TicketStatus, TicketInv
  <2> HIDE DEF job
  <2>3. TicketInv'
    BY <1>0, <2>1, <2>2, StaffStep
  <2>4. /\ request' \in [Requests -> RequestStatus]
        /\ \A p \in Requests : request'[p] # request[p] => request'[p] = "PENDING"
    BY <1>0, <2>1 DEF RequestStatus, Live
  <2> QED
    BY <1>0, <2>1, <2>2, <2>3, <2>4, SurveyStep
<1>4. ASSUME NEW w \in Workers, WorkerAbort(w)
      PROVE  FeedbackInv'
  <2>1. /\ worker' = [worker EXCEPT ![w] = Idle] /\ Idle \in WorkerJob
        /\ failures < MaxFailures /\ failures' = failures + 1
        /\ UNCHANGED <<ticket, resolvedOnce, staff, formActive, request, overdue,
                       reminded, responses, told, prompted>>
    BY <1>4 DEF WorkerAbort, Idle, WorkerJob
  <2>2. failures' \in 0 .. MaxFailures /\ failures' > 0
    BY <1>0, <2>1, TicketsAssumption
  <2>3. worker'[w] = Idle
    BY <1>0, <2>1 DEF TypeOK
  <2>4. WorkerKnows(w)' /\ Grows
    BY <2>1, <2>3 DEF WorkerKnows, Idle, Grows
  <2> QED
    BY <1>0, <2>1, <2>2, <2>4, WorkStep
<1>5. ASSUME NEW w \in Workers, OpenDirect(w)
      PROVE  FeedbackInv'
  BY <1>0, <1>5, BeginStep DEF OpenDirect, TicketInv
<1>6. ASSUME NEW w \in Workers, NEW q \in Requests,
             \/ OpenRequest(w, q) \/ OpenOverdue(w, q)
             \/ FindOverdue(w, q) \/ FindUnopened(w, q)
      PROVE  FeedbackInv'
  BY <1>0, <1>6, BeginStep
     DEF OpenRequest, OpenOverdue, FindOverdue, FindUnopened, Live, TicketInv
<1>7. ASSUME UNCHANGED <<ticketVars, request, reminded, responses, told, prompted, worker>>,
             formActive' \in BOOLEAN, overdue' \subseteq Requests
      PROVE  FeedbackInv'
  <2>1. TicketInv'
    BY <1>0, <1>7
       DEF ticketVars, TicketInv, TicketTypeOK, DatesFitStatus, Resolvable
  <2>2. TypeOK'
    BY <1>0, <1>7, <2>1 DEF TypeOK, TicketInv
  <2>3. \A w \in Workers : WorkerKnows(w)'
    BY <1>7 DEF ticketVars, FeedbackInv, WorkerKnows
  <2>4. /\ FeedbackOnlyAfterResolution' /\ CompletedHasResponse'
        /\ ExpiryIsTold' /\ ReminderIsNoted'
    BY <1>7 DEF ticketVars, FeedbackInv, FeedbackOnlyAfterResolution, Responded,
                CompletedHasResponse, ExpiryIsTold, ReminderIsNoted
  <2> QED
    BY <2>1, <2>2, <2>3, <2>4 DEF FeedbackInv
<1>8. CASE SetFormStatus \/ UNCHANGED vars
  <2>1. formActive \in BOOLEAN /\ overdue \subseteq Requests
    BY <1>0 DEF TypeOK
  <2> QED
    BY <1>7, <1>8, <2>1 DEF SetFormStatus, vars, feedbackVars
<1>9. ASSUME NEW q \in Requests, TimePasses(q)
      PROVE  FeedbackInv'
  BY <1>0, <1>7, <1>9 DEF TimePasses, TypeOK
<1> QED
  BY <1>1, <1>2, <1>3, <1>4, <1>5, <1>6, <1>8, <1>9, WorkInductive DEF Next

LEMMA FeedbackInitially == Init => FeedbackInv
<1> SUFFICES ASSUME Init
             PROVE  FeedbackInv
  OBVIOUS
<1> USE TicketsAssumption, FeedbackAssumption
<1>1. TicketTypeOK
  <2>1. ticket \in Ticket
    BY DEF Init, TicketInit, Ticket, TicketStatus
  <2>2. NoJob \in StaffJob
    BY DEF TicketStatus, StaffJob, NoJob
  <2>3. staff \in [Staff -> StaffJob] /\ failures \in 0 .. MaxFailures
    BY <2>2 DEF Init, TicketInit
  <2>4. resolvedOnce \in BOOLEAN
    BY DEF Init, TicketInit
  <2> QED
    BY <2>1, <2>3, <2>4 DEF TicketTypeOK
<1>2. TypeOK
  BY <1>1 DEF Init, TypeOK, RequestStatus, WorkerJob, Idle
<1>3. TicketInv
  BY <1>1 DEF Init, TicketInit, TicketInv, DatesFitStatus, Resolvable, Done, NoJob
<1>4. \A w \in Workers : WorkerKnows(w)
  BY DEF Init, WorkerKnows, Idle
<1>5. /\ FeedbackOnlyAfterResolution /\ CompletedHasResponse
      /\ ExpiryIsTold /\ ReminderIsNoted
  BY DEF Init, FeedbackOnlyAfterResolution, Responded, CompletedHasResponse,
         ExpiryIsTold, ReminderIsNoted
<1> QED
  BY <1>2, <1>3, <1>4, <1>5 DEF FeedbackInv

LEMMA FeedbackAlways == Spec => []FeedbackInv
BY FeedbackInitially, FeedbackInductive, PTL DEF Spec

\* Every reachable state of the ticket, its feedback requests and whoever
\* works on them is well typed.
THEOREM FeedbackTypeCorrect == Spec => []TypeOK
<1>1. FeedbackInv => TypeOK
  BY DEF FeedbackInv
<1> QED
  BY <1>1, FeedbackAlways, PTL

\* Nobody is asked for feedback, and none is accepted, before the ticket was
\* resolved; a completed request has its response; and the dates that feedback
\* goes by fit the ticket's status.
THEOREM FeedbackEarned == Spec => []FeedbackIsEarned
<1>1. FeedbackInv => FeedbackIsEarned
  BY DEF FeedbackInv, FeedbackIsEarned, TicketInv
<1> QED
  BY <1>1, FeedbackAlways, PTL

\* An expiry that the job wrote it goes on to tell, and a reminder that it
\* sent it goes on to note, unless it dies in between.
THEOREM JobsNoted == Spec => []JobsAreNoted
<1>1. FeedbackInv => JobsAreNoted
  BY DEF FeedbackInv, JobsAreNoted
<1> QED
  BY <1>1, FeedbackAlways, PTL
-----------------------------------------------------------------------------
(* The feedback forms. *)

FormCall ==
  {Vacant}
  \cup [op : {"store"}, slug : Slugs \cup {NoSlug}]
  \cup [op : {"count", "wipe", "put", "row"}, form : FormIds, slug : Slugs \cup {NoSlug}]
  \cup [op : {"weigh", "archive", "delete"}, form : FormIds]
  \cup [op : {"respond"}, form : FormIds, answers : SUBSET QuestionIds]

\* The rows and the requests, and no question is of two forms.
FormRowsOK ==
  /\ FormTypeOK
  /\ caller \in [Callers -> FormCall]
  /\ given \in [Responses -> [form : FormIds \cup {NoForm}, answers : SUBSET QuestionIds]]
  /\ \A f \in FormIds : Exist(f) =>
       /\ form[f].questions \subseteq retired
       /\ \A g \in FormIds \ {f} :
            Exist(g) => form[f].questions \cap form[g].questions = {}

Answers(d, f) == caller[d].op = "respond" /\ caller[d].form = f

Fits(answers, f) ==
  /\ Exist(f)
  /\ answers \subseteq form[f].questions
  /\ Required \cap form[f].questions \subseteq answers

\* A form that was not counted during a submission: its responses are as they
\* were given and fit it, and so does every submission under way; while its
\* questions or the form itself are about to go there are none of either.
FormAlone(f) ==
  /\ \A r \in Responses : given[r].form = f =>
       response[r] = given[r] /\ Fits(response[r].answers, f)
  /\ \A d \in Callers : Answers(d, f) => Fits(caller[d].answers, f)
  /\ Counted(f) => /\ \A r \in Responses : given[r].form # f
                   /\ \A d \in Callers : ~Answers(d, f)

FormInv ==
  /\ FormRowsOK
  /\ \A f \in FormIds \ raced : FormAlone(f)

\* What is asked of a step for a form it does not touch.
LEMMA FormUntouched ==
  ASSUME NEW f \in FormIds, FormAlone(f),
         Exist(f) => Exist(f)' /\ form'[f].questions = form[f].questions,
         \A r \in Responses : given'[r].form = f =>
           given'[r] = given[r] /\ response'[r] = response[r],
         \A d \in Callers : Answers(d, f)' => caller'[d] = caller[d],
         Counted(f)' => Counted(f)
  PROVE  FormAlone(f)'
BY DEF FormAlone, Answers, Fits, Exist

\* A form without responses and submissions is alone whatever happens to it.
LEMMA FormVacant ==
  ASSUME NEW f \in FormIds,
         \A r \in Responses : given'[r].form # f,
         \A d \in Callers : ~Answers(d, f)'
  PROVE  FormAlone(f)'
BY DEF FormAlone

\* A request that moves on, to a call that is not a submission.
LEMMA CallMoves ==
  ASSUME FormRowsOK, NEW c \in Callers, NEW call \in FormCall,
         caller' = [caller EXCEPT ![c] = call], call.op # "respond"
  PROVE  /\ caller' \in [Callers -> FormCall]
         /\ \A f \in FormIds, d \in Callers :
              Answers(d, f)' => d # c /\ caller'[d] = caller[d] /\ Answers(d, f)
         /\ \A f \in FormIds : Counted(f)' =>
              \/ Counted(f)
              \/ call.op \in {"wipe", "put", "delete"} /\ call.form = f
BY DEF FormRowsOK, Answers, Counted

\* The steps of an update or a removal.
LEMMA StepMoves ==
  ASSUME FormRowsOK, NEW c \in Callers, NEW op, NEW next, Steps(c, op, next),
         \/ op \in {"count", "wipe", "put", "row"}
            /\ next \in {"vacant", "count", "wipe", "put", "row"}
         \/ op \in {"weigh", "archive", "delete"}
            /\ next \in {"vacant", "weigh", "archive", "delete"}
  PROVE  /\ caller[c].form \in FormIds
         /\ \E call \in FormCall :
              /\ caller' = [caller EXCEPT ![c] = call]
              /\ call.op = next
              /\ next # "vacant" => call.form = caller[c].form
<1>1. caller[c] \in FormCall /\ caller[c].op = op
  BY DEF FormRowsOK, Steps
<1>2. caller[c].form \in FormIds
  BY <1>1 DEF FormCall, Vacant
<1>3. CASE next = "vacant"
  <2>1. caller' = [caller EXCEPT ![c] = Vacant]
    BY <1>3 DEF Steps
  <2>2. Vacant \in FormCall /\ Vacant.op = next
    BY <1>3 DEF FormCall, Vacant
  <2> QED
    BY <1>2, <1>3, <2>1, <2>2
<1>4. CASE next # "vacant"
  <2> DEFINE call == [caller[c] EXCEPT !.op = next]
  <2>1. caller' = [caller EXCEPT ![c] = call]
    BY <1>4 DEF Steps
  <2>2. call \in FormCall /\ call.op = next /\ call.form = caller[c].form
    <3>1. CASE op \in {"count", "wipe", "put", "row"}
      <4>1. caller[c] \in [op : {"count", "wipe", "put", "row"}, form : FormIds,
                           slug : Slugs \cup {NoSlug}]
        BY <1>1, <3>1 DEF FormCall, Vacant
      <4> QED
        BY <1>4, <3>1, <4>1 DEF FormCall
    <3>2. CASE op \in {"weigh", "archive", "delete"}
      <4>1. caller[c] \in [op : {"weigh", "archive", "delete"}, form : FormIds]
        BY <1>1, <3>2 DEF FormCall, Vacant
      <4> QED
        BY <1>4, <3>2, <4>1 DEF FormCall
    <3> QED
      BY <3>1, <3>2
  <2> QED
    BY <1>2, <2>1, <2>2
<1> QED
  BY <1>3, <1>4

\* A request begins or moves on and no row changes.
LEMMA FormCallStep ==
  ASSUME FormInv, NEW c \in Callers, NEW call \in FormCall,
         caller' = [caller EXCEPT ![c] = call], call.op # "respond",
         UNCHANGED <<form, response, retired, given>>,
         calls' \in 0 .. MaxCalls, raced \subseteq raced', raced' \subseteq FormIds,
         \A f \in FormIds \ raced' :
           call.op \in {"wipe", "put", "delete"} /\ call.form = f =>
             /\ \A r \in Responses : given[r].form # f
             /\ \A d \in Callers : ~Answers(d, f)
  PROVE  FormInv'
<1>1. FormRowsOK'
  BY CallMoves DEF FormInv, FormRowsOK, FormTypeOK, Exist
<1>2. ASSUME NEW f \in FormIds \ raced'
      PROVE  FormAlone(f)'
  <2>1. FormAlone(f) /\ FormRowsOK
    BY <1>2 DEF FormInv
  <2>2. CASE call.op \in {"wipe", "put", "delete"} /\ call.form = f
    BY <1>2, <2>1, <2>2, CallMoves, FormVacant
  <2>3. CASE ~(call.op \in {"wipe", "put", "delete"} /\ call.form = f)
    BY <1>2, <2>1, <2>3, CallMoves, FormUntouched DEF Exist
  <2> QED
    BY <2>2, <2>3
<1> QED
  BY <1>1, <1>2 DEF FormInv

\* A count that finds no response, and notes the submissions under way, leaves
\* a form that nobody answered or is about to.
LEMMA CountedAlone ==
  ASSUME FormInv, NEW f \in FormIds, Counts(f), f \notin raced', ResponsesTo(f) = {}
  PROVE  /\ \A r \in Responses : given[r].form # f
         /\ \A d \in Callers : ~Answers(d, f)
<1>1. f \notin raced /\ \A d \in Callers : ~Answers(d, f)
  BY DEF Counts, Answers
<1>2. FormAlone(f)
  BY <1>1 DEF FormInv
<1> QED
  BY <1>1, <1>2 DEF FormAlone, ResponsesTo

LEMMA RacedGrows ==
  ASSUME FormInv, NEW f \in FormIds, Counts(f)
  PROVE  raced \subseteq raced' /\ raced' \subseteq FormIds
BY DEF FormInv, FormRowsOK, FormTypeOK, Counts

\* The form that an update or a removal goes on to change or delete.
LEMMA FormRowStep ==
  ASSUME FormInv, NEW f \in FormIds, NEW c \in Callers, NEW call \in FormCall,
         caller' = [caller EXCEPT ![c] = call], call.op # "respond",
         call.op \in {"wipe", "put", "delete"} => Counted(f) /\ call.form = f,
         UNCHANGED <<given, raced, calls>>,
         \A g \in FormIds \ {f} : form'[g] = form[g],
         \A r \in Responses : given[r].form \in FormIds \ (raced \cup {f}) =>
           response'[r] = response[r],
         \/ Counted(f)
         \/ /\ form[f] # NoForm => form'[f] # NoForm /\ form'[f].questions = form[f].questions
            /\ \A r \in Responses : response'[r] = response[r],
         form' \in [FormIds -> FormRow \cup {NoForm}],
         response' \in [Responses -> [form : FormIds \cup {NoForm},
                                      answers : SUBSET QuestionIds]],
         retired \subseteq retired', retired' \subseteq QuestionIds,
         form'[f] # NoForm => form'[f].questions \subseteq
                        (IF form[f] # NoForm THEN form[f].questions ELSE {})
                        \cup (retired' \ retired)
  PROVE  FormInv'
<1>1. FormRowsOK /\ \A g \in FormIds \ raced : FormAlone(g)
  BY DEF FormInv
<1>2. FormTypeOK'
  BY <1>1 DEF FormRowsOK, FormTypeOK
<1>3. caller' \in [Callers -> FormCall]
  BY <1>1, CallMoves
<1>4. \A g \in FormIds : Exist(g)' => form'[g].questions \subseteq
                           (IF Exist(g) THEN form[g].questions ELSE {})
                           \cup (IF g = f THEN retired' \ retired ELSE {})
  BY DEF Exist
<1>5. \A g \in FormIds : Exist(g) =>
        /\ form[g].questions \subseteq retired
        /\ \A h \in FormIds \ {g} :
             Exist(h) => form[g].questions \cap form[h].questions = {}
  BY <1>1 DEF FormRowsOK
<1>6. \A g \in FormIds : Exist(g)' =>
        /\ form'[g].questions \subseteq retired'
        /\ \A h \in FormIds \ {g} :
             Exist(h)' => form'[g].questions \cap form'[h].questions = {}
  <2>1. ASSUME NEW g \in FormIds, Exist(g)'
        PROVE  form'[g].questions \subseteq retired'
    BY <1>4, <1>5, <2>1
  <2>2. ASSUME NEW g \in FormIds, Exist(g)', NEW h \in FormIds \ {g}, Exist(h)'
        PROVE  form'[g].questions \cap form'[h].questions = {}
    BY <1>4, <1>5, <2>2
  <2> QED
    BY <2>1, <2>2
<1>7. FormRowsOK'
  BY <1>1, <1>2, <1>3, <1>6 DEF FormRowsOK
<1>8. ASSUME NEW g \in FormIds \ raced'
      PROVE  FormAlone(g)'
  <2>1. FormAlone(g)
    BY <1>1
  <2>2. CASE g = f /\ Counted(f)
    <3>1. /\ \A r \in Responses : given[r].form # g
          /\ \A d \in Callers : ~Answers(d, g)
      BY <2>1, <2>2 DEF FormAlone
    <3> QED
      BY <1>1, <3>1, CallMoves, FormVacant
  <2>3. CASE ~(g = f /\ Counted(f))
    <3>1. Exist(g) => Exist(g)' /\ form'[g].questions = form[g].questions
      BY <2>3 DEF Exist
    <3>2. \A r \in Responses : given'[r].form = g =>
            given'[r] = given[r] /\ response'[r] = response[r]
      BY <2>3
    <3>3. /\ \A d \in Callers : Answers(d, g)' => caller'[d] = caller[d]
          /\ Counted(g)' => Counted(g)
      BY <1>1, CallMoves DEF Answers, Counted
    <3> QED
      BY <2>1, <3>1, <3>2, <3>3, FormUntouched DEF Exist, Answers, Counted
  <2> QED
    BY <2>2, <2>3
<1> QED
  BY <1>7, <1>8 DEF FormInv

\* A request begins that changes nothing yet.
LEMMA BeginsCall ==
  ASSUME FormInv, NEW c \in Callers, NEW call \in FormCall, Calls(c, call),
         call.op \in {"store", "count", "weigh"},
         UNCHANGED <<form, response, retired, given, raced>>
  PROVE  FormInv'
<1>1. calls' \in 0 .. MaxCalls
  BY FormsAssumption DEF FormInv, FormRowsOK, FormTypeOK, Calls
<1>2. raced \subseteq raced' /\ raced' \subseteq FormIds
  BY DEF FormInv, FormRowsOK, FormTypeOK
<1>3. caller' = [caller EXCEPT ![c] = call]
  BY DEF Calls
<1> QED
  BY <1>1, <1>2, <1>3, FormCallStep

\* A submission begins: it fits the form it read, which is noted if its
\* responses were counted before.
LEMMA SubmitStep ==
  ASSUME FormInv, NEW c \in Callers, NEW f \in FormIds, NEW qs \in SUBSET QuestionIds,
         Calls(c, [op |-> "respond", form |-> f, answers |-> qs]), Fits(qs, f),
         raced' = (IF Counted(f) THEN raced \cup {f} ELSE raced),
         UNCHANGED <<form, response, retired, given>>
  PROVE  FormInv'
<1> DEFINE call == [op |-> "respond", form |-> f, answers |-> qs]
<1>1. FormRowsOK /\ \A g \in FormIds \ raced : FormAlone(g)
  BY DEF FormInv
<1>2. caller' = [caller EXCEPT ![c] = call] /\ calls' \in 0 .. MaxCalls
  BY <1>1, FormsAssumption DEF FormRowsOK, FormTypeOK, Calls
<1>3. call \in FormCall /\ call.op = "respond" /\ call.form = f /\ call.answers = qs
  BY DEF FormCall
<1> HIDE DEF call
<1>4. caller' \in [Callers -> FormCall] /\ caller'[c] = call
      /\ \A d \in Callers \ {c} : caller'[d] = caller[d]
  BY <1>1, <1>2, <1>3 DEF FormRowsOK
<1>5. FormRowsOK'
  BY <1>1, <1>2, <1>4 DEF FormRowsOK, FormTypeOK, Exist
<1>6. ASSUME NEW g \in FormIds \ raced'
      PROVE  FormAlone(g)'
  <2>1. FormAlone(g) /\ (g = f => ~Counted(g))
    BY <1>1
  <2>2. Counted(g)' => Counted(g)
    BY <1>3, <1>4 DEF Counted
  <2>3. \A r \in Responses : given'[r].form = g =>
          response'[r] = given'[r] /\ Fits(response'[r].answers, g)
    BY <2>1 DEF FormAlone, Fits, Exist
  <2>4. \A d \in Callers : caller'[d].op = "respond" /\ caller'[d].form = g =>
          Fits(caller'[d].answers, g)
    BY <1>3, <1>4, <2>1 DEF FormAlone, Fits, Exist, Answers
  <2>5. Counted(g) => g # f /\ /\ \A r \in Responses : given'[r].form # g
                               /\ \A d \in Callers : ~Answers(d, g)'
    BY <1>3, <1>4, <2>1 DEF FormAlone, Answers
  <2> QED
    BY <2>2, <2>3, <2>4, <2>5 DEF FormAlone, Answers, Counted, Fits, Exist
<1> QED
  BY <1>5, <1>6 DEF FormInv

\* A submission is stored.
LEMMA ResponseStep ==
  ASSUME FormInv, NEW c \in Callers, NEW r \in Responses, StoreResponse(c, r)
  PROVE  FormInv'
<1> DEFINE f == caller[c].form
           row == [form |-> f, answers |-> caller[c].answers]
<1>1. FormRowsOK /\ \A g \in FormIds \ raced : FormAlone(g)
  BY DEF FormInv
<1>2. f \in FormIds /\ caller[c].answers \in SUBSET QuestionIds
  <2>1. caller[c] \in FormCall /\ caller[c].op = "respond"
    BY <1>1 DEF FormRowsOK, StoreResponse
  <2> QED
    BY <2>1 DEF FormCall, Vacant
<1>3. /\ caller' = [caller EXCEPT ![c] = Vacant] /\ calls' = calls
      /\ Answers(c, f)
      /\ response' = [response EXCEPT ![r] = row]
      /\ given' = [given EXCEPT ![r] = response'[r]]
      /\ UNCHANGED <<form, retired, raced>>
  BY DEF StoreResponse, Steps, Answers
<1>4. Vacant \in FormCall /\ Vacant.op = "vacant"
  BY DEF FormCall, Vacant
<1>5. /\ response \in [Responses -> [form : FormIds \cup {NoForm},
                                     answers : SUBSET QuestionIds]]
      /\ given \in [Responses -> [form : FormIds \cup {NoForm},
                                  answers : SUBSET QuestionIds]]
  BY <1>1 DEF FormRowsOK, FormTypeOK
<1>6. /\ response' \in [Responses -> [form : FormIds \cup {NoForm},
                                      answers : SUBSET QuestionIds]]
      /\ given' \in [Responses -> [form : FormIds \cup {NoForm},
                                   answers : SUBSET QuestionIds]]
      /\ response'[r] = row /\ given'[r] = row
      /\ \A q \in Responses \ {r} : response'[q] = response[q] /\ given'[q] = given[q]
  BY <1>2, <1>3, <1>5
<1>7. FormRowsOK'
  BY <1>1, <1>3, <1>4, <1>6, CallMoves DEF FormRowsOK, FormTypeOK, Exist
<1>8. ASSUME NEW g \in FormIds \ raced'
      PROVE  FormAlone(g)'
  <2>1. FormAlone(g)
    BY <1>1, <1>3
  <2>2. \A d \in Callers : Answers(d, g)' => caller'[d] = caller[d] /\ Answers(d, g)
    BY <1>1, <1>3, <1>4, CallMoves DEF Answers
  <2>3. Counted(g)' => Counted(g)
    BY <1>1, <1>3, <1>4, CallMoves DEF Counted
  <2>4. CASE g # f
    <3>1. \A q \in Responses : given'[q].form = g =>
            given'[q] = given[q] /\ response'[q] = response[q]
      BY <1>6, <2>4
    <3> QED
      BY <1>3, <2>1, <2>2, <2>3, <3>1, FormUntouched DEF Exist, Answers, Counted
  <2>5. CASE g = f
    <3>1. Fits(row.answers, g) /\ ~Counted(g)
      BY <1>3, <2>1, <2>5 DEF FormAlone
    <3> HIDE DEF row, f
    <3>2. \A q \in Responses : given'[q].form = g =>
            response'[q] = given'[q] /\ Fits(response'[q].answers, g)
      BY <1>6, <2>1, <3>1 DEF FormAlone
    <3>3. \A d \in Callers : Answers(d, g)' => Fits(caller'[d].answers, g)
      BY <2>1, <2>2 DEF FormAlone, Answers
    <3> QED
      BY <1>3, <2>3, <3>1, <3>2, <3>3 DEF FormAlone, Fits, Exist, Answers, Counted
  <2> QED
    BY <2>4, <2>5
<1> QED
  BY <1>7, <1>8 DEF FormInv

LEMMA FormInductive == FormInv /\ [FormNext]_formVars => FormInv'
<1> SUFFICES ASSUME FormInv, [FormNext]_formVars
             PROVE  FormInv'
  OBVIOUS
<1> USE FormsAssumption
<1>0. /\ form \in [FormIds -> FormRow \cup {NoForm}]
      /\ response \in [Responses -> [form : FormIds \cup {NoForm},
                                     answers : SUBSET QuestionIds]]
      /\ calls \in 0 .. MaxCalls /\ retired \subseteq QuestionIds
      /\ raced \subseteq FormIds /\ FormRowsOK
      /\ given \in [Responses -> [form : FormIds \cup {NoForm},
                                  answers : SUBSET QuestionIds]]
  BY DEF FormInv, FormRowsOK, FormTypeOK
<1>1. ASSUME NEW c \in Callers, NEW slug \in Slugs \cup {NoSlug},
             BeginCreateForm(c, slug) \/ \E f \in FormIds : BeginUpdateForm(c, f, slug)
      PROVE  FormInv'
  <2>1. CASE BeginCreateForm(c, slug)
    <3>1. [op |-> "store", slug |-> slug] \in FormCall
      BY DEF FormCall
    <3> QED
      BY <1>0, <2>1, <3>1, BeginsCall DEF BeginCreateForm
  <2>2. ASSUME NEW f \in FormIds, BeginUpdateForm(c, f, slug)
        PROVE  FormInv'
    <3>1. [op |-> "count", form |-> f, slug |-> slug] \in FormCall
      BY DEF FormCall
    <3> QED
      BY <1>0, <2>2, <3>1, BeginsCall DEF BeginUpdateForm
  <2> QED
    BY <1>1, <2>1, <2>2
<1>2. ASSUME NEW c \in Callers, NEW replaces \in BOOLEAN, CountForUpdate(c, replaces)
      PROVE  FormInv'
  <2> DEFINE f == caller[c].form
             next == CASE ~replaces -> "row"
                       [] replaces /\ ResponsesTo(f) # {} -> "vacant"
                       [] OTHER -> "wipe"
  <2>1. Steps(c, "count", next) /\ next \in {"vacant", "row", "wipe"}
    BY <1>2 DEF CountForUpdate
  <2>2. next = "wipe" => ResponsesTo(f) = {}
    OBVIOUS
  <2> HIDE DEF next
  <2>3. f \in FormIds
    BY <1>0, <2>1, StepMoves
  <2>4. PICK call \in FormCall : /\ caller' = [caller EXCEPT ![c] = call]
                                 /\ call.op = next
                                 /\ next # "vacant" => call.form = f
    BY <1>0, <2>1, StepMoves
  <2>5. calls' = calls /\ Counts(f) /\ UNCHANGED <<form, response, retired, given>>
    BY <1>2 DEF CountForUpdate, Steps
  <2> QED
    <3> HIDE DEF f
    <3>1. raced \subseteq raced' /\ raced' \subseteq FormIds
      BY <2>3, <2>5, RacedGrows
    <3>2. next = "wipe" /\ f \notin raced' =>
            /\ \A r \in Responses : given[r].form # f
            /\ \A d \in Callers : ~Answers(d, f)
      BY <2>2, <2>3, <2>5, CountedAlone
    <3>3. calls' \in 0 .. MaxCalls /\ call.op # "respond"
      BY <1>0, <2>1, <2>4, <2>5
    <3>4. call.op \in {"wipe", "put", "delete"} => next = "wipe" /\ call.form = f
      BY <2>1, <2>4
    <3>5. \A g \in FormIds \ raced' :
            call.op \in {"wipe", "put", "delete"} /\ call.form = g =>
              /\ \A r \in Responses : given[r].form # g
              /\ \A d \in Callers : ~Answers(d, g)
      BY <3>2, <3>4
    <3> QED
      BY <2>4, <2>5, <3>1, <3>3, <3>5, FormCallStep
<1>3. ASSUME NEW c \in Callers, CountForRemoval(c)
      PROVE  FormInv'
  <2> DEFINE f == caller[c].form
             next == IF ResponsesTo(f) # {} THEN "archive" ELSE "delete"
  <2>1. Steps(c, "weigh", next) /\ next \in {"archive", "delete"}
    BY <1>3 DEF CountForRemoval
  <2>2. next = "delete" => ResponsesTo(f) = {}
    OBVIOUS
  <2> HIDE DEF next
  <2>3. f \in FormIds
    BY <1>0, <2>1, StepMoves
  <2>4. PICK call \in FormCall : /\ caller' = [caller EXCEPT ![c] = call]
                                 /\ call.op = next
                                 /\ next # "vacant" => call.form = f
    BY <1>0, <2>1, StepMoves
  <2>5. calls' = calls /\ Counts(f) /\ UNCHANGED <<form, response, retired, given>>
    BY <1>3 DEF CountForRemoval, Steps
  <2> QED
    <3> HIDE DEF f
    <3>1. raced \subseteq raced' /\ raced' \subseteq FormIds
      BY <2>3, <2>5, RacedGrows
    <3>2. next = "delete" /\ f \notin raced' =>
            /\ \A r \in Responses : given[r].form # f
            /\ \A d \in Callers : ~Answers(d, f)
      BY <2>2, <2>3, <2>5, CountedAlone
    <3>3. calls' \in 0 .. MaxCalls /\ call.op # "respond"
      BY <1>0, <2>1, <2>4, <2>5
    <3>4. call.op \in {"wipe", "put", "delete"} => next = "delete" /\ call.form = f
      BY <2>1, <2>4
    <3>5. \A g \in FormIds \ raced' :
            call.op \in {"wipe", "put", "delete"} /\ call.form = g =>
              /\ \A r \in Responses : given[r].form # g
              /\ \A d \in Callers : ~Answers(d, g)
      BY <3>2, <3>4
    <3> QED
      BY <2>4, <2>5, <3>1, <3>3, <3>5, FormCallStep
<1>4. ASSUME NEW c \in Callers, NEW f \in FormIds, BeginRemoveForm(c, f)
      PROVE  FormInv'
  <2>1. [op |-> "weigh", form |-> f] \in FormCall
    BY DEF FormCall
  <2> QED
    BY <1>0, <1>4, <2>1, BeginsCall DEF BeginRemoveForm
<1>5. ASSUME NEW c \in Callers, WipeQuestions(c)
      PROVE  FormInv'
  <2> DEFINE f == caller[c].form
             gone == IF Exist(f) THEN form[f].questions ELSE {}
  <2>1. f \in FormIds
    BY <1>0, <1>5, StepMoves DEF WipeQuestions
  <2>2. PICK call \in FormCall : /\ caller' = [caller EXCEPT ![c] = call]
                                 /\ call.op = "put" /\ call.form = f
    BY <1>0, <1>5, StepMoves DEF WipeQuestions
  <2>3. Counted(f) /\ calls' = calls
    BY <1>5 DEF WipeQuestions, Steps, Counted
  <2>4. /\ form' = IF Exist(f) THEN [form EXCEPT ![f].questions = {}] ELSE form
        /\ response' = [r \in Responses |-> [response[r] EXCEPT !.answers = @ \ gone]]
        /\ UNCHANGED <<retired, given, raced>>
    BY <1>5 DEF WipeQuestions
  <2>5. Exist(f) => form[f] \in FormRow
    BY <1>0, <2>1 DEF Exist
  <2>6. /\ form' \in [FormIds -> FormRow \cup {NoForm}]
        /\ \A g \in FormIds \ {f} : form'[g] = form[g]
        /\ form'[f] # NoForm => form'[f].questions \subseteq {}
    BY <1>0, <2>1, <2>4, <2>5 DEF FormRow, Exist
  <2>7. response' \in [Responses -> [form : FormIds \cup {NoForm},
                                     answers : SUBSET QuestionIds]]
    BY <1>0, <2>4
  <2>8. ASSUME NEW r \in Responses, given[r].form \in FormIds \ (raced \cup {f})
        PROVE  response'[r] = response[r]
    <3> DEFINE g == given[r].form
    <3>1. FormAlone(g)
      BY <2>8 DEF FormInv
    <3>2. Exist(g) /\ response[r].answers \subseteq form[g].questions
      BY <2>8, <3>1 DEF FormAlone, Fits
    <3>3. response[r].answers \cap gone = {}
      BY <1>0, <2>1, <2>8, <3>2 DEF FormRowsOK
    <3>4. response[r] \in [form : FormIds \cup {NoForm}, answers : SUBSET QuestionIds]
      BY <1>0
    <3>5. response[r].answers \ gone = response[r].answers
      BY <3>3
    <3> HIDE DEF gone
    <3> QED
      BY <2>4, <3>4, <3>5
  <2> HIDE DEF gone, f
  <2> QED
    BY <1>0, <2>1, <2>2, <2>3, <2>4, <2>6, <2>7, <2>8, FormRowStep
<1>6. ASSUME NEW c \in Callers, NEW questions \in SUBSET QuestionIds,
             PutQuestions(c, questions)
      PROVE  FormInv'
  <2> DEFINE f == caller[c].form
  <2>1. f \in FormIds
    BY <1>0, <1>6, StepMoves DEF PutQuestions
  <2>2. PICK call \in FormCall : /\ caller' = [caller EXCEPT ![c] = call]
                                 /\ call.op = "row"
    BY <1>0, <1>6, StepMoves DEF PutQuestions
  <2>3. Counted(f) /\ calls' = calls
    BY <1>6 DEF PutQuestions, Steps, Counted
  <2>4. /\ Exist(f) /\ questions \cap retired = {}
        /\ form' = [form EXCEPT ![f].questions = @ \cup questions]
        /\ retired' = retired \cup questions
        /\ UNCHANGED <<response, given, raced>>
    BY <1>6 DEF PutQuestions
  <2>5. form[f] \in FormRow
    BY <1>0, <2>1, <2>4 DEF Exist
  <2>6. /\ form' \in [FormIds -> FormRow \cup {NoForm}]
        /\ \A g \in FormIds \ {f} : form'[g] = form[g]
        /\ form'[f].questions = form[f].questions \cup questions
    BY <1>0, <2>1, <2>4, <2>5 DEF FormRow
  <2>7. questions \subseteq retired' \ retired /\ retired' \subseteq QuestionIds
    BY <1>0, <2>4
  <2> HIDE DEF f
  <2> QED
    BY <1>0, <2>1, <2>2, <2>3, <2>4, <2>6, <2>7, FormRowStep DEF Exist
<1>7. ASSUME NEW c \in Callers, NEW status \in FormStatus, UpdateRow(c, status)
      PROVE  FormInv'
  <2> DEFINE f == caller[c].form
             row == [form[f] EXCEPT !.status = status,
                       !.slug = IF caller[c].slug = NoSlug THEN @ ELSE caller[c].slug]
  <2>1. f \in FormIds
    BY <1>0, <1>7, StepMoves DEF UpdateRow
  <2>2. PICK call \in FormCall : /\ caller' = [caller EXCEPT ![c] = call]
                                 /\ call.op = "vacant"
    BY <1>0, <1>7, StepMoves DEF UpdateRow
  <2>3. /\ Exist(f) /\ form' = [form EXCEPT ![f] = row]
        /\ UNCHANGED <<response, retired, given, raced, calls>>
    <3>1. Exist(f) /\ UNCHANGED <<response, retired, given, raced, calls>>
      BY <1>7 DEF UpdateRow, Steps
    <3>2. form' = [form EXCEPT ![f] = row]
      BY <1>7 DEF UpdateRow
    <3> QED
      BY <3>1, <3>2
  <2>4. form[f] \in FormRow /\ caller[c].slug \in Slugs \cup {NoSlug}
    <3>1. caller[c] \in FormCall /\ caller[c].op = "row"
      BY <1>0, <1>7 DEF FormRowsOK, UpdateRow
    <3> QED
      BY <1>0, <2>1, <2>3, <3>1 DEF Exist, FormCall, Vacant
  <2>5. row \in FormRow /\ row.questions = form[f].questions
    BY <2>4 DEF FormRow
  <2>6. /\ form' \in [FormIds -> FormRow \cup {NoForm}]
        /\ \A g \in FormIds \ {f} : form'[g] = form[g]
        /\ form'[f] # NoForm /\ form'[f].questions = form[f].questions
    BY <1>0, <2>1, <2>3, <2>5 DEF Exist
  <2> HIDE DEF f, row
  <2> QED
    BY <1>0, <2>1, <2>2, <2>3, <2>6, FormRowStep DEF Exist
<1>8. ASSUME NEW c \in Callers, ArchiveForm(c)
      PROVE  FormInv'
  <2> DEFINE f == caller[c].form
  <2>1. f \in FormIds
    BY <1>0, <1>8, StepMoves DEF ArchiveForm
  <2>2. PICK call \in FormCall : /\ caller' = [caller EXCEPT ![c] = call]
                                 /\ call.op = "vacant"
    BY <1>0, <1>8, StepMoves DEF ArchiveForm
  <2>3. /\ Exist(f) /\ form' = [form EXCEPT ![f].status = "ARCHIVED"]
        /\ UNCHANGED <<response, retired, given, raced, calls>>
    BY <1>8 DEF ArchiveForm, Steps
  <2>4. form[f] \in FormRow
    BY <1>0, <2>1, <2>3 DEF Exist
  <2>5. /\ form' \in [FormIds -> FormRow \cup {NoForm}]
        /\ \A g \in FormIds \ {f} : form'[g] = form[g]
        /\ form'[f] # NoForm /\ form'[f].questions = form[f].questions
    BY <1>0, <2>1, <2>3, <2>4 DEF Exist, FormRow, FormStatus
  <2> HIDE DEF f
  <2> QED
    BY <1>0, <2>1, <2>2, <2>3, <2>5, FormRowStep DEF Exist
<1>9. ASSUME NEW c \in Callers, DeleteForm(c)
      PROVE  FormInv'
  <2> DEFINE f == caller[c].form
  <2>1. f \in FormIds
    BY <1>0, <1>9, StepMoves DEF DeleteForm
  <2>2. PICK call \in FormCall : /\ caller' = [caller EXCEPT ![c] = call]
                                 /\ call.op = "vacant"
    BY <1>0, <1>9, StepMoves DEF DeleteForm
  <2>3. Counted(f) /\ calls' = calls
    BY <1>9 DEF DeleteForm, Steps, Counted
  <2>4. /\ form' = [form EXCEPT ![f] = NoForm]
        /\ response' = [r \in Responses |->
             IF response[r].form = f THEN NoResponse ELSE response[r]]
        /\ UNCHANGED <<retired, given, raced>>
    BY <1>9 DEF DeleteForm
  <2>5. /\ form' \in [FormIds -> FormRow \cup {NoForm}]
        /\ \A g \in FormIds \ {f} : form'[g] = form[g]
        /\ form'[f] = NoForm
    BY <1>0, <2>1, <2>4 DEF Exist
  <2>6. response' \in [Responses -> [form : FormIds \cup {NoForm},
                                     answers : SUBSET QuestionIds]]
    BY <1>0, <2>4 DEF NoResponse
  <2>7. ASSUME NEW r \in Responses, given[r].form \in FormIds \ (raced \cup {f})
        PROVE  response'[r] = response[r]
    <3>1. FormAlone(given[r].form)
      BY <2>7 DEF FormInv
    <3>2. response[r] = given[r]
      BY <2>7, <3>1 DEF FormAlone
    <3> QED
      BY <2>4, <2>7, <3>2
  <2> HIDE DEF f
  <2> QED
    BY <1>0, <2>1, <2>2, <2>3, <2>4, <2>5, <2>6, <2>7, FormRowStep
<1>10. ASSUME NEW c \in Callers, NEW f \in FormIds, NEW status \in FormStatus,
              StoreForm(c, f, status)
       PROVE  FormInv'
  <2> DEFINE row == [status |-> status, questions |-> {}, slug |-> caller[c].slug]
  <2>1. /\ Steps(c, "store", "vacant") /\ form[f] = NoForm
        /\ \A r \in Responses : given[r].form # f
        /\ \A d \in Callers : ~Answers(d, f)
        /\ form' = [form EXCEPT ![f] = row]
        /\ UNCHANGED <<response, retired, given, raced>>
    BY <1>10 DEF StoreForm, Exist, Answers
  <2>2. caller' = [caller EXCEPT ![c] = Vacant] /\ calls' = calls
    BY <2>1 DEF Steps
  <2>3. Vacant \in FormCall /\ Vacant.op = "vacant"
    BY DEF FormCall, Vacant
  <2>4. row \in FormRow /\ row.questions = {}
    <3>1. caller[c] \in FormCall /\ caller[c].op = "store"
      BY <1>0, <2>1 DEF FormRowsOK, Steps
    <3>2. caller[c].slug \in Slugs \cup {NoSlug}
      BY <3>1 DEF FormCall, Vacant
    <3> QED
      BY <3>2 DEF FormRow
  <2> HIDE DEF row
  <2>5. /\ form' \in [FormIds -> FormRow \cup {NoForm}]
        /\ \A g \in FormIds \ {f} : form'[g] = form[g]
        /\ form'[f].questions = {}
    BY <1>0, <2>1, <2>4
  <2> QED
    BY <1>0, <2>1, <2>2, <2>3, <2>5, FormRowStep
<1>11. ASSUME NEW c \in Callers, NEW f \in FormIds, NEW asked \in BOOLEAN,
              NEW qs \in SUBSET QuestionIds, NEW answers \in [qs -> Values],
              BeginSubmit(c, f, asked, answers)
       PROVE  FormInv'
  <2>1. /\ Exist(f) /\ ValidAnswers(form[f].questions, answers)
        /\ Calls(c, [op |-> "respond", form |-> f, answers |-> qs])
        /\ UNCHANGED <<form, response, retired, given>>
        /\ raced' = IF Counted(f) THEN raced \cup {f} ELSE raced
    BY <1>11 DEF BeginSubmit
  <2>2. Fits(qs, f)
    BY <2>1 DEF Fits, ValidAnswers
  <2>3. [op |-> "respond", form |-> f, answers |-> qs] \in FormCall
    BY DEF FormCall
  <2> QED
    BY <1>0, <2>1, <2>2, <2>3, SubmitStep DEF Calls
<1>12. ASSUME NEW c \in Callers, NEW r \in Responses, StoreResponse(c, r)
       PROVE  FormInv'
  BY <1>0, <1>12, ResponseStep
<1>13. ASSUME NEW c \in Callers, FailCall(c)
       PROVE  FormInv'
  <2>1. Vacant \in FormCall /\ Vacant.op = "vacant"
    BY DEF FormCall, Vacant
  <2> QED
    BY <1>0, <1>13, <2>1, FormCallStep DEF FailCall
<1>14. CASE UNCHANGED formVars
  BY <1>14 DEF formVars, FormInv, FormRowsOK, FormTypeOK, FormAlone, Answers, Counted,
               Fits, Exist
<1> QED
  BY <1>1, <1>2, <1>3, <1>4, <1>5, <1>6, <1>7, <1>8, <1>9, <1>10, <1>11, <1>12, <1>13,
     <1>14 DEF FormNext

LEMMA FormInitially == FormInit => FormInv
<1> SUFFICES ASSUME FormInit
             PROVE  FormInv
  OBVIOUS
<1> USE FormsAssumption
<1>1. \A f \in FormIds : ~Exist(f)
  BY DEF FormInit, Exist
<1>2. FormRowsOK
  BY <1>1 DEF FormInit, FormRowsOK, FormTypeOK, FormCall, NoResponse
<1>3. \A f \in FormIds : FormAlone(f)
  BY DEF FormInit, FormAlone, Answers, Counted, NoResponse, Vacant
<1> QED
  BY <1>2, <1>3 DEF FormInv

\* Every reachable state of the forms is well typed, for any number of forms,
\* questions, responses and requests.
THEOREM FormTypeCorrect == FormSpec => []FormTypeOK
<1>1. FormInv => FormTypeOK
  BY DEF FormInv, FormRowsOK
<1> QED
  BY <1>1, FormInitially, FormInductive, PTL DEF FormSpec

\* What a customer answered stays, and it answers what the form requires,
\* unless the form's responses were counted while the submission was under
\* way: however changes, removals and submissions of any number overlap.
THEOREM AnswersStay == FormSpec => []AnswersKept
<1>1. FormInv => AnswersKept
  BY DEF FormInv, FormRowsOK, FormAlone, Fits, AnswersKept
<1> QED
  BY <1>1, FormInitially, FormInductive, PTL DEF FormSpec
=============================================================================
