------------------------------ MODULE Tickets ------------------------------
(***************************************************************************)
(* The workflow of one ticket (tickets share nothing but their numbers):   *)
(* status changes by staff, closing, reopening, deletion, and the platform *)
(* admin's restore.  Its force-close is no action: the ticket is read with *)
(* relations that the schema does not have, so it throws before it writes. *)
(*                                                                         *)
(* A request reads the ticket, checks, and later overwrites it by id.  The *)
(* dates resolvedAt and closedAt are abstracted to whether they are set.   *)
(***************************************************************************)
EXTENDS Naturals

CONSTANTS
  Working,      \* OPEN, IN_PROGRESS, ...: the transitions treat them alike
  Staff,        \* requests of staff that can be in flight together
  MaxFailures   \* bound: requests that die between two of their steps

ASSUME TicketsAssumption ==
  /\ "OPEN" \in Working
  /\ Working \intersect {"RESOLVED", "CLOSED", "REOPENED"} = {}
  /\ MaxFailures \in Nat

VARIABLES
  ticket,         \* the Ticket row
  resolvedOnce,   \* whether the ticket was RESOLVED or CLOSED at some time
  staff,          \* the step each staff request has still to do
  failures        \* requests that died so far

ticketVars == <<ticket, resolvedOnce, staff, failures>>
-----------------------------------------------------------------------------
Done == {"RESOLVED", "CLOSED"}

TicketStatus == Working \union Done \union {"REOPENED"}

\* ALLOWED_TICKET_STATUS_TRANSITIONS: any other status, but a CLOSED ticket
\* is not resolved, and only a ticket that was done is reopened.
Allowed(from) ==
  CASE from = "RESOLVED" -> TicketStatus \ {"RESOLVED"}
    [] from = "CLOSED"   -> TicketStatus \ Done
    [] OTHER             -> TicketStatus \ {from, "REOPENED"}

Ticket == [status     : TicketStatus,
           resolvedAt : BOOLEAN,
           closedAt   : BOOLEAN,
           deleted    : BOOLEAN]

\* pc "changeStatus" is still to write the status to, "survey" to generate
\* the feedback request of a resolution and "createSurvey" to create it.
StaffJob == [pc : {"idle", "changeStatus", "close", "reopen", "remove",
                   "restore", "survey", "createSurvey"},
             to : TicketStatus]

NoJob == [pc |-> "idle", to |-> "OPEN"]

TicketTypeOK ==
  /\ ticket \in Ticket
  /\ resolvedOnce \in BOOLEAN
  /\ staff \in [Staff -> StaffJob]
  /\ failures \in 0 .. MaxFailures

TicketInit ==
  /\ ticket = [status |-> "OPEN", resolvedAt |-> FALSE, closedAt |-> FALSE,
               deleted |-> FALSE]
  /\ resolvedOnce = FALSE
  /\ staff = [s \in Staff |-> NoJob]
  /\ failures = 0

\* A request starts: getAccessibleTicket found the ticket.
Starts(s, pc, to) ==
  /\ staff[s].pc = "idle"
  /\ staff' = [staff EXCEPT ![s] = [pc |-> pc, to |-> to]]
  /\ UNCHANGED <<ticket, resolvedOnce, failures>>

Accessible == ~ticket.deleted

\* Request s is at pc and goes on to next.
Continues(s, pc, next) ==
  /\ staff[s].pc = pc
  /\ staff' = [staff EXCEPT ![s] = [NoJob EXCEPT !.pc = next]]
-----------------------------------------------------------------------------
(* What the requests read. *)

ChangeStatus(s, to) ==
  /\ Accessible
  /\ to \in Allowed(ticket.status)
  /\ Starts(s, "changeStatus", to)

\* close and reopen do not consult the table of transitions.
Close(s) == Accessible /\ Starts(s, "close", "CLOSED")

Reopen(s) == Accessible /\ Starts(s, "reopen", "REOPENED")

Remove(s) == Accessible /\ Starts(s, "remove", "OPEN")

\* The platform admin reaches deleted tickets too.
Restore(s) == Starts(s, "restore", "OPEN")
-----------------------------------------------------------------------------
(* What they write. *)

\* The row with a new status and the dates that go with it: a date already
\* set is kept, and reopening clears both.
WithStatus(to) ==
  [ticket EXCEPT !.status = to,
                 !.resolvedAt = (@ \/ to = "RESOLVED") /\ to # "REOPENED",
                 !.closedAt   = (@ \/ to = "CLOSED") /\ to # "REOPENED"]

\* A resolution goes on to generate the feedback request.
WriteStatus(s) ==
  LET to == staff[s].to
  IN /\ Continues(s, "changeStatus", IF to \in Done THEN "survey" ELSE "idle")
     /\ ticket' = WithStatus(to)
     /\ resolvedOnce' = (resolvedOnce \/ to \in Done)
     /\ UNCHANGED failures

WriteClose(s) ==
  /\ Continues(s, "close", "survey")
  /\ ticket' = WithStatus("CLOSED")
  /\ resolvedOnce' = TRUE
  /\ UNCHANGED failures

WriteReopen(s) ==
  /\ Continues(s, "reopen", "idle")
  /\ ticket' = WithStatus("REOPENED")
  /\ UNCHANGED <<resolvedOnce, failures>>

WriteRemove(s) ==
  /\ Continues(s, "remove", "idle")
  /\ ticket' = [ticket EXCEPT !.deleted = TRUE]
  /\ UNCHANGED <<resolvedOnce, failures>>

WriteRestore(s) ==
  /\ Continues(s, "restore", "idle")
  /\ ticket' = [ticket EXCEPT !.deleted = FALSE]
  /\ UNCHANGED <<resolvedOnce, failures>>

\* The instance stops, or an activity or notification write throws.
StaffAbort(s) ==
  /\ staff[s].pc # "idle"
  /\ failures < MaxFailures
  /\ failures' = failures + 1
  /\ staff' = [staff EXCEPT ![s] = NoJob]
  /\ UNCHANGED <<ticket, resolvedOnce>>

\* isTicketResolvable: what feedback asks of a ticket.  A date left by an
\* earlier resolution counts, whatever the status is now.
Resolvable == ticket.status \in Done \/ ticket.resolvedAt \/ ticket.closedAt
-----------------------------------------------------------------------------
StaffReads(s) ==
  \/ \E to \in TicketStatus : ChangeStatus(s, to)
  \/ Close(s) \/ Reopen(s) \/ Remove(s) \/ Restore(s)

StaffWrites(s) ==
  \/ WriteStatus(s) \/ WriteClose(s) \/ WriteReopen(s)
  \/ WriteRemove(s) \/ WriteRestore(s)

TicketNext == \E s \in Staff : StaffReads(s) \/ StaffWrites(s) \/ StaffAbort(s)

TicketSpec == TicketInit /\ [][TicketNext]_ticketVars
-----------------------------------------------------------------------------
(* Properties. *)

\* The dates that the SLA and feedback go by fit the status, although
\* requests that read different statuses overwrite one another: a ticket that
\* is RESOLVED or CLOSED has that date, a REOPENED one has neither.
DatesFitStatus ==
  /\ ticket.status = "RESOLVED" => ticket.resolvedAt
  /\ ticket.status = "CLOSED" => ticket.closedAt
  /\ ticket.status = "REOPENED" => ~ticket.resolvedAt /\ ~ticket.closedAt
=============================================================================
