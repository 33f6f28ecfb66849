---------------------------- MODULE TicketIntake ----------------------------
(***************************************************************************)
(* Creating the tickets of one tenant: the plan's monthly limit is checked,*)
(* then the number SF-<n> is found by counting and probing, then the row   *)
(* is created; concurrent requests interleave between these steps.  Rows   *)
(* are deleted softly and restored by the platform admin.                  *)
(*                                                                         *)
(* Time is the time since the first of the month: day 0 is the first.      *)
(***************************************************************************)
EXTENDS Integers, FiniteSets

CONSTANTS
  Creators,      \* requests that can be in flight together
  Limit,         \* maxTicketsPerMonth of the plan
  DayLength,     \* times of day told apart
  LastDay,       \* last day of the month
  MaxTickets,    \* bound: tickets created
  MaxRestores    \* bound: restores

ASSUME IntakeAssumption ==
  /\ IsFiniteSet(Creators)
  /\ Limit \in Nat \ {0}
  /\ DayLength \in Nat \ {0}
  /\ LastDay \in Nat
  /\ MaxTickets \in Nat
  /\ MaxRestores \in Nat

VARIABLES
  ticket,      \* the Ticket rows by the number in ticketNumber
  now,         \* the time of the month
  pc,          \* the step each request has still to do
  seq,         \* the number each request tries
  restores     \* restores so far

intakeVars == <<ticket, now, pc, seq, restores>>
-----------------------------------------------------------------------------
Before == -1   \* made in an earlier month

Time == 0 .. (LastDay + 1) * DayLength - 1

Row == [made : Time \union {Before}, deleted : BOOLEAN]

Numbers == DOMAIN ticket

IntakeTypeOK ==
  /\ Numbers \subseteq Nat \ {0}
  /\ IsFiniteSet(Numbers)
  /\ ticket \in [Numbers -> Row]
  /\ now \in Time
  /\ pc \in [Creators -> {"idle", "count", "probe", "create"}]
  /\ seq \in [Creators -> Nat \ {0}]
  /\ restores \in 0 .. MaxRestores

IntakeInit ==
  /\ ticket = [n \in {} |-> 0]
  /\ now = 0
  /\ pc = [c \in Creators |-> "idle"]
  /\ seq = [c \in Creators |-> 1]
  /\ restores = 0

\* Request c is at the step from and goes on to the step to.
Moves(c, from, to) ==
  /\ pc[c] = from
  /\ pc' = [pc EXCEPT ![c] = to]
  /\ UNCHANGED <<now, restores>>
-----------------------------------------------------------------------------
(* The plan's limit. *)

\* ticketsThisMonth: setUTCDate(1) moves the day to the first and keeps the
\* time of day, so that is where the window starts.
WindowStart == now % DayLength

TicketsThisMonth ==
  Cardinality({n \in Numbers :
                 ~ticket[n].deleted /\ ticket[n].made >= WindowStart})

\* Mutant of UnderLimit: the ticket to be created is not counted in.
UnderLimitOffByOne == TicketsThisMonth <= Limit

UnderLimit == TicketsThisMonth + 1 <= Limit

AssertCanCreateTicket(c) ==
  /\ UnderLimit
  /\ Moves(c, "idle", "count")
  /\ UNCHANGED <<ticket, seq>>
-----------------------------------------------------------------------------
(* generateTicketNumber, and the create that may lose the race for it. *)

\* The count includes the deleted tickets.
CountTickets(c) ==
  /\ Moves(c, "count", "probe")
  /\ seq' = [seq EXCEPT ![c] = Cardinality(Numbers) + 1]
  /\ UNCHANGED ticket

\* Mutant of ProbeTaken: the number is advanced before it is looked up.
ProbeTakenFirst(c) ==
  /\ Moves(c, "probe", "create")
  /\ seq' = [seq EXCEPT ![c] = @ + 1]
  /\ UNCHANGED ticket

ProbeTaken(c) ==
  /\ seq[c] \in Numbers
  /\ Moves(c, "probe", "probe")
  /\ seq' = [seq EXCEPT ![c] = @ + 1]
  /\ UNCHANGED ticket

ProbeFree(c) ==
  /\ seq[c] \notin Numbers
  /\ Moves(c, "probe", "create")
  /\ UNCHANGED <<ticket, seq>>

Create(c) ==
  /\ seq[c] \notin Numbers
  /\ Cardinality(Numbers) < MaxTickets
  /\ Moves(c, "create", "idle")
  /\ ticket' = [n \in Numbers \union {seq[c]} |->
                  IF n = seq[c] THEN [made |-> now, deleted |-> FALSE]
                  ELSE ticket[n]]
  /\ UNCHANGED seq

\* The number was taken after it was probed: the unique index refuses the row
\* and the request fails.
CreateConflict(c) ==
  /\ seq[c] \in Numbers
  /\ Moves(c, "create", "idle")
  /\ UNCHANGED <<ticket, seq>>
-----------------------------------------------------------------------------
(* Deletion, restoring and the calendar. *)

Remove(n) ==
  /\ ~ticket[n].deleted
  /\ ticket' = [ticket EXCEPT ![n].deleted = TRUE]
  /\ UNCHANGED <<now, pc, seq, restores>>

\* The platform admin's restore does not consult the limit.
RestoreTicket(n) ==
  /\ ticket[n].deleted
  /\ restores < MaxRestores
  /\ restores' = restores + 1
  /\ ticket' = [ticket EXCEPT ![n].deleted = FALSE]
  /\ UNCHANGED <<now, pc, seq>>

TimePasses ==
  /\ now + 1 \in Time
  /\ now' = now + 1
  /\ UNCHANGED <<ticket, pc, seq, restores>>

NewMonth ==
  /\ now + 1 \notin Time
  /\ now' = 0
  /\ ticket' = [n \in Numbers |-> [ticket[n] EXCEPT !.made = Before]]
  /\ UNCHANGED <<pc, seq, restores>>
-----------------------------------------------------------------------------
CreatorStep(c) ==
  \/ AssertCanCreateTicket(c) \/ CountTickets(c) \/ ProbeTaken(c)
  \/ ProbeFree(c) \/ Create(c) \/ CreateConflict(c)

IntakeNext ==
  \/ \E c \in Creators : CreatorStep(c)
  \/ \E n \in Numbers : Remove(n) \/ RestoreTicket(n)
  \/ TimePasses \/ NewMonth

IntakeSpec == IntakeInit /\ [][IntakeNext]_intakeVars
-----------------------------------------------------------------------------
(* Properties. *)

\* The tickets are numbered without a gap, although requests that count and
\* probe together end up with the same number.
NumbersContiguous == Numbers = 1 .. Cardinality(Numbers)

\* Tickets made after the first of the month exceed the limit at most by the
\* requests that checked it together and by restored tickets.
OvershootBounded ==
  Cardinality({n \in Numbers : ~ticket[n].deleted /\ ticket[n].made >= DayLength})
    <= Limit + Cardinality(Creators) - 1 + restores
-----------------------------------------------------------------------------
(* Statements of the repository that the model refutes. *)

\* usage-tracking.service.ts:6: hard limits are enforced by counting real
\* records.  So with no overlap and no restore a month never has more tickets
\* than the plan allows.
MonthlyLimitIsHard ==
  Cardinality(Creators) = 1 /\ restores = 0
    => Cardinality({n \in Numbers :
                      ~ticket[n].deleted /\ ticket[n].made # Before}) <= Limit
=============================================================================
