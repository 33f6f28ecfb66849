------------------------------ MODULE Threads ------------------------------
(***************************************************************************)
(* What happens on one open ticket besides its workflow (module Tickets):  *)
(* it is assigned, replied to, tagged and watched.  A request reads the    *)
(* ticket row once and decides by that copy whether a reply is the first   *)
(* response, and whom an assignment is told to; each write that follows is *)
(* a step of its own, which may fail and ends the request.                 *)
(*                                                                         *)
(* Left out: texts, the activity list, and who is told of a reply.         *)
(***************************************************************************)
EXTENDS Integers, FiniteSets

CONSTANTS
  Agents,        \* active owners and agents of the organization
  Customer,      \* who opened the ticket
  Nobody,        \* no assignee
  Labels,        \* tags of the organization
  Helpers,       \* requests in flight
  FirstDue,      \* time the first response is due (computeDeadlines)
  MaxTime,       \* bound: ticks
  MaxReplies,    \* bound: replies
  MaxHelp        \* bound: requests begun

ASSUME ThreadsAssumption ==
  /\ Nobody \notin Agents /\ Customer \notin Agents
  /\ FirstDue \in Nat /\ MaxTime \in Nat
  /\ MaxReplies \in Nat /\ MaxHelp \in Nat

Never == -1

VARIABLES
  now,           \* the time
  assignee,      \* Ticket.assignedToId
  responded,     \* Ticket.firstRespondedAt
  replies,       \* the replies by number: who wrote it, and for whom
  tags, watchers,
  helper,        \* what each request has read and does next
  helped,        \* requests begun so far
  answered,      \* for the properties: when staff first answered
  rivals,        \* whether two answers of staff overlapped
  wanted,        \* the tags that were asked for last
  mixed          \* whether changes of the tags overlapped, or one failed

threadVars == <<now, assignee, responded, replies, tags, watchers, helper,
                helped, answered, rivals, wanted, mixed>>

Times == {Never} \cup 0..MaxTime

Ready == [op |-> "ready"]

NoReply == [by |-> Nobody, internal |-> FALSE]

Authors == Agents \cup {Customer}

ThreadInit ==
  /\ now = 0
  /\ assignee = Nobody /\ responded = Never
  /\ replies = [n \in 1..MaxReplies |-> NoReply]
  /\ tags = {} /\ watchers = {}
  /\ helper = [h \in Helpers |-> Ready] /\ helped = 0
  /\ answered = Never /\ rivals = FALSE
  /\ wanted = {} /\ mixed = FALSE

Clock ==
  /\ now < MaxTime /\ now' = now + 1
  /\ UNCHANGED <<assignee, responded, replies, tags, watchers, helper, helped,
                 answered, rivals, wanted, mixed>>

At(h, op) == helper[h].op = op

Does(h, request) == helper' = [helper EXCEPT ![h] = request]

Proceeds(h, op) == Does(h, [helper[h] EXCEPT !.op = op])

Takes(h, request) ==
  /\ At(h, "ready") /\ helped < MaxHelp
  /\ helped' = helped + 1
  /\ Does(h, request)
  /\ UNCHANGED <<now, assignee, responded, replies, tags, watchers, answered>>

Busy(op) == \E h \in Helpers : At(h, op)
-----------------------------------------------------------------------------
(* Assignment. *)

\* assign tells the assignee unless the one who assigns had the ticket;
\* reassign unless he assigns it to himself.
Tells(u, to, route) ==
  IF route = "assign" THEN assignee # u ELSE to # u

BeginAssign(h, u, to, route) ==
  /\ Takes(h, [op |-> "assign", to |-> to, tells |-> Tells(u, to, route)])
  /\ UNCHANGED <<rivals, wanted, mixed>>

BeginUnassign(h) ==
  /\ Takes(h, [op |-> "unassign"])
  /\ UNCHANGED <<rivals, wanted, mixed>>

WriteAssign(h) ==
  /\ At(h, "assign")
  /\ assignee' = helper[h].to
  /\ IF helper[h].tells THEN Proceeds(h, "tell") ELSE Does(h, Ready)
  /\ UNCHANGED <<now, responded, replies, tags, watchers, helped, answered,
                 rivals, wanted, mixed>>

TellAssignee(h) ==
  /\ At(h, "tell")
  /\ Does(h, Ready)
  /\ UNCHANGED <<now, assignee, responded, replies, tags, watchers, helped,
                 answered, rivals, wanted, mixed>>

WriteUnassign(h) ==
  /\ At(h, "unassign")
  /\ assignee' = Nobody
  /\ Does(h, Ready)
  /\ UNCHANGED <<now, responded, replies, tags, watchers, helped, answered,
                 rivals, wanted, mixed>>
-----------------------------------------------------------------------------
(* Replies.  A note that only staff may read counts as a response too. *)

Answering(h) ==
  \/ At(h, "reply") /\ helper[h].by \in Agents
  \/ At(h, "respond")

BeginReply(h, by, internal) ==
  /\ internal => by \in Agents
  /\ Takes(h, [op |-> "reply", by |-> by, internal |-> internal,
               seen |-> responded])
  /\ rivals' = \/ rivals
               \/ by \in Agents /\ \E d \in Helpers : Answering(d)
  /\ UNCHANGED <<wanted, mixed>>

StoreReply(h, n) ==
  /\ At(h, "reply") /\ replies[n] = NoReply
  /\ \A m \in 1..(n - 1) : replies[m] # NoReply
  /\ replies' = [replies EXCEPT ![n] =
                   [by |-> helper[h].by, internal |-> helper[h].internal]]
  /\ IF helper[h].by \in Agents THEN Proceeds(h, "respond") ELSE Does(h, Ready)
  /\ UNCHANGED <<now, assignee, responded, tags, watchers, helped,
                 answered, rivals, wanted, mixed>>

\* Mutant of Respond: the time of the last response is kept.
RespondAlways(h) ==
  /\ At(h, "respond")
  /\ responded' = now
  /\ answered' = IF answered = Never THEN now ELSE answered
  /\ Does(h, Ready)
  /\ UNCHANGED <<now, assignee, replies, tags, watchers, helped, rivals,
                 wanted, mixed>>

Respond(h) ==
  /\ At(h, "respond")
  /\ responded' = IF helper[h].seen = Never THEN now ELSE responded
  /\ answered' = IF answered = Never THEN now ELSE answered
  /\ Does(h, Ready)
  /\ UNCHANGED <<now, assignee, replies, tags, watchers, helped, rivals,
                 wanted, mixed>>

\* update leaves everything but the text alone; a reply is removed by its
\* author or by staff, and its number is not given again.
Removed == [by |-> Nobody, internal |-> TRUE]

RemoveReply(by, n) ==
  /\ replies[n] \notin {NoReply, Removed}
  /\ by \in Agents \/ by = replies[n].by
  /\ replies' = [replies EXCEPT ![n] = Removed]
  /\ UNCHANGED <<now, assignee, responded, tags, watchers, helper, helped,
                 answered, rivals, wanted, mixed>>

\* What a reader of the list sees; a customer only what is for him.
ListReplies(by) ==
  {n \in 1..MaxReplies : /\ replies[n] \notin {NoReply, Removed}
                         /\ by = Customer => ~replies[n].internal}

\* getSla, the first response.
Met == responded # Never /\ responded <= FirstDue
Overdue == responded = Never /\ now > FirstDue
-----------------------------------------------------------------------------
(* Tags and watchers. *)

\* syncTags, after the ticket was updated: all tags go, then those asked for
\* come.
BeginSync(h) ==
  /\ Takes(h, [op |-> "wipe"])
  /\ mixed' = (Busy("wipe") \/ Busy("fill"))
  /\ UNCHANGED <<rivals, wanted>>

\* Mutant of WipeTags: the tags there were stay.
WipeNothing(h, labels) ==
  /\ At(h, "wipe")
  /\ wanted' = labels
  /\ Does(h, [op |-> "fill", labels |-> labels])
  /\ UNCHANGED <<now, assignee, responded, replies, tags, watchers, helped,
                 answered, rivals, mixed>>

WipeTags(h, labels) ==
  /\ At(h, "wipe")
  /\ tags' = {} /\ wanted' = labels
  /\ Does(h, IF labels = {} THEN Ready ELSE [op |-> "fill", labels |-> labels])
  /\ UNCHANGED <<now, assignee, responded, replies, watchers, helped,
                 answered, rivals, mixed>>

\* createMany does not skip duplicates: one that is already there fails it.
FillTags(h) ==
  /\ At(h, "fill")
  /\ tags' = IF tags \cap helper[h].labels = {} THEN tags \cup helper[h].labels
             ELSE tags
  /\ Does(h, Ready)
  /\ UNCHANGED <<now, assignee, responded, replies, watchers, helped,
                 answered, rivals, wanted, mixed>>

AddTag(l) ==
  /\ tags' = tags \cup {l} /\ wanted' = wanted \cup {l}
  /\ mixed' = (mixed \/ Busy("wipe") \/ Busy("fill"))
  /\ UNCHANGED <<now, assignee, responded, replies, watchers, helper, helped,
                 answered, rivals>>

RemoveTag(l) ==
  /\ l \in tags
  /\ tags' = tags \ {l} /\ wanted' = wanted \ {l}
  /\ mixed' = (mixed \/ Busy("wipe") \/ Busy("fill"))
  /\ UNCHANGED <<now, assignee, responded, replies, watchers, helper, helped,
                 answered, rivals>>

Watching(people) ==
  /\ helped < MaxHelp /\ helped' = helped + 1
  /\ watchers' = people
  /\ UNCHANGED <<now, assignee, responded, replies, tags, helper,
                 answered, rivals, wanted, mixed>>

Watch(u) == Watching(watchers \cup {u})

Unwatch(u) == u \in watchers /\ Watching(watchers \ {u})
-----------------------------------------------------------------------------
\* A write fails: the request ends where it is.
FailHelper(h) ==
  /\ ~At(h, "ready")
  /\ Does(h, Ready)
  /\ mixed' = (mixed \/ At(h, "wipe") \/ At(h, "fill"))
  /\ UNCHANGED <<now, assignee, responded, replies, tags, watchers, helped,
                 answered, rivals, wanted>>

ThreadNext ==
  \/ Clock
  \/ \E h \in Helpers :
       \/ \E u, to \in Agents, route \in {"assign", "reassign"} :
            BeginAssign(h, u, to, route)
       \/ BeginUnassign(h)
       \/ \E by \in Authors, internal \in BOOLEAN : BeginReply(h, by, internal)
       \/ BeginSync(h)
       \/ \E labels \in SUBSET Labels : WipeTags(h, labels)
       \/ WriteAssign(h) \/ TellAssignee(h) \/ WriteUnassign(h)
       \/ \E n \in 1..MaxReplies : StoreReply(h, n)
       \/ Respond(h) \/ FillTags(h) \/ FailHelper(h)
  \/ \E by \in Authors, n \in 1..MaxReplies : RemoveReply(by, n)
  \/ \E l \in Labels : AddTag(l) \/ RemoveTag(l)
  \/ \E u \in Agents : Watch(u) \/ Unwatch(u)

ThreadSpec == ThreadInit /\ [][ThreadNext]_threadVars
-----------------------------------------------------------------------------
(* Properties. *)

ThreadTypeOK ==
  /\ now \in 0..MaxTime
  /\ assignee \in Agents \cup {Nobody}
  /\ responded \in Times /\ answered \in Times
  /\ replies \in [1..MaxReplies -> [by : Authors \cup {Nobody}, internal : BOOLEAN]]
  /\ tags \subseteq Labels /\ wanted \subseteq Labels
  /\ watchers \subseteq Agents

\* The first response is the first one: a later answer, an internal note or
\* the removal of the answer does not move it, unless two answers overlapped;
\* what was answered in time is never overdue again (create, getSla).
ResponseIsFirst ==
  /\ ~rivals => responded = answered
  /\ answered # Never /\ answered <= FirstDue /\ ~rivals => Met /\ ~Overdue

\* A ticket has the tags that were asked for last, unless changes of its tags
\* overlapped or one was cut short between taking and giving (syncTags).
TagsAreWanted ==
  mixed \/ Busy("wipe") \/ Busy("fill") \/ tags = wanted
=============================================================================
