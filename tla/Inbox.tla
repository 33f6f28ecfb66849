------------------------------- MODULE Inbox -------------------------------
(***************************************************************************)
(* The notifications of users, and the badge with the number of unread     *)
(* ones that the browser shows.  A request writes, then counts, then       *)
(* pushes the count to whoever made it; the badge is never asked for       *)
(* again, so it is right only if every writer pushes and the pushes come   *)
(* in the order of the counts.  Archiving, restoring and what is done in   *)
(* the customer portal push no count, and a platform administrator reaches *)
(* the notifications of everyone.                                          *)
(*                                                                         *)
(* Left out: texts, types, priorities, the mails, and scheduling, which no *)
(* caller uses.                                                            *)
(***************************************************************************)
EXTENDS Integers, FiniteSets

CONSTANTS
  Users,
  Admins,       \* the platform administrators among them
  Noone,
  Notes,        \* notification ids
  Hands,        \* requests in flight
  MaxHands      \* bound: requests begun

ASSUME InboxAssumption ==
  /\ Admins \subseteq Users /\ Noone \notin Users
  /\ IsFiniteSet(Notes)
  /\ MaxHands \in Nat

VARIABLES
  note,         \* the notification rows
  muted,        \* users who want none in the application
  badge,        \* the count last pushed to each user
  hand,         \* what each request does next
  hands,        \* requests begun so far
  blurred       \* for the properties: users whose unread notifications
                \* changed without a push, or whose pushes overlapped

inboxVars == <<note, muted, badge, hand, hands, blurred>>

NoNote == [user |-> Noone, read |-> FALSE, archived |-> FALSE]

Off == [op |-> "off"]

InboxInit ==
  /\ note = [n \in Notes |-> NoNote]
  /\ muted \in SUBSET Users
  /\ badge = [u \in Users |-> 0]
  /\ hand = [h \in Hands |-> Off] /\ hands = 0
  /\ blurred = {}

Unread(u) ==
  Cardinality({n \in Notes : /\ note[n].user = u
                             /\ ~note[n].read /\ ~note[n].archived})

\* findOwned.
Reaches(u, n) == note[n].user \in IF u \in Admins THEN Users ELSE {u}

Hold(h, request) ==
  /\ hand[h] = Off /\ hands < MaxHands
  /\ hands' = hands + 1
  /\ hand' = [hand EXCEPT ![h] = request]
  /\ UNCHANGED <<note, muted, badge, blurred>>

\* Request h goes on to push the count to users.
ToCount(h, users) == hand' = [hand EXCEPT ![h] = [op |-> "count", users |-> users]]

Done(h) == hand' = [hand EXCEPT ![h] = Off]

Counting(u) ==
  \E h \in Hands : hand[h].op \in {"count", "push"} /\ u \in hand[h].users

\* A write that changes the unread notifications of users, while another
\* request is between its count and its push, or without a push to come.
Blur(users, pushed) ==
  blurred' = blurred \cup {u \in users : u \notin pushed \/ Counting(u)}

\* createMany leaves out who is muted, but counts for every recipient; create
\* does nothing for one who is muted.
BeginNotify(h, users) ==
  /\ users # {}
  /\ Hold(h, [op |-> "notify", users |-> users, to |-> users \ muted])

Notify(h, id) ==
  /\ hand[h].op = "notify"
  /\ \A u, v \in hand[h].to : note[id[u]] = NoNote /\ (u # v => id[u] # id[v])
  /\ note' = [n \in Notes |->
       IF \E u \in hand[h].to : id[u] = n
       THEN [NoNote EXCEPT !.user = CHOOSE u \in hand[h].to : id[u] = n]
       ELSE note[n]]
  /\ ToCount(h, hand[h].users)
  /\ Blur(hand[h].to, hand[h].users)
  /\ UNCHANGED <<muted, badge, hands>>

PortalKinds == {"portal read", "portal remove"}

ChangeKinds == {"read", "remove", "archive", "restore"} \cup PortalKinds

BeginChange(h, u, n, kind) ==
  /\ Reaches(u, n)
  /\ kind \in PortalKinds => u \notin Admins
  /\ Hold(h, [op |-> kind, by |-> u, note |-> n])

\* The row may be gone by the time it is written, which fails the request.
Present(h, kind) == hand[h].op = kind /\ note[hand[h].note].user # Noone

\* Mutant of MarkAsRead: nothing is pushed.
MarkAsReadQuietly(h) ==
  /\ Present(h, "read")
  /\ note' = [note EXCEPT ![hand[h].note].read = TRUE]
  /\ Blur({note[hand[h].note].user}, {hand[h].by})
  /\ Done(h)
  /\ UNCHANGED <<muted, badge, hands>>

MarkAsRead(h) ==
  /\ Present(h, "read")
  /\ note' = [note EXCEPT ![hand[h].note].read = TRUE]
  /\ Blur({note[hand[h].note].user}, {hand[h].by})
  /\ ToCount(h, {hand[h].by})
  /\ UNCHANGED <<muted, badge, hands>>

\* An id is not used twice.
RemoveNote(h) ==
  /\ Present(h, "remove")
  /\ note' = [note EXCEPT ![hand[h].note] = [NoNote EXCEPT !.archived = TRUE]]
  /\ Blur({note[hand[h].note].user}, {hand[h].by})
  /\ ToCount(h, {hand[h].by})
  /\ UNCHANGED <<muted, badge, hands>>

\* The customer portal reads and removes what it shows without a push.
PortalWrite(h, kind, row) ==
  /\ Present(h, kind)
  /\ note' = [note EXCEPT ![hand[h].note] = row]
  /\ Blur({note[hand[h].note].user}, {})
  /\ Done(h)
  /\ UNCHANGED <<muted, badge, hands>>

PortalMarkAsRead(h) ==
  PortalWrite(h, "portal read", [note[hand[h].note] EXCEPT !.read = TRUE])

PortalRemove(h) ==
  PortalWrite(h, "portal remove", [NoNote EXCEPT !.archived = TRUE])

PortalMarkAllAsRead(u) ==
  /\ u \notin Admins
  /\ note' = [n \in Notes |->
                IF note[n].user = u THEN [note[n] EXCEPT !.read = TRUE] ELSE note[n]]
  /\ Blur(IF note' = note THEN {} ELSE {u}, {})
  /\ UNCHANGED <<muted, badge, hand, hands>>

Archive(h, archived) ==
  /\ Present(h, IF archived THEN "archive" ELSE "restore")
  /\ note' = [note EXCEPT ![hand[h].note].archived = archived]
  /\ Blur({note[hand[h].note].user}, {})
  /\ Done(h)
  /\ UNCHANGED <<muted, badge, hands>>

\* An administrator has no organization: his request marks the notifications
\* of everyone, and pushes nothing.
MarkAllAsRead(h, u) ==
  /\ hand[h] = Off /\ hands < MaxHands
  /\ hands' = hands + 1
  /\ LET mine == {n \in Notes : Reaches(u, n) /\ ~note[n].read}
         pushed == IF u \in Admins THEN {} ELSE {u}
     IN /\ note' = [n \in Notes |->
                      IF n \in mine THEN [note[n] EXCEPT !.read = TRUE] ELSE note[n]]
        /\ IF pushed = {} THEN UNCHANGED hand ELSE ToCount(h, pushed)
        /\ Blur({note[n].user : n \in mine}, pushed)
  /\ UNCHANGED <<muted, badge>>

CountUnread(h) ==
  /\ hand[h].op = "count"
  /\ hand' = [hand EXCEPT ![h] =
       [op |-> "push", users |-> @.users, counts |-> [u \in @.users |-> Unread(u)]]]
  /\ UNCHANGED <<note, muted, badge, hands, blurred>>

\* A push that nothing overlapped makes the badge right again.
PushBadge(h) ==
  /\ hand[h].op = "push"
  /\ badge' = [u \in Users |->
       IF u \in hand[h].users THEN hand[h].counts[u] ELSE badge[u]]
  /\ blurred' = {u \in blurred : \/ u \notin hand[h].users
                                 \/ hand[h].counts[u] # Unread(u)
                                 \/ \E g \in Hands \ {h} : hand[g] # Off}
  /\ Done(h)
  /\ UNCHANGED <<note, muted, hands>>

\* A write fails; what fails in counting is passed over.
DropHand(h) ==
  /\ hand[h] # Off
  /\ blurred' = IF hand[h].op \in {"count", "push"}
                THEN blurred \cup hand[h].users ELSE blurred
  /\ Done(h)
  /\ UNCHANGED <<note, muted, badge, hands>>

\* updatePreferences, of which only enableInApp is looked at here.
SetMuted(u) ==
  /\ muted' = IF u \in muted THEN muted \ {u} ELSE muted \cup {u}
  /\ UNCHANGED <<note, badge, hand, hands, blurred>>

InboxNext ==
  \/ \E h \in Hands :
       \/ \E users \in SUBSET Users : BeginNotify(h, users)
       \/ \E u \in Users, n \in Notes, kind \in ChangeKinds : BeginChange(h, u, n, kind)
       \/ hand[h].op = "notify" /\ \E id \in [hand[h].to -> Notes] : Notify(h, id)
       \/ MarkAsRead(h) \/ RemoveNote(h) \/ PortalMarkAsRead(h) \/ PortalRemove(h)
       \/ \E archived \in BOOLEAN : Archive(h, archived)
       \/ \E u \in Users : MarkAllAsRead(h, u)
       \/ CountUnread(h) \/ PushBadge(h) \/ DropHand(h)
  \/ \E u \in Users : SetMuted(u) \/ PortalMarkAllAsRead(u)

InboxSpec == InboxInit /\ [][InboxNext]_inboxVars
-----------------------------------------------------------------------------
(* Properties. *)

InboxTypeOK ==
  /\ note \in [Notes -> [user : Users \cup {Noone}, read : BOOLEAN, archived : BOOLEAN]]
  /\ muted \subseteq Users
  /\ badge \in [Users -> 0..Cardinality(Notes)]
  /\ hands \in 0..MaxHands
  /\ blurred \subseteq Users

\* When nothing is under way the badge shows the number of unread
\* notifications, whatever was read, removed or sent in between.  It is wrong
\* only after an archive or a restore, a change made in the customer portal or
\* by an administrator, a push that failed, or two pushes to the user that
\* overlapped, and until the next push that nothing overlaps
\* (emitUnreadCount, refreshUnreadCounts).
BadgeIsRight ==
  \A u \in Users \ blurred : ~Counting(u) => badge[u] = Unread(u)
=============================================================================
