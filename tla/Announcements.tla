--------------------------- MODULE Announcements ---------------------------
(***************************************************************************)
(* Announcements: created, edited and deleted by admins, published when    *)
(* they are due by a sweep that runs every minute on every instance, and   *)
(* expired by the same sweep.  Publishing is AnnouncementService.publish:  *)
(* read the row, mark it PUBLISHED, write a notification per recipient.    *)
(*                                                                         *)
(* Somebody in the audience is active and takes in-app notifications;      *)
(* nobody receives an announcement otherwise.  Sweeps take fifty rows at   *)
(* a time, more than the instances have.  Sockets and audit rows are left  *)
(* out: no decision reads them.                                            *)
(***************************************************************************)
EXTENDS Naturals, FiniteSets

CONSTANTS
  Tenant,       \* announcements made in a tenant
  Platform,     \* those of the platform admin, without an organization
  NoNews,
  Senders,      \* requests and sweeps in flight together
  MaxThrows     \* bound: database errors and deaths

News == Tenant \union Platform

ASSUME AnnouncementsAssumption ==
  /\ Tenant \intersect Platform = {}
  /\ NoNews \notin News
  /\ IsFiniteSet(Senders)
  /\ MaxThrows \in Nat

VARIABLES
  news,         \* the Announcement rows
  broadcasts,   \* how often each announcement was sent to its audience
  work,         \* what each request or sweep in flight has still to do
  edited,       \* the announcements that were edited or deleted
  throws        \* database errors and deaths so far

newsVars == <<news, broadcasts, work, edited, throws>>
-----------------------------------------------------------------------------
(* DRAFT is in the enumeration, but no create writes it, so that no update  *)
(* makes a row SCHEDULED.                                                   *)
NewsStatus == {"NONE", "SCHEDULED", "PUBLISHED", "EXPIRED", "CANCELLED",
               "DELETED"}

\* at is scheduledAt.  expiresAt is left open: it decides only which of the
\* published announcements a sweep expires.
Row == [status : NewsStatus, at : {"none", "later", "due"}]

\* What an update writes: the status and scheduledAt.
Edit == [to : {"keep", "PUBLISHED", "CANCELLED", "EXPIRED"},
         at : {"keep", "none", "later"}]

NoEdit == [to |-> "keep", at |-> "keep"]

\* todo are the announcements to publish yet, one the one being published
\* or edited.
SenderWork ==
  {job \in [op    : {"idle", "publish", "mark", "send", "update"},
            sweep : BOOLEAN,
            todo  : SUBSET News,
            one   : News \union {NoNews},
            edit  : Edit] :
     job.op \in {"mark", "send", "update"} => job.one \in News}

Rest == [op |-> "idle", sweep |-> FALSE, todo |-> {}, one |-> NoNews,
         edit |-> NoEdit]

NewsTypeOK ==
  /\ news \in [News -> Row]
  /\ broadcasts \in [News -> Nat]
  /\ work \in [Senders -> SenderWork]
  /\ edited \subseteq News
  /\ throws \in 0 .. MaxThrows

NewsInit ==
  /\ news = [n \in News |-> [status |-> "NONE", at |-> "none"]]
  /\ broadcasts = [n \in News |-> 0]
  /\ work = [w \in Senders |-> Rest]
  /\ edited = {}
  /\ throws = 0

Stored(n) == news[n].status \notin {"NONE", "DELETED"}

Goes(w, job) == work' = [work EXCEPT ![w] = job]

\* What a worker does after one announcement, published or not: a sweep
\* catches what publish throws and goes on, a request is over.
After(job) ==
  IF job.sweep
  THEN [Rest EXCEPT !.op = "publish", !.sweep = TRUE, !.todo = job.todo]
  ELSE Rest
-----------------------------------------------------------------------------
(* publish. *)

\* Announcements that are PUBLISHED are left alone; others that are not
\* SCHEDULED, or gone, make it throw.
FindToPublish(w, n) ==
  LET job == [work[w] EXCEPT !.todo = @ \ {n}] IN
  /\ work[w].op = "publish"
  /\ n \in work[w].todo
  /\ Goes(w, IF news[n].status = "SCHEDULED"
             THEN [job EXCEPT !.op = "mark", !.one = n] ELSE After(job))
  /\ UNCHANGED <<news, broadcasts, edited, throws>>

\* Mutant of MarkPublished: only the date of publication is written.
MarkPublishedDateOnly(w) ==
  /\ work[w].op = "mark"
  /\ Stored(work[w].one)
  /\ Goes(w, [work[w] EXCEPT !.op = "send"])
  /\ UNCHANGED <<news, broadcasts, edited, throws>>

\* update by id, whatever became of the row since it was read.
MarkPublished(w) ==
  /\ work[w].op = "mark"
  /\ Stored(work[w].one)
  /\ news' = [news EXCEPT ![work[w].one] =
               [@ EXCEPT !.status = "PUBLISHED", !.at = "none"]]
  /\ Goes(w, [work[w] EXCEPT !.op = "send"])
  /\ UNCHANGED <<broadcasts, edited, throws>>

MarkDeleted(w) ==
  /\ work[w].op = "mark"
  /\ ~Stored(work[w].one)
  /\ Goes(w, After(work[w]))
  /\ UNCHANGED <<news, broadcasts, edited, throws>>

\* createMany.  Notification.organizationId is required, so that the insert
\* of a platform announcement's notifications throws.
Send(w) ==
  /\ work[w].op = "send"
  /\ broadcasts' = IF work[w].one \in Platform THEN broadcasts
                   ELSE [broadcasts EXCEPT ![work[w].one] = @ + 1]
  /\ Goes(w, After(work[w]))
  /\ UNCHANGED <<news, edited, throws>>
-----------------------------------------------------------------------------
(* The sweep. *)

\* Mutant of DueNews: the date is compared the wrong way round.
DueNewsLater ==
  {n \in News : /\ news[n].status = "SCHEDULED"
                /\ news[n].at = "later"}

DueNews ==
  {n \in News : /\ news[n].status = "SCHEDULED"
                /\ news[n].at = "due"}

PublishDue(w) ==
  /\ work[w] = Rest
  /\ Goes(w, After([Rest EXCEPT !.sweep = TRUE, !.todo = DueNews]))
  /\ UNCHANGED <<news, broadcasts, edited, throws>>

\* Once it is through with its list: those whose expiresAt is past.
ExpireDueNews(w) ==
  /\ work[w].op = "publish" /\ work[w].sweep /\ work[w].todo = {}
  /\ \E past \in SUBSET {n \in News : news[n].status = "PUBLISHED"} :
       news' = [n \in News |->
                 IF n \in past THEN [news[n] EXCEPT !.status = "EXPIRED"]
                 ELSE news[n]]
  /\ Goes(w, Rest)
  /\ UNCHANGED <<broadcasts, edited, throws>>
-----------------------------------------------------------------------------
(* Admins. *)

\* Without a date the row is made PUBLISHED and then published.  A date that
\* is past already is one that comes at once.
CreateAnnouncement(w, n, at) ==
  /\ work[w] = Rest
  /\ news[n].status = "NONE"
  /\ news' = [news EXCEPT ![n] =
               [@ EXCEPT !.at = at,
                         !.status = IF at = "none" THEN "PUBLISHED"
                                    ELSE "SCHEDULED"]]
  /\ IF at = "none" THEN Goes(w, [Rest EXCEPT !.op = "publish", !.todo = {n}])
                    ELSE UNCHANGED work
  /\ UNCHANGED <<broadcasts, edited, throws>>

\* Bound: each announcement is edited once.
UpdateAnnouncement(w, n, edit) ==
  /\ work[w] = Rest
  /\ Stored(n) /\ n \notin edited
  /\ news[n].status = "PUBLISHED"
       => edit.to \in {"EXPIRED", "CANCELLED"}
  /\ Goes(w, [Rest EXCEPT !.op = "update", !.one = n, !.edit = edit])
  /\ edited' = edited \union {n}
  /\ UNCHANGED <<news, broadcasts, throws>>

\* A row deleted in the meantime makes the update throw.  publish follows
\* the status PUBLISHED.
WriteUpdate(w) ==
  LET n == work[w].one
      edit == work[w].edit
      publishes == edit.to = "PUBLISHED" IN
  /\ work[w].op = "update"
  /\ news' =
       IF ~Stored(n) THEN news
       ELSE [news EXCEPT ![n] =
              [status |-> IF edit.to = "keep" THEN @.status ELSE edit.to,
               at     |-> IF publishes THEN "none"
                          ELSE IF edit.at = "keep" THEN @.at ELSE edit.at]]
  /\ Goes(w, IF publishes /\ Stored(n)
             THEN [Rest EXCEPT !.op = "publish", !.todo = {n}] ELSE Rest)
  /\ UNCHANGED <<broadcasts, edited, throws>>

RemoveAnnouncement(n) ==
  /\ Stored(n)
  /\ news' = [news EXCEPT ![n] =
               [status |-> "DELETED", at |-> "none"]]
  /\ edited' = edited \union {n}
  /\ UNCHANGED <<broadcasts, work, throws>>
-----------------------------------------------------------------------------
(* Time and failures.  A date passes unnoticed while nothing reads it. *)

DateComes(n) ==
  /\ news[n].status = "SCHEDULED" /\ news[n].at = "later"
  /\ news' = [news EXCEPT ![n].at = "due"]
  /\ UNCHANGED <<broadcasts, work, edited, throws>>

\* A database error, which a sweep catches while it publishes, or a death.
Fails(w) ==
  /\ work[w] # Rest
  /\ throws < MaxThrows
  /\ throws' = throws + 1
  /\ \E job \in {Rest, After(work[w])} : Goes(w, job)
  /\ UNCHANGED <<news, broadcasts, edited>>
-----------------------------------------------------------------------------
Proceeds(w) ==
  \/ MarkPublished(w) \/ MarkDeleted(w) \/ Send(w) \/ ExpireDueNews(w)
  \/ WriteUpdate(w)
  \/ \E n \in News : FindToPublish(w, n)

NewsNext ==
  \/ \E w \in Senders :
       \/ Proceeds(w) \/ PublishDue(w) \/ Fails(w)
       \/ \E n \in News, at \in {"none", "later"} : CreateAnnouncement(w, n, at)
       \/ \E n \in News, edit \in Edit : UpdateAnnouncement(w, n, edit)
  \/ \E n \in News : RemoveAnnouncement(n) \/ DateComes(n)

NewsSpec == NewsInit /\ [][NewsNext]_newsVars

\* Continuations run, and the sweep comes round every minute.
NewsFairness ==
  /\ \A w \in Senders : WF_newsVars(Proceeds(w))
  /\ SF_newsVars(\E w \in Senders : PublishDue(w))

FairNewsSpec == NewsSpec /\ NewsFairness
-----------------------------------------------------------------------------
(* Properties. *)

\* However many sweeps overlap with each other and with edits, an
\* announcement reaches its audience at most as often as workers can be in
\* flight together: no later sweep finds it SCHEDULED again.
BroadcastsBounded ==
  \A n \in News : broadcasts[n] <= Cardinality(Senders)

\* A scheduled announcement that is due and that nobody touches leaves the
\* schedule; a tenant's reaches its audience unless the database failed.
DueIsDelivered ==
  \A n \in News :
    news[n].status = "SCHEDULED" /\ news[n].at = "due"
      ~> \/ broadcasts[n] > 0
         \/ n \in edited
         \/ news[n].status # "SCHEDULED" /\ (n \in Platform \/ throws > 0)
-----------------------------------------------------------------------------
(* Statements of the repository that the model refutes. *)

Busy(n) == \E w \in Senders : work[w].one = n \/ n \in work[w].todo

\* announcement.dto.ts:61: an announcement without a date is published
\* immediately.  Published, here, as publish does it: to its audience.
PublishedIsDelivered ==
  \A n \in Tenant :
    /\ news[n].status = "PUBLISHED"
    /\ ~Busy(n)
    /\ throws = 0
    => broadcasts[n] > 0
=============================================================================
