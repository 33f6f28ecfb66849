----------------------------- MODULE DeskProofs -----------------------------
(***************************************************************************)
(* Proofs about KnowledgeBase, Reports, Threads and Catalogue, for any     *)
(* articles and readers, reports, tickets, plans and any number of         *)
(* requests in flight.                                                     *)
(***************************************************************************)
EXTENDS KnowledgeBase, Reports, Threads, Catalogue, FiniteSetTheorems, TLAPS
-----------------------------------------------------------------------------
(* The reports. *)

\* What a request in flight may look like.
UpdateRequests ==
  {u \in [op : {"update"}, report : ReportIds, kind : Kinds \cup {NoKind},
          filters : BOOLEAN, named : Kinds \cup {NoKind}, row : ReportRow] :
     u.kind # NoKind \/ u.filters}

ExportRequests ==
  [op : {"export", "record"}, report : ReportIds \cup {NoReport}, mailed : BOOLEAN]

Requests == [op : {"none"}] \cup UpdateRequests
            \cup [op : {"remove"}, report : ReportIds] \cup ExportRequests

ReportTypes == ReportTypeOK /\ editor \in [Editors -> Requests]

Updates(e, r) == editor[e].op = "update" /\ editor[e].report = r

\* What an update in flight knows of a report that nothing has tangled: the
\* row it read still stands, it gives a category or filters and not both, its
\* filters name no category, and no other update of the report is in flight.
UpdateKnows(e, r) ==
  /\ editor[e].row = report[r]
  /\ editor[e].named = NoKind
  /\ editor[e].filters <=> editor[e].kind = NoKind
  /\ \A d \in Editors : Updates(d, r) => d = e

ReportInv ==
  \A r \in ReportIds : Saved(r) /\ r \notin tangled =>
    /\ CategoryOf(report[r]) = report[r].type
    /\ \A e \in Editors : Updates(e, r) => UpdateKnows(e, r)

\* The types are inductive.
LEMMA TypesInductive == ReportTypes /\ [ReportNext]_reportVars => ReportTypes'
<1> SUFFICES ASSUME ReportTypes, [ReportNext]_reportVars
             PROVE  ReportTypes'
  OBVIOUS
<1> USE ReportsAssumption DEF ReportTypes, ReportTypeOK
<1>1. ASSUME NEW r \in ReportIds, NEW kind \in Kinds,
             NEW named \in Kinds \cup {NoKind}, CreateReport(r, kind, named)
      PROVE  ReportTypes'
  BY <1>1 DEF CreateReport, ReportRow
<1>2. ASSUME NEW e \in Editors, NEW r \in ReportIds, NEW kind \in Kinds \cup {NoKind},
             NEW named \in Kinds \cup {NoKind}, NEW filters \in BOOLEAN,
             BeginUpdateReport(e, r, kind, filters, named)
      PROVE  ReportTypes'
  <2>0. [op |-> "update", report |-> r, kind |-> kind, filters |-> filters,
         named |-> named, row |-> report[r]] \in UpdateRequests
    <3>1. report[r] \in ReportRow /\ (kind # NoKind \/ filters)
      BY <1>2 DEF BeginUpdateReport, Begins, Saved
    <3> QED
      BY <3>1 DEF UpdateRequests
  <2>1. editor' \in [Editors -> Requests]
    BY <1>2, <2>0 DEF BeginUpdateReport, Begins, Requests
  <2>2. UNCHANGED <<report, mails, downloads>> /\ tangled' \subseteq ReportIds
    BY <1>2 DEF BeginUpdateReport, Begins
  <2> QED
    BY <2>1, <2>2
<1>3. ASSUME NEW e \in Editors, NEW r \in ReportIds,
             BeginRemoveReport(e, r) \/ ExportSaved(e, r)
      PROVE  ReportTypes'
  <2>1. CASE BeginRemoveReport(e, r)
    BY <2>1 DEF BeginRemoveReport, Begins, Requests
  <2>2. CASE ExportSaved(e, r)
    <3>1. [op |-> "export", report |-> r, mailed |-> FALSE] \in Requests
      BY DEF Requests, ExportRequests
    <3> QED
      BY <2>2, <3>1 DEF ExportSaved, Begins
  <2> QED
    BY <1>3, <2>1, <2>2
<1>4. ASSUME NEW e \in Editors, NEW kind \in Kinds, NEW mailed \in BOOLEAN,
             BeginExport(e, kind, mailed)
      PROVE  ReportTypes'
  BY <1>4 DEF BeginExport, Requests, ExportRequests
<1>5. ASSUME NEW e \in Editors, WriteUpdateReport(e)
      PROVE  ReportTypes'
  <2>1. editor[e] \in UpdateRequests
    BY <1>5 DEF WriteUpdateReport, Requests, ExportRequests
  <2>2. /\ editor[e].report \in ReportIds
        /\ editor[e].kind \in Kinds \cup {NoKind}
        /\ editor[e].named \in Kinds \cup {NoKind}
        /\ editor[e].row \in ReportRow
        /\ editor[e].kind # NoKind \/ editor[e].filters
    BY <2>1 DEF UpdateRequests
  <2>3. report' \in [ReportIds -> ReportRow \cup {NoReport}]
    <3> DEFINE u == editor[e]
               type == IF u.kind = NoKind THEN report[u.report].type ELSE u.kind
               goes == IF ~u.filters THEN u.kind
                       ELSE IF u.named # NoKind THEN u.named
                       ELSE CategoryOf(u.row)
    <3>1. report' = [report EXCEPT ![u.report] = [type |-> type, category |-> goes]]
      BY <1>5 DEF WriteUpdateReport
    <3>2. report[u.report] \in ReportRow
      BY <1>5, <2>2 DEF WriteUpdateReport, Saved
    <3>3. type \in Kinds /\ goes \in Kinds
      BY <2>2, <3>2 DEF ReportRow, CategoryOf
    <3> HIDE DEF type, goes
    <3>4. [type |-> type, category |-> goes] \in ReportRow
      BY <3>3 DEF ReportRow
    <3> QED
      BY <3>1, <3>4
  <2> QED
    BY <1>5, <2>3 DEF WriteUpdateReport, Requests, AtRest
<1>6. ASSUME NEW e \in Editors, WriteRemoveReport(e) \/ FailReport(e)
      PROVE  ReportTypes'
  BY <1>6 DEF WriteRemoveReport, FailReport, Requests, AtRest
<1>7. ASSUME NEW e \in Editors, MailExport(e) \/ RecordExport(e)
      PROVE  ReportTypes'
  <2>1. CASE MailExport(e)
    <3>1. editor[e] \in ExportRequests
      BY <2>1 DEF MailExport, Requests, UpdateRequests
    <3>2. [editor[e] EXCEPT !.mailed = FALSE, !.op = "record"] \in ExportRequests
      BY <3>1 DEF ExportRequests
    <3> QED
      BY <2>1, <3>2 DEF MailExport, Requests
  <2>2. CASE RecordExport(e)
    BY <2>2 DEF RecordExport, Requests, AtRest
  <2> QED
    BY <1>7, <2>1, <2>2
<1>8. CASE UNCHANGED reportVars
  BY <1>8 DEF reportVars
<1> QED
  BY <1>1, <1>2, <1>3, <1>4, <1>5, <1>6, <1>7, <1>8 DEF ReportNext

\* So is what the requests know, whichever of them runs next.
LEMMA ReportInductive ==
  ReportTypes /\ ReportInv /\ [ReportNext]_reportVars => ReportInv'
<1> SUFFICES ASSUME ReportTypes, ReportInv, [ReportNext]_reportVars,
                    NEW r \in ReportIds, Saved(r)', (r \notin tangled)'
             PROVE  /\ (CategoryOf(report[r]) = report[r].type)'
                    /\ \A e \in Editors : Updates(e, r)' => UpdateKnows(e, r)'
  BY DEF ReportInv
<1> DEFINE Good == /\ (CategoryOf(report[r]) = report[r].type)'
                   /\ \A e \in Editors : Updates(e, r)' => UpdateKnows(e, r)'
<1> USE ReportsAssumption
<1>1. ASSUME NEW q \in ReportIds, NEW kind \in Kinds,
             NEW named \in Kinds \cup {NoKind}, CreateReport(q, kind, named)
      PROVE  Good
  <2>1. CASE q = r
    <3>1. \A e \in Editors : ~Updates(e, r)'
      BY <1>1, <2>1 DEF CreateReport, Updates, AtRest
    <3> QED
      BY <1>1, <2>1, <3>1 DEF CreateReport, CategoryOf, ReportTypes, ReportTypeOK
  <2>2. CASE q # r
    BY <1>1, <2>2 DEF CreateReport, ReportInv, Updates, UpdateKnows, Saved,
                      CategoryOf, ReportTypes, ReportTypeOK
  <2> QED
    BY <2>1, <2>2
<1>2. ASSUME NEW d \in Editors, NEW q \in ReportIds, NEW kind \in Kinds \cup {NoKind},
             NEW named \in Kinds \cup {NoKind}, NEW filters \in BOOLEAN,
             BeginUpdateReport(d, q, kind, filters, named)
      PROVE  Good
  <2>1. /\ UNCHANGED report /\ Saved(r)
        /\ r \notin tangled
        /\ ~Updates(d, r)
        /\ \A e \in Editors \ {d} : editor'[e] = editor[e]
        /\ editor'[d] = [op |-> "update", report |-> q, kind |-> kind,
                         filters |-> filters, named |-> named, row |-> report[q]]
    BY <1>2 DEF BeginUpdateReport, Begins, Saved, Updates, AtRest, ReportTypes
  <2>2. CASE q # r
    BY <2>1, <2>2 DEF ReportInv, Updates, UpdateKnows
  <2>3. CASE q = r
    <3>1. /\ named = NoKind /\ (filters <=> kind = NoKind)
          /\ \A e \in Editors : ~Updates(e, r)
      BY <1>2, <2>3 DEF BeginUpdateReport, Updates
    <3> QED
      BY <2>1, <2>3, <3>1 DEF ReportInv, Updates, UpdateKnows
  <2> QED
    BY <2>2, <2>3
<1>3. ASSUME NEW d \in Editors, WriteUpdateReport(d)
      PROVE  Good
  <2> DEFINE u == editor[d]
  <2>1. /\ UNCHANGED tangled /\ r \notin tangled
        /\ ~Updates(d, r)'
        /\ \A e \in Editors \ {d} : editor'[e] = editor[e]
    BY <1>3 DEF WriteUpdateReport, Updates, AtRest, ReportTypes
  <2>2. CASE u.report # r
    <3>1. report'[r] = report[r]
      BY <1>3, <2>2 DEF WriteUpdateReport, ReportTypes, ReportTypeOK
    <3> QED
      BY <2>1, <3>1 DEF ReportInv, Updates, UpdateKnows, Saved, CategoryOf
  <2>3. CASE u.report = r
    <3>1. /\ Saved(r) /\ Updates(d, r)
          /\ UpdateKnows(d, r)
          /\ CategoryOf(report[r]) = report[r].type
      BY <1>3, <2>1, <2>3 DEF WriteUpdateReport, ReportInv, Updates
    <3>2. report'[r] = [type |-> IF u.kind = NoKind THEN report[r].type ELSE u.kind,
                        category |-> IF ~u.filters THEN u.kind
                                     ELSE IF u.named # NoKind THEN u.named
                                     ELSE CategoryOf(u.row)]
      BY <1>3, <2>3 DEF WriteUpdateReport, ReportTypes, ReportTypeOK
    <3>3. (CategoryOf(report[r]) = report[r].type)'
      BY <3>1, <3>2 DEF UpdateKnows, CategoryOf
    <3>4. \A e \in Editors : ~Updates(e, r)'
      BY <2>1, <3>1 DEF UpdateKnows, Updates
    <3> QED
      BY <3>3, <3>4
  <2> QED
    BY <2>2, <2>3
<1>4. ASSUME NEW d \in Editors, WriteRemoveReport(d)
      PROVE  Good
  <2>1. /\ ~Updates(d, r)'
        /\ \A e \in Editors \ {d} : editor'[e] = editor[e]
    BY <1>4 DEF WriteRemoveReport, Updates, AtRest, ReportTypes
  <2>2. editor[d].report # r
    BY <1>4 DEF WriteRemoveReport, ReportTypes, ReportTypeOK, Saved
  <2>3. report'[r] = report[r] /\ r \notin tangled
    BY <1>4, <2>2 DEF WriteRemoveReport, ReportTypes, ReportTypeOK
  <2> QED
    BY <2>1, <2>3 DEF ReportInv, Updates, UpdateKnows, Saved, CategoryOf
<1>5. ASSUME NEW d \in Editors, UNCHANGED <<report, tangled>>, ~Updates(d, r)',
             \A e \in Editors \ {d} : editor'[e] = editor[e]
      PROVE  Good
  BY <1>5 DEF ReportInv, Updates, UpdateKnows, Saved, CategoryOf
<1>6. ASSUME NEW d \in Editors, FailReport(d) \/ MailExport(d) \/ RecordExport(d)
      PROVE  Good
  <2>1. CASE FailReport(d) \/ RecordExport(d)
    BY <1>5, <2>1 DEF FailReport, RecordExport, Updates, AtRest, ReportTypes
  <2>2. CASE MailExport(d)
    <3>1. editor[d] \in ExportRequests
      BY <2>2 DEF MailExport, ReportTypes, Requests, UpdateRequests
    <3>2. editor'[d].op = "record"
      BY <2>2, <3>1 DEF MailExport, ReportTypes, ExportRequests
    <3> QED
      BY <1>5, <2>2, <3>2 DEF MailExport, Updates, ReportTypes
  <2> QED
    BY <1>6, <2>1, <2>2
<1>7. ASSUME NEW d \in Editors, NEW q \in ReportIds,
             BeginRemoveReport(d, q) \/ ExportSaved(d, q)
      PROVE  Good
  BY <1>5, <1>7 DEF BeginRemoveReport, ExportSaved, Begins, Updates, ReportTypes
<1>8. ASSUME NEW d \in Editors, NEW kind \in Kinds, NEW mailed \in BOOLEAN,
             BeginExport(d, kind, mailed)
      PROVE  Good
  BY <1>5, <1>8 DEF BeginExport, Updates, ReportTypes
<1>9. CASE UNCHANGED reportVars
  BY <1>9 DEF reportVars, ReportInv, Updates, UpdateKnows, Saved, CategoryOf
<1> QED
  BY <1>1, <1>2, <1>3, <1>4, <1>6, <1>7, <1>8, <1>9 DEF ReportNext

\* At first there is no report.
LEMMA ReportInitially == ReportInit => ReportTypes /\ ReportInv
BY ReportsAssumption
   DEF ReportInit, ReportTypes, ReportTypeOK, Requests, AtRest, ReportInv, Saved

\* Every reachable state of reports and exports is well typed.
THEOREM ReportTypeCorrect == ReportSpec => []ReportTypeOK
<1>1. ReportTypes => ReportTypeOK
  BY DEF ReportTypes
<1> QED
  BY <1>1, ReportInitially, TypesInductive, PTL DEF ReportSpec

\* A report runs the category it is filed under, through any updates that
\* give a category or filters.
THEOREM ReportRunsItsType == ReportSpec => []RunsItsType
<1>1. ReportInv => RunsItsType
  BY DEF ReportInv, RunsItsType
<1> QED
  BY <1>1, ReportInitially, TypesInductive, ReportInductive, PTL DEF ReportSpec

-----------------------------------------------------------------------------
(* The thread of a ticket. *)

HelperRequest ==
  {Ready}
  \cup [op : {"assign", "tell"}, to : Agents, tells : BOOLEAN]
  \cup [op : {"unassign", "wipe"}]
  \cup [op : {"reply", "respond"}, by : Authors, internal : BOOLEAN, seen : Times]
  \cup [op : {"fill"}, labels : SUBSET Labels]

ThreadTypes ==
  /\ ThreadTypeOK
  /\ helper \in [Helpers -> HelperRequest]
  /\ helped \in 0 .. MaxHelp
  /\ rivals \in BOOLEAN /\ mixed \in BOOLEAN

\* As long as no two answers of staff overlapped at most one is under way, and
\* it decides by what the row still says.
AnswersInv ==
  ~rivals =>
    /\ responded = answered
    /\ \A h, d \in Helpers : Answering(h) /\ Answering(d) => h = d
    /\ \A h \in Helpers : Answering(h) => helper[h].seen = responded

Syncing(h) == At(h, "wipe") \/ At(h, "fill")

\* As long as no two changes of the tags overlapped at most one replacement is
\* under way, and between its taking and its giving there are no tags.
TagsInv ==
  ~mixed =>
    /\ \A h, d \in Helpers : Syncing(h) /\ Syncing(d) => h = d
    /\ \A h \in Helpers : At(h, "fill") => tags = {} /\ wanted = helper[h].labels
    /\ (\A h \in Helpers : ~Syncing(h)) => tags = wanted

ThreadInv == ThreadTypes /\ AnswersInv /\ TagsInv

\* A request moves.
LEMMA HelperMoves ==
  ASSUME NEW h \in Helpers, NEW request \in HelperRequest, Does(h, request),
         helper \in [Helpers -> HelperRequest]
  PROVE  /\ helper' \in [Helpers -> HelperRequest]
         /\ helper'[h] = request
         /\ \A d \in Helpers \ {h} : helper'[d] = helper[d]
BY DEF Does

\* Nothing that concerns the first response changes for the worse.
LEMMA AnswersStay ==
  ASSUME AnswersInv, UNCHANGED <<responded, answered, rivals>>,
         \A h \in Helpers : Answering(h)' =>
           Answering(h) /\ helper'[h].seen = helper[h].seen
  PROVE  AnswersInv'
BY DEF AnswersInv, Answering, At

\* Nothing that concerns the tags changes for the worse.
LEMMA TagsStay ==
  ASSUME TagsInv, UNCHANGED <<tags, wanted, mixed>>,
         \A h \in Helpers : Syncing(h) <=> Syncing(h)',
         \A h \in Helpers : At(h, "fill")' => helper'[h] = helper[h]
  PROVE  TagsInv'
BY DEF TagsInv, Syncing, At

\* A request moves on beside replies and tags.
LEMMA HelperAside ==
  ASSUME ThreadInv, NEW h \in Helpers, NEW request \in HelperRequest, Does(h, request),
         helper[h].op \notin {"reply", "respond", "wipe", "fill"},
         request.op \notin {"reply", "respond", "wipe", "fill"},
         UNCHANGED <<now, responded, replies, tags, answered, rivals, wanted, mixed>>,
         assignee' \in Agents \cup {Nobody}, watchers' \subseteq Agents,
         helped' \in 0 .. MaxHelp
  PROVE  ThreadInv'
<1>1. /\ helper' \in [Helpers -> HelperRequest]
      /\ helper'[h] = request
      /\ \A d \in Helpers \ {h} : helper'[d] = helper[d]
  BY HelperMoves DEF ThreadInv, ThreadTypes
<1>2. ThreadTypes'
  BY <1>1 DEF ThreadInv, ThreadTypes, ThreadTypeOK
<1>3. \A d \in Helpers : Answering(d)' =>
        Answering(d) /\ helper'[d].seen = helper[d].seen
  BY <1>1 DEF Answering, At
<1>4. /\ \A d \in Helpers : Syncing(d) <=> Syncing(d)'
      /\ \A d \in Helpers : At(d, "fill")' => helper'[d] = helper[d]
  BY <1>1 DEF Syncing, At
<1>5. AnswersInv'
  BY <1>3, AnswersStay DEF ThreadInv, Answering, At
<1>6. TagsInv'
  BY <1>4, TagsStay DEF ThreadInv, Syncing, At
<1> QED
  BY <1>2, <1>5, <1>6 DEF ThreadInv

\* A step that no request takes.
LEMMA BesideHelpers ==
  ASSUME ThreadInv, UNCHANGED <<helper, responded, answered, rivals>>,
         ThreadTypes', 
         \/ UNCHANGED <<tags, wanted, mixed>>
         \/ \E l \in Labels :
              /\ mixed' = (mixed \/ Busy("wipe") \/ Busy("fill"))
              /\ \/ tags' = tags \cup {l} /\ wanted' = wanted \cup {l}
                 \/ tags' = tags \ {l} /\ wanted' = wanted \ {l}
  PROVE  ThreadInv'
<1>1. AnswersInv'
  BY DEF ThreadInv, AnswersInv, Answering, At
<1>2. CASE UNCHANGED <<tags, wanted, mixed>>
  BY <1>1, <1>2 DEF ThreadInv, TagsInv, Syncing, At
<1>3. CASE mixed' = (mixed \/ Busy("wipe") \/ Busy("fill"))
  <2>1. ~mixed' => ~mixed /\ \A h \in Helpers : ~Syncing(h)
    BY <1>3 DEF Busy, Syncing
  <2>2. ~mixed' => tags = wanted
    BY <2>1 DEF ThreadInv, TagsInv
  <2>3. TagsInv'
    BY <2>1, <2>2 DEF TagsInv, Syncing, At, ThreadInv
  <2> QED
    BY <1>1, <2>3 DEF ThreadInv
<1> QED
  BY <1>2, <1>3

LEMMA ThreadInductive == ThreadInv /\ [ThreadNext]_threadVars => ThreadInv'
<1> SUFFICES ASSUME ThreadInv, [ThreadNext]_threadVars
             PROVE  ThreadInv'
  OBVIOUS
<1> USE ThreadsAssumption
<1>0. /\ ThreadTypes /\ AnswersInv /\ TagsInv /\ ThreadTypeOK
      /\ helper \in [Helpers -> HelperRequest] /\ helped \in 0 .. MaxHelp
      /\ rivals \in BOOLEAN /\ mixed \in BOOLEAN
  BY DEF ThreadInv, ThreadTypes
<1>1. Ready \in HelperRequest /\ Ready.op = "ready"
  BY DEF HelperRequest, Ready
<1>2. CASE Clock
  <2>1. ThreadTypes'
    BY <1>0, <1>2 DEF Clock, ThreadTypes, ThreadTypeOK, Times
  <2> QED
    BY <1>2, <2>1, BesideHelpers DEF Clock
<1>3. ASSUME NEW h \in Helpers, NEW u \in Agents, NEW to \in Agents,
             NEW route \in {"assign", "reassign"}, BeginAssign(h, u, to, route)
      PROVE  ThreadInv'
  <2>1. [op |-> "assign", to |-> to, tells |-> Tells(u, to, route)] \in HelperRequest
    BY DEF HelperRequest, Tells
  <2>2. helped' \in 0 .. MaxHelp
    BY <1>0, <1>3 DEF BeginAssign, Takes
  <2> QED
    BY <1>0, <1>3, <2>1, <2>2, HelperAside DEF BeginAssign, Takes, At, ThreadTypeOK
<1>4. ASSUME NEW h \in Helpers, BeginUnassign(h)
      PROVE  ThreadInv'
  <2>1. [op |-> "unassign"] \in HelperRequest
    BY DEF HelperRequest
  <2>2. helped' \in 0 .. MaxHelp
    BY <1>0, <1>4 DEF BeginUnassign, Takes
  <2> QED
    BY <1>0, <1>4, <2>1, <2>2, HelperAside DEF BeginUnassign, Takes, At, ThreadTypeOK
<1>5. ASSUME NEW h \in Helpers, WriteAssign(h)
      PROVE  ThreadInv'
  <2> DEFINE request == IF helper[h].tells THEN [helper[h] EXCEPT !.op = "tell"] ELSE Ready
  <2>1. helper[h] \in [op : {"assign", "tell"}, to : Agents, tells : BOOLEAN]
    BY <1>0, <1>5 DEF WriteAssign, At, HelperRequest, Ready
  <2>2. request \in HelperRequest /\ request.op \in {"tell", "ready"}
    BY <1>1, <2>1 DEF HelperRequest
  <2>3. Does(h, request)
    BY <1>5 DEF WriteAssign, Proceeds
  <2> HIDE DEF request
  <2>4. assignee' \in Agents \cup {Nobody}
    BY <1>5, <2>1 DEF WriteAssign
  <2> QED
    BY <1>0, <1>5, <2>2, <2>3, <2>4, HelperAside DEF WriteAssign, At, ThreadTypeOK
<1>6. ASSUME NEW h \in Helpers, TellAssignee(h) \/ WriteUnassign(h)
      PROVE  ThreadInv'
  BY <1>0, <1>1, <1>6, HelperAside DEF TellAssignee, WriteUnassign, At, ThreadTypeOK
<1>7. ASSUME NEW h \in Helpers, NEW by \in Authors, NEW internal \in BOOLEAN,
             BeginReply(h, by, internal)
      PROVE  ThreadInv'
  <2> DEFINE request == [op |-> "reply", by |-> by, internal |-> internal,
                         seen |-> responded]
  <2>1. request \in HelperRequest /\ helped' \in 0 .. MaxHelp
    BY <1>0, <1>7 DEF HelperRequest, ThreadTypeOK, BeginReply, Takes
  <2>2. /\ helper' \in [Helpers -> HelperRequest]
        /\ helper'[h] = request
        /\ \A d \in Helpers \ {h} : helper'[d] = helper[d]
    BY <1>0, <1>7, <2>1, HelperMoves DEF BeginReply, Takes
  <2>3. /\ helper[h].op = "ready"
        /\ UNCHANGED <<now, assignee, responded, replies, tags, watchers, answered,
                       wanted, mixed>>
    BY <1>7 DEF BeginReply, Takes, At
  <2>4. /\ rivals' \in BOOLEAN
        /\ ~rivals' => ~rivals /\ (by \in Agents => \A d \in Helpers : ~Answering(d))
    BY <1>7 DEF BeginReply
  <2>5. ThreadTypes'
    BY <1>0, <2>1, <2>2, <2>3, <2>4 DEF ThreadTypes, ThreadTypeOK
  <2>6. AnswersInv'
    BY <1>0, <2>2, <2>3, <2>4 DEF AnswersInv, Answering, At
  <2>7. TagsInv'
    BY <1>0, <2>2, <2>3 DEF TagsInv, Syncing, At
  <2> QED
    BY <2>5, <2>6, <2>7 DEF ThreadInv
<1>8. ASSUME NEW h \in Helpers, NEW n \in 1..MaxReplies, StoreReply(h, n)
      PROVE  ThreadInv'
  <2> DEFINE request == IF helper[h].by \in Agents
                        THEN [helper[h] EXCEPT !.op = "respond"] ELSE Ready
  <2>1. helper[h] \in [op : {"reply", "respond"}, by : Authors, internal : BOOLEAN,
                       seen : Times]
    BY <1>0, <1>8 DEF StoreReply, At, HelperRequest, Ready
  <2>2. /\ request \in HelperRequest
        /\ IF helper[h].by \in Agents
           THEN request.op = "respond" /\ request.seen = helper[h].seen
           ELSE request.op = "ready"
    BY <1>1, <2>1 DEF HelperRequest
  <2>3. Does(h, request)
    BY <1>8 DEF StoreReply, Proceeds
  <2> HIDE DEF request
  <2>4. /\ helper' \in [Helpers -> HelperRequest]
        /\ helper'[h] = request
        /\ \A d \in Helpers \ {h} : helper'[d] = helper[d]
    BY <1>0, <2>2, <2>3, HelperMoves
  <2>5. /\ helper[h].op = "reply"
        /\ replies' = [replies EXCEPT ![n] =
                         [by |-> helper[h].by, internal |-> helper[h].internal]]
        /\ UNCHANGED <<now, assignee, responded, tags, watchers, helped, answered,
                       rivals, wanted, mixed>>
    BY <1>8 DEF StoreReply, At
  <2>6. ThreadTypes'
    BY <1>0, <2>1, <2>4, <2>5 DEF ThreadTypes, ThreadTypeOK
  <2>7. AnswersInv'
    BY <1>0, <2>2, <2>4, <2>5 DEF AnswersInv, Answering, At
  <2>8. TagsInv'
    BY <1>0, <2>2, <2>4, <2>5 DEF TagsInv, Syncing, At
  <2> QED
    BY <2>6, <2>7, <2>8 DEF ThreadInv
<1>9. ASSUME NEW h \in Helpers, Respond(h)
      PROVE  ThreadInv'
  <2>1. /\ helper' \in [Helpers -> HelperRequest]
        /\ helper'[h] = Ready
        /\ \A d \in Helpers \ {h} : helper'[d] = helper[d]
    BY <1>0, <1>1, <1>9, HelperMoves DEF Respond
  <2>2. /\ helper[h].op = "respond"
        /\ responded' = IF helper[h].seen = Never THEN now ELSE responded
        /\ answered' = IF answered = Never THEN now ELSE answered
        /\ UNCHANGED <<now, assignee, replies, tags, watchers, helped, rivals,
                       wanted, mixed>>
    BY <1>9 DEF Respond, At
  <2>3. ThreadTypes'
    BY <1>0, <2>1, <2>2 DEF ThreadTypes, ThreadTypeOK, Times
  <2>4. AnswersInv'
    BY <1>0, <1>1, <2>1, <2>2 DEF AnswersInv, Answering, At
  <2>5. TagsInv'
    BY <1>0, <1>1, <2>1, <2>2 DEF TagsInv, Syncing, At
  <2> QED
    BY <2>3, <2>4, <2>5 DEF ThreadInv
<1>10. ASSUME NEW h \in Helpers, BeginSync(h)
       PROVE  ThreadInv'
  <2> DEFINE request == [op |-> "wipe"]
  <2>1. request \in HelperRequest /\ helped' \in 0 .. MaxHelp
    BY <1>0, <1>10 DEF HelperRequest, BeginSync, Takes
  <2>2. /\ helper' \in [Helpers -> HelperRequest]
        /\ helper'[h] = request
        /\ \A d \in Helpers \ {h} : helper'[d] = helper[d]
    BY <1>0, <1>10, <2>1, HelperMoves DEF BeginSync, Takes
  <2>3. /\ helper[h].op = "ready"
        /\ mixed' = (Busy("wipe") \/ Busy("fill"))
        /\ UNCHANGED <<now, assignee, responded, replies, tags, watchers, answered,
                       rivals, wanted>>
    BY <1>10 DEF BeginSync, Takes, At
  <2>4. ThreadTypes'
    BY <1>0, <2>1, <2>2, <2>3 DEF ThreadTypes, ThreadTypeOK, Busy
  <2>5. AnswersInv'
    BY <1>0, <2>2, <2>3 DEF AnswersInv, Answering, At
  <2>6. ~mixed' => \A d \in Helpers : ~Syncing(d)
    BY <2>3 DEF Busy, Syncing
  <2>7. TagsInv'
    BY <2>2, <2>3, <2>6 DEF TagsInv, Syncing, At
  <2> QED
    BY <2>4, <2>5, <2>7 DEF ThreadInv
<1>11. ASSUME NEW h \in Helpers, NEW labels \in SUBSET Labels, WipeTags(h, labels)
       PROVE  ThreadInv'
  <2> DEFINE request == IF labels = {} THEN Ready ELSE [op |-> "fill", labels |-> labels]
  <2>1. /\ request \in HelperRequest
        /\ labels = {} => request.op = "ready"
        /\ labels # {} => request.op = "fill" /\ request.labels = labels
    BY <1>1 DEF HelperRequest
  <2>2. Does(h, request)
    BY <1>11 DEF WipeTags
  <2> HIDE DEF request
  <2>3. /\ helper' \in [Helpers -> HelperRequest]
        /\ helper'[h] = request
        /\ \A d \in Helpers \ {h} : helper'[d] = helper[d]
    BY <1>0, <2>1, <2>2, HelperMoves
  <2>4. /\ helper[h].op = "wipe" /\ tags' = {} /\ wanted' = labels
        /\ UNCHANGED <<now, assignee, responded, replies, watchers, helped, answered,
                       rivals, mixed>>
    BY <1>11 DEF WipeTags, At
  <2>5. ThreadTypes'
    BY <1>0, <2>3, <2>4 DEF ThreadTypes, ThreadTypeOK
  <2>6. AnswersInv'
    BY <1>0, <2>1, <2>3, <2>4 DEF AnswersInv, Answering, At
  <2>7. TagsInv'
    BY <1>0, <2>1, <2>3, <2>4 DEF TagsInv, Syncing, At
  <2> QED
    BY <2>5, <2>6, <2>7 DEF ThreadInv
<1>12. ASSUME NEW h \in Helpers, FillTags(h)
       PROVE  ThreadInv'
  <2>1. /\ helper' \in [Helpers -> HelperRequest]
        /\ helper'[h] = Ready
        /\ \A d \in Helpers \ {h} : helper'[d] = helper[d]
    BY <1>0, <1>1, <1>12, HelperMoves DEF FillTags
  <2>2. /\ helper[h].op = "fill"
        /\ tags' = IF tags \cap helper[h].labels = {} THEN tags \cup helper[h].labels
                   ELSE tags
        /\ UNCHANGED <<now, assignee, responded, replies, watchers, helped, answered,
                       rivals, wanted, mixed>>
    BY <1>12 DEF FillTags, At
  <2>3. helper[h].labels \subseteq Labels
    BY <1>0, <2>2 DEF HelperRequest, Ready
  <2>4. ThreadTypes'
    BY <1>0, <2>1, <2>2, <2>3 DEF ThreadTypes, ThreadTypeOK
  <2>5. AnswersInv'
    BY <1>0, <1>1, <2>1, <2>2 DEF AnswersInv, Answering, At
  <2>6. ~mixed => tags' = wanted
    BY <1>0, <2>2 DEF TagsInv, At
  <2>7. TagsInv'
    BY <1>0, <1>1, <2>1, <2>2, <2>6 DEF TagsInv, Syncing, At
  <2> QED
    BY <2>4, <2>5, <2>7 DEF ThreadInv
<1>13. ASSUME NEW h \in Helpers, FailHelper(h)
       PROVE  ThreadInv'
  <2>1. /\ helper' \in [Helpers -> HelperRequest]
        /\ helper'[h] = Ready
        /\ \A d \in Helpers \ {h} : helper'[d] = helper[d]
    BY <1>0, <1>1, <1>13, HelperMoves DEF FailHelper
  <2>2. /\ mixed' = (mixed \/ Syncing(h))
        /\ UNCHANGED <<now, assignee, responded, replies, tags, watchers, helped,
                       answered, rivals, wanted>>
    BY <1>13 DEF FailHelper, Syncing
  <2>3. ThreadTypes'
    BY <1>0, <2>1, <2>2 DEF ThreadTypes, ThreadTypeOK, Syncing, At
  <2>4. AnswersInv'
    BY <1>0, <1>1, <2>1, <2>2 DEF AnswersInv, Answering, At
  <2>5. TagsInv'
    BY <1>0, <1>1, <2>1, <2>2 DEF TagsInv, Syncing, At
  <2> QED
    BY <2>3, <2>4, <2>5 DEF ThreadInv
<1>14. ASSUME NEW by \in Authors, NEW n \in 1..MaxReplies, RemoveReply(by, n)
       PROVE  ThreadInv'
  <2>1. ThreadTypes'
    BY <1>0, <1>14 DEF RemoveReply, Removed, ThreadTypes, ThreadTypeOK
  <2> QED
    BY <1>14, <2>1, BesideHelpers DEF RemoveReply
<1>15. ASSUME NEW l \in Labels, AddTag(l) \/ RemoveTag(l)
       PROVE  ThreadInv'
  <2>1. ThreadTypes'
    BY <1>0, <1>15 DEF AddTag, RemoveTag, Busy, ThreadTypes, ThreadTypeOK
  <2> QED
    BY <1>15, <2>1, BesideHelpers DEF AddTag, RemoveTag
<1>16. ASSUME NEW u \in Agents, Watch(u) \/ Unwatch(u)
       PROVE  ThreadInv'
  <2>1. helped' \in 0 .. MaxHelp /\ watchers' \subseteq Agents
    BY <1>0, <1>16 DEF Watch, Unwatch, Watching, ThreadTypeOK
  <2>2. UNCHANGED <<now, assignee, responded, replies, tags, helper, answered, rivals,
                    wanted, mixed>>
    BY <1>16 DEF Watch, Unwatch, Watching
  <2>3. ThreadTypes'
    BY <1>0, <2>1, <2>2 DEF ThreadTypes, ThreadTypeOK
  <2> QED
    BY <2>2, <2>3, BesideHelpers
<1>17. CASE UNCHANGED threadVars
  <2>1. ThreadTypes'
    BY <1>0, <1>17 DEF threadVars, ThreadTypes, ThreadTypeOK
  <2> QED
    BY <1>17, <2>1, BesideHelpers DEF threadVars
<1> QED
  BY <1>2, <1>3, <1>4, <1>5, <1>6, <1>7, <1>8, <1>9, <1>10, <1>11, <1>12, <1>13, <1>14,
     <1>15, <1>16, <1>17 DEF ThreadNext

LEMMA ThreadInitially == ThreadInit => ThreadInv
<1> SUFFICES ASSUME ThreadInit
             PROVE  ThreadInv
  OBVIOUS
<1> USE ThreadsAssumption
<1>1. ThreadTypes
  <2>1. helper \in [Helpers -> HelperRequest]
    BY DEF ThreadInit, HelperRequest
  <2>2. replies \in [1..MaxReplies -> [by : Authors \cup {Nobody}, internal : BOOLEAN]]
    BY DEF ThreadInit, NoReply
  <2>3. now \in 0..MaxTime /\ helped \in 0..MaxHelp
    BY DEF ThreadInit
  <2>4. rivals \in BOOLEAN /\ mixed \in BOOLEAN
    BY DEF ThreadInit
  <2> QED
    BY <2>1, <2>2, <2>3, <2>4 DEF ThreadInit, ThreadTypes, ThreadTypeOK, Times
<1>2. AnswersInv /\ TagsInv
  BY DEF ThreadInit, AnswersInv, TagsInv, Answering, Syncing, At, Ready
<1> QED
  BY <1>1, <1>2 DEF ThreadInv

LEMMA ThreadAlways == ThreadSpec => []ThreadInv
BY ThreadInitially, ThreadInductive, PTL DEF ThreadSpec

\* Every reachable state of a ticket's replies, tags, watchers and assignee is
\* well typed.
THEOREM ThreadTypeCorrect == ThreadSpec => []ThreadTypeOK
<1>1. ThreadInv => ThreadTypeOK
  BY DEF ThreadInv, ThreadTypes
<1> QED
  BY <1>1, ThreadAlways, PTL

\* However replies, notes, removals and failures of any number of requests
\* mix, the first response stays the first one and counts as met when it was
\* in time, unless two answers of staff overlapped.
THEOREM FirstResponse == ThreadSpec => []ResponseIsFirst
<1>1. ThreadInv => ResponseIsFirst
  <2> SUFFICES ASSUME ThreadInv, ~rivals
               PROVE  /\ responded = answered
                      /\ answered # Never /\ answered <= FirstDue => Met /\ ~Overdue
    BY DEF ResponseIsFirst
  <2> QED
    BY DEF ThreadInv, AnswersInv, Met, Overdue
<1> QED
  BY <1>1, ThreadAlways, PTL

\* After any sequence of replacements, additions and removals a ticket has the
\* tags that were asked for last, unless two changes overlapped or one was cut
\* short.
THEOREM TagsAsAsked == ThreadSpec => []TagsAreWanted
<1>1. ThreadInv => TagsAreWanted
  BY DEF ThreadInv, TagsInv, TagsAreWanted, Busy, Syncing
<1> QED
  BY <1>1, ThreadAlways, PTL

-----------------------------------------------------------------------------
(* The catalogue. *)

TillRequest ==
  {[op |-> "closed"]}
  \cup [op : {"deactivate", "delete", "trial", "downgrade", "change", "activate"},
        plan : PlanIds]
  \cup [op : {"checkout", "upgrade", "renew"}, plan : PlanIds, price : Prices]
  \cup [op : {"resume"}]
  \cup [op : {"cancel"}, status : {"ACTIVE", "CANCELLED"}]
  \cup [op : {"end trial", "expire"}, plan : PlanIds \cup {NoPlan}]

\* Requests that found a subscription, of which there is one from then on.
Serving == {"downgrade", "change", "activate", "upgrade", "renew", "resume", "cancel",
            "end trial", "expire"}

CatalogueInv ==
  /\ CatalogueTypeOK
  /\ till \in [Tills -> TillRequest]
  /\ tenant.status = "NONE" => tenant.pending = NoPlan /\ choice = NoPlan
  /\ \A t \in Tills : till[t].op \in Serving => tenant.status # "NONE"
  /\ PlansKept

\* A request moves; the rows are as they must be when it has.
LEMMA TillStep ==
  ASSUME CatalogueInv, NEW t \in Tills, NEW request \in TillRequest,
         till' = [till EXCEPT ![t] = request], CatalogueTypeOK',
         tenant'.status = "NONE" => tenant'.pending = NoPlan /\ choice' = NoPlan,
         tenant'.status = "NONE" => tenant.status = "NONE",
         request.op \in Serving => tenant'.status # "NONE",
         PlansKept'
  PROVE  CatalogueInv'
BY DEF CatalogueInv

\* A request begins: it changes no row.
LEMMA OpensStep ==
  ASSUME CatalogueInv, NEW t \in Tills, NEW request \in TillRequest, Opens(t, request),
         request.op \in Serving => tenant.status # "NONE",
         UNCHANGED <<offer, tenant, bill, choice, overtaken>>
  PROVE  CatalogueInv'
<1>1. sales' \in 0 .. MaxSales
  BY CatalogueAssumption DEF CatalogueInv, CatalogueTypeOK, Opens
<1>2. CatalogueTypeOK'
  BY <1>1 DEF CatalogueInv, CatalogueTypeOK
<1>3. PlansKept'
  BY DEF CatalogueInv, PlansKept, HistoryStands, ChoiceWaits, Offered
<1>4. till' = [till EXCEPT ![t] = request]
  BY DEF Opens
<1> QED
  BY <1>2, <1>3, <1>4, TillStep DEF CatalogueInv

\* A request by what it does next.
LEMMA TillByOp ==
  ASSUME NEW request \in TillRequest
  PROVE  /\ request.op \in {"checkout", "upgrade", "renew"} =>
              request \in [op : {"checkout", "upgrade", "renew"}, plan : PlanIds,
                           price : Prices]
         /\ request.op = "cancel" => request.status \in {"ACTIVE", "CANCELLED"}
<1>1. CASE request = [op |-> "closed"]
  BY <1>1
<1>2. CASE request \in [op : {"deactivate", "delete", "trial", "downgrade", "change",
                              "activate"}, plan : PlanIds]
  <2>1. request.op \in {"deactivate", "delete", "trial", "downgrade", "change", "activate"}
    BY <1>2
  <2> QED
    BY <2>1
<1>3. CASE request \in [op : {"checkout", "upgrade", "renew"}, plan : PlanIds,
                        price : Prices]
  <2>1. request.op \in {"checkout", "upgrade", "renew"}
    BY <1>3
  <2> QED
    BY <1>3, <2>1
<1>4. CASE request \in [op : {"resume"}] \cup [op : {"cancel"}, status : {"ACTIVE", "CANCELLED"}]
  BY <1>4
<1>5. CASE request \in [op : {"end trial", "expire"}, plan : PlanIds \cup {NoPlan}]
  <2>1. request.op \in {"end trial", "expire"}
    BY <1>5
  <2> QED
    BY <2>1
<1> QED
  BY <1>1, <1>2, <1>3, <1>4, <1>5 DEF TillRequest

\* A request writes the status of a subscription that is there.
LEMMA StatusWritten ==
  ASSUME CatalogueInv, NEW t \in Tills, NEW request \in TillRequest, NEW to \in Standing,
         to # "NONE", tenant.status # "NONE", request.op \notin Serving,
         tenant' = [tenant EXCEPT !.status = to],
         till' = [till EXCEPT ![t] = request],
         UNCHANGED <<offer, bill, sales, choice, overtaken>>
  PROVE  CatalogueInv'
<1>1. tenant \in [status : Standing, plan : PlanIds \cup {NoPlan},
                  pending : PlanIds \cup {NoPlan}]
  BY DEF CatalogueInv, CatalogueTypeOK
<1>2. /\ tenant' \in [status : Standing, plan : PlanIds \cup {NoPlan},
                      pending : PlanIds \cup {NoPlan}]
      /\ tenant'.plan = tenant.plan /\ tenant'.pending = tenant.pending
      /\ tenant'.status # "NONE"
  BY <1>1
<1>3. CatalogueTypeOK' /\ PlansKept'
  BY <1>2 DEF CatalogueInv, CatalogueTypeOK, PlansKept, HistoryStands, ChoiceWaits, Offered
<1> QED
  BY <1>2, <1>3, TillStep

LEMMA CatalogueInductive == CatalogueInv /\ [CatalogueNext]_catalogueVars => CatalogueInv'
<1> SUFFICES ASSUME CatalogueInv, [CatalogueNext]_catalogueVars
             PROVE  CatalogueInv'
  OBVIOUS
<1> USE CatalogueAssumption
<1>0. /\ CatalogueTypeOK /\ HistoryStands /\ ChoiceWaits
      /\ till \in [Tills -> TillRequest]
      /\ tenant.status = "NONE" => tenant.pending = NoPlan /\ choice = NoPlan
      /\ \A t \in Tills : till[t].op \in Serving => tenant.status # "NONE"
  BY DEF CatalogueInv, PlansKept
<1>1. [op |-> "closed"] \in TillRequest /\ [op |-> "closed"].op \notin Serving
  BY DEF TillRequest, Serving
<1>2. Offered \subseteq PlanIds /\ \A p \in Offered : offer[p] \in PlanRow
  BY <1>0 DEF Offered, CatalogueTypeOK
<1>3. ASSUME NEW p \in PlanIds, NEW row \in PlanRow, CreatePlan(p, row) \/ UpdatePlan(p, row)
      PROVE  CatalogueInv'
  <2>1. /\ offer' = [offer EXCEPT ![p] = row]
        /\ UNCHANGED <<tenant, bill, till, choice, overtaken>>
    BY <1>3 DEF CreatePlan, UpdatePlan
  <2>2. sales' \in 0 .. MaxSales
    BY <1>0, <1>3 DEF CreatePlan, UpdatePlan, CatalogueTypeOK
  <2>3. CatalogueTypeOK'
    BY <1>0, <2>1, <2>2 DEF CatalogueTypeOK
  <2>4. \A q \in Offered : q \in Offered'
    BY <1>0, <2>1 DEF Offered, CatalogueTypeOK
  <2>5. HistoryStands' /\ ChoiceWaits'
    BY <1>0, <2>1, <2>4 DEF HistoryStands, ChoiceWaits
  <2> QED
    BY <1>0, <2>1, <2>3, <2>5 DEF CatalogueInv, PlansKept
<1>4. ASSUME NEW t \in Tills, NEW p \in PlanIds,
             \/ ReadForRemove(t, p) \/ ReadForTrial(t, p) \/ ReadForUpgrade(t, p)
             \/ \E immediately \in BOOLEAN : ReadForDowngrade(t, p, immediately)
      PROVE  CatalogueInv'
  <2>1. CASE ReadForRemove(t, p)
    <3> DEFINE request == [op |-> IF tenant.plan = p THEN "deactivate" ELSE "delete",
                           plan |-> p]
    <3>1. request \in TillRequest /\ request.op \notin Serving
      BY DEF TillRequest, Serving
    <3> QED
      BY <2>1, <3>1, OpensStep DEF ReadForRemove
  <2>2. CASE ReadForTrial(t, p)
    <3>1. /\ [op |-> "trial", plan |-> p] \in TillRequest
          /\ [op |-> "trial", plan |-> p].op \notin Serving
      BY DEF TillRequest, Serving
    <3> QED
      BY <2>2, <3>1, OpensStep DEF ReadForTrial
  <2>3. CASE ReadForUpgrade(t, p)
    <3> DEFINE request == [op |-> IF tenant.status = "NONE" THEN "checkout" ELSE "upgrade",
                           plan |-> p, price |-> offer[p].price]
    <3>1. p \in Offered /\ Opens(t, request)
          /\ UNCHANGED <<offer, tenant, bill, choice, overtaken>>
      BY <2>3 DEF ReadForUpgrade
    <3>2. offer[p].price \in Prices
      BY <1>2, <3>1 DEF PlanRow
    <3>3. request \in TillRequest /\ (request.op \in Serving => tenant.status # "NONE")
      BY <3>2 DEF TillRequest, Serving
    <3> QED
      BY <3>1, <3>3, OpensStep
  <2>4. ASSUME NEW immediately \in BOOLEAN, ReadForDowngrade(t, p, immediately)
        PROVE  CatalogueInv'
    <3> DEFINE request == [op |-> IF immediately THEN "change" ELSE "downgrade",
                           plan |-> p]
    <3>1. request \in TillRequest
      BY DEF TillRequest
    <3> QED
      BY <2>4, <3>1, OpensStep DEF ReadForDowngrade
  <2> QED
    BY <1>4, <2>1, <2>2, <2>3, <2>4
<1>5. ASSUME NEW t \in Tills,
             \/ \E atPeriodEnd \in BOOLEAN : ReadForCancel(t, atPeriodEnd)
             \/ ReadForRenewal(t) \/ ReadForResume(t) \/ ReadDueChange(t)
             \/ ReadForExpiry(t)
      PROVE  CatalogueInv'
  <2>1. ASSUME NEW atPeriodEnd \in BOOLEAN, ReadForCancel(t, atPeriodEnd)
        PROVE  CatalogueInv'
    <3> DEFINE request == [op |-> "cancel",
                           status |-> IF atPeriodEnd THEN "ACTIVE" ELSE "CANCELLED"]
    <3>1. request \in TillRequest
      BY DEF TillRequest
    <3> QED
      BY <2>1, <3>1, OpensStep DEF ReadForCancel
  <2>2. CASE ReadForRenewal(t)
    <3> DEFINE request == [op |-> "renew", plan |-> tenant.plan,
                           price |-> offer[tenant.plan].price]
    <3>1. tenant.plan \in Offered
      BY <1>0, <2>2 DEF ReadForRenewal, HistoryStands
    <3>2. request \in TillRequest
      BY <1>2, <3>1 DEF TillRequest, PlanRow
    <3> QED
      BY <2>2, <3>2, OpensStep DEF ReadForRenewal
  <2>3. CASE ReadForResume(t)
    <3>1. [op |-> "resume"] \in TillRequest
      BY DEF TillRequest
    <3> QED
      BY <2>3, <3>1, OpensStep DEF ReadForResume
  <2>4. CASE ReadDueChange(t)
    <3>1. [op |-> "change", plan |-> tenant.pending] \in TillRequest
      BY <1>0, <2>4 DEF TillRequest, ReadDueChange, CatalogueTypeOK
    <3> QED
      BY <2>4, <3>1, OpensStep DEF ReadDueChange
  <2>5. CASE ReadForExpiry(t)
    <3>1. PICK p \in PlanIds \cup {NoPlan} :
            Opens(t, [op |-> IF tenant.status = "TRIALING" THEN "end trial" ELSE "expire",
                      plan |-> p])
      BY <1>2, <2>5 DEF ReadForExpiry
    <3> DEFINE request == [op |-> IF tenant.status = "TRIALING" THEN "end trial" ELSE "expire",
                           plan |-> p]
    <3>2. request \in TillRequest
      BY DEF TillRequest
    <3> QED
      BY <2>5, <3>1, <3>2, OpensStep DEF ReadForExpiry
  <2> QED
    BY <1>5, <2>1, <2>2, <2>3, <2>4, <2>5
<1>6. ASSUME NEW t \in Tills, NEW p \in PlanIds, ReadForActivation(t, p)
      PROVE  CatalogueInv'
  <2>1. /\ bill[p] = "open" /\ bill' = [bill EXCEPT ![p] = "settled"]
        /\ UNCHANGED <<offer, tenant, choice, overtaken>>
    BY <1>6 DEF ReadForActivation
  <2>2. p \in Offered /\ bill' \in [PlanIds -> {"none", "open", "settled"}]
    BY <1>0, <2>1 DEF HistoryStands, CatalogueTypeOK
  <2>3. \A q \in PlanIds : bill'[q] # "none" => q \in Offered
    BY <1>0, <2>1, <2>2 DEF HistoryStands, CatalogueTypeOK
  <2>4. PlansKept'
    BY <1>0, <2>1, <2>3 DEF PlansKept, HistoryStands, ChoiceWaits, Offered
  <2>5. CASE tenant.status = "NONE"
    <3>1. UNCHANGED <<till, sales>>
      BY <1>6, <2>5 DEF ReadForActivation
    <3> QED
      BY <1>0, <2>1, <2>2, <2>4, <3>1 DEF CatalogueInv, CatalogueTypeOK
  <2>6. CASE tenant.status # "NONE"
    <3> DEFINE request == [op |-> "activate", plan |-> p]
    <3>1. till' = [till EXCEPT ![t] = request] /\ request \in TillRequest
      BY <1>6, <2>6 DEF ReadForActivation, Opens, TillRequest
    <3>2. sales' \in 0 .. MaxSales
      BY <1>0, <1>6, <2>6 DEF ReadForActivation, Opens, CatalogueTypeOK
    <3>3. CatalogueTypeOK'
      BY <1>0, <2>1, <2>2, <3>2 DEF CatalogueTypeOK
    <3> QED
      BY <1>0, <2>1, <2>4, <2>6, <3>1, <3>3, TillStep
  <2> QED
    BY <2>5, <2>6
<1>7. ASSUME NEW t \in Tills, Deactivate(t)
      PROVE  CatalogueInv'
  <2> DEFINE p == till[t].plan
  <2>1. /\ p \in Offered /\ offer' = [offer EXCEPT ![p].active = FALSE]
        /\ till' = [till EXCEPT ![t] = [op |-> "closed"]]
        /\ UNCHANGED <<tenant, bill, sales, choice, overtaken>>
    BY <1>7 DEF Deactivate, Closes
  <2> HIDE DEF p
  <2>2. p \in PlanIds /\ offer[p] \in PlanRow
    BY <1>2, <2>1
  <2>3. [offer[p] EXCEPT !.active = FALSE] \in PlanRow
    BY <2>2 DEF PlanRow
  <2>4. offer' \in [PlanIds -> PlanRow \cup {NoPlan}]
        /\ \A q \in Offered : q \in Offered'
    BY <1>0, <2>1, <2>2, <2>3 DEF Offered, CatalogueTypeOK
  <2>5. CatalogueTypeOK' /\ PlansKept'
    BY <1>0, <2>1, <2>4 DEF CatalogueTypeOK, PlansKept, HistoryStands, ChoiceWaits
  <2> QED
    BY <1>0, <1>1, <2>1, <2>5, TillStep
<1>8. ASSUME NEW t \in Tills, Delete(t)
      PROVE  CatalogueInv'
  <2> DEFINE p == till[t].plan
  <2>1. /\ p \in Offered /\ tenant.plan # p /\ bill[p] = "none"
        /\ offer' = [offer EXCEPT ![p] = NoPlan]
        /\ tenant' = [tenant EXCEPT !.pending = IF @ = p THEN NoPlan ELSE @]
        /\ choice' = IF choice = p THEN NoPlan ELSE choice
        /\ till' = [till EXCEPT ![t] = [op |-> "closed"]]
        /\ UNCHANGED <<bill, sales, overtaken>>
    BY <1>8 DEF Delete, Closes
  <2> HIDE DEF p
  <2>2. tenant \in [status : Standing, plan : PlanIds \cup {NoPlan},
                    pending : PlanIds \cup {NoPlan}]
    BY <1>0 DEF CatalogueTypeOK
  <2>3. /\ tenant'.status = tenant.status /\ tenant'.plan = tenant.plan
        /\ tenant'.pending = IF tenant.pending = p THEN NoPlan ELSE tenant.pending
        /\ tenant' \in [status : Standing, plan : PlanIds \cup {NoPlan},
                        pending : PlanIds \cup {NoPlan}]
    BY <2>1, <2>2
  <2>4. \A q \in Offered \ {p} : q \in Offered'
    BY <1>0, <2>1 DEF Offered, CatalogueTypeOK
  <2>5. CatalogueTypeOK'
    BY <1>0, <2>1, <2>3 DEF CatalogueTypeOK
  <2>6. HistoryStands'
    BY <1>0, <2>1, <2>3, <2>4 DEF HistoryStands
  <2>7. ChoiceWaits'
    BY <1>0, <2>1, <2>3 DEF ChoiceWaits
  <2> QED
    BY <1>0, <1>1, <2>1, <2>3, <2>5, <2>6, <2>7, TillStep DEF PlansKept
<1>9. ASSUME NEW t \in Tills, StartTrial(t)
      PROVE  CatalogueInv'
  <2> DEFINE p == till[t].plan
  <2>1. /\ p \in Offered /\ tenant.status = "NONE"
        /\ tenant' = [NoTenant EXCEPT !.status = "TRIALING", !.plan = p]
        /\ till' = [till EXCEPT ![t] = [op |-> "closed"]]
        /\ UNCHANGED <<offer, bill, sales, choice, overtaken>>
    BY <1>9 DEF StartTrial, Closes
  <2> HIDE DEF p
  <2>2. /\ tenant'.status = "TRIALING" /\ tenant'.plan = p
        /\ tenant' \in [status : Standing, plan : PlanIds \cup {NoPlan},
                        pending : PlanIds \cup {NoPlan}]
    BY <1>2, <2>1 DEF NoTenant, Standing
  <2>3. CatalogueTypeOK' /\ PlansKept'
    BY <1>0, <2>1, <2>2 DEF CatalogueTypeOK, PlansKept, HistoryStands, ChoiceWaits, Offered
  <2> QED
    BY <1>0, <1>1, <2>1, <2>2, <2>3, TillStep
<1>10. ASSUME NEW t \in Tills, Choose(t)
       PROVE  CatalogueInv'
  <2> DEFINE p == till[t].plan
             request == IF till[t].op = "upgrade" THEN [till[t] EXCEPT !.op = "checkout"]
                        ELSE [op |-> "closed"]
  <2>1. /\ till[t].op \in {"upgrade", "downgrade"} /\ p \in Offered
        /\ tenant' = [tenant EXCEPT !.pending = p,
                                    !.status = IF till[t].op = "upgrade"
                                               THEN "PENDING_PAYMENT" ELSE @]
        /\ choice' = p /\ overtaken' = FALSE
        /\ UNCHANGED <<offer, bill, sales>>
    BY <1>10 DEF Choose
  <2>2. till' = [till EXCEPT ![t] = request]
    BY <1>10 DEF Choose, Closes
  <2>3. request \in TillRequest /\ request.op \notin Serving
    <3>1. CASE till[t].op = "upgrade"
      <4>1. till[t] \in [op : {"checkout", "upgrade", "renew"}, plan : PlanIds,
                         price : Prices]
        BY <1>0, <3>1, TillByOp
      <4> QED
        BY <3>1, <4>1 DEF TillRequest, Serving
    <3> QED
      BY <1>1, <3>1
  <2>4. tenant.status # "NONE"
    BY <1>0, <2>1 DEF Serving
  <2> HIDE DEF p, request
  <2>5. tenant \in [status : Standing, plan : PlanIds \cup {NoPlan},
                    pending : PlanIds \cup {NoPlan}]
    BY <1>0 DEF CatalogueTypeOK
  <2>6. /\ tenant' \in [status : Standing, plan : PlanIds \cup {NoPlan},
                        pending : PlanIds \cup {NoPlan}]
        /\ tenant'.plan = tenant.plan /\ tenant'.pending = p
        /\ tenant'.status # "NONE"
    BY <1>2, <2>1, <2>4, <2>5 DEF Standing
  <2>7. CatalogueTypeOK' /\ PlansKept'
    BY <1>0, <1>2, <2>1, <2>4, <2>6 DEF CatalogueTypeOK, PlansKept, HistoryStands,
         ChoiceWaits, Offered
  <2> QED
    BY <1>0, <2>2, <2>3, <2>6, <2>7, TillStep
<1>11. ASSUME NEW t \in Tills, AwaitRenewal(t)
       PROVE  CatalogueInv'
  <2> DEFINE request == [till[t] EXCEPT !.op = "checkout"]
  <2>1. /\ till[t].op = "renew"
        /\ tenant' = [tenant EXCEPT !.status = "PENDING_PAYMENT"]
        /\ till' = [till EXCEPT ![t] = request]
        /\ UNCHANGED <<offer, bill, sales, choice, overtaken>>
    BY <1>11 DEF AwaitRenewal
  <2>2. request \in TillRequest /\ request.op \notin Serving
    <3>1. till[t] \in [op : {"checkout", "upgrade", "renew"}, plan : PlanIds,
                       price : Prices]
      BY <1>0, <2>1, TillByOp
    <3> QED
      BY <3>1 DEF TillRequest, Serving
  <2>3. tenant.status # "NONE"
    BY <1>0, <2>1 DEF Serving
  <2> HIDE DEF request
  <2> QED
    BY <1>0, <2>1, <2>2, <2>3, StatusWritten DEF Standing
<1>12. ASSUME NEW t \in Tills, OpenPayment(t)
       PROVE  CatalogueInv'
  <2> DEFINE p == till[t].plan
  <2>1. /\ p \in Offered /\ bill' = [bill EXCEPT ![p] = "open"]
        /\ till' = [till EXCEPT ![t] = [op |-> "closed"]]
        /\ UNCHANGED <<offer, tenant, sales, choice, overtaken>>
    BY <1>12 DEF OpenPayment, Closes
  <2> HIDE DEF p
  <2>2. CatalogueTypeOK' /\ \A q \in PlanIds : bill'[q] # "none" => q \in Offered
    BY <1>0, <1>2, <2>1 DEF CatalogueTypeOK, HistoryStands
  <2>3. PlansKept'
    BY <1>0, <2>1, <2>2 DEF PlansKept, HistoryStands, ChoiceWaits, Offered
  <2> QED
    BY <1>0, <1>1, <2>1, <2>2, <2>3, TillStep
<1>13. ASSUME NEW t \in Tills, Cancel(t)
       PROVE  CatalogueInv'
  <2>1. /\ till[t].op = "cancel"
        /\ tenant' = [tenant EXCEPT !.status = till[t].status, !.pending = NoPlan]
        /\ choice' = NoPlan
        /\ till' = [till EXCEPT ![t] = [op |-> "closed"]]
        /\ UNCHANGED <<offer, bill, sales, overtaken>>
    BY <1>13 DEF Cancel, Closes
  <2>2. till[t].status \in {"ACTIVE", "CANCELLED"}
    BY <1>0, <2>1, TillByOp
  <2>3. tenant.status # "NONE"
    BY <1>0, <2>1 DEF Serving
  <2>4. tenant \in [status : Standing, plan : PlanIds \cup {NoPlan},
                    pending : PlanIds \cup {NoPlan}]
    BY <1>0 DEF CatalogueTypeOK
  <2>5. /\ tenant' \in [status : Standing, plan : PlanIds \cup {NoPlan},
                        pending : PlanIds \cup {NoPlan}]
        /\ tenant'.plan = tenant.plan /\ tenant'.status # "NONE"
    BY <2>1, <2>2, <2>4 DEF Standing
  <2>6. CatalogueTypeOK' /\ PlansKept'
    BY <1>0, <2>1, <2>3, <2>5 DEF CatalogueTypeOK, PlansKept, HistoryStands, ChoiceWaits,
         Offered
  <2> QED
    BY <1>1, <2>1, <2>5, <2>6, TillStep
<1>14. ASSUME NEW t \in Tills, Resume(t)
       PROVE  CatalogueInv'
  <2>1. /\ till[t].op = "resume"
        /\ tenant' = [tenant EXCEPT !.status = "ACTIVE"]
        /\ till' = [till EXCEPT ![t] = [op |-> "closed"]]
        /\ UNCHANGED <<offer, bill, sales, choice, overtaken>>
    BY <1>14 DEF Resume, Closes
  <2>2. tenant.status # "NONE"
    BY <1>0, <2>1 DEF Serving
  <2> QED
    BY <1>0, <1>1, <2>1, <2>2, StatusWritten DEF Standing
<1>15. ASSUME NEW t \in Tills, Serve(t)
       PROVE  CatalogueInv'
  <2> DEFINE p == till[t].plan
  <2>1. /\ till[t].op \in {"activate", "change"} /\ p \in Offered
        /\ tenant' = [status |-> IF till[t].op = "activate" THEN "ACTIVE" ELSE tenant.status,
                      plan |-> p, pending |-> NoPlan]
        /\ choice' = IF choice = p THEN NoPlan ELSE choice
        /\ till' = [till EXCEPT ![t] = [op |-> "closed"]]
        /\ UNCHANGED <<offer, bill, sales>>
    BY <1>15 DEF Serve, Closes
  <2>2. /\ overtaken' \in BOOLEAN
        /\ ~overtaken' => ~overtaken /\ choice \in {till[t].plan, NoPlan}
    BY <1>15 DEF Serve
  <2>3. tenant.status # "NONE" /\ tenant.status \in Standing
    BY <1>0, <2>1 DEF Serving, CatalogueTypeOK
  <2>4. ~overtaken' => choice \in {p, NoPlan}
    BY <2>2
  <2> HIDE DEF p
  <2>5. /\ tenant' \in [status : Standing, plan : PlanIds \cup {NoPlan},
                        pending : PlanIds \cup {NoPlan}]
        /\ tenant'.plan = p /\ tenant'.status # "NONE"
    BY <1>2, <2>1, <2>3 DEF Standing
  <2>6. CatalogueTypeOK'
    BY <1>0, <2>1, <2>2, <2>5 DEF CatalogueTypeOK
  <2>7. PlansKept'
    BY <1>0, <2>1, <2>4, <2>5 DEF PlansKept, HistoryStands, ChoiceWaits, Offered
  <2> QED
    BY <1>1, <2>1, <2>5, <2>6, <2>7, TillStep
<1>16. ASSUME NEW t \in Tills, Expire(t)
       PROVE  CatalogueInv'
  <2> DEFINE p == till[t].plan
             to == IF till[t].op = "end trial" /\ p # NoPlan THEN "ACTIVE" ELSE "EXPIRED"
  <2>1. /\ till[t].op \in {"end trial", "expire"} /\ p \in Offered \cup {NoPlan}
        /\ tenant' = [tenant EXCEPT !.status = to, !.plan = IF p = NoPlan THEN @ ELSE p]
        /\ till' = [till EXCEPT ![t] = [op |-> "closed"]]
        /\ UNCHANGED <<offer, bill, sales, choice, overtaken>>
    BY <1>16 DEF Expire, Closes
  <2>2. tenant.status # "NONE" /\ to \in Standing \ {"NONE"}
    BY <1>0, <2>1 DEF Serving, Standing
  <2> HIDE DEF p, to
  <2>3. tenant \in [status : Standing, plan : PlanIds \cup {NoPlan},
                    pending : PlanIds \cup {NoPlan}]
    BY <1>0 DEF CatalogueTypeOK
  <2>4. tenant.plan \in Offered
    BY <1>0, <2>2 DEF HistoryStands
  <2>5. /\ tenant' \in [status : Standing, plan : PlanIds \cup {NoPlan},
                        pending : PlanIds \cup {NoPlan}]
        /\ tenant'.plan \in Offered /\ tenant'.status # "NONE"
        /\ tenant'.pending = tenant.pending
    BY <1>2, <2>1, <2>2, <2>3, <2>4
  <2>6. CatalogueTypeOK' /\ PlansKept'
    BY <1>0, <2>1, <2>5 DEF CatalogueTypeOK, PlansKept, HistoryStands, ChoiceWaits, Offered
  <2> QED
    BY <1>1, <2>1, <2>5, <2>6, TillStep
<1>17. ASSUME NEW t \in Tills, Refuse(t)
       PROVE  CatalogueInv'
  <2>1. /\ till' = [till EXCEPT ![t] = [op |-> "closed"]]
        /\ UNCHANGED <<offer, tenant, bill, sales, choice, overtaken>>
    BY <1>17 DEF Refuse, Closes
  <2>2. CatalogueTypeOK' /\ PlansKept'
    BY <1>0, <2>1 DEF CatalogueTypeOK, PlansKept, HistoryStands, ChoiceWaits, Offered
  <2> QED
    BY <1>0, <1>1, <2>1, <2>2, TillStep
<1>18. CASE UNCHANGED catalogueVars
  BY <1>0, <1>18 DEF catalogueVars, CatalogueInv, CatalogueTypeOK, PlansKept, HistoryStands,
       ChoiceWaits, Offered
<1> QED
  BY <1>3, <1>4, <1>5, <1>6, <1>7, <1>8, <1>9, <1>10, <1>11, <1>12, <1>13, <1>14, <1>15,
     <1>16, <1>17, <1>18 DEF CatalogueNext

LEMMA CatalogueInitially == CatalogueInit => CatalogueInv
<1> SUFFICES ASSUME CatalogueInit
             PROVE  CatalogueInv
  OBVIOUS
<1> USE CatalogueAssumption
<1>1. sales \in 0 .. MaxSales
  BY DEF CatalogueInit
<1>2. CatalogueTypeOK
  BY <1>1 DEF CatalogueInit, CatalogueTypeOK, NoTenant, Standing
<1>3. till \in [Tills -> TillRequest]
  BY DEF CatalogueInit, TillRequest
<1>4. PlansKept
  BY DEF CatalogueInit, NoTenant, PlansKept, HistoryStands, ChoiceWaits
<1> QED
  BY <1>2, <1>3, <1>4 DEF CatalogueInit, CatalogueInv, NoTenant, Serving

LEMMA CatalogueAlways == CatalogueSpec => []CatalogueInv
BY CatalogueInitially, CatalogueInductive, PTL DEF CatalogueSpec

\* Every reachable state of the catalogue and its tenant is well typed.
THEOREM CatalogueTypeCorrect == CatalogueSpec => []CatalogueTypeOK
<1>1. CatalogueInv => CatalogueTypeOK
  BY DEF CatalogueInv
<1> QED
  BY <1>1, CatalogueAlways, PTL

\* Whatever the admins do to the catalogue between a request's reading and its
\* writing, the plan a tenant has or pays for stays in it, and what the tenant
\* chose last waits for him.
THEOREM PlansStand == CatalogueSpec => []PlansKept
<1>1. CatalogueInv => PlansKept
  BY DEF CatalogueInv
<1> QED
  BY <1>1, CatalogueAlways, PTL

-----------------------------------------------------------------------------
(* The knowledge base. *)

ClerkRequest ==
  {Free}
  \cup [op : {"create"}, article : Articles, category : Anywhere, state : States]
  \cup [op : {"update"}, article : Articles, category : Anywhere, moves : BOOLEAN,
        state : States, rewrites : BOOLEAN, row : ArticleRow]
  \cup [op : StateOps \cup {"delete"}, article : Articles, row : ArticleRow]
  \cup [op : {"copy"}, article : Articles, row : ArticleRow, category : Anywhere]
  \cup [op : {"comment"}, article : Articles, row : ArticleRow, remark : Remarks]
  \cup [op : {"vote"}, article : Articles, reader : Readers, cast : {"up", "down"},
        was : Votes]
  \cup [op : {"unfile"}, article : {NoArticle}, category : Categories, soft : BOOLEAN]

KnowledgeTypes == KnowledgeTypeOK /\ clerk \in [Clerks -> ClerkRequest]

Makers == {"create", "copy"}

On(c, a) == clerk[c].op # "free" /\ clerk[c].article = a

Extends(c, a) == clerk[c].op \in MetadataWriters /\ clerk[c].article = a

CastsFor(c, a, u) ==
  clerk[c].op = "vote" /\ clerk[c].article = a /\ clerk[c].reader = u

\* Only one request makes an article, and before it nobody works on it.
MakersAlone(a) ==
  \A c \in Clerks : clerk[c].op \in Makers /\ clerk[c].article = a =>
    ~Exists(a) /\ \A d \in Clerks \ {c} : ~On(d, a)

\* What is known of an article that does not exist.
Blank(a) ==
  ~Exists(a) => said[a] = {} /\ ballot[a] = [u \in Readers |-> "none"]

\* The page of an article shows its history, and who goes on to extend the
\* metadata has read what is there, and is the only one.
MetadataKept(a) ==
  Exists(a) /\ a \notin crossed =>
    /\ written[a] \subseteq {article[a].text} \cup ListVersions(a)
    /\ said[a] \subseteq article[a].remarks
    /\ \A c \in Clerks : Extends(c, a) =>
         /\ clerk[c].row.text = article[a].text
         /\ clerk[c].row.versions = article[a].versions
         /\ clerk[c].row.remarks = article[a].remarks
         /\ \A d \in Clerks \ {c} : ~Extends(d, a)

Rows(f, side) == Cardinality({u \in Readers : f[u] = side})

Supporters(a, side) == Rows(ballot[a], side)

\* The counters are the rows, and who goes on to vote knows his row.
VotesCounted(a) ==
  Exists(a) /\ a \notin doubled =>
    /\ article[a].helpful = Supporters(a, "up")
    /\ article[a].notHelpful = Supporters(a, "down")
    /\ article[a].likes = article[a].helpful
    /\ \A c \in Clerks, u \in Readers : CastsFor(c, a, u) =>
         /\ clerk[c].was = ballot[a][u]
         /\ \A d \in Clerks \ {c} : ~CastsFor(d, a, u)

ArticleInv(a) == MakersAlone(a) /\ Blank(a) /\ MetadataKept(a) /\ VotesCounted(a)

\* Every article is filed where there is a category, and a copy where its
\* original was.
FiledWhereItIs ==
  /\ \A a \in Articles : Exists(a) => CategoryStands(article[a].category)
  /\ \A c \in Clerks : clerk[c].op = "copy" =>
       clerk[c].category = clerk[c].row.category

KnowledgeInv ==
  KnowledgeTypes /\ FiledWhereItIs /\ \A a \in Articles : ArticleInv(a)
-----------------------------------------------------------------------------
(* Requests, and what they leave alone. *)

\* The request a clerk holds, by what it does next.
LEMMA ClerkByOp ==
  ASSUME NEW request \in ClerkRequest
  PROVE  /\ request.op \in {"free", "create", "update", "delete", "copy", "comment", "vote",
                            "unfile"} \cup StateOps
         /\ request.op \notin {"free", "unfile"} => request.article \in Articles
         /\ request.op = "unfile" =>
              request.article = NoArticle /\ request.category \in Categories
         /\ request.op \in {"create", "update"} =>
              request.category \in Anywhere /\ request.state \in States
         /\ request.op \in {"update", "copy", "comment", "delete"} \cup StateOps =>
              request.row \in ArticleRow
         /\ request.op = "update" => request.rewrites \in BOOLEAN
         /\ request.op = "comment" => request.remark \in Remarks
         /\ request.op = "vote" => /\ request.reader \in Readers
                                   /\ request.cast \in {"up", "down"}
<1>1. CASE request = Free
  BY <1>1 DEF Free, StateOps
<1>2. CASE request \in
        [op : {"create"}, article : Articles, category : Anywhere, state : States]
  BY <1>2 DEF StateOps
<1>3. CASE request \in
        [op : {"update"}, article : Articles, category : Anywhere, moves : BOOLEAN,
         state : States, rewrites : BOOLEAN, row : ArticleRow]
  BY <1>3 DEF StateOps
<1>4. CASE request \in
        [op : StateOps \cup {"delete"}, article : Articles, row : ArticleRow]
  BY <1>4 DEF StateOps
<1>5. CASE request \in
        [op : {"copy"}, article : Articles, row : ArticleRow, category : Anywhere]
  BY <1>5 DEF StateOps
<1>6. CASE request \in
        [op : {"comment"}, article : Articles, row : ArticleRow, remark : Remarks]
  BY <1>6 DEF StateOps
<1>7. CASE request \in
        [op : {"vote"}, article : Articles, reader : Readers, cast : {"up", "down"},
         was : Votes]
  BY <1>7 DEF StateOps
<1>8. CASE request \in
        [op : {"unfile"}, article : {NoArticle}, category : Categories, soft : BOOLEAN]
  BY <1>8 DEF StateOps
<1> QED
  BY <1>1, <1>2, <1>3, <1>4, <1>5, <1>6, <1>7, <1>8 DEF ClerkRequest

\* A request that ends, or that goes on with another article, leaves an article
\* as it is.
LEMMA ArticleAside ==
  ASSUME NEW a \in Articles, ArticleInv(a),
         article'[a] = article[a], ballot'[a] = ballot[a],
         written'[a] = written[a], said'[a] = said[a],
         a \in crossed => a \in crossed', a \in doubled => a \in doubled',
         \A d \in Clerks : \/ clerk'[d] = clerk[d]
                           \/ clerk'[d].op = "free"
                           \/ clerk'[d].article # a
  PROVE  ArticleInv(a)'
<1>1. MakersAlone(a) /\ Blank(a) /\ MetadataKept(a) /\ VotesCounted(a)
  BY DEF ArticleInv
<1>2. MakersAlone(a)'
  BY <1>1 DEF MakersAlone, Exists, On, Makers
<1>3. Blank(a)'
  BY <1>1 DEF Blank, Exists
<1>4. ListVersions(a)' = ListVersions(a)
  BY DEF ListVersions
<1>5. MetadataKept(a)'
  BY <1>1, <1>4 DEF MetadataKept, Exists, Extends, MetadataWriters
<1>6. \A side : Supporters(a, side)' = Supporters(a, side)
  BY DEF Supporters
<1>7. VotesCounted(a)'
  BY <1>1, <1>6 DEF VotesCounted, Exists, CastsFor
<1> QED
  BY <1>2, <1>3, <1>5, <1>7 DEF ArticleInv

\* A request has read: what it holds is what is there.
LEMMA ReadStep ==
  ASSUME KnowledgeInv, NEW c \in Clerks, NEW request \in ClerkRequest,
         Reads(c, request), request.op # "free",
         request.op \in Makers => Unused(request.article),
         request.op \notin Makers \cup {"unfile"} => Exists(request.article),
         request.op = "copy" => request.category = request.row.category,
         request.op \in MetadataWriters => request.row = article[request.article],
         doubled' \subseteq Articles, doubled \subseteq doubled',
         request.op = "vote" =>
           /\ request.was = ballot[request.article][request.reader]
           /\ (\E d \in Clerks : CastsFor(d, request.article, request.reader))
                => request.article \in doubled'
  PROVE  KnowledgeInv'
<1>1. KnowledgeTypes /\ FiledWhereItIs /\ \A a \in Articles : ArticleInv(a)
  BY DEF KnowledgeInv
<1>2. /\ clerk \in [Clerks -> ClerkRequest] /\ clerk[c] = Free
      /\ clerk' = [clerk EXCEPT ![c] = request]
      /\ requests < MaxRequests /\ requests' = requests + 1
      /\ UNCHANGED <<article, ballot, category, edits, written, said>>
      /\ crossed \subseteq crossed'
  BY <1>1 DEF Reads, KnowledgeTypes
<1>3. clerk'[c] = request /\ \A d \in Clerks \ {c} : clerk'[d] = clerk[d]
  BY <1>2
<1>4. /\ request.op # "unfile" => request.article \in Articles
      /\ request.op = "unfile" => request.article = NoArticle
  BY ClerkByOp
<1>5. crossed' \subseteq Articles
  BY <1>1, <1>4 DEF Reads, KnowledgeTypes, KnowledgeTypeOK, MetadataWriters
<1>6. KnowledgeTypes'
  BY <1>1, <1>2, <1>5, KnowledgeAssumption DEF KnowledgeTypes, KnowledgeTypeOK
<1>7. FiledWhereItIs'
  BY <1>1, <1>2, <1>3 DEF FiledWhereItIs, Exists, CategoryStands, Filed
<1>8. ASSUME NEW a \in Articles
      PROVE  ArticleInv(a)'
  <2>1. MakersAlone(a) /\ Blank(a) /\ MetadataKept(a) /\ VotesCounted(a)
    BY <1>1 DEF ArticleInv
  <2>2. CASE request.article # a
    BY <1>1, <1>2, <1>3, <2>2, ArticleAside
  <2>3. CASE request.article = a
    <3>1. request.op # "unfile"
      BY <1>4, <2>3, KnowledgeAssumption
    <3>2. MakersAlone(a)'
      <4> SUFFICES ASSUME NEW m \in Clerks, clerk'[m].op \in Makers,
                          clerk'[m].article = a
                   PROVE  ~Exists(a)' /\ \A d \in Clerks \ {m} : ~On(d, a)'
        BY DEF MakersAlone
      <4>1. CASE m = c
        BY <1>2, <1>3, <2>3, <4>1 DEF Unused, Exists, On
      <4>2. CASE m # c
        <5>1. clerk[m].op \in Makers /\ clerk[m].article = a
          BY <1>3, <4>2
        <5>2. ~Exists(a) /\ clerk[m].op # "free"
          BY <2>1, <5>1 DEF MakersAlone, Makers
        <5>3. ~Unused(a)
          BY <5>1, <5>2 DEF Unused
        <5> QED
          BY <2>3, <3>1, <5>2, <5>3
      <4> QED
        BY <4>1, <4>2
    <3>3. Blank(a)'
      BY <1>2, <2>1 DEF Blank, Exists
    <3>4. ListVersions(a)' = ListVersions(a)
      BY <1>2 DEF ListVersions
    <3>5. MetadataKept(a)'
      <4>1. request.op \in MetadataWriters /\ a \notin crossed' =>
              \A d \in Clerks : ~Extends(d, a)
        BY <2>3 DEF Reads, Extends
      <4>2. request.op \in MetadataWriters =>
              /\ request.row.text = article[a].text
              /\ request.row.versions = article[a].versions
              /\ request.row.remarks = article[a].remarks
        BY <2>3
      <4>3. \A d \in Clerks \ {c} : Extends(d, a)' <=> Extends(d, a)
        BY <1>3 DEF Extends
      <4>4. Extends(c, a)' <=> request.op \in MetadataWriters
        BY <1>3, <2>3 DEF Extends
      <4>5. ~Extends(c, a)
        BY <1>2 DEF Extends, Free, MetadataWriters
      <4> QED
        BY <1>2, <1>3, <2>1, <3>4, <4>1, <4>2, <4>3, <4>4, <4>5
        DEF MetadataKept, Exists
    <3>6. \A side : Supporters(a, side)' = Supporters(a, side)
      BY <1>2 DEF Supporters
    <3>7. VotesCounted(a)'
      <4>1. \A u \in Readers : CastsFor(c, a, u)' <=> request.op = "vote" /\ request.reader = u
        BY <1>3, <2>3 DEF CastsFor
      <4>2. \A u \in Readers : \A d \in Clerks \ {c} : CastsFor(d, a, u)' <=> CastsFor(d, a, u)
        BY <1>3 DEF CastsFor
      <4> QED
        BY <1>2, <1>3, <2>1, <2>3, <3>6, <4>1, <4>2 DEF VotesCounted, Exists
    <3> QED
      BY <3>2, <3>3, <3>5, <3>7 DEF ArticleInv
  <2> QED
    BY <2>2, <2>3
<1> QED
  BY <1>6, <1>7, <1>8 DEF KnowledgeInv

\* A request has written an article, and is over.
LEMMA WriteStep ==
  ASSUME KnowledgeInv, NEW c \in Clerks, NEW a \in Articles,
         clerk' = [clerk EXCEPT ![c] = Free], KnowledgeTypeOK', category' = category,
         \A b \in Articles \ {a} :
           /\ article'[b] = article[b] /\ ballot'[b] = ballot[b]
           /\ written'[b] = written[b] /\ said'[b] = said[b]
           /\ b \in crossed => b \in crossed'
           /\ b \in doubled => b \in doubled',
         Exists(a)' => \/ Exists(a)
                       \/ clerk[c].op \in Makers /\ clerk[c].article = a,
         Exists(a)' => CategoryStands(article'[a].category),
         Blank(a)', MetadataKept(a)', VotesCounted(a)'
  PROVE  KnowledgeInv'
<1>1. KnowledgeTypes /\ FiledWhereItIs /\ \A b \in Articles : ArticleInv(b)
  BY DEF KnowledgeInv
<1>2. /\ clerk \in [Clerks -> ClerkRequest]
      /\ clerk'[c] = Free /\ \A d \in Clerks \ {c} : clerk'[d] = clerk[d]
  BY <1>1 DEF KnowledgeTypes
<1>3. KnowledgeTypes'
  BY <1>2 DEF KnowledgeTypes, ClerkRequest
<1>4. FiledWhereItIs'
  BY <1>1, <1>2 DEF FiledWhereItIs, Exists, CategoryStands, Filed, Free
<1>5. MakersAlone(a)'
  BY <1>1, <1>2 DEF ArticleInv, MakersAlone, Makers, Free, On
<1>6. ASSUME NEW b \in Articles \ {a}
      PROVE  ArticleInv(b)'
  <2>1. \A d \in Clerks : clerk'[d] = clerk[d] \/ clerk'[d].op = "free"
    BY <1>2 DEF Free
  <2> QED
    BY <1>1, <2>1, ArticleAside
<1> QED
  BY <1>3, <1>4, <1>5, <1>6 DEF KnowledgeInv, ArticleInv

\* A write that leaves the metadata alone.
LEMMA MetadataStays ==
  ASSUME NEW a \in Articles, MetadataKept(a), Exists(a), Exists(a)',
         article'[a].text = article[a].text,
         article'[a].versions = article[a].versions,
         article'[a].remarks = article[a].remarks,
         written' = written, said' = said, crossed' = crossed,
         \A d \in Clerks : clerk'[d] = clerk[d] \/ clerk'[d].op = "free"
  PROVE  MetadataKept(a)'
<1>1. ListVersions(a)' = ListVersions(a)
  BY DEF ListVersions
<1>2. \A d \in Clerks : Extends(d, a)' => Extends(d, a) /\ clerk'[d] = clerk[d]
  BY DEF Extends, MetadataWriters
<1> QED
  BY <1>1, <1>2 DEF MetadataKept

\* A write that leaves the votes alone.
LEMMA VotesStay ==
  ASSUME NEW a \in Articles, VotesCounted(a), Exists(a), Exists(a)',
         article'[a].helpful = article[a].helpful,
         article'[a].notHelpful = article[a].notHelpful,
         article'[a].likes = article[a].likes,
         ballot' = ballot, doubled' = doubled,
         \A d \in Clerks : clerk'[d] = clerk[d] \/ clerk'[d].op = "free"
  PROVE  VotesCounted(a)'
<1>1. \A side : Supporters(a, side)' = Supporters(a, side)
  BY DEF Supporters
<1>2. \A d \in Clerks, u \in Readers :
        CastsFor(d, a, u)' => CastsFor(d, a, u) /\ clerk'[d] = clerk[d]
  BY DEF CastsFor
<1> QED
  BY <1>1, <1>2 DEF VotesCounted

\* A new article has no votes, nobody works on it, and its history is its text.
LEMMA NewArticle ==
  ASSUME NEW a \in Articles, NEW c \in Clerks, ArticleInv(a),
         clerk[c].op \in Makers, clerk[c].article = a,
         clerk'[c] = Free, \A d \in Clerks \ {c} : clerk'[d] = clerk[d],
         article'[a].helpful = 0, article'[a].notHelpful = 0, article'[a].likes = 0,
         ballot' = ballot, written'[a] = {article'[a].text},
         said'[a] = article'[a].remarks
  PROVE  MetadataKept(a)' /\ VotesCounted(a)'
<1>1. ~Exists(a) /\ \A d \in Clerks \ {c} : ~On(d, a)
  BY DEF ArticleInv, MakersAlone
<1>2. ballot[a] = [u \in Readers |-> "none"]
  BY <1>1 DEF ArticleInv, Blank
<1>3. \A d \in Clerks : ~Extends(d, a)' /\ \A u : ~CastsFor(d, a, u)'
  BY <1>1 DEF On, Extends, CastsFor, MetadataWriters, Free
<1>4. MetadataKept(a)'
  BY <1>3 DEF MetadataKept
<1>5. \A side \in {"up", "down"} : Supporters(a, side)' = 0
  <2> SUFFICES ASSUME NEW side \in {"up", "down"}
               PROVE  Supporters(a, side)' = 0
    OBVIOUS
  <2>1. {u \in Readers : ballot'[a][u] = side} = {}
    BY <1>2
  <2> QED
    BY <2>1, FS_EmptySet DEF Supporters, Rows
<1>6. VotesCounted(a)'
  BY <1>3, <1>5 DEF VotesCounted
<1> QED
  BY <1>4, <1>6

\* What a reader's row changing does to the number of rows on a side.
LEMMA OneVote ==
  ASSUME NEW f \in [Readers -> Votes], NEW r \in Readers, NEW v \in Votes, NEW side,
         NEW g, g = [f EXCEPT ![r] = v]
  PROVE  /\ Rows(f, side) \in Nat
         /\ Rows(g, side) = Rows(f, side)
              + (IF v = side THEN 1 ELSE 0) - (IF f[r] = side THEN 1 ELSE 0)
<1> DEFINE Rest == {u \in Readers \ {r} : f[u] = side}
           Of(h) == {u \in Readers : h[u] = side}
<1>1. IsFiniteSet(Rest) /\ r \notin Rest
  <2>1. Rest \subseteq Readers
    OBVIOUS
  <2> QED
    BY <2>1, FS_Subset, KnowledgeAssumption
<1>2. Cardinality(Rest) \in Nat /\ Cardinality(Rest \cup {r}) = Cardinality(Rest) + 1
  <2> HIDE DEF Rest
  <2> QED
    BY <1>1, FS_AddElement, FS_CardinalityType
<1>3. Of(f) = IF f[r] = side THEN Rest \cup {r} ELSE Rest
  OBVIOUS
<1>4. Of(g) = IF v = side THEN Rest \cup {r} ELSE Rest
  OBVIOUS
<1> HIDE DEF Rest, Of
<1>5. Cardinality(Of(f)) = Cardinality(Rest) + (IF f[r] = side THEN 1 ELSE 0)
  BY <1>2, <1>3
<1>6. Cardinality(Of(g)) = Cardinality(Rest) + (IF v = side THEN 1 ELSE 0)
  BY <1>2, <1>4
<1>7. Cardinality(Of(g)) = Cardinality(Of(f))
        + (IF v = side THEN 1 ELSE 0) - (IF f[r] = side THEN 1 ELSE 0)
  BY <1>2, <1>5, <1>6
<1>8. Cardinality(Of(f)) \in Nat
  BY <1>2, <1>5
<1> QED
  BY <1>7, <1>8 DEF Of, Rows

-----------------------------------------------------------------------------
(* The writes. *)

\* What a request that writes has read, and how it ends.
LEMMA WriterFacts ==
  ASSUME KnowledgeInv, NEW c \in Clerks, NEW op, Writes(c, op), op # "free"
  PROVE  /\ clerk[c] \in ClerkRequest /\ clerk[c].op = op
         /\ clerk' = [clerk EXCEPT ![c] = Free] /\ requests' = requests
         /\ clerk'[c] = Free /\ \A d \in Clerks \ {c} : clerk'[d] = clerk[d]
         /\ \A d \in Clerks : clerk'[d] = clerk[d] \/ clerk'[d].op = "free"
<1>1. clerk \in [Clerks -> ClerkRequest]
  BY DEF KnowledgeInv, KnowledgeTypes
<1> QED
  BY <1>1 DEF Writes, Free

LEMMA CreateStep ==
  ASSUME KnowledgeInv, NEW c \in Clerks, WriteCreate(c)
  PROVE  KnowledgeInv'
<1> SUFFICES ASSUME NEW a, a = clerk[c].article
             PROVE  KnowledgeInv'
  OBVIOUS
<1> DEFINE row == [state |-> clerk[c].state,
                   published |-> clerk[c].state = "PUBLISHED",
                   category |-> clerk[c].category,
                   text |-> edits + 1, versions |-> <<edits + 1>>, remarks |-> {},
                   helpful |-> 0, notHelpful |-> 0, likes |-> 0]
<1>1. Writes(c, "create")
  BY DEF WriteCreate
<1>2. /\ clerk[c] \in ClerkRequest /\ clerk[c].op = "create"
      /\ clerk' = [clerk EXCEPT ![c] = Free] /\ requests' = requests
      /\ clerk'[c] = Free /\ \A d \in Clerks \ {c} : clerk'[d] = clerk[d]
  BY <1>1, WriterFacts
<1>3. a \in Articles /\ clerk[c].category \in Anywhere /\ clerk[c].state \in States
  BY <1>2, ClerkByOp
<1>4. /\ CategoryStands(clerk[c].category) /\ edits < MaxEdits /\ edits' = edits + 1
      /\ article' = [article EXCEPT ![a] = row]
      /\ written' = [written EXCEPT ![a] = {edits + 1}]
      /\ UNCHANGED <<ballot, category, said, crossed, doubled>>
  BY DEF WriteCreate
<1>5. KnowledgeTypeOK /\ ArticleInv(a)
  BY <1>3 DEF KnowledgeInv, KnowledgeTypes
<1>6. edits + 1 \in Texts
  BY <1>4, <1>5, KnowledgeAssumption DEF KnowledgeTypeOK, Texts
<1>7. row \in ArticleRow
  BY <1>3, <1>6 DEF ArticleRow, Anywhere
<1>8. KnowledgeTypeOK'
  BY <1>2, <1>4, <1>5, <1>6, <1>7 DEF KnowledgeTypeOK
<1>9. /\ article'[a] = row /\ \A b \in Articles \ {a} : article'[b] = article[b]
      /\ written'[a] = {edits + 1} /\ \A b \in Articles \ {a} : written'[b] = written[b]
  BY <1>3, <1>4, <1>5 DEF KnowledgeTypeOK
<1>10. said[a] = {} /\ Exists(a)'
  BY <1>2, <1>5, <1>7, <1>9, KnowledgeAssumption
  DEF ArticleInv, MakersAlone, Makers, Blank, Exists
<1>11. Blank(a)' /\ CategoryStands(article'[a].category)
  BY <1>4, <1>9, <1>10 DEF Blank
<1>12. MetadataKept(a)' /\ VotesCounted(a)'
  <2>1. /\ article'[a].helpful = 0 /\ article'[a].notHelpful = 0 /\ article'[a].likes = 0
        /\ written'[a] = {article'[a].text} /\ said'[a] = article'[a].remarks
    BY <1>4, <1>9, <1>10
  <2> QED
    BY <1>2, <1>3, <1>4, <1>5, <2>1, NewArticle DEF Makers
<1> HIDE DEF row
<1> QED
  BY <1>2, <1>3, <1>4, <1>8, <1>9, <1>11, <1>12, WriteStep DEF Makers

\* The row of a copy, and the row an update writes.
LEMMA CopiedRow ==
  ASSUME NEW old \in ArticleRow, NEW none \in Seq(Texts)
  PROVE  LET row == [old EXCEPT !.state = "DRAFT", !.published = FALSE,
                                !.versions = none,
                                !.helpful = 0, !.notHelpful = 0, !.likes = 0]
         IN /\ row \in ArticleRow /\ old.text \in Texts /\ old.remarks \in SUBSET Remarks
            /\ row.text = old.text /\ row.remarks = old.remarks
            /\ row.category = old.category
            /\ row.helpful = 0 /\ row.notHelpful = 0 /\ row.likes = 0
<1> DEFINE Sequences == Seq(Texts)
           Spoken == SUBSET Remarks
           Places == Categories \cup {NoCategory}
           Whole == Int
           Flags == BOOLEAN
           draft == "DRAFT"
           off == FALSE
           zero == 0
<1>1. ArticleRow =
        [state : States, published : Flags, category : Places, text : Texts,
         versions : Sequences, remarks : Spoken,
         helpful : Whole, notHelpful : Whole, likes : Whole]
  BY DEF ArticleRow
<1>2. none \in Sequences /\ draft \in States /\ off \in Flags /\ zero \in Whole
  BY DEF States
<1>3. Spoken = SUBSET Remarks
  OBVIOUS
<1> DEFINE row == [old EXCEPT !.state = draft, !.published = off, !.versions = none,
                              !.helpful = zero, !.notHelpful = zero, !.likes = zero]
<1>4. /\ row \in ArticleRow /\ old.text \in Texts /\ old.remarks \in Spoken
      /\ row.text = old.text /\ row.remarks = old.remarks
      /\ row.category = old.category
      /\ row.helpful = zero /\ row.notHelpful = zero /\ row.likes = zero
  <2> HIDE DEF Sequences, Spoken, Places, Whole, Flags, draft, off, zero
  <2> QED
    BY <1>1, <1>2
<1> QED
  BY <1>3, <1>4

Updated(old, text, versions, remarks, filed, state, published) ==
  [old EXCEPT !.text = text, !.versions = versions, !.remarks = remarks,
              !.category = filed, !.state = state, !.published = published]

LEMMA UpdatedRow ==
  ASSUME NEW old \in ArticleRow, NEW text \in Texts, NEW versions \in Seq(Texts),
         NEW remarks \in SUBSET Remarks, NEW filed \in Anywhere, NEW state \in States,
         NEW published \in BOOLEAN,
         NEW row, row = Updated(old, text, versions, remarks, filed, state, published)
  PROVE  /\ row \in ArticleRow
         /\ row.text = text /\ row.versions = versions /\ row.remarks = remarks
         /\ row.category = filed /\ row.helpful = old.helpful
         /\ row.notHelpful = old.notHelpful /\ row.likes = old.likes
<1> DEFINE Sequences == Seq(Texts)
           Spoken == SUBSET Remarks
           Whole == Int
           Flags == BOOLEAN
<1>1. ArticleRow =
        [state : States, published : Flags, category : Anywhere, text : Texts,
         versions : Sequences, remarks : Spoken,
         helpful : Whole, notHelpful : Whole, likes : Whole]
  BY DEF ArticleRow, Anywhere
<1>2. versions \in Sequences /\ remarks \in Spoken /\ published \in Flags
  OBVIOUS
<1> HIDE DEF Sequences, Spoken, Whole, Flags
<1> QED
  BY <1>1, <1>2 DEF Updated

LEMMA CopyStep ==
  ASSUME KnowledgeInv, NEW c \in Clerks, WriteCopy(c)
  PROVE  KnowledgeInv'
<1> SUFFICES ASSUME NEW a, a = clerk[c].article
             PROVE  KnowledgeInv'
  OBVIOUS
<1> DEFINE old == clerk[c].row
           row == [old EXCEPT !.state = "DRAFT", !.published = FALSE,
                              !.versions = <<>>,
                              !.helpful = 0, !.notHelpful = 0, !.likes = 0]
<1>1. Writes(c, "copy")
  BY DEF WriteCopy
<1>2. /\ clerk[c] \in ClerkRequest /\ clerk[c].op = "copy"
      /\ clerk' = [clerk EXCEPT ![c] = Free] /\ requests' = requests
      /\ clerk'[c] = Free /\ \A d \in Clerks \ {c} : clerk'[d] = clerk[d]
  BY <1>1, WriterFacts
<1>3. a \in Articles /\ old \in ArticleRow
  BY <1>2, ClerkByOp
<1>4. /\ CategoryStands(clerk[c].category)
      /\ article' = [article EXCEPT ![a] = row]
      /\ written' = [written EXCEPT ![a] = {old.text}]
      /\ said' = [said EXCEPT ![a] = old.remarks]
      /\ UNCHANGED <<ballot, category, edits, crossed, doubled>>
  BY DEF WriteCopy
<1>5. KnowledgeTypeOK /\ ArticleInv(a) /\ clerk[c].category = old.category
  BY <1>2, <1>3 DEF KnowledgeInv, KnowledgeTypes, FiledWhereItIs
<1>6. /\ row \in ArticleRow /\ old.text \in Texts /\ old.remarks \in SUBSET Remarks
      /\ row.text = old.text /\ row.remarks = old.remarks /\ row.category = old.category
      /\ row.helpful = 0 /\ row.notHelpful = 0 /\ row.likes = 0
  <2>1. <<>> \in Seq(Texts)
    OBVIOUS
  <2> HIDE DEF old
  <2> QED
    BY <1>3, <2>1, CopiedRow
<1> HIDE DEF row, old
<1>8. KnowledgeTypeOK'
  BY <1>2, <1>4, <1>5, <1>6 DEF KnowledgeTypeOK
<1>9. /\ article'[a] = row /\ \A b \in Articles \ {a} : article'[b] = article[b]
      /\ written'[a] = {old.text} /\ \A b \in Articles \ {a} : written'[b] = written[b]
      /\ said'[a] = old.remarks /\ \A b \in Articles \ {a} : said'[b] = said[b]
  BY <1>3, <1>4, <1>5 DEF KnowledgeTypeOK
<1>10. Exists(a)'
  BY <1>6, <1>9, KnowledgeAssumption DEF Exists
<1>11. Blank(a)' /\ CategoryStands(article'[a].category)
  BY <1>4, <1>5, <1>6, <1>9, <1>10 DEF Blank
<1>12. MetadataKept(a)' /\ VotesCounted(a)'
  <2>1. /\ article'[a].helpful = 0 /\ article'[a].notHelpful = 0 /\ article'[a].likes = 0
        /\ written'[a] = {article'[a].text} /\ said'[a] = article'[a].remarks
    BY <1>4, <1>6, <1>9
  <2> QED
    BY <1>2, <1>3, <1>4, <1>5, <2>1, NewArticle DEF Makers
<1> QED
  BY <1>2, <1>3, <1>4, <1>8, <1>9, <1>11, <1>12, WriteStep DEF Makers

\* A writer of the metadata of an article that nobody crossed has read it, and
\* is the only one.
LEMMA MetadataRead ==
  ASSUME NEW a \in Articles, NEW c \in Clerks, MetadataKept(a), Exists(a),
         a \notin crossed, Extends(c, a),
         clerk'[c] = Free, \A d \in Clerks \ {c} : clerk'[d] = clerk[d]
  PROVE  /\ written[a] \subseteq {article[a].text} \cup ListVersions(a)
         /\ said[a] \subseteq article[a].remarks
         /\ clerk[c].row.text = article[a].text
         /\ clerk[c].row.versions = article[a].versions
         /\ clerk[c].row.remarks = article[a].remarks
         /\ \A d \in Clerks : ~Extends(d, a)'
BY DEF MetadataKept, Extends, Free, MetadataWriters

\* What a sequence holds once something is appended.
Held(s) == {s[i] : i \in DOMAIN s}

LEMMA AppendHolds ==
  ASSUME NEW S, NEW s \in Seq(S), NEW x \in S
  PROVE  Append(s, x) \in Seq(S) /\ Held(Append(s, x)) = Held(s) \cup {x}
<1> DEFINE t == Append(s, x)
<1>1. /\ t \in Seq(S) /\ Len(s) \in Nat
      /\ DOMAIN s = 1 .. Len(s) /\ DOMAIN t = 1 .. Len(s) + 1
      /\ \A i \in 1 .. Len(s) : t[i] = s[i]
      /\ t[Len(s) + 1] = x
  OBVIOUS
<1> HIDE DEF t
<1>2. Held(t) = Held(s) \cup {x}
  <2>1. DOMAIN t = DOMAIN s \cup {Len(s) + 1}
    BY <1>1
  <2> QED
    BY <1>1, <2>1 DEF Held
<1> QED
  BY <1>1, <1>2 DEF t

LEMMA UpdateStep ==
  ASSUME KnowledgeInv, NEW c \in Clerks, WriteUpdate(c)
  PROVE  KnowledgeInv'
<1> SUFFICES ASSUME NEW a, a = clerk[c].article
             PROVE  KnowledgeInv'
  OBVIOUS
<1> DEFINE old == article[a]
           read == clerk[c].row
           text == IF clerk[c].rewrites THEN edits + 1 ELSE read.text
           filed == IF clerk[c].moves THEN clerk[c].category ELSE old.category
           published == old.published \/ clerk[c].state = "PUBLISHED"
           versions == Append(read.versions, read.text)
           row == Updated(old, text, versions, read.remarks, filed, clerk[c].state, published)
<1>1. Writes(c, "update")
  BY DEF WriteUpdate
<1>2. /\ clerk[c] \in ClerkRequest /\ clerk[c].op = "update"
      /\ clerk' = [clerk EXCEPT ![c] = Free] /\ requests' = requests
      /\ clerk'[c] = Free /\ \A d \in Clerks \ {c} : clerk'[d] = clerk[d]
      /\ \A d \in Clerks : clerk'[d] = clerk[d] \/ clerk'[d].op = "free"
  BY <1>1, WriterFacts
<1>3. /\ a \in Articles /\ read \in ArticleRow /\ clerk[c].rewrites \in BOOLEAN
      /\ clerk[c].category \in Anywhere /\ clerk[c].state \in States
  BY <1>2, ClerkByOp DEF StateOps
<1>4. /\ KnowledgeTypeOK /\ ArticleInv(a) /\ Exists(a)
      /\ CategoryStands(article[a].category)
  BY <1>3 DEF KnowledgeInv, KnowledgeTypes, FiledWhereItIs, WriteUpdate
<1>5. old \in ArticleRow
  BY <1>3, <1>4 DEF KnowledgeTypeOK, Exists
<1>6. /\ clerk[c].moves => CategoryStands(clerk[c].category)
      /\ clerk[c].rewrites => edits < MaxEdits
      /\ edits' = IF clerk[c].rewrites THEN edits + 1 ELSE edits
      /\ written' = [written EXCEPT ![a] = @ \cup {text}]
      /\ UNCHANGED <<ballot, category, said, crossed, doubled>>
  BY DEF WriteUpdate
<1>7. /\ text \in Texts /\ edits' \in Texts
      /\ read.text \in Texts /\ read.versions \in Seq(Texts)
      /\ read.remarks \in SUBSET Remarks
      /\ filed \in Anywhere /\ published \in BOOLEAN
  <2>1. /\ read.text \in Texts /\ read.versions \in Seq(Texts)
        /\ read.remarks \in SUBSET Remarks
    BY <1>3 DEF ArticleRow
  <2>2. text \in Texts /\ edits' \in Texts
    BY <1>3, <1>4, <1>6, <2>1, KnowledgeAssumption DEF KnowledgeTypeOK, Texts
  <2>3. old.category \in Anywhere /\ old.published \in BOOLEAN
    BY <1>5 DEF ArticleRow, Anywhere
  <2>4. filed \in Anywhere /\ published \in BOOLEAN
    BY <1>3, <2>3
  <2> QED
    BY <2>1, <2>2, <2>4
<1>8. versions \in Seq(Texts) /\ Held(versions) = Held(read.versions) \cup {read.text}
  BY <1>7, AppendHolds
<1>9. article' = [article EXCEPT ![a] = row]
  <2>1. article' = [article EXCEPT
          ![a].text = text,
          ![a].versions = Append(read.versions, read.text),
          ![a].remarks = read.remarks,
          ![a].category = IF clerk[c].moves THEN clerk[c].category ELSE @,
          ![a].state = clerk[c].state,
          ![a].published = @ \/ clerk[c].state = "PUBLISHED"]
    BY DEF WriteUpdate
  <2> QED
    BY <1>3, <1>4, <2>1 DEF KnowledgeTypeOK, Updated
<1>10. CategoryStands(filed)
  BY <1>4, <1>6
<1>11. /\ row \in ArticleRow
       /\ row.text = text /\ row.versions = versions /\ row.remarks = read.remarks
       /\ row.category = filed /\ row.helpful = old.helpful
       /\ row.notHelpful = old.notHelpful /\ row.likes = old.likes
  <2>1. read.remarks \in SUBSET Remarks /\ clerk[c].state \in States
    BY <1>3, <1>7
  <2> HIDE DEF old, read, text, filed, published, versions
  <2> QED
    BY <1>5, <1>7, <1>8, <2>1, UpdatedRow
<1>12. text = edits + 1 \/ text = read.text
  OBVIOUS
<1> HIDE DEF row, text, versions, filed, published
<1>13. KnowledgeTypeOK'
  BY <1>2, <1>4, <1>6, <1>7, <1>9, <1>11 DEF KnowledgeTypeOK
<1>14. /\ article'[a] = row /\ \A b \in Articles \ {a} : article'[b] = article[b]
       /\ written'[a] = written[a] \cup {text}
       /\ \A b \in Articles \ {a} : written'[b] = written[b]
  BY <1>3, <1>4, <1>6, <1>9 DEF KnowledgeTypeOK
<1>15. Exists(a)'
  BY <1>11, <1>14, KnowledgeAssumption DEF Exists
<1>16. Blank(a)'
  BY <1>15 DEF Blank
<1>17. VotesCounted(a)'
  BY <1>2, <1>3, <1>4, <1>6, <1>11, <1>14, <1>15, VotesStay DEF ArticleInv
<1>18. MetadataKept(a)'
  <2> SUFFICES ASSUME a \notin crossed
               PROVE  MetadataKept(a)'
    BY <1>6 DEF MetadataKept
  <2>1. /\ written[a] \subseteq {article[a].text} \cup ListVersions(a)
        /\ said[a] \subseteq article[a].remarks
        /\ read.text = article[a].text
        /\ read.versions = article[a].versions
        /\ read.remarks = article[a].remarks
        /\ \A d \in Clerks : ~Extends(d, a)'
    BY <1>2, <1>3, <1>4, MetadataRead DEF ArticleInv, Extends, MetadataWriters
  <2>2. ListVersions(a)' = ListVersions(a) \cup {read.text}
    <3>1. /\ ListVersions(a) = Held(article[a].versions)
          /\ ListVersions(a)' = Held(article'[a].versions)
      BY DEF ListVersions, Held
    <3> QED
      BY <1>8, <1>11, <1>14, <2>1, <3>1
  <2>3. written'[a] \subseteq {article'[a].text} \cup ListVersions(a)'
    BY <1>11, <1>14, <2>1, <2>2
  <2>4. said'[a] \subseteq article'[a].remarks
    BY <1>6, <1>11, <1>14, <2>1
  <2> QED
    BY <2>1, <2>3, <2>4 DEF MetadataKept
<1> QED
  BY <1>2, <1>3, <1>4, <1>6, <1>10, <1>11, <1>13, <1>14, <1>16, <1>17, <1>18, WriteStep

LEMMA CommentStep ==
  ASSUME KnowledgeInv, NEW c \in Clerks, WriteComment(c)
  PROVE  KnowledgeInv'
<1> SUFFICES ASSUME NEW a, a = clerk[c].article
             PROVE  KnowledgeInv'
  OBVIOUS
<1> DEFINE old == article[a]
           read == clerk[c].row
           row == [old EXCEPT !.versions = read.versions,
                              !.remarks = read.remarks \cup {clerk[c].remark}]
<1>1. Writes(c, "comment")
  BY DEF WriteComment
<1>2. /\ clerk[c] \in ClerkRequest /\ clerk[c].op = "comment"
      /\ clerk' = [clerk EXCEPT ![c] = Free] /\ requests' = requests
      /\ clerk'[c] = Free /\ \A d \in Clerks \ {c} : clerk'[d] = clerk[d]
      /\ \A d \in Clerks : clerk'[d] = clerk[d] \/ clerk'[d].op = "free"
  BY <1>1, WriterFacts
<1>3. a \in Articles /\ read \in ArticleRow /\ clerk[c].remark \in Remarks
  BY <1>2, ClerkByOp DEF StateOps
<1>4. /\ KnowledgeTypeOK /\ ArticleInv(a) /\ Exists(a)
      /\ CategoryStands(article[a].category)
  BY <1>3 DEF KnowledgeInv, KnowledgeTypes, FiledWhereItIs, WriteComment
<1>5. old \in ArticleRow
  BY <1>3, <1>4 DEF KnowledgeTypeOK, Exists
<1>6. /\ article' = [article EXCEPT ![a] = row]
      /\ said' = [said EXCEPT ![a] = @ \cup {clerk[c].remark}]
      /\ UNCHANGED <<ballot, category, edits, written, crossed, doubled>>
  BY <1>3, <1>4, <1>5 DEF WriteComment, KnowledgeTypeOK, ArticleRow
<1>7. /\ row.versions = read.versions
      /\ row.remarks = read.remarks \cup {clerk[c].remark}
      /\ row.text = old.text /\ row.category = old.category
      /\ row.helpful = old.helpful /\ row.notHelpful = old.notHelpful
      /\ row.likes = old.likes
  BY <1>5 DEF ArticleRow
<1>8. row \in ArticleRow
  BY <1>3, <1>5 DEF ArticleRow
<1> HIDE DEF row
<1>9. KnowledgeTypeOK'
  BY <1>2, <1>3, <1>4, <1>6, <1>8 DEF KnowledgeTypeOK
<1>10. /\ article'[a] = row /\ \A b \in Articles \ {a} : article'[b] = article[b]
       /\ said'[a] = said[a] \cup {clerk[c].remark}
       /\ \A b \in Articles \ {a} : said'[b] = said[b]
  BY <1>3, <1>4, <1>6 DEF KnowledgeTypeOK
<1>11. Exists(a)'
  BY <1>8, <1>10, KnowledgeAssumption DEF Exists
<1>12. Blank(a)' /\ CategoryStands(article'[a].category)
  BY <1>4, <1>7, <1>10, <1>11 DEF Blank
<1>13. VotesCounted(a)'
  BY <1>2, <1>3, <1>4, <1>6, <1>7, <1>10, <1>11, VotesStay DEF ArticleInv
<1>14. MetadataKept(a)'
  <2> SUFFICES ASSUME a \notin crossed
               PROVE  MetadataKept(a)'
    BY <1>6 DEF MetadataKept
  <2>1. /\ written[a] \subseteq {article[a].text} \cup ListVersions(a)
        /\ said[a] \subseteq article[a].remarks
        /\ read.versions = article[a].versions
        /\ read.remarks = article[a].remarks
        /\ \A d \in Clerks : ~Extends(d, a)'
    BY <1>2, <1>3, <1>4, MetadataRead DEF ArticleInv, Extends, MetadataWriters
  <2>2. ListVersions(a)' = ListVersions(a)
    BY <1>7, <1>10, <2>1 DEF ListVersions
  <2> QED
    BY <1>6, <1>7, <1>10, <2>1, <2>2 DEF MetadataKept
<1> QED
  BY <1>2, <1>3, <1>4, <1>6, <1>9, <1>10, <1>12, <1>13, <1>14, WriteStep

LEMMA StateStep ==
  ASSUME KnowledgeInv, NEW c \in Clerks, NEW op \in StateOps, WriteState(c, op)
  PROVE  KnowledgeInv'
<1> SUFFICES ASSUME NEW a, a = clerk[c].article
             PROVE  KnowledgeInv'
  OBVIOUS
<1> DEFINE old == article[a]
           published == old.published \/ op = "publish"
           row == [old EXCEPT !.state = NewState(c), !.published = published]
<1>1. Writes(c, op) /\ op # "free"
  BY DEF WriteState, StateOps
<1>2. /\ clerk[c] \in ClerkRequest /\ clerk[c].op = op
      /\ clerk' = [clerk EXCEPT ![c] = Free] /\ requests' = requests
      /\ clerk'[c] = Free /\ \A d \in Clerks \ {c} : clerk'[d] = clerk[d]
      /\ \A d \in Clerks : clerk'[d] = clerk[d] \/ clerk'[d].op = "free"
  BY <1>1, WriterFacts
<1>3. a \in Articles /\ NewState(c) \in States
  BY <1>2, ClerkByOp DEF StateOps, NewState, States
<1>4. /\ KnowledgeTypeOK /\ ArticleInv(a) /\ Exists(a)
      /\ CategoryStands(article[a].category)
  BY <1>3 DEF KnowledgeInv, KnowledgeTypes, FiledWhereItIs, WriteState
<1>5. old \in ArticleRow
  BY <1>3, <1>4 DEF KnowledgeTypeOK, Exists
<1>6. /\ article' = [article EXCEPT ![a] = row]
      /\ UNCHANGED <<ballot, category, edits, written, said, crossed, doubled>>
  BY <1>3, <1>4, <1>5 DEF WriteState, KnowledgeTypeOK, ArticleRow
<1>7. old.published \in BOOLEAN
  BY <1>5 DEF ArticleRow
<1>8. published \in BOOLEAN
  BY <1>7
<1> HIDE DEF published
<1>9. row \in ArticleRow
  BY <1>3, <1>5, <1>8 DEF ArticleRow
<1>10. /\ row.versions = old.versions /\ row.remarks = old.remarks
       /\ row.text = old.text /\ row.category = old.category
       /\ row.helpful = old.helpful /\ row.notHelpful = old.notHelpful
       /\ row.likes = old.likes
  BY <1>5 DEF ArticleRow
<1> HIDE DEF row
<1>11. KnowledgeTypeOK'
  BY <1>2, <1>3, <1>4, <1>6, <1>9 DEF KnowledgeTypeOK
<1>12. article'[a] = row /\ \A b \in Articles \ {a} : article'[b] = article[b]
  BY <1>3, <1>4, <1>6 DEF KnowledgeTypeOK
<1>13. Exists(a)'
  BY <1>9, <1>12, KnowledgeAssumption DEF Exists
<1>14. Blank(a)' /\ CategoryStands(article'[a].category)
  BY <1>4, <1>10, <1>12, <1>13 DEF Blank
<1>15. VotesCounted(a)'
  BY <1>2, <1>3, <1>4, <1>6, <1>10, <1>12, <1>13, VotesStay DEF ArticleInv
<1>16. MetadataKept(a)'
  BY <1>2, <1>3, <1>4, <1>6, <1>10, <1>12, <1>13, MetadataStays DEF ArticleInv
<1> QED
  BY <1>2, <1>3, <1>4, <1>6, <1>11, <1>12, <1>14, <1>15, <1>16, WriteStep

LEMMA DeleteStep ==
  ASSUME KnowledgeInv, NEW c \in Clerks, WriteDelete(c)
  PROVE  KnowledgeInv'
<1> SUFFICES ASSUME NEW a, a = clerk[c].article
             PROVE  KnowledgeInv'
  OBVIOUS
<1>1. Writes(c, "delete")
  BY DEF WriteDelete
<1>2. /\ clerk[c] \in ClerkRequest /\ clerk[c].op = "delete"
      /\ clerk' = [clerk EXCEPT ![c] = Free] /\ requests' = requests
  BY <1>1, WriterFacts
<1>3. a \in Articles /\ KnowledgeTypeOK
  BY <1>2, ClerkByOp DEF StateOps, KnowledgeInv, KnowledgeTypes
<1>4. /\ article' = [article EXCEPT ![a] = NoArticle]
      /\ ballot' = [ballot EXCEPT ![a] = [u \in Readers |-> "none"]]
      /\ written' = [written EXCEPT ![a] = {}]
      /\ said' = [said EXCEPT ![a] = {}]
      /\ crossed' = crossed \ {a} /\ doubled' = doubled \ {a}
      /\ UNCHANGED <<category, edits>>
  BY DEF WriteDelete
<1>5. /\ article'[a] = NoArticle /\ ballot'[a] = [u \in Readers |-> "none"]
      /\ said'[a] = {}
      /\ \A b \in Articles \ {a} :
           /\ article'[b] = article[b] /\ ballot'[b] = ballot[b]
           /\ written'[b] = written[b] /\ said'[b] = said[b]
           /\ b \in crossed => b \in crossed'
           /\ b \in doubled => b \in doubled'
  BY <1>3, <1>4 DEF KnowledgeTypeOK
<1>6. KnowledgeTypeOK'
  <2>1. [u \in Readers |-> "none"] \in [Readers -> Votes]
    BY DEF Votes
  <2> QED
    BY <1>2, <1>3, <1>4, <2>1 DEF KnowledgeTypeOK
<1>7. ~Exists(a)' /\ Blank(a)' /\ MetadataKept(a)' /\ VotesCounted(a)'
  BY <1>5 DEF Exists, Blank, MetadataKept, VotesCounted
<1> QED
  BY <1>2, <1>3, <1>4, <1>5, <1>6, <1>7, WriteStep

LEMMA VoteStep ==
  ASSUME KnowledgeInv, NEW c \in Clerks, WriteVote(c)
  PROVE  KnowledgeInv'
<1> SUFFICES ASSUME NEW a, a = clerk[c].article, NEW r, r = clerk[c].reader
             PROVE  KnowledgeInv'
  OBVIOUS
<1> DEFINE old == article[a]
           cast == clerk[c].cast
           up == Delta(c, "up")
           down == Delta(c, "down")
           row == [old EXCEPT !.helpful = old.helpful + up,
                              !.notHelpful = old.notHelpful + down,
                              !.likes = old.likes + up]
<1>1. Writes(c, "vote")
  BY DEF WriteVote
<1>2. /\ clerk[c] \in ClerkRequest /\ clerk[c].op = "vote"
      /\ clerk' = [clerk EXCEPT ![c] = Free] /\ requests' = requests
      /\ clerk'[c] = Free /\ \A d \in Clerks \ {c} : clerk'[d] = clerk[d]
      /\ \A d \in Clerks : clerk'[d] = clerk[d] \/ clerk'[d].op = "free"
  BY <1>1, WriterFacts
<1>3. /\ a \in Articles /\ r \in Readers /\ cast \in Votes
      /\ up \in Int /\ down \in Int
  BY <1>2, ClerkByOp DEF Votes, Delta
<1>4. /\ KnowledgeTypeOK /\ ArticleInv(a) /\ Exists(a)
      /\ CategoryStands(article[a].category)
  BY <1>3 DEF KnowledgeInv, KnowledgeTypes, FiledWhereItIs, WriteVote
<1>5. old \in ArticleRow /\ ballot[a] \in [Readers -> Votes]
  BY <1>3, <1>4 DEF KnowledgeTypeOK, Exists
<1>6. /\ article' = [article EXCEPT ![a] = row]
      /\ ballot' = [ballot EXCEPT ![a] = [ballot[a] EXCEPT ![r] = cast]]
      /\ UNCHANGED <<category, edits, written, said, crossed, doubled>>
  <2>1. /\ article' = [article EXCEPT ![a].helpful = @ + up,
                                      ![a].notHelpful = @ + down,
                                      ![a].likes = @ + up]
        /\ ballot' = [ballot EXCEPT ![a][r] = cast]
        /\ UNCHANGED <<category, edits, written, said, crossed, doubled>>
    BY DEF WriteVote
  <2> HIDE DEF up, down, cast
  <2>2. article' = [article EXCEPT ![a] = row]
    BY <1>3, <1>4, <1>5, <2>1 DEF KnowledgeTypeOK
  <2>3. ballot' = [ballot EXCEPT ![a] = [ballot[a] EXCEPT ![r] = cast]]
    BY <1>3, <1>4, <2>1 DEF KnowledgeTypeOK
  <2> QED
    BY <2>1, <2>2, <2>3
<1> HIDE DEF up, down
<1>7. old.helpful \in Int /\ old.notHelpful \in Int /\ old.likes \in Int
  BY <1>5 DEF ArticleRow
<1>8. row \in ArticleRow
  <2>1. old.helpful + up \in Int /\ old.notHelpful + down \in Int /\ old.likes + up \in Int
    BY <1>3, <1>7
  <2> QED
    BY <1>5, <2>1 DEF ArticleRow
<1>9. /\ row.versions = old.versions /\ row.remarks = old.remarks
      /\ row.text = old.text /\ row.category = old.category
      /\ row.helpful = old.helpful + up /\ row.notHelpful = old.notHelpful + down
      /\ row.likes = old.likes + up
  BY <1>5 DEF ArticleRow
<1> HIDE DEF row
<1>10. KnowledgeTypeOK'
  BY <1>2, <1>3, <1>4, <1>5, <1>6, <1>8 DEF KnowledgeTypeOK
<1>11. /\ article'[a] = row /\ \A b \in Articles \ {a} : article'[b] = article[b]
       /\ ballot'[a] = [ballot[a] EXCEPT ![r] = cast]
       /\ \A b \in Articles \ {a} : ballot'[b] = ballot[b]
  BY <1>3, <1>4, <1>6 DEF KnowledgeTypeOK
<1>12. Exists(a)'
  BY <1>8, <1>11, KnowledgeAssumption DEF Exists
<1>13. Blank(a)' /\ CategoryStands(article'[a].category)
  BY <1>4, <1>9, <1>11, <1>12 DEF Blank
<1>14. MetadataKept(a)'
  BY <1>2, <1>3, <1>4, <1>6, <1>9, <1>11, <1>12, MetadataStays DEF ArticleInv
<1>15. VotesCounted(a)'
  <2> SUFFICES ASSUME a \notin doubled
               PROVE  VotesCounted(a)'
    BY <1>6 DEF VotesCounted
  <2>1. /\ old.helpful = Supporters(a, "up")
        /\ old.notHelpful = Supporters(a, "down")
        /\ old.likes = old.helpful
        /\ \A d \in Clerks, u \in Readers : CastsFor(d, a, u) =>
             /\ clerk[d].was = ballot[a][u]
             /\ \A e \in Clerks \ {d} : ~CastsFor(e, a, u)
    BY <1>4 DEF ArticleInv, VotesCounted
  <2>2. CastsFor(c, a, r)
    BY <1>2 DEF CastsFor
  <2>3. clerk[c].was = ballot[a][r] /\ \A d \in Clerks \ {c} : ~CastsFor(d, a, r)
    BY <1>3, <2>1, <2>2
  <2>4. ASSUME NEW side
        PROVE  Supporters(a, side)' = Supporters(a, side) + Delta(c, side)
    <3>1. Supporters(a, side)' = Rows(ballot'[a], side)
      BY DEF Supporters, Rows
    <3>2. /\ Rows(ballot[a], side) \in Nat
          /\ Rows(ballot'[a], side) = Rows(ballot[a], side)
               + (IF cast = side THEN 1 ELSE 0) - (IF ballot[a][r] = side THEN 1 ELSE 0)
      <4>1. ballot'[a] = [ballot[a] EXCEPT ![r] = cast]
        BY <1>11
      <4> HIDE DEF cast
      <4> QED
        BY <1>3, <1>5, <4>1, OneVote
    <3> QED
      BY <2>3, <3>1, <3>2 DEF Supporters, Delta
  <2>5. /\ article'[a].helpful = Supporters(a, "up")'
        /\ article'[a].notHelpful = Supporters(a, "down")'
        /\ article'[a].likes = article'[a].helpful
    BY <1>9, <1>11, <2>1, <2>4 DEF up, down
  <2>6. ASSUME NEW d \in Clerks, NEW u \in Readers, CastsFor(d, a, u)'
        PROVE  /\ clerk'[d].was = ballot'[a][u]
               /\ \A e \in Clerks \ {d} : ~CastsFor(e, a, u)'
    <3>1. d # c /\ clerk'[d] = clerk[d] /\ CastsFor(d, a, u)
      BY <1>2, <2>6 DEF CastsFor, Free
    <3>2. u # r
      BY <2>3, <3>1
    <3>3. ballot'[a][u] = ballot[a][u]
      BY <1>5, <1>11, <3>2
    <3>4. \A e \in Clerks \ {d} : ~CastsFor(e, a, u)'
      BY <1>2, <2>1, <3>1 DEF CastsFor, Free
    <3> QED
      BY <2>1, <3>1, <3>3, <3>4
  <2> QED
    BY <2>5, <2>6 DEF VotesCounted
<1> QED
  BY <1>2, <1>3, <1>4, <1>6, <1>10, <1>11, <1>13, <1>14, <1>15, WriteStep

LEMMA UnfileStep ==
  ASSUME KnowledgeInv, NEW c \in Clerks, WriteUnfile(c)
  PROVE  KnowledgeInv'
<1> SUFFICES ASSUME NEW k, k = clerk[c].category
             PROVE  KnowledgeInv'
  OBVIOUS
<1>1. Writes(c, "unfile")
  BY DEF WriteUnfile
<1>2. /\ clerk[c] \in ClerkRequest /\ clerk[c].op = "unfile"
      /\ clerk' = [clerk EXCEPT ![c] = Free] /\ requests' = requests
      /\ clerk'[c] = Free /\ \A d \in Clerks \ {c} : clerk'[d] = clerk[d]
      /\ \A d \in Clerks : clerk'[d] = clerk[d] \/ clerk'[d].op = "free"
  BY <1>1, WriterFacts
<1>3. /\ KnowledgeTypes /\ KnowledgeTypeOK /\ FiledWhereItIs
      /\ \A a \in Articles : ArticleInv(a)
      /\ k \in Categories
  BY <1>2, ClerkByOp DEF KnowledgeInv, KnowledgeTypes
<1>4. /\ k \in Filed
      /\ UNCHANGED <<ballot, edits, written, said, crossed, doubled>>
  BY DEF WriteUnfile
<1>5. CASE clerk[c].soft
  <2>1. category' = [category EXCEPT ![k] = "inactive"] /\ UNCHANGED article
    BY <1>5 DEF WriteUnfile
  <2>2. KnowledgeTypes'
    BY <1>2, <1>3, <1>4, <2>1 DEF KnowledgeTypes, KnowledgeTypeOK, ClerkRequest
  <2>3. Filed' = Filed
    BY <1>3, <1>4, <2>1 DEF Filed, KnowledgeTypeOK
  <2>4. FiledWhereItIs'
    BY <1>2, <1>3, <2>1, <2>3 DEF FiledWhereItIs, Exists, CategoryStands, Free
  <2>5. \A a \in Articles : ArticleInv(a)'
    BY <1>2, <1>3, <1>4, <2>1, ArticleAside
  <2> QED
    BY <2>2, <2>4, <2>5 DEF KnowledgeInv
<1>6. CASE ~clerk[c].soft
  <2>1. /\ category' = [category EXCEPT ![k] = "absent"]
        /\ article' = [a \in Articles |->
             IF Exists(a) /\ article[a].category = k
             THEN [article[a] EXCEPT !.category = NoCategory]
             ELSE article[a]]
    BY <1>6 DEF WriteUnfile
  <2>2. ASSUME NEW a \in Articles
        PROVE  \/ /\ article'[a] = article[a]
                  /\ Exists(a) => article[a].category # k
               \/ /\ Exists(a) /\ article[a] \in ArticleRow
                  /\ article'[a] = [article[a] EXCEPT !.category = NoCategory]
    BY <1>3, <2>1 DEF KnowledgeTypeOK, Exists
  <2>3. ASSUME NEW row \in ArticleRow
        PROVE  /\ [row EXCEPT !.category = NoCategory] \in ArticleRow
               /\ LET left == [row EXCEPT !.category = NoCategory]
                  IN /\ left.text = row.text /\ left.versions = row.versions
                     /\ left.remarks = row.remarks /\ left.category = NoCategory
                     /\ left.helpful = row.helpful /\ left.likes = row.likes
                     /\ left.notHelpful = row.notHelpful
    BY DEF ArticleRow
  <2>4. Filed' = Filed \ {k}
    BY <1>3, <1>4, <2>1 DEF Filed, KnowledgeTypeOK
  <2>5. ASSUME NEW a \in Articles
        PROVE  /\ article'[a] \in ArticleRow \cup {NoArticle}
               /\ Exists(a)' <=> Exists(a)
               /\ Exists(a) =>
                    /\ article'[a].text = article[a].text
                    /\ article'[a].versions = article[a].versions
                    /\ article'[a].remarks = article[a].remarks
                    /\ article'[a].helpful = article[a].helpful
                    /\ article'[a].notHelpful = article[a].notHelpful
                    /\ article'[a].likes = article[a].likes
                    /\ CategoryStands(article[a].category)'
    <3>1. CASE article'[a] = article[a] /\ (Exists(a) => article[a].category # k)
      <4>1. article[a] \in ArticleRow \cup {NoArticle}
        BY <1>3 DEF KnowledgeTypeOK
      <4>2. Exists(a) => CategoryStands(article[a].category)
        BY <1>3 DEF FiledWhereItIs
      <4>3. Exists(a) => CategoryStands(article[a].category)'
        BY <2>4, <3>1, <4>2 DEF CategoryStands
      <4> QED
        BY <3>1, <4>1, <4>3 DEF Exists
    <3>2. CASE /\ Exists(a) /\ article[a] \in ArticleRow
               /\ article'[a] = [article[a] EXCEPT !.category = NoCategory]
      <4>1. /\ article'[a] \in ArticleRow
            /\ article'[a].text = article[a].text
            /\ article'[a].versions = article[a].versions
            /\ article'[a].remarks = article[a].remarks
            /\ article'[a].helpful = article[a].helpful
            /\ article'[a].notHelpful = article[a].notHelpful
            /\ article'[a].likes = article[a].likes
            /\ article'[a].category = NoCategory
        BY <2>3, <3>2
      <4>2. CategoryStands(article[a].category)'
        BY <4>1 DEF CategoryStands
      <4> QED
        BY <3>2, <4>1, <4>2, KnowledgeAssumption DEF Exists
    <3> QED
      BY <2>2, <3>1, <3>2
  <2>6. article' \in [Articles -> ArticleRow \cup {NoArticle}]
    <3>1. \A a \in Articles : article'[a] \in ArticleRow \cup {NoArticle}
      BY <2>5
    <3>2. article' = [a \in Articles |-> article'[a]]
      BY <2>1
    <3> QED
      BY <3>1, <3>2
  <2>7. KnowledgeTypes'
    BY <1>2, <1>3, <1>4, <2>1, <2>6 DEF KnowledgeTypes, KnowledgeTypeOK, ClerkRequest
  <2>8. FiledWhereItIs'
    <3>1. \A d \in Clerks : clerk'[d].op = "copy" =>
            clerk'[d].category = clerk'[d].row.category
      BY <1>2, <1>3 DEF FiledWhereItIs, Free
    <3> QED
      BY <2>5, <3>1 DEF FiledWhereItIs
  <2>9. ASSUME NEW a \in Articles
        PROVE  ArticleInv(a)'
    <3>1. MakersAlone(a) /\ Blank(a) /\ MetadataKept(a) /\ VotesCounted(a)
      BY <1>3 DEF ArticleInv
    <3>2. MakersAlone(a)'
      BY <1>2, <2>5, <3>1 DEF MakersAlone, On, Makers, Free
    <3>3. Blank(a)'
      BY <1>4, <2>5, <3>1 DEF Blank
    <3>4. CASE Exists(a)
      <4>1. MetadataKept(a)' /\ VotesCounted(a)'
        BY <1>2, <1>4, <2>5, <3>1, <3>4, MetadataStays, VotesStay
      <4> QED
        BY <3>2, <3>3, <4>1 DEF ArticleInv
    <3>5. CASE ~Exists(a)
      <4>1. MetadataKept(a)' /\ VotesCounted(a)'
        BY <2>5, <3>5 DEF MetadataKept, VotesCounted
      <4> QED
        BY <3>2, <3>3, <4>1 DEF ArticleInv
    <3> QED
      BY <3>4, <3>5
  <2> QED
    BY <2>7, <2>8, <2>9 DEF KnowledgeInv
<1> QED
  BY <1>5, <1>6

\* A request that fails has written nothing, and a category that is opened or
\* closed stays.
LEMMA FailStep ==
  ASSUME KnowledgeInv, NEW c \in Clerks, Fails(c)
  PROVE  KnowledgeInv'
<1>1. /\ KnowledgeTypes /\ FiledWhereItIs /\ \A a \in Articles : ArticleInv(a)
      /\ clerk \in [Clerks -> ClerkRequest]
  BY DEF KnowledgeInv, KnowledgeTypes
<1>2. /\ clerk' = [clerk EXCEPT ![c] = Free]
      /\ UNCHANGED <<article, ballot, category, edits, requests, written, said,
                     crossed, doubled>>
  BY DEF Fails
<1>3. clerk'[c] = Free /\ \A d \in Clerks \ {c} : clerk'[d] = clerk[d]
  BY <1>1, <1>2
<1>4. KnowledgeTypes'
  BY <1>1, <1>2 DEF KnowledgeTypes, KnowledgeTypeOK, ClerkRequest
<1>5. FiledWhereItIs'
  BY <1>1, <1>2, <1>3 DEF FiledWhereItIs, Exists, CategoryStands, Filed, Free
<1>6. \A d \in Clerks : clerk'[d] = clerk[d] \/ clerk'[d].op = "free"
  BY <1>3 DEF Free
<1>7. \A a \in Articles : ArticleInv(a)'
  BY <1>1, <1>2, <1>6, ArticleAside
<1> QED
  BY <1>4, <1>5, <1>7 DEF KnowledgeInv

LEMMA CategoryStep ==
  ASSUME KnowledgeInv, NEW k \in Categories, NEW to \in {"active", "inactive"},
         SetCategory(k, to)
  PROVE  KnowledgeInv'
<1>1. KnowledgeTypes /\ FiledWhereItIs /\ \A a \in Articles : ArticleInv(a)
  BY DEF KnowledgeInv
<1>2. /\ requests < MaxRequests /\ requests' = requests + 1
      /\ category' = [category EXCEPT ![k] = to]
      /\ UNCHANGED <<article, ballot, clerk, edits, written, said, crossed, doubled>>
  BY DEF SetCategory
<1>3. KnowledgeTypes'
  BY <1>1, <1>2, KnowledgeAssumption DEF KnowledgeTypes, KnowledgeTypeOK
<1>4. Filed \subseteq Filed'
  BY <1>1, <1>2 DEF Filed, KnowledgeTypes, KnowledgeTypeOK
<1>5. FiledWhereItIs'
  BY <1>1, <1>2, <1>4 DEF FiledWhereItIs, Exists, CategoryStands
<1>6. \A a \in Articles : ArticleInv(a)'
  BY <1>1, <1>2, ArticleAside
<1> QED
  BY <1>3, <1>5, <1>6 DEF KnowledgeInv

-----------------------------------------------------------------------------
(* The invariant, and what follows from it. *)

LEMMA KnowledgeInductive == KnowledgeInv /\ [KnowledgeNext]_knowledgeVars => KnowledgeInv'
<1> SUFFICES ASSUME KnowledgeInv, [KnowledgeNext]_knowledgeVars
             PROVE  KnowledgeInv'
  OBVIOUS
<1>0. /\ KnowledgeTypeOK /\ \A a \in Articles : ArticleInv(a)
      /\ FiledWhereItIs
      /\ doubled \subseteq Articles /\ ballot \in [Articles -> [Readers -> Votes]]
  BY DEF KnowledgeInv, KnowledgeTypes, KnowledgeTypeOK
<1>1. ASSUME NEW a \in Articles, Exists(a)
      PROVE  article[a] \in ArticleRow /\ article[a].category \in Anywhere
  BY <1>0, <1>1 DEF KnowledgeTypeOK, Exists, ArticleRow, Anywhere
<1>2. ASSUME NEW c \in Clerks, NEW a \in Articles, NEW k \in Anywhere, NEW state \in States,
             ReadForCreate(c, a, k, state)
      PROVE  KnowledgeInv'
  <2> DEFINE request == [op |-> "create", article |-> a, category |-> k, state |-> state]
  <2>1. Unused(a) /\ Reads(c, request) /\ doubled' = doubled
    BY <1>2 DEF ReadForCreate
  <2>2. request \in ClerkRequest
    BY DEF ClerkRequest
  <2>3. request.op = "create" /\ request.article = a
    OBVIOUS
  <2> HIDE DEF request
  <2> QED
    BY <1>0, <2>1, <2>2, <2>3, ReadStep DEF Makers, MetadataWriters
<1>3. ASSUME NEW c \in Clerks, NEW a \in Articles, NEW k \in Anywhere, NEW state \in States,
             NEW rewrites \in BOOLEAN, ReadForUpdate(c, a, k, state, rewrites)
      PROVE  KnowledgeInv'
  <2> DEFINE moves == k # article[a].category
             request == [op |-> "update", article |-> a, category |-> k, moves |-> moves,
                         state |-> state, rewrites |-> rewrites, row |-> article[a]]
  <2>1. Exists(a) /\ Reads(c, request) /\ doubled' = doubled
    BY <1>3 DEF ReadForUpdate
  <2>2. request \in ClerkRequest
    <3>1. article[a] \in ArticleRow /\ moves \in BOOLEAN
      BY <1>1, <2>1
    <3> QED
      BY <3>1 DEF ClerkRequest
  <2>3. request.op = "update" /\ request.article = a /\ request.row = article[a]
    OBVIOUS
  <2> HIDE DEF request
  <2> QED
    BY <1>0, <2>1, <2>2, <2>3, ReadStep DEF Makers, MetadataWriters
<1>4. ASSUME NEW c \in Clerks, NEW a \in Articles, NEW op \in StateOps \cup {"delete"},
             ReadForState(c, a, op)
      PROVE  KnowledgeInv'
  <2> DEFINE request == [op |-> op, article |-> a, row |-> article[a]]
  <2>1. Exists(a) /\ Reads(c, request) /\ doubled' = doubled
    BY <1>4 DEF ReadForState
  <2>2. request \in ClerkRequest
    BY <1>1, <2>1 DEF ClerkRequest
  <2>3. request.op \in StateOps \cup {"delete"} /\ request.article = a
    OBVIOUS
  <2> HIDE DEF request
  <2> QED
    BY <1>0, <2>1, <2>2, <2>3, ReadStep DEF Makers, MetadataWriters, StateOps
<1>5. ASSUME NEW c \in Clerks, NEW a \in Articles, NEW b \in Articles, ReadForCopy(c, a, b)
      PROVE  KnowledgeInv'
  <2> DEFINE request == [op |-> "copy", article |-> b, row |-> article[a],
                         category |-> article[a].category]
  <2>1. Exists(a) /\ Unused(b) /\ Reads(c, request) /\ doubled' = doubled
    BY <1>5 DEF ReadForCopy
  <2>2. request \in ClerkRequest
    BY <1>1, <2>1 DEF ClerkRequest
  <2>3. /\ request.op = "copy" /\ request.article = b
        /\ request.category = request.row.category
    OBVIOUS
  <2> HIDE DEF request
  <2> QED
    BY <1>0, <2>1, <2>2, <2>3, ReadStep DEF Makers, MetadataWriters
<1>6. ASSUME NEW c \in Clerks, NEW a \in Articles, NEW m \in Remarks, ReadForComment(c, a, m)
      PROVE  KnowledgeInv'
  <2> DEFINE request == [op |-> "comment", article |-> a, row |-> article[a], remark |-> m]
  <2>1. Exists(a) /\ Reads(c, request) /\ doubled' = doubled
    BY <1>6 DEF ReadForComment, Visible
  <2>2. request \in ClerkRequest
    BY <1>1, <2>1 DEF ClerkRequest
  <2>3. request.op = "comment" /\ request.article = a /\ request.row = article[a]
    OBVIOUS
  <2> HIDE DEF request
  <2> QED
    BY <1>0, <2>1, <2>2, <2>3, ReadStep DEF Makers, MetadataWriters
<1>7. ASSUME NEW c \in Clerks, NEW a \in Articles, NEW u \in Readers,
             NEW cast \in {"up", "down"}, ReadForVote(c, a, u, cast)
      PROVE  KnowledgeInv'
  <2> DEFINE request == [op |-> "vote", article |-> a, reader |-> u, cast |-> cast,
                         was |-> ballot[a][u]]
  <2>1. /\ Exists(a) /\ Reads(c, request)
        /\ doubled' = IF \E d \in Clerks : CastsFor(d, a, u)
                      THEN doubled \cup {a} ELSE doubled
    BY <1>7 DEF ReadForVote, Visible, CastsFor
  <2>2. request \in ClerkRequest
    <3>1. ballot[a][u] \in Votes
      BY <1>0
    <3> QED
      BY <3>1 DEF ClerkRequest
  <2>3. /\ request.op = "vote" /\ request.article = a /\ request.reader = u
        /\ request.was = ballot[a][u]
    OBVIOUS
  <2>4. doubled' \subseteq Articles /\ doubled \subseteq doubled'
    BY <1>0, <2>1
  <2> HIDE DEF request
  <2> QED
    BY <2>1, <2>2, <2>3, <2>4, ReadStep DEF Makers, MetadataWriters
<1>8. ASSUME NEW c \in Clerks, NEW k \in Categories, ReadForUnfile(c, k)
      PROVE  KnowledgeInv'
  <2> DEFINE soft == \E a \in Articles : /\ Exists(a)
                                         /\ article[a].category = k
                                         /\ article[a].state # "ARCHIVED"
             request == [op |-> "unfile", article |-> NoArticle, category |-> k,
                         soft |-> soft]
  <2>1. Reads(c, request) /\ doubled' = doubled
    BY <1>8 DEF ReadForUnfile
  <2>2. request \in ClerkRequest
    <3>1. soft \in BOOLEAN
      OBVIOUS
    <3> HIDE DEF soft
    <3> QED
      BY <3>1 DEF ClerkRequest
  <2>3. request.op = "unfile"
    OBVIOUS
  <2> HIDE DEF request
  <2> QED
    BY <1>0, <2>1, <2>2, <2>3, ReadStep DEF Makers, MetadataWriters
<1>9. ASSUME NEW c \in Clerks, KnowledgeReads(c)
      PROVE  KnowledgeInv'
  BY <1>2, <1>3, <1>4, <1>5, <1>6, <1>7, <1>8, <1>9 DEF KnowledgeReads, Anywhere
<1>10. ASSUME NEW c \in Clerks, KnowledgeWrites(c)
       PROVE  KnowledgeInv'
  BY <1>10, CreateStep, UpdateStep, DeleteStep, CopyStep, CommentStep, VoteStep, UnfileStep,
     StateStep, FailStep DEF KnowledgeWrites
<1>11. CASE UNCHANGED knowledgeVars
  <2>1. UNCHANGED <<article, ballot, category, clerk, edits, requests, written, said,
                    crossed, doubled>>
    BY <1>11 DEF knowledgeVars
  <2>2. KnowledgeTypes'
    BY <2>1 DEF KnowledgeInv, KnowledgeTypes, KnowledgeTypeOK
  <2>3. FiledWhereItIs'
    BY <1>0, <2>1 DEF FiledWhereItIs, Exists, CategoryStands, Filed
  <2>4. \A a \in Articles : ArticleInv(a)'
    BY <1>0, <2>1, ArticleAside
  <2> QED
    BY <2>2, <2>3, <2>4 DEF KnowledgeInv
<1> QED
  BY <1>9, <1>10, <1>11, CategoryStep DEF KnowledgeNext

LEMMA KnowledgeInitially == KnowledgeInit => KnowledgeInv
<1> SUFFICES ASSUME KnowledgeInit
             PROVE  KnowledgeInv
  OBVIOUS
<1>1. KnowledgeTypes
  <2>1. [u \in Readers |-> "none"] \in [Readers -> Votes]
    BY DEF Votes
  <2> QED
    BY <2>1, KnowledgeAssumption
    DEF KnowledgeInit, KnowledgeTypes, KnowledgeTypeOK, ClerkRequest, Texts
<1>2. /\ \A a \in Articles : ~Exists(a)
      /\ \A c \in Clerks : clerk[c].op = "free"
  BY DEF KnowledgeInit, Exists, Free
<1>3. FiledWhereItIs
  BY <1>2 DEF FiledWhereItIs
<1>4. ASSUME NEW a \in Articles
      PROVE  ArticleInv(a)
  BY <1>2 DEF KnowledgeInit, ArticleInv, MakersAlone, Makers, Blank, MetadataKept, VotesCounted
<1> QED
  BY <1>1, <1>3, <1>4 DEF KnowledgeInv

LEMMA KnowledgeAlways == KnowledgeSpec => []KnowledgeInv
BY KnowledgeInitially, KnowledgeInductive, PTL DEF KnowledgeSpec

\* The tables of the knowledge base, and what is left of what was written and
\* said in them, are well typed (KnowledgeBaseService).
THEOREM KnowledgeTypeCorrect == KnowledgeSpec => []KnowledgeTypeOK
<1>1. KnowledgeInv => KnowledgeTypeOK
  BY DEF KnowledgeInv, KnowledgeTypes
<1> QED
  BY <1>1, KnowledgeAlways, PTL

\* The page of an article shows every text and every comment it was given, in
\* spite of everything but two metadata writers that overlap, and no article
\* drops out of the categories (updateArticle, addComment, deleteCategory).
THEOREM HistoryStays == KnowledgeSpec => []HistoryKept
<1>1. ASSUME KnowledgeInv
      PROVE  HistoryKept
  <2>1. /\ KnowledgeTypeOK /\ FiledWhereItIs
        /\ \A a \in Articles : MetadataKept(a)
    BY <1>1 DEF KnowledgeInv, KnowledgeTypes, ArticleInv
  <2>2. ASSUME NEW a \in Articles, Exists(a)
        PROVE  /\ article[a].state \in States
               /\ article[a].category \in Anywhere
               /\ article[a].category \in {NoCategory} \cup Filed
    <3>1. article[a] \in ArticleRow
      BY <2>1, <2>2 DEF KnowledgeTypeOK, Exists
    <3> QED
      BY <2>1, <2>2, <3>1 DEF FiledWhereItIs, CategoryStands, ArticleRow, Anywhere
  <2>3. ASSUME NEW a \in Articles, NEW u \in Readers, Exists(a), a \notin crossed
        PROVE  LET page == GetArticle(a, u)
               IN  /\ written[a] \subseteq {page.text} \cup page.versions
                   /\ said[a] \subseteq page.comments
                   /\ Visible(a) => a \in page.related
    <3>1. /\ written[a] \subseteq {article[a].text} \cup ListVersions(a)
          /\ said[a] \subseteq article[a].remarks
      BY <2>1, <2>3 DEF MetadataKept
    <3>2. Visible(a) => a \in RelatedArticles(a, {})
      <4> SUFFICES ASSUME Visible(a)
                   PROVE  a \in RelatedArticles(a, {})
        OBVIOUS
      <4>1. a \in ListArticles(FALSE, States, Anywhere)
        BY <2>2, <2>3 DEF ListArticles, Visible
      <4> DEFINE first == ListArticles(FALSE, States, Anywhere) \cap Articles
      <4>2. a \in first
        BY <4>1
      <4>3. RelatedArticles(a, {}) = first
        BY <4>2 DEF RelatedArticles
      <4> QED
        BY <4>2, <4>3
    <3> QED
      BY <3>1, <3>2 DEF GetArticle, ListComments
  <2>4. ASSUME NEW a \in KnowledgeBasePage.articles
        PROVE  \E k \in {NoCategory} \cup DOMAIN GetCategories(TRUE) :
                 a \in GetCategoryArticles(k)
    <3>1. /\ a \in Articles /\ Exists(a) /\ article[a].state = "PUBLISHED"
      BY <2>4 DEF KnowledgeBasePage, ListArticles
    <3>2. a \in GetCategoryArticles(article[a].category)
      BY <3>1 DEF GetCategoryArticles, ListArticles
    <3>3. DOMAIN GetCategories(TRUE) = Filed
      BY DEF GetCategories
    <3> QED
      BY <2>2, <3>1, <3>2, <3>3
  <2> QED
    BY <2>3, <2>4 DEF HistoryKept
<1> QED
  BY <1>1, KnowledgeAlways, PTL

\* The counters of an article are the votes of its readers, unless two votes of
\* one reader overlapped (voteArticle).
THEOREM VotesAreCounted == KnowledgeSpec => []CountersAreVotes
<1>1. KnowledgeInv => CountersAreVotes
  BY DEF KnowledgeInv, ArticleInv, VotesCounted, Supporters, Rows, CountersAreVotes
<1> QED
  BY <1>1, KnowledgeAlways, PTL
=============================================================================
