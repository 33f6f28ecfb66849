------------------------------ MODULE Reports ------------------------------
(***************************************************************************)
(* Saved reports and their exports.  A report keeps the category it was    *)
(* made with in a column (type) and, for running it, inside its filters    *)
(* (category); updateReport writes the one or the other from what it read. *)
(* An export, of a saved report or of a category asked for at once, builds *)
(* the rows, sends them by mail when asked to, and then records itself,    *)
(* each a step that can fail on its own.                                   *)
(*                                                                         *)
(* Left out: names, columns, schedules (which nothing ever runs) and the   *)
(* layout of the files.                                                    *)
(***************************************************************************)
EXTENDS Integers, FiniteSets

CONSTANTS
  ReportIds,
  NoReport,
  Kinds,        \* report categories
  CustomKind,   \* the category that no dataset stands for
  NoKind,       \* no category given
  Editors,      \* requests in flight
  MaxMails      \* bound: exports mailed

ASSUME ReportsAssumption ==
  /\ CustomKind \in Kinds /\ NoKind \notin Kinds
  /\ MaxMails \in Nat

VARIABLES
  report,       \* the rows
  editor,       \* what each request has read and does next
  mails,        \* mails with an export that were sent
  downloads,    \* exports recorded
  tangled       \* reports given filters and a category at once, or updated
                \* by two overlapping requests

reportVars == <<report, editor, mails, downloads, tangled>>

AtRest == [op |-> "none"]

ReportRow == [type : Kinds, category : Kinds]

Saved(r) == report[r] # NoReport

\* categoryOf: the category of the filters, or CUSTOM.
CategoryOf(row) == row.category

\* getDataset knows every category but CUSTOM.
Runnable(kind) == kind # CustomKind

ReportInit ==
  /\ report = [r \in ReportIds |-> NoReport]
  /\ editor = [e \in Editors |-> AtRest]
  /\ mails = 0 /\ downloads = 0
  /\ tangled = {}

\* The filters given may name a category of their own, which wins.
CreateReport(r, kind, named) ==
  /\ ~Saved(r)
  /\ \A e \in Editors : editor[e] # AtRest => editor[e].report # r
  /\ report' = [report EXCEPT ![r] =
       [type |-> kind, category |-> IF named = NoKind THEN kind ELSE named]]
  /\ tangled' = IF named \in {NoKind, kind} THEN tangled ELSE tangled \cup {r}
  /\ UNCHANGED <<editor, mails, downloads>>

Begins(e, r, request) ==
  /\ editor[e] = AtRest /\ Saved(r)
  /\ editor' = [editor EXCEPT ![e] = request]
  /\ UNCHANGED <<report, mails, downloads>>

\* An update gives a category, filters with or without one of their own, or
\* both.
BeginUpdateReport(e, r, kind, filters, named) ==
  /\ kind # NoKind \/ filters
  /\ named # NoKind => filters
  /\ Begins(e, r, [op |-> "update", report |-> r, kind |-> kind,
                   filters |-> filters, named |-> named, row |-> report[r]])
  /\ tangled' =
       IF \/ filters /\ kind # NoKind
          \/ named # NoKind
          \/ \E d \in Editors : editor[d].op = "update" /\ editor[d].report = r
       THEN tangled \cup {r} ELSE tangled

\* Mutant of WriteUpdateReport: a new category leaves the filters alone.
WriteUpdateTypeOnly(e) ==
  /\ editor[e].op = "update" /\ Saved(editor[e].report)
  /\ editor[e].kind # NoKind
  /\ report' = [report EXCEPT ![editor[e].report].type = editor[e].kind]
  /\ editor' = [editor EXCEPT ![e] = AtRest]
  /\ UNCHANGED <<mails, downloads, tangled>>

\* Filters given without a category keep the one that was read, also when a
\* new category is given with them.
WriteUpdateReport(e) ==
  /\ editor[e].op = "update" /\ Saved(editor[e].report)
  /\ LET u == editor[e] IN
     report' = [report EXCEPT ![u.report] =
       [type |-> IF u.kind = NoKind THEN @.type ELSE u.kind,
        category |-> IF ~u.filters THEN u.kind
                     ELSE IF u.named # NoKind THEN u.named
                     ELSE CategoryOf(u.row)]]
  /\ editor' = [editor EXCEPT ![e] = AtRest]
  /\ UNCHANGED <<mails, downloads, tangled>>

BeginRemoveReport(e, r) ==
  /\ Begins(e, r, [op |-> "remove", report |-> r])
  /\ UNCHANGED tangled

WriteRemoveReport(e) ==
  /\ editor[e].op = "remove" /\ Saved(editor[e].report)
  /\ report' = [report EXCEPT ![editor[e].report] = NoReport]
  /\ tangled' = tangled \ {editor[e].report}
  /\ editor' = [editor EXCEPT ![e] = AtRest]
  /\ UNCHANGED <<mails, downloads>>

\* The row is gone, the category cannot be run, or a write, the mail service
\* or the audit log fails.
FailReport(e) ==
  /\ editor[e] # AtRest
  /\ editor' = [editor EXCEPT ![e] = AtRest]
  /\ UNCHANGED <<report, mails, downloads, tangled>>

\* A saved report is listed by the category of its filters, and its export
\* is never mailed.
ExportSaved(e, r) ==
  /\ Saved(r) /\ Runnable(CategoryOf(report[r]))
  /\ Begins(e, r, [op |-> "export", report |-> r, mailed |-> FALSE])
  /\ UNCHANGED tangled

BeginExport(e, kind, mailed) ==
  /\ editor[e] = AtRest /\ Runnable(kind)
  /\ editor' = [editor EXCEPT ![e] =
       [op |-> "export", report |-> NoReport, mailed |-> mailed]]
  /\ UNCHANGED <<report, mails, downloads, tangled>>

MailExport(e) ==
  /\ editor[e].op = "export" /\ editor[e].mailed
  /\ mails < MaxMails
  /\ mails' = mails + 1
  /\ editor' = [editor EXCEPT ![e] = [@ EXCEPT !.mailed = FALSE, !.op = "record"]]
  /\ UNCHANGED <<report, downloads, tangled>>

RecordExport(e) ==
  /\ \/ editor[e].op = "record"
     \/ editor[e].op = "export" /\ ~editor[e].mailed
  /\ downloads' = IF downloads < MaxMails THEN downloads + 1 ELSE downloads
  /\ editor' = [editor EXCEPT ![e] = AtRest]
  /\ UNCHANGED <<report, mails, tangled>>

ReportNext ==
  \/ \E r \in ReportIds, kind \in Kinds, named \in Kinds \cup {NoKind} :
       CreateReport(r, kind, named)
  \/ \E e \in Editors, r \in ReportIds :
       \/ \E kind, named \in Kinds \cup {NoKind}, filters \in BOOLEAN :
            BeginUpdateReport(e, r, kind, filters, named)
       \/ BeginRemoveReport(e, r)
       \/ ExportSaved(e, r)
  \/ \E e \in Editors :
       \/ \E kind \in Kinds, mailed \in BOOLEAN : BeginExport(e, kind, mailed)
       \/ WriteUpdateReport(e) \/ WriteRemoveReport(e) \/ FailReport(e)
       \/ MailExport(e) \/ RecordExport(e)

ReportSpec == ReportInit /\ [][ReportNext]_reportVars
-----------------------------------------------------------------------------
(* Properties. *)

ReportTypeOK ==
  /\ report \in [ReportIds -> ReportRow \cup {NoReport}]
  /\ mails \in 0..MaxMails /\ downloads \in 0..MaxMails
  /\ tangled \subseteq ReportIds

\* A report runs the category it is filed under, and keeps doing so through
\* any sequence of updates that give a category or filters; only an update
\* that gives both, filters that name a category of their own, or two
\* overlapping updates part the two (create, update, categoryOf).
RunsItsType ==
  \A r \in ReportIds : Saved(r) /\ r \notin tangled =>
    CategoryOf(report[r]) = report[r].type
=============================================================================
