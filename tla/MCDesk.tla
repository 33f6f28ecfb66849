------------------------------- MODULE MCDesk -------------------------------
(***************************************************************************)
(* Instances of the modules of the daily work for TLC: the knowledge base, *)
(* the dashboards, the saved reports, the thread and the files of a        *)
(* ticket, the feedback forms, the inbox, the tenant and the catalogue.    *)
(* They share no row that another one changes, so a behaviour explores one *)
(* of them and leaves the others in their initial state.                   *)
(***************************************************************************)
EXTENDS KnowledgeBase, MCDashboards, Reports, Threads, TicketFiles, Forms, Inbox,
  Tenants, Catalogue

VARIABLE part

Parts == {"knowledge", "dashboards", "reports", "thread", "files", "forms",
          "inbox", "tenant", "catalogue"}

DeskInit ==
  /\ part \in Parts
  /\ KnowledgeInit /\ ReportInit /\ ThreadInit /\ FileInit /\ FormInit
  /\ part # "dashboards" => db = Fresh
  /\ DashboardInit
  /\ part # "inbox" => muted = {}
  /\ InboxInit /\ TenantInit
  /\ part # "tenant" => \A m \in Members : member[m].org = "in"
  /\ CatalogueInit
  /\ part # "catalogue" => Offered = {}

DeskNext ==
  /\ UNCHANGED part
  /\ \/ part = "knowledge" /\ KnowledgeNext
     \/ part # "knowledge" /\ UNCHANGED knowledgeVars
  /\ \/ part = "dashboards" /\ DashboardNext
     \/ part # "dashboards" /\ UNCHANGED dashboardVars
  /\ \/ part = "reports" /\ ReportNext
     \/ part # "reports" /\ UNCHANGED reportVars
  /\ \/ part = "thread" /\ ThreadNext
     \/ part # "thread" /\ UNCHANGED threadVars
  /\ \/ part = "files" /\ FileNext
     \/ part # "files" /\ UNCHANGED fileVars
  /\ \/ part = "forms" /\ FormNext
     \/ part # "forms" /\ UNCHANGED formVars
  /\ \/ part = "inbox" /\ InboxNext
     \/ part # "inbox" /\ UNCHANGED inboxVars
  /\ \/ part = "tenant" /\ TenantNext
     \/ part # "tenant" /\ UNCHANGED tenantVars
  /\ \/ part = "catalogue" /\ CatalogueNext
     \/ part # "catalogue" /\ UNCHANGED catalogueVars

DeskSpec ==
  DeskInit /\ [][DeskNext]_<<part, knowledgeVars, dashboardVars, reportVars,
                             threadVars, fileVars, formVars, inboxVars, tenantVars,
                             catalogueVars>>

\* The modules are given the same values where they may be permuted: Clerks
\* are the requests in flight of each, Agents its users, Articles its rows.
Symmetry ==
  Permutations(Clerks) \cup Permutations(Agents) \cup Permutations(Articles)

DeskTypesOK ==
  /\ KnowledgeTypeOK /\ DashboardTypeOK /\ ReportTypeOK /\ ThreadTypeOK
  /\ FileTypeOK /\ FormTypeOK /\ InboxTypeOK /\ TenantTypeOK
  /\ CatalogueTypeOK
=============================================================================
