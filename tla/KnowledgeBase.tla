--------------------------- MODULE KnowledgeBase ---------------------------
(***************************************************************************)
(* The knowledge base: articles with their versions and comments, the      *)
(* readers' votes on them, and the categories they are filed under.        *)
(*                                                                         *)
(* Versions and comments have no tables: they live in the article's JSON   *)
(* metadata, which updateArticle and addComment read, extend and write     *)
(* back whole.  The vote counters are columns of the article that a vote   *)
(* increments together with writing its own row, by the difference to the  *)
(* row it read before.  Every request reads in one step and writes in      *)
(* another.                                                                *)
(*                                                                         *)
(* Left out: titles, slugs and tags (their uniqueness is the database's),  *)
(* the view counter, the visibility column (it hides an article as a draft *)
(* is hidden), files, the order and the pages of lists, and metadata that  *)
(* an author gives with an article (it replaces what is stored).           *)
(***************************************************************************)
EXTENDS Integers, FiniteSets, Sequences

CONSTANTS
  Articles,     \* article ids
  NoArticle,
  Categories,   \* category ids
  NoCategory,
  Readers,      \* users who vote
  Remarks,      \* comments
  Clerks,       \* requests in flight
  MaxEdits,     \* bound: contents written
  MaxRequests   \* bound: requests begun

Texts == 0..MaxEdits
States == {"DRAFT", "PUBLISHED", "ARCHIVED"}

ArticleRow ==
  [state : States, published : BOOLEAN, category : Categories \cup {NoCategory},
   text : Texts, versions : Seq(Texts), remarks : SUBSET Remarks,
   helpful : Int, notHelpful : Int, likes : Int]

ASSUME KnowledgeAssumption ==
  /\ NoArticle \notin Articles \cup ArticleRow
  /\ NoCategory \notin Categories
  /\ IsFiniteSet(Readers)
  /\ MaxEdits \in Nat
  /\ MaxRequests \in Nat

VARIABLES
  article,      \* the article rows
  ballot,       \* the feedback row of each reader on each article
  category,     \* the category rows
  clerk,        \* what each request has read and is about to write
  edits,        \* contents written so far
  requests,     \* requests begun so far
  written,      \* for the properties: the contents each article ever had
  said,         \* for the properties: the comments each article was given
  crossed,      \* articles on which two metadata writers overlapped
  doubled       \* articles on which two votes of one reader overlapped

knowledgeVars == <<article, ballot, category, clerk, edits, requests,
                   written, said, crossed, doubled>>

Votes == {"none", "up", "down"}

Free == [op |-> "free"]

Exists(a) == article[a] # NoArticle

\* findArticle for a customer, and for the management.
Visible(a) == Exists(a) /\ article[a].state = "PUBLISHED"

Filed == {k \in Categories : category[k] # "absent"}

\* Ids are never used twice, so a request never meets a row that is not the
\* one it read.
Unused(a) == ~Exists(a) /\ \A c \in Clerks :
               clerk[c].op # "free" => clerk[c].article # a

MetadataWriters == {"update", "comment"}

KnowledgeInit ==
  /\ article = [a \in Articles |-> NoArticle]
  /\ ballot = [a \in Articles |-> [u \in Readers |-> "none"]]
  /\ category = [k \in Categories |-> "absent"]
  /\ clerk = [c \in Clerks |-> Free]
  /\ edits = 0 /\ requests = 0
  /\ written = [a \in Articles |-> {}]
  /\ said = [a \in Articles |-> {}]
  /\ crossed = {} /\ doubled = {}
-----------------------------------------------------------------------------
(* Requests: the reads.                                                    *)

\* A request has read what it needs of an article and goes on to write.
Reads(c, request) ==
  /\ clerk[c] = Free
  /\ requests < MaxRequests
  /\ requests' = requests + 1
  /\ clerk' = [clerk EXCEPT ![c] = request]
  /\ crossed' =
       IF request.op \in MetadataWriters
          /\ \E d \in Clerks : /\ clerk[d].op \in MetadataWriters
                               /\ clerk[d].article = request.article
       THEN crossed \cup {request.article} ELSE crossed
  /\ UNCHANGED <<article, ballot, category, edits, written, said>>

ReadForCreate(c, a, k, state) ==
  /\ Unused(a)
  /\ k \in Filed \cup {NoCategory}
  /\ Reads(c, [op |-> "create", article |-> a, category |-> k,
               state |-> state])
  /\ UNCHANGED doubled

\* An update may give a new text, another category and another state.
ReadForUpdate(c, a, k, state, rewrites) ==
  /\ Exists(a)
  /\ k \in Filed \cup {article[a].category}
  /\ Reads(c, [op |-> "update", article |-> a, category |-> k,
               moves |-> k # article[a].category, state |-> state,
               rewrites |-> rewrites, row |-> article[a]])
  /\ UNCHANGED doubled

ReadForState(c, a, op) ==
  /\ Exists(a)
  /\ Reads(c, [op |-> op, article |-> a, row |-> article[a]])
  /\ UNCHANGED doubled

ReadForCopy(c, a, b) ==
  /\ Exists(a) /\ Unused(b)
  /\ Reads(c, [op |-> "copy", article |-> b, row |-> article[a],
               category |-> article[a].category])
  /\ UNCHANGED doubled

ReadForComment(c, a, m) ==
  /\ Visible(a)
  /\ \A b \in Articles : m \notin said[b]
  /\ \A d \in Clerks : clerk[d].op = "comment" => clerk[d].remark # m
  /\ Reads(c, [op |-> "comment", article |-> a, row |-> article[a],
               remark |-> m])
  /\ UNCHANGED doubled

\* A vote that the reader's row holds already returns at once.
ReadForVote(c, a, u, cast) ==
  /\ Visible(a)
  /\ ballot[a][u] # cast
  /\ Reads(c, [op |-> "vote", article |-> a, reader |-> u, cast |-> cast,
               was |-> ballot[a][u]])
  /\ doubled' =
       IF \E d \in Clerks : /\ clerk[d].op = "vote"
                            /\ clerk[d].article = a /\ clerk[d].reader = u
       THEN doubled \cup {a} ELSE doubled

\* A category with articles that are not archived is only deactivated.
ReadForUnfile(c, k) ==
  /\ k \in Filed
  /\ Reads(c, [op |-> "unfile", article |-> NoArticle, category |-> k,
               soft |-> \E a \in Articles : /\ Exists(a)
                                            /\ article[a].category = k
                                            /\ article[a].state # "ARCHIVED"])
  /\ UNCHANGED doubled
-----------------------------------------------------------------------------
(* Requests: the writes.                                                   *)

Writes(c, op) ==
  /\ clerk[c].op = op
  /\ UNCHANGED requests
  /\ clerk' = [clerk EXCEPT ![c] = Free]

\* The foreign key of a category that is gone refuses the write.
CategoryStands(k) == k = NoCategory \/ k \in Filed

WriteCreate(c) ==
  /\ Writes(c, "create")
  /\ CategoryStands(clerk[c].category)
  /\ edits < MaxEdits
  /\ LET a == clerk[c].article IN
     /\ edits' = edits + 1
     /\ article' = [article EXCEPT ![a] =
          [state |-> clerk[c].state,
           published |-> clerk[c].state = "PUBLISHED",
           category |-> clerk[c].category,
           text |-> edits + 1, versions |-> <<edits + 1>>, remarks |-> {},
           helpful |-> 0, notHelpful |-> 0, likes |-> 0]]
     /\ written' = [written EXCEPT ![a] = {edits + 1}]
     /\ UNCHANGED <<ballot, category, said, crossed, doubled>>

\* Mutant of WriteUpdate: the versions of the metadata are not carried over.
WriteUpdateAfresh(c) ==
  /\ Writes(c, "update")
  /\ LET a == clerk[c].article  row == clerk[c].row IN
     /\ Exists(a) /\ ~clerk[c].moves
     /\ edits < MaxEdits
     /\ article' = [article EXCEPT
          ![a].text = edits + 1, ![a].versions = <<row.text>>,
          ![a].remarks = row.remarks]
     /\ edits' = edits + 1
     /\ written' = [written EXCEPT ![a] = @ \cup {edits + 1}]
     /\ UNCHANGED <<ballot, category, said, crossed, doubled>>

WriteUpdate(c) ==
  /\ Writes(c, "update")
  /\ LET a == clerk[c].article
         row == clerk[c].row
         rewrites == clerk[c].rewrites
         text == IF rewrites THEN edits + 1 ELSE row.text
     IN
     /\ Exists(a)
     /\ clerk[c].moves => CategoryStands(clerk[c].category)
     /\ rewrites => edits < MaxEdits
     /\ article' = [article EXCEPT
          ![a].text = text,
          ![a].versions = Append(row.versions, row.text),
          ![a].remarks = row.remarks,
          ![a].category = IF clerk[c].moves THEN clerk[c].category ELSE @,
          ![a].state = clerk[c].state,
          ![a].published = @ \/ clerk[c].state = "PUBLISHED"]
     /\ edits' = IF rewrites THEN edits + 1 ELSE edits
     /\ written' = [written EXCEPT ![a] = @ \cup {text}]
     /\ UNCHANGED <<ballot, category, said, crossed, doubled>>

\* Mutant of NewState: an archived article is given a category's state.
NewStateInactive(c) ==
  CASE clerk[c].op = "publish" -> "PUBLISHED"
    [] clerk[c].op = "archive" -> "INACTIVE"
    [] clerk[c].op = "restore" ->
         IF clerk[c].row.published THEN "PUBLISHED" ELSE "DRAFT"

NewState(c) ==
  CASE clerk[c].op = "publish" -> "PUBLISHED"
    [] clerk[c].op = "archive" -> "ARCHIVED"
    [] clerk[c].op = "restore" ->
         IF clerk[c].row.published THEN "PUBLISHED" ELSE "DRAFT"

WriteState(c, op) ==
  /\ Writes(c, op)
  /\ Exists(clerk[c].article)
  /\ article' = [article EXCEPT
       ![clerk[c].article].state = NewState(c),
       ![clerk[c].article].published = @ \/ op = "publish"]
  /\ UNCHANGED <<ballot, category, edits, written, said, crossed, doubled>>

\* Deleting an article takes the readers' rows with it.
WriteDelete(c) ==
  /\ Writes(c, "delete")
  /\ LET a == clerk[c].article IN
     /\ Exists(a)
     /\ article' = [article EXCEPT ![a] = NoArticle]
     /\ ballot' = [ballot EXCEPT ![a] = [u \in Readers |-> "none"]]
     /\ written' = [written EXCEPT ![a] = {}]
     /\ said' = [said EXCEPT ![a] = {}]
     /\ crossed' = crossed \ {a} /\ doubled' = doubled \ {a}
     /\ UNCHANGED <<category, edits>>

\* A copy takes the comments over and starts without versions.
WriteCopy(c) ==
  /\ Writes(c, "copy")
  /\ CategoryStands(clerk[c].category)
  /\ LET b == clerk[c].article  row == clerk[c].row IN
     /\ article' = [article EXCEPT ![b] =
          [row EXCEPT !.state = "DRAFT", !.published = FALSE,
                      !.versions = <<>>,
                      !.helpful = 0, !.notHelpful = 0, !.likes = 0]]
     /\ written' = [written EXCEPT ![b] = {row.text}]
     /\ said' = [said EXCEPT ![b] = row.remarks]
     /\ UNCHANGED <<ballot, category, edits, crossed, doubled>>

WriteComment(c) ==
  /\ Writes(c, "comment")
  /\ LET a == clerk[c].article  row == clerk[c].row IN
     /\ Exists(a)
     /\ article' = [article EXCEPT
          ![a].versions = row.versions,
          ![a].remarks = row.remarks \cup {clerk[c].remark}]
     /\ said' = [said EXCEPT ![a] = @ \cup {clerk[c].remark}]
     /\ UNCHANGED <<ballot, category, edits, written, crossed, doubled>>

Delta(c, side) ==
  (IF clerk[c].cast = side THEN 1 ELSE 0) - (IF clerk[c].was = side THEN 1 ELSE 0)

\* Mutant of WriteVote: the vote that is replaced is not taken back.
WriteVoteAgain(c) ==
  /\ Writes(c, "vote")
  /\ LET a == clerk[c].article IN
     /\ Exists(a)
     /\ ballot' = [ballot EXCEPT ![a][clerk[c].reader] = clerk[c].cast]
     /\ article' = [article EXCEPT
          ![a].helpful = @ + (IF clerk[c].cast = "up" THEN 1 ELSE 0),
          ![a].notHelpful = @ + (IF clerk[c].cast = "down" THEN 1 ELSE 0),
          ![a].likes = @ + (IF clerk[c].cast = "up" THEN 1 ELSE 0)]
     /\ UNCHANGED <<category, edits, written, said, crossed, doubled>>

\* One transaction: the reader's row, and the counters of the article.
WriteVote(c) ==
  /\ Writes(c, "vote")
  /\ LET a == clerk[c].article IN
     /\ Exists(a)
     /\ ballot' = [ballot EXCEPT ![a][clerk[c].reader] = clerk[c].cast]
     /\ article' = [article EXCEPT
          ![a].helpful = @ + Delta(c, "up"),
          ![a].notHelpful = @ + Delta(c, "down"),
          ![a].likes = @ + Delta(c, "up")]
     /\ UNCHANGED <<category, edits, written, said, crossed, doubled>>

\* A category that is deleted is taken out of its (archived) articles.
WriteUnfile(c) ==
  /\ Writes(c, "unfile")
  /\ LET k == clerk[c].category IN
     /\ k \in Filed
     /\ IF clerk[c].soft
        THEN /\ category' = [category EXCEPT ![k] = "inactive"]
             /\ UNCHANGED article
        ELSE /\ category' = [category EXCEPT ![k] = "absent"]
             /\ article' = [a \in Articles |->
                  IF Exists(a) /\ article[a].category = k
                  THEN [article[a] EXCEPT !.category = NoCategory]
                  ELSE article[a]]
     /\ UNCHANGED <<ballot, edits, written, said, crossed, doubled>>

\* The row or the category is gone, or the database is: the request ends
\* with an error and has written nothing.
Fails(c) ==
  /\ clerk[c] # Free
  /\ clerk' = [clerk EXCEPT ![c] = Free]
  /\ UNCHANGED <<article, ballot, category, edits, requests, written, said,
                 crossed, doubled>>

\* createCategory, and updateCategory with isActive.
SetCategory(k, to) ==
  /\ requests < MaxRequests
  /\ to = "active" \/ k \in Filed
  /\ category[k] = "absent" => \A c \in Clerks :
       clerk[c].op \in {"create", "update", "copy", "unfile"}
         => clerk[c].category # k
  /\ category' = [category EXCEPT ![k] = to]
  /\ requests' = requests + 1
  /\ UNCHANGED <<article, ballot, clerk, edits, written, said, crossed, doubled>>
-----------------------------------------------------------------------------
(* What the pages show.                                                    *)

\* Readers see published articles whatever status they ask for.
ListArticles(manages, states, filed) ==
  {a \in Articles : /\ Exists(a)
                    /\ article[a].state \in IF manages THEN states ELSE {"PUBLISHED"}
                    /\ article[a].category \in filed}

Anywhere == Categories \cup {NoCategory}

GetCategories(inactiveToo) ==
  [k \in {j \in Filed : inactiveToo \/ category[j] = "active"} |->
     Cardinality(ListArticles(FALSE, States, {k}))]

GetCategoryArticles(k) == ListArticles(FALSE, States, {k})

KnowledgeBasePage == [categories |-> GetCategories(FALSE),
                     articles |-> ListArticles(FALSE, States, Anywhere)]

ListVersions(a) == {article[a].versions[i] : i \in DOMAIN article[a].versions}
ListComments(a) == article[a].remarks

\* The related articles an author named; when none of them shows, what the
\* category has of them.  With none named every article is related, the
\* article itself too.
RelatedArticles(a, named) ==
  LET shown == ListArticles(FALSE, States, Anywhere)
      first == shown \cap (IF named \subseteq {a} THEN Articles ELSE named \ {a})
      filed == GetCategoryArticles(article[a].category)
  IN  IF first # {} THEN first
      ELSE (filed \ {a}) \cap (IF named = {} THEN Articles ELSE named)

GetArticle(a, u) ==
  [text |-> article[a].text, versions |-> ListVersions(a),
   comments |-> ListComments(a), vote |-> ballot[a][u],
   related |-> RelatedArticles(a, {})]
-----------------------------------------------------------------------------
StateOps == {"publish", "archive", "restore"}

KnowledgeReads(c) ==
  \/ \E a \in Articles, k \in Categories \cup {NoCategory} :
       \/ \E state \in States : ReadForCreate(c, a, k, state)
       \/ \E state \in States, rewrites \in BOOLEAN :
            ReadForUpdate(c, a, k, state, rewrites)
  \/ \E a \in Articles :
       \/ \E op \in StateOps \cup {"delete"} : ReadForState(c, a, op)
       \/ \E b \in Articles : ReadForCopy(c, a, b)
       \/ \E m \in Remarks : ReadForComment(c, a, m)
       \/ \E u \in Readers, cast \in {"up", "down"} : ReadForVote(c, a, u, cast)
  \/ \E k \in Categories : ReadForUnfile(c, k)

KnowledgeWrites(c) ==
  \/ WriteCreate(c) \/ WriteUpdate(c) \/ WriteDelete(c) \/ WriteCopy(c)
  \/ WriteComment(c) \/ WriteVote(c) \/ WriteUnfile(c)
  \/ \E op \in StateOps : WriteState(c, op)
  \/ Fails(c)

KnowledgeNext ==
  \/ \E c \in Clerks : KnowledgeReads(c) \/ KnowledgeWrites(c)
  \/ \E k \in Categories, to \in {"active", "inactive"} : SetCategory(k, to)

KnowledgeSpec == KnowledgeInit /\ [][KnowledgeNext]_knowledgeVars
-----------------------------------------------------------------------------
(* Properties. *)

KnowledgeTypeOK ==
  /\ article \in [Articles -> ArticleRow \cup {NoArticle}]
  /\ ballot \in [Articles -> [Readers -> Votes]]
  /\ category \in [Categories -> {"absent", "active", "inactive"}]
  /\ edits \in Texts /\ requests \in 0..MaxRequests
  /\ written \in [Articles -> SUBSET Texts]
  /\ said \in [Articles -> SUBSET Remarks]
  /\ crossed \subseteq Articles /\ doubled \subseteq Articles

\* Nothing readers or authors wrote is lost: the page of an article shows
\* every text it ever had, as its text or as one of its versions, and every
\* comment it was given, whatever else (publishing, votes, filing) goes on.
\* Only two overlapping writers of the metadata, updates or comments, lose one
\* another's work (updateArticle, addComment).  Nor is an article lost from
\* the categories: each is listed in one of those there are, or in none
\* (deleteCategory, getCategories).
HistoryKept ==
  /\ \A a \in Articles, u \in Readers : Exists(a) /\ a \notin crossed =>
       LET page == GetArticle(a, u)
       IN  /\ written[a] \subseteq {page.text} \cup page.versions
           /\ said[a] \subseteq page.comments
           /\ Visible(a) => a \in page.related
  /\ \A a \in KnowledgeBasePage.articles :
       \E k \in {NoCategory} \cup DOMAIN GetCategories(TRUE) :
         a \in GetCategoryArticles(k)

\* The counters of an article are the rows of its readers, although the
\* votes of different readers overlap; only two votes of one reader that
\* overlap make them drift (voteArticle).
CountersAreVotes ==
  \A a \in Articles : Exists(a) /\ a \notin doubled =>
    /\ article[a].helpful = Cardinality({u \in Readers : ballot[a][u] = "up"})
    /\ article[a].notHelpful = Cardinality({u \in Readers : ballot[a][u] = "down"})
    /\ article[a].likes = article[a].helpful
=============================================================================
