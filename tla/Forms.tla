------------------------------- MODULE Forms -------------------------------
(***************************************************************************)
(* Feedback forms, their questions and the responses to them.  Staff make, *)
(* change and remove forms while customers answer; a change or a removal   *)
(* counts the responses first and spares a form that has one, and a        *)
(* submission is checked against the questions it read.  Each await is a   *)
(* step of its own.                                                        *)
(*                                                                         *)
(* Deleting a form deletes its questions and responses, and deleting a     *)
(* question deletes the answers to it (ON DELETE CASCADE).  Which request  *)
(* a response answers is module Feedback's; here any submission may come.  *)
(*                                                                         *)
(* Left out: titles, messages, dates, comments, files and scores.          *)
(***************************************************************************)
EXTENDS Integers, FiniteSets

CONSTANTS
  FormIds, NoForm,
  QuestionIds,    \* question ids
  Required,       \* those of required questions
  Slugs, NoSlug,
  Responses,      \* response ids
  Callers,        \* requests in flight
  MaxCalls        \* bound: requests begun

FormStatus == {"DRAFT", "ACTIVE", "ARCHIVED"}

FormRow == [status : FormStatus, questions : SUBSET QuestionIds,
            slug : Slugs \cup {NoSlug}]

ASSUME FormsAssumption ==
  /\ Required \subseteq QuestionIds
  /\ NoForm \notin FormIds \cup FormRow
  /\ NoSlug \notin Slugs
  /\ MaxCalls \in Nat

VARIABLES
  form,           \* the form rows
  response,       \* the answers of each response, and its form
  caller,         \* what each request has read and does next
  calls,          \* requests begun so far
  retired,        \* questions that were of a form once
  given,          \* for the properties: the responses as submitted
  raced           \* forms counted while a submission was under way

formVars == <<form, response, caller, calls, retired, given, raced>>

NoResponse == [form |-> NoForm, answers |-> {}]

Vacant == [op |-> "vacant"]

Values == {"empty", "fit", "unfit"}

\* validateAndSerializeAnswers: the answers name each question at most once
\* (they are a function), and only questions of the form; what a required
\* question is given is not empty, and fits its type, range and options.
ValidAnswers(questions, answers) ==
  /\ DOMAIN answers \subseteq questions
  /\ Required \cap questions \subseteq DOMAIN answers
  /\ \A q \in DOMAIN answers : /\ answers[q] # "unfit"
                               /\ answers[q] = "empty" => q \notin Required

FormInit ==
  /\ form = [f \in FormIds |-> NoForm]
  /\ response = [r \in Responses |-> NoResponse]
  /\ caller = [c \in Callers |-> Vacant] /\ calls = 0
  /\ retired = {}
  /\ given = [r \in Responses |-> NoResponse]
  /\ raced = {}

Calls(c, call) ==
  /\ caller[c] = Vacant /\ calls < MaxCalls
  /\ calls' = calls + 1
  /\ caller' = [caller EXCEPT ![c] = call]

Steps(c, op, next) ==
  /\ caller[c].op = op
  /\ caller' = [caller EXCEPT ![c] =
       IF next = "vacant" THEN Vacant ELSE [@ EXCEPT !.op = next]]
  /\ UNCHANGED calls

Exist(f) == form[f] # NoForm

ResponsesTo(f) == {r \in Responses : response[r].form = f}

\* assertSlugAvailable.
SlugFree(slug, f) ==
  slug = NoSlug \/ \A g \in FormIds \ {f} : Exist(g) => form[g].slug # slug

\* A form that is given questions at once cannot be stored: the nested rows
\* lack their organizationId.
BeginCreateForm(c, slug) ==
  /\ SlugFree(slug, NoForm)
  /\ Calls(c, [op |-> "store", slug |-> slug])
  /\ UNCHANGED <<form, response, retired, given, raced>>

StoreForm(c, f, status) ==
  /\ Steps(c, "store", "vacant")
  /\ ~Exist(f)
  /\ \A r \in Responses : given[r].form # f
  /\ \A d \in Callers : caller[d].op \notin {"vacant", "store"} => caller[d].form # f
  /\ form' = [form EXCEPT ![f] =
       [status |-> status, questions |-> {}, slug |-> caller[c].slug]]
  /\ UNCHANGED <<response, retired, given, raced>>

\* What the update brings besides the slug is chosen where it is written;
\* without a slug the old one stays.
BeginUpdateForm(c, f, slug) ==
  /\ Exist(f)
  /\ SlugFree(slug, f)
  /\ Calls(c, [op |-> "count", form |-> f, slug |-> slug])
  /\ UNCHANGED <<form, response, retired, given, raced>>

\* A submission that read the form before is not counted.
Counts(f) ==
  raced' = IF \E d \in Callers : caller[d].op = "respond" /\ caller[d].form = f
           THEN raced \cup {f} ELSE raced

\* Mutant of CountForUpdate: questions may be replaced at any time.
CountForUpdateAny(c, replaces) ==
  /\ Steps(c, "count", IF replaces THEN "wipe" ELSE "row")
  /\ Counts(caller[c].form)
  /\ UNCHANGED <<form, response, retired, given>>

\* replaces: whether the update gives questions.
CountForUpdate(c, replaces) ==
  /\ caller[c].op = "count"
  /\ Steps(c, "count",
       CASE ~replaces -> "row"
         [] replaces /\ ResponsesTo(caller[c].form) # {} -> "vacant"
         [] OTHER -> "wipe")
  /\ Counts(caller[c].form)
  /\ UNCHANGED <<form, response, retired, given>>

\* The answers to the questions go with them.
WipeQuestions(c) ==
  /\ Steps(c, "wipe", "put")
  /\ LET f == caller[c].form
         gone == IF Exist(f) THEN form[f].questions ELSE {}
     IN /\ form' = IF Exist(f) THEN [form EXCEPT ![f].questions = {}] ELSE form
        /\ response' = [r \in Responses |->
                          [response[r] EXCEPT !.answers = @ \ gone]]
  /\ UNCHANGED <<retired, given, raced>>

PutQuestions(c, questions) ==
  /\ caller[c].op = "put" /\ Exist(caller[c].form)
  /\ questions \cap retired = {}
  /\ Steps(c, "put", "row")
  /\ form' = [form EXCEPT ![caller[c].form].questions = @ \cup questions]
  /\ retired' = retired \cup questions
  /\ UNCHANGED <<response, given, raced>>

UpdateRow(c, status) ==
  /\ caller[c].op = "row" /\ Exist(caller[c].form)
  /\ Steps(c, "row", "vacant")
  /\ form' = [form EXCEPT
       ![caller[c].form].status = status,
       ![caller[c].form].slug = IF caller[c].slug = NoSlug THEN @ ELSE caller[c].slug]
  /\ UNCHANGED <<response, retired, given, raced>>

BeginRemoveForm(c, f) ==
  /\ Exist(f)
  /\ Calls(c, [op |-> "weigh", form |-> f])
  /\ UNCHANGED <<form, response, retired, given, raced>>

CountForRemoval(c) ==
  /\ caller[c].op = "weigh"
  /\ Steps(c, "weigh",
           IF ResponsesTo(caller[c].form) # {} THEN "archive" ELSE "delete")
  /\ Counts(caller[c].form)
  /\ UNCHANGED <<form, response, retired, given>>

ArchiveForm(c) ==
  /\ caller[c].op = "archive" /\ Exist(caller[c].form)
  /\ Steps(c, "archive", "vacant")
  /\ form' = [form EXCEPT ![caller[c].form].status = "ARCHIVED"]
  /\ UNCHANGED <<response, retired, given, raced>>

DeleteForm(c) ==
  /\ caller[c].op = "delete" /\ Exist(caller[c].form)
  /\ Steps(c, "delete", "vacant")
  /\ form' = [form EXCEPT ![caller[c].form] = NoForm]
  /\ response' = [r \in Responses |->
       IF response[r].form = caller[c].form THEN NoResponse ELSE response[r]]
  /\ UNCHANGED <<retired, given, raced>>
-----------------------------------------------------------------------------
(* Submissions.  A request to answer leads to a form whatever its status. *)

Counted(f) ==
  \E d \in Callers : /\ caller[d].op \in {"wipe", "put", "delete"}
                     /\ caller[d].form = f

BeginSubmit(c, f, asked, answers) ==
  /\ Exist(f)
  /\ asked \/ form[f].status = "ACTIVE"
  /\ ValidAnswers(form[f].questions, answers)
  /\ Calls(c, [op |-> "respond", form |-> f, answers |-> DOMAIN answers])
  /\ raced' = IF Counted(f) THEN raced \cup {f} ELSE raced
  /\ UNCHANGED <<form, response, retired, given>>

\* The response and its answers are stored together, if the form and every
\* question answered are still there.
StoreResponse(c, r) ==
  /\ caller[c].op = "respond" /\ Exist(caller[c].form)
  /\ given[r] = NoResponse
  /\ caller[c].answers \subseteq UNION {form[f].questions : f \in {g \in FormIds : Exist(g)}}
  /\ Steps(c, "respond", "vacant")
  /\ response' = [response EXCEPT ![r] =
       [form |-> caller[c].form, answers |-> caller[c].answers]]
  /\ given' = [given EXCEPT ![r] = response'[r]]
  /\ UNCHANGED <<form, retired, raced>>

\* A row is gone, or a write fails.
FailCall(c) ==
  /\ caller[c] # Vacant
  /\ caller' = [caller EXCEPT ![c] = Vacant]
  /\ UNCHANGED <<form, response, calls, retired, given, raced>>

FormNext ==
  \E c \in Callers :
    \/ \E slug \in Slugs \cup {NoSlug} :
         \/ BeginCreateForm(c, slug)
         \/ \E f \in FormIds : BeginUpdateForm(c, f, slug)
    \/ \E replaces \in BOOLEAN : CountForUpdate(c, replaces)
    \/ \E questions \in SUBSET QuestionIds : PutQuestions(c, questions)
    \/ \E status \in FormStatus : UpdateRow(c, status)
    \/ \E f \in FormIds :
         \/ \E status \in FormStatus : StoreForm(c, f, status)
         \/ BeginRemoveForm(c, f)
         \/ \E asked \in BOOLEAN, qs \in SUBSET QuestionIds :
              \E answers \in [qs -> Values] : BeginSubmit(c, f, asked, answers)
    \/ WipeQuestions(c) \/ CountForRemoval(c) \/ ArchiveForm(c) \/ DeleteForm(c)
    \/ \E r \in Responses : StoreResponse(c, r)
    \/ FailCall(c)

FormSpec == FormInit /\ [][FormNext]_formVars
-----------------------------------------------------------------------------
(* Properties. *)

FormTypeOK ==
  /\ form \in [FormIds -> FormRow \cup {NoForm}]
  /\ response \in [Responses -> [form : FormIds \cup {NoForm}, answers : SUBSET QuestionIds]]
  /\ calls \in 0..MaxCalls
  /\ retired \subseteq QuestionIds
  /\ raced \subseteq FormIds

\* What a customer answered stays: no change or removal of the form takes the
\* response or one of its answers away, and it has an answer to everything
\* the form requires, unless the change or removal counted the responses
\* while the submission was under way (update, remove, submit).
AnswersKept ==
  \A r \in Responses : given[r].form \notin raced \cup {NoForm} =>
    /\ response[r] = given[r]
    /\ Exist(given[r].form)
    /\ Required \cap form[given[r].form].questions \subseteq response[r].answers
    /\ response[r].answers \subseteq form[given[r].form].questions
=============================================================================
