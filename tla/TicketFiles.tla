---------------------------- MODULE TicketFiles ----------------------------
(***************************************************************************)
(* The files attached to a ticket.  A file is three things, made one after *)
(* the other by an upload and taken away in the same order by a removal:   *)
(* an object in the storage bucket, a FileUpload row, and the              *)
(* TicketAttachment row that refers to it.  Taking the FileUpload row away *)
(* takes the attachment with it (ON DELETE CASCADE), so the removal's own  *)
(* deletion of the attachment never finds it, and the removal ends with an *)
(* error before it is recorded.                                            *)
(*                                                                         *)
(* Left out: types and sizes of files, refused before anything is written. *)
(***************************************************************************)
EXTENDS Integers, FiniteSets, Sequences, Functions

CONSTANTS
  Files,      \* files, each named by the upload that brought it
  People,     \* who may upload
  Stranger,   \* nobody has uploaded it
  Officers,   \* the staff among them
  Carriers,   \* requests in flight
  MaxBatch    \* bound: files of one upload (10 in the code)

ASSUME FilesAssumption ==
  /\ Officers \subseteq People /\ Stranger \notin People
  /\ MaxBatch \in Nat \ {0}

VARIABLES
  object,     \* files in the bucket
  upload,     \* files with a FileUpload row
  attached,   \* files with a TicketAttachment row
  owner,      \* who uploaded each
  noted,      \* what the ticket's activity list tells of files
  carrier,    \* what each request does next
  loose       \* for the properties: files an upload or a removal was cut
              \* short with, or the bucket did not give up

fileVars == <<object, upload, attached, owner, noted, carrier, loose>>

Still == [op |-> "still"]

FileInit ==
  /\ object = {} /\ upload = {} /\ attached = {}
  /\ owner = [f \in Files |-> Stranger]
  /\ noted = {}
  /\ carrier = [c \in Carriers |-> Still]
  /\ loose = {}

Carries(c, op) == carrier[c].op = op

Carry(c, op) == carrier' = [carrier EXCEPT ![c].op = op]

Rest(c) == carrier' = [carrier EXCEPT ![c] = Still]

\* The file that request c is busy with.
Current(c) == Head(carrier[c].files)

BeginUpload(c, p, files) ==
  /\ Carries(c, "still")
  /\ files # <<>> /\ IsInjective(files)
  /\ \A f \in Range(files) : owner[f] = Stranger
  /\ owner' = [f \in Files |-> IF f \in Range(files) THEN p ELSE owner[f]]
  /\ carrier' = [carrier EXCEPT ![c] = [op |-> "put", files |-> files]]
  /\ UNCHANGED <<object, upload, attached, noted, loose>>

PutObject(c) ==
  /\ Carries(c, "put")
  /\ object' = object \cup {Current(c)}
  /\ Carry(c, "file")
  /\ UNCHANGED <<upload, attached, owner, noted, loose>>

CreateUpload(c) ==
  /\ Carries(c, "file")
  /\ upload' = upload \cup {Current(c)}
  /\ Carry(c, "attach")
  /\ UNCHANGED <<object, attached, owner, noted, loose>>

CreateAttachment(c) ==
  /\ Carries(c, "attach")
  /\ attached' = attached \cup {Current(c)}
  /\ carrier' = [carrier EXCEPT ![c] =
       IF Len(carrier[c].files) = 1 THEN [@ EXCEPT !.op = "note"]
       ELSE [op |-> "put", files |-> Tail(carrier[c].files)]]
  /\ UNCHANGED <<object, upload, owner, noted, loose>>

NoteUpload(c) ==
  /\ Carries(c, "note")
  /\ noted' = noted \cup {"ATTACHMENT_ADDED"}
  /\ Rest(c)
  /\ UNCHANGED <<object, upload, attached, owner, loose>>

BeginRemoval(c, p, f) ==
  /\ Carries(c, "still")
  /\ f \in attached
  /\ p \in Officers \/ owner[f] = p
  /\ carrier' = [carrier EXCEPT ![c] = [op |-> "take", files |-> <<f>>]]
  /\ UNCHANGED <<object, upload, attached, owner, noted, loose>>

\* The answer of the bucket is not looked at.
TakeObject(c, taken) ==
  /\ Carries(c, "take")
  /\ object' = IF taken THEN object \ {Current(c)} ELSE object
  /\ loose' = IF taken THEN loose ELSE loose \cup {Current(c)}
  /\ Carry(c, "drop")
  /\ UNCHANGED <<upload, attached, owner, noted>>

\* Mutant of DropUpload: the attachment is kept, as if its foreign key did
\* not cascade.
DropUploadOnly(c) ==
  /\ Carries(c, "drop")
  /\ Current(c) \in upload
  /\ upload' = upload \ {Current(c)}
  /\ Carry(c, "detach")
  /\ UNCHANGED <<object, attached, owner, noted, loose>>

\* Deletes the row of the file, and with it the attachment.
DropUpload(c) ==
  /\ Carries(c, "drop")
  /\ Current(c) \in upload
  /\ upload' = upload \ {Current(c)}
  /\ attached' = attached \ {Current(c)}
  /\ Carry(c, "detach")
  /\ UNCHANGED <<object, owner, noted, loose>>

\* The attachment went with the row of its file, so the deletion of the
\* attachment fails and nothing is noted; another removal of the same file
\* fails when it finds the row gone.
DetachFails(c) ==
  /\ \/ Carries(c, "detach") /\ Current(c) \notin attached
     \/ Carries(c, "drop") /\ Current(c) \notin upload
  /\ Rest(c)
  /\ UNCHANGED <<object, upload, attached, owner, noted, loose>>

\* The bucket, the database or the process fails.
CutShort(c) ==
  /\ ~Carries(c, "still")
  /\ Rest(c)
  /\ loose' = IF carrier[c].op \in {"note", "detach"} THEN loose ELSE loose \cup {Current(c)}
  /\ UNCHANGED <<object, upload, attached, owner, noted>>

Batches == UNION {[1..n -> Files] : n \in 1..MaxBatch}

FileNext ==
  \E c \in Carriers :
    \/ \E p \in People :
         \/ \E files \in Batches : BeginUpload(c, p, files)
         \/ \E f \in Files : BeginRemoval(c, p, f)
    \/ PutObject(c) \/ CreateUpload(c) \/ CreateAttachment(c) \/ NoteUpload(c)
    \/ \E taken \in BOOLEAN : TakeObject(c, taken)
    \/ DropUpload(c) \/ DetachFails(c) \/ CutShort(c)

FileSpec == FileInit /\ [][FileNext]_fileVars
-----------------------------------------------------------------------------
(* Properties. *)

FileTypeOK ==
  /\ object \subseteq Files /\ upload \subseteq Files /\ attached \subseteq Files
  /\ owner \in [Files -> People \cup {Stranger}]
  /\ noted \subseteq {"ATTACHMENT_ADDED"}
  /\ loose \subseteq Files

Untouched(f) ==
  /\ f \notin loose
  /\ \A c \in Carriers :
       carrier[c].op \notin {"still", "note"} => f \notin Range(carrier[c].files)

\* A file that no request is busy with is there in full or not at all: an
\* attachment has its row and its object, and nothing is left in the bucket
\* that no row knows of.  Only a request that was cut short, or a bucket that
\* did not give up its object, leaves one without the others; two removals of
\* one file do not, though each of them ends with an error (upload, remove).
FilesMatch ==
  /\ attached \subseteq upload
  /\ \A f \in Files : Untouched(f) =>
       (f \in object <=> f \in upload) /\ (f \in upload <=> f \in attached)
=============================================================================
