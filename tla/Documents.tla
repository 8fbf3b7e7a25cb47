----------------------------- MODULE Documents -----------------------------
(***************************************************************************)
(* Uploading and deleting documents (documents/services.py): a row in the  *)
(* database and an object in storage, written by separate calls.           *)
(*                                                                         *)
(* Nothing spans both: every database write commits by itself, a storage   *)
(* call may fail without effect, take effect and lose its answer, or land  *)
(* when its worker has given it up, and the worker may be killed between   *)
(* any two calls.                                                          *)
(***************************************************************************)
EXTENDS Naturals

CONSTANTS
    Documents,      \* primary keys; storage_key is unique to the row
    FileWorkers,    \* web workers, each serving one request at a time
    NoDocument      \* the worker is idle

ASSUME NoDocumentAssumption == NoDocument \notin Documents

VARIABLES
    status,         \* Document.status, "absent" before and "deleted" after
    stored,         \* the documents whose object is in storage
    serving,        \* the call each worker makes next, and for which document
    late,           \* the storage calls given up that may still land
    lostAnswers,    \* history: an object was written, the call failed
    removals,       \* history: documents whose object a delete has removed
    earlyRemovals   \* history: ... while their upload was still running

filesHistory == <<lostAnswers, removals, earlyRemovals>>
filesVars == <<status, stored, serving, late, lostAnswers, removals, earlyRemovals>>

DocumentStatus == {"pending", "uploaded", "failed"}
NoRow == {"absent", "deleted"}

\* What a request still has to do: store the object, mark the row uploaded
\* or failed, remove the object, remove the row.
Calls == {"put", "markUploaded", "markFailed", "remove", "deleteRow"}
NoCall == [call |-> "idle", document |-> NoDocument]

Exists(d) == status[d] \notin NoRow

FilesTypeOK ==
    /\ status \in [Documents -> DocumentStatus \cup NoRow]
    /\ stored \subseteq Documents
    /\ serving \in [FileWorkers -> [call : Calls, document : Documents] \cup {NoCall}]
    /\ late \subseteq [call : {"put", "remove"}, document : Documents]
    /\ lostAnswers \subseteq Documents
    /\ removals \subseteq Documents
    /\ earlyRemovals \subseteq Documents

FilesInit ==
    /\ status = [d \in Documents |-> "absent"]
    /\ stored = {}
    /\ serving = [w \in FileWorkers |-> NoCall]
    /\ late = {}
    /\ lostAnswers = {}
    /\ removals = {}
    /\ earlyRemovals = {}

Then(w, d, call) == serving' = [serving EXCEPT ![w] = [call |-> call, document |-> d]]

Answer(w) == serving' = [serving EXCEPT ![w] = NoCall]
Doing(w, call) == serving[w].call = call

\* The worker stops waiting for its call: it has no effect, or not yet.
GiveUp(w) == late' = late \/ late' = late \cup {serving[w]}

(***************************************************************************)
(* upload_document.                                                        *)
(***************************************************************************)

\* The row is written, pending, before any storage call.
BeginUpload(w, d) ==
    /\ serving[w] = NoCall
    /\ status[d] = "absent"
    /\ status' = [status EXCEPT ![d] = "pending"]
    /\ Then(w, d, "put")
    /\ UNCHANGED <<stored, late, filesHistory>>

\* What follows put_object, by its outcome.
AfterSwallowedFailure == "markUploaded" \* faulty variant: the exception is lost
AfterFailedPut == "markFailed"
AfterPut == "markUploaded"

Put(w) ==
    LET d == serving[w].document IN
    /\ Doing(w, "put")
    /\ stored' = stored \cup {d}
    /\ Then(w, d, AfterPut)
    /\ UNCHANGED <<status, late, filesHistory>>

\* put_object raises: nothing was written yet, or everything but the answer.
PutFails(w) ==
    LET d == serving[w].document IN
    /\ Doing(w, "put")
    /\ \/ GiveUp(w) /\ UNCHANGED <<stored, lostAnswers>>
       \/ /\ stored' = stored \cup {d}
          /\ lostAnswers' = lostAnswers \cup {d}
          /\ UNCHANGED late
    /\ Then(w, d, AfterFailedPut)
    /\ UNCHANGED <<status, removals, earlyRemovals>>

\* save(update_fields) updates the row, or raises if there is none.
Mark(w, d, s) ==
    /\ status' = [status EXCEPT ![d] = IF Exists(d) THEN s ELSE @]
    /\ Answer(w)
    /\ UNCHANGED <<stored, late, filesHistory>>

MarkUploaded(w) == Doing(w, "markUploaded") /\ Mark(w, serving[w].document, "uploaded")
MarkFailed(w) == Doing(w, "markFailed") /\ Mark(w, serving[w].document, "failed")

(***************************************************************************)
(* delete_document: the object first, then the row.                        *)
(***************************************************************************)

RowFirst == "deleteRow"                 \* faulty variant: the other order
ObjectFirst == "remove"

BeginDelete(w, d) ==
    /\ serving[w] = NoCall
    /\ Exists(d)
    /\ Then(w, d, ObjectFirst)
    /\ UNCHANGED <<status, stored, late, filesHistory>>

LatePut(d) == [call |-> "put", document |-> d] \in late

Uploading(d) ==
    \/ LatePut(d)
    \/ \E w \in FileWorkers :
           /\ serving[w].document = d
           /\ serving[w].call \in {"put", "markUploaded", "markFailed"}

\* delete_object of a key that is not there succeeds as well.
Removing(d) ==
    /\ stored' = stored \ {d}
    /\ removals' = removals \cup {d}
    /\ earlyRemovals' = IF Uploading(d) THEN earlyRemovals \cup {d} ELSE earlyRemovals

Remove(w) ==
    /\ Doing(w, "remove")
    /\ Removing(serving[w].document)
    /\ Then(w, serving[w].document, "deleteRow")
    /\ UNCHANGED <<status, late, lostAnswers>>

\* The exception leaves the row for another attempt, with or without its object.
RemoveFails(w) ==
    /\ Doing(w, "remove")
    /\ \/ Removing(serving[w].document) /\ UNCHANGED late
       \/ GiveUp(w) /\ UNCHANGED <<stored, removals, earlyRemovals>>
    /\ Answer(w)
    /\ UNCHANGED <<status, lostAnswers>>

\* Model.delete of a row that is gone already deletes nothing.
DeleteRow(w) ==
    /\ Doing(w, "deleteRow")
    /\ status' = [status EXCEPT ![serving[w].document] = "deleted"]
    /\ Answer(w)
    /\ UNCHANGED <<stored, late, filesHistory>>

\* The worker is killed: what it has written stays, a call it has made may land.
Kill(w) ==
    /\ serving[w] # NoCall
    /\ IF serving[w].call \in {"put", "remove"} THEN GiveUp(w) ELSE UNCHANGED late
    /\ Answer(w)
    /\ UNCHANGED <<status, stored, filesHistory>>

\* Storage carries out a call that nobody waits for any more.
PutLands(d) ==
    /\ LatePut(d)
    /\ late' = late \ {[call |-> "put", document |-> d]}
    /\ stored' = stored \cup {d}
    /\ lostAnswers' = lostAnswers \cup {d}
    /\ UNCHANGED <<status, serving, removals, earlyRemovals>>

RemoveLands(d) ==
    /\ [call |-> "remove", document |-> d] \in late
    /\ late' = late \ {[call |-> "remove", document |-> d]}
    /\ Removing(d)
    /\ UNCHANGED <<status, serving, lostAnswers>>

FilesNext ==
    \/ \E w \in FileWorkers :
          \/ Put(w) \/ PutFails(w) \/ MarkUploaded(w) \/ MarkFailed(w)
          \/ Remove(w) \/ RemoveFails(w) \/ DeleteRow(w) \/ Kill(w)
          \/ \E d \in Documents : BeginUpload(w, d) \/ BeginDelete(w, d)
    \/ \E d \in Documents : PutLands(d) \/ RemoveLands(d)

FilesSpec == FilesInit /\ [][FilesNext]_filesVars

(***************************************************************************)
(* Properties.                                                             *)
(***************************************************************************)

\* "There is no code path where a real file exists with zero database trace":
\* whatever is in storage, a row points at it.
NoOrphan == \A d \in stored : Exists(d)

\* A file without a row comes only from a delete that ran while the upload did,
\* be it in a worker or, given up, on its way to storage; no crash, no failed
\* call and no lost answer alone leaves one behind.
OrphanOnlyByEarlyRemoval == \A d \in stored : Exists(d) \/ d \in earlyRemovals

\* A document shown as uploaded has its file, unless a delete of it got as far
\* as storage and no further.
UploadedHasFile ==
    \A d \in Documents : status[d] = "uploaded" => d \in stored \cup removals

\* A failed upload has written nothing unless its answer was lost.
FailedOnlyUnwritten ==
    \A d \in Documents :
        status[d] = "failed" /\ d \in stored => d \in lostAnswers
=============================================================================
