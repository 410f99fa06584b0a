------------------------------- MODULE SchemaVault -------------------------------
(***************************************************************************)
(* The schema vault and the schema sets of the Content Processor API       *)
(* (routers/schemavault.py, routers/schemasetvault.py and their logics).   *)
(* A schema is a document in Cosmos DB and a file in blob storage; a set   *)
(* is a document that lists schemas.  The API runs several worker          *)
(* processes: the store calls of two requests interleave, and any of them  *)
(* may fail and end its request where it stands.                           *)
(***************************************************************************)
EXTENDS Integers, SequencesExt, FiniteSetsExt

CONSTANTS
  Workers,
  SchemaIds,     \* the ids uuid4 gives
  SetIds,
  Uploads,       \* the files sent, as records, see ValidUpload
  Absent,        \* no document, no file
  MaxRequests    \* bound: requests of a run

ASSUME VaultAssumption ==
  /\ MaxRequests \in Nat
  /\ Absent \notin Uploads
  /\ \A f \in Uploads : f.size \in Nat

VARIABLES
  schemas,     \* the collection: the upload an id's class name comes from
  files,       \* the blobs: the upload stored under an id
  sets,        \* the lists of schema ids, or Absent
  request,     \* the request each worker handles
  requests,    \* how many there were
  edits,       \* history: the list each set should have
  overlapped   \* history: the sets with two edits at once

vaultVars == <<schemas, files, sets, request, requests, edits, overlapped>>

Idle == [op |-> "none", at |-> "idle", id |-> Absent, set |-> Absent,
         upload |-> Absent, list |-> <<>>]

VaultInit ==
  /\ schemas = [i \in SchemaIds |-> Absent] /\ files = [i \in SchemaIds |-> Absent]
  /\ sets = [s \in SetIds |-> Absent]
  /\ request = [w \in Workers |-> Idle] /\ requests = 0
  /\ edits = [s \in SetIds |-> <<>>] /\ overlapped = {}

-------------------------------------------------------------------------------
(* The validation of an upload.                                            *)

MaxBytes == 2            \* 1 MB, in units of half a MB

(* _validate_upload: the name, the extension, the size.                    *)
Admissible(f) == f.named /\ f.ext = "json" /\ f.sized /\ f.size <= MaxBytes

(* Keywords with "x-" and references out of the document are refused at    *)
(* any depth.                                                              *)
Extended(f) == f.keywords # {}

LocalRefs(f) == f.refs \subseteq {"defs", "definitions"}

(* validate_json_schema.                                                   *)
JsonSchema(f) ==
  /\ f.json = "object"
  /\ f.type = "object" /\ f.properties /\ f.draft
  /\ ~Extended(f) /\ LocalRefs(f)

ValidUpload(f) == Admissible(f) /\ JsonSchema(f)

(* derive_class_name: the title, or the name given with the upload.        *)
ClassName(f) == IF f.title # "" THEN f.title ELSE f.fallback

-------------------------------------------------------------------------------
Begin(w, r) ==
  /\ request[w] = Idle /\ requests < MaxRequests
  /\ requests' = requests + 1
  /\ request' = [request EXCEPT ![w] = r]

Goto(w, r) == request' = [request EXCEPT ![w] = r] /\ UNCHANGED requests

At(w, op, at) == request[w].op = op /\ request[w].at = at

End(w) == Goto(w, Idle)

Step(w, at) == Goto(w, [request[w] EXCEPT !.at = at])

setVars == <<sets, edits, overlapped>>

InUse == {request[w].id : w \in Workers}

(* upload_blob overwrites what is there.                                   *)
StoreFile(w) ==
  /\ Step(w, "document")
  /\ files' = [files EXCEPT ![request[w].id] = request[w].upload]
  /\ UNCHANGED <<schemas, setVars>>

(* Register_Schema: a new id for a valid upload.                           *)
RegisterAsked(w) ==
  /\ \E f \in Uploads, i \in SchemaIds :
       /\ ValidUpload(f)
       /\ schemas[i] = Absent /\ files[i] = Absent /\ i \notin InUse
       /\ Begin(w, [Idle EXCEPT !.op = "register", !.at = "file", !.id = i, !.upload = f])
  /\ UNCHANGED <<schemas, files, setVars>>

(* Schemas.Add: the file first, then the document.                         *)
Register(w) ==
  \/ RegisterAsked(w)
  \/ At(w, "register", "file") /\ StoreFile(w)
  \/ /\ At(w, "register", "document") /\ End(w)
     /\ schemas' = [schemas EXCEPT ![request[w].id] = ClassName(request[w].upload)]
     /\ UNCHANGED <<files, setVars>>

(* Update_Schema, and the find of Schemas.Update.                          *)
UpdateAsked(w) ==
  /\ \E f \in Uploads, i \in SchemaIds :
       /\ ValidUpload(f) /\ schemas[i] # Absent
       /\ Begin(w, [Idle EXCEPT !.op = "update", !.at = "file", !.id = i, !.upload = f])
  /\ UNCHANGED <<schemas, files, setVars>>

(* Schemas.Update: replace the file, write the document that was read,     *)
(* which update_one does not create again.                                 *)
Update(w) ==
  \/ UpdateAsked(w)
  \/ At(w, "update", "file") /\ StoreFile(w)
  \/ /\ At(w, "update", "document") /\ End(w)
     /\ schemas' = [schemas EXCEPT ![request[w].id] =
                      IF @ = Absent THEN Absent ELSE ClassName(request[w].upload)]
     /\ UNCHANGED <<files, setVars>>

(* Unregister_Schema, and the find of Schemas.Delete.                      *)
DeleteAsked(w) ==
  /\ \E i \in SchemaIds :
       /\ schemas[i] # Absent
       /\ Begin(w, [Idle EXCEPT !.op = "delete", !.at = "document", !.id = i])
  /\ UNCHANGED <<schemas, files, setVars>>

DropDocument(w) ==
  /\ schemas' = [schemas EXCEPT ![request[w].id] = Absent]
  /\ UNCHANGED <<files, setVars>>

(* delete_blob_and_cleanup: a file that is gone already is no error.       *)
DropFile(w) ==
  /\ files' = [files EXCEPT ![request[w].id] = Absent]
  /\ UNCHANGED <<schemas, setVars>>

(* Mutant: the file goes before the document that names it.                *)
DeleteFileFirst(w) ==
  \/ DeleteAsked(w)
  \/ At(w, "delete", "document") /\ Step(w, "file") /\ DropFile(w)
  \/ At(w, "delete", "file") /\ End(w) /\ DropDocument(w)

(* Schemas.Delete: the document, then the file.                            *)
Delete(w) ==
  \/ DeleteAsked(w)
  \/ At(w, "delete", "document") /\ Step(w, "file") /\ DropDocument(w)
  \/ At(w, "delete", "file") /\ End(w) /\ DropFile(w)

-------------------------------------------------------------------------------
(* Schema sets.                                                            *)

Editing(s) == {w \in Workers : request[w].set = s}

(* The find of the set that an edit starts with.                           *)
ReadSet(w, op, at, i, s) ==
  /\ sets[s] # Absent
  /\ Begin(w, [Idle EXCEPT !.op = op, !.at = at, !.id = i, !.set = s, !.list = sets[s]])
  /\ overlapped' = IF Editing(s) # {} THEN overlapped \union {s} ELSE overlapped

WriteSet(w, list, intended) ==
  LET s == request[w].set IN
  /\ sets' = [sets EXCEPT ![s] = IF @ = Absent THEN Absent ELSE list]
  /\ edits' = [edits EXCEPT ![s] = intended]
  /\ End(w)
  /\ UNCHANGED <<schemas, files, overlapped>>

CreateSet(w) ==
  \E s \in SetIds :
    /\ request[w] = Idle /\ sets[s] = Absent /\ Editing(s) = {}
    /\ s \notin overlapped /\ requests < MaxRequests
    /\ sets' = [sets EXCEPT ![s] = <<>>] /\ edits' = [edits EXCEPT ![s] = <<>>]
    /\ requests' = requests + 1
    /\ UNCHANGED <<schemas, files, request, overlapped>>

DeleteSet(w) ==
  \E s \in SetIds :
    /\ request[w] = Idle /\ sets[s] # Absent /\ requests < MaxRequests
    /\ sets' = [sets EXCEPT ![s] = Absent]
    /\ overlapped' = IF Editing(s) # {} THEN overlapped \union {s} ELSE overlapped
    /\ requests' = requests + 1
    /\ UNCHANGED <<schemas, files, request, edits>>

AddAsked(w) ==
  /\ \E i \in SchemaIds, s \in SetIds : ReadSet(w, "add", "schema", i, s)
  /\ UNCHANGED <<schemas, files, sets, edits>>

(* AddSchemaToSet: find the set, find the schema, write the longer list.   *)
AddToSet(w) ==
  \/ AddAsked(w)
  \/ /\ At(w, "add", "schema")
     /\ IF schemas[request[w].id] = Absent THEN End(w) ELSE Step(w, "write")
     /\ UNCHANGED <<schemas, files, setVars>>
  \/ /\ At(w, "add", "write")
     /\ WriteSet(w, Append(request[w].list, request[w].id),
                 Append(edits[request[w].set], request[w].id))

(* Mutant: the first entry of the schema is removed only.                  *)
WithoutFirst(list, i) ==
  IF Contains(list, i) THEN RemoveFirst(list, i) ELSE list

Without(list, i) == SelectSeq(list, LAMBDA j : j # i)

RemoveAsked(w) ==
  /\ \E i \in SchemaIds, s \in SetIds : ReadSet(w, "remove", "write", i, s)
  /\ UNCHANGED <<schemas, files, sets, edits>>

(* RemoveSchemaFromSet: every entry of the schema.                         *)
RemoveFromSet(w) ==
  \/ RemoveAsked(w)
  \/ /\ At(w, "remove", "write")
     /\ WriteSet(w, Without(request[w].list, request[w].id),
                 SelectSeq(edits[request[w].set], LAMBDA j : j # request[w].id))

(* A store's call raises, or the worker dies: the request ends there.      *)
RequestFails(w) ==
  /\ request[w] # Idle /\ End(w)
  /\ UNCHANGED <<schemas, files, setVars>>

VaultNext ==
  \E w \in Workers :
    \/ Register(w) \/ Update(w) \/ Delete(w)
    \/ CreateSet(w) \/ DeleteSet(w) \/ AddToSet(w) \/ RemoveFromSet(w)
    \/ RequestFails(w)

VaultSpec == VaultInit /\ [][VaultNext]_vaultVars

-------------------------------------------------------------------------------
(* Every registered schema has its file, and one that was validated,       *)
(* whatever requests overlap and wherever they fail: the extraction that   *)
(* loads it never finds the document alone.                                *)
SchemaHasFile ==
  \A i \in SchemaIds : schemas[i] # Absent => files[i] \in Uploads /\ ValidUpload(files[i])

(* The list of a set is what its edits make of it, one after the other:    *)
(* unless two of them overlapped, and the later write undid the earlier.   *)
SetKeepsEdits ==
  \A s \in SetIds : sets[s] # Absent /\ s \notin overlapped => sets[s] = edits[s]
===============================================================================
