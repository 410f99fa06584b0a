-------------------------------- MODULE WebProofs --------------------------------
(***************************************************************************)
(* Theorems about the Web APIs and the pages that call them: the schema    *)
(* vault and its sets, the review page, the upload of claims, and the      *)
(* record and the files of one document.                                   *)
(***************************************************************************)
EXTENDS SchemaVault, ReviewConsole, ClaimIntake, ContentRecords, FiniteSetTheorems,
        SequenceTheorems, TLAPS

-------------------------------------------------------------------------------
(* SchemaVault, the schemas.  A request that writes a document does so     *)
(* with its file in place, and nobody takes that file away meanwhile: an   *)
(* id belongs to one registration, and who deletes the file has deleted    *)
(* the document, which only another registration could create again.       *)
IsRequest(r) == DOMAIN r = {"op", "at", "id", "set", "upload", "list"}

Storing(r) == r.op \in {"register", "update"}

OnSchema(r) == r.op \in {"register", "update", "delete"}

GoodFile(f) == f \in Uploads /\ ValidUpload(f)

VaultTypes ==
  /\ DOMAIN request = Workers /\ DOMAIN schemas = SchemaIds /\ DOMAIN files = SchemaIds
  /\ DOMAIN sets = SetIds /\ DOMAIN edits = SetIds
  /\ \A w \in Workers : IsRequest(request[w])

FileInv ==
  /\ \A i \in SchemaIds : schemas[i] # Absent => GoodFile(files[i])
  /\ \A w \in Workers : OnSchema(request[w]) => request[w].id \in SchemaIds
  /\ \A w \in Workers : Storing(request[w]) => GoodFile(request[w].upload)
  /\ \A w \in Workers : request[w].op = "register" =>
       /\ schemas[request[w].id] = Absent
       /\ request[w].at = "document" => GoodFile(files[request[w].id])
       /\ \A v \in Workers \ {w} : OnSchema(request[v]) => request[v].id # request[w].id
  /\ \A w \in Workers : request[w].op = "delete" /\ request[w].at = "file" =>
       schemas[request[w].id] = Absent

(* What a step may do to the request it belongs to ...                     *)
RequestStep(w) ==
  /\ DOMAIN request' = Workers
  /\ \A v \in Workers \ {w} : request'[v] = request[v]
  /\ IsRequest(request'[w])

LEMMA RequestSteps ==
  ASSUME VaultTypes, NEW w \in Workers, NEW r, IsRequest(r), Goto(w, r) \/ Begin(w, r)
  PROVE  RequestStep(w) /\ request'[w] = r
<1>1. request' = [request EXCEPT ![w] = r]
  BY DEF Goto, Begin
<1> QED
  BY <1>1 DEF VaultTypes, RequestStep

LEMMA Idling ==
  IsRequest(Idle) /\ Idle.op = "none" /\ Idle.at = "idle" /\ Idle.set = Absent
BY DEF IsRequest, Idle

(* A step of a request that goes on leaves everything of it but its place. *)
LEMMA Stepping ==
  ASSUME VaultTypes, NEW w \in Workers, NEW at, Step(w, at)
  PROVE  /\ RequestStep(w) /\ UNCHANGED requests
         /\ request'[w].at = at /\ request'[w].op = request[w].op
         /\ request'[w].id = request[w].id /\ request'[w].set = request[w].set
         /\ request'[w].upload = request[w].upload /\ request'[w].list = request[w].list
<1> DEFINE r == [request[w] EXCEPT !.at = at]
<1>1. IsRequest(r) /\ r.at = at /\ r.op = request[w].op /\ r.id = request[w].id
      /\ r.set = request[w].set /\ r.upload = request[w].upload /\ r.list = request[w].list
  BY DEF VaultTypes, IsRequest
<1>2. Goto(w, r)
  BY DEF Step
<1> QED
  BY <1>1, <1>2, RequestSteps DEF Goto

LEMMA Ending ==
  ASSUME VaultTypes, NEW w \in Workers, End(w)
  PROVE  RequestStep(w) /\ request'[w] = Idle
BY Idling, RequestSteps DEF End

(* A request that ends, or that is none of the schemas', keeps FileInv.    *)
LEMMA FileQuiet ==
  ASSUME VaultTypes, FileInv, NEW w \in Workers, RequestStep(w),
         ~OnSchema(request'[w]), UNCHANGED <<schemas, files>>
  PROVE  FileInv'
<1>1. \A v \in Workers : OnSchema(request'[v]) => v # w /\ request'[v] = request[v]
  BY DEF RequestStep
<1>2. /\ schemas' = schemas /\ files' = files
      /\ \A f : GoodFile(f)' <=> GoodFile(f)
  BY DEF GoodFile
<1>3. \A v \in Workers : request'[v].op \in {"register", "update", "delete"} =>
        v # w /\ request'[v] = request[v]
  BY <1>1 DEF OnSchema
<1> QED
  BY <1>2, <1>3 DEF FileInv, OnSchema, Storing, GoodFile

LEMMA FileRegister ==
  ASSUME VaultTypes, FileInv, NEW w \in Workers, Register(w)
  PROVE  FileInv' /\ VaultTypes'
<1>1. CASE RegisterAsked(w)
  <2>1. PICK f \in Uploads, i \in SchemaIds :
          /\ ValidUpload(f) /\ schemas[i] = Absent /\ files[i] = Absent /\ i \notin InUse
          /\ Begin(w, [Idle EXCEPT !.op = "register", !.at = "file", !.id = i, !.upload = f])
    BY <1>1 DEF RegisterAsked
  <2> DEFINE r == [Idle EXCEPT !.op = "register", !.at = "file", !.id = i, !.upload = f]
  <2>2. IsRequest(r) /\ r.op = "register" /\ r.at = "file" /\ r.id = i /\ r.upload = f
    BY Zenon DEF IsRequest, Idle
  <2>. Begin(w, r)
    BY <2>1
  <2> HIDE DEF r
  <2>3. RequestStep(w) /\ request'[w] = r
    BY <2>1, <2>2, RequestSteps
  <2>4. \A v \in Workers : request[v].id # i
    BY <2>1 DEF InUse
  <2>5. UNCHANGED <<schemas, files, sets, edits>>
    BY <1>1 DEF RegisterAsked, setVars
  <2> QED
    BY <2>1, <2>2, <2>3, <2>4, <2>5
       DEF VaultTypes, FileInv, RequestStep, OnSchema, Storing, GoodFile
<1>2. CASE At(w, "register", "file") /\ StoreFile(w)
  <2>1. /\ RequestStep(w) /\ request'[w].at = "document" /\ request'[w].op = request[w].op
        /\ request'[w].id = request[w].id /\ request'[w].upload = request[w].upload
    BY <1>2, Stepping DEF StoreFile
  <2>2. files' = [files EXCEPT ![request[w].id] = request[w].upload]
        /\ UNCHANGED <<schemas, sets, edits>>
    BY <1>2 DEF StoreFile, setVars
  <2> QED
    BY <1>2, <2>1, <2>2 DEF At, VaultTypes, FileInv, RequestStep, OnSchema, Storing
<1>3. CASE At(w, "register", "document") /\ End(w) /\ UNCHANGED <<files, setVars>>
           /\ schemas' = [schemas EXCEPT ![request[w].id] = ClassName(request[w].upload)]
  <2>1. RequestStep(w) /\ request'[w] = Idle
    BY <1>3, Ending
  <2> QED
    BY <1>3, <2>1, Idling
       DEF At, VaultTypes, FileInv, RequestStep, OnSchema, Storing, setVars
<1> QED
  BY <1>1, <1>2, <1>3 DEF Register

LEMMA FileUpdate ==
  ASSUME VaultTypes, FileInv, NEW w \in Workers, Update(w)
  PROVE  FileInv' /\ VaultTypes'
<1>1. CASE UpdateAsked(w)
  <2>1. PICK f \in Uploads, i \in SchemaIds :
          /\ ValidUpload(f) /\ schemas[i] # Absent
          /\ Begin(w, [Idle EXCEPT !.op = "update", !.at = "file", !.id = i, !.upload = f])
    BY <1>1 DEF UpdateAsked
  <2> DEFINE r == [Idle EXCEPT !.op = "update", !.at = "file", !.id = i, !.upload = f]
  <2>2. IsRequest(r) /\ r.op = "update" /\ r.at = "file" /\ r.id = i /\ r.upload = f
    BY Zenon DEF IsRequest, Idle
  <2>. Begin(w, r)
    BY <2>1
  <2> HIDE DEF r
  <2>3. RequestStep(w) /\ request'[w] = r
    BY <2>2, RequestSteps
  <2>4. UNCHANGED <<schemas, files, sets, edits>>
    BY <1>1 DEF UpdateAsked, setVars
  <2> QED
    BY <2>1, <2>2, <2>3, <2>4
       DEF VaultTypes, FileInv, RequestStep, OnSchema, Storing, GoodFile
<1>2. CASE At(w, "update", "file") /\ StoreFile(w)
  <2>1. /\ RequestStep(w) /\ request'[w].at = "document" /\ request'[w].op = request[w].op
        /\ request'[w].id = request[w].id /\ request'[w].upload = request[w].upload
    BY <1>2, Stepping DEF StoreFile
  <2>2. files' = [files EXCEPT ![request[w].id] = request[w].upload]
        /\ UNCHANGED <<schemas, sets, edits>>
    BY <1>2 DEF StoreFile, setVars
  <2> QED
    BY <1>2, <2>1, <2>2 DEF At, VaultTypes, FileInv, RequestStep, OnSchema, Storing
<1>3. CASE At(w, "update", "document") /\ End(w) /\ UNCHANGED <<files, setVars>>
           /\ schemas' = [schemas EXCEPT ![request[w].id] =
                            IF @ = Absent THEN Absent ELSE ClassName(request[w].upload)]
  <2>1. RequestStep(w) /\ request'[w] = Idle
    BY <1>3, Ending
  <2> QED
    BY <1>3, <2>1, Idling
       DEF At, VaultTypes, FileInv, RequestStep, OnSchema, Storing, setVars
<1> QED
  BY <1>1, <1>2, <1>3 DEF Update

LEMMA FileDelete ==
  ASSUME VaultTypes, FileInv, NEW w \in Workers, Delete(w)
  PROVE  FileInv' /\ VaultTypes'
<1>1. CASE DeleteAsked(w)
  <2>1. PICK i \in SchemaIds :
          /\ schemas[i] # Absent
          /\ Begin(w, [Idle EXCEPT !.op = "delete", !.at = "document", !.id = i])
    BY <1>1 DEF DeleteAsked
  <2> DEFINE r == [Idle EXCEPT !.op = "delete", !.at = "document", !.id = i]
  <2>2. IsRequest(r) /\ r.op = "delete" /\ r.at = "document" /\ r.id = i
    BY Zenon DEF IsRequest, Idle
  <2>. Begin(w, r)
    BY <2>1
  <2> HIDE DEF r
  <2>3. RequestStep(w) /\ request'[w] = r
    BY <2>2, RequestSteps
  <2>4. UNCHANGED <<schemas, files, sets, edits>>
    BY <1>1 DEF DeleteAsked, setVars
  <2> QED
    BY <2>1, <2>2, <2>3, <2>4
       DEF VaultTypes, FileInv, RequestStep, OnSchema, Storing
<1>2. CASE At(w, "delete", "document") /\ Step(w, "file") /\ DropDocument(w)
  <2>1. /\ RequestStep(w) /\ request'[w].at = "file" /\ request'[w].op = request[w].op
        /\ request'[w].id = request[w].id
    BY <1>2, Stepping
  <2>2. schemas' = [schemas EXCEPT ![request[w].id] = Absent]
        /\ UNCHANGED <<files, sets, edits>>
    BY <1>2 DEF DropDocument, setVars
  <2> QED
    BY <1>2, <2>1, <2>2 DEF At, VaultTypes, FileInv, RequestStep, OnSchema, Storing
<1>3. CASE At(w, "delete", "file") /\ End(w) /\ DropFile(w)
  <2>1. RequestStep(w) /\ request'[w] = Idle
    BY <1>3, Ending
  <2>2. files' = [files EXCEPT ![request[w].id] = Absent]
        /\ UNCHANGED <<schemas, sets, edits>>
    BY <1>3 DEF DropFile, setVars
  <2>3. OnSchema(request[w])
    BY <1>3 DEF At, OnSchema
  <2>4. \A v \in Workers \ {w} :
          request[v].op = "register" => request[v].id # request[w].id
    BY <2>3 DEF FileInv
  <2> QED
    BY <1>3, <2>1, <2>2, <2>3, <2>4, Idling
       DEF At, VaultTypes, FileInv, RequestStep, OnSchema, Storing
<1> QED
  BY <1>1, <1>2, <1>3 DEF Delete

-------------------------------------------------------------------------------
(* SchemaVault, the sets.  Unless two edits of a set have overlapped there *)
(* is one at most, and the list it has read is still the set's.            *)
OnSet(r, s) == r.op \in {"add", "remove"} /\ r.set = s

EditInv ==
  /\ \A w \in Workers : request[w].op \in {"add", "remove"} => request[w].set \in SetIds
  /\ \A s \in SetIds \ overlapped :
       /\ sets[s] # Absent => sets[s] = edits[s]
       /\ \A w \in Workers : OnSet(request[w], s) => request[w].list = edits[s]
       /\ \A v, w \in Workers : OnSet(request[v], s) /\ OnSet(request[w], s) => v = w

(* The steps of the schemas' requests, and those that end, keep EditInv.   *)
LEMMA EditQuiet ==
  ASSUME VaultTypes, EditInv, NEW w \in Workers, RequestStep(w),
         \/ request'[w].op \notin {"add", "remove"}
         \/ /\ request'[w].op = request[w].op /\ request'[w].set = request[w].set
            /\ request'[w].list = request[w].list,
         UNCHANGED <<sets, edits, overlapped>>
  PROVE  EditInv'
BY DEF VaultTypes, EditInv, RequestStep, OnSet

LEMMA EditStarts ==
  ASSUME VaultTypes, EditInv, NEW w \in Workers,
         NEW op \in {"add", "remove"}, NEW at, NEW i, NEW s \in SetIds,
         ReadSet(w, op, at, i, s), UNCHANGED <<sets, edits>>
  PROVE  EditInv' /\ RequestStep(w) /\ request'[w].op = op
<1> DEFINE r == [Idle EXCEPT !.op = op, !.at = at, !.id = i, !.set = s, !.list = sets[s]]
<1>. Begin(w, r) /\ sets[s] # Absent
     /\ overlapped' = IF Editing(s) # {} THEN overlapped \union {s} ELSE overlapped
  BY DEF ReadSet
<1>1. IsRequest(r) /\ r.op = op /\ r.set = s /\ r.list = sets[s]
  BY Zenon DEF IsRequest, Idle
<1> HIDE DEF r
<1>2. RequestStep(w) /\ request'[w] = r
  BY <1>1, RequestSteps
<1>3. s \notin overlapped' => \A v \in Workers : request[v].set # s
  BY DEF Editing
<1>4. overlapped \subseteq overlapped'
  OBVIOUS
<1> QED
  BY <1>1, <1>2, <1>3, <1>4 DEF VaultTypes, EditInv, RequestStep, OnSet

LEMMA EditEnds ==
  ASSUME VaultTypes, EditInv, NEW w \in Workers, request[w].op \in {"add", "remove"},
         NEW list, NEW intended, WriteSet(w, list, intended),
         request[w].list = edits[request[w].set] => list = intended
  PROVE  EditInv' /\ VaultTypes' /\ RequestStep(w) /\ request'[w] = Idle
         /\ UNCHANGED <<schemas, files>>
<1> DEFINE s == request[w].set
<1>1. RequestStep(w) /\ request'[w] = Idle
  BY Ending DEF WriteSet
<1>2. /\ sets' = [sets EXCEPT ![s] = IF @ = Absent THEN Absent ELSE list]
      /\ edits' = [edits EXCEPT ![s] = intended]
      /\ UNCHANGED <<schemas, files, overlapped>>
  BY DEF WriteSet
<1>3. s \in SetIds
  BY DEF EditInv
<1>4. s \notin overlapped => list = intended /\ \A v \in Workers \ {w} : ~OnSet(request[v], s)
  BY <1>3 DEF EditInv, OnSet
<1>5. VaultTypes'
  BY <1>1, <1>2 DEF VaultTypes, RequestStep
<1> HIDE DEF s
<1>6. \A v \in Workers : request'[v].op \in {"add", "remove"} =>
        v # w /\ request'[v] = request[v]
  BY <1>1, Idling DEF RequestStep
<1>7. ASSUME NEW t \in SetIds \ overlapped'
      PROVE  /\ sets'[t] # Absent => sets'[t] = edits'[t]
             /\ \A v \in Workers : OnSet(request'[v], t) => request'[v].list = edits'[t]
             /\ \A u, v \in Workers : OnSet(request'[u], t) /\ OnSet(request'[v], t) => u = v
  BY <1>2, <1>3, <1>4, <1>6 DEF EditInv, OnSet, VaultTypes
<1> QED
  BY <1>1, <1>2, <1>5, <1>6, <1>7 DEF EditInv, OnSet

LEMMA EditKept ==
  ASSUME VaultTypes, EditInv, NEW w \in Workers, Register(w) \/ Update(w) \/ Delete(w)
  PROVE  EditInv'
<1>1. UNCHANGED <<sets, edits, overlapped>>
  BY DEF Register, Update, Delete, RegisterAsked, UpdateAsked, DeleteAsked, StoreFile,
         DropDocument, DropFile, setVars
<1>2. ASSUME NEW op, NEW i, NEW f, op \notin {"add", "remove"},
             Begin(w, [Idle EXCEPT !.op = op, !.at = "file", !.id = i, !.upload = f])
      PROVE  EditInv'
  <2> DEFINE r == [Idle EXCEPT !.op = op, !.at = "file", !.id = i, !.upload = f]
  <2>1. IsRequest(r) /\ r.op = op
    BY Zenon DEF IsRequest, Idle
  <2>. Begin(w, r)
    BY <1>2
  <2> HIDE DEF r
  <2> QED
    BY <1>1, <1>2, <2>1, RequestSteps, EditQuiet
<1>3. ASSUME NEW i, Begin(w, [Idle EXCEPT !.op = "delete", !.at = "document", !.id = i])
      PROVE  EditInv'
  <2> DEFINE r == [Idle EXCEPT !.op = "delete", !.at = "document", !.id = i]
  <2>1. IsRequest(r) /\ r.op = "delete"
    BY Zenon DEF IsRequest, Idle
  <2>. Begin(w, r)
    BY <1>3
  <2> HIDE DEF r
  <2> QED
    BY <1>1, <2>1, RequestSteps, EditQuiet
<1>4. ASSUME NEW at, Step(w, at)
      PROVE  EditInv'
  BY <1>1, <1>4, Stepping, EditQuiet
<1>5. ASSUME End(w)
      PROVE  EditInv'
  BY <1>1, <1>5, Ending, Idling, EditQuiet
<1>6. CASE RegisterAsked(w)
  <2>1. PICK f \in Uploads, i \in SchemaIds :
          Begin(w, [Idle EXCEPT !.op = "register", !.at = "file", !.id = i, !.upload = f])
    BY <1>6 DEF RegisterAsked
  <2>2. "register" \notin {"add", "remove"}
    OBVIOUS
  <2> QED
    BY <1>2, <2>1, <2>2, Zenon
<1>7. CASE UpdateAsked(w)
  <2>1. PICK f \in Uploads, i \in SchemaIds :
          Begin(w, [Idle EXCEPT !.op = "update", !.at = "file", !.id = i, !.upload = f])
    BY <1>7 DEF UpdateAsked
  <2>2. "update" \notin {"add", "remove"}
    OBVIOUS
  <2> QED
    BY <1>2, <2>1, <2>2, Zenon
<1>8. CASE DeleteAsked(w)
  BY <1>3, <1>8 DEF DeleteAsked
<1> QED
  BY <1>4, <1>5, <1>6, <1>7, <1>8 DEF Register, Update, Delete, StoreFile

VaultInv == VaultTypes /\ FileInv /\ EditInv

LEMMA VaultSetSteps ==
  ASSUME VaultInv, NEW w \in Workers,
         CreateSet(w) \/ DeleteSet(w) \/ AddToSet(w) \/ RemoveFromSet(w)
  PROVE  VaultInv'
<1>. VaultTypes /\ FileInv /\ EditInv
  BY DEF VaultInv
<1>1. CASE CreateSet(w)
  <2>1. PICK s \in SetIds :
          /\ Editing(s) = {} /\ sets' = [sets EXCEPT ![s] = <<>>]
          /\ edits' = [edits EXCEPT ![s] = <<>>]
    BY <1>1 DEF CreateSet
  <2>2. UNCHANGED <<schemas, files, request, overlapped>>
    BY <1>1 DEF CreateSet
  <2>3. \A v \in Workers : request[v].set # s
    BY <2>1 DEF Editing
  <2>4. FileInv' /\ VaultTypes'
    BY <2>1, <2>2 DEF VaultTypes, FileInv
  <2> QED
    BY <2>1, <2>2, <2>3, <2>4 DEF VaultInv, VaultTypes, EditInv, OnSet
<1>2. CASE DeleteSet(w)
  <2>1. PICK s \in SetIds : sets' = [sets EXCEPT ![s] = Absent]
    BY <1>2 DEF DeleteSet
  <2>2. UNCHANGED <<schemas, files, request, edits>> /\ overlapped \subseteq overlapped'
    BY <1>2 DEF DeleteSet
  <2>3. FileInv' /\ VaultTypes'
    BY <2>1, <2>2 DEF VaultTypes, FileInv
  <2> QED
    BY <2>1, <2>2, <2>3 DEF VaultInv, VaultTypes, EditInv, OnSet
<1>3. ASSUME NEW op \in {"add", "remove"}, NEW at, NEW i, NEW s \in SetIds,
             ReadSet(w, op, at, i, s), UNCHANGED <<schemas, files, sets, edits>>
      PROVE  VaultInv'
  <2>1. EditInv' /\ RequestStep(w) /\ ~OnSchema(request'[w])
    BY <1>3, EditStarts DEF OnSchema
  <2>2. FileInv' /\ VaultTypes'
    BY <1>3, <2>1, FileQuiet DEF VaultTypes, RequestStep
  <2> QED
    BY <2>1, <2>2 DEF VaultInv
<1>4. ASSUME NEW list, NEW intended, request[w].op \in {"add", "remove"},
             WriteSet(w, list, intended),
             request[w].list = edits[request[w].set] => list = intended
      PROVE  VaultInv'
  <2>1. EditInv' /\ VaultTypes' /\ RequestStep(w) /\ request'[w] = Idle
        /\ UNCHANGED <<schemas, files>>
    BY <1>4, EditEnds
  <2>2. FileInv'
    BY <2>1, Idling, FileQuiet DEF OnSchema
  <2> QED
    BY <2>1, <2>2 DEF VaultInv
<1>5. CASE AddAsked(w)
  BY <1>3, <1>5 DEF AddAsked
<1>6. CASE RemoveAsked(w)
  BY <1>3, <1>6 DEF RemoveAsked
<1>7. CASE /\ At(w, "add", "schema")
           /\ IF schemas[request[w].id] = Absent THEN End(w) ELSE Step(w, "write")
           /\ UNCHANGED <<schemas, files, setVars>>
  <2>1. RequestStep(w) /\ ~OnSchema(request'[w])
        /\ \/ request'[w].op \notin {"add", "remove"}
           \/ /\ request'[w].op = request[w].op /\ request'[w].set = request[w].set
              /\ request'[w].list = request[w].list
    <3>1. CASE End(w)
      BY <3>1, Ending, Idling DEF OnSchema
    <3>2. CASE Step(w, "write")
      BY <1>7, <3>2, Stepping DEF OnSchema, At
    <3> QED
      BY <1>7, <3>1, <3>2
  <2>2. FileInv' /\ VaultTypes'
    BY <1>7, <2>1, FileQuiet DEF VaultTypes, RequestStep, setVars
  <2>3. EditInv'
    BY <1>7, <2>1, EditQuiet DEF setVars
  <2> QED
    BY <2>2, <2>3 DEF VaultInv
<1>8. CASE /\ At(w, "add", "write")
           /\ WriteSet(w, Append(request[w].list, request[w].id),
                       Append(edits[request[w].set], request[w].id))
  BY <1>4, <1>8 DEF At
<1>9. CASE /\ At(w, "remove", "write")
           /\ WriteSet(w, Without(request[w].list, request[w].id),
                       SelectSeq(edits[request[w].set], LAMBDA j : j # request[w].id))
  <2>1. WriteSet(w, Without(request[w].list, request[w].id),
                    Without(edits[request[w].set], request[w].id))
    BY <1>9 DEF Without
  <2> QED
    BY <1>4, <1>9, <2>1 DEF At
<1> QED
  BY <1>1, <1>2, <1>5, <1>6, <1>7, <1>8, <1>9 DEF AddToSet, RemoveFromSet

LEMMA VaultStep == VaultInv /\ [VaultNext]_vaultVars => VaultInv'
<1> SUFFICES ASSUME VaultInv, [VaultNext]_vaultVars
             PROVE  VaultInv'
  OBVIOUS
<1>. VaultTypes /\ FileInv /\ EditInv
  BY DEF VaultInv
<1>1. CASE UNCHANGED vaultVars
  BY <1>1 DEF vaultVars, VaultInv, VaultTypes, FileInv, EditInv
<1>2. ASSUME NEW w \in Workers, Register(w) \/ Update(w) \/ Delete(w)
      PROVE  VaultInv'
  BY <1>2, FileRegister, FileUpdate, FileDelete, EditKept DEF VaultInv
<1>3. ASSUME NEW w \in Workers, RequestFails(w)
      PROVE  VaultInv'
  <2>1. RequestStep(w) /\ request'[w] = Idle /\ UNCHANGED <<schemas, files, setVars>>
    BY <1>3, Ending DEF RequestFails
  <2>2. FileInv' /\ VaultTypes'
    BY <2>1, Idling, FileQuiet DEF VaultTypes, RequestStep, setVars, OnSchema
  <2>3. EditInv'
    BY <2>1, Idling, EditQuiet DEF setVars
  <2> QED
    BY <2>2, <2>3 DEF VaultInv
<1> QED
  BY <1>1, <1>2, <1>3, VaultSetSteps DEF VaultNext

LEMMA VaultStart == VaultInit => VaultInv
<1> SUFFICES ASSUME VaultInit PROVE VaultInv
  OBVIOUS
<1>1. \A w \in Workers : request[w] = Idle
  BY DEF VaultInit
<1>2. \A w \in Workers : request[w].op = "none"
  BY <1>1, Idling
<1> QED
  BY <1>1, <1>2, Idling
     DEF VaultInit, VaultInv, VaultTypes, FileInv, EditInv, OnSchema, Storing, OnSet

(* Schemas.Add, Update and Delete: in every state that any number of       *)
(* overlapping requests, failing anywhere, can reach, each registered      *)
(* schema has a file that passed the validation.                           *)
THEOREM RegisteredHasFile == VaultSpec => []SchemaHasFile
<1>1. VaultInv => SchemaHasFile
  BY DEF VaultInv, FileInv, SchemaHasFile, GoodFile
<1> QED
  BY <1>1, VaultStart, VaultStep, PTL DEF VaultSpec

(* AddSchemaToSet and RemoveSchemaFromSet: no edit of a set is lost as     *)
(* long as no two requests on that set overlap, whatever happens to the    *)
(* other sets and to the schemas meanwhile.                                *)
THEOREM NoEditLost == VaultSpec => []SetKeepsEdits
<1>1. VaultInv => SetKeepsEdits
  BY DEF VaultInv, EditInv, SetKeepsEdits
<1> QED
  BY <1>1, VaultStart, VaultStep, PTL DEF VaultSpec

-------------------------------------------------------------------------------
(* ReviewConsole.  What the editor of a document holds is that document's  *)
(* as soon as its content has arrived, and the comments and the requests   *)
(* carry the id they were made for.                                        *)
PageFields ==
  {"grid", "doc", "claim", "done", "content", "loading", "modified", "comments", "typed",
   "details", "detailsLoading", "savedComment", "claimTyped", "files", "fileLoading", "deleting"}

Selection(p) ==
  /\ DOMAIN p = PageFields /\ DOMAIN p.grid \subseteq Batches
  /\ p.doc \in Documents \union {None} /\ p.claim \in Batches \union {None}
  /\ p.claim # None => p.doc = None
  /\ p.typed \in {p.doc, None}

EditorOwn(p) ==
  EditorVisible(p) => /\ p.modified \in {p.doc, None}
                      /\ p.loading \/ p.content \in {p.doc, None}

RemarkOwn(p, over) == p.claim # None => p.claim \in over \/ p.claimTyped \in {p.claim, None}

RequestOwn(r) ==
  /\ r.kind = "save" => /\ r.id \in Documents /\ r.comment \in {r.id, None}
                        /\ "result" \in r.parts => r.result = r.id
  /\ r.kind = "content" => r.id \in Documents

RemarkSent(r, over) == r.kind = "remark" => r.id \in over \/ r.comment \in {r.id, None}

RemarksOwn(over) == \A b \in Batches : b \in over \/ remark[b] \in {b, None}

ContentAwaited(p, fs) ==
  EditorVisible(p) /\ p.loading => \E r \in fs : r.kind = "content" /\ r.id = p.doc

DetailsAwaited(p, fs) ==
  p.claim # None /\ p.detailsLoading => \E r \in fs : r.kind = "details" /\ r.id = p.claim

FileAwaited(p, fs) == p.fileLoading => \E r \in fs : r.kind = "file"

RecordOwn ==
  /\ DOMAIN record = Documents /\ DOMAIN remark = Batches /\ claims \subseteq Batches
  /\ \A d \in Documents : /\ DOMAIN record[d] = {"result", "comment", "done"}
                          /\ record[d].result = d /\ record[d].comment \in {d, None}

ConsoleInv ==
  /\ RecordOwn /\ Selection(page) /\ EditorOwn(page)
  /\ \A r \in flying : RequestOwn(r)
  /\ RemarkOwn(page, overtaken) /\ RemarksOwn(overtaken)
  /\ \A r \in flying : RemarkSent(r, overtaken)
  /\ ContentAwaited(page, flying) /\ DetailsAwaited(page, flying) /\ FileAwaited(page, flying)

(* What the reducers and effects change of the page.                       *)
LEMMA Contents ==
  ASSUME NEW p, DOMAIN p = PageFields
  PROVE  LET q == FetchContent(p) IN
         /\ DOMAIN q = PageFields /\ q.grid = p.grid /\ q.doc = p.doc /\ q.claim = p.claim
         /\ q.done = p.done /\ q.content = p.content /\ q.claimTyped = p.claimTyped
         /\ q.detailsLoading = p.detailsLoading /\ q.fileLoading = p.fileLoading
         /\ q.typed \in {p.typed, None}
         /\ EditorVisible(p) => q.modified = None /\ q.loading = TRUE
<1> DEFINE e == ContentPending(p)
<1>1. /\ DOMAIN e = PageFields /\ e.grid = p.grid /\ e.doc = p.doc /\ e.claim = p.claim
      /\ e.done = p.done /\ e.content = p.content /\ e.claimTyped = p.claimTyped
      /\ e.detailsLoading = p.detailsLoading /\ e.fileLoading = p.fileLoading
      /\ e.modified = None /\ e.loading = TRUE
  BY Zenon DEF PageFields, ContentPending
<1>2. e.typed \in {p.typed, None}
  BY Zenon DEF PageFields, ContentPending
<1>3. FetchContent(p) = IF EditorVisible(p) THEN e ELSE p
  BY DEF FetchContent
<1> HIDE DEF e
<1> QED
  BY <1>1, <1>2, <1>3

LEMMA Details ==
  ASSUME NEW p, DOMAIN p = PageFields
  PROVE  LET q == FetchDetails(p) IN
         /\ DOMAIN q = PageFields /\ q.grid = p.grid /\ q.doc = p.doc /\ q.claim = p.claim
         /\ q.done = p.done /\ q.content = p.content /\ q.claimTyped = None
         /\ q.fileLoading = p.fileLoading /\ q.typed = p.typed
         /\ q.modified = p.modified /\ q.loading = p.loading
BY Zenon DEF PageFields, FetchDetails

LEMMA Files ==
  ASSUME NEW p, DOMAIN p = PageFields
  PROVE  LET q == FetchFile(p) IN
         /\ DOMAIN q = PageFields /\ q.grid = p.grid /\ q.doc = p.doc /\ q.claim = p.claim
         /\ q.done = p.done /\ q.content = p.content /\ q.claimTyped = p.claimTyped
         /\ q.detailsLoading = p.detailsLoading /\ q.typed = p.typed
         /\ q.modified = p.modified /\ q.loading = p.loading
         /\ q.fileLoading => p.fileLoading \/ p.doc \notin p.files
BY Zenon DEF PageFields, FetchFile

LEMMA Asked ==
  ASSUME NEW kind, NEW i
  PROVE  /\ Ask(kind, i).kind = kind /\ Ask(kind, i).id = i /\ Ask(kind, i).parts = {}
         /\ Ask(kind, i).result = None /\ Ask(kind, i).comment = None
         /\ DOMAIN Ask(kind, i) = {"kind", "id", "result", "comment", "parts", "no"}
BY DEF Ask, Request


(* Fetching the content makes the editor's data the selected document's,   *)
(* or hides it until it is.                                                *)
LEMMA ContentsOwn ==
  ASSUME NEW p, Selection(p), NEW fs, NEW over
  PROVE  LET q == FetchContent(p) IN
         /\ Selection(q) /\ EditorOwn(q)
         /\ RemarkOwn(p, over) => RemarkOwn(q, over)
         /\ ContentAsked(p) \subseteq fs => ContentAwaited(q, fs)
         /\ DetailsAwaited(p, fs) => DetailsAwaited(q, fs)
         /\ FileAwaited(p, fs) => FileAwaited(q, fs)
<1> DEFINE q == FetchContent(p)
<1>0. DOMAIN p = PageFields
  BY DEF Selection
<1>1. /\ DOMAIN q = PageFields /\ q.grid = p.grid /\ q.doc = p.doc /\ q.claim = p.claim
      /\ q.done = p.done /\ q.content = p.content /\ q.claimTyped = p.claimTyped
      /\ q.detailsLoading = p.detailsLoading /\ q.fileLoading = p.fileLoading
      /\ q.typed \in {p.typed, None}
      /\ EditorVisible(p) => q.modified = None /\ q.loading = TRUE
  BY <1>0, Contents
<1>2. ~EditorVisible(p) => q = p
  BY DEF FetchContent
<1> HIDE DEF q
<1>3. EditorVisible(q) <=> EditorVisible(p)
  BY <1>1 DEF EditorVisible
<1>4. Selection(q)
  BY <1>1 DEF Selection
<1>5. EditorOwn(q)
  BY <1>1, <1>3 DEF EditorOwn
<1>6. RemarkOwn(p, over) => RemarkOwn(q, over)
  BY <1>1 DEF RemarkOwn
<1>7. ASSUME ContentAsked(p) \subseteq fs PROVE ContentAwaited(q, fs)
  BY <1>1, <1>3, <1>7, Asked DEF ContentAsked, ContentAwaited
<1>8. DetailsAwaited(p, fs) => DetailsAwaited(q, fs)
  BY <1>1 DEF DetailsAwaited
<1>9. FileAwaited(p, fs) => FileAwaited(q, fs)
  BY <1>1 DEF FileAwaited
<1> QED
  BY <1>4, <1>5, <1>6, <1>7, <1>8, <1>9 DEF q

LEMMA SelectOwn ==
  ASSUME NEW p, Selection(p), NEW b \in Batches, NEW fs, NEW over, ConsoleAssumption
  PROVE  LET q == Select(p, b) IN
         /\ Selection(q) /\ EditorOwn(q) /\ ContentAwaited(q, fs) /\ q.claim = b
         /\ RemarkOwn(p, over) => RemarkOwn(q, over)
         /\ DetailsAwaited(p, fs) /\ DetailsAsked(p, b) \subseteq fs => DetailsAwaited(q, fs)
         /\ FileAwaited(p, fs) => FileAwaited(q, fs)
<1> DEFINE e == IF p.claim = b THEN p ELSE FetchDetails(p)
           q == [e EXCEPT !.doc = None, !.claim = b, !.typed = IF p.claim = b THEN @ ELSE None]
<1>0. DOMAIN p = PageFields /\ b # None /\ (p.claim = b => p.typed = None)
  BY DEF Selection, ConsoleAssumption
<1>1. /\ DOMAIN e = PageFields /\ e.grid = p.grid /\ e.fileLoading = p.fileLoading
      /\ e.typed = p.typed
      /\ p.claim = b => e = p
      /\ p.claim # b => e.claimTyped = None
  <2>1. CASE p.claim = b
    BY <1>0, <2>1
  <2>2. CASE p.claim # b
    <3>1. e = FetchDetails(p)
      BY <2>2
    <3> QED
      BY <1>0, <2>2, <3>1, Details
  <2> QED
    BY <2>1, <2>2
<1> HIDE DEF e
<1>2. /\ DOMAIN q = PageFields /\ q.grid = e.grid /\ q.fileLoading = e.fileLoading
      /\ q.doc = None /\ q.claim = b /\ q.claimTyped = e.claimTyped
      /\ q.detailsLoading = e.detailsLoading
  BY <1>1, Zenon DEF PageFields
<1>3. q.typed = IF p.claim = b THEN e.typed ELSE None
  BY <1>1, Zenon DEF PageFields
<1>4. Select(p, b) = q
  BY DEF Select, e
<1> HIDE DEF q
<1>5. Selection(q) /\ EditorOwn(q) /\ ContentAwaited(q, fs)
  BY <1>0, <1>1, <1>2, <1>3 DEF Selection, EditorOwn, ContentAwaited, EditorVisible
<1>6. RemarkOwn(p, over) => RemarkOwn(q, over)
  BY <1>0, <1>1, <1>2 DEF RemarkOwn
<1>7. ASSUME DetailsAwaited(p, fs), DetailsAsked(p, b) \subseteq fs
      PROVE  DetailsAwaited(q, fs)
  <2>1. CASE p.claim = b
    BY <1>0, <1>1, <1>2, <1>7, <2>1 DEF DetailsAwaited
  <2>2. CASE p.claim # b
    <3>1. /\ Ask("details", b) \in fs /\ Ask("details", b).kind = "details"
          /\ Ask("details", b).id = b
      BY <1>7, <2>2, Asked DEF DetailsAsked
    <3> QED
      BY <1>2, <3>1 DEF DetailsAwaited
  <2> QED
    BY <2>1, <2>2
<1>8. FileAwaited(p, fs) => FileAwaited(q, fs)
  BY <1>1, <1>2 DEF FileAwaited
<1> QED
  BY <1>2, <1>4, <1>5, <1>6, <1>7, <1>8

LEMMA RefetchOwn ==
  ASSUME NEW p, Selection(p), EditorOwn(p), NEW fs, NEW over, ConsoleAssumption,
         Refetched(p) \subseteq fs
  PROVE  LET q == Refetch(p) IN
         /\ Selection(q) /\ EditorOwn(q)
         /\ RemarkOwn(p, over) => RemarkOwn(q, over)
         /\ ContentAwaited(q, fs) /\ DetailsAwaited(q, fs)
         /\ FileAwaited(p, fs) => FileAwaited(q, fs)
<1> DEFINE q == Refetch(p)
<1>1. CASE p.claim # None
  <2>1. q = FetchDetails(p) /\ DOMAIN p = PageFields
    BY <1>1 DEF Refetch, Selection
  <2>2. /\ DOMAIN q = PageFields /\ q.grid = p.grid /\ q.doc = p.doc /\ q.claim = p.claim
        /\ q.claimTyped = None /\ q.fileLoading = p.fileLoading /\ q.typed = p.typed
    BY <2>1, Details
  <2>3. \E r \in fs : r.kind = "details" /\ r.id = p.claim
    <3> DEFINE r == [Ask("details", p.claim) EXCEPT !.parts = {"again"}]
    <3>1. r.kind = "details" /\ r.id = p.claim
      BY Asked
    <3>2. r \in fs
      BY <1>1 DEF Refetched
    <3> QED
      BY <3>1, <3>2
  <2> HIDE DEF q
  <2> QED
    BY <1>1, <2>2, <2>3 DEF Selection, EditorOwn, EditorVisible, RemarkOwn, ContentAwaited,
                            DetailsAwaited, FileAwaited, q
<1>2. CASE p.claim = None
  <2>1. q = FetchContent(p) /\ ContentAsked(p) \subseteq fs /\ DetailsAwaited(p, fs)
    BY <1>2 DEF Refetch, Refetched, DetailsAwaited
  <2> QED
    BY <2>1, ContentsOwn
<1> QED
  BY <1>1, <1>2

(* What the invariant says of the page and the requests that are left.     *)
PageInv(p, fs, over) ==
  /\ Selection(p) /\ EditorOwn(p)
  /\ \A r \in fs : RequestOwn(r)
  /\ RemarkOwn(p, over) /\ \A r \in fs : RemarkSent(r, over)
  /\ ContentAwaited(p, fs) /\ DetailsAwaited(p, fs) /\ FileAwaited(p, fs)

LEMMA Fresh ==
  ASSUME NEW kind, NEW i, NEW r,
         \/ r = Ask(kind, i)
         \/ \E parts : r = [Ask(kind, i) EXCEPT !.parts = parts]
  PROVE  r.kind = kind /\ r.id = i /\ r.comment = None
BY Asked

(* Further requests are no harm, when they are fresh.                      *)
LEMMA MoreRequests ==
  ASSUME ConsoleInv, NEW more, flying' = flying \union more,
         \A r \in more : RequestOwn(r) /\ RemarkSent(r, overtaken)
  PROVE  /\ \A r \in flying' : RequestOwn(r)
         /\ \A r \in flying' : RemarkSent(r, overtaken)
         /\ ContentAwaited(page, flying') /\ DetailsAwaited(page, flying')
         /\ FileAwaited(page, flying')
BY DEF ConsoleInv, ContentAwaited, DetailsAwaited, FileAwaited

LEMMA DocumentSelected ==
  ASSUME ConsoleAssumption, ConsoleInv, SelectDocument
  PROVE  PageInv(page', flying', overtaken)
<1>. Selection(page) /\ DOMAIN page = PageFields
  BY DEF ConsoleInv, Selection
<1> DEFINE P(d) == [page EXCEPT !.doc = d, !.claim = None, !.typed = None,
                                !.done = d \in page.grid[ClaimOf[d]]]
<1>1. PICK d \in Documents \ {page.doc} :
        /\ page' = FetchContent(FetchFile(P(d)))
        /\ flying' = flying \union ContentAsked(P(d)) \union FileAsked(P(d))
  BY DEF SelectDocument
<1> DEFINE p == P(d)
           f == FetchFile(p)
<1>2. /\ DOMAIN p = PageFields /\ p.doc = d /\ p.claim = None /\ p.typed = None
      /\ p.grid = page.grid /\ p.fileLoading = page.fileLoading
  BY Zenon DEF PageFields
<1> HIDE DEF P, p
<1>3. /\ DOMAIN f = PageFields /\ f.grid = p.grid /\ f.doc = p.doc /\ f.claim = p.claim
      /\ f.done = p.done /\ f.typed = p.typed
      /\ f.fileLoading => p.fileLoading \/ p.doc \notin p.files
  BY <1>2, Files
<1> HIDE DEF f
<1>4. Selection(f) /\ RemarkOwn(f, overtaken) /\ DetailsAwaited(f, flying')
  BY <1>2, <1>3 DEF Selection, RemarkOwn, DetailsAwaited
<1>5. ContentAsked(f) = ContentAsked(p)
  BY <1>2, <1>3 DEF ContentAsked, EditorVisible
<1>6. FileAwaited(f, flying')
  <2>1. CASE p.doc \in p.files
    BY <1>1, <1>2, <1>3, <2>1 DEF FileAwaited, ConsoleInv, p
  <2>2. CASE p.doc \notin p.files
    <3>1. Ask("file", p.doc) \in flying'
      BY <1>1, <2>2 DEF FileAsked, p
    <3> QED
      BY <3>1, Asked DEF FileAwaited
  <2> QED
    BY <2>1, <2>2
<1>7. ContentAsked(f) \subseteq flying' /\ page' = FetchContent(f)
  BY <1>1, <1>5 DEF p, f
<1>8. Selection(page') /\ EditorOwn(page') /\ RemarkOwn(page', overtaken) /\ ContentAwaited(page', flying')
      /\ DetailsAwaited(page', flying') /\ FileAwaited(page', flying')
  BY <1>4, <1>6, <1>7, ContentsOwn
<1>9. \A r \in ContentAsked(p) \union FileAsked(p) : RequestOwn(r) /\ RemarkSent(r, overtaken)
  BY <1>2, Asked DEF ContentAsked, FileAsked, RequestOwn, RemarkSent
<1>10. /\ \A r \in flying' : RequestOwn(r)
       /\ \A r \in flying' : RemarkSent(r, overtaken)
  <2>1. flying' = flying \union (ContentAsked(p) \union FileAsked(p))
    BY <1>1 DEF p
  <2> QED
    BY <1>9, <2>1, MoreRequests
<1> QED
  BY <1>8, <1>10 DEF PageInv

LEMMA ClaimSelected ==
  ASSUME ConsoleAssumption, ConsoleInv, SelectClaim
  PROVE  PageInv(page', flying', overtaken)
<1>. Selection(page) /\ DOMAIN page = PageFields
  BY DEF ConsoleInv, Selection
<1>1. PICK b \in DOMAIN page.grid :
        page' = Select(page, b) /\ flying' = flying \union DetailsAsked(page, b)
  BY DEF SelectClaim
<1>2. b \in Batches
  BY DEF Selection
<1>3. \A r \in DetailsAsked(page, b) : RequestOwn(r) /\ RemarkSent(r, overtaken)
  BY Asked DEF DetailsAsked, RequestOwn, RemarkSent
<1>4. /\ \A r \in flying' : RequestOwn(r)
      /\ \A r \in flying' : RemarkSent(r, overtaken)
      /\ DetailsAwaited(page, flying') /\ FileAwaited(page, flying')
  BY <1>1, <1>3, MoreRequests
<1>5. DetailsAsked(page, b) \subseteq flying'
  BY <1>1
<1> QED
  BY <1>1, <1>2, <1>4, <1>5, SelectOwn DEF PageInv, ConsoleInv

(* What the user does to the selection itself.                             *)
LEMMA SelectionChanged ==
  ASSUME ConsoleAssumption, ConsoleInv, Edit \/ Type \/ Save \/ TypeOnClaim
  PROVE  PageInv(page', flying', overtaken)
<1>. Selection(page) /\ DOMAIN page = PageFields
  BY DEF ConsoleInv, Selection
<1>1. CASE Edit
  <2>1. /\ page' = [page EXCEPT !.modified = page.content] /\ flying' = flying
        /\ EditorVisible(page) /\ ~page.loading /\ page.content # None
    BY <1>1 DEF Edit
  <2> QED
    BY <2>1 DEF PageInv, ConsoleInv, Selection, EditorOwn, EditorVisible, RemarkOwn,
                ContentAwaited, DetailsAwaited, FileAwaited, PageFields
<1>2. CASE Type
  <2>1. page' = [page EXCEPT !.typed = page.doc] /\ flying' = flying
    BY <1>2 DEF Type
  <2> QED
    BY <2>1 DEF PageInv, ConsoleInv, Selection, EditorOwn, EditorVisible, RemarkOwn,
                ContentAwaited, DetailsAwaited, FileAwaited, PageFields
<1>3. CASE TypeOnClaim
  <2>1. page' = [page EXCEPT !.claimTyped = page.claim] /\ flying' = flying
    BY <1>3 DEF TypeOnClaim
  <2> QED
    BY <2>1 DEF PageInv, ConsoleInv, Selection, EditorOwn, EditorVisible, RemarkOwn,
                ContentAwaited, DetailsAwaited, FileAwaited, PageFields
<1>4. CASE Save
  <2> DEFINE r == SaveRequest(page)
             p == [page EXCEPT !.modified = None, !.comments = page.typed]
  <2>1. flying' = flying \union {r} /\ page' = p /\ EditorVisible(page)
    BY <1>4 DEF Save, CanSave
  <2>2. /\ r.kind = "save" /\ r.id = page.doc /\ r.result = page.modified
        /\ r.comment = page.typed
        /\ "result" \in r.parts => page.modified # None
    <3> DEFINE parts == (IF page.modified # None THEN {"result"} ELSE {})
                 \union (IF page.typed # None \/ page.comments # None THEN {"comment"} ELSE {})
               a == Ask("save", page.doc)
    <3>1. "result" \in parts => page.modified # None
      OBVIOUS
    <3> HIDE DEF parts
    <3>2. r = [a EXCEPT !.result = page.modified, !.comment = page.typed, !.parts = parts]
      BY DEF SaveRequest, parts
    <3>3. DOMAIN a = {"kind", "id", "result", "comment", "parts", "no"} /\ a.kind = "save"
          /\ a.id = page.doc
      BY Asked
    <3> HIDE DEF a, r
    <3>4. /\ r.kind = "save" /\ r.id = page.doc /\ r.result = page.modified
          /\ r.comment = page.typed /\ r.parts = parts
      BY <3>2, <3>3, Zenon
    <3> QED
      BY <3>1, <3>4
  <2>3. p.modified = None /\ DOMAIN p = PageFields /\ p.doc = page.doc /\ p.claim = page.claim
        /\ p.done = page.done /\ p.typed = page.typed /\ p.grid = page.grid
        /\ p.content = page.content /\ p.loading = page.loading
        /\ p.claimTyped = page.claimTyped /\ p.detailsLoading = page.detailsLoading
        /\ p.fileLoading = page.fileLoading
    BY Zenon DEF PageFields
  <2> HIDE DEF r, p
  <2>4. RequestOwn(r) /\ RemarkSent(r, overtaken)
    BY <2>1, <2>2 DEF RequestOwn, RemarkSent, ConsoleInv, EditorOwn, EditorVisible, Selection
  <2>5. /\ \A t \in flying' : RequestOwn(t)
        /\ \A t \in flying' : RemarkSent(t, overtaken)
        /\ ContentAwaited(page, flying') /\ DetailsAwaited(page, flying')
        /\ FileAwaited(page, flying')
    BY <2>1, <2>4 DEF ConsoleInv, ContentAwaited, DetailsAwaited, FileAwaited
  <2> QED
    BY <2>1, <2>3, <2>5
       DEF PageInv, ConsoleInv, Selection, EditorOwn, EditorVisible, RemarkOwn,
           ContentAwaited, DetailsAwaited, FileAwaited
<1> QED
  BY <1>1, <1>2, <1>3, <1>4

LEMMA RequestSent ==
  ASSUME ConsoleAssumption, ConsoleInv, SaveClaimComment \/ Refresh \/ DeleteClaim
  PROVE  PageInv(page', flying', overtaken)
<1>. Selection(page) /\ DOMAIN page = PageFields
  BY DEF ConsoleInv, Selection
<1>1. CASE Refresh
  <2>1. flying' = flying \union {GridRequest(TRUE)} /\ page' = page
    BY <1>1 DEF Refresh
  <2>2. RequestOwn(GridRequest(TRUE)) /\ RemarkSent(GridRequest(TRUE), overtaken)
    BY Fresh DEF GridRequest, RequestOwn, RemarkSent
  <2>3. \A t \in flying' : RequestOwn(t)
    BY <2>1, <2>2 DEF ConsoleInv
  <2>4. \A t \in flying' : RemarkSent(t, overtaken)
    BY <2>1, <2>2 DEF ConsoleInv
  <2>5. ContentAwaited(page, flying') /\ DetailsAwaited(page, flying')
        /\ FileAwaited(page, flying')
    BY <2>1 DEF ConsoleInv, ContentAwaited, DetailsAwaited, FileAwaited
  <2> QED
    BY <2>1, <2>3, <2>4, <2>5 DEF PageInv, ConsoleInv
<1>2. CASE DeleteClaim
  <2>1. PICK b : /\ flying' = flying \union {Ask("delete", b)}
                 /\ page' = [page EXCEPT !.deleting = @ \union {b}]
    BY <1>2 DEF DeleteClaim
  <2>2. RequestOwn(Ask("delete", b)) /\ RemarkSent(Ask("delete", b), overtaken)
    BY Asked DEF RequestOwn, RemarkSent
  <2> QED
    BY <2>1, <2>2, MoreRequests
       DEF PageInv, ConsoleInv, Selection, EditorOwn, EditorVisible, RemarkOwn,
           ContentAwaited, DetailsAwaited, FileAwaited, PageFields
<1>3. CASE SaveClaimComment
  <2> DEFINE r == RemarkRequest(page)
  <2>1. flying' = flying \union {r} /\ page' = page /\ page.claim # None
    BY <1>3 DEF SaveClaimComment, CanSaveClaim
  <2>2. r.kind = "remark" /\ r.id = page.claim /\ r.comment = page.claimTyped
    BY Asked DEF RemarkRequest
  <2> HIDE DEF r
  <2>3. RequestOwn(r) /\ (RemarkSent(r, overtaken))
    BY <2>1, <2>2 DEF RequestOwn, RemarkSent, ConsoleInv, RemarkOwn
  <2> QED
    BY <2>1, <2>3 DEF PageInv, ConsoleInv, ContentAwaited, DetailsAwaited, FileAwaited
<1> QED
  BY <1>1, <1>2, <1>3

LEMMA UserSteps ==
  ASSUME ConsoleAssumption, ConsoleInv,
         SelectDocument \/ SelectClaim \/ Edit \/ Type \/ Save \/ TypeOnClaim
           \/ SaveClaimComment \/ Refresh \/ DeleteClaim
  PROVE  ConsoleInv'
<1>1. UNCHANGED <<record, remark, claims, overtaken>>
  BY DEF SelectDocument, SelectClaim, Edit, Type, Save, TypeOnClaim, SaveClaimComment,
         Refresh, DeleteClaim, Act
<1>2. PageInv(page', flying', overtaken)
  BY DocumentSelected, ClaimSelected, SelectionChanged, RequestSent
<1>3. RecordOwn' /\ RemarksOwn(overtaken)'
  BY <1>1 DEF ConsoleInv, RecordOwn, RemarksOwn
<1> QED
  BY <1>1, <1>2, <1>3 DEF PageInv, ConsoleInv

-------------------------------------------------------------------------------
(* An answer that leaves the page alone, and is followed by requests that  *)
(* are fresh.                                                              *)
LEMMA RequestAnswered ==
  ASSUME ConsoleInv, NEW r \in flying, NEW more, Received(r, more),
         \A t \in more : RequestOwn(t) /\ RemarkSent(t, overtaken)
  PROVE  /\ \A t \in flying' : RequestOwn(t)
         /\ \A t \in flying' : RemarkSent(t, overtaken)
         /\ (EditorVisible(page) => r.kind # "content" \/ r.id # page.doc) =>
              ContentAwaited(page, flying')
         /\ r.kind # "details" => DetailsAwaited(page, flying')
         /\ r.kind # "file" => FileAwaited(page, flying')
<1>1. \A t \in flying' : t \in flying \/ t \in more
  BY DEF Received
<1>2. \A t \in flying : t # r => t \in flying'
  BY DEF Received
<1>3. \A t \in flying' : RequestOwn(t)
  BY <1>1 DEF ConsoleInv
<1>4. \A t \in flying' : RemarkSent(t, overtaken)
  BY <1>1 DEF ConsoleInv
<1>5. (EditorVisible(page) => r.kind # "content" \/ r.id # page.doc) =>
              ContentAwaited(page, flying')
  BY <1>2 DEF ConsoleInv, ContentAwaited
<1>6. r.kind # "details" => DetailsAwaited(page, flying')
  BY <1>2 DEF ConsoleInv, DetailsAwaited
<1>7. r.kind # "file" => FileAwaited(page, flying')
  BY <1>2 DEF ConsoleInv, FileAwaited
<1> QED
  BY <1>3, <1>4, <1>5, <1>6, <1>7

(* Whose comments are excused grows.                                       *)
LEMMA MoreOvertaken ==
  ASSUME NEW over, NEW more, over \subseteq more
  PROVE  /\ \A p : RemarkOwn(p, over) => RemarkOwn(p, more)
         /\ \A r : RemarkSent(r, over) => RemarkSent(r, more)
         /\ RemarksOwn(over) => RemarksOwn(more)
BY DEF RemarkOwn, RemarkSent, RemarksOwn

LEMMA OvertakenGrows ==
  ASSUME NEW b
  PROVE  /\ overtaken \subseteq Overtaken(b)
         /\ page.claim # None => page.claim = b \/ page.claim \in Overtaken(b)
BY DEF Overtaken

LEMMA ContentAnswered ==
  ASSUME ConsoleAssumption, ConsoleInv, NEW r \in flying, ContentArrives(r) \/ ContentFails(r)
  PROVE  PageInv(page', flying', overtaken')
<1>. Selection(page) /\ DOMAIN page = PageFields
  BY DEF ConsoleInv, Selection
<1>1. r.kind = "content" /\ Received(r, {}) /\ overtaken' = overtaken
  BY DEF ContentArrives, ContentFails
<1>2. /\ \A t \in flying' : RequestOwn(t)
      /\ \A t \in flying' : RemarkSent(t, overtaken)
      /\ (EditorVisible(page) => r.id # page.doc) => ContentAwaited(page, flying')
      /\ DetailsAwaited(page, flying') /\ FileAwaited(page, flying')
  BY <1>1, RequestAnswered
(* The page of an answer that is taken.                                    *)
<1>3. ASSUME NEW p, DOMAIN p = PageFields, p.grid = page.grid, p.doc = page.doc,
             p.claim = page.claim, p.done = page.done, p.loading = FALSE,
             p.modified = page.modified,
             p.claimTyped = page.claimTyped, p.detailsLoading = page.detailsLoading,
             p.fileLoading = page.fileLoading, p.typed \in {page.typed, None, p.doc},
             p.content \in {page.doc, None}
      PROVE  PageInv(p, flying', overtaken')
  BY <1>1, <1>2, <1>3
     DEF PageInv, ConsoleInv, Selection, EditorOwn, EditorVisible, RemarkOwn, ContentAwaited,
         DetailsAwaited, FileAwaited
<1>4. CASE ContentFails(r)
  <2> DEFINE p == [page EXCEPT !.content = None, !.loading = FALSE, !.comments = None,
                               !.typed = IF page.comments # None THEN None ELSE @]
  <2>1. /\ DOMAIN p = PageFields /\ p.grid = page.grid /\ p.doc = page.doc
        /\ p.claim = page.claim /\ p.done = page.done /\ p.loading = FALSE
        /\ p.modified = page.modified
        /\ p.claimTyped = page.claimTyped /\ p.detailsLoading = page.detailsLoading
        /\ p.fileLoading = page.fileLoading /\ p.content = None
    BY Zenon DEF PageFields
  <2>2. p.typed \in {page.typed, None}
    BY Zenon DEF PageFields
  <2>3. page' = p
    BY <1>4 DEF ContentFails
  <2> HIDE DEF p
  <2> QED
    BY <1>3, <2>1, <2>2, <2>3
<1>5. CASE ContentArrives(r) /\ page.doc # r.id
  <2>1. page' = page
    BY <1>5 DEF ContentArrives
  <2> QED
    BY <1>1, <1>2, <1>5, <2>1 DEF PageInv, ConsoleInv
<1>6. CASE ContentArrives(r) /\ page.doc = r.id
  <2> DEFINE text == Comment(r.id)
             p == [page EXCEPT !.content = Content(r.id), !.loading = FALSE,
                               !.comments = text,
                               !.typed = IF text # page.comments THEN text ELSE @]
  <2>1. page' = p
    BY <1>6 DEF ContentArrives
  <2>2. Content(r.id) = page.doc /\ text \in {page.doc, None}
    BY <1>1, <1>6 DEF Content, Comment, ConsoleInv, RecordOwn, RequestOwn
  <2> HIDE DEF text
  <2>3. /\ DOMAIN p = PageFields /\ p.grid = page.grid /\ p.doc = page.doc
        /\ p.claim = page.claim /\ p.done = page.done /\ p.loading = FALSE
        /\ p.modified = page.modified
        /\ p.claimTyped = page.claimTyped /\ p.detailsLoading = page.detailsLoading
        /\ p.fileLoading = page.fileLoading /\ p.content = Content(r.id)
    BY Zenon DEF PageFields
  <2>4. p.typed \in {page.typed, text}
    BY Zenon DEF PageFields
  <2> HIDE DEF p
  <2> QED
    BY <1>3, <2>1, <2>2, <2>3, <2>4
<1> QED
  BY <1>4, <1>5, <1>6

LEMMA DetailsAnswered ==
  ASSUME ConsoleAssumption, ConsoleInv, NEW r \in flying, DetailsArrive(r) \/ DetailsFail(r)
  PROVE  PageInv(page', flying', overtaken')
<1>. Selection(page) /\ DOMAIN page = PageFields
  BY DEF ConsoleInv, Selection
<1>1. r.kind = "details" /\ Received(r, {})
  BY DEF DetailsArrive, DetailsFail
<1>2. /\ \A t \in flying' : RequestOwn(t)
      /\ \A t \in flying' : RemarkSent(t, overtaken)
      /\ ContentAwaited(page, flying') /\ FileAwaited(page, flying')
  BY <1>1, RequestAnswered
<1>3. ASSUME NEW p, DOMAIN p = PageFields, p.grid = page.grid, p.doc = page.doc,
             p.claim = page.claim, p.done = page.done, p.loading = page.loading,
             p.content = page.content, p.modified = page.modified, p.typed = page.typed,
             p.detailsLoading = FALSE, p.fileLoading = page.fileLoading,
             overtaken \subseteq overtaken', RemarkOwn(p, overtaken')
      PROVE  PageInv(p, flying', overtaken')
  <2>1. \A t \in flying' : RemarkSent(t, overtaken')
    BY <1>2, <1>3, MoreOvertaken
  <2> QED
    BY <1>1, <1>2, <1>3, <2>1
       DEF PageInv, ConsoleInv, Selection, EditorOwn, EditorVisible, ContentAwaited,
           DetailsAwaited, FileAwaited
<1>4. CASE DetailsFail(r)
  <2> DEFINE p == [page EXCEPT !.details = None, !.detailsLoading = FALSE,
                               !.savedComment = None]
  <2>1. /\ DOMAIN p = PageFields /\ p.grid = page.grid /\ p.doc = page.doc
        /\ p.claim = page.claim /\ p.done = page.done /\ p.loading = page.loading
        /\ p.content = page.content /\ p.modified = page.modified /\ p.typed = page.typed
        /\ p.detailsLoading = FALSE /\ p.fileLoading = page.fileLoading
        /\ p.claimTyped = page.claimTyped
    BY Zenon DEF PageFields
  <2>2. page' = p /\ overtaken' = overtaken
    BY <1>4 DEF DetailsFail
  <2> HIDE DEF p
  <2>3. RemarkOwn(p, overtaken')
    BY <2>1, <2>2 DEF RemarkOwn, ConsoleInv
  <2> QED
    BY <1>3, <2>1, <2>2, <2>3
<1>5. CASE DetailsArrive(r)
  <2> DEFINE p == [page EXCEPT !.details = r.id, !.detailsLoading = FALSE,
                               !.savedComment = Remark(r.id), !.claimTyped = Remark(r.id)]
  <2>1. /\ DOMAIN p = PageFields /\ p.grid = page.grid /\ p.doc = page.doc
        /\ p.claim = page.claim /\ p.done = page.done /\ p.loading = page.loading
        /\ p.content = page.content /\ p.modified = page.modified /\ p.typed = page.typed
        /\ p.detailsLoading = FALSE /\ p.fileLoading = page.fileLoading
        /\ p.claimTyped = Remark(r.id)
    BY Zenon DEF PageFields
  <2>2. page' = p /\ overtaken' = Overtaken(r.id) /\ r.id \in claims
    BY <1>5 DEF DetailsArrive
  <2> HIDE DEF p
  <2>3. overtaken \subseteq overtaken'
        /\ (page.claim # None => page.claim = r.id \/ page.claim \in overtaken')
    BY <2>2, OvertakenGrows
  <2>4. r.id \in Batches /\ (r.id \in overtaken \/ Remark(r.id) \in {r.id, None})
    BY <2>2 DEF Remark, ConsoleInv, RecordOwn, RemarksOwn
  <2>5. RemarkOwn(p, overtaken')
    BY <2>1, <2>3, <2>4 DEF RemarkOwn
  <2> QED
    BY <1>3, <2>1, <2>2, <2>3, <2>5
<1> QED
  BY <1>4, <1>5

LEMMA FileAnswered ==
  ASSUME ConsoleAssumption, ConsoleInv, NEW r \in flying, FileArrives(r)
  PROVE  PageInv(page', flying', overtaken')
<1>. Selection(page) /\ DOMAIN page = PageFields
  BY DEF ConsoleInv, Selection
<1>1. r.kind = "file" /\ Received(r, {}) /\ overtaken' = overtaken
      /\ page' \in {FileFulfilled(page, r.id), FileRejected(page)}
  BY DEF FileArrives
<1>2. /\ \A t \in flying' : RequestOwn(t)
      /\ \A t \in flying' : RemarkSent(t, overtaken)
      /\ ContentAwaited(page, flying') /\ DetailsAwaited(page, flying')
  BY <1>1, RequestAnswered
<1>3. ASSUME NEW p \in {FileFulfilled(page, r.id), FileRejected(page)}
      PROVE  /\ DOMAIN p = PageFields /\ p.grid = page.grid /\ p.doc = page.doc
             /\ p.claim = page.claim /\ p.done = page.done /\ p.loading = page.loading
             /\ p.content = page.content /\ p.modified = page.modified
             /\ p.typed = page.typed /\ p.claimTyped = page.claimTyped
             /\ p.detailsLoading = page.detailsLoading /\ p.fileLoading = FALSE
  BY Zenon DEF FileFulfilled, FileRejected, PageFields
<1>4. PICK p \in {FileFulfilled(page, r.id), FileRejected(page)} : page' = p
  BY <1>1
<1>5. /\ DOMAIN page' = PageFields /\ page'.grid = page.grid /\ page'.doc = page.doc
      /\ page'.claim = page.claim /\ page'.done = page.done /\ page'.loading = page.loading
      /\ page'.content = page.content /\ page'.modified = page.modified
      /\ page'.typed = page.typed /\ page'.claimTyped = page.claimTyped
      /\ page'.detailsLoading = page.detailsLoading /\ page'.fileLoading = FALSE
  BY <1>3, <1>4
<1>6. Selection(page') /\ EditorOwn(page') /\ overtaken' = overtaken
      /\ (RemarkOwn(page, overtaken) => RemarkOwn(page', overtaken))
  BY <1>1, <1>5 DEF ConsoleInv, Selection, EditorOwn, EditorVisible, RemarkOwn
<1>7. /\ ContentAwaited(page', flying') /\ DetailsAwaited(page', flying')
      /\ FileAwaited(page', flying')
  BY <1>2, <1>5 DEF EditorVisible, ContentAwaited, DetailsAwaited, FileAwaited
<1> QED
  BY <1>2, <1>6, <1>7 DEF PageInv, ConsoleInv

(* The server stores what the request carries under the id it carries.     *)
LEMMA SaveStored ==
  ASSUME ConsoleAssumption, ConsoleInv, NEW r \in flying, Saved(r)
  PROVE  ConsoleInv'
<1>1. PICK ok \in SUBSET r.parts :
        /\ record' = [record EXCEPT ![r.id].result = UpdateResult(r, ok),
                                    ![r.id].comment = UpdateComment(r, ok)]
        /\ Received(r, IF First(r.parts) \in ok THEN {GridRequest(TRUE)} ELSE {})
  BY DEF Saved
<1>2. r.kind = "save" /\ UNCHANGED <<page, remark, claims, overtaken>>
  BY DEF Saved
<1>3. r.id \in Documents /\ UpdateResult(r, ok) = r.id /\ UpdateComment(r, ok) \in {r.id, None}
  BY <1>2 DEF ConsoleInv, RequestOwn, RecordOwn, UpdateResult, UpdateComment
<1>4. RecordOwn'
  <2> DEFINE x == UpdateResult(r, ok)
             y == UpdateComment(r, ok)
             one == [record EXCEPT ![r.id].result = x]
  <2>1. DOMAIN record = Documents
        /\ \A d \in Documents : DOMAIN record[d] = {"result", "comment", "done"}
    BY DEF ConsoleInv, RecordOwn
  <2>2. record' = [one EXCEPT ![r.id].comment = y]
    BY <1>1, Zenon
  <2>3. x = r.id /\ y \in {r.id, None}
    BY <1>3
  <2> HIDE DEF x, y
  <2>4. /\ DOMAIN one = Documents
        /\ \A d \in Documents \ {r.id} : one[d] = record[d]
        /\ DOMAIN one[r.id] = {"result", "comment", "done"}
        /\ one[r.id].result = x
    BY <1>3, <2>1
  <2> HIDE DEF one
  <2>5. /\ DOMAIN record' = Documents
        /\ \A d \in Documents \ {r.id} : record'[d] = one[d]
        /\ DOMAIN record'[r.id] = {"result", "comment", "done"}
        /\ record'[r.id].result = one[r.id].result /\ record'[r.id].comment = y
    BY <1>3, <2>2, <2>4
  <2> QED
    BY <1>2, <1>3, <2>3, <2>4, <2>5 DEF ConsoleInv, RecordOwn
<1>5. \A t \in {GridRequest(TRUE)} : RequestOwn(t) /\ RemarkSent(t, overtaken)
  BY Fresh DEF GridRequest, RequestOwn, RemarkSent
<1>6. /\ \A t \in flying' : RequestOwn(t)
      /\ \A t \in flying' : RemarkSent(t, overtaken)
      /\ ContentAwaited(page, flying') /\ DetailsAwaited(page, flying')
      /\ FileAwaited(page, flying')
  <2> DEFINE more == IF First(r.parts) \in ok THEN {GridRequest(TRUE)} ELSE {}
  <2>1. Received(r, more) /\ \A t \in more : RequestOwn(t) /\ RemarkSent(t, overtaken)
    BY <1>1, <1>5
  <2> HIDE DEF more
  <2> QED
    BY <1>2, <2>1, RequestAnswered
<1> QED
  BY <1>2, <1>4, <1>6 DEF ConsoleInv, RemarksOwn

(* A saved comment is the claim's own, or the claim is excused, and so is  *)
(* the claim whose view the answer comes to.                               *)
LEMMA RemarkStored ==
  ASSUME ConsoleAssumption, ConsoleInv, NEW r \in flying, ClaimCommentSaved(r)
  PROVE  ConsoleInv'
<1>. Selection(page) /\ DOMAIN page = PageFields
  BY DEF ConsoleInv, Selection
<1>1. /\ r.kind = "remark" /\ r.id \in Batches /\ Received(r, {})
      /\ UNCHANGED <<record, claims>>
      /\ remark' = [remark EXCEPT ![r.id] = r.comment]
      /\ page' \in CommentShown(page, r.comment)
      /\ overtaken' = IF page.details = None THEN overtaken ELSE Overtaken(r.id)
  BY DEF ClaimCommentSaved, ConsoleInv, RecordOwn
<1>2. /\ \A t \in flying' : RequestOwn(t)
      /\ \A t \in flying' : RemarkSent(t, overtaken)
      /\ ContentAwaited(page, flying') /\ DetailsAwaited(page, flying')
      /\ FileAwaited(page, flying')
  BY <1>1, RequestAnswered
<1>3. overtaken \subseteq overtaken'
      /\ (page.details # None /\ page.claim # None
            => page.claim = r.id \/ page.claim \in overtaken')
  BY <1>1, OvertakenGrows
<1>4. r.id \in overtaken \/ r.comment \in {r.id, None}
  BY <1>1 DEF ConsoleInv, RemarkSent
<1>5. RecordOwn' /\ RemarksOwn(overtaken)'
  <2>1. DOMAIN remark = Batches /\ \A b \in Batches : b \in overtaken' \/ remark[b] \in {b, None}
    BY <1>3 DEF ConsoleInv, RecordOwn, RemarksOwn
  <2> QED
    BY <1>1, <1>3, <1>4, <2>1 DEF ConsoleInv, RecordOwn, RemarksOwn
<1>6. \A t \in flying' : RemarkSent(t, overtaken')
  BY <1>2, <1>3, MoreOvertaken
<1>7. RemarkOwn(page, overtaken')
  BY <1>3, MoreOvertaken DEF ConsoleInv
<1>8. CASE page' = page
  BY <1>1, <1>2, <1>5, <1>6, <1>7, <1>8 DEF ConsoleInv, RemarksOwn
<1>9. CASE page' # page
  <2> DEFINE q == [page EXCEPT !.savedComment = r.comment, !.claimTyped = r.comment]
  <2>1. page' = q /\ page.details # None
    BY <1>1, <1>9 DEF CommentShown
  <2>2. /\ DOMAIN q = PageFields /\ q.grid = page.grid /\ q.doc = page.doc
        /\ q.claim = page.claim /\ q.done = page.done /\ q.loading = page.loading
        /\ q.content = page.content /\ q.modified = page.modified /\ q.typed = page.typed
        /\ q.detailsLoading = page.detailsLoading /\ q.fileLoading = page.fileLoading
        /\ q.claimTyped = r.comment
    BY Zenon DEF PageFields
  <2> HIDE DEF q
  <2>3. RemarkOwn(page', overtaken')
    BY <1>3, <1>4, <2>1, <2>2 DEF RemarkOwn
  <2>4. Selection(page') /\ EditorOwn(page')
    BY <2>1, <2>2 DEF ConsoleInv, Selection, EditorOwn, EditorVisible
  <2>5. /\ ContentAwaited(page', flying') /\ DetailsAwaited(page', flying')
        /\ FileAwaited(page', flying')
    BY <1>2, <2>1, <2>2 DEF ContentAwaited, DetailsAwaited, FileAwaited, EditorVisible
  <2> QED
    BY <1>2, <1>5, <1>6, <2>3, <2>4, <2>5 DEF ConsoleInv, RemarksOwn
<1> QED
  BY <1>8, <1>9

LEMMA RemarkFailed ==
  ASSUME ConsoleAssumption, ConsoleInv, NEW r \in flying, ClaimCommentFails(r)
  PROVE  ConsoleInv'
<1>1. /\ r.kind = "remark" /\ Received(r, {})
      /\ UNCHANGED <<page, record, claims, overtaken>>
      /\ \/ remark' = [remark EXCEPT ![r.id] = r.comment]
         \/ remark' = remark
  BY DEF ClaimCommentFails
<1>2. /\ \A t \in flying' : RequestOwn(t)
      /\ \A t \in flying' : RemarkSent(t, overtaken)
      /\ ContentAwaited(page, flying') /\ DetailsAwaited(page, flying')
      /\ FileAwaited(page, flying')
  BY <1>1, RequestAnswered
<1>3. \A b \in Batches : b \in overtaken \/ remark'[b] \in {b, None}
  BY <1>1 DEF ConsoleInv, RecordOwn, RemarkSent, RemarksOwn
<1> QED
  BY <1>1, <1>2, <1>3 DEF ConsoleInv, RecordOwn, RemarksOwn

LEMMA FirstClaimIsOne ==
  ASSUME claims # {}, claims \subseteq Batches
  PROVE  FirstClaim \in Batches
BY DEF FirstClaim

(* The grid's answer selects the first claim, or nothing.                  *)
LEMMA GridAnswered ==
  ASSUME ConsoleAssumption, ConsoleInv, NEW r \in flying, GridArrives(r) \/ GridFails(r)
  PROVE  PageInv(page', flying', overtaken')
<1>. Selection(page) /\ DOMAIN page = PageFields
  BY DEF ConsoleInv, Selection
<1> DEFINE again == "trigger" \in r.parts
           fallen == GridFails(r)
           none == [page EXCEPT !.grid = Shown, !.doc = None, !.claim = None, !.typed = None]
           grid == [page EXCEPT !.grid = Shown]
           p == IF fallen THEN page ELSE IF claims = {} THEN none ELSE Select(grid, FirstClaim)
           sought == IF fallen \/ claims = {} THEN {} ELSE DetailsAsked(page, FirstClaim)
           more == sought \union (IF again THEN Refetched(p) ELSE {})
<1>1. /\ r.kind = "grid" /\ overtaken' = overtaken /\ claims \subseteq Batches
      /\ page' = IF again THEN Refetch(p) ELSE p
      /\ Received(r, more)
  <2>1. r.kind = "grid" /\ overtaken' = overtaken /\ claims \subseteq Batches
    BY DEF GridArrives, GridFails, ConsoleInv, RecordOwn
  <2>2. CASE GridFails(r)
    <3>1. /\ page' = IF again THEN Refetch(page) ELSE page
          /\ Received(r, IF again THEN Refetched(page) ELSE {})
      BY <2>2 DEF GridFails
    <3>2. p = page /\ sought = {}
      BY <2>2
    <3> HIDE DEF p, sought
    <3> QED
      BY <2>1, <3>1, <3>2
  <2>3. CASE GridArrives(r) /\ ~GridFails(r)
    BY <2>1, <2>3 DEF GridArrives
  <2> QED
    BY <2>2, <2>3
<1>2. DOMAIN Shown = claims
  BY DEF Shown
<1>3. /\ DOMAIN grid = PageFields /\ grid.grid = Shown /\ grid.doc = page.doc
      /\ grid.claim = page.claim /\ grid.typed = page.typed
      /\ grid.claimTyped = page.claimTyped /\ grid.detailsLoading = page.detailsLoading
      /\ grid.fileLoading = page.fileLoading
  BY Zenon DEF PageFields
<1>4. /\ DOMAIN none = PageFields /\ none.grid = Shown /\ none.doc = None
      /\ none.claim = None /\ none.typed = None /\ none.fileLoading = page.fileLoading
  BY Zenon DEF PageFields
<1>5. p = IF fallen THEN page ELSE IF claims = {} THEN none ELSE Select(grid, FirstClaim)
  OBVIOUS
<1>6. sought = IF fallen \/ claims = {} THEN {} ELSE DetailsAsked(page, FirstClaim)
  OBVIOUS
<1>7. more = sought \union (IF again THEN Refetched(p) ELSE {})
  OBVIOUS
<1> HIDE DEF grid, none, p, sought, more, again, fallen
(* The page before it is fetched again, for whatever is in flight.         *)
<1>8. ASSUME NEW fs, sought \subseteq fs,
             DetailsAwaited(page, fs), FileAwaited(page, fs), ContentAwaited(page, fs)
      PROVE  /\ Selection(p) /\ EditorOwn(p)
             /\ RemarkOwn(page, overtaken) => RemarkOwn(p, overtaken)
             /\ ContentAwaited(p, fs) /\ DetailsAwaited(p, fs) /\ FileAwaited(p, fs)
  <2>1. CASE fallen
    BY <1>5, <1>8, <2>1 DEF ConsoleInv
  <2>2. CASE ~fallen /\ claims = {}
    <3>1. p = none
      BY <1>5, <2>2
    <3> QED
      BY <1>1, <1>2, <1>4, <1>8, <3>1
         DEF Selection, EditorOwn, EditorVisible, RemarkOwn, ContentAwaited, DetailsAwaited,
             FileAwaited
  <2>3. CASE ~fallen /\ claims # {}
    <3>1. p = Select(grid, FirstClaim) /\ FirstClaim \in Batches
      BY <1>1, <1>5, <2>3, FirstClaimIsOne
    <3>2. Selection(grid) /\ DetailsAwaited(grid, fs) /\ FileAwaited(grid, fs)
          /\ (RemarkOwn(page, overtaken) => RemarkOwn(grid, overtaken))
      BY <1>1, <1>2, <1>3, <1>8 DEF Selection, DetailsAwaited, FileAwaited, RemarkOwn
    <3>3. DetailsAsked(grid, FirstClaim) \subseteq fs
      BY <1>3, <1>6, <1>8, <2>3 DEF DetailsAsked
    <3> QED
      BY <3>1, <3>2, <3>3, SelectOwn
  <2> QED
    BY <2>1, <2>2, <2>3
<1>9. Selection(p) /\ EditorOwn(p)
  <2> DEFINE fs == flying \union sought
  <2>1. DetailsAwaited(page, fs) /\ FileAwaited(page, fs) /\ ContentAwaited(page, fs)
    BY DEF ConsoleInv, DetailsAwaited, FileAwaited, ContentAwaited
  <2> QED
    BY <1>8, <2>1
<1>10. \A t \in more : RequestOwn(t) /\ RemarkSent(t, overtaken)
  <2>1. \A t \in sought : RequestOwn(t) /\ RemarkSent(t, overtaken)
    BY <1>6, Asked DEF DetailsAsked, RequestOwn, RemarkSent
  <2>2. ASSUME NEW t \in Refetched(p)
        PROVE  RequestOwn(t) /\ RemarkSent(t, overtaken)
    <3>1. CASE p.claim # None
      BY <2>2, <3>1, Fresh DEF Refetched, RequestOwn, RemarkSent
    <3>2. CASE p.claim = None
      <4>1. EditorVisible(p) /\ t = Ask("content", p.doc)
        BY <2>2, <3>2 DEF Refetched, ContentAsked
      <4> QED
        BY <1>9, <4>1, Asked DEF RequestOwn, RemarkSent, EditorVisible, Selection
    <3> QED
      BY <3>1, <3>2
  <2> QED
    BY <1>7, <2>1, <2>2
<1>11. /\ \A t \in flying' : RequestOwn(t)
       /\ \A t \in flying' : RemarkSent(t, overtaken)
       /\ ContentAwaited(page, flying') /\ DetailsAwaited(page, flying')
       /\ FileAwaited(page, flying')
  BY <1>1, <1>10, RequestAnswered
<1>12. more \subseteq flying'
  BY <1>1 DEF Received
<1>13. /\ Selection(p) /\ EditorOwn(p)
       /\ RemarkOwn(page, overtaken) => RemarkOwn(p, overtaken)
       /\ ContentAwaited(p, flying') /\ DetailsAwaited(p, flying') /\ FileAwaited(p, flying')
  BY <1>7, <1>8, <1>11, <1>12
<1>14. RemarkOwn(page, overtaken)
  BY DEF ConsoleInv
<1>15. CASE ~again
  BY <1>1, <1>11, <1>13, <1>14, <1>15 DEF PageInv
<1>16. CASE again
  <2>1. page' = Refetch(p) /\ Refetched(p) \subseteq flying'
    BY <1>1, <1>7, <1>12, <1>16
  <2> QED
    BY <1>1, <1>11, <1>13, <1>14, <2>1, RefetchOwn DEF PageInv
<1> QED
  BY <1>15, <1>16

LEMMA DeletionAnswered ==
  ASSUME ConsoleAssumption, ConsoleInv, NEW r \in flying, Deleted(r)
  PROVE  PageInv(page', flying', overtaken') /\ claims' \subseteq claims
<1>. Selection(page) /\ DOMAIN page = PageFields
  BY DEF ConsoleInv, Selection
<1>1. /\ r.kind = "delete" /\ claims' \subseteq claims /\ overtaken' = overtaken
      /\ page' = [page EXCEPT !.deleting = @ \ {r.id}]
      /\ Received(r, {GridRequest(FALSE)}) \/ Received(r, {})
  BY DEF Deleted
<1>2. \A t \in {GridRequest(FALSE)} : RequestOwn(t) /\ RemarkSent(t, overtaken)
  BY Asked DEF GridRequest, RequestOwn, RemarkSent
<1>3. /\ \A t \in flying' : RequestOwn(t)
      /\ \A t \in flying' : RemarkSent(t, overtaken)
      /\ ContentAwaited(page, flying') /\ DetailsAwaited(page, flying')
      /\ FileAwaited(page, flying')
  <2>1. CASE Received(r, {GridRequest(FALSE)})
    BY <1>1, <1>2, <2>1, RequestAnswered
  <2>2. CASE Received(r, {})
    BY <1>1, <2>2, RequestAnswered
  <2> QED
    BY <1>1, <2>1, <2>2
<1> QED
  BY <1>1, <1>3
     DEF PageInv, ConsoleInv, Selection, EditorOwn, EditorVisible, RemarkOwn,
         ContentAwaited, DetailsAwaited, FileAwaited, PageFields

LEMMA AnswerSteps ==
  ASSUME ConsoleAssumption, ConsoleInv, Answer
  PROVE  ConsoleInv'
<1>1. PICK r \in flying :
        \/ ContentArrives(r) \/ ContentFails(r) \/ DetailsArrive(r) \/ DetailsFail(r)
        \/ FileArrives(r) \/ Saved(r) \/ ClaimCommentSaved(r) \/ ClaimCommentFails(r)
        \/ GridArrives(r) \/ GridFails(r) \/ Deleted(r)
  BY DEF Answer
<1>2. ASSUME PageInv(page', flying', overtaken'), UNCHANGED <<record, remark>>,
             claims' \subseteq claims, overtaken \subseteq overtaken'
      PROVE  ConsoleInv'
  <2>1. RemarksOwn(overtaken')
    BY <1>2, MoreOvertaken DEF ConsoleInv
  <2>2. RecordOwn' /\ RemarksOwn(overtaken)'
    BY <1>2, <2>1 DEF ConsoleInv, RecordOwn, RemarksOwn
  <2> QED
    BY <1>2, <2>2 DEF PageInv, ConsoleInv
<1>3. CASE ContentArrives(r) \/ ContentFails(r)
  BY <1>2, <1>3, ContentAnswered DEF ContentArrives, ContentFails, storedVars
<1>4. CASE DetailsArrive(r) \/ DetailsFail(r)
  <2>1. UNCHANGED storedVars /\ (overtaken' = Overtaken(r.id) \/ overtaken' = overtaken)
    BY <1>4 DEF DetailsArrive, DetailsFail
  <2>2. overtaken \subseteq Overtaken(r.id)
    BY OvertakenGrows
  <2>3. PageInv(page', flying', overtaken')
    BY <1>4, DetailsAnswered
  <2> QED
    BY <1>2, <2>1, <2>2, <2>3 DEF storedVars
<1>5. CASE FileArrives(r)
  BY <1>2, <1>5, FileAnswered DEF FileArrives, storedVars
<1>6. CASE GridArrives(r) \/ GridFails(r)
  BY <1>2, <1>6, GridAnswered DEF GridArrives, GridFails, storedVars
<1>7. CASE Deleted(r)
  BY <1>2, <1>7, DeletionAnswered DEF Deleted
<1> QED
  BY <1>1, <1>3, <1>4, <1>5, <1>6, <1>7, SaveStored, RemarkStored, RemarkFailed

LEMMA ConsoleStart == ConsoleAssumption /\ ConsoleInit => ConsoleInv
<1> SUFFICES ASSUME ConsoleAssumption, ConsoleInit PROVE ConsoleInv
  OBVIOUS
<1>1. /\ DOMAIN Blank = PageFields /\ DOMAIN Blank.grid = {} /\ Blank.doc = None
      /\ Blank.claim = None /\ Blank.typed = None /\ Blank.fileLoading = FALSE
      /\ Blank.detailsLoading = FALSE
  BY DEF Blank, PageFields
<1>2. Selection(page) /\ EditorOwn(page) /\ RemarkOwn(page, overtaken)
  BY <1>1 DEF ConsoleInit, Selection, EditorOwn, EditorVisible, RemarkOwn
<1>3. \A r \in flying : r.kind = "grid"
  BY DEF ConsoleInit, Request
<1>4. (\A r \in flying : RequestOwn(r)) /\ (\A r \in flying : RemarkSent(r, overtaken))
  BY <1>3 DEF RequestOwn, RemarkSent
<1>5. ContentAwaited(page, flying) /\ DetailsAwaited(page, flying) /\ FileAwaited(page, flying)
  BY <1>1 DEF ConsoleInit, ContentAwaited, EditorVisible, DetailsAwaited, FileAwaited
<1>6. RecordOwn /\ RemarksOwn(overtaken)
  BY DEF ConsoleInit, RecordOwn, RemarksOwn
<1> QED
  BY <1>2, <1>4, <1>5, <1>6 DEF ConsoleInv

LEMMA ConsoleStep ==
  ASSUME ConsoleAssumption, ConsoleInv, [ConsoleNext]_consoleVars
  PROVE  ConsoleInv'
<1>1. CASE UNCHANGED consoleVars
  BY <1>1 DEF consoleVars, ConsoleInv, RecordOwn, RemarksOwn
<1>2. CASE Processed
  <2>1. PICK d \in Documents : record' = [record EXCEPT ![d].done = TRUE]
    BY <1>2 DEF Processed
  <2>2. UNCHANGED <<page, flying, remark, claims, overtaken>>
    BY <1>2 DEF Processed
  <2>3. RecordOwn'
    BY <2>1, <2>2 DEF ConsoleInv, RecordOwn
  <2> QED
    BY <2>2, <2>3 DEF ConsoleInv, RemarksOwn
<1> QED
  BY <1>1, <1>2, UserSteps, AnswerSteps DEF ConsoleNext

(* No document ever holds data or a comment of another one, whatever the   *)
(* user does while answers of earlier selections are under way, and in     *)
(* whatever order they come (PanelCenter.tsx and its slice); of the claims *)
(* only those whose view such an answer reached may.                       *)
THEOREM EditsStayHome == ConsoleSpec => []EditsGoHome
<1>1. ConsoleInv => EditsGoHome
  BY DEF ConsoleInv, RecordOwn, RemarksOwn, EditsGoHome
<1> QED
  BY <1>1, ConsoleStart, ConsoleStep, ConsoleAssumption, PTL DEF ConsoleSpec

(* A loader that is shown is ended by a request in flight, for any number  *)
(* of requests and any order of their answers.                             *)
THEOREM NoLoaderForever == ConsoleSpec => []LoaderHasCause
<1>1. ConsoleInv => LoaderHasCause
  BY DEF ConsoleInv, LoaderHasCause, ContentAwaited, DetailsAwaited, FileAwaited
<1> QED
  BY <1>1, ConsoleStart, ConsoleStep, ConsoleAssumption, PTL DEF ConsoleSpec

-------------------------------------------------------------------------------
(* ClaimIntake.  A request that is not waited for has lost its answer, so  *)
(* that in a claim without a lost answer one handler at most is at work,   *)
(* on the file the dialog is at: what it read is still the manifest when   *)
(* it writes it back.  Only a claim that is out of the queue is deleted.   *)
Active == dialog.at \in {"upload", "wait"}
Injective(s) == \A i, j \in 1 .. Len(s) : s[i] = s[j] => i = j
Holds(s, x) == \E i \in 1 .. Len(s) : s[i] = x
InQueue(c) == Holds(queue, c)

DialogFields == {"at", "files", "claim", "next", "count", "error", "fresh"}

IntakeTypes ==
  /\ DOMAIN dialog = DialogFields
  /\ dialog.files \in Seq(Picks) /\ Injective(dialog.files)
  /\ dialog.next \in Nat \ {0} /\ dialog.count \in Nat
  /\ Active => dialog.claim \in Claims
  /\ dialog.at = "wait" => dialog.next <= Len(dialog.files)
  /\ manifests \in [Claims -> Seq(Picks) \union {Nothing}]
  /\ DOMAIN blobs = Claims /\ accepted \in [Claims -> SUBSET Picks]
  /\ queue \in Seq(Claims) /\ finished \subseteq Claims
  /\ \A h \in handlers : h \in [claim : Claims, doc : Picks,
                               at : {"blob", "read", "write", "answer"}, read : Seq(Picks)]

AllStored(c, list) == \A k \in 1 .. Len(list) : list[k].safe \in blobs[c]

StoredInv ==
  /\ \A c \in Claims \ finished :
       /\ accepted[c] # {} \/ (Active /\ dialog.claim = c) \/ (\E h \in handlers : h.claim = c)
            => manifests[c] # Nothing
       /\ manifests[c] # Nothing => AllStored(c, manifests[c])
       /\ accepted[c] # {} => manifests[c] # <<>>
  /\ \A h \in handlers : h.claim \notin finished =>
       /\ h.at # "blob" => h.doc.safe \in blobs[h.claim]
       /\ AllStored(h.claim, h.read)
       /\ h.at = "answer" => manifests[h.claim] # <<>>

QueueInv ==
  /\ Injective(queue)
  /\ \A i \in 1 .. Len(queue) : queue[i] \notin finished /\ accepted[queue[i]] # {}
  /\ Active => /\ dialog.claim \notin finished /\ ~InQueue(dialog.claim)
               /\ dialog.count > 0 => accepted[dialog.claim] # {}

CurrentInv ==
  \A c \in Claims \ lost :
    /\ \A h \in handlers : h.claim = c =>
         /\ dialog.at = "wait" /\ c = dialog.claim /\ h.doc = Current
         /\ \A g \in handlers : g.claim = c => g = h
         /\ h.at = "write" => h.read = manifests[c]
         /\ h.at = "answer" => Holds(manifests[c], h.doc)
    /\ manifests[c] # Nothing => /\ Injective(manifests[c])
                                 /\ \A d \in accepted[c] : Holds(manifests[c], d)
    /\ Active /\ c = dialog.claim => \A k \in 1 .. Len(manifests[c]) :
         \/ \E i \in 1 .. dialog.next - 1 : manifests[c][k] = dialog.files[i]
         \/ \E h \in handlers : h.claim = c /\ h.at = "answer" /\ manifests[c][k] = h.doc

IntakeInv == IntakeTypes /\ StoredInv /\ QueueInv /\ CurrentInv

LEMMA Ordered ==
  ASSUME NEW S, IsFiniteSet(S)
  PROVE  SetToSeq(S) \in Seq(S) /\ Injective(SetToSeq(S))
<1>1. Cardinality(S) \in Nat
  BY FS_CardinalityType
<1>2. PICK f : f \in Bijection(1 .. Cardinality(S), S)
  BY FS_CardinalityType DEF ExistsBijection
<1>3. f \in [1 .. Cardinality(S) -> S] /\ IsInjective(f)
  BY <1>2 DEF Bijection, Injection, IsInjective
<1>4. SetToSeq(S) \in [1 .. Cardinality(S) -> S] /\ IsInjective(SetToSeq(S))
  BY <1>3 DEF SetToSeq
<1> HIDE DEF SetToSeq
<1> QED
  BY <1>1, <1>4 DEF IsInjective, Injective

LEMMA Joined ==
  ASSUME NEW S, NEW s \in Seq(S), NEW t \in Seq(S), Injective(s), Injective(t),
         \A i \in 1 .. Len(s), j \in 1 .. Len(t) : s[i] # t[j]
  PROVE  s \o t \in Seq(S) /\ Injective(s \o t)
BY DEF Injective

LEMMA Longer ==
  ASSUME NEW S, NEW s \in Seq(S), NEW x \in S
  PROVE  /\ Append(s, x) \in Seq(S) /\ Len(Append(s, x)) = Len(s) + 1
         /\ Append(s, x) # <<>> /\ Append(s, x)[Len(s) + 1] = x
         /\ \A k \in 1 .. Len(s) : Append(s, x)[k] = s[k]
         /\ \A k \in 1 .. Len(Append(s, x)) : k \in 1 .. Len(s) \/ k = Len(s) + 1
<1>1. /\ Append(s, x) \in Seq(S) /\ Len(Append(s, x)) = Len(s) + 1
      /\ Append(s, x)[Len(s) + 1] = x /\ Len(s) \in Nat
      /\ \A k \in 1 .. Len(s) : Append(s, x)[k] = s[k]
  OBVIOUS
<1>2. Append(s, x) # <<>>
  BY <1>1
<1> QED
  BY <1>1, <1>2

(* What happens in the dialog alone, outside an import.                    *)
LEMMA DialogQuiet ==
  ASSUME IntakeInv, dialog.at # "wait", DOMAIN dialog' = DialogFields,
         dialog'.at \notin {"upload", "wait"},
         dialog'.files \in Seq(Picks), Injective(dialog'.files),
         dialog'.next \in Nat \ {0}, dialog'.count \in Nat,
         UNCHANGED <<manifests, blobs, handlers, finished, accepted, lost>>,
         \/ queue' = queue
         \/ dialog.at = "upload" /\ dialog.count > 0 /\ queue' = Append(queue, dialog.claim)
  PROVE  IntakeInv'
<1>. IntakeTypes /\ StoredInv /\ QueueInv /\ CurrentInv
  BY DEF IntakeInv
<1>1. IntakeTypes'
  <2>1. queue' \in Seq(Claims)
    <3>1. queue \in Seq(Claims) /\ (dialog.at = "upload" => dialog.claim \in Claims)
      BY DEF IntakeTypes, Active
    <3> QED
      BY <3>1
  <2>2. \A h \in handlers' : h \in [claim : Claims, doc : Picks,
                                   at : {"blob", "read", "write", "answer"}, read : Seq(Picks)]
    BY DEF IntakeTypes
  <2>3. /\ manifests' \in [Claims -> Seq(Picks) \union {Nothing}]
        /\ DOMAIN blobs' = Claims /\ accepted' \in [Claims -> SUBSET Picks]
        /\ finished' \subseteq Claims
    BY DEF IntakeTypes
  <2> QED
    BY <2>1, <2>2, <2>3 DEF IntakeTypes, Active
<1>2. StoredInv'
  BY DEF StoredInv, Active, AllStored
<1>3. QueueInv'
  <2>1. CASE queue' = queue
    BY <2>1 DEF QueueInv, Active
  <2>2. CASE dialog.at = "upload" /\ dialog.count > 0 /\ queue' = Append(queue, dialog.claim)
    BY <2>2 DEF QueueInv, Active, IntakeTypes, Injective, InQueue, Holds
  <2> QED
    BY <2>1, <2>2
<1>4. CurrentInv'
  BY DEF CurrentInv, Active, Holds, Injective
<1> QED
  BY <1>1, <1>2, <1>3, <1>4 DEF IntakeInv

LEMMA PickStep ==
  ASSUME IntakeAssumption, IntakeInv, Pick
  PROVE  IntakeInv'
<1>. IntakeTypes
  BY DEF IntakeInv
<1>1. PICK S \in SUBSET Picks :
        LET new   == {d \in S : d.name \notin Names(dialog.files)}
            order == SetToSeq(IF dialog.at = "done" THEN S ELSE new)
        IN  /\ IsFiniteSet(S)
            /\ dialog' = IF dialog.at = "done"
                           THEN [Closed EXCEPT !.at = "open", !.files = order, !.fresh = TRUE]
                           ELSE [dialog EXCEPT !.at = "open", !.files = @ \o order,
                                               !.fresh = TRUE, !.error = FALSE]
  BY DEF Pick
<1>2. dialog.at \in {"closed", "open", "done"} /\ UNCHANGED serverVars
  BY DEF Pick
<1> DEFINE chosen == IF dialog.at = "done" THEN S
                     ELSE {d \in S : d.name \notin Names(dialog.files)}
           order == SetToSeq(chosen)
<1>3. chosen \subseteq S
  OBVIOUS
<1>4. IsFiniteSet(chosen)
  BY <1>1, <1>3, FS_Subset
<1>5. \A d \in chosen : d \in Picks /\ (dialog.at # "done" => d.name \notin Names(dialog.files))
  OBVIOUS
<1>6. dialog' = IF dialog.at = "done"
                  THEN [Closed EXCEPT !.at = "open", !.files = order, !.fresh = TRUE]
                  ELSE [dialog EXCEPT !.at = "open", !.files = @ \o order,
                                      !.fresh = TRUE, !.error = FALSE]
  BY <1>1
<1> HIDE DEF chosen
<1>7. order \in Seq(chosen) /\ Injective(order)
  BY <1>4, Ordered
<1>8. order \in Seq(Picks) /\ \A j \in 1 .. Len(order) : order[j] \in chosen
  BY <1>5, <1>7
<1> HIDE DEF order
<1>9. CASE dialog.at = "done"
  <2>1. DOMAIN dialog' = DialogFields /\ dialog'.at = "open" /\ dialog'.files = order
        /\ dialog'.next = 1 /\ dialog'.count = 0
    BY <1>6, <1>9, Zenon DEF Closed, DialogFields
  <2> QED
    BY <1>2, <1>7, <1>8, <1>9, <2>1, DialogQuiet DEF serverVars
<1>10. CASE dialog.at # "done"
  <2>1. dialog.files \o order \in Seq(Picks) /\ Injective(dialog.files \o order)
    <3>1. \A i \in 1 .. Len(dialog.files) : dialog.files[i].name \in Names(dialog.files)
      BY DEF Names, IntakeTypes
    <3>2. \A i \in 1 .. Len(dialog.files), j \in 1 .. Len(order) : dialog.files[i] # order[j]
      BY <1>5, <1>8, <1>10, <3>1
    <3> QED
      BY <1>7, <1>8, <3>2, Joined DEF IntakeTypes
  <2>2. DOMAIN dialog' = DialogFields /\ dialog'.at = "open"
        /\ dialog'.files = dialog.files \o order
        /\ dialog'.next = dialog.next /\ dialog'.count = dialog.count
    BY <1>6, <1>10, Zenon DEF IntakeTypes, DialogFields
  <2> QED
    BY <1>2, <2>1, <2>2, DialogQuiet DEF serverVars, IntakeTypes
<1> QED
  BY <1>9, <1>10

(* createBatch, and the requests for the files.                            *)
LEMMA ImportStep ==
  ASSUME IntakeAssumption, IntakeInv, Import
  PROVE  IntakeInv'
<1>. IntakeTypes /\ StoredInv /\ QueueInv /\ CurrentInv
  BY DEF IntakeInv
<1>1. PICK c \in Claims :
        /\ CreateClaim(c)
        /\ dialog' = [dialog EXCEPT !.at = "upload", !.claim = c, !.next = 1, !.count = 0]
  BY DEF Import
<1>2. /\ dialog.at = "open"
      /\ UNCHANGED <<blobs, handlers, queue, finished, accepted, lost>>
  BY DEF Import, CanImport
<1>3. /\ manifests[c] = Nothing /\ accepted[c] = {} /\ c \notin finished /\ c \notin lost
      /\ manifests' = [manifests EXCEPT ![c] = <<>>]
  BY <1>1 DEF CreateClaim
<1>4. DOMAIN dialog' = DialogFields /\ dialog'.at = "upload" /\ dialog'.claim = c
      /\ dialog'.next = 1 /\ dialog'.count = 0 /\ dialog'.files = dialog.files
  BY <1>1, Zenon DEF IntakeTypes, DialogFields
<1>5. \A h \in handlers : h.claim # c
  BY <1>3 DEF StoredInv
<1>6. <<>> \in Seq(Picks) /\ <<>> # Nothing /\ Len(<<>>) = 0
  <2>1. <<>> \in Seq(Picks) /\ Len(<<>>) = 0
    OBVIOUS
  <2> QED
    BY <2>1 DEF IntakeAssumption
<1>7. IntakeTypes'
  <2>1. manifests' \in [Claims -> Seq(Picks) \union {Nothing}]
    BY <1>3, <1>6 DEF IntakeTypes
  <2> QED
    BY <1>2, <1>4, <2>1 DEF IntakeTypes, Active
<1>8. StoredInv'
  <2>1. /\ manifests'[c] = <<>> /\ manifests'[c] # Nothing
        /\ \A b \in Claims : b # c => manifests'[b] = manifests[b]
    BY <1>3, <1>6 DEF IntakeTypes
  <2>2. \A b \in Claims \ finished : manifests'[b] # Nothing =>
          \A k \in 1 .. Len(manifests'[b]) : manifests'[b][k].safe \in blobs[b]
    BY <1>6, <2>1 DEF StoredInv, AllStored
  <2>3. \A h \in handlers : h.claim \in Claims
    BY DEF IntakeTypes
  <2> QED
    BY <1>2, <1>3, <1>4, <1>5, <2>1, <2>2, <2>3 DEF StoredInv, Active, AllStored
<1>9. QueueInv'
  BY <1>2, <1>3, <1>4 DEF QueueInv, Active, InQueue, Holds
<1>10. CurrentInv'
  BY <1>2, <1>3, <1>4, <1>5, <1>6 DEF CurrentInv, Active, Holds, Injective, IntakeTypes
<1> QED
  BY <1>7, <1>8, <1>9, <1>10 DEF IntakeInv

LEMMA UploadStep ==
  ASSUME IntakeAssumption, IntakeInv, Upload
  PROVE  IntakeInv'
<1>. IntakeTypes /\ StoredInv /\ QueueInv /\ CurrentInv
  BY DEF IntakeInv
<1> DEFINE c == dialog.claim
<1>1. /\ dialog.at = "upload" /\ dialog.next <= Len(dialog.files) /\ c \in Claims
      /\ UNCHANGED <<manifests, blobs, queue, finished, accepted, lost>>
      /\ Current \in Picks
  BY DEF Upload, Uploading, IntakeTypes, Active, Current
<1>2. CASE Verdict(Current) # 200
  <2>1. dialog' = [dialog EXCEPT !.next = @ + 1] /\ handlers' = handlers
    BY <1>2 DEF Upload
  <2>2. DOMAIN dialog' = DialogFields /\ dialog'.at = "upload" /\ dialog'.claim = c
        /\ dialog'.next = dialog.next + 1 /\ dialog'.count = dialog.count
        /\ dialog'.files = dialog.files
    BY <1>1, <2>1 DEF IntakeTypes, DialogFields
  <2>3. IntakeTypes'
    BY <1>1, <2>1, <2>2 DEF IntakeTypes, Active
  <2>4. StoredInv' /\ QueueInv'
    BY <1>1, <2>1, <2>2 DEF StoredInv, QueueInv, Active, AllStored, InQueue, Holds
  <2>5. CurrentInv'
    <3>1. 1 .. dialog.next - 1 \subseteq 1 .. dialog'.next - 1
      BY <2>2 DEF IntakeTypes
    <3>2. \A h \in handlers' : h.claim \in lost'
      BY <1>1, <2>1 DEF CurrentInv, IntakeTypes
    <3>3. Active /\ Active'
      BY <1>1, <2>2 DEF Active
    <3> QED
      BY <1>1, <2>1, <2>2, <3>1, <3>2, <3>3 DEF CurrentInv
  <2> QED
    BY <2>3, <2>4, <2>5 DEF IntakeInv
<1>3. CASE Verdict(Current) = 200
  <2> DEFINE g == Handler(c, Current)
  <2>1. dialog' = [dialog EXCEPT !.at = "wait"] /\ handlers' = handlers \union {g}
    BY <1>3 DEF Upload
  <2>2. DOMAIN dialog' = DialogFields /\ dialog'.at = "wait" /\ dialog'.claim = c
        /\ dialog'.next = dialog.next /\ dialog'.count = dialog.count
        /\ dialog'.files = dialog.files
    BY <2>1 DEF IntakeTypes, DialogFields
  <2>3. g.claim = c /\ g.doc = Current /\ g.at = "blob" /\ g.read = <<>>
        /\ g \in [claim : Claims, doc : Picks,
                  at : {"blob", "read", "write", "answer"}, read : Seq(Picks)]
    BY <1>1 DEF Handler
  <2>4. Current' = Current
    BY <2>2 DEF Current
  <2>5. Len(<<>>) = 0
    OBVIOUS
  <2> HIDE DEF g
  <2>6. IntakeTypes'
    BY <1>1, <2>1, <2>2, <2>3 DEF IntakeTypes, Active
  <2>7. StoredInv'
    BY <1>1, <2>1, <2>2, <2>3, <2>5 DEF StoredInv, Active, AllStored
  <2>8. QueueInv'
    BY <1>1, <2>1, <2>2 DEF QueueInv, Active, InQueue, Holds
  <2>9. c \notin lost => \A h \in handlers : h.claim # c
    BY <1>1 DEF CurrentInv
  <2>10. CurrentInv'
    BY <1>1, <2>1, <2>2, <2>3, <2>4, <2>9 DEF CurrentInv, Active, Holds, Injective
  <2> QED
    BY <2>6, <2>7, <2>8, <2>10 DEF IntakeInv
<1> QED
  BY <1>2, <1>3

(* The answer that the dialog waits for, or none.                          *)
LEMMA WaitEnds ==
  ASSUME IntakeInv, dialog.at = "wait", NEW h \in Awaited,
         handlers' = handlers \ {h},
         DOMAIN dialog' = DialogFields, dialog'.at = "upload", dialog'.claim = dialog.claim,
         dialog'.next = dialog.next + 1, dialog'.files = dialog.files,
         UNCHANGED <<manifests, blobs, queue, finished, lost>>,
         \/ accepted' = accepted /\ dialog'.count = dialog.count
         \/ /\ h.at = "answer" /\ dialog'.count = dialog.count + 1
            /\ accepted' = [accepted EXCEPT ![h.claim] = @ \union {h.doc}]
  PROVE  IntakeInv'
<1>. IntakeTypes /\ StoredInv /\ QueueInv /\ CurrentInv
  BY DEF IntakeInv
<1> DEFINE c == dialog.claim
<1>1. h \in handlers /\ h.claim = c /\ h.doc = Current /\ c \in Claims /\ c \notin finished
      /\ h.doc \in Picks /\ Active /\ Active'
  BY DEF Awaited, IntakeTypes, QueueInv, Active
<1>2. /\ accepted' \in [Claims -> SUBSET Picks]
      /\ \A b \in Claims : /\ b # c => accepted'[b] = accepted[b]
                           /\ accepted[b] \subseteq accepted'[b]
      /\ \A d \in accepted'[c] : d \in accepted[c] \/ (d = h.doc /\ h.at = "answer")
      /\ dialog'.count \in Nat
      /\ dialog'.count > 0 => dialog.count > 0 \/ accepted'[c] # {}
      /\ accepted'[c] # {} => accepted[c] # {} \/ h.at = "answer"
  <2>1. CASE accepted' = accepted /\ dialog'.count = dialog.count
    BY <2>1 DEF IntakeTypes
  <2>2. CASE /\ h.at = "answer" /\ dialog'.count = dialog.count + 1
             /\ accepted' = [accepted EXCEPT ![h.claim] = @ \union {h.doc}]
    <3>1. accepted'[c] = accepted[c] \union {h.doc}
          /\ \A b \in Claims : b # c => accepted'[b] = accepted[b]
      BY <1>1, <2>2 DEF IntakeTypes
    <3>2. accepted' \in [Claims -> SUBSET Picks]
      BY <1>1, <2>2 DEF IntakeTypes
    <3>3. dialog'.count \in Nat
      BY <2>2 DEF IntakeTypes
    <3> QED
      BY <2>2, <3>1, <3>2, <3>3
  <2> QED
    BY <2>1, <2>2
<1>3. IntakeTypes'
  BY <1>1, <1>2 DEF IntakeTypes, Active
<1>4. StoredInv'
  BY <1>1, <1>2 DEF StoredInv, AllStored
<1>5. QueueInv'
  <2>1. \A i \in 1 .. Len(queue) : queue[i] \in Claims
    BY DEF IntakeTypes
  <2> QED
    BY <1>1, <1>2, <2>1 DEF QueueInv, InQueue, Holds
<1>6. CurrentInv'
  <2>1. \A b \in Claims \ lost : \A g \in handlers' : g.claim # b
    BY <1>1 DEF CurrentInv, Awaited
  <2>2. ASSUME c \notin lost, NEW d \in accepted'[c]
        PROVE  Holds(manifests[c], d)
    BY <1>1, <1>2, <2>2 DEF CurrentInv, StoredInv
  <2>3. ASSUME c \notin lost, NEW k \in 1 .. Len(manifests[c])
        PROVE  \E i \in 1 .. dialog.next : manifests[c][k] = dialog.files[i]
    <3>1. CASE \E i \in 1 .. dialog.next - 1 : manifests[c][k] = dialog.files[i]
      BY <3>1 DEF IntakeTypes
    <3>2. CASE \E g \in handlers : g.claim = c /\ manifests[c][k] = g.doc
      <4>1. manifests[c][k] = dialog.files[dialog.next]
        BY <1>1, <2>3, <3>2 DEF CurrentInv, Current
      <4>2. dialog.next \in 1 .. dialog.next
        BY DEF IntakeTypes
      <4> QED
        BY <4>1, <4>2
    <3> QED
      BY <1>1, <2>3, <3>1, <3>2 DEF CurrentInv
  <2>4. dialog'.next - 1 = dialog.next
    BY DEF IntakeTypes
  <2> QED
    BY <1>1, <1>2, <2>1, <2>2, <2>3, <2>4 DEF CurrentInv
<1> QED
  BY <1>3, <1>4, <1>5, <1>6 DEF IntakeInv

LEMMA AnsweredStep ==
  ASSUME IntakeInv, Answered \/ Refused
  PROVE  IntakeInv'
<1>. IntakeTypes
  BY DEF IntakeInv
<1>1. CASE Answered
  <2>1. PICK h \in Awaited :
          /\ h.at = "answer" /\ handlers' = handlers \ {h}
          /\ dialog' = [dialog EXCEPT !.at = "upload", !.next = @ + 1, !.count = @ + 1]
          /\ accepted' = [accepted EXCEPT ![h.claim] = @ \union {h.doc}]
    BY <1>1 DEF Answered
  <2>2. dialog.at = "wait" /\ UNCHANGED <<manifests, blobs, queue, finished, lost>>
    BY <1>1 DEF Answered
  <2>3. DOMAIN dialog' = DialogFields /\ dialog'.at = "upload"
        /\ dialog'.claim = dialog.claim /\ dialog'.next = dialog.next + 1
        /\ dialog'.files = dialog.files /\ dialog'.count = dialog.count + 1
    BY <2>1, Zenon DEF IntakeTypes, DialogFields
  <2> QED
    BY <2>1, <2>2, <2>3, WaitEnds
<1>2. CASE Refused
  <2>1. PICK h \in Awaited : handlers' = handlers \ {h}
    BY <1>2 DEF Refused
  <2>2. /\ dialog.at = "wait"
        /\ dialog' = [dialog EXCEPT !.at = "upload", !.next = @ + 1]
        /\ UNCHANGED <<manifests, blobs, queue, finished, accepted, lost>>
    BY <1>2 DEF Refused
  <2>3. DOMAIN dialog' = DialogFields /\ dialog'.at = "upload"
        /\ dialog'.claim = dialog.claim /\ dialog'.next = dialog.next + 1
        /\ dialog'.files = dialog.files /\ dialog'.count = dialog.count
    BY <2>2, Zenon DEF IntakeTypes, DialogFields
  <2> QED
    BY <2>1, <2>2, <2>3, WaitEnds
<1> QED
  BY <1>1, <1>2

LEMMA LostStep ==
  ASSUME IntakeInv, AnswerLost \/ Orphaned
  PROVE  IntakeInv'
<1>. IntakeTypes /\ StoredInv /\ QueueInv /\ CurrentInv
  BY DEF IntakeInv
<1>1. CASE AnswerLost
  <2>1. /\ dialog.at = "wait" /\ dialog' = [dialog EXCEPT !.at = "upload", !.next = @ + 1]
        /\ lost' = lost \union {dialog.claim}
        /\ UNCHANGED <<manifests, blobs, handlers, queue, finished, accepted>>
    BY <1>1 DEF AnswerLost
  <2>2. DOMAIN dialog' = DialogFields /\ dialog'.at = "upload"
        /\ dialog'.claim = dialog.claim /\ dialog'.next = dialog.next + 1
        /\ dialog'.files = dialog.files /\ dialog'.count = dialog.count
    BY <2>1, Zenon DEF IntakeTypes, DialogFields
  <2>3. IntakeTypes'
    BY <2>1, <2>2 DEF IntakeTypes, Active
  <2>4. StoredInv'
    BY <2>1, <2>2 DEF StoredInv, Active, AllStored
  <2>5. QueueInv'
    BY <2>1, <2>2 DEF QueueInv, Active, InQueue, Holds
  <2>6. CurrentInv'
    <3>1. \A b \in Claims \ lost' :
            b \notin lost /\ b # dialog.claim /\ \A h \in handlers : h.claim # b
      BY <2>1 DEF CurrentInv
    <3> QED
      BY <2>1, <2>2, <3>1 DEF CurrentInv
  <2> QED
    BY <2>3, <2>4, <2>5, <2>6 DEF IntakeInv
<1>2. CASE Orphaned
  <2>1. PICK h \in handlers \ Awaited : handlers' = handlers \ {h}
    BY <1>2 DEF Orphaned
  <2>2. UNCHANGED <<dialog, manifests, blobs, queue, finished, accepted, lost>>
    BY <1>2 DEF Orphaned
  <2>3. h.claim \in lost
    BY <2>1 DEF CurrentInv, Awaited, IntakeTypes
  <2>4. IntakeTypes'
    BY <2>1, <2>2 DEF IntakeTypes, Active
  <2>5. StoredInv'
    BY <2>1, <2>2 DEF StoredInv, Active, AllStored
  <2>6. QueueInv'
    BY <2>2 DEF QueueInv, Active, InQueue, Holds
  <2>7. CurrentInv'
    BY <2>1, <2>2, <2>3 DEF CurrentInv, Active, Current
  <2> QED
    BY <2>4, <2>5, <2>6, <2>7 DEF IntakeInv
<1> QED
  BY <1>1, <1>2

(* The dialog is done, or is closed, or has no claim to upload to.         *)
LEMMA DialogStep ==
  ASSUME IntakeInv, Close \/ ImportFails \/ Submit \/ SubmitFails
  PROVE  IntakeInv'
<1>. IntakeTypes
  BY DEF IntakeInv
<1>1. CASE Close
  <2>1. dialog.at # "wait" /\ dialog' = Closed /\ UNCHANGED serverVars
    BY <1>1 DEF Close
  <2>2. DOMAIN dialog' = DialogFields /\ dialog'.at = "closed" /\ dialog'.files = <<>>
        /\ dialog'.next = 1 /\ dialog'.count = 0
    BY <2>1 DEF Closed, DialogFields
  <2>3. <<>> \in Seq(Picks) /\ Injective(<<>>)
    BY DEF Injective
  <2> QED
    BY <2>1, <2>2, <2>3, DialogQuiet DEF serverVars
<1>2. CASE ImportFails
  <2>1. /\ dialog.at = "open" /\ UNCHANGED serverVars
        /\ dialog' = [dialog EXCEPT !.at = "done", !.error = TRUE, !.fresh = FALSE]
    BY <1>2 DEF ImportFails, CanImport
  <2>2. DOMAIN dialog' = DialogFields /\ dialog'.at = "done" /\ dialog'.files = dialog.files
        /\ dialog'.next = dialog.next /\ dialog'.count = dialog.count
    BY <2>1, Zenon DEF IntakeTypes, DialogFields
  <2> QED
    BY <2>1, <2>2, DialogQuiet DEF serverVars, IntakeTypes
<1>3. ASSUME NEW error, Finish(error), dialog.at = "upload",
             UNCHANGED <<manifests, blobs, handlers, finished, accepted, lost>>,
             queue' = queue \/ (dialog.count > 0 /\ queue' = Append(queue, dialog.claim))
      PROVE  IntakeInv'
  <2>1. DOMAIN dialog' = DialogFields /\ dialog'.at = "done" /\ dialog'.files = dialog.files
        /\ dialog'.next = dialog.next /\ dialog'.count = dialog.count
    BY <1>3, Zenon DEF Finish, IntakeTypes, DialogFields
  <2> QED
    BY <1>3, <2>1, DialogQuiet DEF IntakeTypes
<1>4. CASE Submit
  BY <1>3, <1>4 DEF Submit, AllSent, Enqueued
<1>5. CASE SubmitFails
  BY <1>3, <1>5 DEF SubmitFails, AllSent, Enqueued
<1> QED
  BY <1>1, <1>2, <1>4, <1>5

-------------------------------------------------------------------------------
(* A handler goes on.                                                      *)
LEMMA HandlerGoesOn ==
  ASSUME IntakeInv, NEW h \in handlers, NEW g, Move(h, g),
         g \in [claim : Claims, doc : Picks,
                at : {"blob", "read", "write", "answer"}, read : Seq(Picks)],
         g.claim = h.claim, g.doc = h.doc, h.at # "answer",
         UNCHANGED <<dialog, queue, finished, accepted, lost>>,
         manifests' \in [Claims -> Seq(Picks) \union {Nothing}], DOMAIN blobs' = Claims,
         \A c \in Claims :
           /\ blobs[c] \subseteq blobs'[c]
           /\ c # h.claim => manifests'[c] = manifests[c]
           /\ manifests[c] # Nothing => manifests'[c] # Nothing
           /\ manifests[c] # <<>> => manifests'[c] # <<>>,
         h.claim \notin finished =>
           /\ g.doc.safe \in blobs'[g.claim]
           /\ AllStored(h.claim, g.read)
           /\ AllStored(h.claim, manifests'[h.claim])
           /\ g.at = "answer" => manifests'[h.claim] # <<>>,
         h.claim \notin lost =>
           /\ g.at = "write" => g.read = manifests'[h.claim]
           /\ \/ manifests' = manifests /\ g.at # "answer"
              \/ /\ g.at = "answer"
                 /\ h.read = manifests[h.claim]
                 /\ manifests'[h.claim] = Append(h.read, h.doc)
  PROVE  IntakeInv'
<1>. IntakeTypes /\ StoredInv /\ QueueInv /\ CurrentInv
  BY DEF IntakeInv
<1> DEFINE c == h.claim
<1>1. handlers' = (handlers \ {h}) \union {g} /\ c \in Claims /\ Active' = Active
      /\ Current' = Current
  BY DEF Move, IntakeTypes, Active, Current
<1>2. IntakeTypes'
  BY <1>1 DEF IntakeTypes
<1>3. StoredInv'
  <2>1. ASSUME NEW b \in Claims \ finished
        PROVE  /\ accepted'[b] # {} \/ (Active' /\ dialog'.claim = b)
                    \/ (\E f \in handlers' : f.claim = b) => manifests'[b] # Nothing
               /\ accepted'[b] # {} => manifests'[b] # <<>>
    BY <1>1, <2>1 DEF StoredInv
  <2>2. ASSUME NEW b \in Claims \ finished, manifests'[b] # Nothing
        PROVE  \A k \in 1 .. Len(manifests'[b]) : manifests'[b][k].safe \in blobs'[b]
    <3>1. CASE b = c
      BY <1>1, <2>2, <3>1 DEF AllStored
    <3>2. CASE b # c
      BY <1>1, <2>2, <3>2 DEF AllStored, StoredInv
    <3> QED
      BY <3>1, <3>2
  <2>3. ASSUME NEW f \in handlers', f.claim \notin finished
        PROVE  /\ f.at # "blob" => f.doc.safe \in blobs'[f.claim]
               /\ \A k \in 1 .. Len(f.read) : f.read[k].safe \in blobs'[f.claim]
               /\ f.at = "answer" => manifests'[f.claim] # <<>>
    <3>1. CASE f = g
      BY <1>1, <2>3, <3>1 DEF AllStored
    <3>2. CASE f \in handlers
      <4>1. f.claim \in Claims
        BY <3>2 DEF IntakeTypes
      <4> QED
        BY <2>3, <3>2, <4>1 DEF AllStored, StoredInv
    <3> QED
      BY <1>1, <2>3, <3>1, <3>2
  <2> QED
    BY <2>1, <2>2, <2>3 DEF StoredInv, AllStored
<1>4. QueueInv'
  BY <1>1 DEF QueueInv, InQueue, Holds
<1>5. CurrentInv'
  <2>1. CASE c \in lost
    <3>1. \A b \in Claims \ lost : b # c
      BY <2>1
    <3> QED
      BY <1>1, <3>1 DEF CurrentInv
  <2>2. CASE c \notin lost
    <3>1. /\ \A f \in handlers : f.claim = c => f = h
          /\ dialog.at = "wait" /\ c = dialog.claim /\ h.doc = Current /\ Active
      BY <1>1, <2>2 DEF CurrentInv, Active
    <3>2. \A f \in handlers' : f.claim = c => f = g
      BY <1>1, <3>1
    <3>3. c \notin finished /\ manifests[c] # Nothing /\ manifests[c] \in Seq(Picks)
          /\ Injective(manifests[c]) /\ \A d \in accepted[c] : Holds(manifests[c], d)
      BY <1>1, <2>2, <3>1 DEF QueueInv, StoredInv, CurrentInv, IntakeTypes
    <3>4. \A k \in 1 .. Len(manifests[c]) :
            \E i \in 1 .. dialog.next - 1 : manifests[c][k] = dialog.files[i]
      BY <1>1, <2>2, <3>1 DEF CurrentInv
    <3>5. /\ g.at = "write" => g.read = manifests'[c]
          /\ g.at = "answer" => Holds(manifests'[c], g.doc)
          /\ Injective(manifests'[c]) /\ \A d \in accepted[c] : Holds(manifests'[c], d)
          /\ \A k \in 1 .. Len(manifests'[c]) :
               \/ \E i \in 1 .. dialog.next - 1 : manifests'[c][k] = dialog.files[i]
               \/ g.at = "answer" /\ manifests'[c][k] = g.doc
      <4>1. CASE manifests' = manifests /\ g.at # "answer"
        BY <2>2, <3>3, <3>4, <4>1
      <4>2. CASE /\ g.at = "answer" /\ h.read = manifests[c]
                 /\ manifests'[c] = Append(h.read, h.doc)
        <5> DEFINE m == manifests[c]
        <5>1. ASSUME NEW k \in 1 .. Len(m)
              PROVE  m[k] # h.doc
          <6>1. PICK i \in 1 .. dialog.next - 1 : m[k] = dialog.files[i]
            BY <3>4
          <6>2. dialog.next \in Nat \ {0} /\ dialog.next <= Len(dialog.files)
                /\ Len(dialog.files) \in Nat /\ Injective(dialog.files)
            BY <3>1 DEF IntakeTypes
          <6>3. i \in 1 .. Len(dialog.files) /\ dialog.next \in 1 .. Len(dialog.files)
                /\ i # dialog.next
            BY <6>2
          <6> QED
            BY <3>1, <6>1, <6>2, <6>3 DEF Injective, Current
        <5>2. m \in Seq(Picks) /\ Injective(m) /\ manifests'[c] = Append(m, h.doc)
              /\ h.doc \in Picks
          BY <3>3, <4>2 DEF IntakeTypes
        <5>3. \A k \in 1 .. Len(m) : \E i \in 1 .. dialog.next - 1 : m[k] = dialog.files[i]
          BY <3>4
        <5>4. \A d \in accepted[c] : Holds(m, d)
          BY <3>3
        <5> HIDE DEF m
        <5> DEFINE n == Append(m, h.doc)
        <5>5. /\ Len(n) = Len(m) + 1 /\ n[Len(m) + 1] = h.doc /\ Len(m) \in Nat
              /\ \A k \in 1 .. Len(m) : n[k] = m[k]
              /\ \A k \in 1 .. Len(n) : k \in 1 .. Len(m) \/ k = Len(m) + 1
          BY <5>2, Longer
        <5> HIDE DEF n
        <5>6. Injective(n)
          <6>1. ASSUME NEW i \in 1 .. Len(n), NEW j \in 1 .. Len(n), n[i] = n[j]
                PROVE  i = j
            BY <5>1, <5>2, <5>5, <6>1 DEF Injective
          <6> QED
            BY <6>1 DEF Injective
        <5>7. Holds(n, h.doc) /\ \A d \in accepted[c] : Holds(n, d)
          BY <5>4, <5>5 DEF Holds
        <5>8. \A k \in 1 .. Len(n) :
                 (\E i \in 1 .. dialog.next - 1 : n[k] = dialog.files[i]) \/ n[k] = h.doc
          BY <5>3, <5>5
        <5>9. manifests'[c] = n
          BY <5>2 DEF n
        <5> QED
          BY <4>2, <5>6, <5>7, <5>8, <5>9
      <4> QED
        BY <2>2, <4>1, <4>2
    <3>6. \A b \in Claims \ {c} : /\ manifests'[b] = manifests[b]
                                  /\ \A f \in handlers' : f.claim = b => f \in handlers
                                  /\ \A f \in handlers : f.claim = b => f \in handlers'
      BY <1>1
    <3>7. ASSUME NEW b \in Claims \ lost, b # c
          PROVE  /\ \A f \in handlers' : f.claim # b
                 /\ manifests'[b] # Nothing => /\ Injective(manifests'[b])
                                               /\ \A d \in accepted'[b] : Holds(manifests'[b], d)
                 /\ ~(Active' /\ b = dialog'.claim)
      BY <3>1, <3>6, <3>7 DEF CurrentInv
    <3>8. g \in handlers'
      BY <1>1
    <3>9. /\ \A f \in handlers' : f.claim = c =>
               /\ dialog'.at = "wait" /\ c = dialog'.claim /\ f.doc = Current'
               /\ \A e \in handlers' : e.claim = c => e = f
               /\ f.at = "write" => f.read = manifests'[c]
               /\ f.at = "answer" => Holds(manifests'[c], f.doc)
          /\ Injective(manifests'[c]) /\ \A d \in accepted'[c] : Holds(manifests'[c], d)
      BY <1>1, <3>1, <3>2, <3>5
    <3>10. \A k \in 1 .. Len(manifests'[c]) :
             \/ \E i \in 1 .. dialog'.next - 1 : manifests'[c][k] = dialog'.files[i]
             \/ \E f \in handlers' : f.claim = c /\ f.at = "answer" /\ manifests'[c][k] = f.doc
      BY <3>5, <3>8
    <3>11. ASSUME NEW b \in Claims \ lost
           PROVE  /\ \A f \in handlers' : f.claim = b =>
                       /\ dialog'.at = "wait" /\ b = dialog'.claim /\ f.doc = Current'
                       /\ \A e \in handlers' : e.claim = b => e = f
                       /\ f.at = "write" => f.read = manifests'[b]
                       /\ f.at = "answer" => Holds(manifests'[b], f.doc)
                  /\ manifests'[b] # Nothing =>
                       /\ Injective(manifests'[b])
                       /\ \A d \in accepted'[b] : Holds(manifests'[b], d)
      <4>1. CASE b = c
        BY <3>9, <4>1
      <4>2. CASE b # c
        BY <3>7, <4>2
      <4> QED
        BY <4>1, <4>2
    <3>12. ASSUME NEW b \in Claims \ lost, Active', b = dialog'.claim
           PROVE  \A k \in 1 .. Len(manifests'[b]) :
             \/ \E i \in 1 .. dialog'.next - 1 : manifests'[b][k] = dialog'.files[i]
             \/ \E f \in handlers' : f.claim = b /\ f.at = "answer" /\ manifests'[b][k] = f.doc
      <4>1. b = c
        BY <3>7, <3>12
      <4> QED
        BY <3>10, <4>1, Zenon
    <3>13. lost' = lost
      OBVIOUS
    <3>14. ASSUME NEW b \in Claims \ lost'
           PROVE  /\ \A f \in handlers' : f.claim = b =>
                       /\ dialog'.at = "wait" /\ b = dialog'.claim /\ f.doc = Current'
                       /\ \A e \in handlers' : e.claim = b => e = f
                       /\ f.at = "write" => f.read = manifests'[b]
                       /\ f.at = "answer" => Holds(manifests'[b], f.doc)
                  /\ manifests'[b] # Nothing =>
                       /\ Injective(manifests'[b])
                       /\ \A d \in accepted'[b] : Holds(manifests'[b], d)
                  /\ Active' /\ b = dialog'.claim => \A k \in 1 .. Len(manifests'[b]) :
                       \/ \E i \in 1 .. dialog'.next - 1 : manifests'[b][k] = dialog'.files[i]
                       \/ \E f \in handlers' : f.claim = b /\ f.at = "answer"
                                              /\ manifests'[b][k] = f.doc
      <4>1. b \in Claims \ lost
        BY <3>13
      <4>2. Active' /\ b = dialog'.claim => \A k \in 1 .. Len(manifests'[b]) :
               \/ \E i \in 1 .. dialog'.next - 1 : manifests'[b][k] = dialog'.files[i]
               \/ \E f \in handlers' : f.claim = b /\ f.at = "answer" /\ manifests'[b][k] = f.doc
        BY <3>12, <4>1, Zenon
      <4>3. /\ \A f \in handlers' : f.claim = b =>
                 /\ dialog'.at = "wait" /\ b = dialog'.claim /\ f.doc = Current'
                 /\ \A e \in handlers' : e.claim = b => e = f
                 /\ f.at = "write" => f.read = manifests'[b]
                 /\ f.at = "answer" => Holds(manifests'[b], f.doc)
            /\ manifests'[b] # Nothing =>
                 /\ Injective(manifests'[b])
                 /\ \A d \in accepted'[b] : Holds(manifests'[b], d)
        BY <3>11, <4>1, Zenon
      <4> QED
        BY <4>2, <4>3, Zenon
    <3> QED
      BY <3>14, Zenon DEF CurrentInv
  <2> QED
    BY <2>1, <2>2
<1> QED
  BY <1>2, <1>3, <1>4, <1>5 DEF IntakeInv

LEMMA HandlerSteps ==
  ASSUME IntakeAssumption, IntakeInv, HandlerStep
  PROVE  IntakeInv'
<1>. IntakeTypes /\ StoredInv /\ QueueInv /\ CurrentInv
  BY DEF IntakeInv
<1>1. PICK h \in handlers : StoreBlob(h) \/ ReadManifest(h) \/ WriteManifest(h)
  BY DEF HandlerStep
<1>2. UNCHANGED <<dialog, queue, finished, accepted, lost>>
  BY DEF HandlerStep
<1> DEFINE c == h.claim
           Handlers == [claim : Claims, doc : Picks,
                        at : {"blob", "read", "write", "answer"}, read : Seq(Picks)]
<1>3. h \in Handlers /\ c \in Claims /\ h.doc \in Picks /\ h.read \in Seq(Picks)
  BY DEF IntakeTypes
<1>4. c \notin finished => /\ manifests[c] # Nothing /\ AllStored(c, manifests[c])
                           /\ AllStored(c, h.read)
  BY <1>3 DEF StoredInv
<1>5. c \notin lost => /\ c \notin finished
                       /\ h.at = "write" => h.read = manifests[c]
  BY <1>3 DEF CurrentInv, QueueInv, Active
<1>6. CASE StoreBlob(h)
  <2> DEFINE g == [h EXCEPT !.at = "read"]
  <2>1. h.at = "blob" /\ Move(h, g) /\ manifests' = manifests
        /\ blobs' = [blobs EXCEPT ![c] = @ \union {h.doc.safe}]
    BY <1>6 DEF StoreBlob
  <2>2. g \in Handlers /\ g.claim = c /\ g.doc = h.doc /\ g.at = "read" /\ g.read = h.read
    BY <1>3
  <2> HIDE DEF g
  <2>3. DOMAIN blobs' = Claims /\ h.doc.safe \in blobs'[c]
        /\ \A b \in Claims : blobs[b] \subseteq blobs'[b]
    BY <1>3, <2>1 DEF IntakeTypes
  <2>4. manifests' \in [Claims -> Seq(Picks) \union {Nothing}]
        /\ \A b \in Claims : manifests'[b] = manifests[b]
    BY <2>1 DEF IntakeTypes
  <2>5. c \notin finished => /\ g.doc.safe \in blobs'[g.claim]
                             /\ AllStored(c, g.read) /\ AllStored(c, manifests'[c])
    BY <1>3, <1>4, <2>2, <2>3, <2>4
  <2> QED
    BY <1>2, <2>1, <2>2, <2>3, <2>4, <2>5, HandlerGoesOn
<1>7. CASE ReadManifest(h)
  <2> DEFINE g == [h EXCEPT !.at = "write", !.read = manifests[h.claim]]
  <2>1. h.at = "read" /\ Move(h, g) /\ manifests' = manifests /\ blobs' = blobs
        /\ manifests[c] # Nothing
    BY <1>7 DEF ReadManifest
  <2>2. manifests[c] \in Seq(Picks) /\ DOMAIN blobs = Claims
        /\ manifests \in [Claims -> Seq(Picks) \union {Nothing}]
    BY <1>3, <2>1 DEF IntakeTypes
  <2>3. g \in Handlers /\ g.claim = c /\ g.doc = h.doc /\ g.at = "write"
        /\ g.read = manifests[c]
    BY <1>3, <2>2
  <2> HIDE DEF g
  <2>4. c \notin finished => g.doc.safe \in blobs[c]
    BY <2>1, <2>3 DEF StoredInv
  <2> QED
    BY <1>2, <1>3, <1>4, <2>1, <2>2, <2>3, <2>4, HandlerGoesOn
<1>8. CASE WriteManifest(h)
  <2> DEFINE g == [h EXCEPT !.at = "answer"]
             m == Append(h.read, h.doc)
  <2>1. h.at = "write" /\ Move(h, g) /\ blobs' = blobs
        /\ manifests' = [manifests EXCEPT ![c] = m]
    BY <1>8 DEF WriteManifest
  <2>2. g \in Handlers /\ g.claim = c /\ g.doc = h.doc /\ g.at = "answer" /\ g.read = h.read
    BY <1>3
  <2>3. m \in Seq(Picks) /\ m # <<>> /\ Len(m) = Len(h.read) + 1
        /\ \A k \in 1 .. Len(m) : m[k] = h.doc \/ (k \in 1 .. Len(h.read) /\ m[k] = h.read[k])
    BY <1>3, Longer
  <2>4. m # Nothing
    BY <2>3 DEF IntakeAssumption
  <2> HIDE DEF g, m
  <2>5. c \notin finished => h.doc.safe \in blobs[c] /\ AllStored(c, m)
    BY <1>4, <2>1, <2>3 DEF StoredInv, AllStored
  <2>6. /\ manifests' \in [Claims -> Seq(Picks) \union {Nothing}] /\ manifests'[c] = m
        /\ \A b \in Claims : b # c => manifests'[b] = manifests[b]
        /\ DOMAIN blobs = Claims
    BY <1>3, <2>1, <2>3 DEF IntakeTypes
  <2>7. \A b \in Claims : /\ manifests[b] # Nothing => manifests'[b] # Nothing
                          /\ manifests[b] # <<>> => manifests'[b] # <<>>
    BY <2>3, <2>4, <2>6
  <2>8. c \notin lost => h.read = manifests[c] /\ manifests'[c] = Append(h.read, h.doc)
    BY <1>5, <2>1, <2>6 DEF m
  <2> QED
    BY <1>2, <1>3, <1>4, <2>1, <2>2, <2>3, <2>5, <2>6, <2>7, <2>8, HandlerGoesOn
<1> QED
  BY <1>1, <1>6, <1>7, <1>8

(* The workflow takes a claim from the queue; the user deletes it then.    *)
LEMMA CompleteStep ==
  ASSUME IntakeInv, Complete
  PROVE  IntakeInv'
<1>. IntakeTypes /\ StoredInv /\ QueueInv /\ CurrentInv
  BY DEF IntakeInv
<1>1. /\ queue # <<>> /\ finished' = finished \union {Head(queue)} /\ queue' = Tail(queue)
      /\ UNCHANGED <<dialog, manifests, blobs, handlers, accepted, lost>>
  BY DEF Complete
<1>2. /\ queue \in Seq(Claims) /\ Len(queue) \in Nat \ {0} /\ Head(queue) = queue[1]
      /\ Head(queue) \in Claims /\ queue' \in Seq(Claims) /\ Len(queue') = Len(queue) - 1
      /\ \A i \in 1 .. Len(queue') : queue'[i] = queue[i + 1]
  BY <1>1 DEF IntakeTypes
<1>3. \A i \in 1 .. Len(queue') : i + 1 \in 1 .. Len(queue) /\ 1 \in 1 .. Len(queue)
                                  /\ i + 1 # 1
  BY <1>2
<1>4. IntakeTypes'
  BY <1>1, <1>2 DEF IntakeTypes, Active
<1>5. StoredInv'
  BY <1>1 DEF StoredInv, Active, AllStored
<1>6. QueueInv'
  <2>1. Injective(queue')
    BY <1>2, <1>3 DEF QueueInv, Injective
  <2>2. \A i \in 1 .. Len(queue') : queue'[i] \notin finished' /\ accepted'[queue'[i]] # {}
    BY <1>1, <1>2, <1>3 DEF QueueInv, Injective
  <2>3. Active => /\ Head(queue) # dialog.claim
                  /\ ~\E i \in 1 .. Len(queue') : queue'[i] = dialog.claim
    BY <1>2, <1>3 DEF QueueInv, InQueue, Holds
  <2> QED
    BY <1>1, <2>1, <2>2, <2>3 DEF QueueInv, InQueue, Holds, Active
<1>7. CurrentInv'
  BY <1>1 DEF CurrentInv, Active, Current
<1> QED
  BY <1>4, <1>5, <1>6, <1>7 DEF IntakeInv

LEMMA DeleteContainerStep ==
  ASSUME IntakeInv, DeleteContainer
  PROVE  IntakeInv'
<1>. IntakeTypes /\ StoredInv /\ QueueInv /\ CurrentInv
  BY DEF IntakeInv
<1>1. PICK c \in finished : /\ manifests' = [manifests EXCEPT ![c] = Nothing]
                            /\ blobs' = [blobs EXCEPT ![c] = {}]
  BY DEF DeleteContainer
<1>2. UNCHANGED <<dialog, handlers, queue, finished, accepted, lost>>
  BY DEF DeleteContainer
<1>3. /\ c \in Claims /\ manifests'[c] = Nothing
      /\ \A b \in Claims : b # c => manifests'[b] = manifests[b] /\ blobs'[b] = blobs[b]
      /\ manifests' \in [Claims -> Seq(Picks) \union {Nothing}] /\ DOMAIN blobs' = Claims
  BY <1>1 DEF IntakeTypes
<1>4. IntakeTypes'
  BY <1>2, <1>3 DEF IntakeTypes, Active
<1>5. StoredInv'
  <2>1. \A b \in Claims \ finished : manifests'[b] = manifests[b] /\ blobs'[b] = blobs[b]
    BY <1>3
  <2>2. \A h \in handlers : h.claim \in Claims
    BY DEF IntakeTypes
  <2> QED
    BY <1>2, <2>1, <2>2 DEF StoredInv, Active, AllStored
<1>6. QueueInv'
  BY <1>2 DEF QueueInv, Active, InQueue, Holds
<1>7. CurrentInv'
  <2>1. c \notin lost => (\A h \in handlers : h.claim # c) /\ ~(Active /\ c = dialog.claim)
    BY <1>3 DEF CurrentInv, QueueInv, Active
  <2>2. \A b \in Claims \ lost : b # c =>
          manifests'[b] = manifests[b] /\ accepted'[b] = accepted[b]
    BY <1>2, <1>3
  <2>3. Active' = Active /\ Current' = Current
    BY <1>2 DEF Active, Current
  <2> QED
    BY <1>2, <1>3, <2>1, <2>2, <2>3 DEF CurrentInv
<1> QED
  BY <1>4, <1>5, <1>6, <1>7 DEF IntakeInv

LEMMA IntakeStart == IntakeAssumption /\ IntakeInit => IntakeInv
<1> SUFFICES ASSUME IntakeAssumption, IntakeInit PROVE IntakeInv
  OBVIOUS
<1>1. <<>> \in Seq(Picks) /\ <<>> \in Seq(Claims) /\ Len(<<>>) = 0
  OBVIOUS
<1>2. DOMAIN dialog = DialogFields /\ dialog.at = "closed" /\ dialog.files = <<>>
      /\ dialog.next = 1 /\ dialog.count = 0
  BY DEF IntakeInit, Closed, DialogFields
<1>3. IntakeTypes
  BY <1>1, <1>2 DEF IntakeInit, IntakeTypes, Active, Injective
<1>4. StoredInv /\ QueueInv /\ CurrentInv
  BY <1>1, <1>2 DEF IntakeInit, StoredInv, QueueInv, CurrentInv, Active, Injective
<1> QED
  BY <1>3, <1>4 DEF IntakeInv

LEMMA IntakeStep == IntakeAssumption /\ IntakeInv /\ [IntakeNext]_intakeVars => IntakeInv'
<1> SUFFICES ASSUME IntakeAssumption, IntakeInv, [IntakeNext]_intakeVars PROVE IntakeInv'
  OBVIOUS
<1>1. CASE UNCHANGED intakeVars
  BY <1>1 DEF intakeVars, IntakeInv, IntakeTypes, StoredInv, QueueInv, CurrentInv, Active,
              Current, AllStored, InQueue, Holds, Injective
<1>2. CASE Close \/ ImportFails \/ Submit \/ SubmitFails
  BY <1>2, DialogStep
<1>3. CASE Answered \/ Refused
  BY <1>3, AnsweredStep
<1>4. CASE AnswerLost \/ Orphaned
  BY <1>4, LostStep
<1> QED
  BY <1>1, <1>2, <1>3, <1>4, PickStep, ImportStep, UploadStep, HandlerSteps, CompleteStep,
     DeleteContainerStep DEF IntakeNext

LEMMA IntakeAlways == IntakeSpec => []IntakeInv
BY IntakeStart, IntakeStep, IntakeAssumption, PTL DEF IntakeSpec

(* A claim in the queue has a file to process: its manifest lists one, and *)
(* every file it lists is in the claim's folder (add_file_to_claim and     *)
(* add_claim_item store the blob before the item, and only a completed     *)
(* claim is deleted), whatever answers were lost.                          *)
THEOREM SubmittedHasFiles == IntakeSpec => []SubmittedClaimHasFiles
<1>1. IntakeInv => SubmittedClaimHasFiles
  <2> SUFFICES ASSUME IntakeInv, NEW i \in DOMAIN queue
               PROVE  /\ manifests[queue[i]] # <<>>
                      /\ \A k \in DOMAIN manifests[queue[i]] :
                           manifests[queue[i]][k].safe \in blobs[queue[i]]
    BY DEF SubmittedClaimHasFiles
  <2> DEFINE c == queue[i]
  <2>1. i \in 1 .. Len(queue) /\ c \in Claims
    BY DEF IntakeInv, IntakeTypes
  <2>2. c \notin finished /\ accepted[c] # {}
    BY <2>1 DEF IntakeInv, QueueInv
  <2>3. manifests[c] # Nothing /\ manifests[c] # <<>> /\ AllStored(c, manifests[c])
    BY <2>1, <2>2 DEF IntakeInv, StoredInv
  <2>4. manifests[c] \in Seq(Picks)
    BY <2>1, <2>3 DEF IntakeInv, IntakeTypes
  <2> QED
    BY <2>3, <2>4 DEF AllStored
<1> QED
  BY <1>1, IntakeAlways, PTL

(* What the user was told is imported is listed, once, in the manifest of  *)
(* its claim: unless an answer was lost, the requests of handleUpload run  *)
(* one after the other, so that no read of the manifest in add_claim_item  *)
(* is stale when it is written back.                                       *)
THEOREM AcceptedStaysListed == IntakeSpec => []AcceptedIsListed
<1>1. IntakeInv => AcceptedIsListed
  <2> SUFFICES ASSUME IntakeInv, NEW c \in Claims \ lost, manifests[c] # Nothing
               PROVE  accepted[c] \subseteq ToSet(manifests[c]) /\ IsInjective(manifests[c])
    BY DEF AcceptedIsListed
  <2>1. /\ Injective(manifests[c]) /\ \A d \in accepted[c] : Holds(manifests[c], d)
        /\ manifests[c] \in Seq(Picks)
    BY DEF IntakeInv, CurrentInv, IntakeTypes
  <2>2. DOMAIN manifests[c] = 1 .. Len(manifests[c])
    BY <2>1
  <2> QED
    BY <2>1, <2>2 DEF Injective, Holds, ToSet, IsInjective
<1> QED
  BY <1>1, IntakeAlways, PTL

-------------------------------------------------------------------------------
(* ContentRecords.  The steps hand the document on: one job is at work on  *)
(* it, and the jobs of the steps before have just their report to write.   *)
(* From the first report on there is a record, and what found none inserts *)
(* the one there is, unless a deletion or a second lookup came between.    *)

(* The values of the variables.                                            *)
Entry ==
  [status : {Unset, "running", "Error", "Completed"}, result : {Unset, "extracted", "corrected"},
   comment : {Unset, "made"}]

Lookup == {"unknown", "no", "yes"}

Job ==
  [step : 1 .. LastStep, at : {"start", "execute", "save", "pass", "report", "error", "bury", "log"},
   found : Lookup, runs : 1 .. MaxRuns]

Wish ==
  [op : {"none", "correct", "comment", "delete"}, at : {"idle", "look", "act", "record"},
   found : Lookup, late : BOOLEAN]

Todos ==
  IF route = "claim" THEN {<<"blob", "record", "enqueue">>, <<"record", "enqueue">>, <<"enqueue">>}
  ELSE {<<"blob", "enqueue", "record">>, <<"enqueue", "record">>, <<"record">>}

RecordTypes ==
  /\ route \in {"claim", "single"}
  /\ submission \in [todo : Todos \cup {<<>>}, found : Lookup, state : {"open", "accepted", "failed"}]
  /\ submission.todo = <<>> <=> submission.state # "open"
  /\ submission.found # "unknown" => submission.todo = <<"record">> /\ route = "single"
  /\ entries \in Seq(Entry) /\ jobs \subseteq Job
  /\ reviews \in [Users -> Wish]
  /\ \A u \in Users : /\ reviews[u].at = "act" /\ reviews[u].op # "delete" => reviews[u].found = "yes"
                      /\ reviews[u].at = "record" => reviews[u].op = "delete"
  /\ doubled \in BOOLEAN /\ deleted \in BOOLEAN

(* The steps of the document.                                              *)
StepsInv ==
  /\ \A i, j \in jobs : (i.step < j.step => i.at = "report") /\ (i.step = j.step => i = j)
  /\ submission.todo \notin {<<>>, <<"record">>} => jobs = {}

(* Without a second lookup that finds none there is one record at most,    *)
(* and one writer that found none: it inserts the first record.            *)
OneRecord(ds) ==
  ~ds => /\ Len(entries) <= 1
         /\ \A i, j \in jobs : i.found = "no" /\ j.found = "no" => i = j
         /\ submission.found = "no" => \A j \in jobs : j.found # "no"
         /\ Inserters # {} => entries = <<>>

(* A job that has not reported yet.                                        *)
Young(j) == j.step = 1 /\ j.at = "start" /\ j.runs = 1

(* Until a deletion is asked for, whoever found the record, and whoever    *)
(* has reported to it, can rely on it.                                     *)
SeenInv ==
  ~deleted =>
    /\ \A j \in jobs : j.found = "yes" \/ ~Young(j) => entries # <<>>
    /\ \A j \in jobs : ~Young(j) => j.found # "no"
    /\ \A u \in Users : reviews[u].found = "yes" => entries # <<>>
    /\ submission.found = "yes" => entries # <<>>
    /\ \A u \in Users : reviews[u].op # "delete"
    /\ submission.state = "accepted" => entries # <<>>
    /\ route = "claim" => ~doubled /\ (jobs # {} => entries # <<>>)
    /\ \A j \in jobs : j.step = LastStep /\ j.at \in {"pass", "report"} => entries[1].result # Unset

(* The workflow inserts the record where there is none, before it          *)
(* enqueues.                                                               *)
InsertInv ==
  /\ route = "claim" /\ submission.todo \notin {<<>>, <<"enqueue">>} => entries = <<>>
  /\ ~deleted /\ route = "claim" /\ submission.todo = <<"enqueue">> => entries # <<>>

(* Completed comes with a result.                                          *)
ResultInv ==
  ~deleted => \A i \in 1 .. Len(entries) : entries[i].status = "Completed" => entries[i].result # Unset

(* The requests that began when all else had ended: nothing begins again,  *)
(* so what they do is there to stay.                                       *)
LateInv ==
  /\ settled # {} => Quiet
  /\ \A u \in Users : reviews[u].late =>
       /\ Quiet
       /\ reviews[u].op = "delete" /\ reviews[u].at \in {"act", "record"} =>
            reviews[u].found = "yes" \/ entries = <<>>
       /\ reviews[u].at = "record" => stored = {}
  /\ "delete" \in settled => entries = <<>> /\ stored = {}
  /\ ~deleted =>
       /\ "correct" \in settled => entries # <<>> /\ entries[1].result = "corrected"
       /\ "comment" \in settled => entries # <<>> /\ entries[1].comment # Unset

(* The inductive invariant.                                                *)
RecordsInv ==
  /\ RecordTypes /\ StepsInv /\ OneRecord(doubled) /\ SeenInv /\ InsertInv /\ ResultInv /\ LateInv

(* The fields that are written.                                            *)
Fields ==
  [status : {"running", "Completed"}] \cup [result : {"corrected"}] \cup [comment : {"made"}] \cup Entry

(* An update writes the fields it names.                                   *)
LEMMA UpdatedIs ==
  ASSUME NEW e \in Entry, NEW w \in Fields
  PROVE  /\ Updated(e, w) \in Entry
         /\ w \in [status : {"running", "Completed"}] =>
              /\ Updated(e, w).status = w.status /\ Updated(e, w).result = e.result
              /\ Updated(e, w).comment = e.comment
         /\ w \in [result : {"corrected"}] =>
              /\ Updated(e, w).status = e.status /\ Updated(e, w).result = "corrected"
              /\ Updated(e, w).comment = e.comment
         /\ w \in [comment : {"made"}] =>
              /\ Updated(e, w).status = e.status /\ Updated(e, w).result = e.result
              /\ Updated(e, w).comment = "made"
         /\ w \in Entry => Updated(e, w) = w
<1>1. DOMAIN e = {"status", "result", "comment"}
  BY DEF Entry
<1>2. CASE w \in [status : {"running", "Completed"}]
  <2>1. DOMAIN w = {"status"}
    BY <1>2
  <2>2. Updated(e, w) = [status |-> w.status, result |-> e.result, comment |-> e.comment]
    BY <1>1, <2>1 DEF Updated
  <2> QED
    BY <1>1, <1>2, <2>1, <2>2 DEF Entry
<1>3. CASE w \in [result : {"corrected"}]
  <2>1. DOMAIN w = {"result"}
    BY <1>3
  <2>2. Updated(e, w) = [status |-> e.status, result |-> w.result, comment |-> e.comment]
    BY <1>1, <2>1 DEF Updated
  <2> QED
    BY <1>1, <1>3, <2>1, <2>2 DEF Entry
<1>4. CASE w \in [comment : {"made"}]
  <2>1. DOMAIN w = {"comment"}
    BY <1>4
  <2>2. Updated(e, w) = [status |-> e.status, result |-> e.result, comment |-> w.comment]
    BY <1>1, <2>1 DEF Updated
  <2> QED
    BY <1>1, <1>4, <2>1, <2>2 DEF Entry
<1>5. CASE w \in Entry
  <2>1. DOMAIN w = {"status", "result", "comment"}
    BY <1>5 DEF Entry
  <2>2. Updated(e, w) = w
    BY <1>1, <1>5, <2>1 DEF Updated, Entry
  <2> QED
    BY <1>1, <1>5, <2>1, <2>2 DEF Entry
<1> QED
  BY <1>2, <1>3, <1>4, <1>5 DEF Fields

LEMMA NewEntryIs ==
  /\ NewEntry \in Entry /\ NewEntry.result = Unset /\ NewEntry.comment = Unset
  /\ [NewEntry EXCEPT !.status = "running"] \in Entry
BY DEF NewEntry, Entry

(* The collection after an update of the first record and an insertion.    *)
Changed(w) ==
  /\ entries' \in Seq(Entry) /\ Len(entries') = Len(entries)
  /\ \A i \in 2 .. Len(entries) : entries'[i] = entries[i]
  /\ entries # <<>> => entries[1] \in Entry /\ entries'[1] = Updated(entries[1], w)

Inserted(w) ==
  /\ entries' \in Seq(Entry) /\ Len(entries') = Len(entries) + 1
  /\ \A i \in 1 .. Len(entries) : entries'[i] = entries[i]
  /\ entries'[Len(entries) + 1] = Updated(NewEntry, w)

LEMMA SetFirstIs ==
  ASSUME entries \in Seq(Entry), NEW w \in Fields, SetFirst(w)
  PROVE  Changed(w)
<1>1. CASE entries = <<>>
  BY <1>1 DEF SetFirst, Changed
<1>2. CASE entries # <<>>
  <2> DEFINE x == Updated(entries[1], w)
  <2>1. 1 \in DOMAIN entries /\ DOMAIN entries = 1 .. Len(entries) /\ entries[1] \in Entry
    BY <1>2
  <2>2. x \in Entry
    BY <2>1, UpdatedIs
  <2>3. entries' = [entries EXCEPT ![1] = x]
    BY <1>2 DEF SetFirst
  <2> HIDE DEF x
  <2>4. /\ entries' \in Seq(Entry) /\ Len(entries') = Len(entries) /\ entries'[1] = x
        /\ \A i \in 2 .. Len(entries) : entries'[i] = entries[i]
    BY <2>1, <2>2, <2>3
  <2> QED
    BY <2>1, <2>4 DEF x, Changed
<1> QED
  BY <1>1, <1>2

LEMMA UpsertIs ==
  ASSUME entries \in Seq(Entry), NEW w \in Fields, NEW found \in Lookup, Upsert(found, w)
  PROVE  \/ found = "yes" /\ Changed(w)
         \/ found # "yes" /\ Inserted(w)
<1>1. CASE found = "yes"
  <2>1. SetFirst(w)
    BY <1>1 DEF Upsert
  <2> QED
    BY <1>1, <2>1, SetFirstIs
<1>2. CASE found # "yes"
  <2> DEFINE x == Updated(NewEntry, w)
  <2>1. x \in Entry /\ entries' = Append(entries, x)
    BY <1>2, UpdatedIs, NewEntryIs DEF Upsert
  <2> HIDE DEF x
  <2>2. /\ entries' \in Seq(Entry) /\ Len(entries') = Len(entries) + 1
        /\ \A i \in 1 .. Len(entries) : entries'[i] = entries[i]
        /\ entries'[Len(entries) + 1] = x
    BY <2>1
  <2> QED
    BY <1>2, <2>2 DEF x, Inserted
<1> QED
  BY <1>1, <1>2

(* What a job writes.                                                      *)
LEMMA WrittenIs ==
  ASSUME RecordTypes, NEW j \in jobs, Reports(j)
  PROVE  /\ Written(j) \in Fields
         /\ \/ /\ Written(j) \in [status : {"running", "Completed"}] /\ j.at \in {"start", "report"}
               /\ Written(j).status = "Completed" => j.at = "report" /\ j.step = LastStep
            \/ /\ Written(j) \in Entry /\ j.at = "save" /\ Written(j).status # "Completed"
               /\ Written(j).result = "extracted"
            \/ Written(j) \in Entry /\ j.at \in {"error", "bury"} /\ Written(j).status # "Completed"
<1>1. CASE j.at = "start"
  BY <1>1 DEF Written, Fields
<1>2. CASE j.at = "save"
  <2>1. Written(j) = [NewEntry EXCEPT !.status = "running", !.result = "extracted"]
    BY <1>2 DEF Written
  <2>2. Written(j) = [status |-> "running", result |-> "extracted", comment |-> Unset]
    BY <2>1 DEF NewEntry
  <2> QED
    BY <1>2, <2>2 DEF Entry, Fields
<1>3. CASE j.at = "report"
  BY <1>3 DEF Written, Fields
<1>4. CASE j.at \in {"error", "bury"}
  <2>1. Written(j) = [NewEntry EXCEPT !.status = "Error"]
    BY <1>4 DEF Written
  <2>2. Written(j) = [status |-> "Error", result |-> Unset, comment |-> Unset]
    BY <2>1 DEF NewEntry
  <2> QED
    BY <1>4, <2>2 DEF Entry, Fields
<1> QED
  BY <1>1, <1>2, <1>3, <1>4 DEF Reports

(* The jobs.                                                               *)
LEMMA JobIs ==
  ASSUME RecordTypes, NEW j \in jobs
  PROVE  /\ j \in Job /\ j.step \in 1 .. LastStep /\ j.step \in Nat /\ LastStep \in Nat \ {0}
         /\ j.found \in Lookup /\ j.runs \in 1 .. MaxRuns
BY RecordsAssumption DEF RecordTypes, Job

LEMMA OnwardIs ==
  ASSUME NEW j \in Job, NEW at \in {"start", "execute", "save", "pass", "report", "error", "bury", "log"}
  PROVE  \A i \in Onward(j, at) : /\ i \in Job /\ i.step = j.step /\ i.at = at /\ i.found = "unknown"
                                  /\ i.runs = j.runs
<1> DEFINE q == [j EXCEPT !.at = at]
           r == [j EXCEPT !.at = at, !.found = "unknown"]
<1>1. q \in Job /\ q.step = j.step /\ q.at = at /\ q.runs = j.runs
  BY DEF Job
<1>2. r = [q EXCEPT !.found = "unknown"] /\ Onward(j, at) = {r}
  BY DEF Onward
<1> HIDE DEF q, r
<1>3. r \in Job /\ r.step = j.step /\ r.at = at /\ r.runs = j.runs /\ r.found = "unknown"
  BY <1>1, <1>2 DEF Job, Lookup
<1> QED
  BY <1>2, <1>3

LEMMA NewJobIs ==
  ASSUME NEW s \in 1 .. LastStep
  PROVE  /\ NewJob(s) \in Job /\ NewJob(s).step = s /\ NewJob(s).at = "start"
         /\ NewJob(s).found = "unknown" /\ NewJob(s).runs = 1
BY RecordsAssumption DEF NewJob, Job, Lookup

LEMMA FollowsIs ==
  ASSUME RecordTypes, NEW j \in jobs, Reports(j)
  PROVE  \A i \in Follows(j) :
           /\ i \in Job /\ i.step = j.step /\ i.found = "unknown" /\ ~Young(i)
           /\ i.at = "pass" => j.at = "save"
           /\ i.at # "report" /\ j.at # "report"
<1>1. CASE j.at = "start"
  BY <1>1, JobIs, OnwardIs DEF Follows, Young
<1>2. CASE j.at = "save"
  BY <1>2, JobIs, OnwardIs DEF Follows, Young
<1>3. CASE j.at = "report"
  BY <1>3 DEF Follows
<1>4. CASE j.at = "error"
  BY <1>4, JobIs, OnwardIs DEF Follows, Young
<1>5. CASE j.at = "bury"
  BY <1>5, JobIs, OnwardIs DEF Follows, Young
<1> QED
  BY <1>1, <1>2, <1>3, <1>4, <1>5 DEF Reports

(* While a job is at work nothing is quiet.                                *)
LEMMA Busy ==
  ASSUME LateInv, NEW j \in jobs
  PROVE  settled = {} /\ \A u \in Users : ~reviews[u].late
BY DEF LateInv, Quiet

LEMMA BusyKept ==
  ASSUME LateInv, NEW j \in jobs, UNCHANGED <<reviews, settled>>
  PROVE  LateInv'
<1>1. settled' = {} /\ \A u \in Users : ~reviews'[u].late
  BY Busy
<1> QED
  BY <1>1 DEF LateInv

(* A job goes on with the same step.                                       *)
LEMMA StepsKept ==
  ASSUME RecordTypes, StepsInv, NEW j \in jobs, NEW M, jobs' = (jobs \ {j}) \cup M,
         \A i \in M : i \in Job /\ i.step = j.step /\ (j.at = "report" => i.at = "report"),
         \A i, k \in M : i = k,
         submission' = submission
  PROVE  StepsInv' /\ jobs' \subseteq Job
<1>1. /\ \A i \in jobs' : i \in Job /\ i.step \in Nat
      /\ \A i \in jobs : i \in Job /\ i.step \in Nat
  BY JobIs DEF Job, RecordTypes
<1>2. ASSUME NEW i \in jobs', NEW k \in jobs'
      PROVE  (i.step < k.step => i.at = "report") /\ (i.step = k.step => i = k)
  <2>1. CASE i \in jobs \ {j} /\ k \in jobs \ {j}
    BY <2>1 DEF StepsInv
  <2>2. CASE i \in M /\ k \in jobs \ {j}
    BY <1>1, <2>2 DEF StepsInv
  <2>3. CASE i \in jobs \ {j} /\ k \in M
    BY <1>1, <2>3 DEF StepsInv
  <2>4. CASE i \in M /\ k \in M
    BY <1>1, <2>4
  <2> QED
    BY <2>1, <2>2, <2>3, <2>4
<1>3. submission'.todo \notin {<<>>, <<"record">>} => jobs' = {}
  BY DEF StepsInv
<1> QED
  BY <1>1, <1>2, <1>3 DEF StepsInv

(* A job that has reported before goes on and leaves the record alone.     *)
LEMMA JobMoves ==
  ASSUME RecordsInv, NEW j \in jobs, ~Young(j), NEW M, jobs' = (jobs \ {j}) \cup M,
         \A i \in M : /\ i \in Job /\ i.found = "unknown" /\ ~Young(i)
                      /\ i.step = LastStep /\ i.at \in {"pass", "report"} =>
                           j.step = LastStep /\ j.at \in {"pass", "report"},
         StepsInv',
         UNCHANGED <<route, submission, entries, reviews, deleted, settled, doubled>>
  PROVE  RecordsInv'
<1>0. /\ RecordTypes /\ StepsInv /\ OneRecord(doubled) /\ SeenInv /\ InsertInv /\ ResultInv /\ LateInv
  BY DEF RecordsInv
<1>1. jobs' \subseteq Job
  BY <1>0 DEF RecordTypes
<1>2. RecordTypes'
  BY <1>0, <1>1 DEF RecordTypes, Todos
<1>3. OneRecord(doubled)'
  <2>1. \A i \in jobs' : i.found = "no" => i \in jobs
    OBVIOUS
  <2>2. Inserters' \subseteq Inserters
    BY <2>1 DEF Inserters
  <2> QED
    BY <1>0, <2>1, <2>2 DEF OneRecord
<1>4. SeenInv'
  <2>1. ~deleted => entries # <<>>
    BY <1>0 DEF SeenInv
  <2>2. ~deleted => \A i \in jobs' : ~Young(i) => i.found # "no"
    BY <1>0 DEF SeenInv
  <2>3. ~deleted => \A i \in jobs' : i.step = LastStep /\ i.at \in {"pass", "report"} =>
          entries[1].result # Unset
    BY <1>0 DEF SeenInv
  <2> QED
    BY <1>0, <2>1, <2>2, <2>3 DEF SeenInv, Young
<1>5. InsertInv' /\ ResultInv'
  BY <1>0 DEF InsertInv, ResultInv
<1>6. LateInv'
  BY <1>0, BusyKept
<1> QED
  BY <1>0, <1>2, <1>3, <1>4, <1>5, <1>6 DEF RecordsInv

(* The steps of a job keep the invariant.                                  *)
LEMMA ExecutesKeeps ==
  ASSUME RecordsInv, NEW j \in jobs, Executes(j)
  PROVE  RecordsInv'
<1>0. RecordTypes /\ StepsInv /\ j \in Job
  BY JobIs DEF RecordsInv
<1> DEFINE M == Onward(j, IF j.step = LastStep THEN "save" ELSE "pass")
<1>1. /\ j.at = "execute" /\ jobs' = (jobs \ {j}) \cup M
      /\ UNCHANGED <<route, submission, entries, reviews, deleted, settled, doubled>>
  BY DEF Executes, Advance
<1>2. \A i \in M : /\ i \in Job /\ i.step = j.step /\ i.found = "unknown"
                   /\ i.at = IF j.step = LastStep THEN "save" ELSE "pass"
  BY <1>0, OnwardIs
<1>3. \A i, k \in M : i = k
  BY DEF Onward
<1> HIDE DEF M
<1>4. StepsInv'
  BY <1>0, <1>1, <1>2, <1>3, StepsKept
<1> QED
  BY <1>1, <1>2, <1>4, JobMoves DEF Young

LEMMA FailsKeeps ==
  ASSUME RecordsInv, NEW j \in jobs, StepFails(j)
  PROVE  RecordsInv'
<1>0. RecordTypes /\ StepsInv /\ j \in Job
  BY JobIs DEF RecordsInv
<1> DEFINE M == Onward(j, "error")
<1>1. /\ j.at \in {"execute", "pass"} /\ jobs' = (jobs \ {j}) \cup M
      /\ UNCHANGED <<route, submission, entries, reviews, deleted, settled, doubled>>
  BY DEF StepFails, Advance
<1>2. \A i \in M : i \in Job /\ i.step = j.step /\ i.found = "unknown" /\ i.at = "error"
  BY <1>0, OnwardIs
<1>3. \A i, k \in M : i = k
  BY DEF Onward
<1> HIDE DEF M
<1>4. StepsInv'
  BY <1>0, <1>1, <1>2, <1>3, StepsKept
<1> QED
  BY <1>1, <1>2, <1>4, JobMoves DEF Young

LEMMA LogsKeeps ==
  ASSUME RecordsInv, NEW j \in jobs, LogsOutputs(j)
  PROVE  RecordsInv'
<1>0. RecordTypes /\ StepsInv /\ j \in Job /\ j.step \in 1 .. LastStep /\ j.runs \in 1 .. MaxRuns
  BY JobIs DEF RecordsInv
<1> DEFINE M == {[NewJob(j.step) EXCEPT !.runs = r] : r \in {j.runs + 1} \intersect 1 .. MaxRuns}
<1>1. /\ j.at = "log" /\ jobs' = (jobs \ {j}) \cup M
      /\ UNCHANGED <<route, submission, entries, reviews, deleted, settled, doubled>>
  BY DEF LogsOutputs, Advance
<1>2. \A i \in M : /\ i \in Job /\ i.step = j.step /\ i.found = "unknown" /\ i.at = "start"
                   /\ i.runs = j.runs + 1
  <2>1. ASSUME NEW r \in 1 .. MaxRuns, r = j.runs + 1, NEW i, i = [NewJob(j.step) EXCEPT !.runs = r]
        PROVE  /\ i \in Job /\ i.step = j.step /\ i.found = "unknown" /\ i.at = "start" /\ i.runs = r
    <3>1. NewJob(j.step) \in Job /\ NewJob(j.step).step = j.step
          /\ NewJob(j.step).found = "unknown" /\ NewJob(j.step).at = "start"
      BY <1>0, NewJobIs
    <3> QED
      BY <2>1, <3>1 DEF Job
  <2> QED
    BY <2>1
<1>3. \A i, k \in M : i = k
  OBVIOUS
<1> HIDE DEF M
<1>4. StepsInv'
  BY <1>0, <1>1, <1>2, <1>3, StepsKept
<1>5. j.runs + 1 # 1
  BY <1>0
<1> QED
  BY <1>1, <1>2, <1>4, <1>5, JobMoves DEF Young

LEMMA PassesKeeps ==
  ASSUME RecordsInv, NEW j \in jobs, PassesOn(j)
  PROVE  RecordsInv'
<1>0. RecordTypes /\ StepsInv /\ j \in Job /\ j.step \in 1 .. LastStep /\ LastStep \in Nat
  BY JobIs DEF RecordsInv
<1> DEFINE A == Onward(j, "report")
           B == IF j.step < LastStep THEN {NewJob(j.step + 1)} ELSE {}
<1>1. /\ j.at = "pass" /\ jobs' = (jobs \ {j}) \cup (A \cup B)
      /\ UNCHANGED <<route, submission, entries, reviews, deleted, settled, doubled>>
  BY DEF PassesOn, Advance
<1>2. \A i \in A : i \in Job /\ i.step = j.step /\ i.found = "unknown" /\ i.at = "report"
  BY <1>0, OnwardIs
<1>3. \A i, k \in A : i = k
  BY DEF Onward
<1>4. \A i \in B : i \in Job /\ i.step = j.step + 1 /\ i.found = "unknown" /\ i.at = "start"
  BY <1>0, NewJobIs
<1>5. \A i, k \in B : i = k
  OBVIOUS
<1> HIDE DEF A, B
<1>6. StepsInv'
  <2>1. \A i \in jobs : i \in Job /\ i.step \in Nat
    BY <1>0, JobIs
  <2>2. \A i \in jobs \ {j} : i.step < j.step /\ i.at = "report"
    BY <1>0, <1>1, <2>1 DEF StepsInv
  <2>3. ASSUME NEW i \in jobs', NEW k \in jobs'
        PROVE  (i.step < k.step => i.at = "report") /\ (i.step = k.step => i = k)
    <3>1. CASE i \in jobs \ {j} /\ k \in jobs \ {j}
      BY <1>0, <3>1 DEF StepsInv
    <3>2. CASE i \in jobs \ {j} /\ k \in A \cup B
      BY <1>0, <1>2, <1>4, <2>1, <2>2, <3>2
    <3>3. CASE i \in A \cup B /\ k \in jobs \ {j}
      BY <1>0, <1>2, <1>4, <2>1, <2>2, <3>3
    <3>4. CASE i \in A \cup B /\ k \in A \cup B
      BY <1>0, <1>2, <1>3, <1>4, <1>5, <3>4
    <3> QED
      BY <1>1, <3>1, <3>2, <3>3, <3>4
  <2>4. submission'.todo \in {<<>>, <<"record">>}
    BY <1>0, <1>1 DEF StepsInv
  <2> QED
    BY <2>3, <2>4 DEF StepsInv
<1>7. \A i \in A \cup B : /\ i \in Job /\ i.found = "unknown" /\ ~Young(i)
                          /\ i.step = LastStep /\ i.at \in {"pass", "report"} =>
                               j.step = LastStep /\ j.at \in {"pass", "report"}
  BY <1>0, <1>1, <1>2, <1>4 DEF Young
<1> QED
  BY <1>1, <1>6, <1>7, JobMoves DEF Young

LEMMA LooksKeeps ==
  ASSUME RecordsInv, NEW j \in jobs, JobLooks(j)
  PROVE  RecordsInv'
<1>0. /\ RecordTypes /\ StepsInv /\ OneRecord(doubled) /\ SeenInv /\ InsertInv /\ ResultInv /\ LateInv
      /\ j \in Job
  BY JobIs DEF RecordsInv
<1> DEFINE i == [j EXCEPT !.found = Found]
<1>1. /\ Reports(j) /\ j.found = "unknown" /\ jobs' = (jobs \ {j}) \cup {i}
      /\ doubled' = (doubled \/ (Found = "no" /\ Inserters # {}))
      /\ UNCHANGED <<route, submission, entries, reviews, deleted, settled>>
  BY DEF JobLooks, Advance, LookedUp
<1>2. Found \in {"yes", "no"} /\ (Found = "yes" <=> entries # <<>>)
  BY DEF Found
<1>3. /\ i \in Job /\ i.step = j.step /\ i.at = j.at /\ i.runs = j.runs /\ i.found = Found
  BY <1>0, <1>2 DEF Job, Lookup
<1> HIDE DEF i
<1>4. StepsInv' /\ jobs' \subseteq Job
  <2>1. ASSUME NEW M, M = {i} PROVE StepsInv' /\ jobs' \subseteq Job
    <3>1. /\ jobs' = (jobs \ {j}) \cup M /\ submission' = submission
          /\ \A k \in M : k \in Job /\ k.step = j.step /\ (j.at = "report" => k.at = "report")
          /\ \A k, l \in M : k = l
      BY <1>1, <1>3, <2>1
    <3> QED
      BY <1>0, <3>1, StepsKept
  <2> QED
    BY <2>1
<1>5. RecordTypes'
  <2>1. doubled' \in BOOLEAN
    BY <1>1
  <2> QED
    BY <1>0, <1>1, <1>4, <2>1 DEF RecordTypes, Todos
<1>6. OneRecord(doubled)'
  <2>1. ASSUME ~doubled' PROVE ~doubled /\ (Found = "no" => Inserters = {})
    BY <1>1, <2>1
  <2>2. Inserters' \subseteq Inserters \cup (IF Found = "no" THEN {i} ELSE {})
    BY <1>1, <1>3 DEF Inserters
  <2>3. Inserters = {} => submission.found # "no" /\ \A k \in jobs : k.found # "no"
    BY DEF Inserters
  <2>4. CASE Found = "no"
    BY <1>0, <1>1, <1>2, <1>3, <2>1, <2>2, <2>3, <2>4 DEF OneRecord
  <2>5. CASE Found = "yes"
    BY <1>0, <1>1, <1>2, <1>3, <2>1, <2>2, <2>5 DEF OneRecord
  <2> QED
    BY <1>2, <2>4, <2>5
<1>7. SeenInv'
  <2>1. ASSUME ~deleted
        PROVE  /\ route = "claim" => ~doubled'
               /\ \A k \in jobs' : k.found = "yes" \/ ~Young(k) => entries # <<>>
               /\ \A k \in jobs' : ~Young(k) => k.found # "no"
               /\ \A k \in jobs' : k.step = LastStep /\ k.at \in {"pass", "report"} =>
                    entries[1].result # Unset
               /\ route = "claim" => (jobs' # {} => entries # <<>>)
    <3>1. Young(i) <=> Young(j)
      BY <1>3 DEF Young
    <3>2. route = "claim" => entries # <<>> /\ ~doubled
      BY <1>0, <2>1 DEF SeenInv
    <3>3. ~Young(j) => entries # <<>>
      BY <1>0, <2>1 DEF SeenInv
    <3>4. \A k \in jobs : /\ k.found = "yes" \/ ~Young(k) => entries # <<>>
                          /\ ~Young(k) => k.found # "no"
                          /\ k.step = LastStep /\ k.at \in {"pass", "report"} =>
                               entries[1].result # Unset
      BY <1>0, <2>1 DEF SeenInv
    <3> QED
      BY <1>1, <1>2, <1>3, <3>1, <3>2, <3>3, <3>4
  <2> QED
    BY <1>0, <1>1, <2>1 DEF SeenInv, Young
<1>8. InsertInv' /\ ResultInv'
  BY <1>0, <1>1 DEF InsertInv, ResultInv
<1>9. LateInv'
  BY <1>0, <1>1, BusyKept
<1> QED
  BY <1>4, <1>5, <1>6, <1>7, <1>8, <1>9 DEF RecordsInv

LEMMA FollowsOne ==
  ASSUME NEW j, Reports(j)
  PROVE  \A i, k \in Follows(j) : i = k
BY DEF Follows, Onward, Reports

(* An insertion is into the empty collection, as long as no two lookups    *)
(* found it empty.                                                         *)
LEMMA FirstOf ==
  ASSUME RecordTypes, NEW w
  PROVE  /\ Changed(w) => /\ Len(entries') = Len(entries)
                          /\ entries' = <<>> <=> entries = <<>>
         /\ Inserted(w) => /\ Len(entries') = Len(entries) + 1 /\ entries' # <<>>
                           /\ \A i \in 1 .. Len(entries) : entries'[i] = entries[i]
                           /\ entries = <<>> => Len(entries') = 1
<1>1. ASSUME Changed(w)
      PROVE  /\ Len(entries') = Len(entries)
             /\ entries' = <<>> <=> entries = <<>>
  <2>1. entries \in Seq(Entry) /\ entries' \in Seq(Entry) /\ Len(entries') = Len(entries)
    BY <1>1 DEF Changed, RecordTypes
  <2> QED
    BY <2>1
<1>2. ASSUME Inserted(w)
      PROVE  /\ Len(entries') = Len(entries) + 1 /\ entries' # <<>>
             /\ \A i \in 1 .. Len(entries) : entries'[i] = entries[i]
             /\ entries = <<>> => Len(entries') = 1
  <2>1. /\ entries \in Seq(Entry) /\ entries' \in Seq(Entry) /\ Len(entries') = Len(entries) + 1
        /\ \A i \in 1 .. Len(entries) : entries'[i] = entries[i]
    BY <1>2 DEF Inserted, RecordTypes
  <2>2. Len(entries) \in Nat
    BY <2>1
  <2>3. entries' # <<>>
    BY <2>1, <2>2
  <2>4. entries = <<>> => Len(entries) = 0
    OBVIOUS
  <2> QED
    BY <2>1, <2>3, <2>4
<1> QED
  BY <1>1, <1>2

(* A report: the record is there afterwards, and complete if it says so.   *)
LEMMA WritesKeeps ==
  ASSUME RecordsInv, NEW j \in jobs, JobWrites(j)
  PROVE  RecordsInv'
<1>0. /\ RecordTypes /\ StepsInv /\ OneRecord(doubled) /\ SeenInv /\ InsertInv /\ ResultInv /\ LateInv
      /\ j \in Job /\ entries \in Seq(Entry) /\ j.found \in Lookup
  BY JobIs DEF RecordsInv, RecordTypes
<1> DEFINE M == Follows(j)
           w == Written(j)
<1>1. /\ Reports(j) /\ j.found # "unknown" /\ jobs' = (jobs \ {j}) \cup M /\ Upsert(j.found, w)
      /\ UNCHANGED <<route, submission, reviews, deleted, settled, doubled>>
  BY DEF JobWrites, Advance
<1>2. \A i \in M : /\ i \in Job /\ i.step = j.step /\ i.found = "unknown" /\ ~Young(i)
                   /\ i.at = "pass" => j.at = "save"
                   /\ i.at # "report" /\ j.at # "report"
  BY <1>0, <1>1, FollowsIs
<1>3. \A i, k \in M : i = k
  BY <1>1, FollowsOne
<1>4. /\ w \in Fields
      /\ \/ /\ w \in [status : {"running", "Completed"}] /\ j.at \in {"start", "report"}
            /\ w.status = "Completed" => j.at = "report" /\ j.step = LastStep
         \/ /\ w \in Entry /\ j.at = "save" /\ w.status # "Completed" /\ w.result = "extracted"
         \/ w \in Entry /\ j.at \in {"error", "bury"} /\ w.status # "Completed"
  BY <1>0, <1>1, WrittenIs
<1> HIDE DEF M, w
<1>5. \/ j.found = "yes" /\ Changed(w)
      \/ j.found = "no" /\ Inserted(w)
  BY <1>0, <1>1, <1>4, UpsertIs DEF Lookup
<1>6. StepsInv' /\ jobs' \subseteq Job
  BY <1>0, <1>1, <1>2, <1>3, StepsKept
<1>7. entries' \in Seq(Entry) /\ Len(entries) \in Nat
  BY <1>0, <1>5 DEF Changed, Inserted
<1>8. RecordTypes'
  BY <1>0, <1>1, <1>6, <1>7 DEF RecordTypes, Todos
<1>9. \A k \in jobs' : k.found = "no" => k \in jobs \ {j}
  BY <1>1, <1>2
<1>10. OneRecord(doubled)'
  <2>1. ASSUME ~doubled PROVE Len(entries') <= 1 /\ (Inserters' # {} => entries' = <<>>)
    <3>1. CASE j.found = "yes" /\ Changed(w)
      <4>1. Inserters' \subseteq Inserters
        BY <1>1, <1>9 DEF Inserters
      <4> QED
        BY <1>0, <2>1, <3>1, <4>1, FirstOf DEF OneRecord
    <3>2. CASE j.found = "no" /\ Inserted(w)
      <4>1. Inserters # {}
        BY <3>2 DEF Inserters
      <4>2. entries = <<>>
        BY <1>0, <2>1, <4>1 DEF OneRecord
      <4>3. \A k \in jobs' : k.found # "no"
        BY <1>0, <1>9, <2>1, <3>2 DEF OneRecord
      <4>4. submission.found # "no"
        BY <1>0, <2>1, <3>2 DEF OneRecord
      <4>5. Inserters' = {}
        BY <1>1, <4>3, <4>4 DEF Inserters
      <4>6. Len(entries') = 1
        BY <1>0, <3>2, <4>2, FirstOf
      <4> QED
        BY <4>5, <4>6
    <3> QED
      BY <1>5, <3>1, <3>2
  <2>2. ~doubled => /\ \A i, k \in jobs' : i.found = "no" /\ k.found = "no" => i = k
                    /\ submission.found = "no" => \A k \in jobs' : k.found # "no"
    BY <1>0, <1>9 DEF OneRecord
  <2> QED
    BY <1>1, <2>1, <2>2 DEF OneRecord
<1>11. ASSUME ~deleted
       PROVE  /\ entries' # <<>>
              /\ \A i \in jobs' : ~Young(i) => i.found # "no"
              /\ \A i \in jobs' : i.step = LastStep /\ i.at \in {"pass", "report"} =>
                   entries'[1].result # Unset
              /\ \A i \in 1 .. Len(entries') : entries'[i].status = "Completed" =>
                   entries'[i].result # Unset
  <2>0. /\ j.found = "yes" \/ ~Young(j) => entries # <<>>
        /\ ~Young(j) => j.found # "no"
        /\ \A i \in jobs : ~Young(i) => i.found # "no"
        /\ \A i \in jobs : i.step = LastStep /\ i.at \in {"pass", "report"} =>
             entries[1].result # Unset
        /\ \A i \in 1 .. Len(entries) : entries[i].status = "Completed" => entries[i].result # Unset
    BY <1>0, <1>11 DEF SeenInv, ResultInv
  <2>1. \A i \in jobs' : ~Young(i) => i.found # "no"
    BY <1>1, <1>2, <2>0
  <2>2. entries' # <<>>
    BY <1>0, <1>5, <2>0, FirstOf
  <2>3. CASE j.found = "no" /\ Inserted(w)
    <3>1. j.at = "start"
      BY <2>0, <2>3 DEF Young
    <3>2. w \in [status : {"running", "Completed"}] /\ w.status # "Completed"
      BY <1>4, <3>1
    <3>3. /\ entries'[Len(entries) + 1].status # "Completed"
          /\ Len(entries') = Len(entries) + 1 /\ \A i \in 1 .. Len(entries) : entries'[i] = entries[i]
      BY <1>4, <2>3, <3>2, UpdatedIs, NewEntryIs DEF Inserted
    <3>4. \A i \in 1 .. Len(entries') : entries'[i].status = "Completed" =>
            entries'[i].result # Unset
      BY <1>7, <2>0, <3>3
    <3>5. \A i \in jobs' : i.step = LastStep /\ i.at \in {"pass", "report"} => i \in jobs
      BY <1>1, <1>2, <3>1
    <3>6. ASSUME NEW i \in jobs, i.step = LastStep, i.at \in {"pass", "report"} PROVE FALSE
      <4>1. i # j /\ j.step \in 1 .. LastStep /\ j.step \in Nat /\ LastStep \in Nat
        BY <1>0, <3>1, <3>6, JobIs
      <4>2. ~(i.step = j.step) /\ ~(j.step < i.step)
        BY <1>0, <3>1, <4>1 DEF StepsInv
      <4> QED
        BY <3>6, <4>1, <4>2
    <3> QED
      BY <2>1, <2>2, <3>4, <3>5, <3>6
  <2>4. CASE j.found = "yes" /\ Changed(w)
    <3>1. /\ entries # <<>> /\ entries[1] \in Entry /\ entries'[1] = Updated(entries[1], w)
          /\ Len(entries') = Len(entries) /\ 1 \in 1 .. Len(entries)
          /\ \A i \in 2 .. Len(entries) : entries'[i] = entries[i]
      BY <1>7, <2>0, <2>4 DEF Changed
    <3>2. /\ w \in [status : {"running", "Completed"}] =>
               entries'[1].status = w.status /\ entries'[1].result = entries[1].result
          /\ w \in Entry => entries'[1] = w
      BY <1>4, <3>1, UpdatedIs
    <3>3. entries'[1].status = "Completed" => entries'[1].result # Unset
      BY <1>4, <2>0, <3>2
    <3>4. \A i \in 1 .. Len(entries') : entries'[i].status = "Completed" =>
            entries'[i].result # Unset
      BY <1>7, <2>0, <3>1, <3>3
    <3>5. ASSUME NEW i \in jobs', i.step = LastStep, i.at \in {"pass", "report"}
          PROVE  entries'[1].result # Unset
      <4>1. CASE i \in M
        <5>1. j.at = "save"
          BY <1>2, <3>5, <4>1
        <5>2. w \in Entry /\ w.result = "extracted"
          BY <1>4, <5>1
        <5> QED
          BY <3>2, <5>2, RecordsAssumption
      <4>2. CASE i \in jobs \ {j}
        <5>1. j.step \in 1 .. LastStep /\ j.step \in Nat /\ LastStep \in Nat
          BY <1>0, JobIs
        <5>2. j.step < i.step
          BY <1>0, <3>5, <4>2, <5>1 DEF StepsInv
        <5>3. j.at = "report" /\ entries[1].result # Unset
          BY <1>0, <2>0, <3>5, <4>2, <5>2 DEF StepsInv
        <5> QED
          BY <1>4, <3>2, <5>3
      <4> QED
        BY <1>1, <4>1, <4>2
    <3> QED
      BY <2>1, <2>2, <3>4, <3>5
  <2> QED
    BY <1>5, <2>3, <2>4
<1>12. SeenInv'
  BY <1>0, <1>1, <1>11 DEF SeenInv, Young
<1>13. InsertInv'
  <2>1. submission.todo \in {<<>>, <<"record">>}
    BY <1>0 DEF StepsInv
  <2>2. <<"record">> \notin {<<>>, <<"blob", "record", "enqueue">>, <<"record", "enqueue">>, <<"enqueue">>}
    OBVIOUS
  <2>3. submission.todo = <<>> \/ route # "claim"
    BY <1>0, <2>1, <2>2 DEF RecordTypes, Todos
  <2>4. <<>> # <<"enqueue">>
    OBVIOUS
  <2> QED
    BY <1>1, <2>3, <2>4 DEF InsertInv
<1>14. ResultInv'
  BY <1>1, <1>11 DEF ResultInv
<1>15. LateInv'
  BY <1>0, <1>1, BusyKept
<1> QED
  BY <1>6, <1>8, <1>10, <1>12, <1>13, <1>14, <1>15 DEF RecordsInv

(* The submission.                                                         *)
Moves(x, from, to, state) ==
  /\ submission.todo = from /\ submission.found \in Lookup
  /\ submission' = [todo |-> to, found |-> "unknown", state |-> state]

LEMMA GoesOn ==
  ASSUME RecordTypes, NEW x, Submitting(x), SubmissionGoesOn
  PROVE  \/ /\ x = "blob" /\ route = "claim"
            /\ Moves(x, <<"blob", "record", "enqueue">>, <<"record", "enqueue">>, "open")
         \/ /\ x = "record" /\ route = "claim"
            /\ Moves(x, <<"record", "enqueue">>, <<"enqueue">>, "open")
         \/ /\ x = "enqueue" /\ route = "claim"
            /\ Moves(x, <<"enqueue">>, <<>>, "accepted")
         \/ /\ x = "blob" /\ route = "single"
            /\ Moves(x, <<"blob", "enqueue", "record">>, <<"enqueue", "record">>, "open")
         \/ /\ x = "enqueue" /\ route = "single"
            /\ Moves(x, <<"enqueue", "record">>, <<"record">>, "open")
         \/ /\ x = "record" /\ route = "single"
            /\ Moves(x, <<"record">>, <<>>, "accepted")
<1>1. /\ submission.found \in Lookup /\ x = Head(submission.todo)
      /\ submission' = [todo |-> Tail(submission.todo), found |-> "unknown",
                        state |-> IF Tail(submission.todo) = <<>> THEN "accepted" ELSE "open"]
  BY DEF RecordTypes, Submitting, SubmissionGoesOn
<1>2. \/ /\ route = "claim"
         /\ submission.todo \in {<<"blob", "record", "enqueue">>, <<"record", "enqueue">>, <<"enqueue">>}
      \/ /\ route = "single"
         /\ submission.todo \in {<<"blob", "enqueue", "record">>, <<"enqueue", "record">>, <<"record">>}
  BY DEF RecordTypes, Submitting, Todos
<1>3. CASE route = "claim" /\ submission.todo = <<"blob", "record", "enqueue">>
  BY <1>1, <1>3 DEF Moves
<1>4. CASE route = "claim" /\ submission.todo = <<"record", "enqueue">>
  BY <1>1, <1>4 DEF Moves
<1>5. CASE route = "claim" /\ submission.todo = <<"enqueue">>
  BY <1>1, <1>5 DEF Moves
<1>6. CASE route = "single" /\ submission.todo = <<"blob", "enqueue", "record">>
  BY <1>1, <1>6 DEF Moves
<1>7. CASE route = "single" /\ submission.todo = <<"enqueue", "record">>
  BY <1>1, <1>7 DEF Moves
<1>8. CASE route = "single" /\ submission.todo = <<"record">>
  BY <1>1, <1>8 DEF Moves
<1> QED
  BY <1>2, <1>3, <1>4, <1>5, <1>6, <1>7, <1>8

LEMMA StepTypes ==
  ASSUME RecordTypes, NEW x, Submitting(x), SubmissionGoesOn, route' = route
  PROVE  /\ submission' \in [todo : Todos' \cup {<<>>}, found : Lookup,
                             state : {"open", "accepted", "failed"}]
         /\ submission'.todo = <<>> <=> submission'.state # "open"
         /\ submission'.found = "unknown"
<1>1. PICK from, to, state :
        /\ Moves(x, from, to, state)
        /\ \/ to \in {<<"record", "enqueue">>, <<"enqueue">>} /\ state = "open" /\ route = "claim"
           \/ to \in {<<"enqueue", "record">>, <<"record">>} /\ state = "open" /\ route = "single"
           \/ to = <<>> /\ state = "accepted"
  BY GoesOn
<1>2. to \in Todos' \cup {<<>>} /\ state \in {"open", "accepted", "failed"}
  BY <1>1 DEF Todos
<1>3. to = <<>> <=> state # "open"
  BY <1>1
<1> QED
  BY <1>1, <1>2, <1>3 DEF Moves, Lookup

(* Nothing is quiet before the submission ends.                            *)
LEMMA OpenKept ==
  ASSUME LateInv, submission.state = "open", UNCHANGED <<reviews, settled>>
  PROVE  LateInv'
<1>1. settled' = {} /\ \A u \in Users : ~reviews'[u].late
  BY DEF LateInv, Quiet
<1> QED
  BY <1>1 DEF LateInv

(* The steps of the submission keep the invariant.                         *)
LEMMA UploadKeeps ==
  ASSUME RecordsInv, UploadSource
  PROVE  RecordsInv'
<1>0. /\ RecordTypes /\ StepsInv /\ OneRecord(doubled) /\ SeenInv /\ InsertInv /\ ResultInv /\ LateInv
  BY DEF RecordsInv
<1>1. /\ Submitting("blob") /\ SubmissionGoesOn /\ submission.state = "open"
      /\ UNCHANGED <<route, entries, jobs, reviews, deleted, settled, doubled>>
  BY DEF UploadSource, Submitting
<1>2. RecordTypes'
  BY <1>0, <1>1, StepTypes DEF RecordTypes
<1>3. \/ /\ route = "claim"
         /\ Moves("blob", <<"blob", "record", "enqueue">>, <<"record", "enqueue">>, "open")
      \/ /\ route = "single"
         /\ Moves("blob", <<"blob", "enqueue", "record">>, <<"enqueue", "record">>, "open")
  BY <1>0, <1>1, GoesOn
<1>4. /\ submission.todo \notin {<<>>, <<"record">>, <<"enqueue">>}
      /\ submission'.todo # <<"enqueue">> /\ submission'.found = "unknown"
      /\ submission'.state = "open"
  BY <1>3 DEF Moves
<1>5. jobs = {}
  BY <1>0, <1>4 DEF StepsInv
<1>6. StepsInv'
  BY <1>1, <1>5 DEF StepsInv
<1>7. OneRecord(doubled)'
  BY <1>0, <1>1, <1>4, <1>5 DEF OneRecord, Inserters
<1>8. SeenInv'
  BY <1>0, <1>1, <1>4, <1>5 DEF SeenInv
<1>9. InsertInv' /\ ResultInv'
  BY <1>0, <1>1, <1>4 DEF InsertInv, ResultInv
<1>10. LateInv'
  BY <1>0, <1>1, OpenKept
<1> QED
  BY <1>2, <1>6, <1>7, <1>8, <1>9, <1>10 DEF RecordsInv

LEMMA EnqueueKeeps ==
  ASSUME RecordsInv, EnqueueFirst
  PROVE  RecordsInv'
<1>0. /\ RecordTypes /\ StepsInv /\ OneRecord(doubled) /\ SeenInv /\ InsertInv /\ ResultInv /\ LateInv
  BY DEF RecordsInv
<1> DEFINE n == NewJob(1)
<1>1. /\ Submitting("enqueue") /\ SubmissionGoesOn /\ submission.state = "open"
      /\ jobs' = jobs \cup {n}
      /\ UNCHANGED <<route, entries, reviews, deleted, settled, doubled>>
  BY DEF EnqueueFirst, Submitting
<1>2. /\ n \in Job /\ Young(n) /\ n.found = "unknown" /\ n.at = "start" /\ n.step = 1
  BY NewJobIs, RecordsAssumption DEF Young
<1> HIDE DEF n
<1>3. \/ /\ route = "claim"
         /\ Moves("enqueue", <<"enqueue">>, <<>>, "accepted")
      \/ /\ route = "single"
         /\ Moves("enqueue", <<"enqueue", "record">>, <<"record">>, "open")
  BY <1>0, <1>1, GoesOn
<1>4. /\ submission.todo \notin {<<>>, <<"record">>}
      /\ submission'.todo \in {<<>>, <<"record">>} /\ submission'.found = "unknown"
      /\ route = "claim" => submission.todo = <<"enqueue">> /\ submission'.todo = <<>>
      /\ submission'.state = "accepted" => route = "claim"
  BY <1>3 DEF Moves
<1>5. jobs = {} /\ jobs' = {n}
  BY <1>0, <1>1, <1>4 DEF StepsInv
<1>6. RecordTypes'
  BY <1>0, <1>1, <1>2, <1>5, StepTypes DEF RecordTypes
<1>7. StepsInv'
  BY <1>2, <1>4, <1>5 DEF StepsInv
<1>8. OneRecord(doubled)'
  BY <1>0, <1>1, <1>2, <1>4, <1>5 DEF OneRecord, Inserters
<1>9. SeenInv'
  <2>1. ~deleted /\ route = "claim" => entries # <<>>
    BY <1>0, <1>4 DEF InsertInv
  <2>2. ~(n.at \in {"pass", "report"}) /\ n.found # "yes"
    BY <1>2
  <2>3. Young(n)'
    BY <1>2 DEF Young
  <2>4. \A k \in jobs' : k = n
    BY <1>5
  <2> QED
    BY <1>0, <1>1, <1>2, <1>4, <2>1, <2>2, <2>3, <2>4 DEF SeenInv, Young
<1>10. InsertInv' /\ ResultInv'
  BY <1>0, <1>1, <1>4 DEF InsertInv, ResultInv
<1>11. LateInv'
  BY <1>0, <1>1, OpenKept
<1> QED
  BY <1>6, <1>7, <1>8, <1>9, <1>10, <1>11 DEF RecordsInv

LEMMA InsertKeeps ==
  ASSUME RecordsInv, InsertEntry
  PROVE  RecordsInv'
<1>0. /\ RecordTypes /\ StepsInv /\ OneRecord(doubled) /\ SeenInv /\ InsertInv /\ ResultInv /\ LateInv
  BY DEF RecordsInv
<1> DEFINE e == [NewEntry EXCEPT !.status = "running"]
<1>1. /\ Submitting("record") /\ SubmissionGoesOn /\ submission.state = "open" /\ route = "claim"
      /\ entries' = Append(entries, e)
      /\ UNCHANGED <<route, jobs, reviews, deleted, settled, doubled>>
  BY DEF InsertEntry, Submitting
<1>2. e \in Entry /\ e.status = "running"
  BY NewEntryIs DEF NewEntry
<1> HIDE DEF e
<1>3. Moves("record", <<"record", "enqueue">>, <<"enqueue">>, "open")
  BY <1>0, <1>1, GoesOn
<1>4. /\ submission.todo \notin {<<>>, <<"record">>, <<"enqueue">>}
      /\ submission'.todo = <<"enqueue">> /\ submission'.found = "unknown"
      /\ submission'.state = "open"
  BY <1>3 DEF Moves
<1>5. jobs = {} /\ entries = <<>>
  BY <1>0, <1>1, <1>4 DEF StepsInv, InsertInv
<1>6. /\ entries' = <<e>> /\ entries' \in Seq(Entry) /\ Len(entries') = 1 /\ entries'[1] = e
      /\ entries' # <<>>
  BY <1>1, <1>2, <1>5
<1>7. RecordTypes'
  BY <1>0, <1>1, <1>6, StepTypes DEF RecordTypes
<1>8. StepsInv'
  BY <1>1, <1>5 DEF StepsInv
<1>9. OneRecord(doubled)'
  BY <1>1, <1>4, <1>5, <1>6 DEF OneRecord, Inserters
<1>10. SeenInv'
  BY <1>0, <1>1, <1>4, <1>5, <1>6 DEF SeenInv
<1>11. InsertInv'
  BY <1>4, <1>6 DEF InsertInv
<1>12. ResultInv'
  BY <1>2, <1>6 DEF ResultInv
<1>13. LateInv'
  BY <1>0, <1>1, OpenKept
<1> QED
  BY <1>7, <1>8, <1>9, <1>10, <1>11, <1>12, <1>13 DEF RecordsInv

LEMMA SubmissionLooksKeeps ==
  ASSUME RecordsInv, SubmissionLooks
  PROVE  RecordsInv'
<1>0. /\ RecordTypes /\ StepsInv /\ OneRecord(doubled) /\ SeenInv /\ InsertInv /\ ResultInv /\ LateInv
  BY DEF RecordsInv
<1>1. /\ route = "single" /\ submission.state = "open" /\ submission.todo # <<>>
      /\ Head(submission.todo) = "record"
      /\ submission' = [submission EXCEPT !.found = Found]
      /\ doubled' = (doubled \/ (Found = "no" /\ Inserters # {}))
      /\ UNCHANGED <<route, entries, jobs, reviews, deleted, settled>>
  BY DEF SubmissionLooks, Submitting, LookedUp
<1>2. Found \in {"yes", "no"} /\ (Found = "yes" <=> entries # <<>>)
  BY DEF Found
<1>3. submission.todo = <<"record">>
  <2>1. submission.todo \in {<<"blob", "enqueue", "record">>, <<"enqueue", "record">>, <<"record">>}
    BY <1>0, <1>1 DEF RecordTypes, Todos
  <2>2. /\ Head(<<"blob", "enqueue", "record">>) = "blob" /\ Head(<<"enqueue", "record">>) = "enqueue"
    OBVIOUS
  <2> QED
    BY <1>1, <2>1, <2>2
<1>4. /\ submission'.todo = submission.todo /\ submission'.state = submission.state
      /\ submission'.found = Found
      /\ submission' \in [todo : Todos \cup {<<>>}, found : Lookup,
                          state : {"open", "accepted", "failed"}]
  BY <1>0, <1>1, <1>2 DEF RecordTypes, Lookup
<1>5. RecordTypes'
  <2>1. Todos' = Todos /\ doubled' \in BOOLEAN
    BY <1>1 DEF Todos
  <2> QED
    BY <1>0, <1>1, <1>3, <1>4, <2>1 DEF RecordTypes
<1>6. StepsInv'
  BY <1>0, <1>1, <1>4 DEF StepsInv
<1>7. OneRecord(doubled)'
  <2>1. ASSUME ~doubled' PROVE ~doubled /\ (Found = "no" => Inserters = {})
    BY <1>1, <2>1
  <2>2. Inserters = {} => submission.found # "no" /\ \A k \in jobs : k.found # "no"
    BY DEF Inserters
  <2>3. Inserters' = {j \in jobs : j.found = "no"} \cup {s \in {submission'} : s.found = "no"}
    BY <1>1 DEF Inserters
  <2>4. CASE Found = "no"
    BY <1>0, <1>1, <1>2, <1>4, <2>1, <2>2, <2>4 DEF OneRecord
  <2>5. CASE Found = "yes"
    <3>1. Inserters' \subseteq Inserters
      BY <1>4, <2>3, <2>5 DEF Inserters
    <3> QED
      BY <1>0, <1>1, <1>2, <1>4, <2>1, <2>5, <3>1 DEF OneRecord
  <2> QED
    BY <1>2, <2>4, <2>5
<1>8. SeenInv'
  BY <1>0, <1>1, <1>2, <1>4 DEF SeenInv
<1>9. InsertInv' /\ ResultInv'
  BY <1>0, <1>1, <1>4 DEF InsertInv, ResultInv
<1>10. LateInv'
  BY <1>0, <1>1, OpenKept
<1> QED
  BY <1>5, <1>6, <1>7, <1>8, <1>9, <1>10 DEF RecordsInv

LEMMA SubmissionFailsKeeps ==
  ASSUME RecordsInv, SubmissionFails
  PROVE  RecordsInv'
<1>0. /\ RecordTypes /\ StepsInv /\ OneRecord(doubled) /\ SeenInv /\ InsertInv /\ ResultInv /\ LateInv
  BY DEF RecordsInv
<1>1. /\ submission.state = "open"
      /\ submission' = [todo |-> <<>>, found |-> "unknown", state |-> "failed"]
      /\ UNCHANGED <<route, entries, jobs, reviews, deleted, settled, doubled>>
  BY DEF SubmissionFails
<1>2. /\ submission'.todo = <<>> /\ submission'.found = "unknown" /\ submission'.state = "failed"
      /\ submission' \in [todo : Todos' \cup {<<>>}, found : Lookup,
                          state : {"open", "accepted", "failed"}]
  BY <1>1 DEF Lookup
<1>3. RecordTypes'
  BY <1>0, <1>1, <1>2 DEF RecordTypes
<1>4. StepsInv'
  BY <1>0, <1>1, <1>2 DEF StepsInv
<1>5. OneRecord(doubled)'
  <2>1. Inserters' \subseteq Inserters
    BY <1>1, <1>2 DEF Inserters
  <2> QED
    BY <1>0, <1>1, <1>2, <2>1 DEF OneRecord
<1>6. SeenInv'
  BY <1>0, <1>1, <1>2 DEF SeenInv
<1>7. InsertInv' /\ ResultInv'
  BY <1>0, <1>1, <1>2 DEF InsertInv, ResultInv
<1>8. LateInv'
  BY <1>0, <1>1, OpenKept
<1> QED
  BY <1>3, <1>4, <1>5, <1>6, <1>7, <1>8 DEF RecordsInv

LEMMA SubmissionWritesKeeps ==
  ASSUME RecordsInv, SubmissionWrites
  PROVE  RecordsInv'
<1>0. /\ RecordTypes /\ StepsInv /\ OneRecord(doubled) /\ SeenInv /\ InsertInv /\ ResultInv /\ LateInv
      /\ entries \in Seq(Entry)
  BY DEF RecordsInv, RecordTypes
<1> DEFINE w == [status |-> "running"]
<1>1. /\ Submitting("record") /\ SubmissionGoesOn /\ submission.state = "open"
      /\ submission.found # "unknown" /\ Upsert(submission.found, w)
      /\ UNCHANGED <<route, jobs, reviews, deleted, settled, doubled>>
  BY DEF SubmissionWrites, Submitting
<1>2. w \in Fields /\ w \in [status : {"running", "Completed"}] /\ w.status = "running"
  BY DEF Fields
<1> HIDE DEF w
<1>3. route = "single" /\ submission.found \in {"yes", "no"}
      /\ submission.found \in Lookup
  BY <1>0, <1>1 DEF RecordTypes, Lookup
<1>4. Moves("record", <<"record">>, <<>>, "accepted")
  BY <1>0, <1>1, <1>3, GoesOn
<1>5. submission'.todo = <<>> /\ submission'.found = "unknown" /\ submission'.state = "accepted"
  BY <1>4 DEF Moves
<1>6. \/ submission.found = "yes" /\ Changed(w)
      \/ submission.found = "no" /\ Inserted(w)
  BY <1>0, <1>1, <1>2, <1>3, UpsertIs
<1>7. entries' \in Seq(Entry) /\ Len(entries) \in Nat
  BY <1>0, <1>6 DEF Changed, Inserted
<1>8. RecordTypes'
  BY <1>0, <1>1, <1>5, <1>7, StepTypes DEF RecordTypes
<1>9. StepsInv'
  BY <1>0, <1>1, <1>5 DEF StepsInv
<1>10. OneRecord(doubled)'
  <2>1. ASSUME ~doubled PROVE Len(entries') <= 1 /\ (Inserters' # {} => entries' = <<>>)
    <3>1. CASE submission.found = "yes" /\ Changed(w)
      <4>1. Inserters' \subseteq Inserters
        BY <1>1, <1>5 DEF Inserters
      <4> QED
        BY <1>0, <2>1, <3>1, <4>1, FirstOf DEF OneRecord
    <3>2. CASE submission.found = "no" /\ Inserted(w)
      <4>1. Inserters # {}
        BY <3>2 DEF Inserters
      <4>2. entries = <<>> /\ \A k \in jobs : k.found # "no"
        BY <1>0, <2>1, <3>2, <4>1 DEF OneRecord
      <4>3. Inserters' = {}
        BY <1>1, <1>5, <4>2 DEF Inserters
      <4>4. Len(entries') = 1
        BY <1>0, <3>2, <4>2, FirstOf
      <4> QED
        BY <4>3, <4>4
    <3> QED
      BY <1>6, <3>1, <3>2
  <2> QED
    BY <1>0, <1>1, <1>5, <2>1 DEF OneRecord
<1>11. ASSUME ~deleted
       PROVE  /\ entries' # <<>>
              /\ \A i \in jobs : i.step = LastStep /\ i.at \in {"pass", "report"} =>
                   entries'[1].result # Unset
              /\ \A i \in 1 .. Len(entries') : entries'[i].status = "Completed" =>
                   entries'[i].result # Unset
  <2>0. /\ submission.found = "yes" => entries # <<>>
        /\ \A i \in jobs : i.step = LastStep /\ i.at \in {"pass", "report"} =>
             entries[1].result # Unset /\ entries # <<>>
        /\ \A i \in 1 .. Len(entries) : entries[i].status = "Completed" => entries[i].result # Unset
    BY <1>0, <1>11 DEF SeenInv, ResultInv, Young
  <2>1. entries' # <<>>
    BY <1>0, <1>6, <2>0, FirstOf
  <2>2. CASE submission.found = "no" /\ Inserted(w)
    <3>1. /\ entries'[Len(entries) + 1].status = "running"
          /\ Len(entries') = Len(entries) + 1 /\ \A i \in 1 .. Len(entries) : entries'[i] = entries[i]
      BY <1>2, <2>2, UpdatedIs, NewEntryIs DEF Inserted
    <3>2. \A i \in 1 .. Len(entries') : entries'[i].status = "Completed" =>
            entries'[i].result # Unset
      BY <1>7, <2>0, <3>1
    <3>3. entries # <<>> => 1 \in 1 .. Len(entries)
      BY <1>0, <1>7
    <3> QED
      BY <2>0, <2>1, <3>1, <3>2, <3>3
  <2>3. CASE submission.found = "yes" /\ Changed(w)
    <3>1. /\ entries # <<>> /\ entries[1] \in Entry /\ entries'[1] = Updated(entries[1], w)
          /\ Len(entries') = Len(entries) /\ 1 \in 1 .. Len(entries)
          /\ \A i \in 2 .. Len(entries) : entries'[i] = entries[i]
      BY <1>7, <2>0, <2>3 DEF Changed
    <3>2. entries'[1].status = "running" /\ entries'[1].result = entries[1].result
      BY <1>2, <3>1, UpdatedIs
    <3>3. \A i \in 1 .. Len(entries') : entries'[i].status = "Completed" =>
            entries'[i].result # Unset
      BY <1>7, <2>0, <3>1, <3>2
    <3> QED
      BY <2>0, <2>1, <3>2, <3>3
  <2> QED
    BY <1>6, <2>2, <2>3
<1>12. SeenInv'
  BY <1>0, <1>1, <1>3, <1>5, <1>11 DEF SeenInv, Young
<1>13. InsertInv' /\ ResultInv'
  BY <1>1, <1>5, <1>11 DEF InsertInv, ResultInv
<1>14. LateInv'
  BY <1>0, <1>1, OpenKept
<1> QED
  BY <1>8, <1>9, <1>10, <1>12, <1>13, <1>14 DEF RecordsInv

(* The users' requests.  What they leave of the record is decided by the   *)
(* ones that change it.                                                    *)
LEMMA ReviewTypes ==
  ASSUME RecordTypes, NEW u \in Users, NEW r \in Wish, Review(u, r),
         r.at = "act" /\ r.op # "delete" => r.found = "yes",
         r.at = "record" => r.op = "delete",
         entries' \in Seq(Entry), deleted' \in BOOLEAN,
         UNCHANGED <<route, submission, jobs, doubled>>
  PROVE  RecordTypes'
<1>1. /\ reviews' \in [Users -> Wish] /\ reviews'[u] = r
      /\ \A v \in Users \ {u} : reviews'[v] = reviews[v]
  BY DEF RecordTypes, Review
<1>2. \A v \in Users : /\ reviews'[v].at = "act" /\ reviews'[v].op # "delete" => reviews'[v].found = "yes"
                       /\ reviews'[v].at = "record" => reviews'[v].op = "delete"
  BY <1>1 DEF RecordTypes
<1> QED
  BY <1>1, <1>2 DEF RecordTypes, Todos

LEMMA ReviewKeeps ==
  ASSUME RecordsInv, NEW u \in Users, NEW r \in Wish, Review(u, r),
         r.at = "act" /\ r.op # "delete" => r.found = "yes",
         r.at = "record" => r.op = "delete",
         r.found = "yes" => entries # <<>> \/ deleted',
         r.op = "delete" => deleted',
         deleted' \in BOOLEAN, deleted => deleted',
         UNCHANGED <<route, submission, entries, jobs, doubled>>,
         LateInv'
  PROVE  RecordsInv'
<1>0. /\ RecordTypes /\ StepsInv /\ OneRecord(doubled) /\ SeenInv /\ InsertInv /\ ResultInv
      /\ entries \in Seq(Entry)
  BY DEF RecordsInv, RecordTypes
<1>1. RecordTypes'
  BY <1>0, ReviewTypes
<1>2. \A v \in Users : reviews'[v] = IF v = u THEN r ELSE reviews[v]
  BY <1>0 DEF RecordTypes, Review
<1>3. StepsInv'
  BY <1>0 DEF StepsInv
<1>4. OneRecord(doubled)'
  BY <1>0 DEF OneRecord, Inserters
<1>5. SeenInv'
  <2>1. ASSUME ~deleted'
        PROVE  \A v \in Users : (reviews'[v].found = "yes" => entries # <<>>) /\ reviews'[v].op # "delete"
    BY <1>0, <1>2, <2>1 DEF SeenInv
  <2> QED
    BY <1>0, <2>1 DEF SeenInv, Young
<1>6. InsertInv' /\ ResultInv'
  BY <1>0 DEF InsertInv, ResultInv
<1> QED
  BY <1>1, <1>3, <1>4, <1>5, <1>6 DEF RecordsInv

LEMMA RestingIs ==
  /\ Resting \in Wish /\ Resting.op = "none" /\ Resting.at = "idle" /\ Resting.found = "unknown"
  /\ ~Resting.late
BY DEF Resting, Wish, Lookup

LEMMA AskKeeps ==
  ASSUME RecordsInv, NEW u \in Users, AskReview(u)
  PROVE  RecordsInv'
<1>0. RecordTypes /\ LateInv
  BY DEF RecordsInv
<1>1. PICK op \in {"correct", "comment", "delete"} :
        /\ Review(u, [Resting EXCEPT !.op = op, !.at = "look", !.late = Quiet])
        /\ deleted' = (deleted \/ op = "delete")
  BY DEF AskReview
<1>2. UNCHANGED <<route, submission, entries, stored, jobs, settled, doubled>>
  BY DEF AskReview
<1> DEFINE r == [Resting EXCEPT !.op = op, !.at = "look", !.late = Quiet]
           x == [Resting EXCEPT !.op = op]
           y == [x EXCEPT !.at = "look"]
<1>3. Review(u, r) /\ r = [y EXCEPT !.late = Quiet]
  BY <1>1
<1>4. Quiet \in BOOLEAN
  BY <1>0 DEF Quiet
<1> HIDE DEF r
<1>5. r \in Wish /\ r.op = op /\ r.at = "look" /\ r.found = "unknown" /\ (r.late => Quiet)
  <2>1. x \in Wish /\ x.op = op /\ x.found = "unknown"
    BY RestingIs DEF Wish
  <2> HIDE DEF x
  <2>2. y \in Wish /\ y.op = op /\ y.found = "unknown" /\ y.at = "look"
    BY <2>1 DEF Wish
  <2> HIDE DEF y
  <2>3. ASSUME NEW q \in BOOLEAN, NEW s, s = [y EXCEPT !.late = q]
        PROVE  s \in Wish /\ s.op = op /\ s.at = "look" /\ s.found = "unknown" /\ s.late = q
    BY <2>2, <2>3 DEF Wish
  <2>4. r \in Wish /\ r.op = op /\ r.at = "look" /\ r.found = "unknown" /\ r.late = Quiet
    BY <1>3, <1>4, <2>3
  <2> QED
    BY <2>4
<1>6. \A v \in Users : reviews'[v] = IF v = u THEN r ELSE reviews[v]
  BY <1>0, <1>3 DEF RecordTypes, Review
<1>7. deleted' \in BOOLEAN /\ (deleted => deleted') /\ (r.op = "delete" => deleted')
  BY <1>0, <1>1, <1>5 DEF RecordTypes
<1>8. LateInv'
  <2>1. Quiet' <=> Quiet
    BY <1>2 DEF Quiet
  <2> QED
    BY <1>0, <1>2, <1>5, <1>6, <1>7, <2>1 DEF LateInv
<1> QED
  BY <1>2, <1>3, <1>5, <1>7, <1>8, ReviewKeeps

LEMMA ReviewLooksKeeps ==
  ASSUME RecordsInv, NEW u \in Users, ReviewLooks(u)
  PROVE  RecordsInv'
<1>0. RecordTypes /\ LateInv /\ SeenInv /\ reviews[u] \in Wish /\ deleted \in BOOLEAN
  BY DEF RecordsInv, RecordTypes
<1> DEFINE a == [reviews[u] EXCEPT !.at = "act", !.found = Found]
           r == IF Found = "no" /\ reviews[u].op # "delete" THEN Resting ELSE a
<1>1. /\ Review(u, r)
      /\ UNCHANGED <<route, submission, entries, stored, jobs, deleted, settled, doubled>>
  BY DEF ReviewLooks
<1>2. Found \in {"yes", "no"} /\ (Found = "yes" <=> entries # <<>>)
  BY DEF Found
<1>3. /\ a \in Wish /\ a.op = reviews[u].op /\ a.at = "act" /\ a.found = Found
      /\ a.late = reviews[u].late
  BY <1>0, <1>2 DEF Wish, Lookup
<1>4. /\ r \in Wish
      /\ r.at = "act" /\ r.op # "delete" => r.found = "yes"
      /\ r.at # "record"
      /\ r.found = "yes" => entries # <<>>
      /\ r.op = "delete" => reviews[u].op = "delete"
      /\ r.late => reviews[u].late
      /\ r.op = "delete" /\ r.at = "act" => r.found = "yes" \/ entries = <<>>
  BY <1>2, <1>3, RestingIs
<1> HIDE DEF r
<1>5. \A v \in Users : reviews'[v] = IF v = u THEN r ELSE reviews[v]
  BY <1>0, <1>1 DEF RecordTypes, Review
<1>6. r.op = "delete" => deleted'
  BY <1>0, <1>1, <1>4 DEF SeenInv
<1>7. LateInv'
  <2>1. Quiet' <=> Quiet
    BY <1>1 DEF Quiet
  <2> QED
    BY <1>0, <1>1, <1>4, <1>5, <2>1 DEF LateInv
<1> QED
  BY <1>0, <1>1, <1>4, <1>6, <1>7, ReviewKeeps

LEMMA FolderKeeps ==
  ASSUME RecordsInv, NEW u \in Users, DeletesFolder(u)
  PROVE  RecordsInv'
<1>0. RecordTypes /\ LateInv /\ SeenInv /\ reviews[u] \in Wish /\ deleted \in BOOLEAN
  BY DEF RecordsInv, RecordTypes
<1> DEFINE r == [reviews[u] EXCEPT !.at = "record"]
<1>1. /\ Review(u, r) /\ stored' = {} /\ reviews[u].at = "act" /\ reviews[u].op = "delete"
      /\ UNCHANGED <<route, submission, entries, jobs, deleted, settled, doubled>>
  BY DEF DeletesFolder
<1>2. /\ r \in Wish /\ r.op = "delete" /\ r.at = "record" /\ r.found = reviews[u].found
      /\ r.late = reviews[u].late
  BY <1>0, <1>1 DEF Wish
<1> HIDE DEF r
<1>3. deleted
  BY <1>0, <1>1 DEF SeenInv
<1>4. \A v \in Users : reviews'[v] = IF v = u THEN r ELSE reviews[v]
  BY <1>0, <1>1 DEF RecordTypes, Review
<1>5. LateInv'
  <2>1. Quiet' <=> Quiet
    BY <1>1 DEF Quiet
  <2> QED
    BY <1>0, <1>1, <1>2, <1>3, <1>4, <2>1 DEF LateInv
<1> QED
  BY <1>0, <1>1, <1>2, <1>3, <1>5, ReviewKeeps

LEMMA ReviewFailsKeeps ==
  ASSUME RecordsInv, NEW u \in Users, ReviewFails(u)
  PROVE  RecordsInv'
<1>0. RecordTypes /\ LateInv /\ deleted \in BOOLEAN
  BY DEF RecordsInv, RecordTypes
<1>1. /\ Review(u, Resting)
      /\ UNCHANGED <<route, submission, entries, stored, jobs, deleted, settled, doubled>>
  BY DEF ReviewFails
<1>2. \A v \in Users : reviews'[v] = IF v = u THEN Resting ELSE reviews[v]
  BY <1>0, <1>1 DEF RecordTypes, Review
<1>3. LateInv'
  <2>1. Quiet' <=> Quiet
    BY <1>1 DEF Quiet
  <2> QED
    BY <1>0, <1>1, <1>2, <2>1, RestingIs DEF LateInv
<1> QED
  BY <1>0, <1>1, <1>3, RestingIs, ReviewKeeps

(* A correction or a comment changes its field of the record and no other. *)
LEMMA CorrectsKeeps ==
  ASSUME RecordsInv, NEW u \in Users, Corrects(u)
  PROVE  RecordsInv'
<1>0. /\ RecordTypes /\ StepsInv /\ OneRecord(doubled) /\ SeenInv /\ InsertInv /\ ResultInv /\ LateInv
      /\ entries \in Seq(Entry) /\ deleted \in BOOLEAN
  BY DEF RecordsInv, RecordTypes
<1> DEFINE w == IF reviews[u].op = "correct" THEN [result |-> "corrected"] ELSE [comment |-> "made"]
<1>1. /\ reviews[u].at = "act" /\ reviews[u].op # "delete" /\ Review(u, Resting) /\ SetFirst(w)
      /\ settled' = settled \cup (IF reviews[u].late THEN {reviews[u].op} ELSE {})
      /\ UNCHANGED <<route, submission, stored, jobs, deleted, doubled>>
  BY DEF Corrects, Settled
<1>2. \/ /\ reviews[u].op = "correct" /\ w \in [result : {"corrected"}]
      \/ /\ reviews[u].op # "correct" /\ w \in [comment : {"made"}]
  OBVIOUS
<1>3. w \in Fields
  BY <1>2 DEF Fields
<1> HIDE DEF w
<1>4. Changed(w)
  BY <1>0, <1>1, <1>3, SetFirstIs
<1>5. /\ entries' \in Seq(Entry) /\ Len(entries') = Len(entries) /\ Len(entries) \in Nat
      /\ entries' = <<>> <=> entries = <<>>
      /\ \A i \in 2 .. Len(entries) : entries'[i] = entries[i]
  BY <1>0, <1>4, FirstOf DEF Changed
<1>6. ASSUME entries # <<>>
      PROVE  /\ entries'[1].status = entries[1].status
             /\ reviews[u].op = "correct" =>
                  entries'[1].result = "corrected" /\ entries'[1].comment = entries[1].comment
             /\ reviews[u].op # "correct" =>
                  entries'[1].result = entries[1].result /\ entries'[1].comment = "made"
  <2>1. entries[1] \in Entry /\ entries'[1] = Updated(entries[1], w)
    BY <1>4, <1>6 DEF Changed
  <2> QED
    BY <1>2, <1>3, <2>1, UpdatedIs
<1>7. RecordTypes'
  BY <1>0, <1>1, <1>5, RestingIs, ReviewTypes
<1>8. \A v \in Users : reviews'[v] = IF v = u THEN Resting ELSE reviews[v]
  BY <1>0, <1>1 DEF RecordTypes, Review
<1>9. StepsInv' /\ OneRecord(doubled)'
  BY <1>0, <1>1, <1>5 DEF StepsInv, OneRecord, Inserters
<1>10. ~deleted => entries # <<>>
  BY <1>0, <1>1 DEF RecordTypes, SeenInv
<1>11. ~deleted /\ entries[1].result # Unset => entries'[1].result # Unset
  BY <1>6, <1>10, RecordsAssumption
<1>12. SeenInv'
  <2>1. ASSUME ~deleted
        PROVE  \A v \in Users : reviews'[v].op # "delete"
    BY <1>0, <1>8, <2>1, RestingIs DEF SeenInv
  <2> QED
    BY <1>0, <1>1, <1>5, <1>10, <1>11, <2>1 DEF SeenInv, Young
<1>13. InsertInv'
  BY <1>0, <1>1, <1>5 DEF InsertInv
<1>14. ResultInv'
  <2>1. ASSUME ~deleted, NEW i \in 1 .. Len(entries'), entries'[i].status = "Completed"
        PROVE  entries'[i].result # Unset
    <3>1. i \in 1 .. Len(entries) /\ (i = 1 \/ i \in 2 .. Len(entries))
      BY <1>5
    <3> QED
      BY <1>0, <1>5, <1>6, <1>10, <1>11, <2>1, <3>1 DEF ResultInv
  <2> QED
    BY <1>1, <2>1 DEF ResultInv
<1>15. LateInv'
  <2>1. Quiet' <=> Quiet
    BY <1>1 DEF Quiet
  <2>2. settled' # {} => Quiet
    BY <1>0, <1>1 DEF LateInv
  <2>3. \A v \in Users : reviews'[v].late =>
           /\ Quiet
           /\ reviews'[v].op = "delete" /\ reviews'[v].at \in {"act", "record"} =>
                reviews'[v].found = "yes" \/ entries' = <<>>
           /\ reviews'[v].at = "record" => stored' = {}
    BY <1>0, <1>1, <1>5, <1>8, RestingIs DEF LateInv
  <2>4. "delete" \in settled' => entries' = <<>> /\ stored' = {}
    BY <1>0, <1>1, <1>5 DEF LateInv
  <2>5. ASSUME ~deleted
        PROVE  /\ "correct" \in settled' => entries' # <<>> /\ entries'[1].result = "corrected"
               /\ "comment" \in settled' => entries' # <<>> /\ entries'[1].comment # Unset
    <3>1. CASE reviews[u].op = "correct"
      BY <1>0, <1>1, <1>5, <1>6, <1>10, <2>5, <3>1 DEF LateInv
    <3>2. CASE reviews[u].op # "correct"
      <4>1. "correct" \in settled' => "correct" \in settled
        BY <1>1, <3>2
      <4>2. entries'[1].comment # Unset
        BY <1>6, <1>10, <2>5, <3>2, RecordsAssumption
      <4> QED
        BY <1>0, <1>5, <1>6, <1>10, <2>5, <3>2, <4>1, <4>2 DEF LateInv
    <3> QED
      BY <3>1, <3>2
  <2> QED
    BY <1>1, <2>1, <2>2, <2>3, <2>4, <2>5 DEF LateInv
<1> QED
  BY <1>7, <1>9, <1>12, <1>13, <1>14, <1>15 DEF RecordsInv

LEMMA TailIs ==
  ASSUME NEW S, NEW q \in Seq(S), q # <<>>
  PROVE  Tail(q) \in Seq(S) /\ Len(Tail(q)) = Len(q) - 1 /\ (Len(q) <= 1 => Tail(q) = <<>>)
OBVIOUS

(* A deletion that begins last finds one record at most, and leaves none.  *)
LEMMA DeletesKeeps ==
  ASSUME RecordsInv, NEW u \in Users, DeletesEntry(u)
  PROVE  RecordsInv'
<1>0. /\ RecordTypes /\ StepsInv /\ OneRecord(doubled) /\ SeenInv /\ InsertInv /\ ResultInv /\ LateInv
      /\ entries \in Seq(Entry) /\ deleted \in BOOLEAN /\ Len(entries) \in Nat
  BY DEF RecordsInv, RecordTypes
<1>1. /\ reviews[u].at = "record" /\ Review(u, Resting)
      /\ entries' = IF reviews[u].found = "no" \/ entries = <<>> THEN entries ELSE Tail(entries)
      /\ settled' = settled \cup (IF reviews[u].late THEN {reviews[u].op} ELSE {})
      /\ UNCHANGED <<route, submission, stored, jobs, deleted, doubled>>
  BY DEF DeletesEntry, Settled
<1>2. reviews[u].op = "delete" /\ deleted
  BY <1>0, <1>1 DEF RecordTypes, SeenInv
<1>3. /\ entries' \in Seq(Entry) /\ Len(entries') <= Len(entries)
      /\ entries = <<>> => entries' = <<>>
      /\ Len(entries) <= 1 /\ reviews[u].found = "yes" => entries' = <<>>
      /\ Len(entries') \in Nat
  BY <1>0, <1>1, TailIs
<1>4. RecordTypes'
  BY <1>0, <1>1, <1>3, RestingIs, ReviewTypes
<1>5. \A v \in Users : reviews'[v] = IF v = u THEN Resting ELSE reviews[v]
  BY <1>0, <1>1 DEF RecordTypes, Review
<1>6. StepsInv' /\ OneRecord(doubled)'
  BY <1>0, <1>1, <1>3 DEF StepsInv, OneRecord, Inserters
<1>7. SeenInv' /\ ResultInv'
  BY <1>1, <1>2 DEF SeenInv, ResultInv
<1>8. InsertInv'
  BY <1>0, <1>1, <1>2, <1>3 DEF InsertInv
<1>9. LateInv'
  <2>1. Quiet' <=> Quiet
    BY <1>1 DEF Quiet
  <2>2. settled' # {} => Quiet
    BY <1>0, <1>1 DEF LateInv
  <2>3. \A v \in Users : reviews'[v].late =>
           /\ Quiet
           /\ reviews'[v].op = "delete" /\ reviews'[v].at \in {"act", "record"} =>
                reviews'[v].found = "yes" \/ entries' = <<>>
           /\ reviews'[v].at = "record" => stored' = {}
    BY <1>0, <1>1, <1>3, <1>5, RestingIs DEF LateInv
  <2>4. "delete" \in settled' => entries' = <<>> /\ stored' = {}
    <3>1. CASE "delete" \in settled
      BY <1>0, <1>1, <1>3, <3>1 DEF LateInv
    <3>2. CASE reviews[u].late
      <4>1. Quiet /\ stored = {} /\ (reviews[u].found = "yes" \/ entries = <<>>)
        BY <1>0, <1>1, <1>2, <3>2 DEF LateInv
      <4>2. Len(entries) <= 1
        BY <1>0, <4>1 DEF Quiet, OneRecord
      <4> QED
        BY <1>1, <1>3, <4>1, <4>2
    <3> QED
      BY <1>1, <3>1, <3>2
  <2> QED
    BY <1>1, <1>2, <2>1, <2>2, <2>3, <2>4 DEF LateInv
<1> QED
  BY <1>4, <1>6, <1>7, <1>8, <1>9 DEF RecordsInv

(* The invariant holds at first and every step keeps it.                   *)
LEMMA RecordsInvKept == RecordsSpec => []RecordsInv
<1>1. RecordsInit => RecordsInv
  <2>1. ASSUME RecordsInit
        PROVE  /\ route \in {"claim", "single"} /\ entries = <<>> /\ stored = {} /\ jobs = {}
               /\ settled = {} /\ ~deleted /\ ~doubled
               /\ submission = [todo |-> Order(route), found |-> "unknown", state |-> "open"]
               /\ \A u \in Users : reviews[u] = Resting
               /\ reviews = [u \in Users |-> Resting]
    BY <2>1, RecordsAssumption DEF RecordsInit
  <2>2. ASSUME RecordsInit
        PROVE  /\ submission \in [todo : Todos \cup {<<>>}, found : Lookup,
                                  state : {"open", "accepted", "failed"}]
               /\ submission.todo # <<>> /\ submission.state = "open" /\ submission.found = "unknown"
               /\ route = "claim" => submission.todo # <<"enqueue">>
    <3>1. CASE route = "claim"
      BY <2>1, <2>2, <3>1 DEF Order, Todos, Lookup
    <3>2. CASE route = "single"
      BY <2>1, <2>2, <3>2 DEF Order, Todos, Lookup
    <3> QED
      BY <2>1, <2>2, <3>1, <3>2
  <2>3. ASSUME RecordsInit PROVE RecordTypes
    <3>1. deleted \in BOOLEAN /\ doubled \in BOOLEAN
      BY <2>3 DEF RecordsInit
    <3>2. entries \in Seq(Entry) /\ jobs \subseteq Job /\ reviews \in [Users -> Wish]
      BY <2>1, <2>3, RestingIs
    <3> QED
      BY <2>1, <2>2, <2>3, <3>1, <3>2, RestingIs DEF RecordTypes
  <2>4. ASSUME RecordsInit PROVE StepsInv /\ OneRecord(doubled) /\ InsertInv /\ ResultInv
    <3>1. Inserters = {} /\ Len(entries) = 0
      BY <2>1, <2>2, <2>4 DEF Inserters
    <3> QED
      BY <2>1, <2>2, <2>4, <3>1 DEF StepsInv, OneRecord, InsertInv, ResultInv
  <2>5. ASSUME RecordsInit PROVE SeenInv /\ LateInv
    BY <2>1, <2>2, <2>5, RestingIs DEF SeenInv, LateInv
  <2> QED
    BY <2>3, <2>4, <2>5 DEF RecordsInv
<1>2. RecordsInv /\ [RecordsNext]_recordVars => RecordsInv'
  <2> SUFFICES ASSUME RecordsInv, [RecordsNext]_recordVars PROVE RecordsInv'
    OBVIOUS
  <2>1. CASE UploadSource \/ EnqueueFirst \/ InsertEntry
    BY <2>1, UploadKeeps, EnqueueKeeps, InsertKeeps
  <2>2. CASE SubmissionLooks \/ SubmissionWrites \/ SubmissionFails
    BY <2>2, SubmissionLooksKeeps, SubmissionWritesKeeps, SubmissionFailsKeeps
  <2>3. ASSUME NEW j \in jobs,
               JobLooks(j) \/ JobWrites(j) \/ Executes(j) \/ StepFails(j) \/ PassesOn(j)
                 \/ LogsOutputs(j)
        PROVE  RecordsInv'
    BY <2>3, LooksKeeps, WritesKeeps, ExecutesKeeps, FailsKeeps, PassesKeeps, LogsKeeps
  <2>4. ASSUME NEW u \in Users,
               AskReview(u) \/ ReviewLooks(u) \/ Corrects(u) \/ DeletesFolder(u)
                 \/ DeletesEntry(u) \/ ReviewFails(u)
        PROVE  RecordsInv'
    BY <2>4, AskKeeps, ReviewLooksKeeps, CorrectsKeeps, FolderKeeps, DeletesKeeps,
       ReviewFailsKeeps
  <2>5. CASE UNCHANGED recordVars
    BY <2>5 DEF recordVars, RecordsInv, RecordTypes, StepsInv, OneRecord, SeenInv, InsertInv,
                ResultInv, LateInv, Quiet, Inserters, Todos, Young
  <2> QED
    BY <2>1, <2>2, <2>3, <2>4, <2>5 DEF RecordsNext
<1> QED
  BY <1>1, <1>2, PTL DEF RecordsSpec

(* The record follows the document, whoever overlaps with whom: what was   *)
(* accepted has a record until a deletion is asked for and only one unless *)
(* two lookups found none at once; Completed comes with a result; what     *)
(* users asked for when all else had ended is there to stay.               *)
THEOREM RecordFollows == RecordsSpec => []RecordFollowsDocument
<1>1. RecordsInv => RecordFollowsDocument
  <2> SUFFICES ASSUME RecordsInv PROVE RecordFollowsDocument
    OBVIOUS
  <2>1. /\ RecordTypes /\ OneRecord(doubled) /\ SeenInv /\ ResultInv /\ LateInv
        /\ entries \in Seq(Entry) /\ deleted \in BOOLEAN /\ route \in {"claim", "single"}
    BY DEF RecordsInv, RecordTypes
  <2>2. submission.state = "accepted" /\ ~deleted => entries # <<>>
    BY <2>1 DEF SeenInv
  <2>3. Len(entries) <= 1 \/ doubled
    BY <2>1 DEF OneRecord
  <2>4. doubled => route = "single" \/ deleted
    BY <2>1 DEF SeenInv
  <2>5. \A i \in DOMAIN entries :
          entries[i].status = "Completed" => entries[i].result # Unset \/ deleted
    BY <2>1 DEF ResultInv
  <2>6. "delete" \in settled => entries = <<>> /\ stored = {}
    BY <2>1 DEF LateInv
  <2>7. entries # <<>> => Head(entries) = entries[1]
    BY <2>1
  <2>8. ~deleted =>
          /\ "correct" \in settled => Head(entries).result = "corrected"
          /\ "comment" \in settled => Head(entries).comment # Unset
    BY <2>1, <2>7 DEF LateInv
  <2> QED
    BY <2>2, <2>3, <2>4, <2>5, <2>6, <2>8 DEF RecordFollowsDocument
<1> QED
  BY <1>1, RecordsInvKept, PTL
===================================================================================
