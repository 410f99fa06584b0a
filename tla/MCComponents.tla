------------------------------ MODULE MCComponents ------------------------------
(* Values for the constants of the components that share no state with each *)
(* other: one of them moves in each behaviour, the others stay in their     *)
(* initial states.                                                          *)
EXTENDS SchemaVault, ClaimIntake, ReviewConsole, ServiceContainer, ModelCalls, HttpClient,
        FieldScores, ContentRecords

VARIABLE part

Init ==
  /\ part \in {"vault", "intake", "console", "container", "calls", "http", "scores",
             "records"}
  /\ part = "calls" \/ (/\ copy = "workflow" /\ limit = (CHOOSE l \in Limits : TRUE)
                        /\ prompt = Placed(CHOOSE p \in Prompts : TRUE))
  /\ part = "scores" \/ task = (CHOOSE t \in Tasks : TRUE)
  /\ part = "records" \/ route = "claim"
  /\ VaultInit /\ IntakeInit /\ ConsoleInit /\ ContainerInit /\ HttpInit /\ CallInit
  /\ ScoresInit /\ RecordsInit

Next ==
  /\ UNCHANGED part
  /\ \/ part = "vault" /\ VaultNext
        /\ UNCHANGED <<intakeVars, consoleVars, containerVars, callVars,
                       httpVars, scoreVars, recordVars>>
     \/ part = "intake" /\ IntakeNext
        /\ UNCHANGED <<vaultVars, consoleVars, containerVars, callVars,
                       httpVars, scoreVars, recordVars>>
     \/ part = "console" /\ ConsoleNext
        /\ UNCHANGED <<vaultVars, intakeVars, containerVars, callVars,
                       httpVars, scoreVars, recordVars>>
     \/ part = "container" /\ ContainerNext
        /\ UNCHANGED <<vaultVars, intakeVars, consoleVars, callVars,
                       httpVars, scoreVars, recordVars>>
     \/ part = "calls" /\ CallNext
        /\ UNCHANGED <<vaultVars, intakeVars, consoleVars, containerVars,
                       httpVars, scoreVars, recordVars>>
     \/ part = "http" /\ HttpNext
        /\ UNCHANGED <<vaultVars, intakeVars, consoleVars, containerVars,
                       callVars, scoreVars, recordVars>>
     \/ part = "scores" /\ ScoresNext
        /\ UNCHANGED <<vaultVars, intakeVars, consoleVars, containerVars,
                       callVars, httpVars, recordVars>>
     \/ part = "records" /\ RecordsNext
        /\ UNCHANGED <<vaultVars, intakeVars, consoleVars, containerVars,
                       callVars, httpVars, scoreVars>>

Spec ==
  Init /\ [][Next]_<<vaultVars, intakeVars, consoleVars, containerVars, callVars, httpVars,
                     scoreVars, recordVars, part>>

(* Schemas: two that are registered, and one for each rule of the check.    *)
Titled ==
  [named |-> TRUE, ext |-> "json", sized |-> TRUE, size |-> 1, json |-> "object",
   type |-> "object", properties |-> TRUE, draft |-> TRUE, keywords |-> {},
   refs |-> {"defs"}, title |-> "Claim", fallback |-> "form"]

Untitled == [Titled EXCEPT !.title = "", !.size = MaxBytes, !.refs = {}]

SomeUploads ==
  {Titled, Untitled,
   [Titled EXCEPT !.named = FALSE], [Titled EXCEPT !.ext = "py"],
   [Titled EXCEPT !.sized = FALSE], [Titled EXCEPT !.size = MaxBytes + 1],
   [Titled EXCEPT !.json = "list"], [Titled EXCEPT !.type = "array"],
   [Titled EXCEPT !.properties = FALSE], [Titled EXCEPT !.draft = FALSE],
   [Titled EXCEPT !.keywords = {"x-a"}], [Titled EXCEPT !.refs = {"http"}]}

(* Files: two that are accepted, one whose name is sanitised to the first's *)
(* and one that is not what its extension says.                             *)
Form ==
  [name |-> "a", safe |-> "a", ext |-> "pdf", magic |-> "pdf", type |-> "pdf",
   sized |-> TRUE, megabytes |-> 1]

Photo ==
  [Form EXCEPT !.name = "b", !.safe = "b", !.ext = "jpeg", !.magic = "jpeg",
               !.type = "octet-stream", !.megabytes = MaxMegabytes]

SomeFiles ==
  {Form, Photo, [Form EXCEPT !.name = "a?"],
   [Form EXCEPT !.name = "c", !.safe = "c", !.magic = "exe"]}

OneEach == [d \in Documents |-> IF d = "form" THEN "b1" ELSE "b2"]

(* A service of each lifetime that is kept.                                 *)
SomeServices ==
  [settings |-> "singleton", client |-> "async_singleton",
   session |-> "scoped", browser |-> "async_scoped"]

(* Messages: instructions, a short one, a framework message that is too     *)
(* long, and a dictionary with the same ends.                               *)
Kinds ==
  {[role |-> "system", size |-> 3, ends |-> "s", plain |-> FALSE],
   [role |-> "user", size |-> 2, ends |-> "a", plain |-> TRUE],
   [role |-> "user", size |-> 6, ends |-> "b", plain |-> FALSE],
   [role |-> "user", size |-> 5, ends |-> "b", plain |-> TRUE]}

SomePrompts == UNION {[1 .. n -> Kinds] : n \in 1 .. 3}

Roomy ==
  [enabled |-> TRUE, again |-> TRUE, systems |-> TRUE, total |-> 7, each |-> 4,
   last |-> 2, head |-> 2, tail |-> 1]

SomeLimits ==
  {Roomy, [Roomy EXCEPT !.systems = FALSE], [Roomy EXCEPT !.enabled = FALSE],
   [Roomy EXCEPT !.total = 4, !.each = 5, !.last = 3, !.head = 1]}

(* Extractions: flat and nested fields; a field and an object are called   *)
(* "confidence", one has a key with an underscore.                         *)
SomeExtractions ==
  {<<[path |-> <<"amount">>, value |-> "x"], [path |-> <<"more", "_note">>, value |-> "y"]>>,
   <<[path |-> <<"items", "0", "amount">>, value |-> "x"],
     [path |-> <<"items", "1", "amount">>, value |-> "x"],
     [path |-> <<"total">>, value |-> "y"]>>,
   <<[path |-> <<"check", "confidence">>, value |-> "y"],
     [path |-> <<"check", "value">>, value |-> "x"],
     [path |-> <<"amount">>, value |-> "zero"]>>,
   <<[path |-> <<"check", "confidence", "low">>, value |-> "x"],
     [path |-> <<"check", "confidence", "high">>, value |-> "y"],
     [path |-> <<"amount">>, value |-> "null"]>>,
   <<>>}

(* Lines that equal or contain a value; one line that has no words.  Some   *)
(* scores have more than three digits, one is next to nothing, and one is   *)
(* half way between two thousandths.                                        *)
SomeLines ==
  {[equals |-> {"x"}, contains |-> {"x"}, words |-> {17989, 18000}],
   [equals |-> {"y"}, contains |-> {"x", "y"}, words |-> {One}],
   [equals |-> {}, contains |-> {"y", "zero"}, words |-> {16990}]}

SomeScans ==
  UNION {[1 .. n -> SomeLines] : n \in 0 .. 2}
    \union {<<[equals |-> {}, contains |-> {}, words |-> {}]>>}

SomeTexts ==
  UNION {[1 .. n -> {[text |-> "x", score |-> 18001], [text |-> "y", score |-> 0],
                     [text |-> "y", score |-> 9]}] : n \in 0 .. 3}
===============================================================================
