----------------------------- MODULE ServiceContainer -----------------------------
(***************************************************************************)
(* AppContext, the dependency container that the three Python services     *)
(* share as source (libs/application/application_context.py), used by      *)
(* coroutines of one event loop.  The scope in use is an attribute of the  *)
(* container: every coroutine sets it, and it may change at every await.   *)
(* An action runs from one await to the next.                              *)
(***************************************************************************)
EXTENDS Integers, SequencesExt, FiniteSetsExt

CONSTANTS
  Callers,       \* the coroutines
  Lifetime,      \* the lifetime each service is registered with
  NoScope,       \* _current_scope_id is None
  MaxInstances,  \* bound: objects created
  MaxScopes      \* bound: scopes opened

Lifetimes == {"singleton", "transient", "scoped", "async_singleton", "async_scoped"}

Services == DOMAIN Lifetime

ASSUME ContainerAssumption ==
  /\ \A s \in Services : Lifetime[s] \in Lifetimes
  /\ {MaxInstances, MaxScopes} \subseteq Nat /\ NoScope \notin 1..MaxScopes

(* What add_singleton, add_scoped, add_async_singleton and add_async_scoped *)
(* have registered.                                                        *)
Registered(lifetime) == {s \in Services : Lifetime[s] = lifetime}

Singletons == Registered("singleton")

Scoped == Registered("scoped")

AsyncSingletons == Registered("async_singleton")

AsyncScoped == Registered("async_scoped")

VARIABLES
  current,    \* _current_scope_id
  singles,    \* _instances: the singletons, and
  scoped,     \* _scoped_instances: by scope, the instances by service
  caller,     \* what each coroutine does, and its scope
  made,       \* the number of objects created so far
  entered,    \* the objects whose __aenter__ has returned
  disposed,   \* the objects disposed of, in order
  got,        \* history: what each open scope's handle returned, by service
  stopping    \* shutdown_async: the singletons it still has to close

containerVars == <<current, singles, scoped, caller, made, entered, disposed, got, stopping>>

Empty == [s \in {} |-> 0]

With(f, s, i) == [x \in DOMAIN f \union {s} |-> IF x = s THEN i ELSE f[x]]

FreeCaller == [at |-> "free", scope |-> NoScope, outer |-> NoScope, old |-> NoScope,
         service |-> "", new |-> 0, handle |-> FALSE, left |-> <<>>, size |-> 0]

NotStopping == [at |-> "no", left |-> <<>>, size |-> 0]

ContainerInit ==
  /\ current = NoScope /\ singles = Empty /\ scoped = [x \in {} |-> Empty]
  /\ caller = [c \in Callers |-> FreeCaller] /\ made = 0 /\ entered = {} /\ disposed = <<>>
  /\ got = [x \in {} |-> Empty] /\ stopping = NotStopping

IsAsync(s) == s \in AsyncSingletons \union AsyncScoped

(* _scoped_instances.get(scope, {}).                                       *)
InScope(scope) == IF scope \in DOMAIN scoped THEN scoped[scope] ELSE Empty

Store(scope, s, i) == With(scoped, scope, With(InScope(scope), s, i))

Become(c, r) == caller' = [caller EXCEPT ![c] = r]

(* The program makes no further call when shutdown_async has returned.     *)
Ready(c) == caller[c].at = "free" /\ stopping.at # "done"

-------------------------------------------------------------------------------
(* create_scope: the scope becomes the current one of all coroutines.      *)
OpenScope(c) ==
  /\ Ready(c) /\ caller[c].scope = NoScope
  /\ \E scope \in 1..MaxScopes :
       /\ scope \notin DOMAIN got /\ scope - 1 \in DOMAIN got \union {0}
       /\ Become(c, [FreeCaller EXCEPT !.scope = scope, !.outer = current])
       /\ current' = scope
       /\ got' = With(got, scope, Empty)
  /\ UNCHANGED <<singles, scoped, made, entered, disposed, stopping>>

(* _create_instance.                                                       *)
Create(result) == made < MaxInstances /\ made' = made + 1 /\ result = made'

(* get_service in the scope "scope": a singleton or a scoped service is    *)
(* created once; every other call creates an object, that of an async      *)
(* service, too, which nobody enters.                                      *)
ResolveSingleton(s, result) ==
  /\ IF s \in DOMAIN singles
       THEN result = singles[s] /\ UNCHANGED <<singles, made>>
       ELSE Create(result) /\ singles' = With(singles, s, made')
  /\ UNCHANGED scoped

ResolveScoped(s, scope, result) ==
  /\ IF s \in DOMAIN InScope(scope)
       THEN result = InScope(scope)[s] /\ UNCHANGED <<scoped, made>>
       ELSE Create(result) /\ scoped' = Store(scope, s, made')
  /\ UNCHANGED singles

Resolve(s, scope, result) ==
  CASE s \in Singletons -> ResolveSingleton(s, result)
    [] s \in Scoped     -> ResolveScoped(s, scope, result)
    [] OTHER            -> Create(result) /\ UNCHANGED <<singles, scoped>>

Note(scope, s, i) ==
  got' = [got EXCEPT ![scope] =
            IF s \in DOMAIN @ \/ s \notin Scoped THEN @ ELSE With(@, s, i)]

(* Mutant: the handle does not make its scope the current one.             *)
GetFromScopeAsIs(c, s) ==
  /\ Ready(c) /\ caller[c].scope # NoScope /\ current # NoScope
  /\ \E i \in 1..MaxInstances : Resolve(s, current, i) /\ Note(caller[c].scope, s, i)
  /\ UNCHANGED <<current, caller, entered, disposed, stopping>>

(* ServiceScope.get_service: sets the scope, resolves and restores it      *)
(* without an await.                                                       *)
GetFromScope(c, s) ==
  /\ Ready(c) /\ caller[c].scope # NoScope
  /\ \E i \in 1..MaxInstances : Resolve(s, caller[c].scope, i) /\ Note(caller[c].scope, s, i)
  /\ UNCHANGED <<current, caller, entered, disposed, stopping>>

(* get_service of the container itself: whatever scope is current; without *)
(* one a scoped service is refused.                                        *)
GetDirect(c, s) ==
  /\ Ready(c)
  /\ s \in Scoped => current # NoScope
  /\ \E i \in 1..MaxInstances : Resolve(s, current, i)
  /\ UNCHANGED <<current, caller, entered, disposed, got, stopping>>

-------------------------------------------------------------------------------
(* get_service_async, through a handle or not, up to the __aenter__ of a   *)
(* new object.  One that exists is returned at once.                       *)
Known(s, scope) ==
  IF s \in AsyncSingletons THEN s \in DOMAIN singles ELSE s \in DOMAIN InScope(scope)

BeginEnter(c, s) ==
  \E handle \in {TRUE, FALSE} :
    LET scope == IF handle THEN caller[c].scope ELSE current IN
    /\ Ready(c) /\ IsAsync(s)
    /\ handle => caller[c].scope # NoScope
    /\ s \in AsyncScoped => scope # NoScope
    /\ ~Known(s, scope)
    /\ made < MaxInstances /\ made' = made + 1
    /\ current' = scope
    /\ Become(c, [caller[c] EXCEPT !.at = "enter", !.old = current, !.service = s,
                                   !.new = made', !.handle = handle])
    /\ UNCHANGED <<singles, scoped, entered, disposed, got, stopping>>

(* The handle's finally: the scope that was current when it began.         *)
Restored(c) == IF caller[c].handle THEN caller[c].old ELSE current

Back(c) == [FreeCaller EXCEPT !.scope = caller[c].scope, !.outer = caller[c].outer]

(* _create_async_instance raises: the object is dropped.                   *)
EnterFails(c) ==
  /\ caller[c].at = "enter"
  /\ current' = Restored(c) /\ Become(c, Back(c))
  /\ UNCHANGED <<singles, scoped, made, entered, disposed, got, stopping>>

(* It returns: the object is kept, in the scope that is current by now.    *)
EnterReturns(c) ==
  /\ caller[c].at = "enter"
  /\ entered' = entered \union {caller[c].new}
  /\ LET s == caller[c].service IN
     IF s \in AsyncSingletons
       THEN singles' = With(singles, s, caller[c].new) /\ UNCHANGED scoped
       ELSE scoped' = Store(current, s, caller[c].new) /\ UNCHANGED singles
  /\ current' = Restored(c) /\ Become(c, Back(c))
  /\ UNCHANGED <<made, disposed, got, stopping>>

-------------------------------------------------------------------------------
(* The end of create_scope.  When the services of the scope are disposed   *)
(* of, its entry goes and the outer scope is the current one.              *)
ScopeClosed(c) ==
  /\ scoped' = [x \in DOMAIN scoped \ {caller[c].scope} |-> scoped[x]]
  /\ current' = caller[c].outer
  /\ Become(c, FreeCaller)

AsyncOf(f) == SetToSeq({f[s] : s \in {x \in DOMAIN f : IsAsync(x)}})

(* _cleanup_scope goes through the dictionary of the scope and awaits the  *)
(* disposal of each async service.                                         *)
CloseScope(c) ==
  LET mine == InScope(caller[c].scope) IN
  /\ Ready(c) /\ caller[c].scope # NoScope
  /\ IF AsyncOf(mine) = <<>> THEN ScopeClosed(c)
     ELSE /\ Become(c, [caller[c] EXCEPT !.at = "close", !.left = AsyncOf(mine),
                                         !.size = Cardinality(DOMAIN mine)])
          /\ UNCHANGED <<current, scoped>>
  /\ UNCHANGED <<singles, made, entered, disposed, got, stopping>>

(* A dictionary that shutdown_async has dropped meanwhile changes no more. *)
SizeKept(c) ==
  stopping.at = "done" \/ Cardinality(DOMAIN InScope(caller[c].scope)) = caller[c].size

(* Mutant: it starts again when the dictionary has changed.                *)
DisposalRestarts(c) ==
  /\ caller[c].at = "close"
  /\ disposed' = Append(disposed, Head(caller[c].left))
  /\ LET mine == InScope(caller[c].scope) IN
     IF ~SizeKept(c)
       THEN /\ Become(c, [caller[c] EXCEPT !.left = AsyncOf(mine),
                                           !.size = Cardinality(DOMAIN mine)])
            /\ UNCHANGED <<current, scoped>>
       ELSE IF Len(caller[c].left) > 1
              THEN /\ Become(c, [caller[c] EXCEPT !.left = Tail(@)])
                   /\ UNCHANGED <<current, scoped>>
              ELSE ScopeClosed(c)
  /\ UNCHANGED <<singles, made, entered, got, stopping>>

(* When the dictionary has changed meanwhile the loop raises RuntimeError: *)
(* entry and current scope stay as they are.                               *)
DisposalReturns(c) ==
  /\ caller[c].at = "close"
  /\ disposed' = Append(disposed, Head(caller[c].left))
  /\ IF ~SizeKept(c) THEN Become(c, FreeCaller) /\ UNCHANGED <<current, scoped>>
     ELSE IF Len(caller[c].left) > 1
            THEN /\ Become(c, [caller[c] EXCEPT !.left = Tail(@)])
                 /\ UNCHANGED <<current, scoped>>
            ELSE ScopeClosed(c)
  /\ UNCHANGED <<singles, made, entered, got, stopping>>

(* A disposal that raises leaves the rest undone, too.                     *)
DisposalRaises(c) ==
  /\ caller[c].at = "close"
  /\ Become(c, FreeCaller)
  /\ UNCHANGED <<current, singles, scoped, made, entered, disposed, got, stopping>>

-------------------------------------------------------------------------------
(* shutdown_async: the async singletons are closed, all is forgotten.      *)
Forget ==
  /\ singles' = Empty /\ scoped' = [x \in {} |-> Empty]
  /\ stopping' = [NotStopping EXCEPT !.at = "done"]

Shutdown ==
  /\ stopping.at = "no"
  /\ IF AsyncOf(singles) = <<>> THEN Forget
     ELSE /\ stopping' = [at |-> "closing", left |-> AsyncOf(singles),
                          size |-> Cardinality(DOMAIN singles)]
          /\ UNCHANGED <<singles, scoped>>
  /\ UNCHANGED <<current, caller, made, entered, disposed, got>>

ShutdownGoesOn ==
  /\ stopping.at = "closing"
  /\ disposed' = Append(disposed, Head(stopping.left))
  /\ IF Cardinality(DOMAIN singles) # stopping.size
       THEN /\ stopping' = [NotStopping EXCEPT !.at = "failed"]
            /\ UNCHANGED <<singles, scoped>>
       ELSE IF Len(stopping.left) > 1
              THEN /\ stopping' = [stopping EXCEPT !.left = Tail(@)]
                   /\ UNCHANGED <<singles, scoped>>
              ELSE Forget
  /\ UNCHANGED <<current, caller, made, entered, got>>

ContainerNext ==
  \/ \E c \in Callers :
       \/ OpenScope(c) \/ CloseScope(c) \/ DisposalReturns(c) \/ DisposalRaises(c)
       \/ EnterReturns(c) \/ EnterFails(c)
       \/ \E s \in Services : GetFromScope(c, s) \/ GetDirect(c, s) \/ BeginEnter(c, s)
  \/ Shutdown \/ ShutdownGoesOn

ContainerSpec == ContainerInit /\ [][ContainerNext]_containerVars

-------------------------------------------------------------------------------
(* What a scope's handle returned of a scoped service is what it returns   *)
(* as long as the scope is open, and no other scope's handle returns it,   *)
(* although the current scope is shared and changes under every coroutine. *)
SyncScopeIsolated ==
  /\ stopping.at # "done" =>
       \A c \in Callers : caller[c].scope # NoScope =>
         LET seen == got[caller[c].scope] IN
         \A s \in DOMAIN seen :
           s \in DOMAIN InScope(caller[c].scope) /\ InScope(caller[c].scope)[s] = seen[s]
  /\ \A x, y \in DOMAIN got : \A s \in DOMAIN got[x] \intersect DOMAIN got[y] :
       got[x][s] = got[y][s] => x = y

(* The life of an async object: nobody is given a kept one that was not    *)
(* entered, and none is disposed of twice or without having been entered,  *)
(* even when it was kept in the scope of another coroutine.                *)
LifecycleKept ==
  /\ \A s \in DOMAIN singles : IsAsync(s) => singles[s] \in entered
  /\ \A x \in DOMAIN scoped : \A s \in DOMAIN scoped[x] :
       IsAsync(s) => scoped[x][s] \in entered
  /\ IsInjective(disposed) /\ ToSet(disposed) \subseteq entered
===============================================================================
