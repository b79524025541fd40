------------------------------- MODULE Events -------------------------------
(***************************************************************************)
(* Events of the editor (shared/lib/event, autocmd, events, entity): one   *)
(* autocommand whose emitter is fired with the entity it is about (the     *)
(* buffer that is wiped out), listeners of the event itself, listeners at  *)
(* one entity, which a GlobalEvent calls from a listener of its own, and   *)
(* the registry of the objects that live as long as their entity.  All of  *)
(* it happens on the main thread, and an autocommand does not nest; but a  *)
(* listener may subscribe, dispose of subscriptions and raise.             *)
(***************************************************************************)
EXTENDS Naturals, FiniteSets, SequencesExt

CONSTANTS
    Subs,       \* the subscriptions of a behaviour, each with a listener of its own
    Entities,   \* what the event may be about
    NoSub, NoEntity,
    MaxHeard    \* bound: the event is fired while no listener has returned that often

ASSUME NobodyAssumption == NoSub \notin Subs /\ NoEntity \notin Entities
ASSUME HeardAssumption  == MaxHeard \in Nat

VARIABLES
    base,       \* _listeners of the emitter: subscriptions, and NoSub for _select_listener
    cached,     \* _cached of the GlobalEvent: the set at each entity
    how,        \* how each subscription was made: "none", "plain", "once", "at", "entity"
    of,         \* the entity of those made at one
    alive,      \* once subscriptions whose alive_disposable is set
    entities,   \* _entities of the registry: the subscription made for each, or NoSub
    walk,       \* the fire under way
    heard,      \* history: how often each listener was called and returned
    due         \* history: subscriptions that the fire under way must call

eventVars == <<base, cached, how, of, alive, entities, walk, heard, due>>

NoWalk == [of |-> NoEntity, todo |-> <<>>, at |-> {}, selecting |-> FALSE, failed |-> FALSE,
           calling |-> NoSub]
At(e) == {s \in Subs : how[s] \in {"at", "entity"} /\ of[s] = e}

\* The GlobalEvent subscribes when it is made.
EventInit ==
    /\ base     = <<NoSub>>
    /\ cached   = [e \in Entities |-> {}]
    /\ how      = [s \in Subs |-> "none"]
    /\ of       = [s \in Subs |-> NoEntity]
    /\ alive    = {}
    /\ entities = [e \in Entities |-> NoSub]
    /\ walk     = NoWalk
    /\ heard    = [s \in Subs |-> 0]
    /\ due      = {}

------------------------------------------------------------------------------
(* What the program does between two events, or a listener while it is called. *)

Free == walk = NoWalk \/ walk.calling # NoSub

Subscribe(s) ==
    /\ Free /\ how[s] = "none"
    /\ \E h \in {"plain", "once"} :
           /\ how'   = [how EXCEPT ![s] = h]
           /\ alive' = IF h = "once" THEN alive \cup {s} ELSE alive
    /\ base' = Append(base, s)
    /\ UNCHANGED <<cached, of, entities, walk, heard, due>>

SubscribeAt(s, e) ==
    /\ Free /\ how[s] = "none"
    /\ how'    = [how EXCEPT ![s] = "at"]
    /\ of'     = [of EXCEPT ![s] = e]
    /\ cached' = [cached EXCEPT ![e] = @ \cup {s}]
    /\ UNCHANGED <<base, alive, entities, walk, heard, due>>

\* EntityRegistry.get makes an entity that it does not know, and listens for
\* its end.  An entity that nobody holds any more leaves the weak dictionary,
\* but its listener stays.
GetEntity(s, e) ==
    /\ Free /\ how[s] = "none" /\ entities[e] = NoSub
    /\ how'      = [how EXCEPT ![s] = "entity"]
    /\ of'       = [of EXCEPT ![s] = e]
    /\ cached'   = [cached EXCEPT ![e] = @ \cup {s}]
    /\ entities' = [entities EXCEPT ![e] = s]
    /\ UNCHANGED <<base, alive, walk, heard, due>>

DropEntity(e) ==
    /\ entities[e] # NoSub
    /\ entities' = [entities EXCEPT ![e] = NoSub]
    /\ UNCHANGED <<base, cached, how, of, alive, walk, heard, due>>

\* Disposing again of a listener of the event does nothing; disposing again of
\* one at an entity raises KeyError in whoever does it (a listener then raises).
Dispose(s) ==
    /\ Free /\ how[s] \in {"plain", "once", "at"}
    /\ IF how[s] = "at"
       THEN s \in cached[of[s]] /\ cached' = [cached EXCEPT ![of[s]] = @ \ {s}] /\ UNCHANGED base
       ELSE base' = RemoveFirst(base, s) /\ UNCHANGED cached
    /\ due' = due \ {s}
    /\ UNCHANGED <<how, of, alive, entities, walk, heard>>

------------------------------------------------------------------------------
(* EventEmitter.fire, over a copy of the listeners.                         *)

Fire(e) ==
    /\ walk = NoWalk /\ \A s \in Subs : heard[s] < MaxHeard
    /\ walk' = [NoWalk EXCEPT !.of = e, !.todo = base]
    /\ due'  = {s \in Subs : s \in Range(base) \/ s \in cached[e]}
    /\ UNCHANGED <<base, cached, how, of, alive, entities, heard>>

NextListener == walk.of # NoEntity /\ walk.calling = NoSub /\ ~walk.selecting

\* A wrapper of once that was called before calls nobody.
CallPlain ==
    /\ NextListener /\ walk.todo # <<>> /\ Head(walk.todo) # NoSub
    /\ LET s == Head(walk.todo)
       IN  IF how[s] = "once" /\ s \notin alive
           THEN walk' = [walk EXCEPT !.todo = Tail(@)] /\ UNCHANGED due
           ELSE walk' = [walk EXCEPT !.todo = Tail(@), !.calling = s] /\ due' = due \ {s}
    /\ UNCHANGED <<base, cached, how, of, alive, entities, heard>>

\* _select_listener walks over a copy of the set.
SelectListener ==
    /\ NextListener /\ walk.todo # <<>> /\ Head(walk.todo) = NoSub
    /\ walk' = [walk EXCEPT !.todo = Tail(@), !.selecting = TRUE, !.at = cached[walk.of]]
    /\ UNCHANGED <<base, cached, how, of, alive, entities, heard, due>>

\* The registry's own listener drops whatever entity there is.
CallAt_Later(s) ==
    /\ walk.selecting /\ walk.calling = NoSub /\ s \in walk.at
    /\ due' = due \ {s}
    /\ IF how[s] = "entity"
       THEN /\ entities' = [entities EXCEPT ![walk.of] = IF @ = s THEN s ELSE NoSub]
            /\ heard' = [heard EXCEPT ![s] = @ + 1]
            /\ walk' = [walk EXCEPT !.at = @ \ {s}]
       ELSE /\ walk' = [walk EXCEPT !.at = @ \ {s}, !.calling = s]
            /\ UNCHANGED <<entities, heard>>
    /\ UNCHANGED <<base, cached, how, of, alive>>
CallAt(s) ==
    /\ walk.selecting /\ walk.calling = NoSub /\ s \in walk.at
    /\ due' = due \ {s}
    /\ IF how[s] = "entity"
       THEN /\ entities' = [entities EXCEPT ![walk.of] = NoSub]
            /\ heard' = [heard EXCEPT ![s] = @ + 1]
            /\ walk' = [walk EXCEPT !.at = @ \ {s}]
       ELSE /\ walk' = [walk EXCEPT !.at = @ \ {s}, !.calling = s]
            /\ UNCHANGED <<entities, heard>>
    /\ UNCHANGED <<base, cached, how, of, alive>>

\* once disposes of its subscription when the listener has returned.
ListenerReturns ==
    /\ walk.calling # NoSub
    /\ LET s == walk.calling
       IN  IF how[s] = "once"
           THEN base' = RemoveFirst(base, s) /\ alive' = alive \ {s}
           ELSE UNCHANGED <<base, alive>>
    /\ heard' = [heard EXCEPT ![walk.calling] = @ + 1]
    /\ walk' = [walk EXCEPT !.calling = NoSub]
    /\ UNCHANGED <<cached, how, of, entities, due>>

\* At an entity what a listener raises is kept till all were called; anywhere
\* else it ends the walk.
ListenerRaises ==
    /\ walk.calling # NoSub
    /\ IF walk.selecting
       THEN walk' = [walk EXCEPT !.calling = NoSub, !.failed = TRUE] /\ UNCHANGED due
       ELSE walk' = NoWalk /\ due' = {}
    /\ UNCHANGED <<base, cached, how, of, alive, entities, heard>>

\* The group of exceptions ends the walk over the listeners of the event.
EndSelection_Unasked ==
    /\ walk.selecting /\ walk.at = {} /\ walk.calling = NoSub
    /\ walk' = NoWalk
    /\ UNCHANGED <<base, cached, how, of, alive, entities, heard, due>>
EndSelection ==
    /\ walk.selecting /\ walk.at = {} /\ walk.calling = NoSub
    /\ IF walk.failed THEN walk' = NoWalk /\ due' = due \cap At(walk.of)
       ELSE walk' = [walk EXCEPT !.selecting = FALSE] /\ UNCHANGED due
    /\ UNCHANGED <<base, cached, how, of, alive, entities, heard>>

EndFire ==
    /\ NextListener /\ walk.todo = <<>>
    /\ walk' = NoWalk
    /\ UNCHANGED <<base, cached, how, of, alive, entities, heard, due>>

EventNext ==
    \/ \E s \in Subs : Subscribe(s) \/ Dispose(s) \/ CallAt(s)
    \/ \E s \in Subs, e \in Entities : SubscribeAt(s, e) \/ GetEntity(s, e)
    \/ \E e \in Entities : DropEntity(e) \/ Fire(e)
    \/ CallPlain \/ SelectListener \/ ListenerReturns \/ ListenerRaises \/ EndSelection \/ EndFire

EventSpec == EventInit /\ [][EventNext]_eventVars

------------------------------------------------------------------------------
(* Properties                                                               *)

EventTypeOK ==
    /\ Range(base) \subseteq Subs \cup {NoSub} /\ IsInjective(base)
    /\ \A e \in Entities : cached[e] \subseteq At(e) /\ entities[e] \in At(e) \cup {NoSub}
    /\ \A s \in alive : how[s] = "once"
    /\ walk.of \in Entities \cup {NoEntity} /\ walk.at \subseteq Subs /\ walk.calling \in Subs \cup {NoSub}
    /\ due \subseteq Subs

\* When a fire is over, every listener that was subscribed when it began and not
\* disposed of meanwhile has been called: those at the entity also when some of
\* them raised, the others unless one of them did.
EveryListenerHears == walk = NoWalk => due = {}

\* A listener subscribed once returns once; it is called again only after it
\* raised, and when it has returned nothing of it is left.
OnceIsOnce ==
    \A s \in Subs : how[s] = "once" =>
        /\ heard[s] <= 1 /\ (walk.calling = s => heard[s] = 0)
        /\ s \notin alive => s \notin Range(base)

\* Every listener of an event hears it, whatever the others raise or dispose of,
\* and a listener subscribed once returns once.
ListenersHear == EveryListenerHears /\ OnceIsOnce

\* No object outlives its entity in the registry: when the end of the entity has
\* been told, only one that a listener asked for meanwhile can be there.
EntitiesEnd ==
    [][walk.selecting /\ ~walk'.selecting =>
           entities'[walk.of] = NoSub \/ heard[entities'[walk.of]] = 0]_eventVars
=============================================================================
