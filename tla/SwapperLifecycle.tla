-------------------------- MODULE SwapperLifecycle --------------------------
(***************************************************************************)
(* How stored swaps, chain events and the wrappers are brought together:   *)
(* Swapper.init() and stop(), ISwapWrapper.init() with its event queue,    *)
(* UnifiedSwapEventListener, and UnifiedSwapStorage with its cache of weak *)
(* references to swap objects.  What a swap does with an event is the      *)
(* subject of the other modules; here the state of a swap is how many      *)
(* steps of its escrow it has seen, and an event or a sync never takes it  *)
(* back.  A start after a crash is an initial state: rows are behind the   *)
(* chain, memory is empty.                                                 *)
(***************************************************************************)
EXTENDS Integers, FiniteSets, Sequences

CONSTANTS
  Swaps,
  Order,      \* sequence of the wrappers, as Swapper.init() starts them
  TypeOf,     \* [Swaps -> wrappers]
  LastStep,   \* steps an escrow goes through
  MaxObjects  \* bound: objects of a swap that are alive at a time

ASSUME LifecycleAssumption ==
  /\ LastStep \in Nat \ {0} /\ MaxObjects \in Nat \ {0}
  /\ \A s \in Swaps : \E i \in DOMAIN Order : Order[i] = TypeOf[s]

VARIABLES
  chain,     \* per swap: steps its escrow has gone through
  notified,  \* events the chain will hand to the SDK, oldest first
  row,       \* per swap: the stored state, or NoRow
  cache,     \* per swap: the object the weak reference leads to, or None
  mem,       \* per swap and object: its state
  held,      \* per swap: the object the application holds, or None
  reads,     \* queries whose rows are read and not yet revived
  run,       \* the _init() under way: the wrapper it is at, 0 when there is none
  initialized, stopping, stopped,
  events,    \* unifiedChainEvents: "off", "on", "stopped"
  phase,     \* per wrapper: how far init() is
  listener,  \* per wrapper: what is registered with the event listener
  queue,     \* per wrapper: the event queue of init()
  sync,      \* per swap: what checkPastSwaps() has of it
  unsynced,  \* swaps whose sync failed
  removed,   \* swaps that were removed as expired
  overtaken  \* swaps of which an object was revived from a row already replaced

storeVars == <<row, cache, mem, held, reads>>
initVars  == <<run, initialized, stopping, stopped, events, phase, listener>>
lifeVars  == <<chain, notified, storeVars, initVars, queue, sync, unsynced, removed, overtaken>>

NoRow == -1
None  == 0
States == 0..LastStep
Wrappers == {Order[i] : i \in DOMAIN Order}
NoSync == [id |-> None, answer |-> NoRow, done |-> FALSE]

LifecycleInit ==
  /\ chain \in [Swaps -> States]
  /\ row \in [Swaps -> States \cup {NoRow}]
  /\ \A s \in Swaps : row[s] <= chain[s] /\ (row[s] = NoRow => chain[s] = 0)
  /\ notified = <<>> /\ reads = {}
  /\ cache = [s \in Swaps |-> None] /\ held = [s \in Swaps |-> None]
  /\ mem = [s \in Swaps |-> [o \in 1..MaxObjects |-> 0]]
  /\ run = 0 /\ initialized = FALSE /\ stopping = FALSE /\ stopped = FALSE /\ events = "off"
  /\ phase = [w \in Wrappers |-> "off"] /\ listener = [w \in Wrappers |-> "none"]
  /\ queue = [w \in Wrappers |-> <<>>] /\ sync = [s \in Swaps |-> NoSync]
  /\ unsynced = {} /\ removed = {} /\ overtaken = {}

-----------------------------------------------------------------------------
(* UnifiedSwapStorage *)

Queued(s) == {queue[TypeOf[s]][i][3] : i \in {j \in DOMAIN queue[TypeOf[s]] : queue[TypeOf[s]][j][1] = s}}

\* The objects of a swap that something refers to.
Alive(s) == ({held[s], sync[s].id} \cup Queued(s)) \ {None}

\* The garbage collector may take any object nothing refers to.
Collect(s) ==
  /\ cache[s] # None /\ cache[s] \notin Alive(s)
  /\ cache' = [cache EXCEPT ![s] = None]
  /\ mem' = [mem EXCEPT ![s][cache[s]] = 0]
  /\ UNCHANGED <<chain, notified, row, held, reads, initVars, queue, sync, unsynced, removed, overtaken>>

Free(s) == 1..MaxObjects \ (Alive(s) \cup {cache[s]})

\* query(), first half: the rows are read ...
Read(who, s, event) == [who |-> who, s |-> s, event |-> event, row |-> row[s]]

\* ... second half: a cached object is preferred to the row.
Cached(r) == cache[r.s]

Object(r, id) == IF Cached(r) # None THEN id = Cached(r) ELSE id \in Free(r.s)

StateOf(r, id) == IF Cached(r) # None THEN mem[r.s][id] ELSE r.row

\* Between the two halves another query may have revived the swap, saved it and
\* dropped it again: the row is an old one.
Overtaken(r) == IF Cached(r) = None /\ r.row # row[r.s] THEN {r.s} ELSE {}

Revive(r, id) ==
  /\ Object(r, id)
  /\ cache' = [cache EXCEPT ![r.s] = id]
  /\ mem' = [mem EXCEPT ![r.s][id] = StateOf(r, id)]
  /\ overtaken' = overtaken \cup Overtaken(r)

\* Mutant: save() leaves the cache alone.
SaveUncached(s, id, state) ==
  /\ row' = [row EXCEPT ![s] = state]
  /\ UNCHANGED cache

\* save(): the object becomes the cached one.
Save(s, id, state) ==
  /\ row' = [row EXCEPT ![s] = state]
  /\ cache' = [cache EXCEPT ![s] = id]

Later(a, b) == IF a > b THEN a ELSE b

\* An object takes a state, at least the one it has, and is saved.
Reach(s, id, old, state) ==
  /\ mem' = [mem EXCEPT ![s][id] = Later(old, state)]
  /\ Save(s, id, Later(old, state))

-----------------------------------------------------------------------------
(* The chain and the application *)

ChainMoves(s) ==
  /\ row[s] # NoRow /\ s \notin removed /\ chain[s] < LastStep
  /\ chain' = [chain EXCEPT ![s] = @ + 1]
  /\ notified' = IF events = "on" THEN Append(notified, <<s, chain[s] + 1>>) ELSE notified
  /\ UNCHANGED <<storeVars, initVars, queue, sync, unsynced, removed, overtaken>>

\* A quote is initiated: from now on it is stored.
Initiate(s) ==
  /\ initialized /\ row[s] = NoRow /\ held[s] = None /\ s \notin removed
  /\ \E id \in Free(s) :
       /\ held' = [held EXCEPT ![s] = id]
       /\ mem' = [mem EXCEPT ![s][id] = 0]
       /\ Save(s, id, 0)
  /\ UNCHANGED <<chain, notified, reads, initVars, queue, sync, unsynced, removed, overtaken>>

\* getAllSwaps(), getSwapById() and the like; also before init().
ReadByApp(s) ==
  /\ row[s] # NoRow /\ \A r \in reads : r.who = "app" => r.s # s
  /\ reads' = reads \cup {Read("app", s, 0)}
  /\ UNCHANGED <<chain, notified, row, cache, mem, held, initVars, queue, sync, unsynced, removed, overtaken>>

GivenToApp(r) ==
  /\ r.who = "app" /\ reads' = reads \ {r}
  /\ \E id \in 1..MaxObjects : Revive(r, id) /\ held' = [held EXCEPT ![r.s] = id]
  /\ UNCHANGED <<chain, notified, row, initVars, queue, sync, unsynced, removed>>

AppDrops(s) ==
  /\ held[s] # None /\ held' = [held EXCEPT ![s] = None]
  /\ UNCHANGED <<chain, notified, row, cache, mem, reads, initVars, queue, sync, unsynced, removed, overtaken>>

-----------------------------------------------------------------------------
(* UnifiedSwapEventListener.processEvents(): the chain waits for one before *)
(* it hands over the next                                                  *)

ReadForEvent ==
  /\ events = "on" /\ notified # <<>> /\ \A r \in reads : r.who # "event"
  /\ LET e == Head(notified) IN reads' = reads \cup {Read("event", e[1], e[2])}
  /\ UNCHANGED <<chain, notified, row, cache, mem, held, initVars, queue, sync, unsynced, removed, overtaken>>

\* Nobody is registered for the type: the event is dropped.
EventDropped(r) ==
  /\ r.who = "event" /\ listener[TypeOf[r.s]] = "none"
  /\ reads' = reads \ {r} /\ notified' = Tail(notified)
  /\ UNCHANGED <<chain, row, cache, mem, held, initVars, queue, sync, unsynced, removed, overtaken>>

EventQueued(r) ==
  LET w == TypeOf[r.s]
  IN /\ r.who = "event" /\ listener[w] = "queue"
     /\ reads' = reads \ {r} /\ notified' = Tail(notified)
     /\ \E id \in 1..MaxObjects :
          Revive(r, id) /\ queue' = [queue EXCEPT ![w] = Append(@, <<r.s, r.event, id>>)]
     /\ UNCHANGED <<chain, row, held, initVars, sync, unsynced, removed>>

\* processEvent() of the wrapper.
EventHandled(r) ==
  /\ r.who = "event" /\ listener[TypeOf[r.s]] = "handler"
  /\ reads' = reads \ {r} /\ notified' = Tail(notified)
  /\ \E id \in 1..MaxObjects :
       Object(r, id) /\ Reach(r.s, id, StateOf(r, id), r.event)
  /\ overtaken' = overtaken \cup Overtaken(r)
  /\ UNCHANGED <<chain, held, initVars, queue, sync, unsynced, removed>>

-----------------------------------------------------------------------------
(* ISwapWrapper.init() and tick() *)

Started(w) == run \in DOMAIN Order /\ Order[run] = w

PendingSwaps(w) == {s \in Swaps : TypeOf[s] = w /\ row[s] \in 0..(LastStep - 1)}

\* Mutant: events are listened to only when the past swaps have been checked.
WrapperInitDeaf(w) ==
  /\ Started(w) /\ phase[w] = "off"
  /\ phase' = [phase EXCEPT ![w] = "query"]
  /\ reads' = reads \cup {Read("sync", s, 0) : s \in PendingSwaps(w)}
  /\ sync' = [s \in Swaps |-> IF TypeOf[s] = w THEN NoSync ELSE sync[s]]
  /\ UNCHANGED <<chain, notified, row, cache, mem, held, run, initialized, stopping, stopped,
                 events, listener, queue, unsynced, removed, overtaken>>

\* Events are queued from here on; checkPastSwaps() queries what is pending.
WrapperInit(w) ==
  /\ Started(w) /\ phase[w] = "off"
  /\ phase' = [phase EXCEPT ![w] = "query"]
  /\ listener' = [listener EXCEPT ![w] = "queue"]
  /\ reads' = reads \cup {Read("sync", s, 0) : s \in PendingSwaps(w)}
  /\ sync' = [s \in Swaps |-> IF TypeOf[s] = w THEN NoSync ELSE sync[s]]
  /\ UNCHANGED <<chain, notified, row, cache, mem, held, run, initialized, stopping, stopped,
                 events, queue, unsynced, removed, overtaken>>

ReadForSync(w) == {r \in reads : r.who = "sync" /\ TypeOf[r.s] = w}

TakenToSync(r) ==
  /\ r.who = "sync" /\ reads' = reads \ {r}
  /\ \E id \in 1..MaxObjects :
       Revive(r, id) /\ sync' = [sync EXCEPT ![r.s] = [NoSync EXCEPT !.id = id]]
  /\ UNCHANGED <<chain, notified, row, held, initVars, queue, unsynced, removed>>

Unchecked(s) == sync[s].id # None /\ ~sync[s].done

\* _sync(): the chain is asked ...
StatusFetched(s) ==
  /\ Unchecked(s) /\ sync[s].answer = NoRow
  /\ \/ sync' = [sync EXCEPT ![s].answer = chain[s]] /\ UNCHANGED unsynced
     \/ sync' = [sync EXCEPT ![s].done = TRUE] /\ unsynced' = unsynced \cup {s}
  /\ UNCHANGED <<chain, notified, storeVars, initVars, queue, removed, overtaken>>

\* ... and its answer applied to the object.
StatusApplied(s) ==
  LET id == sync[s].id
  IN /\ Unchecked(s) /\ sync[s].answer # NoRow
     /\ mem' = [mem EXCEPT ![s][id] = Later(@, sync[s].answer)]
     /\ sync' = [sync EXCEPT ![s].done = TRUE]
     /\ UNCHANGED <<chain, notified, row, cache, held, reads, initVars, queue, unsynced, removed, overtaken>>

InSync(w) == {s \in Swaps : TypeOf[s] = w /\ sync[s].id # None}

\* When all are synced the expired quotes are removed and the others saved.
PastSwapsChecked(w) ==
  /\ phase[w] = "query" /\ ReadForSync(w) = {}
  /\ \A s \in InSync(w) : sync[s].done
  /\ \E expired \in SUBSET {s \in InSync(w) : mem[s][sync[s].id] = 0 /\ s \notin unsynced /\ chain[s] = 0} :
       /\ removed' = removed \cup expired
       /\ row' = [s \in Swaps |-> IF s \in expired THEN NoRow
                                  ELSE IF s \in InSync(w) \ unsynced THEN mem[s][sync[s].id] ELSE row[s]]
       /\ cache' = [s \in Swaps |-> IF s \in expired THEN None
                                    ELSE IF s \in InSync(w) \ unsynced THEN sync[s].id ELSE cache[s]]
  /\ sync' = [s \in Swaps |-> IF TypeOf[s] = w THEN NoSync ELSE sync[s]]
  /\ phase' = [phase EXCEPT ![w] = "drain"]
  /\ UNCHANGED <<chain, notified, mem, held, reads, run, initialized, stopping, stopped, events,
                 listener, queue, unsynced, overtaken>>

\* The loop over the queue goes on with what is appended while it runs.
QueueDrained(w) ==
  LET e == Head(queue[w])
  IN /\ phase[w] = "drain" /\ queue[w] # <<>>
     /\ queue' = [queue EXCEPT ![w] = Tail(@)]
     /\ Reach(e[1], e[3], mem[e[1]][e[3]], e[2])
     /\ UNCHANGED <<chain, notified, held, reads, initVars, sync, unsynced, removed, overtaken>>

WrapperReady(w) ==
  /\ phase[w] = "drain" /\ queue[w] = <<>>
  /\ phase' = [phase EXCEPT ![w] = "ready"]
  /\ listener' = [listener EXCEPT ![w] = "handler"]
  /\ UNCHANGED <<chain, notified, storeVars, run, initialized, stopping, stopped, events,
                 queue, sync, unsynced, removed, overtaken>>

\* tick(): the query, and the _tick() of a swap, which may save it.
ReadForTick(s) ==
  /\ phase[TypeOf[s]] = "ready" /\ row[s] \in 0..(LastStep - 1)
  /\ \A r \in reads : r.who = "tick" => r.s # s
  /\ reads' = reads \cup {Read("tick", s, 0)}
  /\ UNCHANGED <<chain, notified, row, cache, mem, held, initVars, queue, sync, unsynced, removed, overtaken>>

Ticked(r) ==
  /\ r.who = "tick" /\ reads' = reads \ {r}
  /\ \E id \in 1..MaxObjects :
       Object(r, id) /\ Reach(r.s, id, StateOf(r, id), 0)
  /\ overtaken' = overtaken \cup Overtaken(r)
  /\ UNCHANGED <<chain, notified, held, initVars, queue, sync, unsynced, removed>>

-----------------------------------------------------------------------------
(* Swapper.init() and stop() *)

InitCalled ==
  /\ ~initialized /\ run = 0 /\ ~stopping
  /\ run' = Len(Order) + 1
  /\ UNCHANGED <<chain, notified, storeVars, initialized, stopping, stopped, events, phase,
                 listener, queue, sync, unsynced, removed, overtaken>>

\* start(): it returns at once when a listener is there, and stop() leaves one.
EventsStarted ==
  /\ run = Len(Order) + 1
  /\ events' = IF events = "off" THEN "on" ELSE events
  /\ run' = 1
  /\ UNCHANGED <<chain, notified, storeVars, initialized, stopping, stopped, phase, listener,
                 queue, sync, unsynced, removed, overtaken>>

NextWrapper ==
  /\ run \in DOMAIN Order /\ phase[Order[run]] = "ready"
  /\ run' = IF run = Len(Order) THEN 0 ELSE run + 1
  /\ initialized' = (run = Len(Order))
  /\ UNCHANGED <<chain, notified, storeVars, stopping, stopped, events, phase, listener, queue,
                 sync, unsynced, removed, overtaken>>

\* A stop waits for the init under way.  The wrappers' listeners stay registered.
\* Bound: one stop.
StopCalled ==
  /\ run = 0 /\ initialized /\ ~stopped
  /\ stopping' = TRUE /\ stopped' = TRUE
  /\ phase' = [w \in Wrappers |-> "off"]
  /\ UNCHANGED <<chain, notified, storeVars, run, initialized, events, listener, queue, sync,
                 unsynced, removed, overtaken>>

StopEnds ==
  /\ stopping /\ stopping' = FALSE /\ initialized' = FALSE
  /\ events' = "stopped"
  /\ UNCHANGED <<chain, notified, storeVars, run, stopped, phase, listener, queue, sync,
                 unsynced, removed, overtaken>>

-----------------------------------------------------------------------------
(* Composition *)

InitSteps ==
  \/ EventsStarted \/ NextWrapper
  \/ \E w \in Wrappers : WrapperInit(w) \/ PastSwapsChecked(w) \/ QueueDrained(w) \/ WrapperReady(w)
  \/ \E r \in reads : TakenToSync(r)
  \/ \E s \in Swaps : StatusFetched(s) \/ StatusApplied(s)

EventSteps ==
  \/ ReadForEvent
  \/ \E r \in reads : EventDropped(r) \/ EventQueued(r) \/ EventHandled(r)

Others ==
  \/ InitCalled \/ StopCalled \/ StopEnds
  \/ \E s \in Swaps : \/ Collect(s) \/ ChainMoves(s) \/ Initiate(s) \/ ReadByApp(s) \/ AppDrops(s)
                      \/ ReadForTick(s)
  \/ \E r \in reads : GivenToApp(r) \/ Ticked(r)

LifecycleNext == InitSteps \/ EventSteps \/ Others

\* Once init() is called its steps are taken, and events are handed over.
LifecycleFairness == WF_lifeVars(InitSteps) /\ WF_lifeVars(EventSteps)

-----------------------------------------------------------------------------
(* Properties *)

\* Whatever refers to a stored swap, the application, a sync or a queued event,
\* refers to one and the same object, and it is the one a query will find.
\* A removal takes the object off the cache: a removed swap is left out.
OneObject ==
  \A s \in Swaps \ removed : Alive(s) # {} => Alive(s) = {cache[s]}

\* What an escrow goes through reaches the row of its swap once init() is called:
\* by the sync if it was before the wrapper listened, by the queue if it was
\* while the wrapper synced, by the handler after.  A swap whose sync failed is
\* left out, one that was removed, one revived from a row that had been replaced
\* meanwhile, which writes the old state back, and a swapper that was stopped: it
\* gets no events when it is started again.
EventIsApplied ==
  \A s \in Swaps : \A n \in 1..LastStep :
    (run # 0 /\ chain[s] >= n) ~> (row[s] >= n \/ s \in unsynced \cup removed \cup overtaken \/ stopped)
=============================================================================
