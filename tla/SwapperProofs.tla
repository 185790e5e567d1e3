--------------------------- MODULE SwapperProofs ---------------------------
(***************************************************************************)
(* Theorems about the two parts of the swapper.  Lifecycle: how stored     *)
(* swaps are brought together with the chain's events and the wrappers,    *)
(* for every set of swaps and wrappers, any number of objects and of the   *)
(* steps of an escrow.  The weak reference of the storage keeps the        *)
(* objects of a swap to one: whoever takes an object takes the cached one, *)
(* and a new one is made only when nobody holds one.  Quotes: what         *)
(* createSwap() settles with and who it takes off the list, for every set  *)
(* of LPs, of calls and of offers, and every order of the answers.         *)
(***************************************************************************)
EXTENDS MCSwapper, TLAPS, FiniteSetTheorems, SequenceTheorems

USE LifecycleAssumption

LifecycleSpec == LifecycleInit /\ [][LifecycleNext]_lifeVars

-----------------------------------------------------------------------------
(* The inductive invariant *)

Stored  == States \cup {NoRow}
Objects == 1..MaxObjects

\* The elements of a sequence.
Entries(q) == {q[i] : i \in DOMAIN q}

QueueEntries == Swaps \X (1..LastStep) \X Objects
Events       == Swaps \X (1..LastStep)
Queries      == [who : {"app", "event", "sync", "tick"}, s : Swaps, event : 0..LastStep, row : Stored]

LifeTypeOK ==
  /\ chain \in [Swaps -> States] /\ row \in [Swaps -> Stored]
  /\ cache \in [Swaps -> Objects \cup {None}] /\ held \in [Swaps -> Objects \cup {None}]
  /\ mem \in [Swaps -> [Objects -> Stored]]
  /\ sync \in [Swaps -> [id : Objects \cup {None}, answer : Stored, done : BOOLEAN]]
  /\ queue \in [Wrappers -> Seq(QueueEntries)]
  /\ notified \in Seq(Events)
  /\ reads \subseteq Queries
  /\ removed \subseteq Swaps

\* A wrapper queues events of its own swaps only.
QueuesAreSorted == \A w \in Wrappers : \A e \in Entries(queue[w]) : TypeOf[e[1]] = w

\* Whoever has an object of s has the cached one.
HeldOnce(s) ==
  /\ held[s] \in {None, cache[s]} /\ sync[s].id \in {None, cache[s]}
  /\ \A e \in Entries(queue[TypeOf[s]]) : e[1] = s => e[3] = cache[s]

\* A swap that was never stored is known to nobody but its creator.
Unknown(s) ==
  /\ cache[s] = None
  /\ \A r \in reads : r.s # s
  /\ \A e \in Entries(notified) : e[1] # s

\* No object is made of a missing row.
Filled(s) ==
  /\ \A o \in Objects : mem[s][o] # NoRow
  /\ \A r \in reads : r.s = s => r.row # NoRow

Sound(s) == s \notin removed => HeldOnce(s) /\ (row[s] = NoRow => Unknown(s)) /\ Filled(s)

\* The chain waits for an event before it hands over the next.
OneEvent ==
  /\ \A r \in reads : r.who = "event" => notified # <<>> /\ r.event \in 1..LastStep
  /\ \A r, q \in reads : r.who = "event" /\ q.who = "event" => r = q

LifeInv == LifeTypeOK /\ QueuesAreSorted /\ OneEvent /\ \A s \in Swaps : Sound(s)
-----------------------------------------------------------------------------
(* Lemmas about sequences, and about who holds an object *)

\* Appending to a sequence adds one element.
LEMMA EntriesAppend ==
  ASSUME NEW S, NEW q \in Seq(S), NEW e \in S
  PROVE  /\ Append(q, e) \in Seq(S) /\ Append(q, e) # <<>>
         /\ Entries(Append(q, e)) \subseteq Entries(q) \cup {e}
<1>1. Append(q, e) \in Seq(S) /\ Append(q, e) # <<>>
  OBVIOUS
<1>2. \A i \in DOMAIN Append(q, e) : Append(q, e)[i] = e \/ (i \in DOMAIN q /\ Append(q, e)[i] = q[i])
  OBVIOUS
<1> QED BY <1>1, <1>2 DEF Entries

\* Taking the head of a sequence adds none.
LEMMA EntriesTail ==
  ASSUME NEW S, NEW q \in Seq(S), q # <<>>
  PROVE  /\ Tail(q) \in Seq(S) /\ Entries(Tail(q)) \subseteq Entries(q)
         /\ Head(q) \in Entries(q)
<1>1. Tail(q) \in Seq(S) /\ Len(q) > 0 /\ Head(q) = q[1] /\ 1 \in DOMAIN q
  OBVIOUS
<1>2. \A i \in DOMAIN Tail(q) : i + 1 \in DOMAIN q /\ Tail(q)[i] = q[i + 1]
  OBVIOUS
<1> QED BY <1>1, <1>2 DEF Entries

\* The elements of a sequence are of its type.
LEMMA EntriesType ==
  ASSUME NEW S, NEW q \in Seq(S)
  PROVE  Entries(q) \subseteq S
BY DEF Entries

\* The empty sequence has none.
LEMMA EmptyEntries == Entries(<<>>) = {}
BY DEF Entries

\* The wrapper of a swap is one of those that are started.
LEMMA WrapperOf ==
  ASSUME NEW s \in Swaps
  PROVE  TypeOf[s] \in Wrappers
BY DEF LifecycleAssumption, Wrappers

\* Objects in a queue are alive.
LEMMA QueuedIsAlive ==
  ASSUME LifeTypeOK, NEW s \in Swaps, NEW e \in Entries(queue[TypeOf[s]]), e[1] = s
  PROVE  e[3] \in Objects /\ e[3] \in Alive(s)
<1>1. e \in QueueEntries
  BY WrapperOf, EntriesType DEF LifeTypeOK
<1>2. e[3] \in Objects /\ e[3] # None
  BY <1>1, LifecycleAssumption DEF QueueEntries, Objects, None
<1>3. PICK i \in DOMAIN queue[TypeOf[s]] : e = queue[TypeOf[s]][i]
  BY DEF Entries
<1>4. e[3] \in Queued(s)
  BY <1>3 DEF Queued
<1> QED BY <1>2, <1>4 DEF Alive

-----------------------------------------------------------------------------
(* How a step may change what is known of a swap *)

\* The cached object is replaced only when there was none, whoever comes to hold
\* an object holds the cached one, nothing is made of a missing row, and only
\* what is stored is queried and notified.
Advances(s) ==
  /\ removed \subseteq removed'
  /\ cache'[s] = cache[s] \/ (cache[s] = None /\ row'[s] # NoRow)
  /\ held'[s] \in {held[s], None, cache'[s]}
  /\ sync'[s].id \in {sync[s].id, None, cache'[s]}
  /\ \A e \in Entries(queue'[TypeOf[s]]) :
       e[1] = s => e \in Entries(queue[TypeOf[s]]) \/ e[3] = cache'[s]
  /\ row'[s] = NoRow => row[s] = NoRow
  /\ \A r \in reads' : r.s = s => r \in reads \/ (r.row # NoRow /\ row[s] # NoRow)
  /\ \A e \in Entries(notified') : e[1] = s => e \in Entries(notified) \/ row[s] # NoRow
  /\ \A o \in Objects : mem'[s][o] # NoRow

\* A swap that advances keeps one object.
LEMMA AdvancesKeeps ==
  ASSUME LifeTypeOK, NEW s \in Swaps, Sound(s), s \notin removed' => Advances(s)
  PROVE  Sound(s)'
<1> SUFFICES ASSUME s \notin removed'
             PROVE  (HeldOnce(s) /\ (row[s] = NoRow => Unknown(s)) /\ Filled(s))'
  BY DEF Sound
<1>1. Advances(s) /\ s \notin removed
  BY DEF Advances
<1>2. HeldOnce(s) /\ (row[s] = NoRow => Unknown(s)) /\ Filled(s)
  BY <1>1 DEF Sound
<1>3. HeldOnce(s)'
  <2>1. held'[s] \in {None, cache'[s]} /\ sync'[s].id \in {None, cache'[s]}
    BY <1>1, <1>2 DEF HeldOnce, Advances
  <2>2. ASSUME NEW e \in Entries(queue'[TypeOf[s]]), e[1] = s
        PROVE  e[3] = cache'[s]
    <3>1. CASE e[3] = cache'[s]
      BY <3>1
    <3>2. CASE e \in Entries(queue[TypeOf[s]])
      <4>1. e[3] = cache[s]
        BY <1>2, <2>2, <3>2 DEF HeldOnce
      <4>2. e[3] # None
        BY <2>2, <3>2, QueuedIsAlive, LifecycleAssumption DEF Objects, None
      <4> QED BY <1>1, <4>1, <4>2 DEF Advances
    <3> QED BY <1>1, <2>2, <3>1, <3>2 DEF Advances
  <2> QED BY <2>1, <2>2 DEF HeldOnce
<1>4. (row[s] = NoRow => Unknown(s))'
  BY <1>1, <1>2 DEF Advances, Unknown
<1>5. Filled(s)'
  BY <1>1, <1>2 DEF Advances, Filled
<1> QED BY <1>3, <1>4, <1>5

\* A step that leaves a swap alone.
Rests(s) ==
  /\ removed \subseteq removed' /\ cache'[s] = cache[s] /\ held'[s] = held[s]
  /\ sync'[s].id = sync[s].id /\ row'[s] = row[s] /\ mem'[s] = mem[s]
  /\ \A e \in Entries(queue'[TypeOf[s]]) : e[1] = s => e \in Entries(queue[TypeOf[s]])
  /\ \A r \in reads' : r.s = s => r \in reads
  /\ \A e \in Entries(notified') : e[1] = s => e \in Entries(notified)

\* So does one that is left alone.
LEMMA RestsKeeps ==
  ASSUME LifeTypeOK, NEW s \in Swaps, Sound(s), Rests(s)
  PROVE  Sound(s)'
<1>1. s \notin removed' => Advances(s)
  BY DEF Rests, Advances, Sound, Filled
<1> QED BY <1>1, AdvancesKeeps
-----------------------------------------------------------------------------
(* Queries, and the objects they lead to *)

\* The fields of a query are of their types.
LEMMA QueryFacts ==
  ASSUME LifeTypeOK, NEW r \in reads
  PROVE  r.s \in Swaps /\ r.event \in 0..LastStep /\ r.row \in Stored /\ TypeOf[r.s] \in Wrappers
BY WrapperOf DEF LifeTypeOK, Queries

\* The object is the cached one or a new one, with a state.
LEMMA ObjectFacts ==
  ASSUME LifeInv, NEW r \in reads, NEW id, Object(r, id)
  PROVE  /\ id \in Objects
         /\ cache[r.s] = id \/ cache[r.s] = None
         /\ StateOf(r, id) \in Stored
         /\ r.s \notin removed => StateOf(r, id) # NoRow /\ row[r.s] # NoRow
<1>1. r.s \in Swaps /\ r.row \in Stored
  BY QueryFacts DEF LifeInv
<1>2. cache[r.s] \in Objects \cup {None} /\ mem[r.s] \in [Objects -> Stored]
  BY <1>1 DEF LifeInv, LifeTypeOK
<1>3. id \in Objects
  BY <1>2 DEF Object, Cached, Free, Objects
<1>4. r.s \notin removed => r.row # NoRow /\ mem[r.s][id] # NoRow /\ row[r.s] # NoRow
  BY <1>1, <1>3 DEF LifeInv, Sound, Filled, Unknown
<1> QED BY <1>1, <1>2, <1>3, <1>4 DEF Object, Cached, StateOf

\* The states that are written are ones of an escrow.
LEMMA LaterType ==
  ASSUME NEW a \in Stored, NEW b \in Stored
  PROVE  Later(a, b) \in Stored /\ (b # NoRow => Later(a, b) # NoRow)
BY LifecycleAssumption DEF Later, Stored, States, NoRow

\* An object that is taken for a query: the others of the swap stay as they are.
LEMMA ReviveAdvances ==
  ASSUME LifeInv, NEW r \in reads, NEW id, Revive(r, id), NEW s \in Swaps, s \notin removed,
         UNCHANGED <<row, removed>>, reads' \subseteq reads,
         Entries(notified') \subseteq Entries(notified),
         held'[s] \in {held[s]} \cup (IF s = r.s THEN {id} ELSE {}),
         sync'[s].id \in {sync[s].id} \cup (IF s = r.s THEN {id} ELSE {}),
         \A e \in Entries(queue'[TypeOf[s]]) :
           e[1] = s => e \in Entries(queue[TypeOf[s]]) \/ (s = r.s /\ e[3] = id)
  PROVE  Advances(s)
<1>1. r.s \in Swaps /\ id \in Objects /\ (cache[r.s] = id \/ cache[r.s] = None)
  BY QueryFacts, ObjectFacts DEF LifeInv, Revive
<1>2. r.s = s => StateOf(r, id) # NoRow /\ row[r.s] # NoRow
  BY ObjectFacts DEF Revive
<1>3. cache'[s] = IF s = r.s THEN id ELSE cache[s]
  BY <1>1 DEF Revive, LifeInv, LifeTypeOK
<1>4. \A o \in Objects : mem'[s][o] # NoRow
  <2>1. \A o \in Objects : mem[s][o] # NoRow
    BY DEF LifeInv, Sound, Filled
  <2>2. \A o \in Objects : mem'[s][o] = IF s = r.s /\ o = id THEN StateOf(r, id) ELSE mem[s][o]
    BY <1>1 DEF Revive, LifeInv, LifeTypeOK
  <2> QED BY <1>2, <2>1, <2>2
<1>5. \A q \in reads' : q \in reads
  OBVIOUS
<1> QED BY <1>1, <1>2, <1>3, <1>4, <1>5 DEF Advances

\* The same for an object that is saved at once.
LEMMA ReachAdvances ==
  ASSUME LifeInv, NEW q \in Swaps, NEW id \in Objects, NEW old \in Stored, NEW state \in States,
         Reach(q, id, old, state), q \notin removed => cache[q] = id \/ cache[q] = None,
         NEW s \in Swaps, s \notin removed,
         UNCHANGED <<held, sync, removed>>, reads' \subseteq reads,
         Entries(notified') \subseteq Entries(notified),
         Entries(queue'[TypeOf[s]]) \subseteq Entries(queue[TypeOf[s]])
  PROVE  Advances(s)
<1>1. Later(old, state) # NoRow
  <2>1. state \in Stored /\ state # NoRow
    BY DEF LifecycleAssumption, Stored, States, NoRow
  <2> QED BY <2>1, LaterType
<1>2. /\ cache'[s] = IF s = q THEN id ELSE cache[s]
      /\ row'[s] = IF s = q THEN Later(old, state) ELSE row[s]
  BY DEF Reach, Save, LifeInv, LifeTypeOK
<1>3. \A o \in Objects : mem'[s][o] # NoRow
  <2>1. \A o \in Objects : mem[s][o] # NoRow
    BY DEF LifeInv, Sound, Filled
  <2>2. \A o \in Objects : mem'[s][o] = IF s = q /\ o = id THEN Later(old, state) ELSE mem[s][o]
    BY DEF Reach, LifeInv, LifeTypeOK
  <2> QED BY <1>1, <2>1, <2>2
<1> QED BY <1>1, <1>2, <1>3 DEF Advances

\* What is written has the right type.
LEMMA ReviveType ==
  ASSUME LifeInv, NEW r \in reads, NEW id, Revive(r, id)
  PROVE  /\ cache' \in [Swaps -> Objects \cup {None}]
         /\ mem' \in [Swaps -> [Objects -> Stored]]
<1>1. id \in Objects /\ StateOf(r, id) \in Stored /\ r.s \in Swaps
  BY QueryFacts, ObjectFacts DEF LifeInv, Revive
<1> QED BY <1>1 DEF Revive, LifeInv, LifeTypeOK

\* Applying a step to an object keeps the types of storage and cache.
LEMMA ReachType ==
  ASSUME LifeInv, NEW q \in Swaps, NEW id \in Objects, NEW old \in Stored, NEW state \in States,
         Reach(q, id, old, state)
  PROVE  /\ cache' \in [Swaps -> Objects \cup {None}]
         /\ row' \in [Swaps -> Stored]
         /\ mem' \in [Swaps -> [Objects -> Stored]]
<1>1. Later(old, state) \in Stored
  BY LaterType DEF Stored
<1> QED BY <1>1 DEF Reach, Save, LifeInv, LifeTypeOK
-----------------------------------------------------------------------------
(* The steps, one by one *)

\* The invariant is kept when every swap that is not removed advances ...
LEMMA AllAdvance ==
  ASSUME LifeInv, LifeTypeOK', QueuesAreSorted', OneEvent',
         \A s \in Swaps : s \notin removed' => Advances(s)
  PROVE  LifeInv'
<1>1. ASSUME NEW s \in Swaps PROVE Sound(s)'
  BY AdvancesKeeps DEF LifeInv
<1> QED BY <1>1 DEF LifeInv

\* ... and when every swap is left alone.
LEMMA AllRest ==
  ASSUME LifeInv, LifeTypeOK', QueuesAreSorted', OneEvent',
         \A s \in Swaps : Rests(s)
  PROVE  LifeInv'
<1>1. ASSUME NEW s \in Swaps PROVE Sound(s)'
  BY RestsKeeps DEF LifeInv
<1> QED BY <1>1 DEF LifeInv

\* A step of the start or of the stop, or none at all.
LEMMA QuietKeeps ==
  ASSUME LifeInv, UNCHANGED <<chain, notified, storeVars, queue, sync, removed>>
  PROVE  LifeInv'
<1>1. LifeTypeOK' /\ QueuesAreSorted' /\ OneEvent'
  BY DEF LifeInv, LifeTypeOK, QueuesAreSorted, OneEvent, storeVars
<1>2. \A s \in Swaps : Rests(s)
  BY DEF Rests, storeVars
<1> QED BY <1>1, <1>2, AllRest

\* The garbage collector takes an object that nobody holds.
LEMMA CollectKeeps ==
  ASSUME LifeInv, NEW s \in Swaps, Collect(s)
  PROVE  LifeInv'
<1>1. UNCHANGED <<chain, notified, row, held, reads, queue, sync, removed>>
  BY DEF Collect
<1>2. LifeTypeOK' /\ QueuesAreSorted' /\ OneEvent'
  BY <1>1 DEF Collect, LifeInv, LifeTypeOK, QueuesAreSorted, OneEvent, Stored, States
<1>3. ASSUME NEW q \in Swaps PROVE Sound(q)'
  <2>1. CASE q # s
    <3>1. Rests(q)
      BY <1>1, <2>1 DEF Collect, Rests, LifeInv, LifeTypeOK
    <3> QED BY <3>1, RestsKeeps DEF LifeInv
  <2>2. CASE q = s
    <3> SUFFICES ASSUME s \notin removed
                 PROVE  (HeldOnce(s) /\ (row[s] = NoRow => Unknown(s)) /\ Filled(s))'
      BY <1>1, <2>2 DEF Sound
    <3>1. HeldOnce(s) /\ (row[s] = NoRow => Unknown(s)) /\ Filled(s)
      BY DEF LifeInv, Sound
    <3>2. cache[s] # None /\ cache[s] \notin Alive(s) /\ cache'[s] = None
      BY DEF Collect, LifeInv, LifeTypeOK
    <3>3. held[s] = None /\ sync[s].id = None
      BY <3>1, <3>2 DEF HeldOnce, Alive
    <3>4. \A e \in Entries(queue[TypeOf[s]]) : e[1] # s
      BY <3>1, <3>2, QueuedIsAlive DEF HeldOnce, LifeInv
    <3>5. HeldOnce(s)'
      BY <1>1, <3>3, <3>4 DEF HeldOnce
    <3>6. (row[s] = NoRow => Unknown(s))'
      BY <1>1, <3>1, <3>2 DEF Unknown
    <3>7. \A o \in Objects : mem'[s][o] # NoRow
      <4>1. mem'[s] = [mem[s] EXCEPT ![cache[s]] = 0]
        BY DEF Collect, LifeInv, LifeTypeOK
      <4>2. \A o \in Objects : mem'[s][o] \in {0, mem[s][o]}
        BY <4>1 DEF LifeInv, LifeTypeOK
      <4> QED BY <3>1, <4>2 DEF Filled, NoRow
    <3>8. Filled(s)'
      BY <1>1, <3>1, <3>7 DEF Filled
    <3> QED BY <3>5, <3>6, <3>8
  <2> QED BY <2>1, <2>2
<1> QED BY <1>2, <1>3 DEF LifeInv

\* A step of an escrow on the chain is told of swaps that have a row.
LEMMA ChainMovesKeeps ==
  ASSUME LifeInv, NEW s \in Swaps, ChainMoves(s)
  PROVE  LifeInv'
<1>1. UNCHANGED <<row, cache, mem, held, reads, queue, sync, removed>> /\ row[s] # NoRow
  BY DEF ChainMoves, storeVars
<1>2. chain[s] + 1 \in 1..LastStep
  BY DEF ChainMoves, LifeInv, LifeTypeOK, States, LifecycleAssumption
<1>3. /\ notified' \in Seq(Events) /\ (notified # <<>> => notified' # <<>>)
      /\ Entries(notified') \subseteq Entries(notified) \cup {<<s, chain[s] + 1>>}
  <2>1. <<s, chain[s] + 1>> \in Events
    BY <1>2 DEF Events
  <2>2. notified \in Seq(Events)
    BY DEF LifeInv, LifeTypeOK
  <2>3. LET more == Append(notified, <<s, chain[s] + 1>>)
        IN  /\ more \in Seq(Events) /\ more # <<>>
            /\ Entries(more) \subseteq Entries(notified) \cup {<<s, chain[s] + 1>>}
    BY <2>1, <2>2, EntriesAppend
  <2>4. notified' \in {notified, Append(notified, <<s, chain[s] + 1>>)}
    BY DEF ChainMoves
  <2> QED BY <2>2, <2>3, <2>4
<1>4. LifeTypeOK' /\ QueuesAreSorted' /\ OneEvent'
  <2>1. chain' \in [Swaps -> States]
    BY <1>2 DEF ChainMoves, LifeInv, LifeTypeOK, States
  <2> QED BY <1>1, <1>3, <2>1 DEF LifeInv, LifeTypeOK, QueuesAreSorted, OneEvent
<1>5. \A q \in Swaps : q \notin removed' => Advances(q)
  BY <1>1, <1>3 DEF Advances, LifeInv, Sound, Filled
<1> QED BY <1>4, <1>5, AllAdvance

\* The creator of a swap holds its first object.
LEMMA InitiateKeeps ==
  ASSUME LifeInv, NEW s \in Swaps, Initiate(s)
  PROVE  LifeInv'
<1>1. PICK id \in Free(s) :
        /\ held' = [held EXCEPT ![s] = id]
        /\ mem' = [mem EXCEPT ![s][id] = 0]
        /\ Save(s, id, 0)
  BY DEF Initiate
<1>2. UNCHANGED <<chain, notified, reads, queue, sync, removed>>
  BY DEF Initiate
<1>3. id \in Objects /\ cache[s] = None
  BY DEF Initiate, Free, Objects, LifeInv, Sound, Unknown
<1>4. LifeTypeOK' /\ QueuesAreSorted' /\ OneEvent'
  <2>1. 0 \in Stored
    BY DEF Stored, States, LifecycleAssumption
  <2> QED BY <1>1, <1>2, <1>3, <2>1 DEF Save, LifeInv, LifeTypeOK, QueuesAreSorted, OneEvent
<1>5. ASSUME NEW q \in Swaps, q \notin removed' PROVE Advances(q)
  <2>1. /\ cache'[q] = IF q = s THEN id ELSE cache[q]
        /\ held'[q] = IF q = s THEN id ELSE held[q]
        /\ row'[q] = IF q = s THEN 0 ELSE row[q]
    BY <1>1, <1>3 DEF Save, LifeInv, LifeTypeOK
  <2>2. \A o \in Objects : mem'[q][o] # NoRow
    <3>1. \A o \in Objects : mem[q][o] # NoRow
      BY <1>2, <1>5 DEF LifeInv, Sound, Filled
    <3>2. \A o \in Objects : mem'[q][o] = IF q = s /\ o = id THEN 0 ELSE mem[q][o]
      BY <1>1, <1>3 DEF LifeInv, LifeTypeOK
    <3> QED BY <3>1, <3>2 DEF NoRow
  <2> QED BY <1>2, <1>3, <2>1, <2>2 DEF Advances, NoRow
<1> QED BY <1>4, <1>5, AllAdvance
\* Rows of swaps that are stored are read.
LEMMA AskKeeps ==
  ASSUME LifeInv, NEW asked \in SUBSET Queries, reads' = reads \cup asked,
         \A r \in asked : r.row = row[r.s] /\ (r.s \notin removed => row[r.s] # NoRow),
         UNCHANGED <<chain, notified, row, cache, mem, held, queue, removed>>,
         sync' \in [Swaps -> [id : Objects \cup {None}, answer : Stored, done : BOOLEAN]],
         \A s \in Swaps : sync'[s].id \in {sync[s].id, None}, OneEvent'
  PROVE  LifeInv'
<1>1. LifeTypeOK' /\ QueuesAreSorted' /\ OneEvent'
  BY DEF LifeInv, LifeTypeOK, QueuesAreSorted, OneEvent
<1>2. \A s \in Swaps : s \notin removed' => Advances(s)
  BY DEF Advances, LifeInv, Sound, Filled
<1> QED BY <1>1, <1>2, AllAdvance

\* A query is of a stored swap.
LEMMA ReadType ==
  ASSUME LifeInv, NEW s \in Swaps, NEW who \in {"app", "event", "sync", "tick"},
         NEW event \in 0..LastStep
  PROVE  /\ Read(who, s, event) \in Queries
         /\ Read(who, s, event).s = s /\ Read(who, s, event).row = row[s]
BY DEF Read, Queries, LifeInv, LifeTypeOK

\* A query of one row that is there.
LEMMA ReadOneKeeps ==
  ASSUME LifeInv, NEW s \in Swaps, NEW who \in {"app", "event", "sync", "tick"},
         NEW event \in 0..LastStep, reads' = reads \cup {Read(who, s, event)},
         s \notin removed => row[s] # NoRow,
         UNCHANGED <<chain, notified, row, cache, mem, held, queue, sync, removed>>, OneEvent'
  PROVE  LifeInv'
<1>1. {Read(who, s, event)} \in SUBSET Queries
  BY ReadType
<1>2. \A r \in {Read(who, s, event)} : r.row = row[r.s] /\ (r.s \notin removed => row[r.s] # NoRow)
  BY ReadType
<1>3. sync' \in [Swaps -> [id : Objects \cup {None}, answer : Stored, done : BOOLEAN]]
  BY DEF LifeInv, LifeTypeOK
<1> QED BY <1>1, <1>2, <1>3, AskKeeps

\* A query that is for no event has the event 0.
LEMMA NoEventType == 0 \in 0..LastStep
BY DEF LifecycleAssumption

\* getAllSwaps(), getSwapById() and the like read a row ...
LEMMA ReadByAppKeeps ==
  ASSUME LifeInv, NEW s \in Swaps, ReadByApp(s)
  PROVE  LifeInv'
<1>1. OneEvent'
  BY DEF ReadByApp, Read, LifeInv, OneEvent
<1> QED BY <1>1, ReadOneKeeps, NoEventType DEF ReadByApp

\* ... the tick does ...
LEMMA ReadForTickKeeps ==
  ASSUME LifeInv, NEW s \in Swaps, ReadForTick(s)
  PROVE  LifeInv'
<1>1. OneEvent'
  BY DEF ReadForTick, Read, LifeInv, OneEvent
<1> QED BY <1>1, ReadOneKeeps, NoEventType DEF ReadForTick, NoRow

\* ... and the listener, for the event at the head of its queue and no other
\* meanwhile.
LEMMA ReadForEventKeeps ==
  ASSUME LifeInv, ReadForEvent
  PROVE  LifeInv'
<1> DEFINE e == Head(notified)
<1>1. notified \in Seq(Events) /\ notified # <<>>
  BY DEF ReadForEvent, LifeInv, LifeTypeOK
<1>2. e \in Entries(notified) /\ e \in Events
  BY <1>1, EntriesTail, EntriesType
<1>3. e[1] \in Swaps /\ e[2] \in 0..LastStep
  BY <1>2 DEF Events
<1>4. e[1] \notin removed => row[e[1]] # NoRow
  BY <1>2, <1>3 DEF LifeInv, Sound, Unknown
<1>5. reads' = reads \cup {Read("event", e[1], e[2])}
  BY DEF ReadForEvent
<1>6. OneEvent'
  <2>1. e[2] \in 1..LastStep
    BY <1>2 DEF Events
  <2>2. notified' = notified /\ \A r \in reads : r.who # "event"
    BY DEF ReadForEvent
  <2> HIDE DEF e
  <2> QED BY <1>1, <1>5, <2>1, <2>2 DEF OneEvent, Read
<1> HIDE DEF e
<1> QED BY <1>3, <1>4, <1>5, <1>6, ReadOneKeeps DEF ReadForEvent

\* The application lets go of an object.
LEMMA AppDropsKeeps ==
  ASSUME LifeInv, NEW s \in Swaps, AppDrops(s)
  PROVE  LifeInv'
<1>1. LifeTypeOK' /\ QueuesAreSorted' /\ OneEvent'
  BY DEF AppDrops, LifeInv, LifeTypeOK, QueuesAreSorted, OneEvent
<1>2. \A q \in Swaps : q \notin removed' => Advances(q)
  BY DEF AppDrops, Advances, LifeInv, LifeTypeOK, Sound, Filled
<1> QED BY <1>1, <1>2, AllAdvance

\* The application gets the object that its query revived.
LEMMA GivenToAppKeeps ==
  ASSUME LifeInv, NEW r \in reads, GivenToApp(r)
  PROVE  LifeInv'
<1>1. PICK id \in 1..MaxObjects : Revive(r, id) /\ held' = [held EXCEPT ![r.s] = id]
  BY DEF GivenToApp
<1>2. UNCHANGED <<chain, notified, row, queue, sync, removed>> /\ reads' = reads \ {r}
  BY DEF GivenToApp
<1>3. LifeTypeOK' /\ QueuesAreSorted' /\ OneEvent'
  <2>1. held' \in [Swaps -> Objects \cup {None}]
    BY <1>1 DEF LifeInv, LifeTypeOK, Objects
  <2> QED BY <1>1, <1>2, <2>1, ReviveType DEF LifeInv, LifeTypeOK, QueuesAreSorted, OneEvent
<1>4. ASSUME NEW s \in Swaps, s \notin removed' PROVE Advances(s)
  <2>1. held'[s] \in {held[s]} \cup (IF s = r.s THEN {id} ELSE {})
    BY <1>1 DEF LifeInv, LifeTypeOK
  <2> QED BY <1>1, <1>2, <1>4, <2>1, ReviveAdvances
<1> QED BY <1>3, <1>4, AllAdvance

\* checkPastSwaps() takes the objects that its query revived.
LEMMA TakenToSyncKeeps ==
  ASSUME LifeInv, NEW r \in reads, TakenToSync(r)
  PROVE  LifeInv'
<1>1. PICK id \in 1..MaxObjects :
        Revive(r, id) /\ sync' = [sync EXCEPT ![r.s] = [NoSync EXCEPT !.id = id]]
  BY DEF TakenToSync
<1>2. UNCHANGED <<chain, notified, row, held, queue, removed>> /\ reads' = reads \ {r}
  BY DEF TakenToSync
<1>3. /\ sync' \in [Swaps -> [id : Objects \cup {None}, answer : Stored, done : BOOLEAN]]
      /\ \A s \in Swaps : sync'[s].id = IF s = r.s THEN id ELSE sync[s].id
  <2>1. /\ [NoSync EXCEPT !.id = id] \in [id : Objects \cup {None}, answer : Stored, done : BOOLEAN]
        /\ [NoSync EXCEPT !.id = id].id = id
    BY DEF NoSync, Objects, Stored
  <2> QED BY <1>1, <2>1 DEF LifeInv, LifeTypeOK
<1>4. LifeTypeOK' /\ QueuesAreSorted' /\ OneEvent'
  BY <1>1, <1>2, <1>3, ReviveType DEF LifeInv, LifeTypeOK, QueuesAreSorted, OneEvent
<1>5. ASSUME NEW s \in Swaps, s \notin removed' PROVE Advances(s)
  <2>1. sync'[s].id \in {sync[s].id} \cup (IF s = r.s THEN {id} ELSE {})
    BY <1>3
  <2> QED BY <1>1, <1>2, <1>5, <2>1, ReviveAdvances
<1> QED BY <1>4, <1>5, AllAdvance
\* The event that was handed over is taken off, and the next may be read.
LEMMA EventTaken ==
  ASSUME LifeInv, NEW r \in reads, r.who = "event", notified' = Tail(notified), reads' = reads \ {r}
  PROVE  /\ notified' \in Seq(Events) /\ Entries(notified') \subseteq Entries(notified)
         /\ OneEvent'
<1>1. notified \in Seq(Events) /\ notified # <<>>
  BY DEF LifeInv, LifeTypeOK, OneEvent
<1>2. \A q \in reads' : q.who # "event"
  BY DEF LifeInv, OneEvent
<1> QED BY <1>1, <1>2, EntriesTail DEF OneEvent

\* An event whose wrapper does not listen yet is dropped.
LEMMA EventDroppedKeeps ==
  ASSUME LifeInv, NEW r \in reads, EventDropped(r)
  PROVE  LifeInv'
<1>1. UNCHANGED <<chain, row, cache, mem, held, queue, sync, removed>> /\ reads' = reads \ {r}
  BY DEF EventDropped
<1>2. notified' \in Seq(Events) /\ Entries(notified') \subseteq Entries(notified) /\ OneEvent'
  BY EventTaken DEF EventDropped
<1>3. LifeTypeOK' /\ QueuesAreSorted'
  BY <1>1, <1>2 DEF LifeInv, LifeTypeOK, QueuesAreSorted
<1>4. \A s \in Swaps : Rests(s)
  BY <1>1, <1>2 DEF Rests
<1> QED BY <1>2, <1>3, <1>4, AllRest

\* An event that comes while the wrapper syncs is queued with the object of its
\* swap.
LEMMA EventQueuedKeeps ==
  ASSUME LifeInv, NEW r \in reads, EventQueued(r)
  PROVE  LifeInv'
<1> DEFINE w == TypeOf[r.s]
<1>1. PICK id \in 1..MaxObjects :
        Revive(r, id) /\ queue' = [queue EXCEPT ![w] = Append(@, <<r.s, r.event, id>>)]
  BY DEF EventQueued
<1>2. UNCHANGED <<chain, row, held, sync, removed>> /\ reads' = reads \ {r}
  BY DEF EventQueued
<1>3. notified' \in Seq(Events) /\ Entries(notified') \subseteq Entries(notified) /\ OneEvent'
  BY EventTaken DEF EventQueued
<1>4. r.s \in Swaps /\ w \in Wrappers /\ r.event \in 1..LastStep
  BY QueryFacts DEF EventQueued, LifeInv, OneEvent
<1>5. /\ queue' \in [Wrappers -> Seq(QueueEntries)]
      /\ Entries(queue'[w]) \subseteq Entries(queue[w]) \cup {<<r.s, r.event, id>>}
      /\ \A v \in Wrappers : v # w => queue'[v] = queue[v]
  <2>1. queue \in [Wrappers -> Seq(QueueEntries)] /\ queue[w] \in Seq(QueueEntries)
    BY <1>4 DEF LifeInv, LifeTypeOK
  <2>2. <<r.s, r.event, id>> \in QueueEntries
    BY <1>4 DEF QueueEntries, Objects
  <2>3. LET more == Append(queue[w], <<r.s, r.event, id>>)
        IN  /\ more \in Seq(QueueEntries)
            /\ Entries(more) \subseteq Entries(queue[w]) \cup {<<r.s, r.event, id>>}
    BY <2>1, <2>2, EntriesAppend
  <2> HIDE DEF w
  <2> QED BY <1>1, <1>4, <2>1, <2>3
<1>6. QueuesAreSorted'
  <2> SUFFICES ASSUME NEW v \in Wrappers, NEW e \in Entries(queue'[v]) PROVE TypeOf[e[1]] = v
    BY DEF QueuesAreSorted
  <2> QED BY <1>5 DEF LifeInv, QueuesAreSorted
<1>7. LifeTypeOK'
  BY <1>1, <1>2, <1>3, <1>5, ReviveType DEF LifeInv, LifeTypeOK
<1>8. ASSUME NEW s \in Swaps, s \notin removed' PROVE Advances(s)
  <2>1. ASSUME NEW e \in Entries(queue'[TypeOf[s]]), e[1] = s
        PROVE  e \in Entries(queue[TypeOf[s]]) \/ (s = r.s /\ e[3] = id)
    BY <1>5, <2>1, WrapperOf
  <2>2. Revive(r, id) /\ UNCHANGED <<row, removed>> /\ reads' \subseteq reads
    BY <1>1, <1>2
  <2> QED BY <1>2, <1>3, <1>8, <2>1, <2>2, ReviveAdvances
<1> QED BY <1>3, <1>6, <1>7, <1>8, AllAdvance

\* An event is handled on the object of its swap, and the swap saved.
LEMMA EventHandledKeeps ==
  ASSUME LifeInv, NEW r \in reads, EventHandled(r)
  PROVE  LifeInv'
<1>1. PICK id \in 1..MaxObjects : Object(r, id) /\ Reach(r.s, id, StateOf(r, id), r.event)
  BY DEF EventHandled
<1>2. UNCHANGED <<chain, held, queue, sync, removed>> /\ reads' = reads \ {r}
  BY DEF EventHandled
<1>3. notified' \in Seq(Events) /\ Entries(notified') \subseteq Entries(notified) /\ OneEvent'
  BY EventTaken DEF EventHandled
<1>4. /\ r.s \in Swaps /\ r.event \in States /\ id \in Objects /\ StateOf(r, id) \in Stored
      /\ cache[r.s] = id \/ cache[r.s] = None
  BY <1>1, QueryFacts, ObjectFacts DEF LifeInv, States
<1>5. LifeTypeOK' /\ QueuesAreSorted'
  BY <1>1, <1>2, <1>3, <1>4, ReachType DEF LifeInv, LifeTypeOK, QueuesAreSorted
<1>6. ASSUME NEW s \in Swaps, s \notin removed' PROVE Advances(s)
  BY <1>1, <1>2, <1>3, <1>4, <1>6, ReachAdvances
<1> QED BY <1>3, <1>5, <1>6, AllAdvance

\* The tick may save the swap as it is.
LEMMA TickedKeeps ==
  ASSUME LifeInv, NEW r \in reads, Ticked(r)
  PROVE  LifeInv'
<1>1. PICK id \in 1..MaxObjects : Object(r, id) /\ Reach(r.s, id, StateOf(r, id), 0)
  BY DEF Ticked
<1>2. UNCHANGED <<chain, notified, held, queue, sync, removed>> /\ reads' = reads \ {r}
  BY DEF Ticked
<1>3. /\ r.s \in Swaps /\ 0 \in States /\ id \in Objects /\ StateOf(r, id) \in Stored
      /\ cache[r.s] = id \/ cache[r.s] = None
  BY <1>1, QueryFacts, ObjectFacts, NoEventType DEF LifeInv, States
<1>4. LifeTypeOK' /\ QueuesAreSorted' /\ OneEvent'
  BY <1>1, <1>2, <1>3, ReachType DEF LifeInv, LifeTypeOK, QueuesAreSorted, OneEvent
<1>5. ASSUME NEW s \in Swaps, s \notin removed' PROVE Advances(s)
  BY <1>1, <1>2, <1>3, <1>5, ReachAdvances
<1> QED BY <1>4, <1>5, AllAdvance
SyncType == [id : Objects \cup {None}, answer : Stored, done : BOOLEAN]

\* A swap that is not in a sync has no object there.
LEMMA NoSyncType == NoSync \in SyncType /\ NoSync.id = None
BY DEF NoSync, SyncType, Stored

\* A wrapper queries what is pending, and forgets an earlier sync.
LEMMA WrapperInitKeeps ==
  ASSUME LifeInv, NEW w \in Wrappers, WrapperInit(w)
  PROVE  LifeInv'
<1> DEFINE asked == {Read("sync", s, 0) : s \in PendingSwaps(w)}
<1>1. /\ UNCHANGED <<chain, notified, row, cache, mem, held, queue, removed>>
      /\ reads' = reads \cup asked
      /\ sync' = [s \in Swaps |-> IF TypeOf[s] = w THEN NoSync ELSE sync[s]]
  BY DEF WrapperInit
<1>2. \A s \in PendingSwaps(w) : s \in Swaps /\ row[s] # NoRow
  BY DEF PendingSwaps, NoRow
<1>3. asked \in SUBSET Queries
  BY <1>2, ReadType, NoEventType
<1>4. \A r \in asked : r.row = row[r.s] /\ (r.s \notin removed => row[r.s] # NoRow)
  BY <1>2 DEF Read
<1>5. sync' \in [Swaps -> SyncType] /\ \A s \in Swaps : sync'[s].id \in {sync[s].id, None}
  BY <1>1, NoSyncType DEF LifeInv, LifeTypeOK, SyncType
<1>6. OneEvent'
  BY <1>1 DEF Read, LifeInv, OneEvent
<1> HIDE DEF asked
<1> QED BY <1>1, <1>3, <1>4, <1>5, <1>6, AskKeeps DEF SyncType

\* The sync reads a status from the chain, or ends without one.
LEMMA StatusFetchedKeeps ==
  ASSUME LifeInv, NEW s \in Swaps, StatusFetched(s)
  PROVE  LifeInv'
<1>1. UNCHANGED <<chain, notified, row, cache, mem, held, reads, queue, removed>>
  BY DEF StatusFetched, storeVars
<1>2. sync' \in [Swaps -> SyncType] /\ \A q \in Swaps : sync'[q].id = sync[q].id
  <2>1. sync \in [Swaps -> SyncType] /\ chain[s] \in Stored
    BY DEF LifeInv, LifeTypeOK, SyncType, Stored
  <2>2. CASE sync' = [sync EXCEPT ![s].answer = chain[s]]
    BY <2>1, <2>2 DEF SyncType
  <2>3. CASE sync' = [sync EXCEPT ![s].done = TRUE]
    BY <2>1, <2>3 DEF SyncType
  <2> QED BY <2>2, <2>3 DEF StatusFetched
<1>3. LifeTypeOK' /\ QueuesAreSorted' /\ OneEvent'
  BY <1>1, <1>2 DEF LifeInv, LifeTypeOK, QueuesAreSorted, OneEvent, SyncType
<1>4. \A q \in Swaps : Rests(q)
  BY <1>1, <1>2 DEF Rests
<1> QED BY <1>3, <1>4, AllRest

\* The sync applies the status to the object it holds.
LEMMA StatusAppliedKeeps ==
  ASSUME LifeInv, NEW s \in Swaps, StatusApplied(s)
  PROVE  LifeInv'
<1> DEFINE id == sync[s].id
<1>1. UNCHANGED <<chain, notified, row, cache, held, reads, queue, removed>>
  BY DEF StatusApplied
<1>2. sync \in [Swaps -> SyncType] /\ mem \in [Swaps -> [Objects -> Stored]]
  BY DEF LifeInv, LifeTypeOK, SyncType
<1>3. id \in Objects /\ sync[s].answer \in Stored /\ sync[s].answer # NoRow
  BY <1>2 DEF StatusApplied, Unchecked, SyncType
<1>4. mem[s][id] \in Stored
  BY <1>2, <1>3
<1>5. Later(mem[s][id], sync[s].answer) \in Stored \ {NoRow}
  BY <1>3, <1>4, LaterType
<1>6. mem' = [mem EXCEPT ![s][id] = Later(mem[s][id], sync[s].answer)]
  BY <1>2, <1>3 DEF StatusApplied
<1>7. sync' \in [Swaps -> SyncType] /\ \A q \in Swaps : sync'[q].id = sync[q].id
  BY <1>2 DEF StatusApplied, SyncType
<1> HIDE DEF id
<1>8. /\ mem' \in [Swaps -> [Objects -> Stored]]
      /\ \A q \in Swaps : \A o \in Objects : mem'[q][o] = mem[q][o] \/ mem'[q][o] # NoRow
  BY <1>2, <1>3, <1>5, <1>6
<1>9. LifeTypeOK' /\ QueuesAreSorted' /\ OneEvent'
  BY <1>1, <1>7, <1>8 DEF LifeInv, LifeTypeOK, QueuesAreSorted, OneEvent, SyncType
<1>10. ASSUME NEW q \in Swaps, q \notin removed' PROVE Advances(q)
  BY <1>1, <1>7, <1>8, <1>10 DEF Advances, LifeInv, Sound, Filled
<1> QED BY <1>9, <1>10, AllAdvance

\* What is written back is what the cached object has, and the removed are gone.
LEMMA PastSwapsCheckedKeeps ==
  ASSUME LifeInv, NEW w \in Wrappers, PastSwapsChecked(w)
  PROVE  LifeInv'
<1>1. PICK expired \in SUBSET InSync(w) :
        /\ removed' = removed \cup expired
        /\ row' = [s \in Swaps |-> IF s \in expired THEN NoRow
                                   ELSE IF s \in InSync(w) \ unsynced THEN mem[s][sync[s].id] ELSE row[s]]
        /\ cache' = [s \in Swaps |-> IF s \in expired THEN None
                                     ELSE IF s \in InSync(w) \ unsynced THEN sync[s].id ELSE cache[s]]
  BY DEF PastSwapsChecked
<1>2. /\ UNCHANGED <<chain, notified, mem, held, reads, queue>>
      /\ sync' = [s \in Swaps |-> IF TypeOf[s] = w THEN NoSync ELSE sync[s]]
  BY DEF PastSwapsChecked
<1>3. \A s \in InSync(w) : s \in Swaps /\ sync[s].id \in Objects /\ mem[s][sync[s].id] \in Stored
  BY DEF InSync, LifeInv, LifeTypeOK
<1>4. sync' \in [Swaps -> SyncType] /\ \A s \in Swaps : sync'[s].id \in {sync[s].id, None}
  BY <1>2, NoSyncType DEF LifeInv, LifeTypeOK, SyncType
<1>5. LifeTypeOK' /\ QueuesAreSorted' /\ OneEvent'
  <2>1. cache' \in [Swaps -> Objects \cup {None}]
    BY <1>1, <1>3 DEF LifeInv, LifeTypeOK
  <2>2. row' \in [Swaps -> Stored]
    BY <1>1, <1>3 DEF LifeInv, LifeTypeOK, Stored
  <2>3. removed' \subseteq Swaps
    BY <1>1, <1>3 DEF LifeInv, LifeTypeOK
  <2> QED BY <1>2, <1>4, <2>1, <2>2, <2>3 DEF LifeInv, LifeTypeOK, QueuesAreSorted, OneEvent, SyncType
<1>6. ASSUME NEW s \in Swaps, s \notin removed' PROVE Advances(s)
  <2>1. s \notin removed /\ s \notin expired
    BY <1>1, <1>6
  <2>2. /\ sync[s].id \in {None, cache[s]}
        /\ \A o \in Objects : mem[s][o] # NoRow
    BY <2>1 DEF LifeInv, Sound, HeldOnce, Filled
  <2>3. cache'[s] = cache[s]
    BY <1>1, <2>1, <2>2 DEF InSync
  <2>4. row'[s] = row[s] \/ row'[s] # NoRow
    BY <1>1, <1>3, <2>1, <2>2
  <2> QED BY <1>1, <1>2, <1>4, <2>2, <2>3, <2>4 DEF Advances
<1> QED BY <1>5, <1>6, AllAdvance

\* When the sync is over, the queued events are handled on the objects they
\* were queued with.
LEMMA QueueDrainedKeeps ==
  ASSUME LifeInv, NEW w \in Wrappers, QueueDrained(w)
  PROVE  LifeInv'
<1> DEFINE e == Head(queue[w])
<1>1. /\ UNCHANGED <<chain, notified, held, reads, sync, removed>>
      /\ queue' = [queue EXCEPT ![w] = Tail(queue[w])] /\ queue[w] # <<>>
      /\ Reach(e[1], e[3], mem[e[1]][e[3]], e[2])
  BY DEF QueueDrained
<1>2. queue \in [Wrappers -> Seq(QueueEntries)] /\ queue[w] \in Seq(QueueEntries)
  BY DEF LifeInv, LifeTypeOK
<1>3. /\ Tail(queue[w]) \in Seq(QueueEntries) /\ Entries(Tail(queue[w])) \subseteq Entries(queue[w])
      /\ e \in Entries(queue[w]) /\ e \in QueueEntries
  BY <1>1, <1>2, EntriesTail, EntriesType
<1>4. TypeOf[e[1]] = w
  BY <1>3 DEF LifeInv, QueuesAreSorted
<1>5. /\ e[1] \in Swaps /\ e[3] \in Objects /\ e[2] \in States
      /\ mem[e[1]][e[3]] \in Stored
  BY <1>3 DEF QueueEntries, States, LifeInv, LifeTypeOK
<1>6. e[1] \notin removed => cache[e[1]] = e[3]
  BY <1>3, <1>4, <1>5 DEF LifeInv, Sound, HeldOnce
<1> HIDE DEF e
<1>7. /\ queue' \in [Wrappers -> Seq(QueueEntries)]
      /\ \A v \in Wrappers : Entries(queue'[v]) \subseteq Entries(queue[v])
  <2>1. \A v \in Wrappers : queue'[v] = IF v = w THEN Tail(queue[w]) ELSE queue[v]
    BY <1>1, <1>2
  <2>2. queue' \in [Wrappers -> Seq(QueueEntries)]
    BY <1>1, <1>2, <1>3
  <2> QED BY <1>3, <2>1, <2>2
<1>8. LifeTypeOK' /\ QueuesAreSorted' /\ OneEvent'
  <2>1. QueuesAreSorted'
    BY <1>7 DEF LifeInv, QueuesAreSorted
  <2> QED BY <1>1, <1>5, <1>7, <2>1, ReachType DEF LifeInv, LifeTypeOK, OneEvent
<1>9. ASSUME NEW s \in Swaps, s \notin removed' PROVE Advances(s)
  <2>1. Entries(queue'[TypeOf[s]]) \subseteq Entries(queue[TypeOf[s]])
    BY <1>7, WrapperOf
  <2> QED BY <1>1, <1>5, <1>6, <1>9, <2>1, ReachAdvances
<1> QED BY <1>8, <1>9, AllAdvance

-----------------------------------------------------------------------------
(* Theorems *)

\* A start finds rows and an empty memory.
LEMMA LifeInitHolds == LifecycleInit => LifeInv
<1> SUFFICES ASSUME LifecycleInit PROVE LifeInv
  OBVIOUS
<1>1. <<>> \in Seq(Events) /\ <<>> \in Seq(QueueEntries)
  OBVIOUS
<1>2. LifeTypeOK
  <2>1. 0 \in Stored
    BY DEF LifecycleAssumption, Stored, States
  <2>2. sync \in [Swaps -> SyncType]
    BY NoSyncType DEF LifecycleInit
  <2>3. mem \in [Swaps -> [Objects -> Stored]]
    BY <2>1 DEF LifecycleInit, Objects
  <2> QED BY <1>1, <2>2, <2>3 DEF LifecycleInit, LifeTypeOK, Stored, SyncType
<1>3. QueuesAreSorted /\ OneEvent
  BY EmptyEntries DEF LifecycleInit, QueuesAreSorted, OneEvent
<1>4. ASSUME NEW s \in Swaps PROVE Sound(s)
  <2>1. /\ cache[s] = None /\ held[s] = None /\ sync[s].id = None
        /\ Entries(queue[TypeOf[s]]) = {} /\ Entries(notified) = {} /\ reads = {}
        /\ \A o \in Objects : mem[s][o] = 0
    BY EmptyEntries, NoSyncType, WrapperOf DEF LifecycleInit, Objects
  <2> QED BY <2>1 DEF Sound, HeldOnce, Unknown, Filled, NoRow
<1> QED BY <1>2, <1>3, <1>4 DEF LifeInv

\* Every step of the storage, the wrappers and the listener keeps the
\* invariant.
LEMMA LifeNextKeeps == LifeInv /\ [LifecycleNext]_lifeVars => LifeInv'
<1> SUFFICES ASSUME LifeInv, [LifecycleNext]_lifeVars PROVE LifeInv'
  OBVIOUS
<1>1. CASE UNCHANGED lifeVars
  BY <1>1, QuietKeeps DEF lifeVars
<1>2. CASE InitSteps
  <2>1. CASE EventsStarted \/ NextWrapper
    BY <2>1, QuietKeeps DEF EventsStarted, NextWrapper
  <2>2. ASSUME NEW w \in Wrappers, WrapperInit(w) \/ PastSwapsChecked(w) \/ QueueDrained(w)
        PROVE  LifeInv'
    BY <2>2, WrapperInitKeeps, PastSwapsCheckedKeeps, QueueDrainedKeeps
  <2>3. ASSUME NEW w \in Wrappers, WrapperReady(w) PROVE LifeInv'
    BY <2>3, QuietKeeps DEF WrapperReady
  <2>4. ASSUME NEW r \in reads, TakenToSync(r) PROVE LifeInv'
    BY <2>4, TakenToSyncKeeps
  <2>5. ASSUME NEW s \in Swaps, StatusFetched(s) \/ StatusApplied(s) PROVE LifeInv'
    BY <2>5, StatusFetchedKeeps, StatusAppliedKeeps
  <2> QED BY <1>2, <2>1, <2>2, <2>3, <2>4, <2>5 DEF InitSteps
<1>3. CASE EventSteps
  BY <1>3, ReadForEventKeeps, EventDroppedKeeps, EventQueuedKeeps, EventHandledKeeps DEF EventSteps
<1>4. CASE Others
  <2>1. CASE InitCalled \/ StopCalled \/ StopEnds
    BY <2>1, QuietKeeps DEF InitCalled, StopCalled, StopEnds
  <2>2. ASSUME NEW s \in Swaps, \/ Collect(s) \/ ChainMoves(s) \/ Initiate(s) \/ ReadByApp(s)
                                \/ AppDrops(s) \/ ReadForTick(s)
        PROVE  LifeInv'
    BY <2>2, CollectKeeps, ChainMovesKeeps, InitiateKeeps, ReadByAppKeeps, AppDropsKeeps,
       ReadForTickKeeps
  <2>3. ASSUME NEW r \in reads, GivenToApp(r) \/ Ticked(r) PROVE LifeInv'
    BY <2>3, GivenToAppKeeps, TickedKeeps
  <2> QED BY <1>4, <2>1, <2>2, <2>3 DEF Others
<1> QED BY <1>1, <1>2, <1>3, <1>4 DEF LifecycleNext

\* The invariant holds of the storage, the wrappers and the event listener,
\* through any start, stop and garbage collection.
THEOREM LifecycleInvariant == LifecycleSpec => []LifeInv
BY LifeInitHolds, LifeNextKeeps, PTL DEF LifecycleSpec

\* Whoever holds an object of a swap holds the cached one.
LEMMA HeldOnceIsOneObject == LifeInv => OneObject
<1> SUFFICES ASSUME LifeInv, NEW s \in Swaps, s \notin removed, Alive(s) # {}
             PROVE  Alive(s) = {cache[s]}
  BY DEF OneObject
<1>1. HeldOnce(s)
  BY DEF LifeInv, Sound
<1>2. ASSUME NEW o \in Queued(s) PROVE o = cache[s]
  <2>1. PICK i \in DOMAIN queue[TypeOf[s]] : queue[TypeOf[s]][i][1] = s /\ o = queue[TypeOf[s]][i][3]
    BY <1>2 DEF Queued
  <2> QED BY <1>1, <2>1 DEF HeldOnce, Entries
<1> QED BY <1>1, <1>2 DEF Alive, HeldOnce

\* UnifiedSwapStorage: the application, a sync and the queued events of a swap
\* that was not removed all have one and the same object of it, the one the next
\* query will find, although queries suspend between reading and reviving, and
\* the garbage collector takes what nobody holds.
THEOREM OneObjectCorrect == LifecycleSpec => []OneObject
BY LifecycleInvariant, HeldOnceIsOneObject, PTL

HIDE LifecycleAssumption

-----------------------------------------------------------------------------
(* Orders on finite sets *)

\* A function on a nonempty finite set takes a least value: where the set of
\* points with smaller values is smallest.
LEMMA LeastValue ==
  ASSUME NEW S, IsFiniteSet(S), S # {}, NEW f \in [S -> Int]
  PROVE  \E x \in S : \A y \in S : f[x] <= f[y]
<1> DEFINE Below(x) == {y \in S : f[y] < f[x]}
           Sets     == {Below(x) : x \in S}
<1>1. Sets \subseteq FiniteSubsetsOf(S) /\ Sets # {}
  <2>1. \A x \in S : Below(x) \in SUBSET S
    OBVIOUS
  <2> HIDE DEF Below
  <2>2. \A x \in S : IsFiniteSet(Below(x))
    BY <2>1, FS_Subset
  <2> QED BY <2>1, <2>2 DEF FiniteSubsetsOf
<1>2. \E s \in Sets : \A t \in Sets : <<t, s>> \notin StrictSubsetOrdering(S)
  <2> HIDE DEF Sets
  <2> QED BY <1>1, FS_StrictSubsetOrderingWellFounded, WFMin
<1>3. PICK x \in S : \A y \in S : <<Below(y), Below(x)>> \notin StrictSubsetOrdering(S)
  BY <1>2
<1>4. ASSUME NEW y \in S, f[y] < f[x] PROVE FALSE
  <2>1. Below(y) \subseteq Below(x) /\ y \in Below(x) /\ y \notin Below(y)
    BY <1>4
  <2>2. Below(y) \in SUBSET S /\ Below(x) \in SUBSET S
    OBVIOUS
  <2> HIDE DEF Below
  <2> QED BY <1>3, <2>1, <2>2 DEF StrictSubsetOrdering
<1> QED BY <1>4

\* ... and a greatest one.
LEMMA GreatestValue ==
  ASSUME NEW S, IsFiniteSet(S), S # {}, NEW f \in [S -> Int]
  PROVE  \E x \in S : \A y \in S : f[x] >= f[y]
<1> DEFINE g == [x \in S |-> -f[x]]
<1>1. g \in [S -> Int] /\ \A x \in S : g[x] = -f[x]
  OBVIOUS
<1> HIDE DEF g
<1>2. \E x \in S : \A y \in S : g[x] <= g[y]
  BY <1>1, LeastValue
<1> QED BY <1>1, <1>2

-----------------------------------------------------------------------------
(* The list of LPs *)

LPs(g) == [url : Urls, gen : {g}, signed : BOOLEAN]

\* One object per LP.
Distinct(lps) == \A a, b \in lps : a.url = b.url => a = b

\* A reload puts one object of each LP that answers on the list.
LEMMA Fetched ==
  ASSUME NEW g, NEW objects \in FetchIntermediaries(g)
  PROVE  objects \subseteq LPs(g) /\ Distinct(objects)
<1>1. PICK online \in SUBSET Urls :
        objects \in {{NodeInfo(u, g, signed) : u \in online} : signed \in SUBSET online}
  BY DEF FetchIntermediaries
<1>2. PICK signed \in SUBSET online : objects = {NodeInfo(u, g, signed) : u \in online}
  BY <1>1
<1>3. \A u \in online : NodeInfo(u, g, signed) \in LPs(g) /\ NodeInfo(u, g, signed).url = u
  <2>1. \A u \in online : (u \in signed) \in BOOLEAN /\ u \in Urls
    OBVIOUS
  <2> QED BY <2>1 DEF NodeInfo, LPs
<1> QED BY <1>2, <1>3 DEF Distinct

\* The LPs on a list are finitely many.
LEMMA FinitelyMany ==
  ASSUME NEW g, NEW lps \in SUBSET LPs(g), Distinct(lps)
  PROVE  IsFiniteSet(lps)
<1> DEFINE f == [lp \in lps |-> lp.url]
<1>1. f \in Injection(lps, Urls)
  BY DEF LPs, Distinct, Injection, IsInjective
<1> QED BY <1>1, FS_Injection, ServiceAssumption

\* Sorting loses none and invents none: every rank is that of one LP, as fees
\* differ.
LEMMA SortedIsThose ==
  ASSUME NEW g, NEW lps \in SUBSET LPs(g), Distinct(lps)
  PROVE  SortedByFee(lps) \in Seq(lps) /\ (lps # {} => SortedByFee(lps) # <<>>)
<1> DEFINE n       == Cardinality(lps)
           Up(lp)  == {o \in lps : Service[o.url].fee <= Service[lp.url].fee}
           rank    == [lp \in lps |-> Cardinality(Up(lp))]
<1>1. IsFiniteSet(lps) /\ n \in Nat /\ (lps # {} => n # 0)
  BY FinitelyMany, FS_CardinalityType, FS_EmptySet
<1>2. \A lp \in lps : lp.url \in Urls /\ Service[lp.url].fee \in Nat
  BY ServiceAssumption DEF LPs
<1>3. \A lp \in lps : /\ Up(lp) \in SUBSET lps /\ lp \in Up(lp)
                      /\ IsFiniteSet(Up(lp)) /\ Cardinality(Up(lp)) \in 1..n
  <2> SUFFICES ASSUME NEW lp \in lps
               PROVE  /\ Up(lp) \in SUBSET lps /\ lp \in Up(lp)
                      /\ IsFiniteSet(Up(lp)) /\ Cardinality(Up(lp)) \in 1..n
    OBVIOUS
  <2>1. Up(lp) \in SUBSET lps /\ lp \in Up(lp) /\ Up(lp) # {}
    BY <1>2
  <2> HIDE DEF Up
  <2>2. IsFiniteSet(Up(lp)) /\ Cardinality(Up(lp)) <= n
    BY <1>1, <2>1, FS_Subset
  <2>3. Cardinality(Up(lp)) \in Nat /\ Cardinality(Up(lp)) # 0
    BY <2>1, <2>2, FS_CardinalityType, FS_EmptySet
  <2> QED BY <1>1, <2>1, <2>2, <2>3
<1>4. ASSUME NEW a \in lps, NEW b \in lps, rank[a] = rank[b], a # b
      PROVE  FALSE
  <2>1. a.url # b.url /\ Service[a.url].fee # Service[b.url].fee
    BY <1>2, <1>4, ServiceAssumption DEF Distinct
  <2>2. Up(a) \in SUBSET Up(b) \/ Up(b) \in SUBSET Up(a)
    BY <1>2
  <2>3. a \notin Up(b) \/ b \notin Up(a)
    BY <1>2, <2>1
  <2>4. /\ IsFiniteSet(Up(a)) /\ IsFiniteSet(Up(b)) /\ a \in Up(a) /\ b \in Up(b)
        /\ Cardinality(Up(a)) = Cardinality(Up(b))
    BY <1>3, <1>4
  <2> HIDE DEF Up
  <2>5. Up(a) = Up(b)
    BY <2>2, <2>4, FS_Subset
  <2> QED BY <2>3, <2>4, <2>5
<1>5. rank \in Injection(lps, 1..n)
  <2>1. rank \in [lps -> 1..n]
    BY <1>3
  <2> HIDE DEF rank
  <2> QED BY <1>4, <2>1 DEF Injection, IsInjective
<1>6. rank \in Surjection(lps, 1..n)
  <2>1. IsFiniteSet(1..n) /\ Cardinality(1..n) = n
    BY <1>1, FS_Interval
  <2> HIDE DEF rank
  <2> QED BY <1>1, <1>5, <2>1, FS_Injection
<1>7. \A i \in 1..n : (CHOOSE lp \in lps : Cardinality(Up(lp)) = i) \in lps
  BY <1>6 DEF Surjection
<1>8. SortedByFee(lps) = [i \in 1..n |-> CHOOSE lp \in lps : Cardinality(Up(lp)) = i]
  BY DEF SortedByFee
<1>9. \A m \in Nat : \A s \in [1..m -> lps] : s \in Seq(lps) /\ Len(s) = m
  OBVIOUS
<1>10. SortedByFee(lps) \in [1..n -> lps]
  BY <1>7, <1>8
<1>11. SortedByFee(lps) \in Seq(lps) /\ Len(SortedByFee(lps)) = n
  BY <1>1, <1>9, <1>10
<1> QED BY <1>1, <1>11
-----------------------------------------------------------------------------
(* What is so of a call *)

\* What the application can ask for.
CreateRequests ==
  CreateToBTCSwap \cup CreateToBTCLNSwap \cup CreateToBTCLNSwapViaLNURL
    \cup CreateToBTCLNSwapViaInvoiceCreateService \cup CreateFromBTCSwapNew \cup CreateFromBTCSwap
    \cup CreateFromBTCLNSwap \cup CreateFromBTCLNSwapViaLNURL \cup CreateFromBTCLNSwapNew
    \cup CreateFromBTCLNSwapNewViaLNURL

KnownLPs(g) == [url : Urls, gen : 0..g, signed : BOOLEAN]

LpTypes ==
  [at : {"prepare", "invoice", "init", "verifying", "quoted"} \cup Failures, step : 1..3,
   tries : Nat, rounds : Nat, verdict : {"none", "good", "blamed", "error", "again"},
   wrong : BOOLEAN, price : Nat, aborted : BOOLEAN]

Outs ==
  {Pending, Error} \cup [type : {"quote"}, of : Nat, among : SUBSET Nat]
    \cup [type : {"bounds"}, min : Nat, max : Nat]

CallTypes(g) ==
  [stage : {"reloading", "creating", "asking", "settled"}, req : CreateRequests,
   asked : Seq(KnownLPs(g)), lp : Seq(LpTypes), params : {"pending", "ok", "failed"},
   late : {"pending", "ok", "failed"}, onabort : Nat, aborted : BOOLEAN,
   timer : {"unset", "armed", "off"}, bounds : {NoBounds} \cup (Nat \X Nat), out : Outs]

\* The quote of one LP: where it is, and what is so of an answer that was found
\* good, wrong, or worth another try, and of a blame.
LpOK(r, l) ==
  /\ AtStep(l) => l.step <= Len(Steps(r)) /\ l.at = Steps(r)[l.step].step
  /\ l.verdict = "blamed" => l.wrong
  /\ l.verdict = "again" => r.kind = "SPV_VAULT_FROM_BTC"
  /\ l.verdict = "good" => ~l.wrong
  /\ l.at = "quoted" => ~l.wrong
  /\ l.at = "blamed" => \/ l.wrong \/ l.step < Len(Steps(r))
                        \/ r.kind = "SPV_VAULT_FROM_BTC"

CaughtIn(asked, ls) == {asked[i] : i \in {j \in DOMAIN ls : ls[j].at = "blamed"}}
ToldIn(asked, ls)   == {Bounds[asked[i].url] : i \in {j \in DOMAIN ls : ls[j].at = "bounds"}}

\* b is the widest of the bounds that were told.
Widest(b, told) ==
  /\ \A e \in told : b[1] <= e.min /\ b[2] >= e.max
  /\ \E e \in told : e.min = b[1]
  /\ \E e \in told : e.max = b[2]

BoundsOK(b, asked, ls) ==
  IF b = NoBounds THEN ToldIn(asked, ls) = {} ELSE Widest(b, ToldIn(asked, ls))

\* What AnswerIsSound says of an outcome.
OutOK(o, r, asked, ls) ==
  /\ o.type = "quote" =>
       /\ o.of \in o.among /\ o.among \subseteq Quoted(ls)
       /\ ~ls[o.of].wrong
       /\ \A j \in o.among : IF r.exactIn THEN ls[j].price <= ls[o.of].price
                             ELSE ls[j].price >= ls[o.of].price
  /\ o.type = "bounds" /\ asked # <<>> =>
       /\ Quoted(ls) = {} /\ Resolved(ls) = DOMAIN ls
       /\ Widest(<<o.min, o.max>>, ToldIn(asked, ls))
  /\ o.type = "error" =>
       Quoted(ls) = {} /\ ToldIn(asked, ls) = {} /\ Resolved(ls) = DOMAIN ls

CallOK(k, g) ==
  /\ k \in CallTypes(g)
  /\ Len(k.lp) = Len(k.asked)
  /\ k.asked # <<>> => k.onabort \in DOMAIN k.lp
  /\ \A i \in DOMAIN k.lp : LpOK(k.req, k.lp[i])
  /\ k.stage = "reloading" => k.asked = <<>>
  /\ k.stage = "creating" => \A i \in DOMAIN k.lp : AtStep(k.lp[i])
  /\ k.timer = "armed" => Quoted(k.lp) # {}
  /\ BoundsOK(k.bounds, k.asked, k.lp)
  /\ k.stage = "settled" => OutOK(k.out, k.req, k.asked, k.lp)

\* The list, and what was taken off it: no object of an earlier reload is on it,
\* so an LP that is caught late takes no other off.
QuotesInv ==
  /\ gen \in Nat /\ reloading \in BOOLEAN
  /\ fetched \in FetchIntermediaries(gen) \cup {{}}
  /\ call \in [Calls -> {Idle} \cup CallTypes(gen)]
  /\ \A c \in Ran : CallOK(call[c], gen)
  /\ intermediaries = fetched \ UNION {CaughtIn(call[c].asked, call[c].lp) : c \in Ran}

-----------------------------------------------------------------------------
(* Facts about requests and answers *)

\* A request is of a kind, with one side exact.
LEMMA RequestFacts ==
  ASSUME NEW r \in CreateRequests
  PROVE  r.kind \in Kinds /\ r.exactIn \in BOOLEAN
<1>1. \A kind, via, exactIn :
        r \in Requested(kind, via, exactIn) => r.kind = kind /\ r.exactIn \in exactIn
  BY DEF Requested
<1> QED
  BY <1>1 DEF CreateRequests, CreateToBTCSwap, CreateToBTCLNSwap, CreateToBTCLNSwapViaLNURL,
     CreateToBTCLNSwapViaInvoiceCreateService, CreateFromBTCSwapNew, CreateFromBTCSwap,
     CreateFromBTCLNSwap, CreateFromBTCLNSwapViaLNURL, CreateFromBTCLNSwapNew,
     CreateFromBTCLNSwapNewViaLNURL, Kinds, SendKinds

\* The exchange with an LP is one request, or the three that an amount to be
\* spent on an invoice takes.
LEMMA StepsFacts ==
  ASSUME NEW r \in CreateRequests
  PROVE  \/ Len(Steps(r)) = 1 /\ Steps(r)[1].step = "init"
         \/ /\ Len(Steps(r)) = 3 /\ Steps(r)[1].step = "prepare"
            /\ Steps(r)[2].step = "invoice" /\ Steps(r)[3].step = "init"
BY RequestFacts DEF Steps, Creation, Kinds, SendKinds, ToBTCCreate, ToBTCLNQuote, ToBTCLNQuoteExactIn,
   FromBTCCreate, FromBTCLNCreate, FromBTCLNAutoCreate, SpvFromBTCCreate, Create, Request, InitToBTC,
   InitToBTCLN, PrepareToBTCLNExactIn, GetInvoice, InitToBTCLNExactIn, InitFromBTC, InitFromBTCLN,
   InitFromBTCLNAuto, PrepareSpvFromBTC

\* What the checks make of an answer: every wrong one is found, a right one is
\* not blamed, and only a vault is asked again.
LEMMA AnswerFacts ==
  ASSUME NEW r \in CreateRequests, NEW a \in Answers(r)
  PROVE  /\ a.verdict \in {"good", "blamed", "error", "again"} /\ a.wrong \in BOOLEAN
         /\ a.verdict = "good" => ~a.wrong
         /\ a.verdict = "blamed" => a.wrong
         /\ a.verdict = "again" => r.kind = "SPV_VAULT_FROM_BTC"
<1>1. r.kind \in Kinds /\ r.exactIn \in BOOLEAN
  BY RequestFacts
<1>2. PICK flaw \in (Flaws(r.kind, r.exactIn) \ {"noAmount"}) \cup {"none"} :
        a.verdict = Verdict(r.kind, flaw) /\ a.wrong = (flaw # "none")
  BY DEF Answers
<1>3. Verdict(r.kind, flaw) \in {"good", "blamed", "error", "again"}
  BY DEF Verdict
<1>4. Verdict(r.kind, "none") \notin {"blamed"}
  BY <1>1 DEF Verdict, Kinds, SendKinds, Blamed, VerifyReturnedPrice, VerifyIntermediaryLiquidity,
     VerifyLnNodeCapacity, ToBTCVerify, ToBTCLNVerify, FromBTCVerify, FromBTCLNVerify,
     FromBTCLNAutoVerify, SpvFromBTCVerify
<1>5. Verdict(r.kind, flaw) = "again" => r.kind = "SPV_VAULT_FROM_BTC"
  BY DEF Verdict, AskedAgain
<1>6. Verdict(r.kind, flaw) = "good" => flaw = "none"
  <2>1. Flaws(r.kind, r.exactIn) \ {"noAmount"} \subseteq
          Blamed(r.kind) \cup Rejected(r.kind) \cup AskedAgain(r.kind)
    BY <1>1 DEF Kinds, SendKinds, Flaws, Common, ToBTCFlaws, ToBTCLNFlaws, ExactInFlaws, FromBTCFlaws,
       FromBTCLNFlaws, FromBTCLNAutoFlaws, SpvFromBTCFlaws, Blamed, VerifyReturnedPrice,
       VerifyIntermediaryLiquidity, VerifyLnNodeCapacity, ToBTCVerify, ToBTCLNVerify, FromBTCVerify,
       FromBTCLNVerify, FromBTCLNAutoVerify, SpvFromBTCVerify, Rejected, VerifySchema,
       VerifyReturnedSignature, HalfOfLnNodeCapacity, SpvAmountsSanity, AskedAgain
  <2> QED BY <1>2, <2>1 DEF Verdict
<1> QED BY <1>2, <1>3, <1>4, <1>5, <1>6

-----------------------------------------------------------------------------
(* The quote of one LP moves on *)

\* Replacing one element of a list of quotes.
LEMMA OneReplaced ==
  ASSUME NEW ls \in Seq(LpTypes), NEW i \in DOMAIN ls, NEW l \in LpTypes,
         NEW ms, ms = [ls EXCEPT ![i] = l]
  PROVE  /\ ms \in Seq(LpTypes) /\ Len(ms) = Len(ls) /\ DOMAIN ms = DOMAIN ls
         /\ ms[i] = l /\ \A j \in DOMAIN ls : j # i => ms[j] = ls[j]
         /\ i \in Nat
<1>1. DOMAIN ls = 1..Len(ls)
  OBVIOUS
<1>2. ms \in Seq(LpTypes) /\ Len(ms) = Len(ls)
  BY <1>1, ExceptSeq
<1> QED BY <1>1, <1>2

\* ms tells the same of the LPs as ls.
Alike(ls, ms, asked) ==
  /\ ms \in Seq(LpTypes) /\ Len(ms) = Len(ls) /\ DOMAIN ms = DOMAIN ls
  /\ Quoted(ms) = Quoted(ls) /\ Resolved(ms) = Resolved(ls)
  /\ CaughtIn(asked, ms) = CaughtIn(asked, ls) /\ ToldIn(asked, ms) = ToldIn(asked, ls)
  /\ \A j \in Quoted(ls) : ms[j].wrong = ls[j].wrong /\ ms[j].price = ls[j].price

\* A quote that is still open and stays so changes nothing of what the LPs came to.
LEMMA OpenIsAlike ==
  ASSUME NEW ls \in Seq(LpTypes), NEW i \in DOMAIN ls, NEW l \in LpTypes, NEW ms,
         ms = [ls EXCEPT ![i] = l], InFlight(ls[i]), InFlight(l), NEW asked
  PROVE  Alike(ls, ms, asked) /\ ms[i] = l /\ \A j \in DOMAIN ls : j # i => ms[j] = ls[j]
<1>1. /\ ms \in Seq(LpTypes) /\ Len(ms) = Len(ls) /\ DOMAIN ms = DOMAIN ls
      /\ ms[i] = l /\ \A j \in DOMAIN ls : j # i => ms[j] = ls[j]
  BY OneReplaced
<1>2. {ls[i].at, l.at} \cap (Failures \cup {"quoted"}) = {}
  BY DEF InFlight, AtStep, Failures
<1>3. Quoted(ms) = Quoted(ls) /\ Resolved(ms) = Resolved(ls) /\ i \notin Quoted(ls)
  BY <1>1, <1>2 DEF Quoted, Resolved
<1>4. CaughtIn(asked, ms) = CaughtIn(asked, ls) /\ ToldIn(asked, ms) = ToldIn(asked, ls)
  <2>1. \A s \in Failures : {j \in DOMAIN ms : ms[j].at = s} = {j \in DOMAIN ls : ls[j].at = s}
    BY <1>1, <1>2
  <2> QED BY <2>1 DEF CaughtIn, ToldIn, Failures
<1>5. \A j \in Quoted(ls) : ms[j] = ls[j]
  BY <1>1, <1>3 DEF Quoted
<1> QED BY <1>1, <1>3, <1>4, <1>5 DEF Alike

\* An abort that reaches a request does not, either.
LEMMA AbortIsAlike ==
  ASSUME NEW ls \in Seq(LpTypes), NEW i \in DOMAIN ls, NEW x \in BOOLEAN, NEW ms,
         ms = [ls EXCEPT ![i].aborted = x], NEW asked
  PROVE  /\ Alike(ls, ms, asked)
         /\ \A j \in DOMAIN ls : /\ ms[j].at = ls[j].at /\ ms[j].step = ls[j].step
                                 /\ ms[j].verdict = ls[j].verdict /\ ms[j].wrong = ls[j].wrong
<1> DEFINE l == [ls[i] EXCEPT !.aborted = x]
<1>1. ms = [ls EXCEPT ![i] = l]
  OBVIOUS
<1>2. /\ l \in LpTypes /\ l.at = ls[i].at /\ l.step = ls[i].step /\ l.verdict = ls[i].verdict
      /\ l.wrong = ls[i].wrong /\ l.price = ls[i].price
  <2>1. ls[i] \in LpTypes
    OBVIOUS
  <2> QED BY <2>1 DEF LpTypes
<1> HIDE DEF l
<1>3. /\ ms \in Seq(LpTypes) /\ Len(ms) = Len(ls) /\ DOMAIN ms = DOMAIN ls
      /\ ms[i] = l /\ \A j \in DOMAIN ls : j # i => ms[j] = ls[j]
  BY <1>1, <1>2, OneReplaced
<1>4. \A j \in DOMAIN ls : /\ ms[j].at = ls[j].at /\ ms[j].step = ls[j].step
                           /\ ms[j].verdict = ls[j].verdict /\ ms[j].wrong = ls[j].wrong
                           /\ ms[j].price = ls[j].price
  BY <1>2, <1>3
<1>5. /\ Quoted(ms) = Quoted(ls) /\ Resolved(ms) = Resolved(ls)
      /\ CaughtIn(asked, ms) = CaughtIn(asked, ls) /\ ToldIn(asked, ms) = ToldIn(asked, ls)
  BY <1>3, <1>4 DEF Quoted, Resolved, CaughtIn, ToldIn
<1>6. \A j \in Quoted(ls) : j \in DOMAIN ls
  BY DEF Quoted
<1> QED BY <1>3, <1>4, <1>5, <1>6 DEF Alike

\* Bounds and outcome depend on what the LPs came to only.
LEMMA AlikeKeeps ==
  ASSUME NEW ls, NEW ms, NEW asked, Alike(ls, ms, asked)
  PROVE  /\ \A b : BoundsOK(b, asked, ls) => BoundsOK(b, asked, ms)
         /\ \A o, r : OutOK(o, r, asked, ls) => OutOK(o, r, asked, ms)
<1>1. \A b : BoundsOK(b, asked, ls) => BoundsOK(b, asked, ms)
  BY DEF Alike, BoundsOK
<1>2. ASSUME NEW o, NEW r, OutOK(o, r, asked, ls) PROVE OutOK(o, r, asked, ms)
  <2>1. /\ Quoted(ms) = Quoted(ls) /\ Resolved(ms) = Resolved(ls) /\ DOMAIN ms = DOMAIN ls
        /\ ToldIn(asked, ms) = ToldIn(asked, ls)
        /\ \A j \in Quoted(ls) : ms[j].wrong = ls[j].wrong /\ ms[j].price = ls[j].price
    BY DEF Alike
  <2> QED BY <1>2, <2>1 DEF OutOK
<1> QED BY <1>1, <1>2

-----------------------------------------------------------------------------
(* The quote of one LP is over *)

\* The quote of LP i comes to something: that much is added to what the others
\* came to.
Adds(ls, ms, i, why, asked) ==
  /\ ms \in Seq(LpTypes) /\ Len(ms) = Len(ls) /\ DOMAIN ms = DOMAIN ls
  /\ ms[i] = Done(ls[i], why) /\ \A j \in DOMAIN ls : j # i => ms[j] = ls[j]
  /\ i \notin Resolved(ls) /\ i \notin Quoted(ls)
  /\ Quoted(ms) = IF why = "quoted" THEN Quoted(ls) \cup {i} ELSE Quoted(ls)
  /\ CaughtIn(asked, ms) = CaughtIn(asked, ls) \cup IF why = "blamed" THEN {asked[i]} ELSE {}
  /\ ToldIn(asked, ms) =
       ToldIn(asked, ls) \cup IF why = "bounds" THEN {Bounds[asked[i].url]} ELSE {}

\* Done() makes it so.
LEMMA DoneAdds ==
  ASSUME NEW ls \in Seq(LpTypes), NEW i \in DOMAIN ls, NEW why \in Failures \cup {"quoted"},
         NEW ms, ms = [ls EXCEPT ![i] = Done(ls[i], why)], InFlight(ls[i]), NEW asked
  PROVE  Adds(ls, ms, i, why, asked)
<1>1. Done(ls[i], why) \in LpTypes /\ Done(ls[i], why).at = why
  <2>1. ls[i] \in LpTypes
    OBVIOUS
  <2> QED BY <2>1 DEF Done, LpTypes, Failures
<1>2. /\ ms \in Seq(LpTypes) /\ Len(ms) = Len(ls) /\ DOMAIN ms = DOMAIN ls
      /\ ms[i] = Done(ls[i], why) /\ \A j \in DOMAIN ls : j # i => ms[j] = ls[j]
  BY <1>1, OneReplaced
<1>3. ls[i].at \notin Failures \cup {"quoted"}
  BY DEF InFlight, AtStep, Failures
<1>4. i \notin Resolved(ls) /\ i \notin Quoted(ls)
  BY <1>3 DEF Resolved, Quoted
<1>5. \A s \in Failures \cup {"quoted"} :
        {j \in DOMAIN ms : ms[j].at = s} =
          IF why = s THEN {j \in DOMAIN ls : ls[j].at = s} \cup {i}
          ELSE {j \in DOMAIN ls : ls[j].at = s}
  BY <1>1, <1>2, <1>3
<1>6. Quoted(ms) = IF why = "quoted" THEN Quoted(ls) \cup {i} ELSE Quoted(ls)
  BY <1>5 DEF Quoted
<1>7. /\ CaughtIn(asked, ms) =
           CaughtIn(asked, ls) \cup IF why = "blamed" THEN {asked[i]} ELSE {}
      /\ ToldIn(asked, ms) =
           ToldIn(asked, ls) \cup IF why = "bounds" THEN {Bounds[asked[i].url]} ELSE {}
  BY <1>5 DEF CaughtIn, ToldIn, Failures
<1> QED BY <1>2, <1>4, <1>6, <1>7 DEF Adds

\* What the call has settled with stays right: an LP that is still open was
\* neither the one returned, nor had all LPs answered.
LEMMA DoneKeepsOutcome ==
  ASSUME NEW ls, NEW ms, NEW i \in DOMAIN ls, NEW why, NEW asked, Adds(ls, ms, i, why, asked)
  PROVE  \A o, r : OutOK(o, r, asked, ls) => OutOK(o, r, asked, ms)
<1> SUFFICES ASSUME NEW o, NEW r, OutOK(o, r, asked, ls)
             PROVE  OutOK(o, r, asked, ms)
  OBVIOUS
<1>1. /\ Quoted(ls) \subseteq Quoted(ms) /\ i \notin Quoted(ls) /\ i \notin Resolved(ls)
      /\ \A j \in DOMAIN ls : j # i => ms[j] = ls[j]
  BY DEF Adds
<1>2. \A j \in Quoted(ls) : ms[j] = ls[j]
  BY <1>1 DEF Quoted
<1>3. Resolved(ls) # DOMAIN ls
  BY <1>1
<1> QED BY <1>1, <1>2, <1>3 DEF OutOK

\* A pair is not the empty sequence.
LEMMA PairIsNotEmpty ==
  ASSUME NEW p, NEW q
  PROVE  <<p, q>> # <<>>
<1>1. Len(<<p, q>>) # Len(<<>>)
  OBVIOUS
<1> QED BY <1>1

\* Taking in another LP's bounds gives the widest of all that were told ...
LEMMA WidenedIsWidest ==
  ASSUME NEW told \in SUBSET [min : Nat, max : Nat], NEW e \in [min : Nat, max : Nat],
         NEW b \in Nat \X Nat, Widest(b, told),
         b # NoBounds
  PROVE  Widened(b, e) \in Nat \X Nat /\ Widest(Widened(b, e), told \cup {e})
<1>1. /\ b[1] \in Nat /\ b[2] \in Nat /\ e.min \in Nat /\ e.max \in Nat
      /\ Widened(b, e)[1] = IF e.min < b[1] THEN e.min ELSE b[1]
      /\ Widened(b, e)[2] = IF e.max > b[2] THEN e.max ELSE b[2]
      /\ Widened(b, e) \in Nat \X Nat
  BY DEF Widened
<1> HIDE DEF Widened
<1>3. PICK l \in told : l.min = b[1]
  BY DEF Widest
<1>4. PICK h \in told : h.max = b[2]
  BY DEF Widest
<1>5. \A f \in told : b[1] <= f.min /\ b[2] >= f.max
  BY DEF Widest
<1>2. ASSUME NEW f \in told \cup {e}
      PROVE  Widened(b, e)[1] <= f.min /\ Widened(b, e)[2] >= f.max
  <2>1. CASE f = e
    BY <1>1, <2>1
  <2>2. CASE f \in told
    <3>1. f.min \in Nat /\ f.max \in Nat
      BY <2>2
    <3> QED BY <1>1, <1>5, <2>2, <3>1
  <2> QED BY <2>1, <2>2
<1> QED BY <1>1, <1>2, <1>3, <1>4 DEF Widest

\* ... and the first that are told are taken as they are.
LEMMA FirstIsWidest ==
  ASSUME NEW e \in [min : Nat, max : Nat]
  PROVE  Widened(NoBounds, e) \in Nat \X Nat /\ Widest(Widened(NoBounds, e), {e})
<1>1. Widened(NoBounds, e) = <<e.min, e.max>> /\ e.min \in Nat /\ e.max \in Nat
  BY DEF Widened
<1> QED BY <1>1 DEF Widest

\* The bounds of a call stay the widest that were told.
LEMMA BoundsWiden ==
  ASSUME NEW ls, NEW ms, NEW i \in DOMAIN ls, NEW why, NEW asked, Adds(ls, ms, i, why, asked),
         \A j \in DOMAIN ls : asked[j].url \in Urls,
         NEW b \in {NoBounds} \cup (Nat \X Nat), BoundsOK(b, asked, ls),
         NEW a, a = IF why = "bounds" THEN Widened(b, Bounds[asked[i].url]) ELSE b
  PROVE  a \in {NoBounds} \cup (Nat \X Nat) /\ BoundsOK(a, asked, ms)
<1> DEFINE e == Bounds[asked[i].url]
           T == ToldIn(asked, ls)
<1>1. ToldIn(asked, ms) = T \cup IF why = "bounds" THEN {e} ELSE {}
  BY DEF Adds
<1>2. e \in [min : Nat, max : Nat] /\ T \in SUBSET [min : Nat, max : Nat]
  BY QuotesAssumption DEF ToldIn
<1>3. \A p \in Nat \X Nat : p # NoBounds
  <2>1. \A p \in Nat \X Nat : p = <<p[1], p[2]>>
    OBVIOUS
  <2> QED BY <2>1, PairIsNotEmpty DEF NoBounds
<1>4. a = IF why = "bounds" THEN Widened(b, e) ELSE b
  OBVIOUS
<1> HIDE DEF e, T
<1>5. CASE why # "bounds"
  <2>1. a = b /\ ToldIn(asked, ms) = ToldIn(asked, ls)
    BY <1>1, <1>4, <1>5 DEF T
  <2> QED BY <2>1 DEF BoundsOK
<1>6. CASE why = "bounds" /\ b = NoBounds
  <2>1. T = {} /\ ToldIn(asked, ms) = {e} /\ a = Widened(NoBounds, e)
    BY <1>1, <1>4, <1>6 DEF BoundsOK, T
  <2>2. a \in Nat \X Nat /\ Widest(a, {e})
    BY <1>2, <2>1, FirstIsWidest
  <2> QED BY <1>3, <2>1, <2>2 DEF BoundsOK
<1>7. CASE why = "bounds" /\ b # NoBounds
  <2>1. /\ b \in Nat \X Nat /\ Widest(b, T) /\ a = Widened(b, e)
        /\ ToldIn(asked, ms) = T \cup {e}
    BY <1>1, <1>4, <1>7 DEF BoundsOK, T
  <2>2. a \in Nat \X Nat /\ Widest(a, T \cup {e})
    BY <1>2, <1>7, <2>1, WidenedIsWidest
  <2> QED BY <1>3, <2>1, <2>2 DEF BoundsOK
<1> QED BY <1>5, <1>6, <1>7

-----------------------------------------------------------------------------
(* What a call settles with *)

\* A best quote is there whenever a quote is.
LEMMA BestIsBest ==
  ASSUME NEW ls \in Seq(LpTypes), Quoted(ls) # {}, NEW r, r.exactIn \in BOOLEAN
  PROVE  /\ Best(r, ls) \in Quoted(ls)
         /\ \A j \in Quoted(ls) : IF r.exactIn THEN ls[j].price <= ls[Best(r, ls)].price
                                  ELSE ls[j].price >= ls[Best(r, ls)].price
<1> DEFINE S == Quoted(ls)
           f == [i \in S |-> ls[i].price]
<1>1. S \subseteq 1..Len(ls) /\ Len(ls) \in Nat /\ 1 \in Int /\ Len(ls) \in Int
  BY DEF Quoted
<1>2. IsFiniteSet(S) /\ S # {}
  <2>1. IsFiniteSet(1..Len(ls))
    BY <1>1, FS_Interval
  <2> HIDE DEF S
  <2> QED BY <1>1, <2>1, FS_Subset DEF S
<1>3. \A i \in S : ls[i].price \in Nat /\ f[i] = ls[i].price
  <2>1. \A i \in S : ls[i] \in LpTypes
    BY <1>1
  <2> QED BY <2>1 DEF LpTypes
<1>4. f \in [S -> Int]
  BY <1>3
<1> HIDE DEF S, f
<1>5. \E i \in S : \A j \in S : ~Better(r, ls[j].price, ls[i].price)
  <2>1. PICK i \in S : \A j \in S : f[i] <= f[j]
    BY <1>2, <1>4, LeastValue
  <2>2. PICK m \in S : \A j \in S : f[m] >= f[j]
    BY <1>2, <1>4, GreatestValue
  <2>3. CASE r.exactIn
    BY <1>3, <2>2, <2>3 DEF Better
  <2>4. CASE ~r.exactIn
    <3>1. \A j \in S : ls[i].price <= ls[j].price
      BY <1>3, <2>1
    <3>2. \A j \in S : ~(ls[j].price < ls[i].price)
      BY <1>3, <3>1
    <3>3. \A j \in S : ~Better(r, ls[j].price, ls[i].price)
      BY <2>4, <3>2 DEF Better
    <3> QED BY <2>1, <3>3
  <2> QED BY <2>3, <2>4
<1>6. Best(r, ls) \in S /\ \A j \in S : ~Better(r, ls[j].price, ls[Best(r, ls)].price)
  BY <1>5 DEF Best, S
<1>7. \A j \in S : IF r.exactIn THEN ls[j].price <= ls[Best(r, ls)].price
                   ELSE ls[j].price >= ls[Best(r, ls)].price
  BY <1>3, <1>6 DEF Better
<1> QED BY <1>6, <1>7 DEF S

\* The outcome when a quote is there or every LP has answered.
LEMMA OutcomeIsSound ==
  ASSUME NEW k, NEW ls \in Seq(LpTypes), k.req \in CreateRequests,
         k.bounds \in {NoBounds} \cup (Nat \X Nat), BoundsOK(k.bounds, k.asked, ls),
         \A i \in DOMAIN ls : LpOK(k.req, ls[i]),
         Quoted(ls) # {} \/ Resolved(ls) = DOMAIN ls
  PROVE  Outcome(k, ls) \in Outs /\ OutOK(Outcome(k, ls), k.req, k.asked, ls)
<1>1. CASE Quoted(ls) # {}
  <2>1. k.req.exactIn \in BOOLEAN
    BY RequestFacts
  <2>2. /\ Best(k.req, ls) \in Quoted(ls)
        /\ \A j \in Quoted(ls) : IF k.req.exactIn THEN ls[j].price <= ls[Best(k.req, ls)].price
                                 ELSE ls[j].price >= ls[Best(k.req, ls)].price
    BY <1>1, <2>1, BestIsBest
  <2>3. Quoted(ls) \subseteq DOMAIN ls /\ Quoted(ls) \subseteq Nat
    BY DEF Quoted
  <2>4. ~ls[Best(k.req, ls)].wrong
    BY <2>2 DEF Quoted, LpOK
  <2>5. Outcome(k, ls) = [type |-> "quote", of |-> Best(k.req, ls), among |-> Quoted(ls)]
    BY <1>1 DEF Outcome, Returned
  <2>6. Outcome(k, ls) \in Outs
    BY <2>2, <2>3, <2>5 DEF Outs
  <2> QED BY <2>2, <2>4, <2>5, <2>6 DEF OutOK
<1>2. CASE Quoted(ls) = {} /\ k.bounds # NoBounds
  <2>1. k.bounds[1] \in Nat /\ k.bounds[2] \in Nat /\ k.bounds = <<k.bounds[1], k.bounds[2]>>
    BY <1>2
  <2>2. Outcome(k, ls) = [type |-> "bounds", min |-> k.bounds[1], max |-> k.bounds[2]]
    BY <1>2 DEF Outcome, OutOfBounds
  <2>3. Widest(k.bounds, ToldIn(k.asked, ls))
    BY <1>2 DEF BoundsOK
  <2> QED BY <1>2, <2>1, <2>2, <2>3 DEF Outs, OutOK
<1>3. CASE Quoted(ls) = {} /\ k.bounds = NoBounds
  <2>1. Outcome(k, ls) = [type |-> "error"] /\ ToldIn(k.asked, ls) = {}
    BY <1>3 DEF Outcome, Error, BoundsOK
  <2> QED BY <1>3, <2>1 DEF Outs, OutOK, Error
<1> QED BY <1>1, <1>2, <1>3

-----------------------------------------------------------------------------
(* A call moves on *)

\* What an LP's quote does to its call.
LEMMA ResolveKeeps ==
  ASSUME NEW g, NEW k \in CallTypes(g), NEW ls \in Seq(LpTypes), Len(ls) = Len(k.asked),
         k.stage \in {"asking", "settled"}, k.asked # <<>>, k.onabort \in DOMAIN ls,
         \A i \in DOMAIN ls : LpOK(k.req, ls[i]),
         k.timer = "armed" => Quoted(ls) # {},
         BoundsOK(k.bounds, k.asked, ls),
         k.stage = "settled" => OutOK(k.out, k.req, k.asked, ls)
  PROVE  CallOK(Resolve(k, ls), g) /\ Resolve(k, ls).asked = k.asked /\ Resolve(k, ls).lp = ls
<1> DEFINE all == k.stage = "asking" /\ Resolved(ls) = DOMAIN ls
           n   == Resolve(k, ls)
<1>1. /\ k.req \in CreateRequests /\ k.bounds \in {NoBounds} \cup (Nat \X Nat) /\ k.out \in Outs
      /\ k.timer \in {"unset", "armed", "off"}
  BY DEF CallTypes
<1>2. all => Outcome(k, ls) \in Outs /\ OutOK(Outcome(k, ls), k.req, k.asked, ls)
  BY <1>1, OutcomeIsSound
<1>3. n = [k EXCEPT !.lp = ls, !.stage = IF all THEN "settled" ELSE k.stage,
                    !.out = IF all THEN Outcome(k, ls) ELSE k.out,
                    !.timer = IF all THEN "off" ELSE k.timer]
  BY DEF Resolve
<1> HIDE DEF n
<1>4. /\ n.stage = (IF all THEN "settled" ELSE k.stage) /\ n.lp = ls
      /\ n.out = (IF all THEN Outcome(k, ls) ELSE k.out)
      /\ n.timer = (IF all THEN "off" ELSE k.timer)
      /\ n.req = k.req /\ n.asked = k.asked /\ n.onabort = k.onabort /\ n.bounds = k.bounds
  BY <1>3 DEF CallTypes
<1>5. n \in CallTypes(g)
  <2>1. (IF all THEN "settled" ELSE k.stage) \in {"reloading", "creating", "asking", "settled"}
    OBVIOUS
  <2>2. (IF all THEN Outcome(k, ls) ELSE k.out) \in Outs
    BY <1>1, <1>2
  <2>3. (IF all THEN "off" ELSE k.timer) \in {"unset", "armed", "off"}
    BY <1>1
  <2> HIDE DEF all
  <2> QED BY <1>3, <2>1, <2>2, <2>3 DEF CallTypes
<1>6. CallOK(n, g)
  <2>1. n.stage \in {"asking", "settled"}
    BY <1>4
  <2>2. n.timer = "armed" => Quoted(ls) # {}
    BY <1>4
  <2>3. n.stage = "settled" => OutOK(n.out, n.req, n.asked, ls)
    BY <1>2, <1>4
  <2> QED BY <1>4, <1>5, <2>1, <2>2, <2>3 DEF CallOK
<1> QED BY <1>4, <1>6 DEF n

\* What is so of a call that has asked LPs.
LEMMA AskedFacts ==
  ASSUME NEW g, NEW k, CallOK(k, g), k.stage \in {"asking", "settled"}, k.asked # <<>>
  PROVE  /\ k.lp \in Seq(LpTypes) /\ k.asked \in Seq(KnownLPs(g)) /\ k.req \in CreateRequests
         /\ Len(k.lp) = Len(k.asked) /\ DOMAIN k.lp = DOMAIN k.asked /\ k.onabort \in DOMAIN k.lp
         /\ \A i \in DOMAIN k.lp : /\ k.lp[i] \in LpTypes /\ LpOK(k.req, k.lp[i])
                                   /\ k.asked[i] \in KnownLPs(g) /\ k.asked[i].url \in Urls
         /\ k.timer = "armed" => Quoted(k.lp) # {}
         /\ k.bounds \in {NoBounds} \cup (Nat \X Nat)
         /\ BoundsOK(k.bounds, k.asked, k.lp)
         /\ k.stage = "settled" => OutOK(k.out, k.req, k.asked, k.lp)
<1>1. /\ k.lp \in Seq(LpTypes) /\ k.asked \in Seq(KnownLPs(g)) /\ k.req \in CreateRequests
      /\ k.bounds \in {NoBounds} \cup (Nat \X Nat)
  BY DEF CallOK, CallTypes
<1>2. Len(k.lp) = Len(k.asked) /\ DOMAIN k.lp = DOMAIN k.asked
  BY <1>1 DEF CallOK
<1>3. \A i \in DOMAIN k.lp : k.lp[i] \in LpTypes /\ k.asked[i] \in KnownLPs(g)
  BY <1>1, <1>2
<1>4. \A lp \in KnownLPs(g) : lp.url \in Urls
  BY DEF KnownLPs
<1> QED BY <1>1, <1>2, <1>3, <1>4 DEF CallOK

\* Who comes off the list.
Off(lp, why) == IF why = "blamed" THEN {lp} ELSE {}

\* The call after the quote of LP i has come to something, t being the timer then.
Finished(k, i, why, t) ==
  Resolve([k EXCEPT !.bounds = BoundsAfter(k, i, why), !.timer = t],
          [k.lp EXCEPT ![i] = Done(@, why)])

\* n is the call after the quote of LP i has come to something.
Ends(k, n, i, why, g) ==
  /\ CallOK(n, g) /\ n.asked = k.asked
  /\ CaughtIn(k.asked, n.lp) = Off(k.asked[i], why) \cup CaughtIn(k.asked, k.lp)

\* The quote of LP i fails, or resolves as one that no check has refused.
LEMMA DoneKeeps ==
  ASSUME NEW g, NEW k, CallOK(k, g), k.stage \in {"asking", "settled"}, k.asked # <<>>,
         NEW i \in DOMAIN k.lp, NEW why \in Failures \cup {"quoted"}, InFlight(k.lp[i]),
         LpOK(k.req, Done(k.lp[i], why)),
         NEW t \in {"unset", "armed", "off"}, t = k.timer \/ why = "quoted"
  PROVE  Ends(k, Finished(k, i, why, t), i, why, g)
<1> DEFINE ms == [k.lp EXCEPT ![i] = Done(k.lp[i], why)]
           m  == [k EXCEPT !.bounds = BoundsAfter(k, i, why), !.timer = t]
           n  == Finished(k, i, why, t)
<1>1. /\ k.lp \in Seq(LpTypes) /\ k.asked \in Seq(KnownLPs(g)) /\ k.req \in CreateRequests
      /\ Len(k.lp) = Len(k.asked) /\ DOMAIN k.lp = DOMAIN k.asked /\ k.onabort \in DOMAIN k.lp
      /\ \A j \in DOMAIN k.lp : /\ k.lp[j] \in LpTypes /\ LpOK(k.req, k.lp[j])
                                /\ k.asked[j] \in KnownLPs(g) /\ k.asked[j].url \in Urls
      /\ k.timer = "armed" => Quoted(k.lp) # {}
      /\ k.bounds \in {NoBounds} \cup (Nat \X Nat)
      /\ BoundsOK(k.bounds, k.asked, k.lp)
      /\ k.stage = "settled" => OutOK(k.out, k.req, k.asked, k.lp)
  BY AskedFacts
<1>2. Adds(k.lp, ms, i, why, k.asked)
  BY <1>1, DoneAdds
<1>3. BoundsAfter(k, i, why) \in {NoBounds} \cup (Nat \X Nat)
      /\ BoundsOK(BoundsAfter(k, i, why), k.asked, ms)
  <2>1. BoundsAfter(k, i, why) =
          IF why = "bounds" THEN Widened(k.bounds, Bounds[k.asked[i].url]) ELSE k.bounds
    BY DEF BoundsAfter
  <2> HIDE DEF ms
  <2> QED BY <1>1, <1>2, <2>1, BoundsWiden
<1>4. k.stage = "settled" => OutOK(k.out, k.req, k.asked, ms)
  <2> HIDE DEF ms
  <2> QED BY <1>1, <1>2, DoneKeepsOutcome
<1>5. /\ m \in CallTypes(g) /\ m.asked = k.asked /\ m.req = k.req /\ m.stage = k.stage
      /\ m.onabort = k.onabort /\ m.out = k.out /\ m.timer = t
      /\ m.bounds = BoundsAfter(k, i, why)
  <2>1. k \in CallTypes(g)
    BY DEF CallOK
  <2> QED BY <1>3, <2>1 DEF CallTypes
<1> HIDE DEF m, ms, n
<1>6. /\ ms \in Seq(LpTypes) /\ Len(ms) = Len(k.lp) /\ DOMAIN ms = DOMAIN k.lp
      /\ ms[i] = Done(k.lp[i], why) /\ \A j \in DOMAIN k.lp : j # i => ms[j] = k.lp[j]
      /\ Quoted(ms) = IF why = "quoted" THEN Quoted(k.lp) \cup {i} ELSE Quoted(k.lp)
      /\ CaughtIn(k.asked, ms) =
           CaughtIn(k.asked, k.lp) \cup IF why = "blamed" THEN {k.asked[i]} ELSE {}
  BY <1>2 DEF Adds
<1>7. \A j \in DOMAIN ms : LpOK(m.req, ms[j])
  BY <1>1, <1>5, <1>6
<1>8. m.timer = "armed" => Quoted(ms) # {}
  BY <1>1, <1>5, <1>6
<1>9. n = Resolve(m, ms)
  BY DEF m, ms, n, Finished
<1>10. /\ m \in CallTypes(g) /\ Len(ms) = Len(m.asked) /\ m.asked # <<>>
       /\ m.stage \in {"asking", "settled"} /\ m.onabort \in DOMAIN ms
       /\ BoundsOK(m.bounds, m.asked, ms)
       /\ m.stage = "settled" => OutOK(m.out, m.req, m.asked, ms)
  BY <1>1, <1>3, <1>4, <1>5, <1>6
<1>11. CallOK(n, g) /\ n.asked = m.asked /\ n.lp = ms
  <2>1. ms \in Seq(LpTypes)
    BY <1>6
  <2> QED BY <1>7, <1>8, <1>9, <1>10, <2>1, ResolveKeeps
<1> QED BY <1>5, <1>6, <1>11 DEF n, Off, Ends

\* n is the call k after a step in which nobody is caught.
Quiet(k, n, g) == CallOK(n, g) /\ CaughtIn(n.asked, n.lp) = CaughtIn(k.asked, k.lp)

\* The call after the quote of LP i has gone on, a being what an abort reaches then.
GoneOn(k, i, l, a) == [k EXCEPT !.lp = [k.lp EXCEPT ![i] = l], !.onabort = a]

\* The quote of LP i goes on.
LEMMA OpenMoves ==
  ASSUME NEW g, NEW k, CallOK(k, g), k.stage \in {"asking", "settled"}, k.asked # <<>>,
         NEW i \in DOMAIN k.lp, InFlight(k.lp[i]), NEW l \in LpTypes, InFlight(l), LpOK(k.req, l),
         NEW a \in DOMAIN k.lp
  PROVE  Quiet(k, GoneOn(k, i, l, a), g)
<1> DEFINE ms == [k.lp EXCEPT ![i] = l]
           n  == GoneOn(k, i, l, a)
<1>1. /\ k.lp \in Seq(LpTypes) /\ Len(k.lp) = Len(k.asked)
      /\ \A j \in DOMAIN k.lp : LpOK(k.req, k.lp[j])
      /\ k.timer = "armed" => Quoted(k.lp) # {}
      /\ BoundsOK(k.bounds, k.asked, k.lp)
      /\ k.stage = "settled" => OutOK(k.out, k.req, k.asked, k.lp)
  BY AskedFacts
<1>2. /\ Alike(k.lp, ms, k.asked) /\ ms[i] = l /\ a \in Nat
      /\ \A j \in DOMAIN k.lp : j # i => ms[j] = k.lp[j]
  BY <1>1, OpenIsAlike
<1> HIDE DEF ms, n
<1>3. /\ ms \in Seq(LpTypes) /\ Len(ms) = Len(k.lp) /\ DOMAIN ms = DOMAIN k.lp
      /\ Quoted(ms) = Quoted(k.lp) /\ CaughtIn(k.asked, ms) = CaughtIn(k.asked, k.lp)
      /\ BoundsOK(k.bounds, k.asked, ms)
      /\ k.stage = "settled" => OutOK(k.out, k.req, k.asked, ms)
  BY <1>1, <1>2, AlikeKeeps DEF Alike
<1>4. n = [k EXCEPT !.lp = ms, !.onabort = a]
  BY DEF ms, n, GoneOn
<1>5. /\ n \in CallTypes(g) /\ n.asked = k.asked /\ n.req = k.req /\ n.stage = k.stage
      /\ n.onabort = a /\ n.out = k.out /\ n.timer = k.timer /\ n.bounds = k.bounds /\ n.lp = ms
  <2>1. k \in CallTypes(g)
    BY DEF CallOK
  <2> QED BY <1>2, <1>3, <1>4, <2>1 DEF CallTypes
<1>6. \A j \in DOMAIN ms : LpOK(n.req, ms[j])
  BY <1>1, <1>2, <1>3, <1>5
<1>7. CallOK(n, g)
  BY <1>1, <1>2, <1>3, <1>5, <1>6 DEF CallOK
<1> QED BY <1>3, <1>5, <1>7 DEF n, Quiet

\* A call that is aborted, with what is then known of the parameters and of what
\* is fetched once, and with the stage, the timer and the outcome that are left.
Aborting(k, p, q, s, t, o, x) ==
  [k EXCEPT !.params = p, !.late = q, !.aborted = TRUE, !.stage = s, !.timer = t,
            !.out = o, !.lp = [@ EXCEPT ![k.onabort].aborted = x]]

\* An abort leaves what the LPs came to as it is.
LEMMA AbortKeeps ==
  ASSUME NEW g, NEW k, CallOK(k, g), k.stage \in {"asking", "settled"}, k.asked # <<>>,
         NEW p \in {"pending", "ok", "failed"}, NEW q \in {"pending", "ok", "failed"},
         NEW s \in {"asking", "settled"}, NEW t \in {"unset", "armed", "off"}, NEW o \in Outs,
         t = "armed" => k.timer = "armed",
         s = "settled" => OutOK(o, k.req, k.asked, k.lp),
         NEW x \in BOOLEAN
  PROVE  Quiet(k, Aborting(k, p, q, s, t, o, x), g)
<1> DEFINE ms == [k.lp EXCEPT ![k.onabort].aborted = x]
           n  == Aborting(k, p, q, s, t, o, x)
<1>1. /\ k.lp \in Seq(LpTypes) /\ Len(k.lp) = Len(k.asked) /\ k.onabort \in DOMAIN k.lp
      /\ \A j \in DOMAIN k.lp : LpOK(k.req, k.lp[j])
      /\ k.timer = "armed" => Quoted(k.lp) # {}
      /\ BoundsOK(k.bounds, k.asked, k.lp)
  BY AskedFacts
<1>2. /\ Alike(k.lp, ms, k.asked)
      /\ \A j \in DOMAIN k.lp : /\ ms[j].at = k.lp[j].at /\ ms[j].step = k.lp[j].step
                                /\ ms[j].verdict = k.lp[j].verdict /\ ms[j].wrong = k.lp[j].wrong
  BY <1>1, AbortIsAlike
<1>3. n = [k EXCEPT !.params = p, !.late = q, !.aborted = TRUE, !.stage = s, !.timer = t,
                    !.out = o, !.lp = ms]
  BY DEF Aborting
<1> HIDE DEF ms, n
<1>4. /\ ms \in Seq(LpTypes) /\ Len(ms) = Len(k.lp) /\ DOMAIN ms = DOMAIN k.lp
      /\ Quoted(ms) = Quoted(k.lp) /\ CaughtIn(k.asked, ms) = CaughtIn(k.asked, k.lp)
      /\ BoundsOK(k.bounds, k.asked, ms)
      /\ s = "settled" => OutOK(o, k.req, k.asked, ms)
  BY <1>1, <1>2, AlikeKeeps DEF Alike
<1>5. /\ n \in CallTypes(g) /\ n.asked = k.asked /\ n.req = k.req /\ n.stage = s
      /\ n.onabort = k.onabort /\ n.out = o /\ n.timer = t /\ n.bounds = k.bounds /\ n.lp = ms
  <2>1. k \in CallTypes(g)
    BY DEF CallOK
  <2> QED BY <1>3, <1>4, <2>1 DEF CallTypes
<1>6. \A j \in DOMAIN ms : LpOK(n.req, ms[j])
  <2>1. ASSUME NEW j \in DOMAIN ms PROVE LpOK(k.req, ms[j])
    <3>1. j \in DOMAIN k.lp /\ LpOK(k.req, k.lp[j])
      BY <1>1, <1>4
    <3> QED BY <1>2, <3>1 DEF LpOK, AtStep
  <2> QED BY <1>5, <2>1
<1>7. CallOK(n, g)
  BY <1>1, <1>4, <1>5, <1>6 DEF CallOK
<1> QED BY <1>4, <1>5, <1>7 DEF n, Quiet

\* Asking starts with the first step of the exchange, of every candidate.
LEMMA FirstStep ==
  ASSUME NEW r \in CreateRequests
  PROVE  /\ Asked(r) \in LpTypes /\ AtStep(Asked(r)) /\ LpOK(r, Asked(r))
         /\ InFlight(Asked(r)) /\ Asked(r).at \notin Failures \cup {"quoted"}
<1>1. /\ Len(Steps(r)) >= 1 /\ Steps(r)[1].step \in {"prepare", "init"}
  BY StepsFacts
<1>2. Asked(r) \in LpTypes
  BY <1>1 DEF Asked, LpTypes
<1> QED BY <1>1, <1>2 DEF Asked, AtStep, InFlight, LpOK, Failures

\* A call as it is made, of the candidates or of none.
LEMMA CalledIsOK ==
  ASSUME NEW g, NEW r \in CreateRequests, NEW asked \in Seq(KnownLPs(g)),
         NEW stage \in {"reloading", "creating", "asking", "settled"}, NEW out \in Outs,
         stage = "reloading" => asked = <<>>,
         stage = "settled" => asked = <<>> /\ out.type \in {"bounds", "error"}
  PROVE  /\ CallOK(Called(stage, r, asked, out), g)
         /\ CaughtIn(Called(stage, r, asked, out).asked, Called(stage, r, asked, out).lp) = {}
<1> DEFINE k  == Called(stage, r, asked, out)
           ls == [i \in DOMAIN asked |-> Asked(r)]
<1>1. \A i \in DOMAIN ls : ls[i] = Asked(r)
  OBVIOUS
<1>2. \A i \in DOMAIN ls : /\ ls[i].at \notin Failures \cup {"quoted"}
                           /\ AtStep(ls[i]) /\ LpOK(r, ls[i])
  <2> HIDE DEF ls
  <2> QED BY <1>1, FirstStep
<1>3. ls \in Seq(LpTypes) /\ Len(ls) = Len(asked) /\ DOMAIN ls = 1..Len(asked) /\ Len(asked) \in Nat
  <2>1. Asked(r) \in LpTypes
    BY FirstStep
  <2>2. Len(asked) \in Nat /\ DOMAIN asked = 1..Len(asked)
    OBVIOUS
  <2>3. \A m \in Nat : \A f \in [1..m -> LpTypes] : f \in Seq(LpTypes) /\ Len(f) = m
    OBVIOUS
  <2>4. ls \in [1..Len(asked) -> LpTypes]
    BY <2>1, <2>2
  <2> HIDE DEF ls
  <2> QED BY <2>2, <2>3, <2>4
<1>4. k = [stage |-> stage, req |-> r, asked |-> asked, lp |-> ls, params |-> "pending",
           late |-> IF HasLate(r) THEN "pending" ELSE "ok", onabort |-> Len(asked),
           aborted |-> FALSE, timer |-> "unset", bounds |-> NoBounds, out |-> out]
  BY DEF Called
<1> HIDE DEF k, ls
<1>5. Quoted(ls) = {} /\ CaughtIn(asked, ls) = {} /\ ToldIn(asked, ls) = {}
  BY <1>2 DEF Quoted, CaughtIn, ToldIn, Failures
<1>6. k \in CallTypes(g)
  BY <1>3, <1>4 DEF CallTypes
<1>7. asked # <<>> => Len(asked) \in 1..Len(asked)
  <2>1. asked # <<>> => Len(asked) # 0
    BY EmptySeq
  <2> QED BY <1>3, <2>1
<1>8. BoundsOK(NoBounds, asked, ls)
  BY <1>5 DEF BoundsOK
<1>9. stage = "settled" => OutOK(out, r, asked, ls)
  <2>1. asked = <<>> => Resolved(ls) = DOMAIN ls
    BY <1>3 DEF Resolved
  <2> QED BY <1>5, <2>1 DEF OutOK
<1>10. CallOK(k, g)
  BY <1>2, <1>3, <1>4, <1>6, <1>7, <1>8, <1>9 DEF CallOK
<1> QED BY <1>4, <1>5, <1>10 DEF k

-----------------------------------------------------------------------------
(* The list and the calls *)

\* What a step of one call does to the whole: n is the call after the step, and
\* X what the step takes off the list.
LEMMA CallMoves ==
  ASSUME QuotesInv, NEW c \in Calls, NEW n, CallOK(n, gen), NEW X,
         CaughtIn(n.asked, n.lp) =
           X \cup IF call[c] = Idle THEN {} ELSE CaughtIn(call[c].asked, call[c].lp),
         call' = [call EXCEPT ![c] = n], intermediaries' = intermediaries \ X,
         fetched' = fetched, gen' = gen, reloading' \in BOOLEAN
  PROVE  QuotesInv'
<1>1. n \in CallTypes(gen) /\ n # Idle
  BY DEF CallOK, CallTypes, Idle
<1>2. call \in [Calls -> {Idle} \cup CallTypes(gen)]
  BY DEF QuotesInv
<1>3. /\ call' \in [Calls -> {Idle} \cup CallTypes(gen)] /\ call'[c] = n
      /\ \A d \in Calls : d # c => call'[d] = call[d]
  BY <1>1, <1>2
<1>4. Ran' = Ran \cup {c}
  BY <1>1, <1>3 DEF Ran
<1>5. \A d \in Ran' : CallOK(call'[d], gen)
  BY <1>3, <1>4 DEF QuotesInv, Ran
<1> DEFINE Now(d)  == CaughtIn(call[d].asked, call[d].lp)
           Then(d) == CaughtIn(call'[d].asked, call'[d].lp)
<1>6. /\ Then(c) = X \cup (IF c \in Ran THEN Now(c) ELSE {})
      /\ \A d \in Calls : d # c => Then(d) = Now(d)
  BY <1>3 DEF Ran
<1>7. intermediaries = fetched \ UNION {Now(d) : d \in Ran}
  BY DEF QuotesInv
<1>8. c \in Ran' /\ Ran \subseteq Calls
  BY <1>4 DEF Ran
<1> HIDE DEF Now, Then
<1>9. UNION {Then(d) : d \in Ran'} = X \cup UNION {Now(d) : d \in Ran}
  <2>1. \A x : x \in UNION {Then(d) : d \in Ran'} <=> \E d \in Ran' : x \in Then(d)
    OBVIOUS
  <2>2. \A x : x \in UNION {Now(d) : d \in Ran} <=> \E d \in Ran : x \in Now(d)
    OBVIOUS
  <2>3. \A x : (\E d \in Ran' : x \in Then(d)) <=> x \in X \/ \E d \in Ran : x \in Now(d)
    BY <1>4, <1>6, <1>8
  <2> QED BY <2>1, <2>2, <2>3
<1>10. intermediaries' = fetched \ UNION {Then(d) : d \in Ran'}
  BY <1>7, <1>9
<1>11. /\ gen \in Nat /\ fetched \in FetchIntermediaries(gen) \cup {{}}
  BY DEF QuotesInv
<1>12. (intermediaries = fetched \ UNION {CaughtIn(call[d].asked, call[d].lp) : d \in Ran})'
  BY <1>10 DEF Then
<1> QED BY <1>3, <1>5, <1>11, <1>12 DEF QuotesInv

\* What is on the list has come with the last reload, one object per LP.
LEMMA ListFacts ==
  ASSUME QuotesInv
  PROVE  intermediaries \in SUBSET LPs(gen) /\ Distinct(intermediaries)
<1>1. fetched \subseteq LPs(gen) /\ Distinct(fetched)
  <2>1. CASE fetched = {}
    BY <2>1 DEF Distinct
  <2>2. CASE fetched \in FetchIntermediaries(gen)
    BY <2>2, Fetched
  <2> QED BY <2>1, <2>2 DEF QuotesInv
<1>2. intermediaries \subseteq fetched
  BY DEF QuotesInv
<1> QED BY <1>1, <1>2 DEF Distinct

\* The types of a call hold on to later reloads.
LEMMA LaterTypes ==
  ASSUME NEW g \in Nat
  PROVE  CallTypes(g) \subseteq CallTypes(g + 1) /\ \A k : CallOK(k, g) => CallOK(k, g + 1)
<1>1. KnownLPs(g) \subseteq KnownLPs(g + 1)
  BY DEF KnownLPs
<1>2. Seq(KnownLPs(g)) \subseteq Seq(KnownLPs(g + 1))
  BY <1>1
<1>3. CallTypes(g) \subseteq CallTypes(g + 1)
  BY <1>2 DEF CallTypes
<1> QED BY <1>3 DEF CallOK

\* A reload: the calls are what they were, and what they have caught or catch
\* from now on is not on the new list.
LEMMA ListReplaced ==
  ASSUME QuotesInv, NEW objects \in FetchIntermediaries(gen + 1)
  PROVE  /\ gen + 1 \in Nat
         /\ call \in [Calls -> {Idle} \cup CallTypes(gen + 1)]
         /\ \A c \in Ran : CallOK(call[c], gen + 1)
         /\ \A c \in Ran : objects \cap CaughtIn(call[c].asked, call[c].lp) = {}
<1>1. /\ gen \in Nat /\ call \in [Calls -> {Idle} \cup CallTypes(gen)]
      /\ \A c \in Ran : CallOK(call[c], gen)
  BY DEF QuotesInv
<1>2. objects \subseteq LPs(gen + 1)
  BY Fetched
<1>3. ASSUME NEW c \in Ran
      PROVE  objects \cap CaughtIn(call[c].asked, call[c].lp) = {}
  <2>1. /\ call[c].asked \in Seq(KnownLPs(gen)) /\ call[c].lp \in Seq(LpTypes)
        /\ Len(call[c].lp) = Len(call[c].asked)
    BY <1>1 DEF CallOK, CallTypes
  <2>2. \A i \in DOMAIN call[c].lp : call[c].asked[i] \in KnownLPs(gen)
    BY <2>1
  <2>3. CaughtIn(call[c].asked, call[c].lp) \subseteq KnownLPs(gen)
    BY <2>2 DEF CaughtIn
  <2>4. \A lp \in LPs(gen + 1) : lp.gen = gen + 1
    BY DEF LPs
  <2>5. \A lp \in KnownLPs(gen) : lp.gen <= gen
    BY <1>1 DEF KnownLPs
  <2> QED BY <1>1, <1>2, <2>3, <2>4, <2>5
<1> QED BY <1>1, <1>3, LaterTypes

\* Any nonempty finite set of numbers has a least and a greatest one.
LEMMA LeastNat ==
  ASSUME NEW S \in SUBSET Nat, IsFiniteSet(S), S # {}
  PROVE  /\ (CHOOSE m \in S : \A n \in S : m <= n) \in Nat
         /\ (CHOOSE m \in S : \A n \in S : m >= n) \in Nat
<1> DEFINE id == [x \in S |-> x]
<1>1. id \in [S -> Int] /\ \A x \in S : id[x] = x
  OBVIOUS
<1> HIDE DEF id
<1>2. \E m \in S : \A n \in S : m <= n
  <2>1. PICK m \in S : \A n \in S : id[m] <= id[n]
    BY <1>1, LeastValue
  <2> QED BY <1>1, <2>1
<1>3. \E m \in S : \A n \in S : m >= n
  <2>1. PICK m \in S : \A n \in S : id[m] >= id[n]
    BY <1>1, GreatestValue
  <2> QED BY <1>1, <2>1
<1> QED BY <1>2, <1>3

\* The numbers that finitely many LPs announce are finitely many.
LEMMA AnnouncedFinite ==
  ASSUME NEW f \in [Urls -> Nat], NEW S \in SUBSET {f[u] : u \in Urls}
  PROVE  S \in SUBSET Nat /\ IsFiniteSet(S)
<1> DEFINE T == {f[u] : u \in Urls}
<1>1. f \in Surjection(Urls, T) /\ T \subseteq Nat /\ S \subseteq T
  BY DEF Surjection
<1> HIDE DEF T
<1>2. IsFiniteSet(T)
  BY <1>1, FS_Surjection, ServiceAssumption
<1> QED BY <1>1, <1>2, FS_Subset

-----------------------------------------------------------------------------
(* Every action keeps the invariant *)

\* The candidates of a list are asked, cheapest first.
LEMMA AskIsOK ==
  ASSUME NEW g \in Nat, NEW lps \in SUBSET LPs(g), Distinct(lps), NEW r \in CreateRequests
  PROVE  CallOK(Ask(r, lps), g) /\ CaughtIn(Ask(r, lps).asked, Ask(r, lps).lp) = {}
<1>1. LPs(g) \subseteq KnownLPs(g)
  BY DEF LPs, KnownLPs
<1>2. SortedByFee(lps) \in Seq(KnownLPs(g))
  <2>1. SortedByFee(lps) \in Seq(lps)
    BY SortedIsThose
  <2> QED BY <1>1, <2>1
<1>3. Pending \in Outs /\ (IF Awaits(r) THEN "creating" ELSE "asking") \in {"creating", "asking"}
  BY DEF Outs
<1> QED BY <1>2, <1>3, CalledIsOK DEF Ask

\* A call that has caught no one yet is replaced by one that has caught no one.
LEMMA FreshCallKeeps ==
  ASSUME QuotesInv, NEW c \in Calls, NEW n, CallOK(n, gen), CaughtIn(n.asked, n.lp) = {},
         call[c] = Idle \/ CaughtIn(call[c].asked, call[c].lp) = {},
         call' = [call EXCEPT ![c] = n], UNCHANGED discoveryVars
  PROVE  QuotesInv'
<1>1. /\ intermediaries' = intermediaries \ {} /\ fetched' = fetched /\ gen' = gen
      /\ reloading' \in BOOLEAN
  BY DEF discoveryVars, QuotesInv
<1>2. CaughtIn(n.asked, n.lp) =
        {} \cup IF call[c] = Idle THEN {} ELSE CaughtIn(call[c].asked, call[c].lp)
  OBVIOUS
<1> QED BY <1>1, <1>2, CallMoves

\* createSwap() is called.
LEMMA CreateSwapKeeps ==
  ASSUME QuotesInv, NEW c \in Calls, NEW r \in CreateRequests, CreateSwap(c, r)
  PROVE  QuotesInv'
<1> DEFINE n == IF Candidates(r) = {} THEN Called("reloading", r, <<>>, Pending)
                ELSE Ask(r, Candidates(r))
<1>1. /\ call[c] = Idle /\ call' = [call EXCEPT ![c] = n] /\ UNCHANGED discoveryVars
  BY DEF CreateSwap
<1>2. gen \in Nat /\ Candidates(r) \in SUBSET LPs(gen) /\ Distinct(Candidates(r))
  <2>1. Candidates(r) \subseteq intermediaries
    BY DEF Candidates, GetSwapCandidates
  <2>2. gen \in Nat
    BY DEF QuotesInv
  <2> QED BY <2>1, <2>2, ListFacts DEF Distinct
<1>3. CallOK(n, gen) /\ CaughtIn(n.asked, n.lp) = {}
  <2>1. CASE Candidates(r) = {}
    <3>1. <<>> \in Seq(KnownLPs(gen)) /\ Pending \in Outs
      BY DEF Outs
    <3> QED BY <2>1, <3>1, CalledIsOK
  <2>2. CASE Candidates(r) # {}
    BY <1>2, <2>2, AskIsOK
  <2> QED BY <2>1, <2>2
<1> HIDE DEF n
<1> QED BY <1>1, <1>3, FreshCallKeeps

\* What a call that waits for the list makes of it.
LEMMA ReloadedIsOK ==
  ASSUME NEW g \in Nat, intermediaries' \in SUBSET LPs(g), Distinct(intermediaries'),
         NEW r \in CreateRequests,
         NEW n, n = IF Candidates(r)' # {} THEN Ask(r, Candidates(r)')
                    ELSE Called("settled", r, <<>>,
                           IF InBtc(r) /\ OutOfAllBounds(r.kind, r.amount)'
                           THEN OutOfBounds(<<GetSwapMinimum(r.kind)', GetSwapMaximum(r.kind)'>>)
                           ELSE Error)
  PROVE  CallOK(n, g) /\ CaughtIn(n.asked, n.lp) = {}
<1>1. CASE Candidates(r)' # {}
  <2>1. Candidates(r)' \subseteq intermediaries'
    BY DEF Candidates, GetSwapCandidates
  <2>2. Candidates(r)' \in SUBSET LPs(g) /\ Distinct(Candidates(r)')
    BY <2>1 DEF Distinct
  <2> QED BY <1>1, <2>2, AskIsOK
<1>2. CASE Candidates(r)' = {}
  <2> DEFINE min == GetSwapMinimum(r.kind)'
             max == GetSwapMaximum(r.kind)'
             o   == IF InBtc(r) /\ OutOfAllBounds(r.kind, r.amount)'
                    THEN OutOfBounds(<<min, max>>) ELSE Error
  <2>1. OutOfAllBounds(r.kind, r.amount)' => min \in Nat /\ max \in Nat
    <3> SUFFICES ASSUME OutOfAllBounds(r.kind, r.amount)' PROVE min \in Nat /\ max \in Nat
      OBVIOUS
    <3> DEFINE A == Mins(r.kind)'
               B == Maxes(r.kind)'
               f == [u \in Urls |-> Service[u].min]
               h == [u \in Urls |-> Service[u].max]
    <3>1. A # {} /\ B # {}
      BY DEF OutOfAllBounds, Mins, Maxes
    <3>2. \A lp \in intermediaries' : lp.url \in Urls
      BY DEF LPs
    <3>3. A \in SUBSET {f[u] : u \in Urls} /\ B \in SUBSET {h[u] : u \in Urls}
      BY <3>2 DEF Mins, Maxes
    <3>4. f \in [Urls -> Nat] /\ h \in [Urls -> Nat]
      BY ServiceAssumption
    <3>5. /\ min = (CHOOSE m \in A : \A x \in A : m <= x)
          /\ max = (CHOOSE m \in B : \A x \in B : m >= x)
      BY DEF GetSwapMinimum, GetSwapMaximum
    <3> HIDE DEF A, B, f, h, min, max
    <3>6. A \in SUBSET Nat /\ IsFiniteSet(A) /\ B \in SUBSET Nat /\ IsFiniteSet(B)
      BY <3>3, <3>4, AnnouncedFinite
    <3> QED BY <3>1, <3>5, <3>6, LeastNat
  <2>2. o \in Outs /\ o.type \in {"bounds", "error"}
    <3> HIDE DEF min, max
    <3> QED BY <2>1 DEF Outs, OutOfBounds, Error
  <2>3. n = Called("settled", r, <<>>, o) /\ <<>> \in Seq(KnownLPs(g))
    BY <1>2
  <2> HIDE DEF o
  <2> QED BY <2>2, <2>3, CalledIsOK
<1> QED BY <1>1, <1>2

\* The list is reloaded for a call that found no candidate.
LEMMA CandidatesReloadedKeeps ==
  ASSUME QuotesInv, NEW c \in Calls, CandidatesReloaded(c)
  PROVE  QuotesInv'
<1>1. /\ call[c] # Idle /\ CallOK(call[c], gen) /\ c \in Ran
      /\ call[c].req \in CreateRequests /\ gen \in Nat
  <2>1. call[c] # Idle
    BY DEF CandidatesReloaded, Idle
  <2>2. c \in Ran /\ CallOK(call[c], gen) /\ gen \in Nat
    BY <2>1 DEF QuotesInv, Ran
  <2> QED BY <2>1, <2>2 DEF CallOK, CallTypes
<1>2. CaughtIn(call[c].asked, call[c].lp) = {}
  <2>1. call[c].asked = <<>> /\ call[c].lp \in Seq(LpTypes) /\ Len(call[c].lp) = Len(call[c].asked)
    BY <1>1 DEF CandidatesReloaded, CallOK, CallTypes
  <2>2. Len(call[c].lp) = 0
    BY <2>1
  <2>3. DOMAIN call[c].lp = {}
    BY <2>1, <2>2
  <2> QED BY <2>3 DEF CaughtIn
<1>3. PICK r \in {call[c].req} :
        call' = [call EXCEPT ![c] =
          IF Candidates(r)' # {} THEN Ask(r, Candidates(r)')
          ELSE Called("settled", r, <<>>,
                 IF InBtc(r) /\ OutOfAllBounds(r.kind, r.amount)'
                 THEN OutOfBounds(<<GetSwapMinimum(r.kind)', GetSwapMaximum(r.kind)'>>)
                 ELSE Error)]
  BY DEF CandidatesReloaded
<1> DEFINE n == IF Candidates(r)' # {} THEN Ask(r, Candidates(r)')
                ELSE Called("settled", r, <<>>,
                       IF InBtc(r) /\ OutOfAllBounds(r.kind, r.amount)'
                       THEN OutOfBounds(<<GetSwapMinimum(r.kind)', GetSwapMaximum(r.kind)'>>)
                       ELSE Error)
<1>4. r \in CreateRequests /\ call' = [call EXCEPT ![c] = n]
  BY <1>1, <1>3
<1>5. CASE UNCHANGED <<intermediaries, fetched, gen>>
  <2>1. intermediaries' \in SUBSET LPs(gen) /\ Distinct(intermediaries')
    BY <1>5, ListFacts
  <2>2. CallOK(n, gen) /\ CaughtIn(n.asked, n.lp) = {}
    BY <1>1, <1>4, <2>1, ReloadedIsOK
  <2>3. UNCHANGED discoveryVars
    BY <1>5 DEF CandidatesReloaded, discoveryVars
  <2> HIDE DEF n
  <2> QED BY <1>2, <1>4, <2>2, <2>3, FreshCallKeeps
<1>6. CASE \E objects \in FetchIntermediaries(gen + 1) : Replace(objects)
  <2>1. PICK objects \in FetchIntermediaries(gen + 1) : Replace(objects)
    BY <1>6
  <2>2. /\ gen' = gen + 1 /\ intermediaries' = objects /\ fetched' = objects
        /\ reloading' \in BOOLEAN
    BY <2>1 DEF Replace, CandidatesReloaded, QuotesInv
  <2>3. /\ gen + 1 \in Nat
        /\ call \in [Calls -> {Idle} \cup CallTypes(gen + 1)]
        /\ \A d \in Ran : CallOK(call[d], gen + 1)
        /\ \A d \in Ran : objects \cap CaughtIn(call[d].asked, call[d].lp) = {}
    BY <2>1, ListReplaced
  <2>4. intermediaries' \in SUBSET LPs(gen + 1) /\ Distinct(intermediaries')
    BY <2>1, <2>2, Fetched
  <2>5. CallOK(n, gen + 1) /\ CaughtIn(n.asked, n.lp) = {}
    BY <1>4, <2>3, <2>4, ReloadedIsOK
  <2> HIDE DEF n
  <2>6. n \in CallTypes(gen + 1) /\ n # Idle
    BY <2>5 DEF CallOK, CallTypes, Idle
  <2>7. /\ call' \in [Calls -> {Idle} \cup CallTypes(gen + 1)] /\ call'[c] = n
        /\ \A d \in Calls : d # c => call'[d] = call[d]
    BY <1>4, <2>3, <2>6
  <2>8. Ran' = Ran
    BY <1>1, <2>6, <2>7 DEF Ran
  <2>9. /\ \A d \in Ran' : CallOK(call'[d], gen + 1)
        /\ \A d \in Ran' : objects \cap CaughtIn(call'[d].asked, call'[d].lp) = {}
    BY <2>3, <2>5, <2>7, <2>8 DEF Ran
  <2>10. objects = objects \ UNION {CaughtIn(call'[d].asked, call'[d].lp) : d \in Ran'}
    BY <2>9
  <2>11. (intermediaries = fetched \ UNION {CaughtIn(call[d].asked, call[d].lp) : d \in Ran})'
    BY <2>2, <2>10
  <2> QED BY <2>1, <2>2, <2>3, <2>7, <2>9, <2>11 DEF QuotesInv
<1> QED BY <1>5, <1>6 DEF CandidatesReloaded

\* The application reloads the list.
LEMMA ReloadKeeps == QuotesInv /\ ReloadIntermediaries => QuotesInv'
<1> SUFFICES ASSUME QuotesInv, ReloadIntermediaries PROVE QuotesInv'
  OBVIOUS
<1>1. call' = call /\ Ran' = Ran /\ reloading' \in BOOLEAN
  BY DEF ReloadIntermediaries, ReloadStarted, ReloadEnds, Ran
<1>2. CASE UNCHANGED <<intermediaries, fetched, gen>>
  BY <1>1, <1>2 DEF QuotesInv
<1>3. CASE \E objects \in FetchIntermediaries(gen + 1) : Replace(objects)
  <2>1. PICK objects \in FetchIntermediaries(gen + 1) : Replace(objects)
    BY <1>3
  <2>2. gen' = gen + 1 /\ intermediaries' = objects /\ fetched' = objects
    BY <2>1 DEF Replace
  <2>3. /\ gen + 1 \in Nat
        /\ call \in [Calls -> {Idle} \cup CallTypes(gen + 1)]
        /\ \A d \in Ran : CallOK(call[d], gen + 1)
        /\ \A d \in Ran : objects \cap CaughtIn(call[d].asked, call[d].lp) = {}
    BY <2>1, ListReplaced
  <2>4. objects = objects \ UNION {CaughtIn(call[d].asked, call[d].lp) : d \in Ran}
    BY <2>3
  <2>5. (intermediaries = fetched \ UNION {CaughtIn(call[d].asked, call[d].lp) : d \in Ran})'
    BY <1>1, <2>2, <2>4
  <2> QED BY <1>1, <2>1, <2>2, <2>3, <2>5 DEF QuotesInv
<1> QED BY <1>2, <1>3 DEF ReloadIntermediaries, ReloadStarted, ReloadEnds

\* A call that has not settled is one.
LEMMA CallFacts ==
  ASSUME QuotesInv, NEW c \in Calls, call[c].stage # "idle"
  PROVE  /\ call[c] # Idle /\ c \in Ran /\ CallOK(call[c], gen) /\ call[c] \in CallTypes(gen)
         /\ call[c].req \in CreateRequests
<1>1. call[c] # Idle
  BY DEF Idle
<1>2. c \in Ran /\ CallOK(call[c], gen)
  BY <1>1 DEF QuotesInv, Ran
<1> QED BY <1>1, <1>2 DEF CallOK, CallTypes

\* A step that takes no LP off the list.
LEMMA QuietCallKeeps ==
  ASSUME QuotesInv, NEW c \in Calls, call[c] # Idle, NEW n, CallOK(n, gen),
         CaughtIn(n.asked, n.lp) = CaughtIn(call[c].asked, call[c].lp),
         call' = [call EXCEPT ![c] = n], UNCHANGED discoveryVars
  PROVE  QuotesInv'
<1>1. /\ intermediaries' = intermediaries \ {} /\ fetched' = fetched /\ gen' = gen
      /\ reloading' \in BOOLEAN
  BY DEF discoveryVars, QuotesInv
<1>2. CaughtIn(n.asked, n.lp) =
        {} \cup IF call[c] = Idle THEN {} ELSE CaughtIn(call[c].asked, call[c].lp)
  OBVIOUS
<1> QED BY <1>1, <1>2, CallMoves

\* While create() waits nobody has been caught.
LEMMA CreatingFacts ==
  ASSUME QuotesInv, NEW c \in Calls, call[c].stage = "creating"
  PROVE  CaughtIn(call[c].asked, call[c].lp) = {}
<1>1. \A i \in DOMAIN call[c].lp : AtStep(call[c].lp[i])
  BY CallFacts DEF CallOK
<1> QED BY <1>1 DEF CaughtIn, AtStep

\* create() fails.
LEMMA CreateFailsKeeps ==
  ASSUME QuotesInv, NEW c \in Calls, CreateFails(c)
  PROVE  QuotesInv'
<1> DEFINE n == Called("settled", call[c].req, <<>>, Error)
<1>1. /\ call[c].stage = "creating" /\ call' = [call EXCEPT ![c] = n] /\ UNCHANGED discoveryVars
  BY DEF CreateFails
<1>2. call[c].req \in CreateRequests /\ CaughtIn(call[c].asked, call[c].lp) = {}
  BY <1>1, CallFacts, CreatingFacts
<1>3. <<>> \in Seq(KnownLPs(gen)) /\ Error \in Outs /\ Error.type = "error"
  BY DEF Outs, Error
<1>4. CallOK(n, gen) /\ CaughtIn(n.asked, n.lp) = {}
  BY <1>2, <1>3, CalledIsOK
<1> HIDE DEF n
<1> QED BY <1>1, <1>2, <1>4, FreshCallKeeps

\* create() is through.
LEMMA CreatedKeeps ==
  ASSUME QuotesInv, NEW c \in Calls, Created(c)
  PROVE  QuotesInv'
<1> DEFINE n == [call[c] EXCEPT !.stage = "asking"]
<1>1. call[c].stage = "creating" /\ call' = [call EXCEPT ![c] = n] /\ UNCHANGED discoveryVars
  BY DEF Created
<1>2. call[c] # Idle /\ CallOK(call[c], gen) /\ call[c] \in CallTypes(gen)
  BY <1>1, CallFacts
<1>3. /\ n \in CallTypes(gen) /\ n.stage = "asking" /\ n.lp = call[c].lp /\ n.asked = call[c].asked
      /\ n.req = call[c].req /\ n.onabort = call[c].onabort /\ n.timer = call[c].timer
      /\ n.bounds = call[c].bounds /\ n.out = call[c].out
  BY <1>2 DEF CallTypes
<1> HIDE DEF n
<1>4. CallOK(n, gen)
  BY <1>2, <1>3 DEF CallOK
<1>5. CaughtIn(n.asked, n.lp) = CaughtIn(call[c].asked, call[c].lp)
  BY <1>3
<1> QED BY <1>1, <1>2, <1>4, <1>5, QuietCallKeeps

\* What is fetched once for all requests is there.
LEMMA SharedFetchedKeeps ==
  ASSUME QuotesInv, NEW c \in Calls, SharedFetched(c)
  PROVE  QuotesInv'
<1> DEFINE Now(p, q) == [call[c] EXCEPT !.params = p, !.late = q]
<1>1. call[c].stage \in {"asking", "settled"} /\ UNCHANGED discoveryVars
  BY DEF SharedFetched, Running
<1>2. /\ call[c] # Idle /\ CallOK(call[c], gen) /\ call[c] \in CallTypes(gen)
      /\ call[c].params \in {"pending", "ok", "failed"} /\ call[c].late \in {"pending", "ok", "failed"}
  BY <1>1, CallFacts DEF CallTypes
<1>3. \E p, q \in {"pending", "ok", "failed"} : call' = [call EXCEPT ![c] = Now(p, q)]
  <2>1. CASE call' = [call EXCEPT ![c].params = "ok"]
    <3>1. call' = [call EXCEPT ![c] = Now("ok", call[c].late)]
      BY <1>2, <2>1 DEF CallTypes
    <3> QED BY <1>2, <3>1
  <2>2. CASE call' = [call EXCEPT ![c].late = "ok"]
    <3>1. call' = [call EXCEPT ![c] = Now(call[c].params, "ok")]
      BY <1>2, <2>2 DEF CallTypes
    <3> QED BY <1>2, <3>1
  <2> QED BY <2>1, <2>2 DEF SharedFetched
<1>4. PICK p, q \in {"pending", "ok", "failed"} : call' = [call EXCEPT ![c] = Now(p, q)]
  BY <1>3
<1> DEFINE n == Now(p, q)
<1>5. /\ n \in CallTypes(gen) /\ n.stage = call[c].stage /\ n.lp = call[c].lp
      /\ n.asked = call[c].asked /\ n.req = call[c].req /\ n.onabort = call[c].onabort
      /\ n.timer = call[c].timer /\ n.bounds = call[c].bounds /\ n.out = call[c].out
  BY <1>2 DEF CallTypes
<1>6. call' = [call EXCEPT ![c] = n]
  BY <1>4
<1> HIDE DEF n
<1>7. CallOK(n, gen)
  BY <1>2, <1>5 DEF CallOK
<1>8. CaughtIn(n.asked, n.lp) = CaughtIn(call[c].asked, call[c].lp)
  BY <1>5
<1> QED BY <1>1, <1>2, <1>6, <1>7, <1>8, QuietCallKeeps

\* Or it is not, and the call is aborted.
LEMMA SharedFailsKeeps ==
  ASSUME QuotesInv, NEW c \in Calls, SharedFails(c)
  PROVE  QuotesInv'
<1>1. /\ call[c].stage \in {"asking", "settled"} /\ call[c].asked # <<>> /\ UNCHANGED discoveryVars
  BY DEF SharedFails, Running
<1>2. call[c] # Idle /\ CallOK(call[c], gen) /\ call[c] \in CallTypes(gen)
  BY <1>1, CallFacts
<1>3. /\ call[c].params \in {"pending", "ok", "failed"} /\ call[c].late \in {"pending", "ok", "failed"}
      /\ call[c].timer \in {"unset", "armed", "off"} /\ call[c].out \in Outs
      /\ call[c].stage = "settled" => OutOK(call[c].out, call[c].req, call[c].asked, call[c].lp)
  BY <1>2 DEF CallTypes, CallOK
<1> DEFINE x == InFlight(call[c].lp[call[c].onabort])
           Aborted(p, q) ==
             Aborting(call[c], p, q, call[c].stage, call[c].timer, call[c].out, x)
<1>4. x \in BOOLEAN
  BY DEF InFlight, AtStep
<1>5. ASSUME NEW p \in {"pending", "ok", "failed"}, NEW q \in {"pending", "ok", "failed"}
      PROVE  Quiet(call[c], Aborted(p, q), gen)
  <2> HIDE DEF x
  <2> QED BY <1>1, <1>2, <1>3, <1>4, AbortKeeps
<1>6. CASE call' = [call EXCEPT ![c] = Abort([@ EXCEPT !.params = "failed"])]
  <2>1. Abort([call[c] EXCEPT !.params = "failed"]) = Aborted("failed", call[c].late)
    BY <1>2 DEF Abort, Aborting, CallTypes
  <2>2. call' = [call EXCEPT ![c] = Aborted("failed", call[c].late)]
    BY <1>6, <2>1
  <2> HIDE DEF Aborted
  <2> QED BY <1>1, <1>2, <1>3, <1>5, <2>2, QuietCallKeeps DEF Quiet
<1>7. CASE call' = [call EXCEPT ![c] = Abort([@ EXCEPT !.late = "failed"])]
  <2>1. Abort([call[c] EXCEPT !.late = "failed"]) = Aborted(call[c].params, "failed")
    BY <1>2 DEF Abort, Aborting, CallTypes
  <2>2. call' = [call EXCEPT ![c] = Aborted(call[c].params, "failed")]
    BY <1>7, <2>1
  <2> HIDE DEF Aborted
  <2> QED BY <1>1, <1>2, <1>3, <1>5, <2>2, QuietCallKeeps DEF Quiet
<1> QED BY <1>6, <1>7 DEF SharedFails

\* The wait for the others is over.
LEMMA TimerFiresKeeps ==
  ASSUME QuotesInv, NEW c \in Calls, TimerFires(c)
  PROVE  QuotesInv'
<1> DEFINE out == Outcome(call[c], call[c].lp)
           x   == InFlight(call[c].lp[call[c].onabort])
           n   == Aborting(call[c], call[c].params, call[c].late, "settled", "off", out, x)
<1>1. call[c].stage = "asking" /\ call[c].timer = "armed" /\ UNCHANGED discoveryVars
  BY DEF TimerFires
<1>2. call[c] # Idle /\ CallOK(call[c], gen) /\ call[c] \in CallTypes(gen)
  BY <1>1, CallFacts
<1>3. /\ call[c].lp \in Seq(LpTypes) /\ Len(call[c].lp) = Len(call[c].asked)
      /\ call[c].asked \in Seq(KnownLPs(gen)) /\ Quoted(call[c].lp) # {}
      /\ call[c].params \in {"pending", "ok", "failed"} /\ call[c].late \in {"pending", "ok", "failed"}
      /\ call[c].req \in CreateRequests /\ call[c].bounds \in {NoBounds} \cup (Nat \X Nat)
      /\ BoundsOK(call[c].bounds, call[c].asked, call[c].lp)
      /\ \A i \in DOMAIN call[c].lp : LpOK(call[c].req, call[c].lp[i])
  BY <1>1, <1>2 DEF CallOK, CallTypes
<1>4. call[c].asked # <<>>
  <2>1. Len(call[c].lp) # 0
    BY <1>3 DEF Quoted
  <2> QED BY <1>3, <2>1
<1>5. out \in Outs /\ OutOK(out, call[c].req, call[c].asked, call[c].lp)
  BY <1>3, OutcomeIsSound
<1>6. x \in BOOLEAN
  BY DEF InFlight, AtStep
<1>7. [Abort(call[c]) EXCEPT !.stage = "settled", !.timer = "off", !.out = out] = n
  <2> HIDE DEF out
  <2> QED BY <1>2 DEF Abort, Aborting, CallTypes
<1>8. call' = [call EXCEPT ![c] = n]
  <2>1. call' = [call EXCEPT ![c] =
                   [Abort(call[c]) EXCEPT !.stage = "settled", !.timer = "off", !.out = out]]
    BY DEF TimerFires
  <2> HIDE DEF n, out
  <2> QED BY <1>7, <2>1
<1>9. Quiet(call[c], n, gen)
  <2> HIDE DEF x, out
  <2> QED BY <1>1, <1>2, <1>3, <1>4, <1>5, <1>6, AbortKeeps
<1> HIDE DEF n
<1> QED BY <1>1, <1>2, <1>8, <1>9, QuietCallKeeps DEF Quiet

\* What is so of a call that has asked LPs, and of each of its quotes.
LEMMA RunningFacts ==
  ASSUME QuotesInv, NEW c \in Calls, Running(c)
  PROVE  /\ call[c] # Idle /\ CallOK(call[c], gen) /\ call[c] \in CallTypes(gen)
         /\ call[c].stage \in {"asking", "settled"} /\ call[c].asked # <<>>
         /\ call[c].req \in CreateRequests /\ call[c].onabort \in DOMAIN call[c].lp
         /\ \A i \in DOMAIN call[c].lp :
              call[c].lp[i] \in LpTypes /\ LpOK(call[c].req, call[c].lp[i])
<1>1. call[c].stage \in {"asking", "settled"} /\ call[c].asked # <<>>
  BY DEF Running
<1>2. call[c] # Idle /\ CallOK(call[c], gen) /\ call[c] \in CallTypes(gen)
  BY <1>1, CallFacts
<1> QED BY <1>1, <1>2, AskedFacts

\* An LP's quote fails.
LEMMA FailedKeeps ==
  ASSUME QuotesInv, NEW c \in Calls, Running(c), NEW i \in DOMAIN call[c].lp,
         InFlight(call[c].lp[i]), NEW why \in Failures, Failed(c, i, why),
         why = "blamed" => \/ call[c].lp[i].wrong
                           \/ call[c].lp[i].step < Len(Steps(call[c].req))
                           \/ call[c].req.kind = "SPV_VAULT_FROM_BTC"
  PROVE  QuotesInv'
<1> DEFINE k == call[c]
           m == [k EXCEPT !.bounds = BoundsAfter(k, i, why)]
           w == [k EXCEPT !.bounds = BoundsAfter(k, i, why), !.timer = k.timer]
           n == Resolve(m, [k.lp EXCEPT ![i] = Done(@, why)])
           X == Off(k.asked[i], why)
<1>1. /\ k # Idle /\ CallOK(k, gen) /\ k \in CallTypes(gen)
      /\ k.stage \in {"asking", "settled"} /\ k.asked # <<>>
      /\ k.lp[i] \in LpTypes /\ LpOK(k.req, k.lp[i])
  BY RunningFacts
<1>2. LpOK(k.req, Done(k.lp[i], why))
  BY <1>1 DEF LpOK, Done, LpTypes, Failures, AtStep
<1>3. m = w /\ k.timer \in {"unset", "armed", "off"} /\ m.lp = k.lp /\ m.asked = k.asked
  BY <1>1 DEF CallTypes
<1>4. /\ call' = [call EXCEPT ![c] = n] /\ intermediaries' = intermediaries \ X
      /\ UNCHANGED <<fetched, gen, reloading>>
  <2> HIDE DEF m
  <2>1. call' = [call EXCEPT ![c] = Resolve(m, [m.lp EXCEPT ![i] = Done(@, why)])]
        /\ UNCHANGED <<fetched, gen, reloading>>
    BY DEF Failed, m
  <2>2. IF why = "blamed" THEN RemoveIntermediary(m.asked[i]) ELSE UNCHANGED intermediaries
    BY DEF Failed, m
  <2>3. intermediaries' = intermediaries \ X
    BY <1>3, <2>2 DEF RemoveIntermediary, Off
  <2> QED BY <1>3, <2>1, <2>3
<1>5. n = Finished(k, i, why, k.timer)
  BY <1>3 DEF Finished
<1> HIDE DEF n
<1>6. CallOK(n, gen) /\ CaughtIn(n.asked, n.lp) = X \cup CaughtIn(k.asked, k.lp)
  <2>1. i \in DOMAIN k.lp /\ InFlight(k.lp[i]) /\ why \in Failures \cup {"quoted"}
    OBVIOUS
  <2>2. k.timer \in {"unset", "armed", "off"}
    BY <1>3
  <2> HIDE DEF k, m, w, n, X
  <2>3. Ends(k, n, i, why, gen)
    BY <1>1, <1>2, <1>5, <2>1, <2>2, DoneKeeps
  <2> QED BY <2>3 DEF Ends, X
<1>7. reloading' \in BOOLEAN
  BY <1>4 DEF QuotesInv
<1> HIDE DEF X
<1> QED BY <1>1, <1>4, <1>6, <1>7, CallMoves

\* An LP's quote resolves.
LEMMA SucceededKeeps ==
  ASSUME QuotesInv, NEW c \in Calls, Running(c), NEW i \in DOMAIN call[c].lp,
         InFlight(call[c].lp[i]), Succeeded(c, i), ~call[c].lp[i].wrong
  PROVE  QuotesInv'
<1> DEFINE k == call[c]
           t == IF Resolved(k.lp) = {} THEN "armed" ELSE k.timer
           m == [k EXCEPT !.timer = t]
           w == [k EXCEPT !.bounds = BoundsAfter(k, i, "quoted"), !.timer = t]
           n == Resolve(m, [k.lp EXCEPT ![i] = Done(@, "quoted")])
<1>1. /\ k # Idle /\ CallOK(k, gen) /\ k \in CallTypes(gen)
      /\ k.stage \in {"asking", "settled"} /\ k.asked # <<>>
      /\ k.lp[i] \in LpTypes /\ LpOK(k.req, k.lp[i])
  BY RunningFacts
<1>2. LpOK(k.req, Done(k.lp[i], "quoted"))
  BY <1>1 DEF LpOK, Done, LpTypes, Failures, AtStep
<1>3. t \in {"unset", "armed", "off"}
  BY <1>1 DEF CallTypes
<1>4. m = w /\ m.lp = k.lp
  <2> HIDE DEF t
  <2>1. BoundsAfter(k, i, "quoted") = k.bounds
    BY DEF BoundsAfter
  <2> QED BY <1>1, <2>1 DEF CallTypes
<1>5. call' = [call EXCEPT ![c] = n] /\ UNCHANGED discoveryVars
  <2> HIDE DEF m
  <2>1. /\ call' = [call EXCEPT ![c] = Resolve(m, [m.lp EXCEPT ![i] = Done(@, "quoted")])]
        /\ UNCHANGED discoveryVars
    BY DEF Succeeded, m
  <2> QED BY <1>4, <2>1
<1>6. n = Finished(k, i, "quoted", t)
  BY <1>4 DEF Finished
<1> HIDE DEF n
<1>7. CallOK(n, gen) /\ CaughtIn(n.asked, n.lp) = CaughtIn(k.asked, k.lp)
  <2>1. i \in DOMAIN k.lp /\ InFlight(k.lp[i]) /\ "quoted" \in Failures \cup {"quoted"}
    OBVIOUS
  <2> HIDE DEF k, t, m, w
  <2>3. Ends(k, n, i, "quoted", gen)
    BY <1>1, <1>2, <1>3, <1>6, <2>1, DoneKeeps
  <2> QED BY <2>3 DEF Ends, Off
<1> QED BY <1>1, <1>5, <1>7, QuietCallKeeps

\* An LP's quote goes on.
LEMMA SetLpKeeps ==
  ASSUME QuotesInv, NEW c \in Calls, Running(c), NEW i \in DOMAIN call[c].lp,
         InFlight(call[c].lp[i]), NEW l \in LpTypes, InFlight(l), LpOK(call[c].req, l),
         NEW a \in DOMAIN call[c].lp,
         call' = [call EXCEPT ![c].lp[i] = l, ![c].onabort = a], UNCHANGED discoveryVars
  PROVE  QuotesInv'
<1> DEFINE k == call[c]
           n == GoneOn(k, i, l, a)
<1>1. /\ k # Idle /\ CallOK(k, gen) /\ k \in CallTypes(gen)
      /\ k.stage \in {"asking", "settled"} /\ k.asked # <<>>
  BY RunningFacts
<1>2. call' = [call EXCEPT ![c] = n]
  BY <1>1 DEF CallTypes, QuotesInv, GoneOn
<1>3. Quiet(k, n, gen)
  BY <1>1, OpenMoves
<1> HIDE DEF n
<1> QED BY <1>1, <1>2, <1>3, QuietCallKeeps DEF Quiet

\* The same, of a step that starts no new round.
LEMMA SetsLp ==
  ASSUME QuotesInv, NEW c \in Calls, Running(c), NEW i \in DOMAIN call[c].lp, NEW l,
         SetLp(c, i, l)
  PROVE  /\ call' = [call EXCEPT ![c].lp[i] = l, ![c].onabort = call[c].onabort]
         /\ UNCHANGED discoveryVars /\ call[c].onabort \in DOMAIN call[c].lp
<1>1. call[c] \in CallTypes(gen) /\ call[c].onabort \in DOMAIN call[c].lp
  BY RunningFacts
<1>2. call' = [call EXCEPT ![c].lp[i] = l]
  BY DEF SetLp
<1>3. [call[c] EXCEPT !.lp[i] = l] = [call[c] EXCEPT !.lp[i] = l, !.onabort = call[c].onabort]
  BY <1>1 DEF CallTypes
<1> QED BY <1>1, <1>2, <1>3 DEF SetLp

\* Where a request can be in the exchange.
LEMMA StepFacts ==
  ASSUME NEW r \in CreateRequests, NEW l \in LpTypes, LpOK(r, l)
  PROVE  /\ l.at = "prepare" => l.step = 1 /\ Len(Steps(r)) = 3 /\ Steps(r)[2].step = "invoice"
         /\ l.at = "invoice" => l.step = 2 /\ Len(Steps(r)) = 3 /\ Steps(r)[3].step = "init"
BY StepsFacts DEF LpOK, AtStep, LpTypes

\* The LP answers.
LEMMA LpAnswersKeeps ==
  ASSUME QuotesInv, NEW c \in Calls, Running(c), NEW i \in DOMAIN call[c].lp, LpAnswers(c, i)
  PROVE  QuotesInv'
<1> DEFINE l == call[c].lp[i]
<1>1. /\ call[c].req \in CreateRequests /\ l \in LpTypes /\ LpOK(call[c].req, l)
  BY RunningFacts
<1>2. PICK a \in Answers(call[c].req) : \E p \in IF a.verdict = "good" THEN Prices ELSE {0} :
        SetLp(c, i, [l EXCEPT !.at = "verifying", !.wrong = a.wrong, !.price = p,
                              !.verdict = a.verdict])
  BY DEF LpAnswers
<1>3. PICK p \in IF a.verdict = "good" THEN Prices ELSE {0} :
        SetLp(c, i, [l EXCEPT !.at = "verifying", !.wrong = a.wrong, !.price = p,
                              !.verdict = a.verdict])
  BY <1>2
<1> DEFINE m == [l EXCEPT !.at = "verifying", !.wrong = a.wrong, !.price = p,
                          !.verdict = a.verdict]
<1>4. /\ a.verdict \in {"good", "blamed", "error", "again"} /\ a.wrong \in BOOLEAN
      /\ a.verdict = "good" => ~a.wrong
      /\ a.verdict = "blamed" => a.wrong
      /\ a.verdict = "again" => call[c].req.kind = "SPV_VAULT_FROM_BTC"
  BY <1>1, AnswerFacts
<1>5. p \in Nat
  BY QuotesAssumption
<1>6. InFlight(l) /\ l.at = "init"
  BY DEF LpAnswers, InFlight, AtStep
<1> HIDE DEF l
<1>7. /\ m \in LpTypes /\ m.at = "verifying" /\ m.verdict = a.verdict /\ m.wrong = a.wrong
  BY <1>1, <1>4, <1>5 DEF LpTypes
<1>8. SetLp(c, i, m)
  BY <1>3
<1> HIDE DEF m
<1>9. InFlight(m) /\ LpOK(call[c].req, m)
  BY <1>4, <1>7 DEF InFlight, LpOK, AtStep
<1>10. /\ call' = [call EXCEPT ![c].lp[i] = m, ![c].onabort = call[c].onabort]
       /\ UNCHANGED discoveryVars /\ call[c].onabort \in DOMAIN call[c].lp
  BY <1>8, SetsLp
<1> QED BY <1>6, <1>7, <1>9, <1>10, SetLpKeeps DEF l

\* A step of the exchange is over, and the next one starts.
LEMMA NextStepKeeps ==
  ASSUME QuotesInv, NEW c \in Calls, Running(c), NEW i \in DOMAIN call[c].lp,
         call[c].lp[i].at \in {"prepare", "invoice"}, SetLp(c, i, NextStep(call[c], call[c].lp[i]))
  PROVE  QuotesInv'
<1> DEFINE l == call[c].lp[i]
           m == NextStep(call[c], l)
<1>1. /\ call[c].req \in CreateRequests /\ l \in LpTypes /\ LpOK(call[c].req, l)
  BY RunningFacts
<1>2. /\ l.at = "prepare" => /\ l.step = 1 /\ Len(Steps(call[c].req)) = 3
                             /\ Steps(call[c].req)[2].step = "invoice"
      /\ l.at = "invoice" => /\ l.step = 2 /\ Len(Steps(call[c].req)) = 3
                             /\ Steps(call[c].req)[3].step = "init"
  BY <1>1, StepFacts
<1>3. /\ m.at = Steps(call[c].req)[l.step + 1].step /\ m.step = l.step + 1
      /\ m.verdict = l.verdict /\ m.wrong = l.wrong
  BY <1>1 DEF NextStep, LpTypes
<1>4. m.at \in {"invoice", "init"} /\ m.step \in 1..3 /\ m.step <= Len(Steps(call[c].req))
      /\ m.at = Steps(call[c].req)[m.step].step
  <2>1. CASE l.at = "prepare"
    BY <1>2, <1>3, <2>1
  <2>2. CASE l.at = "invoice"
    BY <1>2, <1>3, <2>2
  <2> QED BY <2>1, <2>2
<1>5. m \in LpTypes
  BY <1>1, <1>3, <1>4 DEF NextStep, LpTypes
<1>6. InFlight(l)
  BY DEF InFlight, AtStep
<1>7. SetLp(c, i, m)
  OBVIOUS
<1> HIDE DEF m, l
<1>8. InFlight(m) /\ LpOK(call[c].req, m)
  <2>1. /\ l.verdict = "blamed" => l.wrong
        /\ l.verdict = "again" => call[c].req.kind = "SPV_VAULT_FROM_BTC"
        /\ l.verdict = "good" => ~l.wrong
    BY <1>1 DEF LpOK
  <2> QED BY <1>3, <1>4, <2>1 DEF InFlight, LpOK, AtStep
<1>9. /\ call' = [call EXCEPT ![c].lp[i] = m, ![c].onabort = call[c].onabort]
      /\ UNCHANGED discoveryVars /\ call[c].onabort \in DOMAIN call[c].lp
  BY <1>7, SetsLp
<1> QED BY <1>5, <1>6, <1>8, <1>9, SetLpKeeps DEF l

\* The LP tells what is left for the invoice, or does not.
LEMMA LpPreparesKeeps ==
  ASSUME QuotesInv, NEW c \in Calls, Running(c), NEW i \in DOMAIN call[c].lp, LpPrepares(c, i)
  PROVE  QuotesInv'
<1>1. /\ call[c].req \in CreateRequests /\ call[c].lp[i] \in LpTypes
      /\ LpOK(call[c].req, call[c].lp[i])
  BY RunningFacts
<1>2. call[c].lp[i].at = "prepare" /\ InFlight(call[c].lp[i])
  BY DEF LpPrepares, InFlight, AtStep
<1>3. call[c].lp[i].step < Len(Steps(call[c].req))
  <2>1. call[c].lp[i].step = 1 /\ Len(Steps(call[c].req)) = 3
    BY <1>1, <1>2, StepFacts
  <2> QED BY <2>1
<1>4. CASE SetLp(c, i, NextStep(call[c], call[c].lp[i]))
  BY <1>2, <1>4, NextStepKeeps
<1>5. CASE Failed(c, i, "blamed")
  BY <1>2, <1>3, <1>5, FailedKeeps DEF Failures
<1>6. CASE Failed(c, i, "error")
  BY <1>2, <1>6, FailedKeeps DEF Failures
<1> QED BY <1>4, <1>5, <1>6 DEF LpPrepares

\* The invoice is made, or is not.
LEMMA InvoiceMadeKeeps ==
  ASSUME QuotesInv, NEW c \in Calls, Running(c), NEW i \in DOMAIN call[c].lp, InvoiceMade(c, i)
  PROVE  QuotesInv'
<1>1. call[c].lp[i].at = "invoice" /\ InFlight(call[c].lp[i])
  BY DEF InvoiceMade, InFlight, AtStep
<1>2. CASE SetLp(c, i, NextStep(call[c], call[c].lp[i]))
  BY <1>1, <1>2, NextStepKeeps
<1>3. CASE Failed(c, i, "error")
  BY <1>1, <1>3, FailedKeeps DEF Failures
<1> QED BY <1>2, <1>3 DEF InvoiceMade

\* The request breaks and is tried again, or not.
LEMMA RequestBreaksKeeps ==
  ASSUME QuotesInv, NEW c \in Calls, Running(c), NEW i \in DOMAIN call[c].lp, RequestBreaks(c, i)
  PROVE  QuotesInv'
<1> DEFINE l == call[c].lp[i]
           m == [l EXCEPT !.tries = @ + 1]
<1>1. l \in LpTypes /\ LpOK(call[c].req, l)
  BY RunningFacts
<1>2. InFlight(l)
  BY DEF RequestBreaks, InFlight, AtStep
<1>3. CASE SetLp(c, i, m)
  <2>1. /\ m \in LpTypes /\ m.at = l.at /\ m.step = l.step /\ m.verdict = l.verdict
        /\ m.wrong = l.wrong
    BY <1>1 DEF LpTypes
  <2> HIDE DEF m, l
  <2>2. InFlight(m) /\ LpOK(call[c].req, m)
    BY <1>1, <1>2, <2>1 DEF InFlight, LpOK, AtStep
  <2>3. /\ call' = [call EXCEPT ![c].lp[i] = m, ![c].onabort = call[c].onabort]
        /\ UNCHANGED discoveryVars /\ call[c].onabort \in DOMAIN call[c].lp
    BY <1>3, SetsLp
  <2> QED BY <1>2, <2>1, <2>2, <2>3, SetLpKeeps DEF l
<1>4. CASE Failed(c, i, "error")
  BY <1>2, <1>4, FailedKeeps DEF Failures
<1> QED BY <1>3, <1>4 DEF RequestBreaks

\* A vault's quote starts anew.
LEMMA NextRoundKeeps ==
  ASSUME QuotesInv, NEW c \in Calls, Running(c), NEW i \in DOMAIN call[c].lp,
         call[c].lp[i].at = "verifying", NextRound(c, i)
  PROVE  QuotesInv'
<1> DEFINE r == call[c].req
           m == [Asked(r) EXCEPT !.rounds = call[c].lp[i].rounds + 1]
<1>1. r \in CreateRequests /\ call[c].lp[i] \in LpTypes
  BY RunningFacts
<1>2. Asked(r) \in LpTypes /\ AtStep(Asked(r)) /\ LpOK(r, Asked(r))
  BY <1>1, FirstStep
<1>3. /\ m \in LpTypes /\ m.at = Asked(r).at /\ m.step = Asked(r).step
      /\ m.verdict = Asked(r).verdict /\ m.wrong = Asked(r).wrong
  <2>1. call[c].lp[i].rounds + 1 \in Nat
    BY <1>1 DEF LpTypes
  <2> QED BY <1>2, <2>1 DEF LpTypes
<1>4. call' = [call EXCEPT ![c].lp[i] = m, ![c].onabort = i] /\ UNCHANGED discoveryVars
  BY DEF NextRound
<1> HIDE DEF m
<1>5. InFlight(m) /\ LpOK(r, m)
  BY <1>2, <1>3 DEF InFlight, LpOK, AtStep
<1>6. InFlight(call[c].lp[i])
  BY DEF InFlight
<1> QED BY <1>3, <1>4, <1>5, <1>6, SetLpKeeps

\* The checks of an answer are through.
LEMMA VerifiedKeeps ==
  ASSUME QuotesInv, NEW c \in Calls, Running(c), NEW i \in DOMAIN call[c].lp, Verified(c, i)
  PROVE  QuotesInv'
<1> DEFINE l == call[c].lp[i]
<1>1. l.at = "verifying" /\ InFlight(l)
  BY DEF Verified, InFlight
<1>2. /\ l.verdict = "blamed" => l.wrong
      /\ l.verdict = "again" => call[c].req.kind = "SPV_VAULT_FROM_BTC"
      /\ l.verdict = "good" => ~l.wrong
  BY RunningFacts DEF LpOK
<1>3. CASE l.verdict = "good" /\ Succeeded(c, i)
  BY <1>1, <1>2, <1>3, SucceededKeeps
<1>4. CASE Failed(c, i, "error")
  BY <1>1, <1>4, FailedKeeps DEF Failures
<1>5. CASE l.verdict \in {"blamed", "again"} /\ Failed(c, i, "blamed")
  BY <1>1, <1>2, <1>5, FailedKeeps DEF Failures
<1>6. CASE NextRound(c, i)
  BY <1>1, <1>6, NextRoundKeeps
<1> QED BY <1>3, <1>4, <1>5, <1>6 DEF Verified

\* The SDK cannot check an answer.
LEMMA SdkFailsKeeps ==
  ASSUME QuotesInv, NEW c \in Calls, Running(c), NEW i \in DOMAIN call[c].lp, SdkFails(c, i)
  PROVE  QuotesInv'
<1>1. InFlight(call[c].lp[i])
  BY DEF SdkFails, InFlight
<1>2. CASE Failed(c, i, "error")
  BY <1>1, <1>2, FailedKeeps DEF Failures
<1>3. CASE call[c].req.kind = "SPV_VAULT_FROM_BTC" /\ Failed(c, i, "blamed")
  BY <1>1, <1>3, FailedKeeps DEF Failures
<1> QED BY <1>2, <1>3 DEF SdkFails

\* Any step of a request.
LEMMA LpStepKeeps ==
  ASSUME QuotesInv, NEW c \in Calls, Running(c), NEW i \in DOMAIN call[c].lp, LpStep(c, i)
  PROVE  QuotesInv'
<1>1. CASE LpRefuses(c, i)
  <2>1. InFlight(call[c].lp[i])
    BY <1>1 DEF LpRefuses, InFlight, AtStep
  <2>2. PICK why \in {"bounds", "error"} : Failed(c, i, why)
    BY <1>1 DEF LpRefuses
  <2>3. why \in Failures /\ why # "blamed"
    BY DEF Failures
  <2> QED BY <2>1, <2>2, <2>3, FailedKeeps
<1>2. CASE OwnFails(c, i)
  <2>1. InFlight(call[c].lp[i]) /\ Failed(c, i, "error")
    BY <1>2 DEF OwnFails
  <2> QED BY <2>1, FailedKeeps DEF Failures
<1> QED BY <1>1, <1>2, LpAnswersKeeps, LpPreparesKeeps, InvoiceMadeKeeps, RequestBreaksKeeps,
           VerifiedKeeps, SdkFailsKeeps DEF LpStep

\* It starts so.
LEMMA QuotesInitHolds == QuotesInit => QuotesInv
<1> SUFFICES ASSUME QuotesInit PROVE QuotesInv
  OBVIOUS
<1>1. /\ intermediaries \in FetchIntermediaries(0) \cup {{}} /\ fetched = intermediaries
      /\ gen = 0 /\ reloading = FALSE /\ call = [c \in Calls |-> Idle]
  BY DEF QuotesInit, DiscoveryInit
<1>2. Ran = {}
  BY <1>1 DEF Ran
<1>3. UNION {CaughtIn(call[c].asked, call[c].lp) : c \in Ran} = {}
  BY <1>2
<1> QED BY <1>1, <1>2, <1>3 DEF QuotesInv

\* Every step keeps it.
LEMMA QuotesNextKeeps == QuotesInv /\ [QuotesNext(CreateRequests)]_quoteVars => QuotesInv'
<1> SUFFICES ASSUME QuotesInv, [QuotesNext(CreateRequests)]_quoteVars PROVE QuotesInv'
  OBVIOUS
<1>1. CASE ReloadIntermediaries
  BY <1>1, ReloadKeeps
<1>2. ASSUME NEW c \in Calls, CallStep(c) PROVE QuotesInv'
  <2>1. CASE \E i \in DOMAIN call[c].lp : Running(c) /\ LpStep(c, i)
    BY <2>1, LpStepKeeps
  <2> QED BY <1>2, <2>1, CandidatesReloadedKeeps, CreateFailsKeeps, CreatedKeeps, SharedFetchedKeeps,
             SharedFailsKeeps, TimerFiresKeeps DEF CallStep
<1>3. ASSUME NEW c \in Calls, NEW r \in CreateRequests, CreateSwap(c, r) PROVE QuotesInv'
  BY <1>3, CreateSwapKeeps
<1>4. CASE UNCHANGED quoteVars
  <2>1. /\ call' = call /\ intermediaries' = intermediaries /\ fetched' = fetched /\ gen' = gen
        /\ reloading' = reloading /\ Ran' = Ran
    BY <1>4 DEF quoteVars, discoveryVars, Ran
  <2> QED BY <2>1 DEF QuotesInv
<1> QED BY <1>1, <1>2, <1>3, <1>4 DEF QuotesNext

-----------------------------------------------------------------------------
(* The theorems about quotes *)

QuotesSpec == QuotesInit /\ [][QuotesNext(CreateRequests)]_quoteVars

\* The list of LPs is what the last reload put on it less those that a call has
\* caught, and every call is as far as its quotes say.
THEOREM QuotesInvariant == QuotesSpec => []QuotesInv
BY QuotesInitHolds, QuotesNextKeeps, PTL DEF QuotesSpec

\* The LPs caught by a call are those of the invariant.
LEMMA CaughtIsCaught ==
  ASSUME NEW c
  PROVE  Caught(c) = CaughtIn(call[c].asked, call[c].lp)
         /\ BoundsTold(c) = ToldIn(call[c].asked, call[c].lp)
BY DEF Caught, CaughtIn, BoundsTold, ToldIn

\* The list and the blames are right in every state of the invariant.
LEMMA ExactFromInv == QuotesInv => BlacklistIsExact
<1> SUFFICES ASSUME QuotesInv PROVE BlacklistIsExact
  OBVIOUS
<1>1. intermediaries = fetched \ UNION {Caught(c) : c \in Ran}
  BY DEF QuotesInv, Caught, CaughtIn
<1>2. ASSUME NEW c \in Ran, NEW i \in DOMAIN call[c].lp, call[c].lp[i].at = "blamed"
      PROVE  \/ call[c].lp[i].wrong
             \/ call[c].lp[i].step < Len(Steps(call[c].req))
             \/ call[c].req.kind = "SPV_VAULT_FROM_BTC"
  <2>1. LpOK(call[c].req, call[c].lp[i])
    BY DEF QuotesInv, CallOK
  <2> QED BY <1>2, <2>1 DEF LpOK
<1> QED BY <1>1, <1>2 DEF BlacklistIsExact

\* So are the outcomes.
LEMMA SoundFromInv == QuotesInv => AnswerIsSound
<1> SUFFICES ASSUME QuotesInv, NEW c \in Ran, call[c].stage = "settled"
             PROVE  LET k == call[c]
                        o == k.out
                    IN /\ o.type = "quote" =>
                            /\ o.of \in o.among /\ o.among \subseteq Quoted(k.lp)
                            /\ ~k.lp[o.of].wrong
                            /\ \A j \in o.among :
                                 IF k.req.exactIn THEN k.lp[j].price <= k.lp[o.of].price
                                 ELSE k.lp[j].price >= k.lp[o.of].price
                       /\ o.type = "bounds" /\ k.asked # <<>> =>
                            /\ Quoted(k.lp) = {} /\ Resolved(k.lp) = DOMAIN k.lp
                            /\ \A b \in BoundsTold(c) : o.min <= b.min /\ o.max >= b.max
                            /\ \E b \in BoundsTold(c) : b.min = o.min
                            /\ \E b \in BoundsTold(c) : b.max = o.max
                       /\ o.type = "error" =>
                            Quoted(k.lp) = {} /\ BoundsTold(c) = {} /\ Resolved(k.lp) = DOMAIN k.lp
  BY DEF AnswerIsSound
<1>1. OutOK(call[c].out, call[c].req, call[c].asked, call[c].lp)
  BY DEF QuotesInv, CallOK
<1>2. BoundsTold(c) = ToldIn(call[c].asked, call[c].lp)
  BY CaughtIsCaught
<1> QED BY <1>1, <1>2 DEF OutOK, Widest

\* An LP is off the list exactly when a quote of that very object was caught, for
\* every number of LPs, calls and reloads and in every order of the answers:
\* nothing that goes wrong elsewhere, no late answer and no reload takes another
\* LP off the list.
THEOREM BlacklistCorrect == QuotesSpec => []BlacklistIsExact
BY QuotesInvariant, ExactFromInv, PTL

\* A call settles with a quote that nothing should have refused and that no other
\* quote in time betters, with the widest bounds that were told, or with an error
\* when there was neither, whatever comes late.
THEOREM AnswerCorrect == QuotesSpec => []AnswerIsSound
BY QuotesInvariant, SoundFromInv, PTL

\* The two parts of the swapper together, for any of the requests that the
\* create... methods make.
THEOREM SwapperCorrect ==
  ASSUME Requests \subseteq CreateRequests
  PROVE  Spec => [](OneObject /\ BlacklistIsExact /\ AnswerIsSound)
<1>1. Init => LifeInv /\ QuotesInv
  BY LifeInitHolds, QuotesInitHolds DEF Init
<1>2. LifeInv /\ QuotesInv /\ [Next]_vars => LifeInv' /\ QuotesInv'
  <2>1. [Next]_vars => [LifecycleNext]_lifeVars
    BY DEF Next, vars
  <2>2. [Next]_vars => [QuotesNext(CreateRequests)]_quoteVars
    BY DEF Next, vars, QuotesNext
  <2> QED BY <2>1, <2>2, LifeNextKeeps, QuotesNextKeeps
<1>3. LifeInv /\ QuotesInv => OneObject /\ BlacklistIsExact /\ AnswerIsSound
  BY HeldOnceIsOneObject, ExactFromInv, SoundFromInv
<1> QED BY <1>1, <1>2, <1>3, PTL DEF Spec
=============================================================================
