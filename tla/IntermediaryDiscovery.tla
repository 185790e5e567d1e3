----------------------- MODULE IntermediaryDiscovery -----------------------
(***************************************************************************)
(* The list of LPs (IntermediaryDiscovery, Intermediary).  A reload makes a *)
(* new object of every LP that answers and replaces the list by them; an LP *)
(* that is caught is taken off the list as the very object that it was     *)
(* asked as.  What an LP announces does not change.                        *)
(***************************************************************************)
EXTENDS Integers, FiniteSets, Sequences

CONSTANTS
  Urls,       \* the LPs, as named by the registry or the application
  Service,    \* [Urls -> [kinds, min, max, fee]]: what an LP announces; fees differ
  MaxReloads  \* bound: reloads of the list, that of the start left out

ASSUME ServiceAssumption ==
  /\ IsFiniteSet(Urls)
  /\ \A u \in Urls : /\ {Service[u].min, Service[u].max, Service[u].fee} \subseteq Nat
                     /\ Service[u].min <= Service[u].max
  /\ \A u, v \in Urls : u # v => Service[u].fee # Service[v].fee

VARIABLES
  intermediaries,  \* the LPs on the list, as objects [url, gen, signed]
  fetched,         \* what the last reload put on the list
  gen,             \* the last reload
  reloading        \* a reload that the application asked for is under way

discoveryVars == <<intermediaries, fetched, gen, reloading>>

\* getNodeInfo: an LP whose signature for the chain is wrong keeps no address
\* and no tokens there.
NodeInfo(u, g, signed) == [url |-> u, gen |-> g, signed |-> u \in signed]

FetchIntermediaries(g) ==
  UNION {{{NodeInfo(u, g, signed) : u \in online} : signed \in SUBSET online} :
            online \in SUBSET Urls \ {{}}}

\* The start goes on without LPs when none can be fetched.
DiscoveryInit ==
  /\ intermediaries \in FetchIntermediaries(0) \cup {{}}
  /\ fetched = intermediaries
  /\ gen = 0 /\ reloading = FALSE

-----------------------------------------------------------------------------
(* Who is asked *)

Offers(lp, kind) == lp.signed /\ kind \in Service[lp.url].kinds

\* amount: 0 when the amount is not one of bitcoin.
GetSwapCandidates(kind, amount) ==
  {lp \in intermediaries :
     /\ Offers(lp, kind)
     /\ amount # 0 => amount \in Service[lp.url].min .. Service[lp.url].max}

\* The cheapest first.  Ordered through a function: TLC is slow at sorting by CHOOSE.
SortedByFee(lps) ==
  LET Rank(lp) == Cardinality({o \in lps : Service[o.url].fee <= Service[lp.url].fee})
  IN [i \in 1..Cardinality(lps) |-> CHOOSE lp \in lps : Rank(lp) = i]

Mins(kind)  == {Service[lp.url].min : lp \in {l \in intermediaries : Offers(l, kind)}}
Maxes(kind) == {Service[lp.url].max : lp \in {l \in intermediaries : Offers(l, kind)}}

GetSwapMinimum(kind) == CHOOSE m \in Mins(kind) : \A n \in Mins(kind) : m <= n
GetSwapMaximum(kind) == CHOOSE m \in Maxes(kind) : \A n \in Maxes(kind) : m >= n

OutOfAllBounds(kind, amount) ==
  /\ Mins(kind) # {}
  /\ \/ amount < GetSwapMinimum(kind)
     \/ amount > GetSwapMaximum(kind)

-----------------------------------------------------------------------------
(* The list *)

\* reloadIntermediaries, when the last LP has answered.
Replace(objects) ==
  /\ gen < MaxReloads
  /\ gen' = gen + 1
  /\ intermediaries' = objects
  /\ fetched' = objects

\* Mutant: an LP is looked up by its url, not as the object that was asked.
RemoveByUrl(lp) == intermediaries' = {o \in intermediaries : o.url # lp.url}

RemoveIntermediary(lp) == intermediaries' = intermediaries \ {lp}

ReloadStarted ==
  /\ ~reloading /\ gen < MaxReloads
  /\ reloading' = TRUE
  /\ UNCHANGED <<intermediaries, fetched, gen>>

\* No LP could be reached: the list stays as it is.
ReloadEnds ==
  /\ reloading /\ reloading' = FALSE
  /\ \/ \E objects \in FetchIntermediaries(gen + 1) : Replace(objects)
     \/ UNCHANGED <<intermediaries, fetched, gen>>
=============================================================================
