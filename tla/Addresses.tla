----------------------------- MODULE Addresses -----------------------------
(***************************************************************************)
(* How addresses get into the database and into the cache of their ids.    *)
(* Run hands the addresses of a block in chunks to a pool of workers and   *)
(* waits for them on a wait group before anything looks an address up.     *)
(* The two candidate workers (validators, stakes) save the addresses of    *)
(* all candidates through the same repository, beside the pool.            *)
(*                                                                         *)
(* SaveAllIfNotExist reads the cache, then the table, then the cache       *)
(* again, and inserts the rest in one statement: another goroutine may     *)
(* have inserted one of them since, and the read of the table may have     *)
(* failed.                                                                 *)
(***************************************************************************)
EXTENDS Integers, Sequences, FiniteSets

CONSTANTS
  MaxHeight,       \* bound: the node holds blocks 1 .. MaxHeight
  Address,
  AddressesOf,     \* the addresses of each block and its events
  CandidateSets,   \* sets of addresses the node's lists of candidates name
  TxChunkSize,
  AddressWorker,   \* the pool (WrkSaveAddressesCount), also its channel's capacity
  MaxFaults        \* bound on crashes and failed reads

Height == 1 .. MaxHeight

\* UpdateValidatorsWorker and UpdateStakesWorker: one goroutine each.
Candidates == {"validators", "stakes"}
Saver      == AddressWorker \cup Candidates

ASSUME ParametersAssumption ==
  /\ MaxHeight \in Nat /\ MaxFaults \in Nat /\ TxChunkSize \in Nat \ {0}
  /\ AddressesOf \in [Height -> SUBSET Address]
  /\ CandidateSets \subseteq SUBSET Address
  /\ IsFiniteSet(Address) /\ IsFiniteSet(AddressWorker)
  /\ AddressWorker # {} /\ AddressWorker \cap Candidates = {}

VARIABLES
  stored,    \* the addresses table; ids are never reused
  cache,     \* Repository.cache: "id" is the address's id, "zero" the value 0
  pc, height, unsent, wg,   \* Run and HandleResponses: addresses not sent yet
  chan,      \* jobSaveAddresses
  saver,     \* each saver: where it is, its addresses, those it works on
  faults

loop == <<pc, height, unsent>>
vars == <<stored, cache, loop, wg, chan, saver, faults>>

-----------------------------------------------------------------------------
Idle   == [at |-> "idle", job |-> {}, args |-> {}]
NoIds  == [a \in Address |-> "none"]
NoJobs == [w \in Saver |-> Idle]

Next1(h) == IF h \in Height THEN AddressesOf[h] ELSE {}

Set(w, at, job, args) ==
  saver' = [saver EXCEPT ![w] = [at |-> at, job |-> job, args |-> args]]

Missing(S) == {a \in S : cache[a] = "none"}

\* Mutant of Return: the repository is done with the wait group, whoever calls.
ReturnAlwaysDone(w) ==
  /\ wg' = wg - 1
  /\ IF w \in AddressWorker THEN Set(w, "idle", {}, {}) ELSE Set(w, "ids", saver[w].job, {})

\* The end of SaveAllIfNotExist without an error: wgAddresses.Done() in the
\* pool, the next step of a candidate worker.
Return(w) ==
  IF w \in AddressWorker
  THEN wg' = wg - 1 /\ Set(w, "idle", {}, {})
  ELSE wg' = wg /\ Set(w, "ids", saver[w].job, {})

Die ==
  /\ pc' = "down" /\ height' = height /\ unsent' = {}
  /\ cache' = NoIds /\ chan' = <<>> /\ wg' = 0 /\ saver' = NoJobs

-----------------------------------------------------------------------------
\* Run.

\* The order of a Go map is random, so any addresses may make up a chunk.
SendAddresses ==
  /\ pc = "send" /\ unsent # {}
  /\ Len(chan) < Cardinality(AddressWorker)
  /\ \E S \in SUBSET unsent :
       /\ S # {} /\ Cardinality(S) <= TxChunkSize
       /\ Cardinality(S) < TxChunkSize => S = unsent
       /\ chan' = Append(chan, S)
       /\ unsent' = unsent \ S
  /\ wg' = wg + 1
  /\ UNCHANGED <<stored, cache, pc, height, saver, faults>>

\* Mutant of Wait: the loop does not wait for the workers.
WaitForNone ==
  /\ pc = "send" /\ unsent = {} /\ height <= MaxHeight
  /\ pc' = "use"
  /\ UNCHANGED <<stored, cache, height, unsent, wg, chan, saver, faults>>

Wait ==
  /\ pc = "send" /\ unsent = {} /\ wg = 0 /\ height <= MaxHeight
  /\ pc' = "use"
  /\ UNCHANGED <<stored, cache, height, unsent, wg, chan, saver, faults>>

\* FindId finds an id in the cache or in the table.
Known(a)   == cache[a] # "none" \/ a \in stored
Correct(a) == cache[a] = "id" \/ (cache[a] = "none" /\ a \in stored)

\* The lookups for the rows of a block, by Run and its workers.
UseAddresses ==
  /\ pc = "use" /\ \A a \in AddressesOf[height] : Correct(a)
  /\ cache' = [a \in Address |-> IF a \in AddressesOf[height] THEN "id" ELSE cache[a]]
  /\ height' = height + 1 /\ pc' = "send" /\ unsent' = Next1(height + 1)
  /\ UNCHANGED <<stored, wg, chan, saver, faults>>

\* An id of 0 breaks the foreign key of the row, a lookup without a result is an
\* error: HandleError panics.
PanicOnAddress ==
  /\ pc = "use" /\ \E a \in AddressesOf[height] : ~Correct(a)
  /\ Die /\ UNCHANGED <<stored, faults>>

-----------------------------------------------------------------------------
\* SaveAllIfNotExist, for the pool and for the candidate workers.

ReceiveAddresses(w) ==
  /\ w \in AddressWorker /\ saver[w] = Idle /\ chan # <<>>
  /\ Set(w, "check", Head(chan), {})
  /\ chan' = Tail(chan)
  /\ UNCHANGED <<stored, cache, loop, wg, faults>>

ReceiveCandidates(w) ==
  /\ w \in Candidates /\ saver[w] = Idle /\ pc # "down"
  /\ \E S \in CandidateSets : Set(w, "check", S, {})
  /\ UNCHANGED <<stored, cache, loop, wg, chan, faults>>

\* Mutant of Check: a worker with nothing to do forgets the wait group.
CheckWithoutDone(w) ==
  /\ saver[w].at = "check"
  /\ IF Missing(saver[w].job) = {}
     THEN IF w \in AddressWorker THEN Set(w, "idle", {}, {}) ELSE Set(w, "ids", saver[w].job, {})
     ELSE Set(w, "find", saver[w].job, Missing(saver[w].job))
  /\ wg' = wg
  /\ UNCHANGED <<stored, cache, loop, chan, faults>>

\* checkNotInCache.
Check(w) ==
  /\ saver[w].at = "check"
  /\ IF Missing(saver[w].job) = {}
     THEN Return(w)
     ELSE Set(w, "find", saver[w].job, Missing(saver[w].job)) /\ wg' = wg
  /\ UNCHANGED <<stored, cache, loop, chan, faults>>

\* FindAll, which stores what it finds in the cache.  addToCache looks a pointer
\* up where the keys are strings, so it overwrites whatever is there.
FindAll(w) ==
  /\ saver[w].at = "find"
  /\ cache' = [a \in Address |-> IF a \in saver[w].args \cap stored THEN "id" ELSE cache[a]]
  /\ Set(w, "collect", saver[w].job, {})
  /\ UNCHANGED <<stored, loop, wg, chan, faults>>

\* The error of the read is dropped: the addresses it should have found are
\* inserted again, which fails.
FindAllFails(w) ==
  /\ saver[w].at = "find" /\ faults < MaxFaults
  /\ faults' = faults + 1
  /\ Set(w, "collect", saver[w].job, {})
  /\ UNCHANGED <<stored, cache, loop, wg, chan>>

Collect(w) ==
  /\ saver[w].at = "collect"
  /\ IF Missing(saver[w].job) = {}
     THEN Return(w)
     ELSE Set(w, "insert", saver[w].job, Missing(saver[w].job)) /\ wg' = wg
  /\ UNCHANGED <<stored, cache, loop, chan, faults>>

\* One statement; addresses are unique.
Insert(w) ==
  /\ saver[w].at = "insert" /\ saver[w].args \cap stored = {}
  /\ stored' = stored \cup saver[w].args
  /\ Return(w)
  /\ UNCHANGED <<cache, loop, chan, faults>>

\* Mutant of InsertFails: a conflict counts as a success.
InsertIgnored(w) ==
  /\ saver[w].at = "insert" /\ saver[w].args \cap stored # {}
  /\ cache' = [a \in Address |-> IF a \in saver[w].args THEN "id" ELSE cache[a]]
  /\ Return(w)
  /\ UNCHANGED <<stored, loop, chan, faults>>

\* The cache is updated when the insert failed, with the ids no row has got: 0.
\* The pool panics on the error, a candidate worker logs it and goes on.
InsertFails(w) ==
  /\ saver[w].at = "insert" /\ saver[w].args \cap stored # {}
  /\ IF w \in AddressWorker
     THEN Die
     ELSE /\ cache' = [a \in Address |-> IF a \in saver[w].args THEN "zero" ELSE cache[a]]
          /\ Set(w, "ids", saver[w].job, {})
          /\ UNCHANGED <<loop, wg, chan>>
  /\ UNCHANGED <<stored, faults>>

\* FindIdOrCreate: the cache, or select or insert (ON CONFLICT DO NOTHING) and
\* the cache.  args collects the addresses whose id came out as 0.
FindIdOrCreate(w, a) ==
  /\ saver[w].at = "ids" /\ a \in saver[w].job
  /\ Set(w, "ids", saver[w].job \ {a},
         IF cache[a] = "zero" THEN saver[w].args \cup {a} ELSE saver[w].args)
  /\ IF cache[a] = "none"
     THEN stored' = stored \cup {a} /\ cache' = [cache EXCEPT ![a] = "id"]
     ELSE UNCHANGED <<stored, cache>>
  /\ UNCHANGED <<loop, wg, chan, faults>>

\* The update of validators logs its error; SaveAllStakes panics.
SaveCandidates(w) ==
  /\ saver[w].at = "ids" /\ saver[w].job = {}
  /\ IF w = "stakes" /\ saver[w].args # {}
     THEN Die
     ELSE Set(w, "idle", {}, {}) /\ UNCHANGED <<cache, loop, wg, chan>>
  /\ UNCHANGED <<stored, faults>>

-----------------------------------------------------------------------------
\* Death and restart: the last block is done again, or not when it was not
\* saved yet or could not be deleted.

Crash ==
  /\ pc # "down" /\ faults < MaxFaults
  /\ faults' = faults + 1
  /\ Die /\ UNCHANGED stored

Restart ==
  /\ pc = "down"
  /\ \E h \in {height - 1, height} \ {0} :
       height' = h /\ unsent' = Next1(h)
  /\ pc' = "send"
  /\ UNCHANGED <<stored, cache, wg, chan, saver, faults>>

Init ==
  /\ stored = {} /\ cache = NoIds
  /\ pc = "send" /\ height = 1 /\ unsent = Next1(1) /\ wg = 0
  /\ chan = <<>> /\ saver = NoJobs /\ faults = 0

Run == SendAddresses \/ Wait \/ UseAddresses

Save(w) ==
  \/ Check(w) \/ FindAll(w) \/ FindAllFails(w) \/ Collect(w)
  \/ Insert(w) \/ InsertFails(w)
  \/ \E a \in Address : FindIdOrCreate(w, a)
  \/ SaveCandidates(w)

Next ==
  \/ Run \/ PanicOnAddress
  \/ \E w \in Saver : ReceiveAddresses(w) \/ ReceiveCandidates(w) \/ Save(w)
  \/ Crash \/ Restart

\* Go runs every goroutine that can proceed; candidates may come or not.
Fairness ==
  /\ WF_vars(Run) /\ WF_vars(PanicOnAddress) /\ WF_vars(Restart)
  /\ \A w \in Saver : WF_vars(ReceiveAddresses(w)) /\ WF_vars(Save(w))

Spec == Init /\ [][Next]_vars /\ Fairness

-----------------------------------------------------------------------------
\* Properties.

TypeOK ==
  /\ stored \subseteq Address /\ cache \in [Address -> {"none", "id", "zero"}]
  /\ pc \in {"send", "use", "down"} /\ height \in 1 .. MaxHeight + 1
  /\ unsent \subseteq Address /\ wg \in Nat
  /\ chan \in Seq(SUBSET Address)
  /\ saver \in [Saver -> [at : {"idle", "check", "find", "collect", "insert", "ids"},
                          job : SUBSET Address, args : SUBSET Address]]
  /\ faults \in 0 .. MaxFaults

\* When the loop has waited, every address of its block can be looked up: it is
\* in the table, or at least in the cache.
WaitSuffices == pc = "use" => \A a \in AddressesOf[height] : Known(a)

\* The ids in the cache are those of stored addresses, but for zeros.
CachedIdsExist == \A a \in Address : cache[a] = "id" => a \in stored

\* The workers of the pool have no conflicts with each other: no two of their jobs
\* share an address, those of one block because chunks are disjoint, those of two
\* because of Wait.  What makes an insert of the pool fail is a candidate worker or
\* a failed read.
PoolIsDisjoint ==
  /\ \A v, w \in AddressWorker : v # w => saver[v].job \cap saver[w].job = {}
  /\ \A w \in AddressWorker : \A n \in DOMAIN chan : saver[w].job \cap chan[n] = {}

\* Each conflict costs at most one process: there are only so many addresses,
\* so in the end all blocks are done.
EventuallyUsed == <>[](height > MaxHeight)

\* HandleResponses is to "Find all addresses in block response and save it": when
\* the loop has waited, the addresses of its block are in the table.
AddressesSaved == pc = "use" => AddressesOf[height] \subseteq stored
=============================================================================
