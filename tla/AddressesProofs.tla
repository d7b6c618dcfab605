--------------------------- MODULE AddressesProofs ---------------------------
(***************************************************************************)
(* Proofs about addresses, for every chain, every list of candidates,      *)
(* every size of chunks and of the pool and every number of crashes.       *)
(***************************************************************************)
EXTENDS Addresses, FiniteSetTheorems, TLAPS

-----------------------------------------------------------------------------
\* Types, and the count of the wait group: a worker calls Done only for a job
\* that Add counted, so the count never goes below zero.

Busy == {w \in AddressWorker : saver[w].at # "idle"}

Counted == wg = Len(chan) + Cardinality(Busy)

Waited == chan = <<>> /\ unsent = {} /\ \A w \in AddressWorker : saver[w] = Idle

Shape ==
  /\ \A w \in Saver : saver[w].at = "idle" => saver[w] = Idle
  /\ \A w \in AddressWorker : saver[w].at # "ids"
  /\ pc = "use" => height <= MaxHeight /\ Waited
  /\ pc = "down" => chan = <<>> /\ unsent = {} /\ saver = NoJobs

TypedInv == TypeOK /\ Counted /\ Shape

SaverType == [at : {"idle", "check", "find", "collect", "insert", "ids"},
              job : SUBSET Address, args : SUBSET Address]

LEMMA WorkersAreSavers ==
  /\ AddressWorker \subseteq Saver /\ Candidates \subseteq Saver
  /\ AddressWorker \cap Candidates = {}
  /\ \A w \in Saver : w \notin AddressWorker => w \in Candidates
  /\ IsFiniteSet(AddressWorker)
BY ParametersAssumption DEF Saver

LEMMA BusyIsFinite == IsFiniteSet(Busy) /\ Cardinality(Busy) \in Nat
<1>1. Busy \subseteq AddressWorker
  BY DEF Busy
<1> QED
  BY <1>1, WorkersAreSavers, FS_Subset, FS_CardinalityType

\* The addresses of a block that is sent are addresses.
LEMMA NextAddresses ==
  ASSUME NEW h \in Nat
  PROVE  Next1(h) \in SUBSET Address
BY ParametersAssumption DEF Next1

\* A process that has died has the types of one that has not begun.
LEMMA DieTyped ==
  ASSUME TypedInv, Die, stored' \in SUBSET Address, faults' \in 0 .. MaxFaults
  PROVE  TypedInv'
<1>1. Busy' = {}
  BY WorkersAreSavers DEF Die, Busy, NoJobs, Idle
<1>2. Cardinality(Busy') = 0
  BY <1>1, FS_EmptySet
<1>3. Len(chan') = 0 /\ wg' = 0
  BY DEF Die
<1>4. TypeOK'
  BY DEF TypedInv, TypeOK, Die, NoIds, NoJobs, Idle, Saver
<1>5. Counted'
  BY <1>2, <1>3 DEF Counted
<1>6. Shape'
  BY WorkersAreSavers DEF Die, Shape, NoJobs, Idle
<1> QED
  BY <1>4, <1>5, <1>6 DEF TypedInv

LEMMA InitTyped == Init => TypedInv
<1> SUFFICES ASSUME Init PROVE TypedInv
  OBVIOUS
<1>1. Busy = {}
  BY WorkersAreSavers DEF Init, Busy, NoJobs, Idle
<1>2. Cardinality(Busy) = 0
  BY <1>1, FS_EmptySet
<1>3. TypeOK
  BY NextAddresses, ParametersAssumption DEF Init, TypeOK, NoIds, NoJobs, Idle
<1>4. Counted
  BY <1>2 DEF Init, Counted
<1>5. Shape
  BY WorkersAreSavers DEF Init, Shape, NoJobs, Idle
<1> QED
  BY <1>3, <1>4, <1>5 DEF TypedInv

\* A saver that goes on with the same or a smaller job.
LEMMA StepOnTyped ==
  ASSUME TypedInv, NEW w \in Saver, NEW r \in SaverType,
         saver' = [saver EXCEPT ![w] = r],
         saver[w].at # "idle", w \in AddressWorker => r.at \notin {"idle", "ids"},
         r.at = "idle" => r = Idle,
         UNCHANGED <<loop, wg, chan>>, UNCHANGED faults \/ faults' \in 0 .. MaxFaults,
         stored' \in SUBSET Address, cache' \in [Address -> {"none", "id", "zero"}]
  PROVE  TypedInv'
<1>1. saver \in [Saver -> SaverType]
  BY DEF TypedInv, TypeOK, SaverType
<1>2. saver' \in [Saver -> SaverType]
  BY <1>1
<1>3. Busy' = Busy
  BY <1>1, WorkersAreSavers DEF Busy
<1>4. TypeOK'
  BY <1>2 DEF TypedInv, TypeOK, SaverType, loop
<1>5. Counted'
  BY <1>3 DEF TypedInv, Counted
<1>6. Shape'
  <2>1. pc # "down"
    BY DEF TypedInv, Shape, NoJobs, Idle
  <2>2. pc = "use" => w \notin AddressWorker
    BY DEF TypedInv, Shape, Waited, Idle
  <2> QED
    BY <1>1, <2>1, <2>2, WorkersAreSavers DEF TypedInv, Shape, Waited, loop
<1> QED
  BY <1>4, <1>5, <1>6 DEF TypedInv

\* The end of SaveAllIfNotExist takes the worker out of those that count.
LEMMA ReturnTyped ==
  ASSUME TypedInv, NEW w \in Saver, Return(w), saver[w].at # "idle",
         UNCHANGED <<loop, chan, faults>>,
         stored' \in SUBSET Address, cache' \in [Address -> {"none", "id", "zero"}]
  PROVE  TypedInv'
<1>1. saver \in [Saver -> SaverType]
  BY DEF TypedInv, TypeOK, SaverType
<1>2. CASE w \notin AddressWorker
  <2> DEFINE r == [at |-> "ids", job |-> saver[w].job, args |-> {}]
  <2>1. r \in SaverType /\ saver' = [saver EXCEPT ![w] = r] /\ wg' = wg
    BY <1>1, <1>2 DEF Return, Set, SaverType
  <2>2. r.at = "ids"
    OBVIOUS
  <2> HIDE DEF r
  <2> QED
    BY <1>2, <2>1, <2>2, StepOnTyped
<1>3. CASE w \in AddressWorker
  <2>1. saver' = [saver EXCEPT ![w] = Idle] /\ wg' = wg - 1
    BY <1>3 DEF Return, Set, Idle
  <2>2. Idle \in SaverType /\ Idle.at = "idle"
    BY DEF Idle, SaverType
  <2>3. saver' \in [Saver -> SaverType]
    BY <1>1, <2>1, <2>2
  <2>4. w \in Busy /\ Busy' = Busy \ {w}
    BY <1>1, <1>3, <2>1, <2>2, WorkersAreSavers DEF Busy
  <2>5. Cardinality(Busy') = Cardinality(Busy) - 1
    BY <2>4, BusyIsFinite, FS_RemoveElement
  <2>6. Cardinality(Busy) # 0
    BY <2>4, BusyIsFinite, FS_EmptySet
  <2>7. Len(chan) \in Nat /\ wg \in Nat
    BY DEF TypedInv, TypeOK
  <2>8. wg' \in Nat /\ Counted'
    BY <2>1, <2>5, <2>6, <2>7, BusyIsFinite DEF TypedInv, Counted
  <2>9. TypeOK'
    BY <2>3, <2>8 DEF TypedInv, TypeOK, SaverType, loop
  <2>10. Shape'
    <3>1. pc # "down" /\ pc # "use"
      BY <1>3, <2>2, WorkersAreSavers DEF TypedInv, Shape, Waited, NoJobs, Idle
    <3> QED
      BY <1>1, <2>1, <2>2, <3>1, WorkersAreSavers DEF TypedInv, Shape, loop
  <2> QED
    BY <2>8, <2>9, <2>10 DEF TypedInv
<1> QED
  BY <1>2, <1>3

\* When the wait group lets the loop go on, the pool has nothing left to do.
LEMMA WaitIsForAll ==
  ASSUME TypedInv, Wait
  PROVE  Waited
<1>1. Len(chan) \in Nat /\ Len(chan) = 0 /\ Cardinality(Busy) = 0
  BY BusyIsFinite DEF Wait, TypedInv, TypeOK, Counted
<1>2. chan = <<>> /\ Busy = {}
  BY <1>1, BusyIsFinite, FS_EmptySet DEF TypedInv, TypeOK
<1> QED
  BY <1>2, WorkersAreSavers DEF Wait, Busy, TypedInv, Shape, Waited

\* The loop.
LEMMA RunTyped ==
  ASSUME TypedInv, Run \/ PanicOnAddress
  PROVE  TypedInv'
<1> USE DEF TypedInv, TypeOK
<1>1. CASE SendAddresses
  <2>1. PICK S \in SUBSET unsent : chan' = Append(chan, S) /\ unsent' = unsent \ S
    BY <1>1 DEF SendAddresses
  <2>2. S \in SUBSET Address
    BY <2>1
  <2>3. chan' \in Seq(SUBSET Address) /\ Len(chan') = Len(chan) + 1 /\ Len(chan) \in Nat
    BY <2>1, <2>2
  <2>4. Busy' = Busy
    BY <1>1 DEF SendAddresses, Busy
  <2>5. Counted'
    BY <1>1, <2>3, <2>4, BusyIsFinite DEF SendAddresses, Counted
  <2>6. TypeOK'
    BY <1>1, <2>1, <2>3 DEF SendAddresses
  <2>7. Shape'
    BY <1>1 DEF SendAddresses, Shape
  <2> QED
    BY <2>5, <2>6, <2>7
<1>2. CASE Wait
  <2>3. Waited /\ Waited'
    BY <1>2, WaitIsForAll DEF Wait, Waited
  <2>4. Busy' = Busy
    BY <1>2 DEF Wait, Busy
  <2>5. Counted' /\ TypeOK'
    BY <1>2, <2>4 DEF Wait, Counted
  <2>6. Shape'
    BY <1>2, <2>3 DEF Wait, Shape
  <2> QED
    BY <2>5, <2>6
<1>3. CASE UseAddresses
  <2>1. height \in 1 .. MaxHeight
    BY <1>3 DEF UseAddresses, Shape
  <2>2. height + 1 \in 1 .. MaxHeight + 1 /\ Next1(height + 1) \in SUBSET Address
    BY <2>1, NextAddresses, ParametersAssumption
  <2>3. Busy' = Busy
    BY <1>3 DEF UseAddresses, Busy
  <2>4. Counted' /\ Shape'
    BY <1>3, <2>3 DEF UseAddresses, Counted, Shape
  <2>5. TypeOK'
    BY <1>3, <2>2 DEF UseAddresses
  <2> QED
    BY <2>4, <2>5
<1>4. CASE PanicOnAddress
  BY <1>4, DieTyped DEF PanicOnAddress
<1> QED
  BY <1>1, <1>2, <1>3, <1>4 DEF Run

\* A saver takes a job.
LEMMA ReceiveTyped ==
  ASSUME TypedInv, NEW w \in Saver, ReceiveAddresses(w) \/ ReceiveCandidates(w)
  PROVE  TypedInv'
<1>1. saver \in [Saver -> SaverType]
  BY DEF TypedInv, TypeOK, SaverType
<1>2. CASE ReceiveAddresses(w)
  <2> DEFINE r == [at |-> "check", job |-> Head(chan), args |-> {}]
  <2>1. Head(chan) \in SUBSET Address /\ Tail(chan) \in Seq(SUBSET Address)
        /\ Len(Tail(chan)) = Len(chan) - 1 /\ Len(chan) \in Nat
    BY <1>2 DEF ReceiveAddresses, TypedInv, TypeOK
  <2>2. r \in SaverType /\ r.at = "check" /\ saver' = [saver EXCEPT ![w] = r]
    BY <1>2, <2>1 DEF ReceiveAddresses, Set, SaverType
  <2> HIDE DEF r
  <2>3. saver' \in [Saver -> SaverType]
    BY <1>1, <2>2
  <2>4. w \notin Busy /\ Busy' = Busy \cup {w}
    BY <1>1, <1>2, <2>2, WorkersAreSavers DEF ReceiveAddresses, Busy, Idle
  <2>5. Cardinality(Busy') = Cardinality(Busy) + 1
    BY <2>4, BusyIsFinite, FS_AddElement
  <2>6. Counted'
    BY <1>2, <2>1, <2>5, BusyIsFinite DEF ReceiveAddresses, TypedInv, Counted
  <2>7. TypeOK'
    BY <1>2, <2>1, <2>3 DEF ReceiveAddresses, TypedInv, TypeOK, SaverType, loop
  <2>8. Shape'
    <3>1. pc # "down" /\ pc # "use"
      BY <1>2 DEF ReceiveAddresses, TypedInv, Shape, Waited
    <3> QED
      BY <1>1, <1>2, <2>2, <3>1, WorkersAreSavers DEF ReceiveAddresses, TypedInv, Shape, loop
  <2> QED
    BY <2>6, <2>7, <2>8 DEF TypedInv
<1>3. CASE ReceiveCandidates(w)
  <2>1. PICK S \in CandidateSets : saver' = [saver EXCEPT ![w] = [at |-> "check", job |-> S, args |-> {}]]
    BY <1>3 DEF ReceiveCandidates, Set
  <2> DEFINE r == [at |-> "check", job |-> S, args |-> {}]
  <2>2. r \in SaverType /\ r.at = "check" /\ saver' = [saver EXCEPT ![w] = r]
    BY <2>1, ParametersAssumption DEF SaverType
  <2> HIDE DEF r
  <2>3. saver' \in [Saver -> SaverType] /\ w \notin AddressWorker
    BY <1>1, <1>3, <2>2, WorkersAreSavers DEF ReceiveCandidates
  <2>4. Busy' = Busy
    BY <1>1, <2>2, <2>3, WorkersAreSavers DEF Busy
  <2>5. Counted'
    BY <1>3, <2>4 DEF ReceiveCandidates, TypedInv, Counted
  <2>6. TypeOK'
    BY <1>3, <2>3 DEF ReceiveCandidates, TypedInv, TypeOK, SaverType, loop
  <2>7. Shape'
    BY <1>1, <1>3, <2>2, <2>3, WorkersAreSavers
       DEF ReceiveCandidates, TypedInv, Shape, Waited, loop
  <2> QED
    BY <2>5, <2>6, <2>7 DEF TypedInv
<1> QED
  BY <1>2, <1>3

\* SaveAllIfNotExist and what the candidate workers do after it.
LEMMA SaveTyped ==
  ASSUME TypedInv, NEW w \in Saver, Save(w)
  PROVE  TypedInv'
<1> DEFINE Goes(at, args) == [at |-> at, job |-> saver[w].job, args |-> args]
<1>1. /\ saver \in [Saver -> SaverType] /\ saver[w].job \in SUBSET Address
      /\ saver[w].args \in SUBSET Address
      /\ cache \in [Address -> {"none", "id", "zero"}] /\ stored \in SUBSET Address
  BY DEF TypedInv, TypeOK, SaverType
<1>2. Missing(saver[w].job) \in SUBSET Address
  BY <1>1 DEF Missing
<1>3. \A at \in {"find", "collect", "insert", "ids"} : \A args \in SUBSET Address :
        Goes(at, args) \in SaverType /\ Goes(at, args).at = at
  BY <1>1 DEF SaverType
<1> HIDE DEF Goes
<1>4. CASE Check(w)
  <2>1. CASE Missing(saver[w].job) = {}
    BY <1>1, <1>4, <2>1, ReturnTyped DEF Check
  <2>2. CASE Missing(saver[w].job) # {}
    <3>1. saver' = [saver EXCEPT ![w] = Goes("find", Missing(saver[w].job))]
      BY <1>4, <2>2 DEF Check, Set, Goes
    <3> QED
      BY <1>1, <1>2, <1>3, <1>4, <2>2, <3>1, StepOnTyped DEF Check
  <2> QED
    BY <2>1, <2>2
<1>5. CASE FindAll(w)
  <2>1. saver' = [saver EXCEPT ![w] = Goes("collect", {})]
    BY <1>5 DEF FindAll, Set, Goes
  <2>2. cache' \in [Address -> {"none", "id", "zero"}]
    BY <1>1, <1>5 DEF FindAll
  <2> QED
    BY <1>1, <1>3, <1>5, <2>1, <2>2, StepOnTyped DEF FindAll
<1>11. CASE FindAllFails(w)
  <2>1. saver' = [saver EXCEPT ![w] = Goes("collect", {})]
    BY <1>11 DEF FindAllFails, Set, Goes
  <2>2. faults' \in 0 .. MaxFaults
    BY <1>11, ParametersAssumption DEF FindAllFails, TypedInv, TypeOK
  <2> QED
    BY <1>1, <1>3, <1>11, <2>1, <2>2, StepOnTyped DEF FindAllFails
<1>6. CASE Collect(w)
  <2>1. CASE Missing(saver[w].job) = {}
    BY <1>1, <1>6, <2>1, ReturnTyped DEF Collect
  <2>2. CASE Missing(saver[w].job) # {}
    <3>1. saver' = [saver EXCEPT ![w] = Goes("insert", Missing(saver[w].job))]
      BY <1>6, <2>2 DEF Collect, Set, Goes
    <3> QED
      BY <1>1, <1>2, <1>3, <1>6, <2>2, <3>1, StepOnTyped DEF Collect
  <2> QED
    BY <2>1, <2>2
<1>7. CASE Insert(w)
  BY <1>1, <1>7, ReturnTyped DEF Insert
<1>8. CASE InsertFails(w)
  <2>1. CASE w \in AddressWorker
    BY <1>1, <1>8, <2>1, DieTyped DEF InsertFails, TypedInv, TypeOK
  <2>2. CASE w \notin AddressWorker
    <3>1. saver' = [saver EXCEPT ![w] = Goes("ids", {})]
      BY <1>8, <2>2 DEF InsertFails, Set, Goes
    <3>2. cache' \in [Address -> {"none", "id", "zero"}]
      BY <1>1, <1>8, <2>2 DEF InsertFails
    <3> QED
      BY <1>1, <1>3, <1>8, <2>2, <3>1, <3>2, StepOnTyped DEF InsertFails
  <2> QED
    BY <2>1, <2>2
<1>9. ASSUME NEW a \in Address, FindIdOrCreate(w, a) PROVE TypedInv'
  <2> DEFINE args == IF cache[a] = "zero" THEN saver[w].args \cup {a} ELSE saver[w].args
             r    == [at |-> "ids", job |-> saver[w].job \ {a}, args |-> args]
  <2>1. r \in SaverType /\ r.at = "ids" /\ saver' = [saver EXCEPT ![w] = r]
    BY <1>1, <1>9 DEF FindIdOrCreate, Set, SaverType
  <2>2. w \notin AddressWorker /\ saver[w].at = "ids"
    BY <1>9 DEF FindIdOrCreate, TypedInv, Shape
  <2>3. stored' \in SUBSET Address /\ cache' \in [Address -> {"none", "id", "zero"}]
    BY <1>1, <1>9 DEF FindIdOrCreate
  <2> HIDE DEF r
  <2> QED
    BY <1>9, <2>1, <2>2, <2>3, StepOnTyped DEF FindIdOrCreate
<1>10. CASE SaveCandidates(w)
  <2>1. CASE w = "stakes" /\ saver[w].args # {}
    BY <1>1, <1>10, <2>1, DieTyped DEF SaveCandidates, TypedInv, TypeOK
  <2>2. CASE ~(w = "stakes" /\ saver[w].args # {})
    <3>1. saver' = [saver EXCEPT ![w] = Idle]
      BY <1>10, <2>2 DEF SaveCandidates, Set, Idle
    <3>2. Idle \in SaverType /\ w \notin AddressWorker
      BY <1>10 DEF SaveCandidates, TypedInv, Shape, Idle, SaverType
    <3> QED
      BY <1>1, <1>10, <2>2, <3>1, <3>2, StepOnTyped DEF SaveCandidates
  <2> QED
    BY <2>1, <2>2
<1> QED
  BY <1>4, <1>5, <1>6, <1>7, <1>8, <1>9, <1>10, <1>11 DEF Save

LEMMA NextTyped == TypedInv /\ [Next]_vars => TypedInv'
<1> SUFFICES ASSUME TypedInv, [Next]_vars PROVE TypedInv'
  OBVIOUS
<1>1. CASE Crash
  <2>1. faults' \in 0 .. MaxFaults /\ stored' \in SUBSET Address
    BY <1>1, ParametersAssumption DEF Crash, TypedInv, TypeOK
  <2> QED
    BY <1>1, <2>1, DieTyped DEF Crash
<1>2. CASE Restart
  <2>1. PICK h \in {height - 1, height} \ {0} : height' = h /\ unsent' = Next1(h)
    BY <1>2 DEF Restart
  <2>2. h \in 1 .. MaxHeight + 1 /\ Next1(h) \in SUBSET Address
    BY <2>1, NextAddresses, ParametersAssumption DEF TypedInv, TypeOK
  <2>3. Busy' = Busy
    BY <1>2 DEF Restart, Busy
  <2>4. TypeOK' /\ Counted' /\ Shape'
    BY <1>2, <2>1, <2>2, <2>3 DEF Restart, TypedInv, TypeOK, Counted, Shape
  <2> QED
    BY <2>4 DEF TypedInv
<1>3. CASE UNCHANGED vars
  <2>1. Busy' = Busy
    BY <1>3 DEF vars, Busy
  <2> QED
    BY <1>3, <2>1 DEF vars, loop, TypedInv, TypeOK, Counted, Shape, Waited
<1> QED
  BY <1>1, <1>2, <1>3, RunTyped, ReceiveTyped, SaveTyped DEF Next

\* The wait group is never released more often than it was taken, and every
\* variable keeps its type.
THEOREM TypeCorrect == Spec => []TypeOK
<1>1. TypedInv => TypeOK
  BY DEF TypedInv
<1> QED
  BY <1>1, InitTyped, NextTyped, PTL DEF Spec

-----------------------------------------------------------------------------
\* The ids in the cache.

LEMMA NextCached == TypedInv /\ CachedIdsExist /\ [Next]_vars => CachedIdsExist'
<1> SUFFICES ASSUME TypedInv, CachedIdsExist, [Next]_vars PROVE CachedIdsExist'
  OBVIOUS
<1> USE DEF CachedIdsExist
<1>1. ASSUME Die PROVE CachedIdsExist'
  BY <1>1 DEF Die, NoIds
<1>2. CASE Run
  BY <1>2 DEF Run, SendAddresses, Wait, UseAddresses, Correct
<1>3. CASE PanicOnAddress \/ Crash
  BY <1>1, <1>3 DEF PanicOnAddress, Crash
<1>4. CASE Restart
  BY <1>4 DEF Restart
<1>5. ASSUME NEW w \in Saver, ReceiveAddresses(w) \/ ReceiveCandidates(w) PROVE CachedIdsExist'
  BY <1>5 DEF ReceiveAddresses, ReceiveCandidates
<1>6. ASSUME NEW w \in Saver, Save(w) PROVE CachedIdsExist'
  <2>1. CASE Check(w) \/ Collect(w) \/ Insert(w)
    BY <2>1 DEF Check, Collect, Insert
  <2>2. CASE FindAll(w) \/ FindAllFails(w)
    BY <2>2 DEF FindAll, FindAllFails
  <2>3. CASE InsertFails(w)
    BY <1>1, <2>3 DEF InsertFails
  <2>4. ASSUME NEW a \in Address, FindIdOrCreate(w, a) PROVE CachedIdsExist'
    BY <2>4 DEF FindIdOrCreate, TypedInv, TypeOK
  <2>5. CASE SaveCandidates(w)
    BY <1>1, <2>5 DEF SaveCandidates
  <2> QED
    BY <1>6, <2>1, <2>2, <2>3, <2>4, <2>5 DEF Save
<1>7. CASE UNCHANGED vars
  BY <1>7 DEF vars
<1> QED
  BY <1>2, <1>3, <1>4, <1>5, <1>6, <1>7 DEF Next

\* An id that FindId answers from the cache is 0 or that of a row.
THEOREM CachedIds == Spec => []CachedIdsExist
<1>1. Init => CachedIdsExist
  BY DEF Init, CachedIdsExist, NoIds
<1> QED
  BY <1>1, InitTyped, NextTyped, NextCached, PTL DEF Spec

-----------------------------------------------------------------------------
\* The jobs of the pool.  An address of the block is in one place: not sent yet,
\* in one job in the channel, or in the job of one worker.

JobsApart ==
  /\ PoolIsDisjoint
  /\ \A m, n \in 1 .. Len(chan) : m # n => chan[m] \cap chan[n] = {}
  /\ \A n \in 1 .. Len(chan) : chan[n] \cap unsent = {}
  /\ \A w \in AddressWorker : saver[w].job \cap unsent = {}

\* No step but the sends and receives gives the pool an address.
LEMMA SmallerJobsApart ==
  ASSUME TypedInv, JobsApart, UNCHANGED <<chan, unsent>>,
         \A w \in AddressWorker : saver'[w].job \subseteq saver[w].job
  PROVE  JobsApart'
<1>1. chan \in Seq(SUBSET Address)
  BY DEF TypedInv, TypeOK
<1>2. DOMAIN chan = 1 .. Len(chan)
  BY <1>1
<1> QED
  BY <1>2 DEF JobsApart, PoolIsDisjoint

LEMMA NextApart == TypedInv /\ JobsApart /\ [Next]_vars => JobsApart'
<1> SUFFICES ASSUME TypedInv, JobsApart, [Next]_vars PROVE JobsApart'
  OBVIOUS
<1>1. /\ chan \in Seq(SUBSET Address) /\ DOMAIN chan = 1 .. Len(chan) /\ Len(chan) \in Nat
      /\ saver \in [Saver -> SaverType] /\ unsent \in SUBSET Address
  BY DEF TypedInv, TypeOK, SaverType
<1>2. ASSUME Die PROVE JobsApart'
  BY <1>2, WorkersAreSavers DEF Die, NoJobs, Idle, JobsApart, PoolIsDisjoint
<1>3. CASE SendAddresses
  <2>1. PICK S \in SUBSET unsent : chan' = Append(chan, S) /\ unsent' = unsent \ S
    BY <1>3 DEF SendAddresses
  <2>2. saver' = saver
    BY <1>3 DEF SendAddresses
  <2>3. S \in SUBSET Address
    BY <1>1, <2>1
  <2>4. /\ Len(chan') = Len(chan) + 1 /\ DOMAIN chan' = 1 .. Len(chan) + 1
        /\ \A n \in 1 .. Len(chan) : chan'[n] = chan[n]
        /\ chan'[Len(chan) + 1] = S
    BY <1>1, <2>1, <2>3
  <2>5. \A n \in 1 .. Len(chan) : S \cap chan[n] = {}
    BY <2>1 DEF JobsApart
  <2>6. \A w \in AddressWorker : S \cap saver[w].job = {}
    BY <2>1 DEF JobsApart
  <2>7. PoolIsDisjoint'
    BY <1>1, <2>2, <2>4, <2>6 DEF JobsApart, PoolIsDisjoint
  <2>8. \A m, n \in 1 .. Len(chan') : m # n => chan'[m] \cap chan'[n] = {}
    BY <1>1, <2>4, <2>5 DEF JobsApart
  <2>9. \A n \in 1 .. Len(chan') : chan'[n] \cap unsent' = {}
    BY <1>1, <2>1, <2>4 DEF JobsApart
  <2>10. \A w \in AddressWorker : saver'[w].job \cap unsent' = {}
    BY <2>1, <2>2 DEF JobsApart
  <2> QED
    BY <2>7, <2>8, <2>9, <2>10 DEF JobsApart
<1>4. CASE Wait
  BY <1>4, SmallerJobsApart DEF Wait
<1>5. CASE UseAddresses
  <2>1. chan' = <<>> /\ \A w \in AddressWorker : saver'[w].job = {}
    BY <1>5 DEF UseAddresses, TypedInv, Shape, Waited, Idle
  <2> QED
    BY <2>1 DEF JobsApart, PoolIsDisjoint
<1>6. CASE PanicOnAddress \/ Crash
  BY <1>2, <1>6 DEF PanicOnAddress, Crash
<1>7. CASE Restart
  <2>1. chan' = <<>> /\ \A w \in AddressWorker : saver'[w].job = {}
    BY <1>7, WorkersAreSavers DEF Restart, TypedInv, Shape, NoJobs, Idle
  <2> QED
    BY <2>1 DEF JobsApart, PoolIsDisjoint
<1>8. ASSUME NEW w \in Saver, ReceiveAddresses(w) PROVE JobsApart'
  <2>1. /\ chan # <<>> /\ chan' = Tail(chan) /\ unsent' = unsent /\ w \in AddressWorker
        /\ saver' = [saver EXCEPT ![w] = [at |-> "check", job |-> Head(chan), args |-> {}]]
    BY <1>8 DEF ReceiveAddresses, Set, loop
  <2>2. /\ Len(chan') = Len(chan) - 1 /\ DOMAIN chan' = 1 .. Len(chan) - 1
        /\ \A n \in 1 .. Len(chan) - 1 : chan'[n] = chan[n + 1]
        /\ Head(chan) = chan[1] /\ 1 \in 1 .. Len(chan)
    BY <1>1, <2>1
  <2>3. /\ saver'[w].job = chan[1]
        /\ \A v \in AddressWorker \ {w} : saver'[v] = saver[v]
    BY <1>1, <2>1, <2>2, WorkersAreSavers
  <2>4. \A n \in 1 .. Len(chan) - 1 : n + 1 \in 1 .. Len(chan) /\ n + 1 # 1
    BY <1>1
  <2>5. PoolIsDisjoint'
    <3>1. \A v \in AddressWorker : \A n \in 1 .. Len(chan) : saver[v].job \cap chan[n] = {}
      BY <1>1 DEF JobsApart, PoolIsDisjoint
    <3>2. \A v \in AddressWorker \ {w} : saver'[v].job \cap saver'[w].job = {}
      BY <2>2, <2>3, <3>1
    <3>3. \A v, u \in AddressWorker : v # u => saver'[v].job \cap saver'[u].job = {}
      BY <2>3, <3>2 DEF JobsApart, PoolIsDisjoint
    <3>4. \A n \in 1 .. Len(chan) - 1 : saver'[w].job \cap chan'[n] = {}
      BY <2>2, <2>3, <2>4 DEF JobsApart
    <3>5. \A v \in AddressWorker : \A n \in 1 .. Len(chan) - 1 : saver'[v].job \cap chan'[n] = {}
      BY <2>2, <2>3, <2>4, <3>1, <3>4
    <3> QED
      BY <2>2, <3>3, <3>5 DEF PoolIsDisjoint
  <2>6. \A m, n \in 1 .. Len(chan') : m # n => chan'[m] \cap chan'[n] = {}
    BY <1>1, <2>2, <2>4 DEF JobsApart
  <2>7. \A n \in 1 .. Len(chan') : chan'[n] \cap unsent' = {}
    BY <1>1, <2>1, <2>2, <2>4 DEF JobsApart
  <2>8. \A v \in AddressWorker : saver'[v].job \cap unsent' = {}
    BY <2>1, <2>2, <2>3 DEF JobsApart
  <2> QED
    BY <2>5, <2>6, <2>7, <2>8 DEF JobsApart
<1>9. ASSUME NEW w \in Saver, ReceiveCandidates(w) PROVE JobsApart'
  <2>1. \A v \in AddressWorker : saver'[v] = saver[v]
    BY <1>1, <1>9, WorkersAreSavers DEF ReceiveCandidates, Set
  <2> QED
    BY <1>9, <2>1, SmallerJobsApart DEF ReceiveCandidates, loop
<1>10. ASSUME NEW w \in Saver, Save(w) PROVE JobsApart'
  <2>1. \/ Die
        \/ /\ UNCHANGED <<loop, chan>>
           /\ \E at, args : \E S \in SUBSET saver[w].job : Set(w, at, S, args)
    <3>1. ASSUME Return(w)
          PROVE  \E at, args : \E S \in SUBSET saver[w].job : Set(w, at, S, args)
      BY <3>1 DEF Return
    <3>2. CASE Check(w)
      BY <3>1, <3>2 DEF Check
    <3>3. CASE FindAll(w) \/ FindAllFails(w)
      BY <3>3 DEF FindAll, FindAllFails
    <3>4. CASE Collect(w)
      BY <3>1, <3>4 DEF Collect
    <3>5. CASE Insert(w)
      BY <3>1, <3>5 DEF Insert
    <3>6. CASE InsertFails(w)
      BY <3>6 DEF InsertFails
    <3>7. ASSUME NEW a \in Address, FindIdOrCreate(w, a)
          PROVE  /\ UNCHANGED <<loop, chan>>
                 /\ \E at, args : \E S \in SUBSET saver[w].job : Set(w, at, S, args)
      BY <3>7 DEF FindIdOrCreate
    <3>8. CASE SaveCandidates(w)
      BY <3>8 DEF SaveCandidates
    <3> QED
      BY <1>10, <3>2, <3>3, <3>4, <3>5, <3>6, <3>7, <3>8 DEF Save
  <2>2. ASSUME UNCHANGED <<loop, chan>>,
               NEW at, NEW args, NEW S \in SUBSET saver[w].job, Set(w, at, S, args)
        PROVE  JobsApart'
    <3>1. saver' = [saver EXCEPT ![w] = [at |-> at, job |-> S, args |-> args]]
      BY <2>2 DEF Set
    <3>2. \A v \in AddressWorker : saver'[v].job \subseteq saver[v].job
      BY <1>1, <2>2, <3>1, WorkersAreSavers
    <3> QED
      BY <2>2, <3>2, SmallerJobsApart DEF loop
  <2> QED
    BY <1>2, <2>1, <2>2
<1>11. CASE UNCHANGED vars
  BY <1>11, SmallerJobsApart DEF vars, loop
<1> QED
  BY <1>3, <1>4, <1>5, <1>6, <1>7, <1>8, <1>9, <1>10, <1>11 DEF Next, Run

\* No two jobs of the pool share an address, so its workers have no conflicts with
\* each other: chunks of one block are disjoint, and Wait separates the blocks.
THEOREM PoolDisjoint == Spec => []PoolIsDisjoint
<1>1. Init => JobsApart
  BY WorkersAreSavers DEF Init, NoJobs, Idle, JobsApart, PoolIsDisjoint
<1>2. JobsApart => PoolIsDisjoint
  BY DEF JobsApart
<1> QED
  BY <1>1, <1>2, InitTyped, NextTyped, NextApart, PTL DEF Spec

-----------------------------------------------------------------------------
\* What the wait is for.  Each address of the block under way is known or the
\* pool still has it, and an insert covers what its worker did not find known.

PoolHas(a) ==
  \/ a \in unsent
  \/ \E n \in 1 .. Len(chan) : a \in chan[n]
  \/ \E w \in AddressWorker : a \in saver[w].job

RestIsKnown ==
  \A w \in Saver : saver[w].at = "insert" => \A a \in saver[w].job \ saver[w].args : Known(a)

Covered ==
  /\ pc = "send" /\ height \in Height => \A a \in AddressesOf[height] : Known(a) \/ PoolHas(a)
  /\ WaitSuffices
  /\ RestIsKnown

\* What is known stays known while the process lives.
LEMMA KnownGrows ==
  ASSUME stored \subseteq stored',
         \A a \in Address : cache[a] # "none" => cache'[a] # "none"
  PROVE  \A a \in Address : Known(a) => Known(a)'
BY DEF Known

\* A block's addresses are addresses.
LEMMA BlockAddresses == \A h \in Height : AddressesOf[h] \subseteq Address
BY ParametersAssumption

\* A saver goes on, or ends its job when all of it is known.
LEMMA SaverCovers ==
  ASSUME TypedInv, Covered, UNCHANGED <<loop, chan>>,
         \A a \in Address : Known(a) => Known(a)',
         NEW w \in Saver, NEW r \in SaverType, saver' = [saver EXCEPT ![w] = r],
         w \in AddressWorker => r.job = saver[w].job \/ \A a \in saver[w].job : Known(a)',
         r.at = "insert" => \A a \in r.job \ r.args : Known(a)'
  PROVE  Covered'
<1>1. saver \in [Saver -> SaverType] /\ height \in Nat
  BY DEF TypedInv, TypeOK, SaverType
<1>2. RestIsKnown'
  <2> SUFFICES ASSUME NEW v \in Saver, saver'[v].at = "insert",
                      NEW a \in saver'[v].job \ saver'[v].args
               PROVE  Known(a)'
    BY DEF RestIsKnown
  <2>1. CASE v = w
    BY <1>1, <2>1
  <2>2. CASE v # w
    BY <1>1, <2>2 DEF Covered, RestIsKnown, SaverType
  <2> QED
    BY <2>1, <2>2
<1>3. ASSUME NEW a \in Address, PoolHas(a) PROVE Known(a)' \/ PoolHas(a)'
  BY <1>1, <1>3, WorkersAreSavers DEF PoolHas, loop
<1>4. /\ pc' = "use" => height \in Height
      /\ pc' = pc /\ height' = height
  BY DEF TypedInv, TypeOK, Shape, Height, loop
<1> QED
  BY <1>2, <1>3, <1>4, BlockAddresses DEF Covered, WaitSuffices

\* A process that is down has nothing to cover.
LEMMA DieCovers == ASSUME Die PROVE Covered'
BY DEF Die, NoJobs, Idle, Covered, WaitSuffices, RestIsKnown

LEMMA SaveCovers ==
  ASSUME TypedInv, Covered, NEW w \in Saver, Save(w)
  PROVE  Covered'
<1> DEFINE Goes(at, job, args) == [at |-> at, job |-> job, args |-> args]
<1>1. /\ saver \in [Saver -> SaverType]
      /\ saver[w].job \in SUBSET Address /\ saver[w].args \in SUBSET Address
  BY DEF TypedInv, TypeOK, SaverType
<1>2. \A at \in {"idle", "find", "collect", "insert", "ids"} :
        \A job, args \in SUBSET Address :
          /\ Goes(at, job, args) \in SaverType /\ Goes(at, job, args).at = at
          /\ Goes(at, job, args).job = job /\ Goes(at, job, args).args = args
  BY DEF SaverType
<1>3. {} \in SUBSET Address /\ Missing(saver[w].job) \in SUBSET Address
  BY <1>1 DEF Missing
<1>4. \A a \in saver[w].job \ Missing(saver[w].job) : Known(a)
  BY DEF Missing, Known
<1>5. ASSUME Return(w) PROVE saver' = [saver EXCEPT ![w] = Goes("idle", {}, {})]
                             \/ saver' = [saver EXCEPT ![w] = Goes("ids", saver[w].job, {})]
  BY <1>5 DEF Return, Set
<1> HIDE DEF Goes
<1>stays. ASSUME UNCHANGED <<loop, chan>>, \A a \in Address : Known(a) => Known(a)',
              NEW at \in {"find", "collect", "insert"}, NEW args \in SUBSET Address,
              saver' = [saver EXCEPT ![w] = Goes(at, saver[w].job, args)],
              at = "insert" => \A a \in saver[w].job \ args : Known(a)'
       PROVE  Covered'
  <2> DEFINE r == Goes(at, saver[w].job, args)
  <2>1. /\ r \in SaverType /\ r.at = at /\ r.job = saver[w].job /\ r.args = args
        /\ saver' = [saver EXCEPT ![w] = r]
    BY <1>1, <1>2, <1>stays
  <2> HIDE DEF r
  <2> QED
    BY <1>stays, <2>1, SaverCovers
<1>6. CASE Check(w)
  <2>1. \A a \in Address : Known(a) => Known(a)'
    BY <1>6 DEF Check, Known
  <2>2. CASE Missing(saver[w].job) = {}
    <3>1. Return(w)
      BY <1>6, <2>2 DEF Check
    <3>2. \A a \in saver[w].job : Known(a)'
      BY <1>1, <1>4, <2>1, <2>2
    <3> QED
      BY <1>1, <1>2, <1>3, <1>5, <1>6, <2>1, <3>1, <3>2, SaverCovers DEF Check
  <2>3. CASE Missing(saver[w].job) # {}
    <3>1. saver' = [saver EXCEPT ![w] = Goes("find", saver[w].job, Missing(saver[w].job))]
      BY <1>6, <2>3 DEF Check, Set, Goes
    <3> QED
      BY <1>3, <1>6, <1>stays, <2>1, <3>1 DEF Check
  <2> QED
    BY <2>2, <2>3
<1>7. CASE FindAll(w)
  <2>1. saver' = [saver EXCEPT ![w] = Goes("collect", saver[w].job, {})]
    BY <1>7 DEF FindAll, Set, Goes
  <2>2. \A a \in Address : Known(a) => Known(a)'
    BY <1>7, KnownGrows DEF FindAll
  <2> QED
    BY <1>3, <1>7, <1>stays, <2>1, <2>2 DEF FindAll
<1>13. CASE FindAllFails(w)
  <2>1. saver' = [saver EXCEPT ![w] = Goes("collect", saver[w].job, {})]
    BY <1>13 DEF FindAllFails, Set, Goes
  <2>2. \A a \in Address : Known(a) => Known(a)'
    BY <1>13 DEF FindAllFails, Known
  <2> QED
    BY <1>3, <1>13, <1>stays, <2>1, <2>2 DEF FindAllFails
<1>8. CASE Collect(w)
  <2>1. \A a \in Address : Known(a) => Known(a)'
    BY <1>8 DEF Collect, Known
  <2>2. \A a \in saver[w].job \ Missing(saver[w].job) : Known(a)'
    BY <1>1, <1>4, <2>1
  <2>3. CASE Missing(saver[w].job) = {}
    <3>1. Return(w)
      BY <1>8, <2>3 DEF Collect
    <3> QED
      BY <1>1, <1>2, <1>3, <1>5, <1>8, <2>1, <2>2, <2>3, <3>1, SaverCovers DEF Collect
  <2>4. CASE Missing(saver[w].job) # {}
    <3>1. saver' = [saver EXCEPT ![w] = Goes("insert", saver[w].job, Missing(saver[w].job))]
      BY <1>8, <2>4 DEF Collect, Set, Goes
    <3> QED
      BY <1>3, <1>8, <1>stays, <2>1, <2>2, <3>1 DEF Collect
  <2> QED
    BY <2>3, <2>4
<1>9. CASE Insert(w)
  <2>1. \A a \in Address : Known(a) => Known(a)'
    BY <1>9, KnownGrows DEF Insert
  <2>2. \A a \in saver[w].job : Known(a)'
    <3>1. \A a \in saver[w].args : Known(a)'
      BY <1>9 DEF Insert, Known
    <3>2. \A a \in saver[w].job \ saver[w].args : Known(a)
      BY <1>9 DEF Insert, Covered, RestIsKnown
    <3> QED
      BY <1>1, <2>1, <3>1, <3>2
  <2> QED
    BY <1>1, <1>2, <1>3, <1>5, <1>9, <2>1, <2>2, SaverCovers DEF Insert
<1>10. CASE InsertFails(w)
  <2>1. CASE w \in AddressWorker
    BY <1>10, <2>1, DieCovers DEF InsertFails
  <2>2. CASE w \notin AddressWorker
    <3>1. saver' = [saver EXCEPT ![w] = Goes("ids", saver[w].job, {})]
      BY <1>10, <2>2 DEF InsertFails, Set, Goes
    <3>2. \A a \in Address : Known(a) => Known(a)'
      BY <1>10, <2>2, KnownGrows DEF InsertFails
    <3> QED
      BY <1>1, <1>2, <1>3, <1>10, <2>2, <3>1, <3>2, SaverCovers DEF InsertFails
  <2> QED
    BY <2>1, <2>2
<1>11. ASSUME NEW a \in Address, FindIdOrCreate(w, a) PROVE Covered'
  <2> DEFINE args == IF cache[a] = "zero" THEN saver[w].args \cup {a} ELSE saver[w].args
  <2>1. args \in SUBSET Address /\ saver[w].job \ {a} \in SUBSET Address
    BY <1>1
  <2>2. saver' = [saver EXCEPT ![w] = Goes("ids", saver[w].job \ {a}, args)]
    BY <1>11 DEF FindIdOrCreate, Set, Goes
  <2>3. w \notin AddressWorker
    BY <1>11 DEF FindIdOrCreate, TypedInv, Shape
  <2>4. \A b \in Address : Known(b) => Known(b)'
    <3>1. stored \subseteq stored' /\ \A b \in Address : cache[b] # "none" => cache'[b] # "none"
      BY <1>11 DEF FindIdOrCreate, TypedInv, TypeOK
    <3> QED
      BY <3>1, KnownGrows
  <2> HIDE DEF args
  <2> QED
    BY <1>2, <1>11, <2>1, <2>2, <2>3, <2>4, SaverCovers DEF FindIdOrCreate
<1>12. CASE SaveCandidates(w)
  <2>1. CASE w = "stakes" /\ saver[w].args # {}
    BY <1>12, <2>1, DieCovers DEF SaveCandidates
  <2>2. CASE ~(w = "stakes" /\ saver[w].args # {})
    <3>1. saver' = [saver EXCEPT ![w] = Goes("idle", {}, {})]
      BY <1>12, <2>2 DEF SaveCandidates, Set, Goes
    <3>2. w \notin AddressWorker
      BY <1>12 DEF SaveCandidates, TypedInv, Shape
    <3>3. \A a \in Address : Known(a) => Known(a)'
      BY <1>12, <2>2 DEF SaveCandidates, Known
    <3> QED
      BY <1>2, <1>3, <1>12, <2>2, <3>1, <3>2, <3>3, SaverCovers DEF SaveCandidates
  <2> QED
    BY <2>1, <2>2
<1> QED
  BY <1>6, <1>7, <1>8, <1>9, <1>10, <1>11, <1>12, <1>13 DEF Save

LEMMA NextCovers == TypedInv /\ Covered /\ [Next]_vars => Covered'
<1> SUFFICES ASSUME TypedInv, Covered, [Next]_vars PROVE Covered'
  OBVIOUS
<1>1. /\ chan \in Seq(SUBSET Address) /\ Len(chan) \in Nat
      /\ saver \in [Saver -> SaverType] /\ unsent \in SUBSET Address
  BY DEF TypedInv, TypeOK, SaverType
<1>2. CASE SendAddresses
  <2>1. PICK S \in SUBSET unsent : chan' = Append(chan, S) /\ unsent' = unsent \ S
    BY <1>2 DEF SendAddresses
  <2>2. S \in SUBSET Address
    BY <1>1, <2>1
  <2>3. /\ Len(chan') = Len(chan) + 1 /\ chan'[Len(chan) + 1] = S
        /\ \A n \in 1 .. Len(chan) : chan'[n] = chan[n]
    BY <1>1, <2>1, <2>2
  <2>4. \A a : PoolHas(a) => PoolHas(a)'
    BY <1>1, <1>2, <2>1, <2>3 DEF SendAddresses, PoolHas
  <2> QED
    BY <1>2, <2>4 DEF SendAddresses, Covered, WaitSuffices, RestIsKnown, Known
<1>3. CASE Wait
  <2>1. Waited
    BY <1>3, WaitIsForAll
  <2>2. \A a : ~PoolHas(a)
    BY <2>1 DEF Waited, PoolHas, Idle
  <2>3. height \in Height
    BY <1>3 DEF Wait, Height, TypedInv, TypeOK
  <2> QED
    BY <1>3, <2>2, <2>3 DEF Wait, Covered, WaitSuffices, RestIsKnown, Known
<1>4. CASE UseAddresses
  <2>1. \A a \in Address : Known(a) => Known(a)'
    BY <1>4, KnownGrows DEF UseAddresses
  <2>2. RestIsKnown'
    BY <1>1, <1>4, <2>1 DEF UseAddresses, Covered, RestIsKnown, SaverType
  <2> QED
    BY <1>4, <2>2 DEF UseAddresses, Covered, WaitSuffices, PoolHas, Next1
<1>5. CASE PanicOnAddress \/ Crash
  BY <1>5, DieCovers DEF PanicOnAddress, Crash
<1>6. CASE Restart
  BY <1>6 DEF Restart, Covered, WaitSuffices, RestIsKnown, Known, PoolHas, Next1
<1>7. ASSUME NEW w \in Saver, ReceiveAddresses(w) PROVE Covered'
  <2>1. /\ chan # <<>> /\ chan' = Tail(chan) /\ w \in AddressWorker /\ saver[w].job = {}
        /\ saver' = [saver EXCEPT ![w] = [at |-> "check", job |-> Head(chan), args |-> {}]]
        /\ UNCHANGED <<stored, cache, loop>>
    BY <1>7 DEF ReceiveAddresses, Set, Idle
  <2>2. /\ Len(chan') = Len(chan) - 1 /\ Head(chan) = chan[1]
        /\ \A n \in 1 .. Len(chan) - 1 : chan'[n] = chan[n + 1]
    BY <1>1, <2>1
  <2>3. /\ saver'[w].job = chan[1] /\ saver'[w].at = "check"
        /\ \A v \in Saver \ {w} : saver'[v] = saver[v]
    BY <1>1, <2>1, <2>2
  <2>4. ASSUME NEW a, PoolHas(a) PROVE PoolHas(a)'
    <3>1. CASE a \in unsent
      BY <2>1, <3>1 DEF PoolHas, loop
    <3>2. ASSUME NEW n \in 1 .. Len(chan), a \in chan[n] PROVE PoolHas(a)'
      <4>1. CASE n = 1
        BY <2>1, <2>3, <3>2, <4>1 DEF PoolHas
      <4>2. CASE n # 1
        <5>1. n - 1 \in 1 .. Len(chan') /\ chan'[n - 1] = chan[n]
          BY <1>1, <2>2, <4>2
        <5> QED
          BY <3>2, <5>1 DEF PoolHas
      <4> QED
        BY <4>1, <4>2
    <3>3. ASSUME NEW v \in AddressWorker, a \in saver[v].job PROVE PoolHas(a)'
      BY <2>1, <2>3, <3>3, WorkersAreSavers DEF PoolHas
    <3> QED
      BY <2>4, <3>1, <3>2, <3>3 DEF PoolHas
  <2>5. RestIsKnown'
    BY <2>1, <2>3 DEF Covered, RestIsKnown, Known
  <2> QED
    BY <2>1, <2>4, <2>5 DEF Covered, WaitSuffices, Known, loop
<1>8. ASSUME NEW w \in Saver, ReceiveCandidates(w) PROVE Covered'
  <2>1. PICK S \in CandidateSets :
          saver' = [saver EXCEPT ![w] = [at |-> "check", job |-> S, args |-> {}]]
    BY <1>8 DEF ReceiveCandidates, Set
  <2> DEFINE r == [at |-> "check", job |-> S, args |-> {}]
  <2>2. r \in SaverType /\ r.at = "check" /\ saver' = [saver EXCEPT ![w] = r]
    BY <2>1, ParametersAssumption DEF SaverType
  <2>3. w \notin AddressWorker /\ \A a \in Address : Known(a) => Known(a)'
    BY <1>8, WorkersAreSavers DEF ReceiveCandidates, Known
  <2> HIDE DEF r
  <2> QED
    BY <1>8, <2>2, <2>3, SaverCovers DEF ReceiveCandidates
<1>9. CASE UNCHANGED vars
  BY <1>9 DEF vars, loop, Covered, WaitSuffices, RestIsKnown, Known, PoolHas
<1> QED
  BY <1>2, <1>3, <1>4, <1>5, <1>6, <1>7, <1>8, <1>9, SaveCovers DEF Next, Run

\* When the loop goes on after its wait, whatever uses the block's addresses
\* finds them, however many workers, candidates and crashes there were.
THEOREM AddressesKnown == Spec => []WaitSuffices
<1>1. Init => Covered
  BY DEF Init, NoJobs, Idle, Next1, Covered, WaitSuffices, RestIsKnown, PoolHas
<1>2. Covered => WaitSuffices
  BY DEF Covered
<1> QED
  BY <1>1, <1>2, InitTyped, NextTyped, NextCovers, PTL DEF Spec
=============================================================================
