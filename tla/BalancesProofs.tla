--------------------------- MODULE BalancesProofs ---------------------------
(***************************************************************************)
(* Proofs about the balance service, for every chain, every size of jobs,  *)
(* channels and pools and every number of faults.                          *)
(***************************************************************************)
EXTENDS Balances, ChunksProofs

-----------------------------------------------------------------------------
\* The wait group counts the jobs that are still to be sent and those under way.
\* A failed request leaves it too high, nothing leaves it too low.

Unsent == ChunksCount(Cardinality(unsent), AddrChunkSize)

Counted ==
  /\ wg >= Unsent + Fetching + Updating
  /\ serving = 0 => unsent = {} /\ Fetching + Updating = 0

Shape == pc = "coins" => height <= MaxHeight

TypedInv == TypeOK /\ Counted /\ Shape /\ IsFiniteSet(fetching) /\ IsFiniteSet(updating)

LEMMA FiniteAddresses ==
  ASSUME NEW S \in SUBSET Address
  PROVE  IsFiniteSet(S) /\ Cardinality(S) \in Nat
BY ParametersAssumption, FS_Subset, FS_CardinalityType

\* Sending one chunk leaves one chunk less to send.
LEMMA OneChunkLess ==
  ASSUME NEW U \in SUBSET Address, NEW S \in SUBSET U, S # {},
         Cardinality(S) <= AddrChunkSize, Cardinality(S) < AddrChunkSize => S = U
  PROVE  ChunksCount(Cardinality(U), AddrChunkSize)
           = ChunksCount(Cardinality(U \ S), AddrChunkSize) + 1
<1> DEFINE n == Cardinality(U)
           m == Cardinality(S)
           d == AddrChunkSize
<1>1. n \in Nat /\ m \in Nat /\ m # 0 /\ m <= n /\ d \in Nat \ {0}
  BY FiniteAddresses, FS_EmptySet, FS_Subset, ParametersAssumption
<1>2. Cardinality(U \ S) = n - m
  <2>1. U \cap S = S
    OBVIOUS
  <2> QED
    BY <2>1, FiniteAddresses, FS_Difference
<1>3. CASE m = d
  <2>1. ChunksCount(n, d) = ChunksCount(n - d, d) + 1
    BY <1>1, <1>3 DEF ChunksCount
  <2> QED
    BY <1>2, <1>3, <2>1
<1>4. CASE m # d
  <2>1. m < d /\ m = n
    BY <1>1, <1>4
  <2>2. ChunksCount(n, d) = 1 /\ ChunksCount(0, d) = 0
    BY <1>1, <2>1 DEF ChunksCount
  <2> QED
    BY <1>1, <1>2, <2>1, <2>2
<1> QED
  BY <1>3, <1>4

LEMMA ChunkCountType ==
  ASSUME NEW S \in SUBSET Address
  PROVE  ChunksCount(Cardinality(S), AddrChunkSize) \in Nat
BY FiniteAddresses, ParametersAssumption, CountIsExact

\* Putting a job in the place of another does not make more of them.
LEMMA Replace ==
  ASSUME NEW S, IsFiniteSet(S), NEW j \in S, NEW k
  PROVE  /\ IsFiniteSet(S \ {j}) /\ Cardinality(S \ {j}) = Cardinality(S) - 1
         /\ IsFiniteSet((S \ {j}) \cup {k})
         /\ Cardinality((S \ {j}) \cup {k}) <= Cardinality(S)
         /\ Cardinality(S) \in Nat /\ Cardinality(S \ {j}) \in Nat
         /\ Cardinality((S \ {j}) \cup {k}) \in Nat
<1>1. IsFiniteSet(S \ {j}) /\ Cardinality(S \ {j}) = Cardinality(S) - 1
  BY FS_RemoveElement
<1>2. IsFiniteSet((S \ {j}) \cup {k})
      /\ Cardinality((S \ {j}) \cup {k}) \in {Cardinality(S \ {j}), Cardinality(S \ {j}) + 1}
  BY <1>1, FS_AddElement
<1> QED
  BY <1>1, <1>2, FS_CardinalityType

LEMMA AddOne ==
  ASSUME NEW S, IsFiniteSet(S), NEW k
  PROVE  /\ IsFiniteSet(S \cup {k})
         /\ Cardinality(S \cup {k}) <= Cardinality(S) + 1
         /\ Cardinality(S) \in Nat /\ Cardinality(S \cup {k}) \in Nat
BY FS_AddElement, FS_CardinalityType

JobAt == {"fetch", "send", "read"} \cup Statement

LEMMA JobTyped ==
  ASSUME NEW at \in JobAt, NEW h \in Height, NEW S \in SUBSET Address,
         NEW node \in Table, NEW held \in Table
  PROVE  /\ Job(at, h, S, node, held) \in JobType
         /\ Job(at, h, S, node, held).at = at
BY DEF Job, JobType, JobAt

LEMMA NoBalancesTyped == NoBalances \in Table
BY DEF NoBalances, Table

LEMMA AnswerTyped == ASSUME NEW j \in JobType PROVE Answer(j) \in Table
<1>1. BalanceAt[j.height] \in Table
  BY ChainAssumption DEF JobType
<1> QED
  BY <1>1 DEF Answer, Table

LEMMA WrittenTyped ==
  ASSUME NEW j \in JobType, balances \in Table
  PROVE  Written(j) \in Table
<1>1. j.node \in Table
  BY DEF JobType
<1> QED
  BY <1>1 DEF Written, Table

\* What the steps below need of the types and the counts.
LEMMA Numbers ==
  ASSUME TypedInv
  PROVE  /\ wg \in Nat /\ Len(chGet) \in Nat /\ Len(chUpdate) \in Nat
         /\ Cardinality(fetching) \in Nat /\ Cardinality(updating) \in Nat
         /\ Unsent \in Nat /\ Fetching \in Nat /\ Updating \in Nat
         /\ MaxHeight \in Nat /\ height \in Nat
BY FS_CardinalityType, ChunkCountType, ParametersAssumption
   DEF TypedInv, TypeOK, Unsent, Fetching, Updating

LEMMA InitTyped == Init => TypedInv
<1> SUFFICES ASSUME Init PROVE TypedInv
  OBVIOUS
<1>1. IsFiniteSet({}) /\ Cardinality({}) = 0
  BY FS_EmptySet
<1>2. ChunksCount(0, AddrChunkSize) = 0
  BY ParametersAssumption DEF ChunksCount
<1>3. TypeOK
  BY NoBalancesTyped, ParametersAssumption DEF Init, TypeOK
<1>4. Counted
  BY <1>1, <1>2 DEF Init, Counted, Unsent, Fetching, Updating
<1> QED
  BY <1>1, <1>3, <1>4 DEF Init, TypedInv, Shape

LEMMA CountedFacts ==
  ASSUME TypedInv
  PROVE  /\ wg >= Unsent + Fetching + Updating
         /\ serving = 0 => unsent = {} /\ Fetching + Updating = 0
BY DEF TypedInv, Counted

\* The loop.
LEMMA RunTyped ==
  ASSUME TypedInv, Run
  PROVE  TypedInv'
<1> USE Numbers
<1>1. CASE HandOff
  <2>1. height \in Height
    BY <1>1 DEF HandOff, TypedInv, TypeOK, Height
  <2>2. CASE AddressesOf[height] = {}
    <3>1. TypeOK' /\ Shape'
      BY <1>1, <2>1, <2>2 DEF HandOff, TypedInv, TypeOK, Shape, service, workers
    <3>2. Counted'
      BY <1>1, <2>2 DEF HandOff, TypedInv, Counted, Unsent, Fetching, Updating, service, workers
    <3> QED
      BY <1>1, <3>1, <3>2 DEF HandOff, TypedInv, workers
  <2>3. CASE AddressesOf[height] # {}
    <3>1. /\ AddressesOf[height] \in SUBSET Address
          /\ ChunksCount(Cardinality(AddressesOf[height]), AddrChunkSize) \in Nat
      BY <2>1, ChunkCountType, ParametersAssumption
    <3>2. /\ serving = 0 /\ serving' = height /\ unsent' = AddressesOf[height]
          /\ wg' = wg + ChunksCount(Cardinality(AddressesOf[height]), AddrChunkSize)
          /\ UNCHANGED <<chGet, fetching, chUpdate, updating>>
      BY <1>1, <2>3 DEF HandOff, workers
    <3>3. TypeOK' /\ Shape'
      <4>1. /\ pc' = "coins" /\ height <= MaxHeight /\ wg' \in Nat /\ serving' \in 0 .. MaxHeight
            /\ UNCHANGED <<balances, coins, height, resumed, spoiled, faults>>
        BY <1>1, <2>1, <3>1, <3>2 DEF HandOff, Height
      <4> QED
        BY <3>1, <3>2, <4>1 DEF TypedInv, TypeOK, Shape
    <3>4. Counted'
      <4>1. Unsent' \in Nat /\ wg' = wg + Unsent'
        BY <3>1, <3>2 DEF Unsent
      <4>2. Fetching' = Fetching /\ Updating' = Updating /\ Fetching + Updating = 0
        BY <3>2 DEF Fetching, Updating, TypedInv, Counted
      <4>3. serving' # 0
        BY <2>1, <3>2 DEF Height
      <4> QED
        BY <4>1, <4>2, <4>3 DEF Counted
    <3> QED
      BY <3>2, <3>3, <3>4 DEF TypedInv
  <2> QED
    BY <2>2, <2>3
<1>2. CASE CreateNewCoins
  <2>1. height \in Height
    BY <1>2 DEF CreateNewCoins, TypedInv, TypeOK, Shape, Height
  <2>2. TypeOK' /\ Shape'
    BY <1>2, <2>1, ParametersAssumption
       DEF CreateNewCoins, TypedInv, TypeOK, Shape, Height, service, workers
  <2>3. Counted'
    BY <1>2 DEF CreateNewCoins, TypedInv, Counted, Unsent, Fetching, Updating, service, workers
  <2> QED
    BY <1>2, <2>2, <2>3 DEF CreateNewCoins, TypedInv, workers
<1> QED
  BY <1>1, <1>2 DEF Run

\* The service.
LEMMA ServiceTyped ==
  ASSUME TypedInv, Service
  PROVE  TypedInv'
<1> USE Numbers
<1>1. CASE SendChunk
  <2>1. PICK S \in SUBSET unsent :
          /\ S # {} /\ Cardinality(S) <= AddrChunkSize
          /\ Cardinality(S) < AddrChunkSize => S = unsent
          /\ chGet' = Append(chGet, Job("fetch", serving, S, NoBalances, NoBalances))
          /\ unsent' = unsent \ S
    BY <1>1 DEF SendChunk
  <2>2. /\ UNCHANGED <<balances, coins, pc, height, serving, wg, fetching, chUpdate, updating,
                       resumed, spoiled, faults>>
        /\ unsent # {}
    BY <1>1 DEF SendChunk
  <2>3. unsent \in SUBSET Address /\ S \in SUBSET Address /\ serving \in Height
    BY <2>1, <2>2 DEF TypedInv, TypeOK, Counted, Height
  <2>4. Job("fetch", serving, S, NoBalances, NoBalances) \in JobType
    BY <2>3, JobTyped, NoBalancesTyped DEF JobAt
  <2>5. chGet' \in Seq(JobType) /\ Len(chGet') = Len(chGet) + 1
    BY <2>1, <2>4 DEF TypedInv, TypeOK
  <2>6. Unsent = Unsent' + 1
    BY <2>1, <2>3, OneChunkLess DEF Unsent
  <2>7. Unsent' \in Nat
    BY <2>1, <2>3, ChunkCountType DEF Unsent
  <2>8. TypeOK' /\ Shape'
    BY <2>1, <2>2, <2>3, <2>5 DEF TypedInv, TypeOK, Shape
  <2>9. Counted'
    <3>1. Fetching' = Fetching + 1 /\ Updating' = Updating
      BY <2>2, <2>5 DEF Fetching, Updating
    <3>2. serving' # 0
      BY <2>2, <2>3 DEF Height
    <3> QED
      BY <2>2, <2>6, <2>7, <3>1, <3>2, CountedFacts DEF Counted
  <2> QED
    BY <2>2, <2>8, <2>9 DEF TypedInv
<1>2. CASE Wait
  <2>1. Fetching = 0 /\ Updating = 0
    BY <1>2 DEF Wait, TypedInv, Counted
  <2>2. TypeOK' /\ Shape'
    BY <1>2 DEF Wait, TypedInv, TypeOK, Shape, workers
  <2>3. Fetching' = Fetching /\ Updating' = Updating
    BY <1>2 DEF Wait, workers, Fetching, Updating
  <2>4. Counted'
    BY <1>2, <2>1, <2>3 DEF Wait, TypedInv, Counted, Unsent
  <2> QED
    BY <1>2, <2>2, <2>4 DEF Wait, TypedInv, workers
<1> QED
  BY <1>1, <1>2 DEF Service

\* A step of a worker takes no more from the wait group than from the jobs.
LEMMA WorkerCounted ==
  ASSUME TypedInv, UNCHANGED <<serving, unsent>>,
         wg' \in Nat, Fetching' \in Nat, Updating' \in Nat,
         wg' - (Fetching' + Updating') >= wg - (Fetching + Updating),
         Fetching' + Updating' <= Fetching + Updating
  PROVE  Counted'
<1> DEFINE f  == Fetching
           f1 == Fetching'
           u  == Updating
           u1 == Updating'
           n  == Unsent
           w  == wg
           w1 == wg'
<1>1. /\ w \in Nat /\ w1 \in Nat /\ f \in Nat /\ f1 \in Nat /\ u \in Nat /\ u1 \in Nat /\ n \in Nat
      /\ w >= n + f + u /\ w1 - (f1 + u1) >= w - (f + u) /\ f1 + u1 <= f + u
  BY Numbers, CountedFacts
<1>2. Unsent' = Unsent
  BY DEF Unsent
<1> HIDE DEF f, f1, u, u1, n, w, w1
<1>3. w1 >= n + f1 + u1
  BY <1>1
<1>4. f + u = 0 => f1 + u1 = 0
  BY <1>1
<1> QED
  BY <1>2, <1>3, <1>4, CountedFacts DEF Counted, n, f, f1, u, u1, w1

\* A step of a worker that leaves the rest alone and the jobs no more than the
\* wait group counts.
LEMMA WorkerTyped ==
  ASSUME TypedInv, UNCHANGED <<pc, height, serving, unsent, coins, resumed>>,
         balances' \in Table, wg' \in Nat,
         chGet' \in Seq(JobType), fetching' \subseteq JobType, IsFiniteSet(fetching'),
         chUpdate' \in Seq(JobType), updating' \subseteq JobType, IsFiniteSet(updating'),
         spoiled' \subseteq Height, faults' \in 0 .. MaxFaults,
         wg' - (Fetching' + Updating') >= wg - (Fetching + Updating),
         Fetching' + Updating' <= Fetching + Updating
  PROVE  TypedInv'
<1>1. TypeOK' /\ Shape'
  BY DEF TypedInv, TypeOK, Shape
<1>2. Fetching' \in Nat /\ Updating' \in Nat
  BY FS_CardinalityType DEF Fetching, Updating
<1>3. Counted'
  BY <1>2, WorkerCounted
<1> QED
  BY <1>1, <1>3 DEF TypedInv

\* A job moves within the fetch workers or the update workers.
LEMMA FetchingMoves ==
  ASSUME TypedInv, NEW j \in fetching, NEW k \in JobType,
         fetching' = (fetching \ {j}) \cup {k},
         UNCHANGED <<balances, coins, pc, height, service, chGet, chUpdate, updating, resumed>>,
         spoiled' \subseteq Height, faults' \in 0 .. MaxFaults
  PROVE  TypedInv'
<1>1. /\ IsFiniteSet(fetching') /\ Cardinality(fetching') \in Nat
      /\ Cardinality(fetching') <= Cardinality(fetching)
  BY Replace DEF TypedInv
<1>2. Fetching' <= Fetching /\ Updating' = Updating /\ Fetching' \in Nat
  BY <1>1, Numbers DEF Fetching, Updating
<1>3. /\ wg' - (Fetching' + Updating') >= wg - (Fetching + Updating)
      /\ Fetching' + Updating' <= Fetching + Updating
  BY <1>2, Numbers DEF service
<1> QED
  BY <1>1, <1>3, WorkerTyped DEF TypedInv, TypeOK, Shape, service

LEMMA UpdatingMoves ==
  ASSUME TypedInv, NEW j \in updating, NEW k \in JobType,
         updating' = (updating \ {j}) \cup {k}, balances' \in Table,
         UNCHANGED <<coins, pc, height, service, chGet, fetching, chUpdate, resumed,
                     spoiled, faults>>
  PROVE  TypedInv'
<1>1. /\ IsFiniteSet(updating') /\ Cardinality(updating') \in Nat
      /\ Cardinality(updating') <= Cardinality(updating)
  BY Replace DEF TypedInv
<1>2. Updating' <= Updating /\ Fetching' = Fetching /\ Updating' \in Nat
  BY <1>1, Numbers DEF Fetching, Updating
<1>3. /\ wg' - (Fetching' + Updating') >= wg - (Fetching + Updating)
      /\ Fetching' + Updating' <= Fetching + Updating
  BY <1>2, Numbers DEF service
<1> QED
  BY <1>1, <1>3, WorkerTyped DEF TypedInv, TypeOK, Shape, service

\* The deferred Done ends one job that the wait group counts.
LEMMA UpdatingEnds ==
  ASSUME TypedInv, NEW j \in updating, updating' = updating \ {j}, wg' = wg - 1,
         balances' \in Table, spoiled' \subseteq Height, faults' \in 0 .. MaxFaults,
         UNCHANGED <<coins, pc, height, serving, unsent, chGet, fetching, chUpdate, resumed>>
  PROVE  TypedInv'
<1>1. /\ IsFiniteSet(updating') /\ Cardinality(updating') \in Nat
      /\ Cardinality(updating') = Cardinality(updating) - 1
  BY Replace DEF TypedInv
<1>2. Updating' = Updating - 1 /\ Updating' \in Nat /\ Fetching' = Fetching
  <2>1. Fetching' = Fetching
    BY DEF Fetching
  <2>2. Updating' = Updating - 1 /\ Updating' \in Nat
    BY <1>1, Numbers DEF Updating
  <2> QED
    BY <2>1, <2>2
<1>3. wg' \in Nat
  BY <1>2, Numbers, CountedFacts
<1>4. /\ wg' - (Fetching' + Updating') >= wg - (Fetching + Updating)
      /\ Fetching' + Updating' <= Fetching + Updating
  BY <1>2, Numbers
<1> QED
  BY <1>1, <1>3, <1>4, WorkerTyped DEF TypedInv, TypeOK, Shape

\* The fetch workers.
LEMMA FetchWorkerTyped ==
  ASSUME TypedInv, FetchWorker \/ \E j \in fetching : FetchEmpty(j) \/ FetchFails(j)
  PROVE  TypedInv'
<1>1. fetching \subseteq JobType /\ MaxFaults \in Nat /\ faults \in 0 .. MaxFaults
      /\ spoiled \subseteq Height
  BY ParametersAssumption DEF TypedInv, TypeOK
<1>2. CASE TakeGet
  <2>1. /\ Head(chGet) \in JobType /\ chGet' = Tail(chGet) /\ Tail(chGet) \in Seq(JobType)
        /\ Len(Tail(chGet)) = Len(chGet) - 1
        /\ fetching' = fetching \cup {Head(chGet)}
    BY <1>2 DEF TakeGet, TypedInv, TypeOK
  <2>2. /\ IsFiniteSet(fetching') /\ Cardinality(fetching') <= Cardinality(fetching) + 1
        /\ Cardinality(fetching') \in Nat
    BY <2>1, AddOne DEF TypedInv
  <2>3. UNCHANGED <<balances, coins, pc, height, service, chUpdate, updating, resumed, spoiled, faults>>
    BY <1>2 DEF TakeGet
  <2>4. Fetching' <= Fetching /\ Fetching' \in Nat /\ Updating' = Updating
    BY <2>1, <2>2, <2>3, Numbers DEF Fetching, Updating
  <2>5. /\ wg' - (Fetching' + Updating') >= wg - (Fetching + Updating)
        /\ Fetching' + Updating' <= Fetching + Updating
    BY <2>3, <2>4, Numbers DEF service
  <2> QED
    BY <1>1, <2>1, <2>2, <2>3, <2>5, WorkerTyped DEF TypedInv, TypeOK, service
<1>3. ASSUME NEW j \in fetching, Fetch(j) PROVE TypedInv'
  <2>1. Job("send", j.height, j.of, Answer(j), NoBalances) \in JobType
    BY <1>1, AnswerTyped, NoBalancesTyped, JobTyped DEF JobAt, JobType
  <2> QED
    BY <1>1, <1>3, <2>1, FetchingMoves DEF Fetch
<1>4. ASSUME NEW j \in fetching, FetchEmpty(j) PROVE TypedInv'
  <2>1. Job("send", j.height, j.of, NoBalances, NoBalances) \in JobType /\ j.height \in Height
    BY <1>1, NoBalancesTyped, JobTyped DEF JobAt, JobType
  <2>2. spoiled' \subseteq Height /\ faults' \in 0 .. MaxFaults
    BY <1>1, <1>4, <2>1 DEF FetchEmpty
  <2> QED
    BY <1>4, <2>1, <2>2, FetchingMoves DEF FetchEmpty
<1>5. ASSUME NEW j \in fetching, FetchFails(j) PROVE TypedInv'
  <2>1. /\ fetching' = fetching \ {j} /\ faults' \in 0 .. MaxFaults
        /\ UNCHANGED <<balances, coins, pc, height, service, chGet, chUpdate, updating, resumed, spoiled>>
    BY <1>1, <1>5 DEF FetchFails
  <2>2. /\ IsFiniteSet(fetching') /\ Cardinality(fetching') \in Nat
        /\ Cardinality(fetching') = Cardinality(fetching) - 1
    BY <2>1, Replace DEF TypedInv
  <2>3. Fetching' = Fetching - 1 /\ Fetching' \in Nat /\ Updating' = Updating
    BY <2>1, <2>2, Numbers DEF Fetching, Updating
  <2>4. /\ wg' - (Fetching' + Updating') >= wg - (Fetching + Updating)
        /\ Fetching' + Updating' <= Fetching + Updating
    BY <2>1, <2>3, Numbers DEF service
  <2> QED
    BY <1>1, <2>1, <2>2, <2>4, WorkerTyped DEF TypedInv, TypeOK, service
<1>6. ASSUME NEW j \in fetching, SendResult(j) PROVE TypedInv'
  <2>1. j \in JobType
    BY <1>1
  <2>2. [j EXCEPT !.at = "read"] \in JobType
    BY <2>1 DEF JobType
  <2>3. /\ fetching' = fetching \ {j} /\ chUpdate' = Append(chUpdate, [j EXCEPT !.at = "read"])
        /\ UNCHANGED <<balances, coins, pc, height, service, chGet, updating, resumed, spoiled, faults>>
    BY <1>6 DEF SendResult
  <2>4. chUpdate' \in Seq(JobType) /\ Len(chUpdate') = Len(chUpdate) + 1
    BY <2>2, <2>3 DEF TypedInv, TypeOK
  <2>5. /\ IsFiniteSet(fetching') /\ Cardinality(fetching') \in Nat
        /\ Cardinality(fetching') = Cardinality(fetching) - 1
    BY <2>3, Replace DEF TypedInv
  <2>6. Fetching' = Fetching - 1 /\ Fetching' \in Nat /\ Updating' = Updating + 1
    <3>1. chGet' = chGet /\ updating' = updating
      BY <2>3
    <3>2. Fetching' = Fetching - 1 /\ Fetching' \in Nat
      BY <2>5, <3>1, Numbers DEF Fetching
    <3>3. Updating' = Updating + 1
      BY <2>4, <3>1, Numbers DEF Updating
    <3> QED
      BY <3>2, <3>3
  <2>7. /\ wg' - (Fetching' + Updating') >= wg - (Fetching + Updating)
        /\ Fetching' + Updating' <= Fetching + Updating
    BY <2>3, <2>6, Numbers DEF service
  <2> QED
    BY <1>1, <2>3, <2>4, <2>5, <2>7, WorkerTyped DEF TypedInv, TypeOK, service
<1> QED
  BY <1>2, <1>3, <1>4, <1>5, <1>6 DEF FetchWorker

\* The update workers.
LEMMA UpdateWorkerTyped ==
  ASSUME TypedInv, UpdateWorker \/ \E j \in updating : WriteFails(j)
  PROVE  TypedInv'
<1>1. updating \subseteq JobType /\ balances \in Table /\ MaxFaults \in Nat
      /\ faults \in 0 .. MaxFaults /\ spoiled \subseteq Height
  BY ParametersAssumption DEF TypedInv, TypeOK
<1>2. CASE TakeUpdate
  <2>1. /\ Head(chUpdate) \in JobType /\ chUpdate' = Tail(chUpdate) /\ Tail(chUpdate) \in Seq(JobType)
        /\ Len(Tail(chUpdate)) = Len(chUpdate) - 1
        /\ updating' = updating \cup {Head(chUpdate)}
    BY <1>2 DEF TakeUpdate, TypedInv, TypeOK
  <2>2. /\ IsFiniteSet(updating') /\ Cardinality(updating') <= Cardinality(updating) + 1
        /\ Cardinality(updating') \in Nat
    BY <2>1, AddOne DEF TypedInv
  <2>3. UNCHANGED <<balances, coins, pc, height, service, chGet, fetching, resumed, spoiled, faults>>
    BY <1>2 DEF TakeUpdate
  <2>4. Updating' <= Updating /\ Updating' \in Nat /\ Fetching' = Fetching
    BY <2>1, <2>2, <2>3, Numbers DEF Fetching, Updating
  <2>5. /\ wg' - (Fetching' + Updating') >= wg - (Fetching + Updating)
        /\ Fetching' + Updating' <= Fetching + Updating
    BY <2>3, <2>4, Numbers DEF service
  <2> QED
    BY <1>1, <2>1, <2>2, <2>3, <2>5, WorkerTyped DEF TypedInv, TypeOK, service
<1>3. ASSUME NEW j \in updating, ReadBalances(j) PROVE TypedInv'
  <2> DEFINE held == [a \in Address |-> IF a \in j.of THEN balances[a] ELSE NoBalances[a]]
  <2>1. held \in Table
    BY <1>1, NoBalancesTyped DEF Table
  <2> HIDE DEF held
  <2>2. Job("create", j.height, j.of, j.node, held) \in JobType
    BY <1>1, <2>1, JobTyped DEF JobAt, Statement, JobType
  <2>3. updating' = (updating \ {j}) \cup {Job("create", j.height, j.of, j.node, held)}
    BY <1>3 DEF ReadBalances, held
  <2> QED
    BY <1>1, <1>3, <2>2, <2>3, UpdatingMoves DEF ReadBalances
<1>4. ASSUME NEW j \in updating, Write(j) PROVE TypedInv'
  <2>1. j \in JobType /\ balances' \in Table
    BY <1>1, <1>4, WrittenTyped DEF Write
  <2>2. CASE j.at = "delete"
    BY <1>1, <1>4, <2>1, <2>2, UpdatingEnds DEF Write
  <2>3. CASE j.at # "delete"
    <3>1. After[j.at] \in Statement
      BY <1>4, <2>3 DEF Write, After, Statement
    <3>2. [j EXCEPT !.at = After[j.at]] \in JobType
      BY <2>1, <3>1 DEF JobType
    <3> QED
      BY <1>4, <2>1, <2>3, <3>2, UpdatingMoves DEF Write, service
  <2> QED
    BY <2>2, <2>3
<1>5. ASSUME NEW j \in updating, WriteFails(j) PROVE TypedInv'
  <2>1. j.height \in Height
    BY <1>1 DEF JobType
  <2>2. spoiled' \subseteq Height /\ faults' \in 0 .. MaxFaults
    BY <1>1, <1>5, <2>1 DEF WriteFails
  <2> QED
    BY <1>1, <1>5, <2>2, UpdatingEnds DEF WriteFails
<1> QED
  BY <1>2, <1>3, <1>4, <1>5 DEF UpdateWorker

LEMMA NextTyped == TypedInv /\ [Next]_vars => TypedInv'
<1> SUFFICES ASSUME TypedInv, [Next]_vars PROVE TypedInv'
  OBVIOUS
<1>1. CASE Crash
  <2>1. IsFiniteSet({}) /\ Cardinality({}) = 0
    BY FS_EmptySet
  <2>2. ChunksCount(0, AddrChunkSize) = 0
    BY ParametersAssumption DEF ChunksCount
  <2>3. TypeOK'
    BY <1>1, ParametersAssumption DEF Crash, TypedInv, TypeOK
  <2>4. Counted'
    BY <1>1, <2>1, <2>2 DEF Crash, Counted, Unsent, Fetching, Updating
  <2> QED
    BY <1>1, <2>1, <2>3, <2>4 DEF Crash, TypedInv, Shape
<1>2. CASE Restart
  <2>1. UNCHANGED <<balances, coins, serving, unsent, wg, chGet, fetching, chUpdate, updating, faults>>
    BY <1>2 DEF Restart, service, workers
  <2>2. TypeOK' /\ Shape'
    BY <1>2, <2>1, ParametersAssumption DEF Restart, TypedInv, TypeOK, Shape
  <2>3. Counted'
    BY <2>1 DEF TypedInv, Counted, Unsent, Fetching, Updating
  <2> QED
    BY <2>1, <2>2, <2>3 DEF TypedInv
<1>3. CASE UNCHANGED vars
  BY <1>3 DEF vars, service, workers, TypedInv, TypeOK, Counted, Shape, Unsent, Fetching, Updating
<1> QED
  BY <1>1, <1>2, <1>3, RunTyped, ServiceTyped, FetchWorkerTyped, UpdateWorkerTyped DEF Next

\* Every variable keeps its type; that the wait group is never released below zero
\* is what needs the count.
THEOREM TypeCorrect == Spec => []TypeOK
<1>1. TypedInv => TypeOK
  BY DEF TypedInv
<1> QED
  BY <1>1, InitTyped, NextTyped, PTL DEF Spec

\* The service takes the next block only when no job is under way, whatever
\* requests and statements fail and whenever the process dies.
THEOREM NoJobOutlivesTheWait == Spec => []WaitCoversJobs
<1>1. TypedInv => WaitCoversJobs
  <2> SUFFICES ASSUME TypedInv PROVE WaitCoversJobs
    OBVIOUS
  <2> QED
    BY Numbers, CountedFacts DEF WaitCoversJobs
<1> QED
  BY <1>1, InitTyped, NextTyped, PTL DEF Spec

-----------------------------------------------------------------------------
\* Where an address is: unsent, or in a job in one of two channels or in the
\* hands of one of two kinds of workers.

InQueue(q, a) == \E n \in 1 .. Len(q) : a \in q[n].of
InPool(S, a)  == \E j \in S : a \in j.of
OneInQueue(q, a) == \A m, n \in 1 .. Len(q) : a \in q[m].of /\ a \in q[n].of => m = n
OneInPool(S, a)  == \A j, k \in S : a \in j.of /\ a \in k.of => j = k

\* No two jobs have an address in common, and none has an unsent one.
Alone(a) ==
  /\ OneInQueue(chGet, a) /\ OneInPool(fetching, a)
  /\ OneInQueue(chUpdate, a) /\ OneInPool(updating, a)
  /\ a \in unsent => /\ ~InQueue(chGet, a) /\ ~InPool(fetching, a)
                     /\ ~InQueue(chUpdate, a) /\ ~InPool(updating, a)
  /\ InQueue(chGet, a) => /\ ~InPool(fetching, a)
                          /\ ~InQueue(chUpdate, a) /\ ~InPool(updating, a)
  /\ InPool(fetching, a) => ~InQueue(chUpdate, a) /\ ~InPool(updating, a)
  /\ ~(InQueue(chUpdate, a) /\ InPool(updating, a))

Underway(a) ==
  \/ a \in unsent
  \/ InQueue(chGet, a) \/ InPool(fetching, a) \/ InQueue(chUpdate, a) \/ InPool(updating, a)

\* A send puts the addresses of its job into the queue.
LEMMA QueueGrows ==
  ASSUME NEW q \in Seq(JobType), NEW j \in JobType
  PROVE  /\ \A a : InQueue(Append(q, j), a) <=> InQueue(q, a) \/ a \in j.of
         /\ \A a : OneInQueue(q, a) /\ ~(a \in j.of /\ InQueue(q, a)) => OneInQueue(Append(q, j), a)
         /\ \A n \in 1 .. Len(Append(q, j)) :
              Append(q, j)[n] = j \/ \E m \in 1 .. Len(q) : Append(q, j)[n] = q[m]
<1>1. /\ Len(Append(q, j)) = Len(q) + 1 /\ Len(q) \in Nat
      /\ \A n \in 1 .. Len(q) : Append(q, j)[n] = q[n]
      /\ Append(q, j)[Len(q) + 1] = j
  OBVIOUS
<1>2. 1 .. Len(Append(q, j)) = (1 .. Len(q)) \cup {Len(q) + 1} /\ Len(q) + 1 \notin 1 .. Len(q)
  BY <1>1
<1>3. \A a : InQueue(Append(q, j), a) <=> InQueue(q, a) \/ a \in j.of
  BY <1>1, <1>2 DEF InQueue
<1>4. ASSUME NEW a, OneInQueue(q, a), ~(a \in j.of /\ InQueue(q, a))
      PROVE  OneInQueue(Append(q, j), a)
  BY <1>1, <1>2, <1>4 DEF OneInQueue, InQueue
<1> QED
  BY <1>1, <1>2, <1>3, <1>4

\* A receive takes the first job.
LEMMA QueueShrinks ==
  ASSUME NEW q \in Seq(JobType), q # <<>>
  PROVE  /\ Head(q) \in JobType /\ Head(q) = q[1] /\ 1 \in 1 .. Len(q)
         /\ \A a : InQueue(q, a) <=> InQueue(Tail(q), a) \/ a \in Head(q).of
         /\ \A a : OneInQueue(q, a) =>
              OneInQueue(Tail(q), a) /\ ~(a \in Head(q).of /\ InQueue(Tail(q), a))
         /\ \A n \in 1 .. Len(Tail(q)) : \E m \in 1 .. Len(q) : Tail(q)[n] = q[m]
<1>1. /\ Len(q) \in Nat /\ Len(q) > 0 /\ Len(Tail(q)) = Len(q) - 1
      /\ Head(q) = q[1] /\ Head(q) \in JobType
      /\ \A n \in 1 .. Len(q) - 1 : Tail(q)[n] = q[n + 1]
  OBVIOUS
<1>2. /\ \A n \in 1 .. Len(Tail(q)) : n + 1 \in 1 .. Len(q) /\ Tail(q)[n] = q[n + 1] /\ n + 1 # 1
      /\ \A m \in 1 .. Len(q) : m = 1 \/ (m - 1 \in 1 .. Len(Tail(q)) /\ q[m] = Tail(q)[m - 1])
  BY <1>1
<1>3. \A a : InQueue(q, a) <=> InQueue(Tail(q), a) \/ a \in Head(q).of
  <2> SUFFICES ASSUME NEW a PROVE InQueue(q, a) <=> InQueue(Tail(q), a) \/ a \in Head(q).of
    OBVIOUS
  <2>1. ASSUME InQueue(q, a) PROVE InQueue(Tail(q), a) \/ a \in Head(q).of
    <3>1. PICK m \in 1 .. Len(q) : a \in q[m].of
      BY <2>1 DEF InQueue
    <3> QED
      BY <1>1, <1>2, <3>1 DEF InQueue
  <2>2. ASSUME InQueue(Tail(q), a) PROVE InQueue(q, a)
    <3>1. PICK n \in 1 .. Len(Tail(q)) : a \in Tail(q)[n].of
      BY <2>2 DEF InQueue
    <3>2. n + 1 \in 1 .. Len(q) /\ a \in q[n + 1].of
      BY <1>2, <3>1
    <3> QED
      BY <3>2 DEF InQueue
  <2>3. ASSUME a \in Head(q).of PROVE InQueue(q, a)
    BY <1>1, <2>3 DEF InQueue
  <2> QED
    BY <2>1, <2>2, <2>3
<1>4. ASSUME NEW a, OneInQueue(q, a)
      PROVE  OneInQueue(Tail(q), a) /\ ~(a \in Head(q).of /\ InQueue(Tail(q), a))
  <2>1. ASSUME NEW m \in 1 .. Len(Tail(q)), NEW n \in 1 .. Len(Tail(q)),
               a \in Tail(q)[m].of, a \in Tail(q)[n].of
        PROVE  m = n
    <3>1. m + 1 \in 1 .. Len(q) /\ n + 1 \in 1 .. Len(q) /\ a \in q[m + 1].of /\ a \in q[n + 1].of
      BY <1>2, <2>1
    <3>2. m + 1 = n + 1
      BY <1>4, <3>1 DEF OneInQueue
    <3> QED
      BY <3>2
  <2>2. ASSUME a \in Head(q).of, NEW n \in 1 .. Len(Tail(q)), a \in Tail(q)[n].of PROVE FALSE
    <3>1. n + 1 \in 1 .. Len(q) /\ a \in q[n + 1].of /\ 1 \in 1 .. Len(q) /\ a \in q[1].of
      BY <1>1, <1>2, <2>2
    <3>2. n + 1 = 1
      BY <1>4, <3>1 DEF OneInQueue
    <3> QED
      BY <3>2
  <2> QED
    BY <2>1, <2>2 DEF OneInQueue, InQueue
<1> QED
  BY <1>1, <1>2, <1>3, <1>4

\* Workers take a job, go on to its next step and end it.
LEMMA PoolChanges ==
  ASSUME NEW S, NEW k
  PROVE  /\ \A a : InPool(S \cup {k}, a) <=> InPool(S, a) \/ a \in k.of
         /\ \A a : OneInPool(S, a) /\ ~(a \in k.of /\ InPool(S, a)) => OneInPool(S \cup {k}, a)
         /\ \A j \in S : j.of = k.of =>
              \A a : /\ InPool((S \ {j}) \cup {k}, a) <=> InPool(S, a)
                     /\ OneInPool(S, a) => OneInPool((S \ {j}) \cup {k}, a)
         /\ \A j \in S : \A a : OneInPool(S, a) =>
              /\ OneInPool(S \ {j}, a) /\ ~(a \in j.of /\ InPool(S \ {j}, a))
              /\ InPool(S, a) <=> InPool(S \ {j}, a) \/ a \in j.of
BY DEF InPool, OneInPool

AllAlone == \A a \in Address : Alone(a)

\* The service hands a job to the fetch workers.
LEMMA SendChunkPlaces ==
  ASSUME TypedInv, AllAlone, SendChunk
  PROVE  AllAlone' /\ \A a \in Address : Underway(a)' <=> Underway(a)
<1>1. PICK S \in SUBSET unsent :
        /\ chGet' = Append(chGet, Job("fetch", serving, S, NoBalances, NoBalances))
        /\ unsent' = unsent \ S
  BY DEF SendChunk
<1> DEFINE k == Job("fetch", serving, S, NoBalances, NoBalances)
<1>2. k \in JobType /\ k.of = S /\ chGet \in Seq(JobType)
  <2>1. S \in SUBSET Address /\ serving \in Height /\ "fetch" \in JobAt
    BY DEF SendChunk, TypedInv, TypeOK, Counted, Height, JobAt
  <2> QED
    BY <2>1, JobTyped, NoBalancesTyped DEF Job, TypedInv, TypeOK
<1>3. UNCHANGED <<fetching, chUpdate, updating>>
  BY DEF SendChunk
<1> HIDE DEF k
<1>4. ASSUME NEW a \in Address PROVE Alone(a)' /\ (Underway(a)' <=> Underway(a))
  <2>1. Alone(a)
    BY DEF AllAlone
  <2>2. /\ InQueue(chGet', a) <=> InQueue(chGet, a) \/ a \in S
        /\ OneInQueue(chGet, a) /\ ~(a \in S /\ InQueue(chGet, a)) => OneInQueue(chGet', a)
    BY <1>1, <1>2, QueueGrows DEF k
  <2> QED
    BY <1>1, <1>3, <2>1, <2>2 DEF Alone, Underway, InPool, OneInPool, InQueue, OneInQueue
<1> QED
  BY <1>4 DEF AllAlone

LEMMA TakeGetPlaces ==
  ASSUME TypedInv, AllAlone, TakeGet
  PROVE  AllAlone' /\ \A a \in Address : Underway(a)' <=> Underway(a)
<1>1. /\ chGet # <<>> /\ chGet \in Seq(JobType)
      /\ fetching' = fetching \cup {Head(chGet)} /\ chGet' = Tail(chGet)
      /\ UNCHANGED <<unsent, chUpdate, updating>>
  BY DEF TakeGet, service, TypedInv, TypeOK
<1>2. ASSUME NEW a \in Address PROVE Alone(a)' /\ (Underway(a)' <=> Underway(a))
  <2>1. Alone(a)
    BY DEF AllAlone
  <2>2. /\ InQueue(chGet, a) <=> InQueue(chGet', a) \/ a \in Head(chGet).of
        /\ OneInQueue(chGet, a) =>
             OneInQueue(chGet', a) /\ ~(a \in Head(chGet).of /\ InQueue(chGet', a))
    BY <1>1, QueueShrinks
  <2>3. /\ InPool(fetching', a) <=> InPool(fetching, a) \/ a \in Head(chGet).of
        /\ OneInPool(fetching, a) /\ ~(a \in Head(chGet).of /\ InPool(fetching, a))
             => OneInPool(fetching', a)
    BY <1>1, PoolChanges
  <2> QED
    BY <1>1, <2>1, <2>2, <2>3 DEF Alone, Underway
<1> QED
  BY <1>2 DEF AllAlone

LEMMA TakeUpdatePlaces ==
  ASSUME TypedInv, AllAlone, TakeUpdate
  PROVE  AllAlone' /\ \A a \in Address : Underway(a)' <=> Underway(a)
<1>1. /\ chUpdate # <<>> /\ chUpdate \in Seq(JobType)
      /\ updating' = updating \cup {Head(chUpdate)} /\ chUpdate' = Tail(chUpdate)
      /\ UNCHANGED <<unsent, chGet, fetching>>
  BY DEF TakeUpdate, service, TypedInv, TypeOK
<1>2. ASSUME NEW a \in Address PROVE Alone(a)' /\ (Underway(a)' <=> Underway(a))
  <2>1. Alone(a)
    BY DEF AllAlone
  <2>2. /\ InQueue(chUpdate, a) <=> InQueue(chUpdate', a) \/ a \in Head(chUpdate).of
        /\ OneInQueue(chUpdate, a) =>
             OneInQueue(chUpdate', a) /\ ~(a \in Head(chUpdate).of /\ InQueue(chUpdate', a))
    BY <1>1, QueueShrinks
  <2>3. /\ InPool(updating', a) <=> InPool(updating, a) \/ a \in Head(chUpdate).of
        /\ OneInPool(updating, a) /\ ~(a \in Head(chUpdate).of /\ InPool(updating, a))
             => OneInPool(updating', a)
    BY <1>1, PoolChanges
  <2> QED
    BY <1>1, <2>1, <2>2, <2>3 DEF Alone, Underway
<1> QED
  BY <1>2 DEF AllAlone

\* A fetch worker hands its job to the update workers.
LEMMA SendResultPlaces ==
  ASSUME TypedInv, AllAlone, NEW j \in fetching, SendResult(j)
  PROVE  AllAlone' /\ \A a \in Address : Underway(a)' <=> Underway(a)
<1> DEFINE k == [j EXCEPT !.at = "read"]
<1>1. /\ fetching' = fetching \ {j} /\ chUpdate' = Append(chUpdate, k)
      /\ UNCHANGED <<unsent, chGet, updating>>
  BY DEF SendResult, service
<1>2. chUpdate \in Seq(JobType) /\ k \in JobType /\ k.of = j.of
  BY DEF TypedInv, TypeOK, JobType
<1> HIDE DEF k
<1>3. ASSUME NEW a \in Address PROVE Alone(a)' /\ (Underway(a)' <=> Underway(a))
  <2>1. Alone(a)
    BY DEF AllAlone
  <2>2. /\ InQueue(chUpdate', a) <=> InQueue(chUpdate, a) \/ a \in j.of
        /\ OneInQueue(chUpdate, a) /\ ~(a \in j.of /\ InQueue(chUpdate, a)) => OneInQueue(chUpdate', a)
    BY <1>1, <1>2, QueueGrows
  <2>3. OneInPool(fetching, a) =>
          /\ OneInPool(fetching', a) /\ ~(a \in j.of /\ InPool(fetching', a))
          /\ InPool(fetching, a) <=> InPool(fetching', a) \/ a \in j.of
    BY <1>1, PoolChanges
  <2> QED
    BY <1>1, <2>1, <2>2, <2>3 DEF Alone, Underway
<1> QED
  BY <1>3 DEF AllAlone

\* A job goes on to its next step.
LEMMA StepPlaces ==
  ASSUME AllAlone, UNCHANGED <<unsent, chGet, chUpdate>>, NEW j, NEW k, k.of = j.of,
         \/ j \in fetching /\ fetching' = (fetching \ {j}) \cup {k} /\ UNCHANGED updating
         \/ j \in updating /\ updating' = (updating \ {j}) \cup {k} /\ UNCHANGED fetching
  PROVE  AllAlone' /\ \A a \in Address : Underway(a)' <=> Underway(a)
<1>1. ASSUME NEW a \in Address PROVE Alone(a)' /\ (Underway(a)' <=> Underway(a))
  <2>1. Alone(a)
    BY DEF AllAlone
  <2>2. /\ InPool(fetching', a) <=> InPool(fetching, a)
        /\ OneInPool(fetching, a) => OneInPool(fetching', a)
    <3>1. CASE UNCHANGED fetching
      BY <3>1
    <3>2. CASE j \in fetching /\ fetching' = (fetching \ {j}) \cup {k}
      BY <3>2, PoolChanges
    <3> QED
      BY <3>1, <3>2
  <2>3. /\ InPool(updating', a) <=> InPool(updating, a)
        /\ OneInPool(updating, a) => OneInPool(updating', a)
    <3>1. CASE UNCHANGED updating
      BY <3>1
    <3>2. CASE j \in updating /\ updating' = (updating \ {j}) \cup {k}
      BY <3>2, PoolChanges
    <3> QED
      BY <3>1, <3>2
  <2> QED
    BY <2>1, <2>2, <2>3 DEF Alone, Underway
<1> QED
  BY <1>1 DEF AllAlone

\* A job ends, is lost or fails.
LEMMA EndPlaces ==
  ASSUME AllAlone, UNCHANGED <<unsent, chGet, chUpdate>>, NEW j,
         \/ j \in fetching /\ fetching' = fetching \ {j} /\ UNCHANGED updating
         \/ j \in updating /\ updating' = updating \ {j} /\ UNCHANGED fetching
  PROVE  AllAlone' /\ \A a \in Address : Underway(a) => Underway(a)' \/ a \in j.of
<1>1. ASSUME NEW a \in Address PROVE Alone(a)' /\ (Underway(a) => Underway(a)' \/ a \in j.of)
  <2>1. Alone(a)
    BY DEF AllAlone
  <2>2. /\ InPool(fetching', a) => InPool(fetching, a)
        /\ InPool(fetching, a) => InPool(fetching', a) \/ a \in j.of
        /\ OneInPool(fetching', a)
    BY <2>1 DEF InPool, OneInPool, Alone
  <2>3. /\ InPool(updating', a) => InPool(updating, a)
        /\ InPool(updating, a) => InPool(updating', a) \/ a \in j.of
        /\ OneInPool(updating', a)
    BY <2>1 DEF InPool, OneInPool, Alone
  <2> QED
    BY <2>1, <2>2, <2>3 DEF Alone, Underway
<1> QED
  BY <1>1 DEF AllAlone

-----------------------------------------------------------------------------
\* What a job knows.  Its step of the wait group, its place in the service's
\* block and the snapshot it took are what makes three separate statements add
\* up to the node's balances.

\* Run has handed over the addresses of block g.
Handed(g) == g < height \/ (g = height /\ pc = "coins")

\* The balances of an address are those of the node at block h, in all coins
\* but those that block h creates.
Agrees(t, a, h) == \A c \in Coin \ CoinsOf[h] : t[a][c] = BalanceAt[h][a][c]

Fits(j, steps, h) == j.at \in steps /\ j.height = h /\ j.of \subseteq AddressesOf[h]

Informed(j, h, spoilt) ==
  j.at # "fetch" /\ h \notin spoilt => \A a \in j.of : Agrees(j.node, a, h)

\* The balance the table has while the job's statements run: what was read, then
\* with the rows created, then with the rows updated.
Half(j, a, c) ==
  CASE j.at = "create" -> j.db[a][c]
    [] j.at = "update" -> IF j.db[a][c] = 0 THEN j.node[a][c] ELSE j.db[a][c]
    [] j.at = "delete" -> IF j.node[a][c] > 0 THEN j.node[a][c] ELSE j.db[a][c]

InStep(j, t) ==
  j.at \in Statement => \A a \in j.of : \A c \in Coin : t[a][c] = Half(j, a, c)

JobsFit ==
  /\ \A n \in 1 .. Len(chGet) : Fits(chGet[n], {"fetch"}, serving)
  /\ \A j \in fetching : Fits(j, {"fetch", "send"}, serving) /\ Informed(j, serving, spoiled)
  /\ \A n \in 1 .. Len(chUpdate) :
       Fits(chUpdate[n], {"read"}, serving) /\ Informed(chUpdate[n], serving, spoiled)
  /\ \A j \in updating :
       /\ Fits(j, {"read"} \cup Statement, serving)
       /\ Informed(j, serving, spoiled) /\ InStep(j, balances)

\* The service's block is the last one with addresses that was handed over.
ServiceFits ==
  /\ resumed <= height /\ (pc = "down" => serving = 0)
  /\ serving # 0 =>
       /\ Handed(serving) /\ serving >= resumed /\ unsent \subseteq AddressesOf[serving]
       /\ \A g \in Height : Handed(g) /\ g > serving => AddressesOf[g] = {}

\* The coins of all blocks before Run's are in the table.
CoinsKept ==
  GenesisCoins \subseteq coins /\ \A g \in Height : g < height => CoinsOf[g] \subseteq coins

\* As long as the wait group counts exactly, each address of the service's block
\* is under way or has its balances.
Slack == wg - (Unsent + Fetching + Updating)
Exact == Slack = 0

NoneMissed ==
  serving # 0 /\ serving \notin spoiled /\ Exact =>
    \A a \in AddressesOf[serving] : Underway(a) \/ Agrees(balances, a, serving)

\* Each address that was named was named last in one block, and has its balances
\* of that block unless the service works on it.
Latest(a, h) == h \in Named(a) /\ \A g \in Named(a) : g <= h

LatestAgree ==
  Up => \A a \in Address :
    /\ Named(a) = {} \/ \E h \in Named(a) : Latest(a, h)
    /\ \A h \in Named(a) :
         Latest(a, h) /\ h # serving /\ h \notin spoiled => Agrees(balances, a, h)

Faithful == AllAlone /\ JobsFit /\ ServiceFits /\ CoinsKept /\ NoneMissed /\ LatestAgree

LEMMA InitFaithful == Init => Faithful
<1> SUFFICES ASSUME Init PROVE Faithful
  OBVIOUS
<1>1. AllAlone
  BY DEF Init, AllAlone, Alone, InQueue, InPool, OneInQueue, OneInPool
<1>2. JobsFit /\ ServiceFits
  BY DEF Init, JobsFit, ServiceFits
<1>3. CoinsKept
  BY DEF Init, CoinsKept, Height
<1>4. NoneMissed
  BY DEF Init, NoneMissed
<1>5. \A a : Named(a) = {}
  BY DEF Init, Named, Height
<1>6. LatestAgree
  BY <1>5 DEF LatestAgree, Latest
<1> QED
  BY <1>1, <1>2, <1>3, <1>4, <1>6 DEF Faithful

\* What the workers do leaves Run, the service's block and the coins alone.
Frame == UNCHANGED <<coins, pc, height, serving, resumed>> /\ spoiled \subseteq spoiled'

\* No balance of an address without a job changes, so none that is due.
LEMMA LatestKept ==
  ASSUME TypedInv, Faithful, Frame,
         \A a \in Address : balances'[a] = balances[a] \/ (serving # 0 /\ a \in AddressesOf[serving])
  PROVE  LatestAgree'
<1>1. \A a : Named(a)' = Named(a)
  BY DEF Frame, Named
<1>2. ASSUME Up, NEW a \in Address, NEW h \in Named(a), Latest(a, h), h # serving, h \notin spoiled
      PROVE  Agrees(balances', a, h)
  <2>1. Agrees(balances, a, h)
    BY <1>2 DEF Faithful, LatestAgree
  <2>2. CASE balances'[a] = balances[a]
    BY <2>1, <2>2 DEF Agrees
  <2>3. CASE serving # 0 /\ a \in AddressesOf[serving]
    <3>1. /\ Handed(serving) /\ serving >= resumed /\ serving \in Height
          /\ \A g \in Height : Handed(g) /\ g > serving => AddressesOf[g] = {}
      BY <2>3 DEF Faithful, ServiceFits, TypedInv, TypeOK, Height
    <3>2. serving \in Named(a)
      BY <2>3, <3>1 DEF Named, Handed
    <3>3. h >= serving /\ h \in Height /\ Handed(h) /\ a \in AddressesOf[h]
      BY <1>2, <3>1, <3>2 DEF Latest, Named, Handed, Height
    <3>4. h > serving
      BY <1>2, <3>1, <3>3 DEF Height
    <3> QED
      BY <3>1, <3>3, <3>4
  <2> QED
    BY <1>2, <2>2, <2>3
<1>3. ASSUME Up', NEW a \in Address
      PROVE  Named(a) = {} \/ \E h \in Named(a) : Latest(a, h)
  BY <1>3 DEF Frame, Up, Faithful, LatestAgree
<1>4. \A a, h : Latest(a, h)' <=> Latest(a, h)
  BY <1>1 DEF Latest
<1> QED
  BY <1>1, <1>2, <1>3, <1>4 DEF LatestAgree, Frame, Up

LEMMA SlackType ==
  ASSUME TypedInv
  PROVE  Slack \in Nat
BY Numbers, CountedFacts DEF Slack

\* The wait group counts no more than before beyond what it counts.
LEMMA NoneMissedKept ==
  ASSUME TypedInv, Faithful, Frame, serving \in spoiled' \/ Slack' >= Slack,
         serving # 0 /\ serving \notin spoiled' =>
           \A a \in AddressesOf[serving] :
             Underway(a) \/ Agrees(balances, a, serving)
               => Underway(a)' \/ Agrees(balances', a, serving)
  PROVE  NoneMissed'
<1> SUFFICES ASSUME serving # 0, serving \notin spoiled', Exact',
                    NEW a \in AddressesOf[serving]
             PROVE  Underway(a)' \/ Agrees(balances', a, serving)
  BY DEF NoneMissed, Frame, Agrees
<1>1. Exact
  BY SlackType DEF Exact
<1>2. serving \notin spoiled
  BY DEF Frame
<1> QED
  BY <1>1, <1>2 DEF Faithful, NoneMissed

\* A worker's step keeps everything but what its own jobs must keep.
LEMMA WorkFaithful ==
  ASSUME TypedInv, Faithful, Frame, unsent' \subseteq unsent,
         AllAlone', JobsFit',
         \A a \in Address : balances'[a] = balances[a] \/ (serving # 0 /\ a \in AddressesOf[serving]),
         serving \in spoiled' \/ Slack' >= Slack,
         serving # 0 /\ serving \notin spoiled' =>
           \A a \in AddressesOf[serving] :
             Underway(a) \/ Agrees(balances, a, serving)
               => Underway(a)' \/ Agrees(balances', a, serving)
  PROVE  Faithful'
<1>1. LatestAgree' /\ NoneMissed'
  BY LatestKept, NoneMissedKept
<1>2. ServiceFits'
  BY DEF Faithful, ServiceFits, Frame, Handed
<1>3. CoinsKept'
  BY DEF Faithful, CoinsKept, Frame
<1> QED
  BY <1>1, <1>2, <1>3 DEF Faithful

\* A step keeps what the jobs know when each job was there or knows enough, and
\* no balance changes under a job that goes on.
LEMMA JobsKept ==
  ASSUME JobsFit, Frame,
         \A n \in 1 .. Len(chGet') :
           \/ \E m \in 1 .. Len(chGet) : chGet'[n] = chGet[m]
           \/ Fits(chGet'[n], {"fetch"}, serving),
         \A j \in fetching' :
           \/ j \in fetching
           \/ Fits(j, {"fetch", "send"}, serving) /\ Informed(j, serving, spoiled'),
         \A n \in 1 .. Len(chUpdate') :
           \/ \E m \in 1 .. Len(chUpdate) : chUpdate'[n] = chUpdate[m]
           \/ Fits(chUpdate'[n], {"read"}, serving) /\ Informed(chUpdate'[n], serving, spoiled'),
         \A j \in updating' :
           \/ j \in updating /\ \A a \in j.of : balances'[a] = balances[a]
           \/ /\ Fits(j, {"read"} \cup Statement, serving)
              /\ Informed(j, serving, spoiled') /\ InStep(j, balances')
  PROVE  JobsFit'
<1>1. serving' = serving /\ \A j : Informed(j, serving, spoiled) => Informed(j, serving, spoiled')
  BY DEF Frame, Informed
<1>2. \A j : InStep(j, balances) /\ (\A a \in j.of : balances'[a] = balances[a]) => InStep(j, balances')
  BY DEF InStep
<1>3. \A n \in 1 .. Len(chGet') : Fits(chGet'[n], {"fetch"}, serving)
  BY DEF JobsFit
<1>4. \A j \in fetching' : Fits(j, {"fetch", "send"}, serving) /\ Informed(j, serving, spoiled')
  BY <1>1 DEF JobsFit
<1>5. \A n \in 1 .. Len(chUpdate') :
        Fits(chUpdate'[n], {"read"}, serving) /\ Informed(chUpdate'[n], serving, spoiled')
  BY <1>1 DEF JobsFit
<1>6. \A j \in updating' : /\ Fits(j, {"read"} \cup Statement, serving)
                           /\ Informed(j, serving, spoiled') /\ InStep(j, balances')
  BY <1>1, <1>2 DEF JobsFit
<1> QED
  BY <1>1, <1>3, <1>4, <1>5, <1>6 DEF JobsFit, Fits, Informed, InStep

LEMMA SendChunkFaithful ==
  ASSUME TypedInv, Faithful, SendChunk
  PROVE  Faithful'
<1>1. /\ Frame /\ UNCHANGED <<balances, wg, fetching, chUpdate, updating>>
      /\ unsent' \subseteq unsent /\ serving # 0
  BY DEF SendChunk, Frame, TypedInv, Counted
<1>2. AllAlone' /\ \A a \in Address : Underway(a)' <=> Underway(a)
  BY SendChunkPlaces DEF Faithful
<1>3. PICK S \in SUBSET unsent :
        /\ S # {} /\ Cardinality(S) <= AddrChunkSize
        /\ Cardinality(S) < AddrChunkSize => S = unsent
        /\ chGet' = Append(chGet, Job("fetch", serving, S, NoBalances, NoBalances))
        /\ unsent' = unsent \ S
  BY DEF SendChunk
<1> DEFINE k == Job("fetch", serving, S, NoBalances, NoBalances)
<1>4. k \in JobType /\ chGet \in Seq(JobType) /\ Fits(k, {"fetch"}, serving)
  <2>1. S \in SUBSET Address /\ serving \in Height /\ "fetch" \in JobAt
    BY <1>1 DEF TypedInv, TypeOK, Height, JobAt
  <2>2. S \subseteq AddressesOf[serving]
    BY <1>1 DEF Faithful, ServiceFits
  <2> QED
    BY <2>1, <2>2, JobTyped, NoBalancesTyped DEF Job, TypedInv, TypeOK, Fits
<1> HIDE DEF k
<1>5. JobsFit'
  <2>1. \A n \in 1 .. Len(chGet') :
          chGet'[n] = k \/ \E m \in 1 .. Len(chGet) : chGet'[n] = chGet[m]
    BY <1>3, <1>4, QueueGrows DEF k
  <2>2. JobsFit
    BY DEF Faithful
  <2> QED
    BY <1>1, <1>4, <2>1, <2>2, JobsKept
<1>6. Slack' >= Slack
  <2>1. unsent \in SUBSET Address
    BY DEF TypedInv, TypeOK
  <2>2. Unsent = Unsent' + 1
    BY <1>3, <2>1, OneChunkLess DEF Unsent
  <2>3. Unsent' \in Nat
    BY <1>1, <2>1, ChunkCountType DEF Unsent
  <2>4. Len(chGet') = Len(chGet) + 1
    BY <1>3, <1>4
  <2>5. Fetching' = Fetching + 1
    BY <1>1, <2>4, Numbers DEF Fetching
  <2>6. Updating' = Updating
    BY <1>1 DEF Updating
  <2>7. Slack' = Slack
    BY <1>1, <2>2, <2>3, <2>5, <2>6, Numbers DEF Slack
  <2> QED
    BY <2>7, SlackType
<1>7. AddressesOf[serving] \subseteq Address
  BY <1>1, ParametersAssumption DEF TypedInv, TypeOK, Height
<1> QED
  BY <1>1, <1>2, <1>5, <1>6, <1>7, WorkFaithful

LEMMA TakeGetFaithful ==
  ASSUME TypedInv, Faithful, TakeGet
  PROVE  Faithful'
<1>1. /\ Frame /\ UNCHANGED <<balances, wg, unsent, chUpdate, updating>>
      /\ chGet # <<>> /\ chGet' = Tail(chGet) /\ fetching' = fetching \cup {Head(chGet)}
      /\ chGet \in Seq(JobType)
  BY DEF TakeGet, Frame, service, TypedInv, TypeOK
<1>2. AllAlone' /\ \A a \in Address : Underway(a)' <=> Underway(a)
  BY TakeGetPlaces DEF Faithful
<1>3. JobsFit'
  <2>1. /\ 1 \in 1 .. Len(chGet) /\ Head(chGet) = chGet[1]
        /\ \A n \in 1 .. Len(chGet') : \E m \in 1 .. Len(chGet) : chGet'[n] = chGet[m]
    BY <1>1, QueueShrinks
  <2>2. JobsFit /\ Fits(Head(chGet), {"fetch"}, serving)
    BY <2>1 DEF Faithful, JobsFit
  <2>3. Fits(Head(chGet), {"fetch", "send"}, serving) /\ Informed(Head(chGet), serving, spoiled')
    BY <2>2 DEF Fits, Informed
  <2> QED
    BY <1>1, <2>1, <2>2, <2>3, JobsKept
<1>4. Slack' >= Slack
  <2>1. Len(chGet') = Len(chGet) - 1
    BY <1>1
  <2>2. Cardinality(fetching') <= Cardinality(fetching) + 1 /\ Cardinality(fetching') \in Nat
    BY <1>1, AddOne DEF TypedInv
  <2>3. Fetching' <= Fetching /\ Fetching' \in Int
    BY <2>1, <2>2, Numbers DEF Fetching
  <2>4. Updating' = Updating /\ Unsent' = Unsent
    BY <1>1 DEF Updating, Unsent
  <2> QED
    BY <1>1, <2>3, <2>4, Numbers DEF Slack
<1>5. serving # 0 => AddressesOf[serving] \subseteq Address
  BY <1>1, ParametersAssumption DEF TypedInv, TypeOK, Height
<1> QED
  BY <1>1, <1>2, <1>3, <1>4, <1>5, WorkFaithful

LEMMA TakeUpdateFaithful ==
  ASSUME TypedInv, Faithful, TakeUpdate
  PROVE  Faithful'
<1>1. /\ Frame /\ UNCHANGED <<balances, wg, unsent, chGet, fetching>>
      /\ chUpdate # <<>> /\ chUpdate' = Tail(chUpdate) /\ updating' = updating \cup {Head(chUpdate)}
      /\ chUpdate \in Seq(JobType)
  BY DEF TakeUpdate, Frame, service, TypedInv, TypeOK
<1>2. AllAlone' /\ \A a \in Address : Underway(a)' <=> Underway(a)
  BY TakeUpdatePlaces DEF Faithful
<1>3. JobsFit'
  <2>1. /\ 1 \in 1 .. Len(chUpdate) /\ Head(chUpdate) = chUpdate[1]
        /\ \A n \in 1 .. Len(chUpdate') : \E m \in 1 .. Len(chUpdate) : chUpdate'[n] = chUpdate[m]
    BY <1>1, QueueShrinks
  <2>2. JobsFit /\ Fits(Head(chUpdate), {"read"}, serving) /\ Informed(Head(chUpdate), serving, spoiled)
    BY <2>1 DEF Faithful, JobsFit
  <2>3. /\ Fits(Head(chUpdate), {"read"} \cup Statement, serving)
        /\ Informed(Head(chUpdate), serving, spoiled') /\ InStep(Head(chUpdate), balances')
    BY <1>1, <2>2 DEF Fits, Informed, Frame, InStep, Statement
  <2> QED
    BY <1>1, <2>1, <2>2, <2>3, JobsKept
<1>4. Slack' >= Slack
  <2>1. Len(chUpdate') = Len(chUpdate) - 1
    BY <1>1
  <2>2. Cardinality(updating') <= Cardinality(updating) + 1 /\ Cardinality(updating') \in Nat
    BY <1>1, AddOne DEF TypedInv
  <2>3. Updating' <= Updating /\ Updating' \in Int
    BY <2>1, <2>2, Numbers DEF Updating
  <2>4. Fetching' = Fetching /\ Unsent' = Unsent
    BY <1>1 DEF Fetching, Unsent
  <2> QED
    BY <1>1, <2>3, <2>4, Numbers DEF Slack
<1>5. serving # 0 => AddressesOf[serving] \subseteq Address
  BY <1>1, ParametersAssumption DEF TypedInv, TypeOK, Height
<1> QED
  BY <1>1, <1>2, <1>3, <1>4, <1>5, WorkFaithful

\* A worker's job is of the service's block, which is handed over.
LEMMA JobServed ==
  ASSUME TypedInv, Faithful, NEW j \in fetching \cup updating
  PROVE  /\ j \in JobType /\ serving \in Height /\ serving # 0 /\ j.height = serving
         /\ j.of \subseteq AddressesOf[serving] /\ AddressesOf[serving] \subseteq Address
         /\ Handed(serving) /\ serving <= height
<1>1. j \in JobType /\ j.height = serving /\ j.of \subseteq AddressesOf[serving]
  BY DEF Faithful, JobsFit, Fits, TypedInv, TypeOK
<1>2. serving \in Height /\ serving # 0
  BY <1>1 DEF JobType, Height
<1>3. Handed(serving)
  BY <1>2 DEF Faithful, ServiceFits
<1>4. serving <= height
  BY <1>2, <1>3, Numbers DEF Handed, Height
<1> QED
  BY <1>1, <1>2, <1>3, <1>4, ParametersAssumption

\* A step of a fetch worker's job.
LEMMA FetchingFaithful ==
  ASSUME TypedInv, Faithful, Frame, NEW j \in fetching, NEW k, k.of = j.of,
         fetching' = (fetching \ {j}) \cup {k},
         UNCHANGED <<balances, unsent, wg, chGet, chUpdate, updating>>,
         Fits(k, {"fetch", "send"}, serving), Informed(k, serving, spoiled')
  PROVE  Faithful'
<1>1. AllAlone' /\ \A a \in Address : Underway(a)' <=> Underway(a)
  BY StepPlaces DEF Faithful
<1>2. JobsFit'
  BY JobsKept DEF Faithful
<1>3. Slack' >= Slack
  <2>1. Cardinality(fetching') <= Cardinality(fetching) /\ Cardinality(fetching') \in Nat
    BY Replace DEF TypedInv
  <2>2. Fetching' <= Fetching /\ Fetching' \in Int
    BY <2>1, Numbers DEF Fetching
  <2>3. Updating' = Updating /\ Unsent' = Unsent
    BY DEF Updating, Unsent
  <2> QED
    BY <2>2, <2>3, Numbers DEF Slack
<1>4. serving # 0 /\ AddressesOf[serving] \subseteq Address
  BY JobServed
<1> QED
  BY <1>1, <1>2, <1>3, <1>4, WorkFaithful

\* All coins of blocks before the job's are in the table when it looks them up,
\* so the answer misses balances only in coins of its own block.
LEMMA AnswerInforms ==
  ASSUME TypedInv, Faithful, NEW j \in fetching
  PROVE  \A a \in j.of : Agrees(Answer(j), a, serving)
<1>1. /\ j \in JobType /\ serving \in Height /\ j.height = serving /\ j.of \subseteq Address
      /\ serving <= height
  BY JobServed
<1> SUFFICES ASSUME NEW a \in j.of, NEW c \in Coin \ CoinsOf[serving]
             PROVE  Answer(j)[a][c] = BalanceAt[serving][a][c]
  BY DEF Agrees
<1>2. a \in Address /\ c \in Coin
  BY <1>1
<1>3. CASE c \in coins
  BY <1>1, <1>2, <1>3 DEF Answer
<1>4. CASE c \notin coins
  <2>1. Answer(j)[a][c] = 0
    BY <1>1, <1>2, <1>4 DEF Answer
  <2>2. c \notin GenesisCoins /\ \A g \in 1 .. serving : c \notin CoinsOf[g]
    <3>1. ASSUME NEW g \in 1 .. serving PROVE c \notin CoinsOf[g]
      <4>1. CASE g = serving
        BY <4>1
      <4>2. CASE g # serving
        <5>1. g \in Height /\ g < height
          BY <1>1, <4>2, Numbers DEF Height
        <5> QED
          BY <1>4, <5>1 DEF Faithful, CoinsKept
      <4> QED
        BY <4>1, <4>2
    <3> QED
      BY <1>4, <3>1 DEF Faithful, CoinsKept
  <2>3. ~(BalanceAt[serving][a][c] > 0)
    BY <1>1, <1>2, <2>2, ChainAssumption
  <2>4. BalanceAt[serving][a][c] \in Nat
    BY <1>1, <1>2, ChainAssumption DEF Table
  <2> QED
    BY <2>1, <2>3, <2>4
<1> QED
  BY <1>3, <1>4

LEMMA FetchFaithful ==
  ASSUME TypedInv, Faithful, NEW j \in fetching, Fetch(j) \/ FetchEmpty(j)
  PROVE  Faithful'
<1>1. j.height = serving /\ j.of \subseteq AddressesOf[serving]
  BY JobServed
<1>2. CASE Fetch(j)
  <2> DEFINE k == Job("send", j.height, j.of, Answer(j), NoBalances)
  <2>1. /\ Frame /\ fetching' = (fetching \ {j}) \cup {k} /\ spoiled' = spoiled
        /\ UNCHANGED <<balances, unsent, wg, chGet, chUpdate, updating>>
    BY <1>2 DEF Fetch, Frame, service
  <2>2. k.of = j.of /\ Fits(k, {"fetch", "send"}, serving) /\ k.node = Answer(j)
    BY <1>1 DEF Job, Fits
  <2>3. Informed(k, serving, spoiled')
    BY <2>2, AnswerInforms DEF Informed
  <2> HIDE DEF k
  <2> QED
    BY <2>1, <2>2, <2>3, FetchingFaithful
<1>3. CASE FetchEmpty(j)
  <2> DEFINE k == Job("send", j.height, j.of, NoBalances, NoBalances)
  <2>1. /\ Frame /\ fetching' = (fetching \ {j}) \cup {k} /\ serving \in spoiled'
        /\ UNCHANGED <<balances, unsent, wg, chGet, chUpdate, updating>>
    BY <1>1, <1>3 DEF FetchEmpty, Frame, service
  <2>2. k.of = j.of /\ Fits(k, {"fetch", "send"}, serving)
    BY <1>1 DEF Job, Fits
  <2>3. Informed(k, serving, spoiled')
    BY <2>1 DEF Informed
  <2> HIDE DEF k
  <2> QED
    BY <2>1, <2>2, <2>3, FetchingFaithful
<1> QED
  BY <1>2, <1>3

\* A job that is lost stays counted for ever, so the service never leaves its
\* block.
LEMMA FetchFailsFaithful ==
  ASSUME TypedInv, Faithful, NEW j \in fetching, FetchFails(j)
  PROVE  Faithful'
<1>1. /\ Frame /\ fetching' = fetching \ {j} /\ spoiled' = spoiled
      /\ UNCHANGED <<balances, unsent, wg, chGet, chUpdate, updating>>
  BY DEF FetchFails, Frame, service
<1>2. AllAlone'
  BY <1>1, EndPlaces DEF Faithful
<1>3. JobsFit'
  BY <1>1, JobsKept DEF Faithful
<1>4. NoneMissed'
  <2>1. Cardinality(fetching') = Cardinality(fetching) - 1 /\ Cardinality(fetching') \in Nat
    BY <1>1, Replace DEF TypedInv
  <2>2. Fetching' = Fetching - 1 /\ Updating' = Updating /\ Unsent' = Unsent
    BY <1>1, <2>1, Numbers DEF Fetching, Updating, Unsent
  <2>3. Slack' = Slack + 1
    BY <1>1, <2>2, Numbers DEF Slack
  <2>4. ~Exact'
    BY <2>3, SlackType DEF Exact
  <2> QED
    BY <2>4 DEF NoneMissed
<1>5. LatestAgree' /\ ServiceFits' /\ CoinsKept'
  <2>1. LatestAgree'
    BY <1>1, LatestKept
  <2> QED
    BY <1>1, <2>1 DEF Faithful, ServiceFits, CoinsKept, Frame, Handed
<1> QED
  BY <1>2, <1>3, <1>4, <1>5 DEF Faithful

LEMMA SendResultFaithful ==
  ASSUME TypedInv, Faithful, NEW j \in fetching, SendResult(j)
  PROVE  Faithful'
<1> DEFINE k == [j EXCEPT !.at = "read"]
<1>1. /\ Frame /\ UNCHANGED <<balances, wg, unsent, chGet, updating>> /\ j.at = "send"
      /\ fetching' = fetching \ {j} /\ chUpdate' = Append(chUpdate, k) /\ spoiled' = spoiled
  BY DEF SendResult, Frame, service
<1>2. AllAlone' /\ \A a \in Address : Underway(a)' <=> Underway(a)
  BY SendResultPlaces DEF Faithful
<1>3. /\ k \in JobType /\ chUpdate \in Seq(JobType)
      /\ Fits(k, {"read"}, serving) /\ Informed(k, serving, spoiled')
  <2>1. j \in JobType /\ j.height = serving /\ j.of \subseteq AddressesOf[serving]
    BY JobServed
  <2>2. /\ k \in JobType /\ k.at = "read" /\ k.height = j.height /\ k.of = j.of /\ k.node = j.node
        /\ chUpdate \in Seq(JobType)
    BY <2>1 DEF JobType, TypedInv, TypeOK
  <2>3. Informed(j, serving, spoiled)
    BY DEF Faithful, JobsFit
  <2> HIDE DEF k
  <2> QED
    BY <1>1, <2>1, <2>2, <2>3 DEF Fits, Informed
<1> HIDE DEF k
<1>4. JobsFit'
  <2>1. \A n \in 1 .. Len(chUpdate') :
          chUpdate'[n] = k \/ \E m \in 1 .. Len(chUpdate) : chUpdate'[n] = chUpdate[m]
    BY <1>1, <1>3, QueueGrows
  <2>2. JobsFit
    BY DEF Faithful
  <2> QED
    BY <1>1, <1>3, <2>1, <2>2, JobsKept
<1>5. Slack' >= Slack
  <2>1. Cardinality(fetching') = Cardinality(fetching) - 1 /\ Cardinality(fetching') \in Nat
    BY <1>1, Replace DEF TypedInv
  <2>2. Len(chUpdate') = Len(chUpdate) + 1
    BY <1>1, <1>3
  <2>3. Fetching' = Fetching - 1 /\ Updating' = Updating + 1 /\ Unsent' = Unsent
    BY <1>1, <2>1, <2>2, Numbers DEF Fetching, Updating, Unsent
  <2>4. Slack' = wg - (Unsent + (Fetching - 1) + (Updating + 1))
    BY <1>1, <2>3 DEF Slack
  <2>5. Slack' = Slack
    BY <2>4, Numbers DEF Slack
  <2> QED
    BY <2>5, SlackType
<1>6. serving # 0 /\ AddressesOf[serving] \subseteq Address
  BY JobServed
<1> QED
  BY <1>1, <1>2, <1>4, <1>5, <1>6, WorkFaithful

\* The update workers.  No other job has an address of this one.
LEMMA OthersApart ==
  ASSUME AllAlone, NEW j \in updating, NEW i \in updating, i # j, j.of \subseteq Address
  PROVE  \A a \in i.of : a \notin j.of
BY DEF AllAlone, Alone, OneInPool

\* A step of an update worker's job that goes on, whatever it writes of the job's
\* addresses.
LEMMA UpdatingFaithful ==
  ASSUME TypedInv, Faithful, Frame, NEW j \in updating, NEW k, k.of = j.of,
         updating' = (updating \ {j}) \cup {k},
         UNCHANGED <<unsent, wg, chGet, fetching, chUpdate>>,
         \A a \in Address : a \notin j.of => balances'[a] = balances[a],
         Fits(k, {"read"} \cup Statement, serving), Informed(k, serving, spoiled'),
         InStep(k, balances')
  PROVE  Faithful'
<1>1. /\ j.of \subseteq AddressesOf[serving] /\ AddressesOf[serving] \subseteq Address /\ serving # 0
      /\ \A i \in updating : i.of \subseteq Address
  BY JobServed
<1>2. AllAlone' /\ \A a \in Address : Underway(a)' <=> Underway(a)
  BY StepPlaces DEF Faithful
<1>3. JobsFit'
  <2>1. ASSUME NEW i \in updating', i # k
        PROVE  i \in updating /\ \A a \in i.of : balances'[a] = balances[a]
    <3>1. i \in updating /\ i # j
      BY <2>1
    <3>2. \A a \in i.of : a \notin j.of /\ a \in Address
      BY <1>1, <3>1, OthersApart DEF Faithful
    <3> QED
      BY <3>1, <3>2
  <2>2. JobsFit
    BY DEF Faithful
  <2> QED
    BY <2>1, <2>2, JobsKept
<1>4. Slack' >= Slack
  <2>1. Cardinality(updating') <= Cardinality(updating) /\ Cardinality(updating') \in Nat
    BY Replace DEF TypedInv
  <2>2. Updating' <= Updating /\ Updating' \in Int
    BY <2>1, Numbers DEF Updating
  <2>3. Fetching' = Fetching /\ Unsent' = Unsent
    BY DEF Fetching, Unsent
  <2> QED
    BY <2>2, <2>3, Numbers DEF Slack
<1>5. ASSUME NEW a \in AddressesOf[serving], Underway(a) \/ Agrees(balances, a, serving)
      PROVE  Underway(a)' \/ Agrees(balances', a, serving)
  <2>1. CASE a \in j.of
    BY <1>1, <1>2, <2>1 DEF Underway, InPool
  <2>2. CASE a \notin j.of
    BY <1>1, <1>2, <1>5, <2>2 DEF Agrees
  <2> QED
    BY <2>1, <2>2
<1>6. \A a \in Address : balances'[a] = balances[a] \/ (serving # 0 /\ a \in AddressesOf[serving])
  BY <1>1
<1> QED
  BY <1>2, <1>3, <1>4, <1>5, <1>6, WorkFaithful

\* Each statement takes the balances of the job one step on, the last one to
\* those of the node.
LEMMA StatementAdvances ==
  ASSUME TypedInv, NEW j \in JobType, j.at \in Statement, InStep(j, balances),
         NEW a \in j.of, NEW c \in Coin
  PROVE  /\ j.at = "create" => Written(j)[a][c] = Half([j EXCEPT !.at = "update"], a, c)
         /\ j.at = "update" => Written(j)[a][c] = Half([j EXCEPT !.at = "delete"], a, c)
         /\ j.at = "delete" => Written(j)[a][c] = j.node[a][c]
<1> DEFINE n == j.node[a][c]
           d == j.db[a][c]
           b == balances[a][c]
<1>1. n \in Nat /\ d \in Nat /\ a \in Address
  BY DEF JobType, Table
<1>2. b = Half(j, a, c)
  BY DEF InStep
<1>3. Written(j)[a][c] =
        IF <<a, c>> \in Rows(j, j.at) /\ (j.at = "create" \/ b > 0)
        THEN IF j.at = "delete" THEN 0 ELSE n
        ELSE b
  BY <1>1 DEF Written
<1>4. CASE j.at = "create"
  <2>1. <<a, c>> \in Rows(j, j.at) <=> d = 0 /\ n > 0
    BY <1>4 DEF Rows
  <2>2. b = d
    BY <1>2, <1>4 DEF Half
  <2>3. Half([j EXCEPT !.at = "update"], a, c) = IF d = 0 THEN n ELSE d
    BY DEF Half, JobType
  <2> HIDE DEF n, d, b
  <2> QED
    BY <1>1, <1>3, <1>4, <2>1, <2>2, <2>3
<1>5. CASE j.at = "update"
  <2>1. <<a, c>> \in Rows(j, j.at) <=> d > 0 /\ n > 0
    BY <1>5 DEF Rows
  <2>2. b = IF d = 0 THEN n ELSE d
    BY <1>2, <1>5 DEF Half
  <2>3. Half([j EXCEPT !.at = "delete"], a, c) = IF n > 0 THEN n ELSE d
    BY DEF Half, JobType
  <2> HIDE DEF n, d, b
  <2> QED
    BY <1>1, <1>3, <1>5, <2>1, <2>2, <2>3
<1>6. CASE j.at = "delete"
  <2>1. <<a, c>> \in Rows(j, j.at) <=> d > 0 /\ n = 0
    BY <1>6 DEF Rows
  <2>2. b = IF n > 0 THEN n ELSE d
    BY <1>2, <1>6 DEF Half
  <2> HIDE DEF b, d
  <2> QED
    BY <1>1, <1>3, <1>6, <2>1, <2>2
<1> QED
  BY <1>4, <1>5, <1>6 DEF Statement

LEMMA ReadFaithful ==
  ASSUME TypedInv, Faithful, NEW j \in updating, ReadBalances(j)
  PROVE  Faithful'
<1> DEFINE held == [a \in Address |-> IF a \in j.of THEN balances[a] ELSE NoBalances[a]]
           k    == Job("create", j.height, j.of, j.node, held)
<1>1. /\ Frame /\ updating' = (updating \ {j}) \cup {k} /\ j.at = "read"
      /\ UNCHANGED <<balances, unsent, wg, chGet, fetching, chUpdate, spoiled>>
  BY DEF ReadBalances, Frame, service
<1>2. /\ j.height = serving /\ j.of \subseteq AddressesOf[serving] /\ j.of \subseteq Address
      /\ Informed(j, serving, spoiled)
  <2>1. Informed(j, serving, spoiled)
    BY DEF Faithful, JobsFit
  <2> QED
    BY <2>1, JobServed
<1>3. k.of = j.of /\ k.at = "create" /\ k.height = j.height /\ k.node = j.node /\ k.db = held
  BY DEF Job
<1>4. \A a \in j.of : held[a] = balances[a]
  BY <1>2
<1> HIDE DEF k, held
<1>5. Fits(k, {"read"} \cup Statement, serving) /\ Informed(k, serving, spoiled')
  BY <1>1, <1>2, <1>3 DEF Fits, Informed, Statement
<1>6. InStep(k, balances')
  BY <1>1, <1>3, <1>4 DEF InStep, Half
<1> QED
  BY <1>1, <1>3, <1>5, <1>6, UpdatingFaithful

\* What Write does to the table.
LEMMA WriteApart ==
  ASSUME TypedInv, NEW j \in updating
  PROVE  \A a \in Address : a \notin j.of => Written(j)[a] = balances[a]
<1> SUFFICES ASSUME NEW a \in Address, a \notin j.of PROVE Written(j)[a] = balances[a]
  OBVIOUS
<1>1. \A c \in Coin : <<a, c>> \notin Rows(j, j.at)
  BY DEF Rows
<1>2. Written(j)[a] = [c \in Coin |-> balances[a][c]]
  BY <1>1 DEF Written
<1>3. balances[a] \in [Coin -> Nat]
  BY DEF TypedInv, TypeOK, Table
<1> QED
  BY <1>2, <1>3

\* A statement that is not the job's last one.
LEMMA WriteGoesOn ==
  ASSUME TypedInv, Faithful, NEW j \in updating, Write(j), j.at # "delete"
  PROVE  Faithful'
<1> DEFINE k == [j EXCEPT !.at = After[j.at]]
<1>1. /\ Frame /\ updating' = (updating \ {j}) \cup {k} /\ j.at \in {"create", "update"}
      /\ balances' = Written(j) /\ j.at \in Statement
      /\ UNCHANGED <<unsent, wg, chGet, fetching, chUpdate, spoiled>>
  BY DEF Write, Frame, Statement
<1>2. /\ j \in JobType /\ j.height = serving /\ j.of \subseteq AddressesOf[serving]
      /\ Informed(j, serving, spoiled) /\ InStep(j, balances)
  <2>1. Informed(j, serving, spoiled) /\ InStep(j, balances)
    BY DEF Faithful, JobsFit
  <2> QED
    BY <2>1, JobServed
<1>3. /\ k.of = j.of /\ k.height = j.height /\ k.node = j.node /\ k.at \in {"update", "delete"}
      /\ j.at = "create" => k = [j EXCEPT !.at = "update"]
      /\ j.at = "update" => k = [j EXCEPT !.at = "delete"]
  BY <1>1, <1>2 DEF JobType, After
<1> HIDE DEF k
<1>4. Fits(k, {"read"} \cup Statement, serving) /\ Informed(k, serving, spoiled')
  BY <1>1, <1>2, <1>3 DEF Fits, Informed, Statement
<1>5. InStep(k, balances')
  <2>1. ASSUME NEW a \in j.of, NEW c \in Coin PROVE balances'[a][c] = Half(k, a, c)
    <3>1. CASE j.at = "create"
      <4>1. Written(j)[a][c] = Half([j EXCEPT !.at = "update"], a, c)
        BY <1>1, <1>2, <3>1, StatementAdvances
      <4> QED
        BY <1>1, <1>3, <3>1, <4>1
    <3>2. CASE j.at = "update"
      <4>1. Written(j)[a][c] = Half([j EXCEPT !.at = "delete"], a, c)
        BY <1>1, <1>2, <3>2, StatementAdvances
      <4> QED
        BY <1>1, <1>3, <3>2, <4>1
    <3> QED
      BY <1>1, <3>1, <3>2
  <2> QED
    BY <1>3, <2>1 DEF InStep
<1> QED
  BY <1>1, <1>3, <1>4, <1>5, WriteApart, UpdatingFaithful

\* The end of a job, which the wait group is told of.
LEMMA EndFaithful ==
  ASSUME TypedInv, Faithful, Frame, NEW j \in updating, updating' = updating \ {j}, wg' = wg - 1,
         UNCHANGED <<unsent, chGet, fetching, chUpdate>>,
         \A a \in Address : a \notin j.of => balances'[a] = balances[a],
         serving \notin spoiled' => \A a \in j.of : Agrees(balances', a, serving)
  PROVE  Faithful'
<1>1. /\ j.of \subseteq AddressesOf[serving] /\ AddressesOf[serving] \subseteq Address /\ serving # 0
      /\ \A i \in updating : i.of \subseteq Address
  BY JobServed
<1>2. AllAlone' /\ \A a \in Address : Underway(a) => Underway(a)' \/ a \in j.of
  BY EndPlaces DEF Faithful
<1>3. JobsFit'
  <2>1. ASSUME NEW i \in updating'
        PROVE  i \in updating /\ \A a \in i.of : balances'[a] = balances[a]
    <3>1. \A a \in i.of : a \notin j.of /\ a \in Address
      BY <1>1, OthersApart DEF Faithful
    <3> QED
      BY <3>1
  <2>2. JobsFit
    BY DEF Faithful
  <2> QED
    BY <2>1, <2>2, JobsKept
<1>4. Slack' >= Slack
  <2>1. Cardinality(updating') = Cardinality(updating) - 1 /\ Cardinality(updating') \in Nat
    BY Replace DEF TypedInv
  <2>2. Updating' = Updating - 1
    BY <2>1, Numbers DEF Updating
  <2>3. Fetching' = Fetching /\ Unsent' = Unsent
    BY DEF Fetching, Unsent
  <2>4. Slack' = (wg - 1) - (Unsent + Fetching + (Updating - 1))
    BY <2>2, <2>3 DEF Slack
  <2>5. Slack' = Slack
    BY <2>4, Numbers DEF Slack
  <2> QED
    BY <2>5, SlackType
<1>5. ASSUME serving \notin spoiled', NEW a \in AddressesOf[serving],
             Underway(a) \/ Agrees(balances, a, serving)
      PROVE  Underway(a)' \/ Agrees(balances', a, serving)
  <2>1. CASE a \in j.of
    BY <1>5, <2>1
  <2>2. CASE a \notin j.of
    BY <1>1, <1>2, <1>5, <2>2 DEF Agrees
  <2> QED
    BY <2>1, <2>2
<1>6. \A a \in Address : balances'[a] = balances[a] \/ (serving # 0 /\ a \in AddressesOf[serving])
  BY <1>1
<1> QED
  BY <1>2, <1>3, <1>4, <1>5, <1>6, WorkFaithful

LEMMA WriteFaithful ==
  ASSUME TypedInv, Faithful, NEW j \in updating, Write(j) \/ WriteFails(j)
  PROVE  Faithful'
<1>1. CASE Write(j) /\ j.at # "delete"
  BY <1>1, WriteGoesOn
<1>2. CASE Write(j) /\ j.at = "delete"
  <2>1. /\ Frame /\ updating' = updating \ {j} /\ balances' = Written(j) /\ wg' = wg - 1
        /\ UNCHANGED <<unsent, chGet, fetching, chUpdate, spoiled>> /\ j.at \in Statement
    BY <1>2 DEF Write, Frame
  <2>2. /\ j \in JobType /\ Informed(j, serving, spoiled) /\ InStep(j, balances)
    <3>1. Informed(j, serving, spoiled) /\ InStep(j, balances)
      BY DEF Faithful, JobsFit
    <3> QED
      BY <3>1, JobServed
  <2>3. \A a \in j.of : \A c \in Coin : balances'[a][c] = j.node[a][c]
    BY <1>2, <2>1, <2>2, StatementAdvances
  <2>4. serving \notin spoiled' => \A a \in j.of : Agrees(balances', a, serving)
    BY <1>2, <2>1, <2>2, <2>3 DEF Informed, Agrees
  <2> QED
    BY <2>1, <2>4, WriteApart, EndFaithful
<1>3. CASE WriteFails(j)
  <2>1. j.height = serving
    BY JobServed
  <2>2. /\ Frame /\ updating' = updating \ {j} /\ wg' = wg - 1 /\ serving \in spoiled'
        /\ UNCHANGED <<balances, unsent, chGet, fetching, chUpdate>>
    BY <1>3, <2>1 DEF WriteFails, Frame
  <2> QED
    BY <2>2, EndFaithful
<1> QED
  BY <1>1, <1>2, <1>3

-----------------------------------------------------------------------------
\* Steps that leave the workers alone.

LEMMA NoJobs ==
  ASSUME TypedInv, serving = 0 \/ (wg = 0 /\ unsent = {})
  PROVE  /\ unsent = {} /\ chGet = <<>> /\ fetching = {} /\ chUpdate = <<>> /\ updating = {}
         /\ \A a : ~Underway(a)
<1>1. unsent = {} /\ Fetching = 0 /\ Updating = 0
  BY Numbers, CountedFacts
<1>2. Len(chGet) = 0 /\ Cardinality(fetching) = 0 /\ Len(chUpdate) = 0 /\ Cardinality(updating) = 0
  BY <1>1, Numbers DEF Fetching, Updating
<1>3. chGet = <<>> /\ chUpdate = <<>>
  BY <1>2 DEF TypedInv, TypeOK
<1>4. fetching = {} /\ updating = {}
  BY <1>2, FS_EmptySet DEF TypedInv
<1> QED
  BY <1>1, <1>3, <1>4 DEF Underway, InQueue, InPool

\* Without jobs, what is to be kept is about the blocks alone.
LEMMA IdleFaithful ==
  ASSUME chGet' = <<>>, fetching' = {}, chUpdate' = <<>>, updating' = {}
  PROVE  AllAlone' /\ JobsFit'
BY DEF AllAlone, Alone, InQueue, InPool, OneInQueue, OneInPool, JobsFit

LEMMA HandOffFaithful ==
  ASSUME TypedInv, Faithful, HandOff
  PROVE  Faithful'
<1>1. /\ pc = "addresses" /\ pc' = "coins" /\ height \in Height /\ height' = height
      /\ UNCHANGED <<balances, coins, chGet, fetching, chUpdate, updating, resumed, spoiled>>
  BY DEF HandOff, TypedInv, TypeOK, Height, workers
<1>2. CoinsKept'
  BY <1>1 DEF Faithful, CoinsKept
<1>3. \A a : Named(a)' = Named(a) \cup
               (IF a \in AddressesOf[height] /\ resumed <= height THEN {height} ELSE {})
  BY <1>1 DEF Named, Height
<1>4. resumed <= height /\ \A g : Handed(g)' <=> Handed(g) \/ g = height
  BY <1>1 DEF Faithful, ServiceFits, Handed
<1>5. CASE AddressesOf[height] = {}
  <2>1. UNCHANGED <<serving, unsent, wg>>
    BY <1>5 DEF HandOff, service
  <2>2. AllAlone'
    BY <1>1, <2>1 DEF Faithful, AllAlone, Alone
  <2>3. JobsFit'
    BY <1>1, <2>1 DEF Faithful, JobsFit
  <2>4. ServiceFits'
    BY <1>1, <1>4, <1>5, <2>1 DEF Faithful, ServiceFits
  <2>5. NoneMissed'
    BY <1>1, <2>1 DEF Faithful, NoneMissed, Exact, Slack, Unsent, Fetching, Updating, Underway
  <2>6. \A a : Named(a)' = Named(a)
    BY <1>3, <1>5
  <2>7. LatestAgree'
    BY <1>1, <2>1, <2>6 DEF Faithful, LatestAgree, Latest, Up
  <2> QED
    BY <1>2, <2>2, <2>3, <2>4, <2>5, <2>7 DEF Faithful
<1>6. CASE AddressesOf[height] # {}
  <2>1. serving = 0 /\ serving' = height /\ unsent' = AddressesOf[height]
    BY <1>6 DEF HandOff
  <2>2. AllAlone' /\ JobsFit'
    BY <1>1, <2>1, NoJobs, IdleFaithful
  <2>3. ServiceFits'
    <3>1. \A g \in Height : Handed(g)' => g <= height
      BY <1>1, <1>4 DEF Handed, Height
    <3>2. \A g \in Height : Handed(g)' /\ g > height => AddressesOf[g] = {}
      BY <1>1, <3>1 DEF Height
    <3> QED
      BY <1>1, <1>4, <2>1, <3>2 DEF ServiceFits
  <2>4. NoneMissed'
    BY <2>1 DEF NoneMissed, Underway
  <2>5. ASSUME NEW a \in Address
        PROVE  /\ Named(a)' = {} \/ \E h \in Named(a)' : Latest(a, h)'
               /\ \A h \in Named(a)' :
                    Latest(a, h)' /\ h # serving' /\ h \notin spoiled' => Agrees(balances', a, h)
    <3>1. \A h \in Named(a) : h \in Height /\ h < height
      BY <1>1 DEF Named, Height
    <3>2. CASE a \in AddressesOf[height]
      <4>1. Named(a)' = Named(a) \cup {height}
        BY <1>3, <1>4, <3>2
      <4>2. Latest(a, height)'
        BY <1>1, <3>1, <4>1 DEF Latest, Height
      <4>3. \A h \in Named(a)' : Latest(a, h)' => h = height
        BY <1>1, <3>1, <4>1 DEF Latest, Height
      <4>4. \E h \in Named(a)' : Latest(a, h)'
        <5>1. height \in Named(a)'
          BY <4>1
        <5> QED
          BY <4>2, <5>1 DEF Latest
      <4>5. \A h \in Named(a)' : Latest(a, h)' => h = serving'
        BY <2>1, <4>3
      <4> QED
        BY <4>4, <4>5
    <3>3. CASE a \notin AddressesOf[height]
      <4>1. Named(a)' = Named(a) /\ \A h : Latest(a, h)' <=> Latest(a, h)
        BY <1>3, <3>3 DEF Latest
      <4>2. \A h \in Named(a) : h # serving
        BY <2>1, <3>1 DEF Height
      <4>3. Up
        BY <1>1 DEF Up
      <4> QED
        BY <1>1, <4>1, <4>2, <4>3 DEF Faithful, LatestAgree
    <3> QED
      BY <3>2, <3>3
  <2>6. LatestAgree'
    BY <2>5 DEF LatestAgree, Agrees
  <2> QED
    BY <1>2, <2>2, <2>3, <2>4, <2>6 DEF Faithful
<1> QED
  BY <1>5, <1>6

\* With the coins of its block stored, the block is one of those before.
LEMMA CreateNewCoinsFaithful ==
  ASSUME TypedInv, Faithful, CreateNewCoins
  PROVE  Faithful'
<1>1. /\ pc = "coins" /\ pc' = "addresses" /\ height \in Height /\ height' = height + 1
      /\ coins' = coins \cup CoinsOf[height]
      /\ UNCHANGED <<balances, serving, unsent, wg, chGet, fetching, chUpdate, updating,
                     resumed, spoiled>>
  BY DEF CreateNewCoins, TypedInv, TypeOK, Shape, Height, service, workers
<1>2. AllAlone'
  BY <1>1 DEF Faithful, AllAlone, Alone
<1>3. JobsFit'
  BY <1>1 DEF Faithful, JobsFit
<1>4. \A g \in Height : Handed(g)' <=> Handed(g)
  BY <1>1 DEF Handed, Height
<1>5. ServiceFits'
  <2>1. serving # 0 => serving \in Height
    BY DEF TypedInv, TypeOK, Height
  <2>2. resumed' <= height'
    BY <1>1 DEF Faithful, ServiceFits, TypedInv, TypeOK, Height
  <2> QED
    BY <1>1, <1>4, <2>1, <2>2 DEF Faithful, ServiceFits
<1>6. CoinsKept'
  <2>1. \A g \in Height : g < height' => g < height \/ g = height
    BY <1>1 DEF Height
  <2> QED
    BY <1>1, <2>1 DEF Faithful, CoinsKept
<1>7. NoneMissed'
  BY <1>1 DEF Faithful, NoneMissed, Exact, Slack, Unsent, Fetching, Updating, Underway
<1>8. \A a : Named(a)' = Named(a)
  BY <1>1, <1>4 DEF Named, Handed
<1>9. LatestAgree'
  BY <1>1, <1>8 DEF Faithful, LatestAgree, Latest, Up
<1> QED
  BY <1>2, <1>3, <1>5, <1>6, <1>7, <1>9 DEF Faithful

\* When the wait is over no request was lost, so each address of the block has
\* its balances.
LEMMA WaitFaithful ==
  ASSUME TypedInv, Faithful, Wait
  PROVE  Faithful'
<1>1. /\ serving # 0 /\ unsent = {} /\ wg = 0 /\ serving' = 0
      /\ UNCHANGED <<balances, coins, pc, height, unsent, wg, chGet, fetching, chUpdate,
                     updating, resumed, spoiled>>
  BY DEF Wait, workers
<1>2. AllAlone' /\ JobsFit'
  BY <1>1, NoJobs, IdleFaithful
<1>3. ServiceFits' /\ CoinsKept' /\ NoneMissed'
  BY <1>1 DEF Faithful, ServiceFits, CoinsKept, NoneMissed
<1>4. Exact
  <2>1. Slack <= wg
    BY Numbers DEF Slack
  <2> QED
    BY <1>1, <2>1, SlackType DEF Exact
<1>5. \A a : Named(a)' = Named(a)
  BY <1>1 DEF Named
<1>6. ASSUME Up, NEW a \in Address, NEW h \in Named(a), Latest(a, h), h \notin spoiled
      PROVE  Agrees(balances, a, h)
  <2>1. CASE h = serving
    <3>1. a \in AddressesOf[serving]
      BY <2>1 DEF Named
    <3> QED
      BY <1>1, <1>4, <1>6, <2>1, <3>1, NoJobs DEF Faithful, NoneMissed
  <2>2. CASE h # serving
    BY <1>6, <2>2 DEF Faithful, LatestAgree
  <2> QED
    BY <2>1, <2>2
<1>7. LatestAgree'
  BY <1>1, <1>5, <1>6 DEF Faithful, LatestAgree, Latest, Up
<1> QED
  BY <1>2, <1>3, <1>7 DEF Faithful

LEMMA CrashFaithful ==
  ASSUME TypedInv, Faithful, Crash
  PROVE  Faithful'
<1>1. /\ pc' = "down" /\ serving' = 0 /\ UNCHANGED <<coins, height, resumed>>
      /\ chGet' = <<>> /\ fetching' = {} /\ chUpdate' = <<>> /\ updating' = {}
  BY DEF Crash
<1>2. AllAlone' /\ JobsFit'
  BY <1>1, IdleFaithful
<1>3. ServiceFits' /\ CoinsKept' /\ NoneMissed' /\ LatestAgree'
  BY <1>1 DEF Faithful, ServiceFits, CoinsKept, NoneMissed, LatestAgree, Up
<1> QED
  BY <1>2, <1>3 DEF Faithful

\* A new process has named no address yet.
LEMMA RestartFaithful ==
  ASSUME TypedInv, Faithful, Restart
  PROVE  Faithful'
<1>1. /\ pc = "down" /\ pc' = "addresses" /\ resumed' = height'
      /\ height' \in {height - 1, height} \ {0}
      /\ UNCHANGED <<coins, serving, unsent, wg, chGet, fetching, chUpdate, updating>>
  BY DEF Restart, service, workers, Up
<1>2. serving = 0
  BY <1>1 DEF Faithful, ServiceFits
<1>3. AllAlone' /\ JobsFit'
  BY <1>1, <1>2, NoJobs, IdleFaithful
<1>4. height' \in Int /\ height' <= height
  BY <1>1, Numbers
<1>5. ServiceFits' /\ NoneMissed'
  BY <1>1, <1>2, <1>4 DEF ServiceFits, NoneMissed
<1>6. CoinsKept'
  <2>1. \A g \in Height : g < height' => g < height
    BY <1>4, Numbers DEF Height
  <2> QED
    BY <1>1, <2>1 DEF Faithful, CoinsKept
<1>7. \A a : Named(a)' = {}
  BY <1>1, <1>4 DEF Named, Height
<1>8. LatestAgree'
  BY <1>7 DEF LatestAgree, Latest
<1> QED
  BY <1>3, <1>5, <1>6, <1>8 DEF Faithful

LEMMA NextFaithful == TypedInv /\ Faithful /\ [Next]_vars => Faithful'
<1> SUFFICES ASSUME TypedInv, Faithful, [Next]_vars PROVE Faithful'
  OBVIOUS
<1>1. CASE Run
  BY <1>1, HandOffFaithful, CreateNewCoinsFaithful DEF Run
<1>2. CASE Service
  BY <1>2, SendChunkFaithful, WaitFaithful DEF Service
<1>3. CASE FetchWorker
  BY <1>3, TakeGetFaithful, FetchFaithful, SendResultFaithful DEF FetchWorker
<1>4. CASE UpdateWorker
  BY <1>4, TakeUpdateFaithful, ReadFaithful, WriteFaithful DEF UpdateWorker
<1>5. CASE \E j \in fetching : FetchEmpty(j) \/ FetchFails(j)
  BY <1>5, FetchFaithful, FetchFailsFaithful
<1>6. CASE \E j \in updating : WriteFails(j)
  BY <1>6, WriteFaithful
<1>7. CASE Crash \/ Restart
  BY <1>7, CrashFaithful, RestartFaithful
<1>8. CASE UNCHANGED vars
  <2>1. UNCHANGED <<balances, coins, pc, height, serving, unsent, wg, chGet, fetching, chUpdate,
                    updating, resumed, spoiled>>
    BY <1>8 DEF vars, service, workers
  <2>2. AllAlone' /\ JobsFit' /\ ServiceFits' /\ CoinsKept'
    BY <2>1 DEF Faithful, AllAlone, Alone, JobsFit, ServiceFits, CoinsKept, Handed
  <2>3. NoneMissed'
    BY <2>1 DEF Faithful, NoneMissed, Exact, Slack, Unsent, Fetching, Updating, Underway
  <2>4. \A a : Named(a)' = Named(a)
    BY <2>1 DEF Named
  <2>5. LatestAgree'
    BY <2>1, <2>4 DEF Faithful, LatestAgree, Latest, Up
  <2> QED
    BY <2>2, <2>3, <2>5 DEF Faithful
<1> QED
  BY <1>1, <1>2, <1>3, <1>4, <1>5, <1>6, <1>7, <1>8 DEF Next

LEMMA FaithfulIsCurrent == TypedInv /\ Faithful => BalancesCurrent
<1> SUFFICES ASSUME TypedInv, Faithful, Up, NEW a \in Address
             PROVE  LET h == IF Named(a) = {} THEN 0 ELSE Max(Named(a)) IN
                    h # 0 /\ h # serving /\ h \notin spoiled =>
                      \A c \in Coin \ CoinsOf[h] : balances[a][c] = BalanceAt[h][a][c]
  BY DEF BalancesCurrent
<1>1. CASE Named(a) = {}
  BY <1>1
<1>2. CASE Named(a) # {}
  <2>1. PICK l \in Named(a) : Latest(a, l)
    BY <1>2 DEF Faithful, LatestAgree
  <2>2. Named(a) \subseteq Height
    BY DEF Named
  <2>3. Max(Named(a)) = CHOOSE x \in Named(a) : \A y \in Named(a) : x >= y
    BY DEF Max
  <2>4. Max(Named(a)) \in Named(a) /\ \A y \in Named(a) : Max(Named(a)) >= y
    <3>1. \A y \in Named(a) : l >= y
      BY <2>1, <2>2 DEF Latest, Height
    <3> QED
      BY <2>3, <3>1
  <2>5. Latest(a, Max(Named(a)))
    BY <2>2, <2>4 DEF Latest, Height
  <2> QED
    BY <1>2, <2>4, <2>5 DEF Faithful, LatestAgree, Agrees
<1> QED
  BY <1>1, <1>2

\* The table holds the balances of each address at the last block that named it,
\* in all coins but those this block creates, once the service is through with
\* that block: however jobs, blocks and statements overlap, whatever requests are
\* lost, and across restarts.
THEOREM BalancesFollow == Spec => []BalancesCurrent
BY InitTyped, NextTyped, InitFaithful, NextFaithful, FaithfulIsCurrent, PTL DEF Spec
=============================================================================
