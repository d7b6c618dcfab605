--------------------------- MODULE ValidatorsProofs ---------------------------
(***************************************************************************)
(* Proofs about validators, for every chain, every list of candidates and  *)
(* every number of faults.                                                 *)
(***************************************************************************)
EXTENDS Validators, FiniteSetTheorems, TLAPS

-----------------------------------------------------------------------------
\* Types.  They need to know where each goroutine works: a worker with a job,
\* and the loop past its first step, are at a block of the chain.

Places ==
  /\ pc["loop"] \in {"check", "find", "insert", "save", "link", "send", "down"}
  /\ pc["loop"] = "check" => height["loop"] \in 1 .. MaxHeight + 1
  /\ pc["loop"] \notin {"check", "down"} => height["loop"] \in Height
  /\ \A w \in Worker :
       /\ pc[w] \in {"idle", "check", "find", "insert", "look", "create",
                     "reset", "update"}
       /\ height[w] \in 0 .. MaxHeight
       /\ pc[w] # "idle" => height[w] \in Height
       /\ pc[w] = "create" => pos[w] <= Len(CandidatesOf[height[w]])

TypedInv == TypeOK /\ Places

LEMMA Numbers == MaxHeight \in Nat /\ MaxFaults \in Nat
BY ParametersAssumption

LEMMA ListedAreKeys ==
  /\ \A h \in Height : Listed(h) \subseteq PubKey /\ ValidatorsOf[h] \subseteq PubKey
  /\ \A h \in Height : CandidatesOf[h] \in Seq(PubKey)
BY ParametersAssumption DEF Listed

\* The validators of a goroutine at a block are validators.
LEMMA WantedAreKeys ==
  ASSUME TypedInv, NEW p \in Proc, height[p] \in Height
  PROVE  Wanted(p) \subseteq PubKey
BY ListedAreKeys DEF Wanted

LEMMA CandidateIsListed ==
  ASSUME TypedInv, NEW w \in Worker, height[w] \in Height,
         pos[w] <= Len(CandidatesOf[height[w]])
  PROVE  Candidate(w) \in Listed(height[w]) /\ Candidate(w) \in PubKey
<1>1. pos[w] \in DOMAIN CandidatesOf[height[w]]
  BY ListedAreKeys DEF TypedInv, TypeOK
<1> QED
  BY <1>1, ListedAreKeys DEF Candidate, Listed

LEMMA SignedIsNatural == ASSUME TypedInv, NEW k \in PubKey PROVE Signed(k) \in Nat
<1> DEFINE S == {h \in linked : k \in ValidatorsOf[h]}
<1>1. IsFiniteSet(Height)
  BY Numbers, FS_Interval DEF Height
<1>2. S \subseteq Height
  BY DEF TypedInv, TypeOK
<1>3. IsFiniteSet(S)
  BY <1>1, <1>2, FS_Subset
<1>4. Cardinality(S) \in Nat
  BY <1>3, FS_CardinalityType
<1> QED
  BY <1>4 DEF Signed

LEMMA InitTyped == Init => TypedInv
<1> SUFFICES ASSUME Init PROVE TypedInv
  OBVIOUS
<1> USE Numbers
<1>1. chan \in [Worker -> {<<>>} \cup {<<h>> : h \in Height}]
  BY DEF Init
<1>2. pc \in [Proc -> {"idle", "check", "find", "insert", "save", "link", "send",
                      "look", "create", "reset", "update", "down"}]
  BY DEF Init
<1>3. height \in [Proc -> 0 .. MaxHeight + 1]
  BY DEF Init
<1>4. /\ status \in [PubKey -> 0 .. MaxHeight] /\ uptime \in [PubKey -> Nat]
      /\ cache \in [PubKey -> {"none", "id", "zero"}]
      /\ args \in [Proc -> SUBSET PubKey] /\ pos \in [Worker -> Nat \ {0}]
  BY DEF Init
<1>7. saved \in 0 .. MaxHeight /\ faults \in 0 .. MaxFaults
  BY DEF Init
<1>8. /\ stored \subseteq PubKey /\ linked \subseteq Height /\ ids \subseteq PubKey
      /\ active \subseteq PubKey /\ made \subseteq PubKey
      /\ naming \subseteq Tx /\ creating \subseteq naming
  BY DEF Init
<1>9. uptimeAt \in {"idle", "reset", "count"} /\ spoiled \in BOOLEAN /\ blind \in BOOLEAN
  BY DEF Init
<1>6. TypeOK
  BY <1>1, <1>2, <1>3, <1>4, <1>7, <1>8, <1>9, Zenon DEF TypeOK
<1>5. Places
  BY DEF Init, Places, Proc, Worker
<1> QED
  BY <1>5, <1>6 DEF TypedInv

\* A goroutine looks its validators up and inserts what is missing.
LEMMA SaveAllTyped ==
  ASSUME TypedInv, NEW p \in Proc, SaveAllIfNotExist(p)
  PROVE  TypedInv'
<1>1. height[p] \in Height
  BY Numbers DEF TypedInv, TypeOK, Places, SaveAllIfNotExist, CheckCache,
                 FindAllByPK, InsertMissing, Proc, Worker, Height
<1>2. Wanted(p) \subseteq PubKey
  BY <1>1, WantedAreKeys
<1>3. CASE CheckCache(p)
  BY <1>1, <1>3 DEF CheckCache, TypedInv, TypeOK, Places, Goto, AfterSave, Proc,
                    Worker, db, txs, upkeep
<1>4. CASE FindAllByPK(p)
  <2> DEFINE missing == Wanted(p) \ (stored \cup Cached)
  <2>1. missing \in SUBSET PubKey
    BY <1>2
  <2> HIDE DEF missing
  <2>2. args' = [args EXCEPT ![p] = missing]
        /\ Goto(p, IF missing = {} THEN AfterSave(p) ELSE "insert")
    BY <1>4 DEF FindAllByPK, missing
  <2>3. cache' \in [PubKey -> {"none", "id", "zero"}]
    BY <1>4 DEF FindAllByPK, TypedInv, TypeOK
  <2>4. /\ UNCHANGED <<db, chan, height, pos, ids, txs, upkeep, faults, spoiled, made>>
        /\ blind' \in BOOLEAN
    BY <1>4 DEF FindAllByPK, TypedInv, TypeOK
  <2>5. pc[p] = "find"
    BY <1>4 DEF FindAllByPK
  <2> QED
    BY <1>1, <2>1, <2>2, <2>3, <2>4, <2>5
    DEF TypedInv, TypeOK, Places, Goto, AfterSave, Proc, Worker, db, txs, upkeep
<1>5. CASE InsertMissing(p)
  <2>1. stored' \in SUBSET PubKey /\ made' \in SUBSET PubKey
    BY <1>5 DEF InsertMissing, TypedInv, TypeOK
  <2>2. cache' \in [PubKey -> {"none", "id", "zero"}]
    BY <1>5 DEF InsertMissing, AddToCache, TypedInv, TypeOK
  <2>3. pc[p] = "insert" /\ args' = [args EXCEPT ![p] = {}] /\ Goto(p, AfterSave(p))
        /\ UNCHANGED <<status, uptime, saved, linked, chan, height, pos, ids,
                       txs, upkeep, faults, spoiled, blind>>
    BY <1>5 DEF InsertMissing
  <2> QED
    BY <1>1, <2>1, <2>2, <2>3
    DEF TypedInv, TypeOK, Places, Goto, AfterSave, Proc, Worker, txs, upkeep
<1> QED
  BY <1>3, <1>4, <1>5 DEF SaveAllIfNotExist

\* A search that fails leaves the goroutine with what the cache lacks.
LEMMA FindAllFailsTyped ==
  ASSUME TypedInv, NEW p \in Proc, FindAllByPKFails(p)
  PROVE  TypedInv'
<1> DEFINE missing == Wanted(p) \ Cached
<1>1. height[p] \in Height
  BY DEF TypedInv, TypeOK, Places, FindAllByPKFails, Proc
<1>2. missing \in SUBSET PubKey
  BY <1>1, WantedAreKeys
<1> HIDE DEF missing
<1>3. /\ pc[p] = "find" /\ args' = [args EXCEPT ![p] = missing]
      /\ Goto(p, IF missing = {} THEN AfterSave(p) ELSE "insert")
      /\ UNCHANGED <<db, cache, chan, height, pos, ids, txs, upkeep, spoiled, made>>
      /\ blind' \in BOOLEAN
  BY DEF FindAllByPKFails, missing, TypedInv, TypeOK
<1>4. faults' \in 0 .. MaxFaults
  BY Numbers DEF FindAllByPKFails, TypedInv, TypeOK
<1> QED
  BY <1>1, <1>2, <1>3, <1>4
  DEF TypedInv, TypeOK, Places, Goto, AfterSave, Proc, Worker, db, txs, upkeep

LEMMA SaveBlockTyped == ASSUME TypedInv, SaveBlock PROVE TypedInv'
<1>1. height["loop"] \in 0 .. MaxHeight
  BY Numbers DEF TypedInv, Places, SaveBlock, Height
<1> QED
  BY <1>1 DEF SaveBlock, TypedInv, TypeOK, Places, Goto, Proc, Worker, txs, upkeep

LEMMA LinkTyped == ASSUME TypedInv, LinkBlockValidator PROVE TypedInv'
<1>1. naming' \in SUBSET Tx /\ creating' \in SUBSET naming'
  BY ParametersAssumption DEF LinkBlockValidator, TypedInv, TypeOK, Places
<1> QED
  BY <1>1 DEF LinkBlockValidator, TypedInv, TypeOK, Places, Goto, Proc, Worker, txs, upkeep

LEMMA SendJobTyped == ASSUME TypedInv, SendJob PROVE TypedInv'
<1> DEFINE h == height["loop"]
<1>1. h \in Height /\ h + 1 \in 1 .. MaxHeight + 1 /\ JobOf(h) \in Worker
  BY Numbers DEF TypedInv, Places, SendJob, Height, JobOf, Worker
<1>2. chan' \in [Worker -> {<<>>} \cup {<<g>> : g \in Height}]
  BY <1>1 DEF SendJob, TypedInv, TypeOK
<1>3. height' \in [Proc -> 0 .. MaxHeight + 1]
      /\ height'["loop"] = h + 1 /\ \A w \in Worker : height'[w] = height[w]
  BY <1>1, Numbers DEF SendJob, TypedInv, TypeOK, Proc, Worker
<1>4. /\ pc["loop"] = "send" /\ Goto("loop", "check")
      /\ UNCHANGED <<db, cache, args, pos, ids, txs, upkeep, faults, spoiled, made, blind>>
  BY DEF SendJob
<1> HIDE DEF h
<1>5. TypeOK'
  BY <1>2, <1>3, <1>4 DEF TypedInv, TypeOK, Goto, Proc, db, txs, upkeep
<1>6. Places'
  BY <1>1, <1>3, <1>4 DEF TypedInv, TypeOK, Places, Goto, Proc, Worker
<1> QED
  BY <1>5, <1>6 DEF TypedInv

-----------------------------------------------------------------------------
\* The workers.

LEMMA ReceiveTyped ==
  ASSUME TypedInv, NEW w \in Worker, Receive(w)
  PROVE  TypedInv'
<1>1. PICK h \in Height : chan[w] = <<h>>
  BY DEF Receive, TypedInv, TypeOK
<1>2. Head(chan[w]) = h /\ Tail(chan[w]) = <<>>
  BY <1>1
<1>3. chan' \in [Worker -> {<<>>} \cup {<<g>> : g \in Height}]
  BY <1>2 DEF Receive, TypedInv, TypeOK
<1>4. h \in 0 .. MaxHeight /\ h \in 0 .. MaxHeight + 1
  BY Numbers DEF Height
<1>5. /\ pc[w] = "idle" /\ height' = [height EXCEPT ![w] = h]
      /\ pos' = [pos EXCEPT ![w] = 1]
      /\ (Goto(w, "idle") \/ Goto(w, "check"))
      /\ ids' \in SUBSET PubKey /\ spoiled' \in BOOLEAN
      /\ UNCHANGED <<db, cache, args, txs, upkeep, faults, made, blind>>
  BY <1>2 DEF Receive, TypedInv, TypeOK
<1>6. TypeOK'
  BY <1>3, <1>4, <1>5 DEF TypedInv, TypeOK, Goto, Proc, Worker, db, txs, upkeep
<1>7. Places'
  BY <1>4, <1>5 DEF TypedInv, TypeOK, Places, Goto, Proc, Worker
<1> QED
  BY <1>6, <1>7 DEF TypedInv

LEMMA RequestFailsTyped ==
  ASSUME TypedInv, NEW w \in Worker, RequestFails(w)
  PROVE  TypedInv'
<1>1. PICK h \in Height : chan[w] = <<h>>
  BY DEF RequestFails, TypedInv, TypeOK
<1>2. chan' \in [Worker -> {<<>>} \cup {<<g>> : g \in Height}]
  BY <1>1 DEF RequestFails, TypedInv, TypeOK
<1>3. faults' \in 0 .. MaxFaults
  BY Numbers DEF RequestFails, TypedInv, TypeOK
<1> QED
  BY <1>2, <1>3 DEF RequestFails, TypedInv, TypeOK, Places, db, txs, upkeep

\* What a worker may do to the place in its list, to the validators to be
\* written and to those it knows.
LEMMA ProceedTyped ==
  ASSUME TypedInv, NEW w \in Worker, NEW ok \in BOOLEAN, Proceed(w, ok),
         Candidate(w) \in PubKey
  PROVE  /\ pos' \in [Worker -> Nat \ {0}] /\ ids' \in SUBSET PubKey
         /\ spoiled' \in BOOLEAN
         /\ pos' = [pos EXCEPT ![w] = @ + 1]
<1>1. pos[w] + 1 \in Nat \ {0}
  BY DEF TypedInv, TypeOK
<1>2. pos' = [pos EXCEPT ![w] = @ + 1]
  BY DEF Proceed
<1>3. pos' \in [Worker -> Nat \ {0}]
  BY <1>1, <1>2 DEF TypedInv, TypeOK
<1>4. ids' \in SUBSET PubKey /\ spoiled' \in BOOLEAN
  BY DEF Proceed, TypedInv, TypeOK
<1> QED
  BY <1>2, <1>3, <1>4

LEMMA FindIdByPkTyped ==
  ASSUME TypedInv, NEW w \in Worker, FindIdByPk(w)
  PROVE  TypedInv'
<1>1. height[w] \in Height
  BY DEF FindIdByPk, TypedInv, Places
<1>2. Candidate(w) \in PubKey
  BY <1>1, CandidateIsListed DEF FindIdByPk
<1>3. pos' \in [Worker -> Nat \ {0}] /\ ids' \in SUBSET PubKey /\ spoiled' \in BOOLEAN
  BY <1>2, ProceedTyped DEF FindIdByPk
<1>4. cache' \in [PubKey -> {"none", "id", "zero"}]
  BY <1>2 DEF FindIdByPk, TypedInv, TypeOK
<1>5. pos' = [pos EXCEPT ![w] = @ + 1] /\ pc[w] = "look"
      /\ UNCHANGED <<db, chan, pc, height, args, txs, upkeep, faults, made, blind>>
  BY DEF FindIdByPk, Proceed
<1> QED
  BY <1>3, <1>4, <1>5 DEF TypedInv, TypeOK, Places, db, txs, upkeep

LEMMA FindNoIdByPkTyped ==
  ASSUME TypedInv, NEW w \in Worker, FindNoIdByPk(w)
  PROVE  TypedInv'
BY DEF FindNoIdByPk, TypedInv, TypeOK, Places, Goto, Proc, Worker, db, txs, upkeep

LEMMA FindIdByPkFailsTyped ==
  ASSUME TypedInv, NEW w \in Worker, FindIdByPkFails(w)
  PROVE  TypedInv'
<1>1. faults' \in 0 .. MaxFaults
  BY Numbers DEF FindIdByPkFails, TypedInv, TypeOK
<1> QED
  BY <1>1 DEF FindIdByPkFails, TypedInv, TypeOK, Places, Goto, Proc, Worker, db, txs, upkeep

LEMMA CreateTyped ==
  ASSUME TypedInv, NEW w \in Worker, Create(w)
  PROVE  TypedInv'
<1>1. height[w] \in Height /\ pos[w] <= Len(CandidatesOf[height[w]])
  BY DEF Create, TypedInv, Places
<1>2. Candidate(w) \in PubKey
  BY <1>1, CandidateIsListed
<1>3. pos' \in [Worker -> Nat \ {0}] /\ ids' \in SUBSET PubKey /\ spoiled' \in BOOLEAN
  BY <1>2, ProceedTyped DEF Create, TypedInv, TypeOK
<1>4. cache' \in [PubKey -> {"none", "id", "zero"}]
  BY <1>2 DEF Create, TypedInv, TypeOK
<1>5. stored' \in SUBSET PubKey /\ made' \in SUBSET PubKey
  BY <1>2 DEF Create, TypedInv, TypeOK
<1>6. /\ Goto(w, "look") /\ pc[w] = "create"
      /\ \A v \in Worker : v # w => pos'[v] = pos[v]
      /\ UNCHANGED <<status, uptime, saved, linked, chan, height, args, txs, upkeep, faults,
                     blind>>
  BY DEF Create, Proceed, TypedInv, TypeOK
<1> QED
  BY <1>1, <1>3, <1>4, <1>5, <1>6
  DEF TypedInv, TypeOK, Places, Goto, Proc, Worker, txs, upkeep

LEMMA AddressFailsTyped == ASSUME TypedInv, AddressFails PROVE TypedInv'
<1> DEFINE w == "validators"
<1>1. w \in Worker /\ height[w] \in Height
  BY DEF AddressFails, TypedInv, Places, Worker
<1>2. Candidate(w) \in PubKey
  BY <1>1, CandidateIsListed DEF AddressFails
<1>3. pos' \in [Worker -> Nat \ {0}] /\ ids' \in SUBSET PubKey /\ spoiled' \in BOOLEAN
  BY <1>1, <1>2, ProceedTyped DEF AddressFails
<1>4. cache' \in [PubKey -> {"none", "id", "zero"}]
  BY <1>2 DEF AddressFails, TypedInv, TypeOK
<1>5. faults' \in 0 .. MaxFaults
  BY Numbers DEF AddressFails, TypedInv, TypeOK
<1>6. pos' = [pos EXCEPT ![w] = @ + 1] /\ pc[w] = "look"
      /\ UNCHANGED <<db, chan, pc, height, args, txs, upkeep, made, blind>>
  BY DEF AddressFails, Proceed
<1> QED
  BY <1>3, <1>4, <1>5, <1>6 DEF TypedInv, TypeOK, Places, db, txs, upkeep

LEMMA EndOfListTyped ==
  ASSUME TypedInv, NEW w \in Worker, EndOfList(w)
  PROVE  TypedInv'
BY DEF EndOfList, TypedInv, TypeOK, Places, Goto, Proc, Worker, db, txs, upkeep

LEMMA StatusesTyped ==
  ASSUME TypedInv, WriteStatuses \/ StatementFails
  PROVE  TypedInv'
<1>1. "validators" \in Worker /\ height["validators"] \in 0 .. MaxHeight
      /\ 0 \in 0 .. MaxHeight
  BY Numbers DEF TypedInv, Places, Worker
<1>2. CASE ResetAllStatuses
  BY <1>1, <1>2 DEF ResetAllStatuses, TypedInv, TypeOK, Places, Goto, Proc, Worker, txs, upkeep
<1>3. CASE UpdateAll
  <2>1. status' \in [PubKey -> 0 .. MaxHeight]
    BY <1>1, <1>3 DEF UpdateAll, TypedInv, TypeOK
  <2> QED
    BY <1>3, <2>1 DEF UpdateAll, TypedInv, TypeOK, Places, Goto, Proc, Worker, txs, upkeep
<1>4. CASE StatementFails
  <2>1. faults' \in 0 .. MaxFaults
    BY <1>4, Numbers DEF StatementFails, TypedInv, TypeOK
  <2> QED
    BY <1>4, <2>1 DEF StatementFails, TypedInv, TypeOK, Places, Goto, Proc, Worker, db,
                      txs, upkeep
<1> QED
  BY <1>2, <1>3, <1>4 DEF WriteStatuses

\* The workers of transactions.
LEMMA NamedTyped ==
  ASSUME TypedInv, NEW t \in Tx,
         FindNamed(t) \/ FindNoNamed(t) \/ FindNamedFails(t) \/ CreateNamed(t)
  PROVE  TypedInv'
<1>1. Names[t] \in PubKey
  BY ParametersAssumption
<1>2. CASE FindNamed(t)
  BY <1>1, <1>2 DEF FindNamed, TypedInv, TypeOK, Places, db, upkeep
<1>3. CASE FindNoNamed(t)
  BY <1>3 DEF FindNoNamed, TypedInv, TypeOK, Places, db, upkeep
<1>4. CASE FindNamedFails(t)
  <2>1. faults' \in 0 .. MaxFaults
    BY <1>4, Numbers DEF FindNamedFails, TypedInv, TypeOK
  <2> QED
    BY <1>4, <2>1 DEF FindNamedFails, TypedInv, TypeOK, Places, db, upkeep
<1>5. CASE CreateNamed(t)
  BY <1>1, <1>5 DEF CreateNamed, TypedInv, TypeOK, Places, upkeep
<1> QED
  BY <1>2, <1>3, <1>4, <1>5

LEMMA UptimesTyped == ASSUME TypedInv, UpdateUptimes PROVE TypedInv'
<1>1. CASE GetActiveValidators
  BY <1>1 DEF GetActiveValidators, TypedInv, TypeOK, Places, db, txs
<1>2. CASE ResetAllUptimes
  BY <1>2 DEF ResetAllUptimes, TypedInv, TypeOK, Places, txs
<1>3. ASSUME NEW k \in PubKey, UpdateValidatorUptime(k) PROVE TypedInv'
  <2> DEFINE n == IF Ready(k) THEN Signed(k) ELSE 0
  <2>1. n \in Nat
    BY SignedIsNatural
  <2> HIDE DEF n
  <2>2. uptime' = [uptime EXCEPT ![k] = n]
    BY <1>3 DEF UpdateValidatorUptime, n
  <2>3. uptime' \in [PubKey -> Nat]
    BY <2>1, <2>2 DEF TypedInv, TypeOK
  <2> QED
    BY <1>3, <2>3 DEF UpdateValidatorUptime, TypedInv, TypeOK, Places, txs
<1> QED
  BY <1>1, <1>2, <1>3 DEF UpdateUptimes

-----------------------------------------------------------------------------
\* Death and restart.

LEMMA DieTyped ==
  ASSUME TypedInv, Die, faults' \in 0 .. MaxFaults
  PROVE  TypedInv'
<1>1. height' \in [Proc -> 0 .. MaxHeight + 1]
  BY Numbers DEF Die
<1>2. chan' \in [Worker -> {<<>>} \cup {<<g>> : g \in Height}]
  BY DEF Die
<1>3. TypeOK'
  <2>1. pc' \in [Proc -> {"idle", "check", "find", "insert", "save", "link", "send",
                         "look", "create", "reset", "update", "down"}]
    BY DEF Die
  <2>2. /\ cache' \in [PubKey -> {"none", "id", "zero"}]
        /\ args' \in [Proc -> SUBSET PubKey] /\ pos' \in [Worker -> Nat \ {0}]
    BY DEF Die
  <2> QED
    BY <1>1, <1>2, <2>1, <2>2 DEF Die, TypedInv, TypeOK, db
<1>4. Places'
  BY Numbers DEF Die, Places, Proc, Worker
<1> QED
  BY <1>3, <1>4 DEF TypedInv

LEMMA RestartTyped == ASSUME TypedInv, Restart PROVE TypedInv'
<1>1. saved' \in 0 .. MaxHeight
  BY Numbers DEF Restart, TypedInv, TypeOK
<1>2. linked' \in SUBSET Height
  BY DEF Restart, TypedInv, TypeOK
<1>3. saved' + 1 \in 1 .. MaxHeight + 1 /\ saved' + 1 \in 0 .. MaxHeight + 1
  <2> \A n \in 0 .. MaxHeight : n + 1 \in 1 .. MaxHeight + 1 /\ n + 1 \in 0 .. MaxHeight + 1
    BY Numbers
  <2> QED
    BY <1>1
<1>4. /\ height' = [height EXCEPT !["loop"] = saved' + 1] /\ Goto("loop", "check")
      /\ UNCHANGED <<stored, status, uptime, cache, chan, args, pos, ids, txs, upkeep,
                     faults, spoiled, made, blind>>
  BY DEF Restart
<1>5. TypeOK'
  BY <1>1, <1>2, <1>3, <1>4 DEF TypedInv, TypeOK, Goto, Proc, txs, upkeep
<1>6. Places'
  BY <1>3, <1>4 DEF TypedInv, TypeOK, Places, Goto, Proc, Worker
<1> QED
  BY <1>5, <1>6 DEF TypedInv

LEMMA StepTyped == TypedInv /\ [Next]_vars => TypedInv'
<1> SUFFICES ASSUME TypedInv, [Next]_vars PROVE TypedInv'
  OBVIOUS
<1>1. CASE Run
  BY <1>1, SaveAllTyped, SaveBlockTyped, LinkTyped, SendJobTyped DEF Run, Proc
<1>2. ASSUME NEW w \in Worker, Update(w) PROVE TypedInv'
  BY <1>2, SaveAllTyped, ReceiveTyped, FindIdByPkTyped, FindNoIdByPkTyped,
     CreateTyped, EndOfListTyped DEF Update, Proc
<1>3. ASSUME NEW w \in Worker, RequestFails(w) PROVE TypedInv'
  BY <1>3, RequestFailsTyped
<1>4. CASE WriteStatuses \/ StatementFails
  BY <1>4, StatusesTyped
<1>5. CASE AddressFails
  BY <1>5, AddressFailsTyped
<1>6. CASE UpdateUptimes
  BY <1>6, UptimesTyped
<1>7. CASE Crash
  <2>1. faults' \in 0 .. MaxFaults
    BY <1>7, Numbers DEF Crash, TypedInv, TypeOK
  <2> QED
    BY <1>7, <2>1, DieTyped DEF Crash
<1>8. CASE Panic
  BY <1>8, DieTyped DEF Panic, TypedInv, TypeOK
<1>9. CASE Restart
  BY <1>9, RestartTyped
<1>10. CASE UNCHANGED vars
  BY <1>10 DEF vars, db, txs, upkeep, TypedInv, TypeOK, Places
<1>11. ASSUME NEW p \in Proc, FindAllByPKFails(p) PROVE TypedInv'
  BY <1>11, FindAllFailsTyped
<1>12. ASSUME NEW w \in Worker, FindIdByPkFails(w) PROVE TypedInv'
  BY <1>12, FindIdByPkFailsTyped
<1>13. ASSUME NEW t \in Tx, FindNamedFails(t) PROVE TypedInv'
  BY <1>13, NamedTyped
<1>14. CASE LinkTransactions
  BY <1>14, NamedTyped DEF LinkTransactions
<1> QED
  BY <1>1, <1>2, <1>3, <1>4, <1>5, <1>6, <1>7, <1>8, <1>9, <1>10, <1>11, <1>12, <1>13,
     <1>14 DEF Next

\* Every variable has its type in every state.
THEOREM TypeCorrect == Spec => []TypeOK
<1>1. TypedInv => TypeOK
  BY DEF TypedInv
<1> QED
  BY <1>1, InitTyped, StepTyped, PTL DEF Spec

-----------------------------------------------------------------------------
\* The cache.  What a goroutine is about to insert covers everything it wants and
\* does not find in the cache, so addToCache never stores an id that no insert gave.

ArgsCover ==
  \A p \in Proc : pc[p] = "insert" =>
    \A k \in Wanted(p) : cache[k] = "none" => k \in args[p]

CacheInv == TypedInv /\ CachedIdsExist /\ ArgsCover

LEMMA InitCache == Init => CacheInv
<1> SUFFICES ASSUME Init PROVE CacheInv
  OBVIOUS
<1>1. CachedIdsExist
  BY DEF Init, CachedIdsExist
<1>2. ArgsCover
  BY DEF Init, ArgsCover, Proc, Worker
<1> QED
  BY <1>1, <1>2, InitTyped DEF CacheInv

\* What a step may do to the table and the cache while the process lives.
Grows ==
  /\ stored \subseteq stored'
  /\ \A k \in PubKey : cache[k] = "id" => cache'[k] = "id"

LEMMA InsertMissingCache ==
  ASSUME CacheInv, NEW p \in Proc, InsertMissing(p)
  PROVE  CachedIdsExist' /\ Grows
         /\ (p = "loop" => \A k \in Wanted(p) \cap PubKey : cache'[k] = "id")
<1>1. CASE Conflict(p)
  BY <1>1 DEF InsertMissing, CacheInv, CachedIdsExist, Grows
<1>2. CASE ~Conflict(p)
  <2>1. stored' = stored \cup args[p] /\ AddToCache(p) /\ pc[p] = "insert"
    BY <1>2 DEF InsertMissing
  <2>2. ASSUME NEW k \in PubKey
        PROVE  /\ cache'[k] = "none" \/ (cache'[k] = "id" /\ k \in stored')
               /\ cache[k] = "id" => cache'[k] = "id"
               /\ k \in Wanted(p) => cache'[k] = "id"
    <3>1. cache[k] = "none" \/ (cache[k] = "id" /\ k \in stored)
      BY DEF CacheInv, CachedIdsExist
    <3>2. k \in Wanted(p) /\ cache[k] = "none" => k \in args[p]
      BY <2>1 DEF CacheInv, ArgsCover
    <3>3. cache'[k] = IF k \in Wanted(p) /\ cache[k] = "none"
                      THEN IF k \in args[p] THEN "id" ELSE "zero" ELSE cache[k]
      BY <2>1 DEF AddToCache
    <3> QED
      BY <2>1, <3>1, <3>2, <3>3
  <2> QED
    BY <2>1, <2>2 DEF CachedIdsExist, Grows
<1> QED
  BY <1>1, <1>2

LEMMA FindAllCache ==
  ASSUME CacheInv, NEW p \in Proc, FindAllByPK(p)
  PROVE  /\ CachedIdsExist' /\ Grows /\ stored' = stored
         /\ args'[p] \cap stored = {}
         /\ \A k \in Wanted(p) \cap PubKey : cache'[k] = "none" => k \in args'[p]
         /\ args'[p] = {} => \A k \in Wanted(p) \cap PubKey : cache'[k] = "id"
<1> DEFINE found   == Wanted(p) \cap (stored \ Cached)
           missing == Wanted(p) \ (stored \cup Cached)
<1>1. /\ cache' = [k \in PubKey |-> IF k \in found THEN "id" ELSE cache[k]]
      /\ args' = [args EXCEPT ![p] = missing] /\ stored' = stored
  BY DEF FindAllByPK, db
<1>2. args'[p] = missing
  BY <1>1 DEF CacheInv, TypedInv, TypeOK
<1>3. ASSUME NEW k \in PubKey
      PROVE  /\ cache[k] = "none" \/ (cache[k] = "id" /\ k \in stored)
             /\ k \in Cached <=> cache[k] # "none"
             /\ cache'[k] = IF k \in found THEN "id" ELSE cache[k]
  BY <1>1 DEF CacheInv, CachedIdsExist, Cached
<1>4. \A k \in missing : k \notin stored
  OBVIOUS
<1> QED
  BY <1>1, <1>2, <1>3, <1>4 DEF CachedIdsExist, Grows

\* Every step keeps the cache sound, and only the death of the process forgets.
LEMMA FindAllFailsCache ==
  ASSUME CacheInv, NEW p \in Proc, FindAllByPKFails(p)
  PROVE  /\ stored' = stored /\ cache' = cache
         /\ \A k \in Wanted(p) \cap PubKey : cache'[k] = "none" => k \in args'[p]
         /\ args'[p] = {} => \A k \in Wanted(p) \cap PubKey : cache'[k] = "id"
<1>1. /\ args' = [args EXCEPT ![p] = Wanted(p) \ Cached]
      /\ stored' = stored /\ cache' = cache
  BY DEF FindAllByPKFails, db
<1>2. args'[p] = Wanted(p) \ Cached
  BY <1>1 DEF CacheInv, TypedInv, TypeOK
<1>3. \A k \in PubKey : (cache[k] = "none" \/ cache[k] = "id")
                        /\ (k \in Cached <=> cache[k] # "none")
  BY DEF CacheInv, CachedIdsExist, Cached
<1> QED
  BY <1>1, <1>2, <1>3

LEMMA StepCached ==
  ASSUME CacheInv, [Next]_vars
  PROVE  CachedIdsExist' /\ (Die \/ Grows)
<1> USE DEF Grows
<1>1. CASE UNCHANGED <<stored, cache>>
  BY <1>1 DEF CacheInv, CachedIdsExist
<1>2. ASSUME NEW p \in Proc, SaveAllIfNotExist(p) PROVE CachedIdsExist' /\ Grows
  <2>1. CASE CheckCache(p)
    BY <1>1, <2>1 DEF CheckCache, db, CacheInv, CachedIdsExist
  <2> QED
    BY <1>2, <2>1, InsertMissingCache, FindAllCache DEF SaveAllIfNotExist
<1>3. ASSUME NEW k \in PubKey, cache' = [cache EXCEPT ![k] = "id"],
             (Resolves(k) /\ stored' = stored) \/ stored' = stored \cup {k}
      PROVE  CachedIdsExist' /\ Grows
  BY <1>3 DEF CacheInv, CachedIdsExist, Resolves, TypedInv, TypeOK
<1>4. CASE Run
  BY <1>1, <1>2, <1>4 DEF Run, SaveBlock, LinkBlockValidator, SendJob, db, Proc
<1>5. ASSUME NEW w \in Worker, Update(w) PROVE CachedIdsExist' /\ Grows
  <2>1. CASE FindIdByPk(w)
    <3>1. Candidate(w) \in PubKey
      BY <2>1, CandidateIsListed DEF FindIdByPk, CacheInv, TypedInv, Places
    <3> QED
      BY <1>3, <2>1, <3>1 DEF FindIdByPk, db
  <2>2. CASE Create(w)
    <3>1. Candidate(w) \in PubKey
      BY <2>2, CandidateIsListed DEF Create, CacheInv, TypedInv, Places
    <3> QED
      BY <1>1, <1>3, <2>2, <3>1 DEF Create
  <2>3. CASE Receive(w) \/ FindNoIdByPk(w) \/ EndOfList(w)
    BY <2>3, <1>1 DEF Receive, FindNoIdByPk, EndOfList, db, CacheInv, CachedIdsExist
  <2> QED
    BY <1>2, <1>5, <2>1, <2>2, <2>3 DEF Update, Proc
<1>6. CASE AddressFails
  <2>1. Candidate("validators") \in PubKey
    BY <1>6, CandidateIsListed DEF AddressFails, CacheInv, TypedInv, Places, Worker
  <2> QED
    BY <1>3, <1>6, <2>1 DEF AddressFails, db
<1>7. CASE Crash \/ Panic
  BY <1>7 DEF Crash, Panic, Die, CachedIdsExist, Proc, CacheInv, TypedInv, TypeOK
<1>8. CASE Restart \/ WriteStatuses \/ StatementFails \/ UpdateUptimes \/ UNCHANGED vars
  BY <1>1, <1>8 DEF Restart, WriteStatuses, ResetAllStatuses, UpdateAll, StatementFails,
     UpdateUptimes, GetActiveValidators, ResetAllUptimes, UpdateValidatorUptime, db, vars,
     CacheInv, CachedIdsExist
<1>9. ASSUME NEW w \in Worker, RequestFails(w) PROVE CachedIdsExist' /\ Grows
  BY <1>1, <1>9 DEF RequestFails, db, CacheInv, CachedIdsExist
<1>10. ASSUME NEW p \in Proc, FindAllByPKFails(p) PROVE CachedIdsExist' /\ Grows
  BY <1>1, <1>10, FindAllFailsCache DEF CacheInv, CachedIdsExist
<1>11. ASSUME NEW w \in Worker, FindIdByPkFails(w) PROVE CachedIdsExist' /\ Grows
  BY <1>1, <1>11 DEF FindIdByPkFails, db, CacheInv, CachedIdsExist
<1>12. ASSUME NEW t \in Tx,
              FindNamed(t) \/ FindNoNamed(t) \/ FindNamedFails(t) \/ CreateNamed(t)
       PROVE  CachedIdsExist' /\ Grows
  <2>1. Names[t] \in PubKey
    BY ParametersAssumption
  <2>2. CASE FindNamed(t) \/ CreateNamed(t)
    BY <1>3, <2>1, <2>2 DEF FindNamed, CreateNamed, db
  <2>3. CASE FindNoNamed(t) \/ FindNamedFails(t)
    BY <1>1, <2>3 DEF FindNoNamed, FindNamedFails, db, CacheInv, CachedIdsExist
  <2> QED
    BY <1>12, <2>2, <2>3
<1> QED
  BY <1>4, <1>5, <1>6, <1>7, <1>8, <1>9, <1>10, <1>11, <1>12 DEF Next, LinkTransactions

\* How a goroutine gets to its insert, and how Run gets past it.
LEMMA ToInsert ==
  ASSUME TypedInv, [Next]_vars, NEW p \in Proc, pc'[p] = "insert"
  PROVE  /\ height'[p] = height[p]
         /\ \/ FindAllByPK(p) \/ FindAllByPKFails(p)
            \/ pc[p] = "insert" /\ args'[p] = args[p]
               /\ (p = "loop" => blind' = blind)
<1> USE DEF Goto, AfterSave, Proc, Worker, TypedInv, TypeOK
<1> DEFINE Goal == /\ height'[p] = height[p]
                   /\ \/ FindAllByPK(p) \/ FindAllByPKFails(p)
                      \/ pc[p] = "insert" /\ args'[p] = args[p]
                         /\ (p = "loop" => blind' = blind)
<1>1. ASSUME NEW q \in Proc, SaveAllIfNotExist(q) PROVE Goal
  BY <1>1 DEF SaveAllIfNotExist, CheckCache, FindAllByPK, InsertMissing
<1>2. CASE Run
  BY <1>1, <1>2 DEF Run, SaveBlock, LinkBlockValidator, SendJob
<1>3. ASSUME NEW w \in Worker, Update(w) PROVE Goal
  BY <1>1, <1>3 DEF Update, Receive, FindIdByPk, FindNoIdByPk, Create, EndOfList
<1>4. ASSUME NEW w \in Worker, RequestFails(w) PROVE Goal
  BY <1>4 DEF RequestFails
<1>5. CASE WriteStatuses \/ AddressFails \/ StatementFails \/ UpdateUptimes
  BY <1>5 DEF WriteStatuses, ResetAllStatuses, UpdateAll, AddressFails, StatementFails,
     UpdateUptimes, GetActiveValidators, ResetAllUptimes, UpdateValidatorUptime
<1>6. CASE Crash \/ Panic \/ Restart
  BY <1>6 DEF Crash, Panic, Die, Restart
<1>7. CASE UNCHANGED vars
  BY <1>7 DEF vars
<1>8. ASSUME NEW q \in Proc, FindAllByPKFails(q) PROVE Goal
  BY <1>8 DEF FindAllByPKFails
<1>9. ASSUME NEW w \in Worker, FindIdByPkFails(w) PROVE Goal
  BY <1>9 DEF FindIdByPkFails
<1>10. ASSUME NEW t \in Tx,
              FindNamed(t) \/ FindNoNamed(t) \/ FindNamedFails(t) \/ CreateNamed(t)
       PROVE  Goal
  BY <1>10 DEF FindNamed, FindNoNamed, FindNamedFails, CreateNamed
<1> QED
  BY <1>2, <1>3, <1>4, <1>5, <1>6, <1>7, <1>8, <1>9, <1>10 DEF Next, LinkTransactions

LEMMA ToSave ==
  ASSUME TypedInv, [Next]_vars, pc'["loop"] \in {"save", "link"}
  PROVE  /\ height'["loop"] = height["loop"]
         /\ \/ CheckCache("loop") /\ Wanted("loop") \subseteq Cached
            \/ (FindAllByPK("loop") \/ FindAllByPKFails("loop")) /\ args'["loop"] = {}
            \/ InsertMissing("loop")
            \/ pc["loop"] \in {"save", "link"}
<1> USE DEF Goto, AfterSave, Proc, Worker, TypedInv, TypeOK
<1> DEFINE Goal ==
      /\ height'["loop"] = height["loop"]
      /\ \/ CheckCache("loop") /\ Wanted("loop") \subseteq Cached
         \/ (FindAllByPK("loop") \/ FindAllByPKFails("loop")) /\ args'["loop"] = {}
         \/ InsertMissing("loop")
         \/ pc["loop"] \in {"save", "link"}
<1>1. ASSUME NEW q \in Proc, SaveAllIfNotExist(q) PROVE Goal
  BY <1>1 DEF SaveAllIfNotExist, CheckCache, FindAllByPK, InsertMissing
<1>2. CASE Run
  BY <1>1, <1>2 DEF Run, SaveBlock, LinkBlockValidator, SendJob
<1>3. ASSUME NEW w \in Worker, Update(w) PROVE Goal
  BY <1>1, <1>3 DEF Update, Receive, FindIdByPk, FindNoIdByPk, Create, EndOfList
<1>4. ASSUME NEW w \in Worker, RequestFails(w) PROVE Goal
  BY <1>4 DEF RequestFails
<1>5. CASE WriteStatuses \/ AddressFails \/ StatementFails \/ UpdateUptimes
  BY <1>5 DEF WriteStatuses, ResetAllStatuses, UpdateAll, AddressFails, StatementFails,
     UpdateUptimes, GetActiveValidators, ResetAllUptimes, UpdateValidatorUptime
<1>6. CASE Crash \/ Panic \/ Restart
  BY <1>6 DEF Crash, Panic, Die, Restart
<1>7. CASE UNCHANGED vars
  BY <1>7 DEF vars
<1>8. ASSUME NEW q \in Proc, FindAllByPKFails(q) PROVE Goal
  BY <1>8 DEF FindAllByPKFails
<1>9. ASSUME NEW w \in Worker, FindIdByPkFails(w) PROVE Goal
  BY <1>9 DEF FindIdByPkFails
<1>10. ASSUME NEW t \in Tx,
              FindNamed(t) \/ FindNoNamed(t) \/ FindNamedFails(t) \/ CreateNamed(t)
       PROVE  Goal
  BY <1>10 DEF FindNamed, FindNoNamed, FindNamedFails, CreateNamed
<1> QED
  BY <1>2, <1>3, <1>4, <1>5, <1>6, <1>7, <1>8, <1>9, <1>10 DEF Next, LinkTransactions

LEMMA StepCache == CacheInv /\ [Next]_vars => CacheInv'
<1> SUFFICES ASSUME CacheInv, [Next]_vars PROVE CacheInv'
  OBVIOUS
<1>1. TypedInv'
  BY StepTyped DEF CacheInv
<1>2. CachedIdsExist'
  BY StepCached
<1>3. ASSUME NEW p \in Proc, pc'[p] = "insert",
             NEW k \in Wanted(p)', cache'[k] = "none"
      PROVE  k \in args'[p]
  <2>1. height'[p] = height[p]
        /\ (FindAllByPK(p) \/ FindAllByPKFails(p)
            \/ (pc[p] = "insert" /\ args'[p] = args[p]))
    BY <1>3, ToInsert DEF CacheInv
  <2>2. pc[p] \notin {"idle", "down"} /\ pc[p] # "check"
    BY <2>1 DEF FindAllByPK, FindAllByPKFails
  <2>3. k \in Wanted(p) /\ k \in PubKey
    BY <2>1, <2>2, WantedAreKeys DEF Wanted, CacheInv, TypedInv, Places, Proc
  <2>4. CASE FindAllByPK(p) \/ FindAllByPKFails(p)
    BY <1>3, <2>3, <2>4, FindAllCache, FindAllFailsCache
  <2>5. CASE pc[p] = "insert" /\ args'[p] = args[p]
    <3>1. ~Die
      BY <1>3 DEF Die
    <3> QED
      BY <1>2, <1>3, <2>3, <2>5, <3>1, StepCached
      DEF Grows, CacheInv, ArgsCover, CachedIdsExist
  <2> QED
    BY <2>1, <2>4, <2>5
<1>4. ArgsCover'
  BY <1>3 DEF ArgsCover
<1> QED
  BY <1>1, <1>2, <1>4 DEF CacheInv

\* An id in the cache is that of a row, whoever fills the cache and whatever
\* inserts fail.
THEOREM CachedIds == Spec => []CachedIdsExist
<1>1. CacheInv => CachedIdsExist
  BY DEF CacheInv
<1> QED
  BY <1>1, InitCache, StepCache, PTL DEF Spec

-----------------------------------------------------------------------------
\* Once Run has saved the validators of a block the cache has their ids.

AllCached ==
  pc["loop"] \in {"save", "link"} => \A k \in Wanted("loop") : cache[k] = "id"

LinksInv == CacheInv /\ AllCached

LEMMA StepLinks == LinksInv /\ [Next]_vars => LinksInv'
<1> SUFFICES ASSUME LinksInv, [Next]_vars PROVE LinksInv'
  OBVIOUS
<1>1. CacheInv'
  BY StepCache DEF LinksInv
<1>2. ASSUME pc'["loop"] \in {"save", "link"}, NEW k \in Wanted("loop")'
      PROVE  cache'[k] = "id"
  <2>1. height'["loop"] = height["loop"] /\ height'["loop"] \in Height
    BY <1>1, <1>2, ToSave DEF LinksInv, CacheInv, TypedInv, Places
  <2>2. k \in Wanted("loop") /\ k \in PubKey
    BY <1>2, <2>1, WantedAreKeys DEF Wanted, LinksInv, CacheInv, Proc
  <2>3. CASE CheckCache("loop") /\ Wanted("loop") \subseteq Cached
    BY <2>2, <2>3 DEF CheckCache, LinksInv, CacheInv, CachedIdsExist, Cached
  <2>4. CASE (FindAllByPK("loop") \/ FindAllByPKFails("loop")) /\ args'["loop"] = {}
    BY <2>2, <2>4, FindAllCache, FindAllFailsCache DEF LinksInv, Proc
  <2>5. CASE InsertMissing("loop")
    BY <2>2, <2>5, InsertMissingCache DEF LinksInv, Proc
  <2>6. CASE pc["loop"] \in {"save", "link"}
    <3>1. ~Die
      BY <1>2 DEF Die, Proc
    <3> QED
      BY <2>2, <2>6, <3>1, StepCached DEF Grows, LinksInv, AllCached
  <2> QED
    BY <1>2, <2>3, <2>4, <2>5, <2>6, ToSave DEF LinksInv, CacheInv
<1> QED
  BY <1>1, <1>2 DEF LinksInv, AllCached

\* The lookups of a block's proposer and validators never fail, whatever the
\* workers do to the cache and the table meanwhile.
THEOREM BlockValidatorsKnown == Spec => []LinksResolve
<1>1. Init => LinksInv
  BY InitCache DEF LinksInv, AllCached, Init, Proc
<1>2. LinksInv => LinksResolve
  BY DEF LinksInv, AllCached, LinksResolve, Resolves, Wanted
<1> QED
  BY <1>1, <1>2, StepLinks, PTL DEF Spec

-----------------------------------------------------------------------------
\* Conflicts.  What appears in the table between Run's search and its insert was
\* made by a worker, of a list of candidates or of transactions.

Made ==
  /\ made \subseteq made'
  /\ stored' \ stored \subseteq made'

LEMMA StepMade ==
  ASSUME TypedInv, [Next]_vars, pc["loop"] = "insert", pc'["loop"] = "insert"
  PROVE  Made
<1> USE DEF Goto, AfterSave, Proc, Worker, TypedInv, TypeOK, Made
<1>1. ASSUME NEW w \in Worker, SaveAllIfNotExist(w) PROVE Made
  BY <1>1 DEF SaveAllIfNotExist, CheckCache, FindAllByPK, InsertMissing, db
<1>2. CASE Run
  BY <1>2 DEF Run, SaveAllIfNotExist, CheckCache, FindAllByPK, InsertMissing, SaveBlock,
     LinkBlockValidator, SendJob
<1>3. ASSUME NEW w \in Worker, Update(w) PROVE Made
  BY <1>1, <1>3 DEF Update, Receive, FindIdByPk, FindNoIdByPk, Create, EndOfList, db
<1>4. ASSUME NEW w \in Worker, RequestFails(w) PROVE Made
  BY <1>4 DEF RequestFails, db
<1>5. CASE WriteStatuses \/ AddressFails \/ StatementFails \/ UpdateUptimes
  BY <1>5 DEF WriteStatuses, ResetAllStatuses, UpdateAll, AddressFails, StatementFails,
     UpdateUptimes, GetActiveValidators, ResetAllUptimes, UpdateValidatorUptime, db
<1>6. CASE Crash \/ Panic \/ Restart
  BY <1>6 DEF Crash, Panic, Die, Restart
<1>7. CASE UNCHANGED vars
  BY <1>7 DEF vars, db
<1>8. ASSUME NEW q \in Proc, FindAllByPKFails(q) PROVE Made
  BY <1>8 DEF FindAllByPKFails, db
<1>9. ASSUME NEW w \in Worker, FindIdByPkFails(w) PROVE Made
  BY <1>9 DEF FindIdByPkFails, db
<1>10. ASSUME NEW t \in Tx,
              FindNamed(t) \/ FindNoNamed(t) \/ FindNamedFails(t) \/ CreateNamed(t)
       PROVE  Made
  BY <1>10 DEF FindNamed, FindNoNamed, FindNamedFails, CreateNamed, db
<1> QED
  BY <1>2, <1>3, <1>4, <1>5, <1>6, <1>7, <1>8, <1>9, <1>10 DEF Next, LinkTransactions

ConflictInv == CacheInv /\ ConflictsOnlyWithWorkers

LEMMA StepConflict == ConflictInv /\ [Next]_vars => ConflictInv'
<1> SUFFICES ASSUME ConflictInv, [Next]_vars PROVE ConflictInv'
  OBVIOUS
<1>1. CacheInv'
  BY StepCache DEF ConflictInv
<1>2. ASSUME pc'["loop"] = "insert", ~blind'
      PROVE  args'["loop"] \cap stored' \subseteq made'
  <2>1. CASE FindAllByPK("loop")
    BY <2>1, FindAllCache DEF ConflictInv, Proc
  <2>3. ~FindAllByPKFails("loop")
    BY <1>2 DEF FindAllByPKFails
  <2>2. CASE pc["loop"] = "insert" /\ args'["loop"] = args["loop"] /\ blind' = blind
    BY <1>2, <2>2, StepMade DEF Made, ConflictInv, CacheInv, ConflictsOnlyWithWorkers
  <2> QED
    BY <1>2, <2>1, <2>2, <2>3, ToInsert DEF ConflictInv, CacheInv, Proc
<1> QED
  BY <1>1, <1>2 DEF ConflictInv, ConflictsOnlyWithWorkers

\* Run's insert fails only over a validator that a worker of the same process, of
\* candidates or of transactions, has created in between, or after a failed search.
THEOREM ConflictsAreRaces == Spec => []ConflictsOnlyWithWorkers
<1>1. Init => ConflictInv
  BY InitCache DEF ConflictInv, ConflictsOnlyWithWorkers, Init, Proc
<1>2. ConflictInv => ConflictsOnlyWithWorkers
  BY DEF ConflictInv
<1> QED
  BY <1>1, <1>2, StepConflict, PTL DEF Spec

-----------------------------------------------------------------------------
\* Statuses.  Unless something went wrong with it, a list has the candidates that
\* were passed, then all of them, then the statuses in hand.

Passed(w) ==
  {CandidatesOf[height[w]][n] : n \in {m \in DOMAIN CandidatesOf[height[w]] : m < pos[w]}}

Listing == {"check", "find", "insert", "look", "create"}

StatusInv ==
  LET w == "validators" IN
  /\ TypedInv /\ StatusesCurrent
  /\ ~spoiled /\ pc[w] \in Listing => ids = Passed(w)
  /\ ~spoiled /\ pc[w] \in {"reset", "update"} => ids = Listed(height[w])
  /\ ~spoiled /\ pc[w] = "update" => status = [k \in PubKey |-> 0]

\* A step that does not concern the list of the validators.
LEMMA StatusUnchanged ==
  ASSUME StatusInv, TypedInv', UNCHANGED <<status, ids, spoiled>>,
         UNCHANGED <<pc["validators"], height["validators"], pos["validators"]>>
  PROVE  StatusInv'
<1>1. /\ pc'["validators"] = pc["validators"] /\ pos'["validators"] = pos["validators"]
      /\ height'["validators"] = height["validators"]
      /\ status' = status /\ ids' = ids /\ spoiled' = spoiled
  OBVIOUS
<1>2. Passed("validators")' = Passed("validators")
  BY <1>1 DEF Passed
<1>3. StatusesCurrent'
  <2> DEFINE Current(at, h, s, bad) ==
        at = "idle" /\ h # 0 /\ ~bad /\ Listed(h) # {} =>
          s = [k \in PubKey |-> IF k \in Listed(h) THEN h ELSE 0]
  <2>1. Current(pc["validators"], height["validators"], status, spoiled)
    BY DEF StatusInv, StatusesCurrent
  <2>2. Current(pc'["validators"], height'["validators"], status', spoiled')
    BY <1>1, <2>1
  <2> QED
    BY <2>2 DEF StatusesCurrent
<1> QED
  BY <1>1, <1>2, <1>3 DEF StatusInv, Listed

LEMMA SaveAllStatus ==
  ASSUME StatusInv, TypedInv', NEW p \in Proc, SaveAllIfNotExist(p)
  PROVE  StatusInv'
<1>1. UNCHANGED <<status, ids, spoiled, height, pos>>
  BY DEF SaveAllIfNotExist, CheckCache, FindAllByPK, InsertMissing, db
<1>2. CASE p # "validators"
  <2>1. pc'["validators"] = pc["validators"]
    BY <1>2 DEF SaveAllIfNotExist, CheckCache, FindAllByPK, InsertMissing, Goto,
                StatusInv, TypedInv, TypeOK, Proc, Worker
  <2> QED
    BY <1>1, <2>1, StatusUnchanged
<1>3. CASE p = "validators"
  <2>1. pc[p] \in Listing /\ pc'[p] \in Listing
    BY <1>3 DEF SaveAllIfNotExist, CheckCache, FindAllByPK, InsertMissing, Goto, AfterSave,
                StatusInv, TypedInv, TypeOK, Listing
  <2>2. pc'[p] \notin {"idle", "reset", "update"}
    BY <2>1 DEF Listing
  <2> QED
    BY <1>1, <1>3, <2>1, <2>2 DEF StatusInv, StatusesCurrent, Passed
<1> QED
  BY <1>2, <1>3

LEMMA FindAllFailsStatus ==
  ASSUME StatusInv, TypedInv', NEW p \in Proc, FindAllByPKFails(p)
  PROVE  StatusInv'
<1>1. UNCHANGED <<status, ids, spoiled, height, pos>>
  BY DEF FindAllByPKFails, db
<1>2. CASE p # "validators"
  <2>1. pc'["validators"] = pc["validators"]
    BY <1>2 DEF FindAllByPKFails, Goto, StatusInv, TypedInv, TypeOK, Proc, Worker
  <2> QED
    BY <1>1, <2>1, StatusUnchanged
<1>3. CASE p = "validators"
  <2>1. pc[p] \in Listing /\ pc'[p] \in Listing
    BY <1>3 DEF FindAllByPKFails, Goto, AfterSave, StatusInv, TypedInv, TypeOK, Listing
  <2>2. pc'[p] \notin {"idle", "reset", "update"}
    BY <2>1 DEF Listing
  <2> QED
    BY <1>1, <1>3, <2>1, <2>2 DEF StatusInv, StatusesCurrent, Passed
<1> QED
  BY <1>2, <1>3

LEMMA FindFailsStatus ==
  ASSUME StatusInv, TypedInv', NEW w \in Worker, FindIdByPkFails(w)
  PROVE  StatusInv'
<1>1. UNCHANGED <<status, ids, spoiled, height, pos>>
  BY DEF FindIdByPkFails, db
<1>2. CASE w # "validators"
  <2>1. pc'["validators"] = pc["validators"]
    BY <1>2 DEF FindIdByPkFails, Goto, StatusInv, TypedInv, TypeOK, Proc, Worker
  <2> QED
    BY <1>1, <2>1, StatusUnchanged
<1>3. CASE w = "validators"
  BY <1>1, <1>3 DEF FindIdByPkFails, Goto, StatusInv, StatusesCurrent, Listing, Passed,
                    TypedInv, TypeOK, Proc
<1> QED
  BY <1>2, <1>3

\* One more candidate is passed.
LEMMA ProceedPassed ==
  ASSUME TypedInv, NEW w \in Worker, height[w] \in Height,
         pos[w] <= Len(CandidatesOf[height[w]]),
         pos' = [pos EXCEPT ![w] = @ + 1], height' = height
  PROVE  Passed(w)' = Passed(w) \cup {Candidate(w)}
<1> DEFINE s == CandidatesOf[height[w]]
           n == pos[w]
<1>1. n \in Nat \ {0} /\ n \in DOMAIN s /\ DOMAIN s \subseteq Nat
  BY ListedAreKeys DEF TypedInv, TypeOK
<1>2. pos'[w] = n + 1
  BY DEF TypedInv, TypeOK
<1>3. \A m \in DOMAIN s : m < n + 1 <=> (m < n \/ m = n)
  BY <1>1
<1>4. Candidate(w) = s[n]
  BY DEF Candidate
<1>5. Passed(w) = {s[l] : l \in {m \in DOMAIN s : m < n}}
  BY DEF Passed
<1>6. Passed(w)' = {s[l] : l \in {m \in DOMAIN s : m < n + 1}}
  BY <1>2 DEF Passed
<1> HIDE DEF s, n
<1> QED
  BY <1>1, <1>3, <1>4, <1>5, <1>6

LEMMA UpdateStatus ==
  ASSUME StatusInv, TypedInv', NEW w \in Worker, Update(w)
  PROVE  StatusInv'
<1>1. CASE SaveAllIfNotExist(w)
  BY <1>1, SaveAllStatus DEF Proc
<1>2. CASE w # "validators" /\ ~SaveAllIfNotExist(w)
  <2>1. UNCHANGED <<status, ids, spoiled>>
    BY <1>2 DEF Update, Receive, FindIdByPk, FindNoIdByPk, Create, EndOfList, Proceed, db,
       Worker, StatusInv, TypedInv, TypeOK
  <2>2. UNCHANGED <<pc["validators"], height["validators"], pos["validators"]>>
    BY <1>2 DEF Update, Receive, FindIdByPk, FindNoIdByPk, Create, EndOfList, Proceed, Goto,
       StatusInv, TypedInv, TypeOK, Proc, Worker
  <2> QED
    BY <2>1, <2>2, StatusUnchanged
<1>3. CASE w = "validators" /\ Receive(w)
  <2>1. PICK h \in Height : chan[w] = <<h>>
    BY <1>3 DEF Receive, StatusInv, TypedInv, TypeOK
  <2>2. height'[w] = h /\ pos'[w] = 1 /\ ids' = {} /\ ~spoiled'
        /\ pc'[w] = IF Listed(h) = {} THEN "idle" ELSE "check"
    <3>1. Head(chan[w]) = h
      BY <2>1
    <3> QED
      BY <1>3, <3>1 DEF Receive, Goto, StatusInv, TypedInv, TypeOK, Proc
  <2>3. Passed(w)' = {}
    <3>1. \A m \in DOMAIN CandidatesOf[h] : ~(m < 1)
      BY ListedAreKeys
    <3> QED
      BY <2>2, <3>1 DEF Passed
  <2>4. pc'[w] = "idle" => Listed(height'[w]) = {}
    BY <2>2
  <2>5. pc'[w] \in {"idle", "check"}
    BY <2>2
  <2>6. StatusesCurrent'
    BY <1>3, <2>4 DEF StatusesCurrent, Listed
  <2> QED
    BY <1>3, <2>2, <2>3, <2>5, <2>6 DEF StatusInv
<1>4. CASE w = "validators" /\ FindIdByPk(w)
  <2>1. pc[w] = "look" /\ pc'[w] = "look" /\ height' = height /\ height[w] \in Height
    BY <1>4 DEF FindIdByPk, StatusInv, TypedInv, Places
  <2>2. pos' = [pos EXCEPT ![w] = @ + 1] /\ ids' = ids \cup {Candidate(w)}
        /\ spoiled' = spoiled
    BY <1>4 DEF FindIdByPk, Proceed, StatusInv, TypedInv, TypeOK
  <2>3. Passed(w)' = Passed(w) \cup {Candidate(w)}
    BY <1>4, <2>1, <2>2, ProceedPassed DEF FindIdByPk, StatusInv
  <2> QED
    BY <1>4, <2>1, <2>2, <2>3 DEF StatusInv, StatusesCurrent, Listing
<1>5. CASE w = "validators" /\ FindNoIdByPk(w)
  BY <1>5 DEF FindNoIdByPk, Goto, StatusInv, StatusesCurrent, Listing, Passed, TypedInv,
              TypeOK, Proc
<1>6. CASE w = "validators" /\ Create(w)
  <2>1. pc[w] = "create" /\ pc'[w] = "look" /\ height' = height /\ status' = status
    BY <1>6 DEF Create, Goto, StatusInv, TypedInv, TypeOK, Proc
  <2>2. spoiled' \/ UNCHANGED <<pos, ids, spoiled>>
    BY <1>6 DEF Create, Proceed
  <2> QED
    BY <1>6, <2>1, <2>2 DEF StatusInv, StatusesCurrent, Listing, Passed
<1>7. CASE w = "validators" /\ EndOfList(w)
  <2>1. pc[w] = "look" /\ pc'[w] = "reset" /\ UNCHANGED <<height, pos, ids, spoiled, status>>
    BY <1>7 DEF EndOfList, Goto, StatusInv, TypedInv, TypeOK, Proc, db
  <2>2. height[w] \in Height /\ pos[w] \in Nat
    BY <2>1 DEF StatusInv, TypedInv, TypeOK, Places
  <2>3. CandidatesOf[height[w]] \in Seq(PubKey) /\ pos[w] > Len(CandidatesOf[height[w]])
    BY <1>7, <2>2, ListedAreKeys DEF EndOfList
  <2>4. \A m \in DOMAIN CandidatesOf[height[w]] : m < pos[w]
    BY <2>2, <2>3
  <2>5. Passed(w) = Listed(height[w])
    BY <2>4 DEF Passed, Listed
  <2> QED
    BY <1>7, <2>1, <2>5 DEF StatusInv, StatusesCurrent, Listing, Listed
<1> QED
  BY <1>1, <1>2, <1>3, <1>4, <1>5, <1>6, <1>7 DEF Update

LEMMA WriteStatus ==
  ASSUME StatusInv, TypedInv', WriteStatuses \/ AddressFails \/ StatementFails
  PROVE  StatusInv'
<1> DEFINE w == "validators"
<1>1. CASE ResetAllStatuses
  <2>1. pc[w] = "reset" /\ pc'[w] = "update" /\ status' = [k \in PubKey |-> 0]
        /\ UNCHANGED <<ids, spoiled, height>>
    BY <1>1 DEF ResetAllStatuses, Goto, StatusInv, TypedInv, TypeOK, Proc, Worker
  <2> QED
    BY <2>1 DEF StatusInv, StatusesCurrent, Listing, Listed
<1>2. CASE UpdateAll
  <2>1. pc[w] = "update" /\ pc'[w] = "idle" /\ UNCHANGED <<ids, spoiled, height>>
    BY <1>2 DEF UpdateAll, Goto, StatusInv, TypedInv, TypeOK, Proc, Worker
  <2>2. ~spoiled => status' = [k \in PubKey |-> IF k \in Listed(height[w]) THEN height[w] ELSE 0]
    BY <1>2, <2>1 DEF UpdateAll, StatusInv
  <2> QED
    BY <2>1, <2>2 DEF StatusInv, StatusesCurrent, Listing, Listed
<1>3. CASE AddressFails \/ StatementFails
  <2>1. spoiled'
    BY <1>3 DEF AddressFails, StatementFails, Proceed
  <2> QED
    BY <2>1 DEF StatusInv, StatusesCurrent
<1> QED
  BY <1>1, <1>2, <1>3 DEF WriteStatuses

LEMMA StepStatus == StatusInv /\ [Next]_vars => StatusInv'
<1> SUFFICES ASSUME StatusInv, [Next]_vars PROVE StatusInv'
  OBVIOUS
<1>1. TypedInv'
  BY StepTyped DEF StatusInv
<1>2. CASE Run
  <2>1. CASE SaveBlock \/ LinkBlockValidator \/ SendJob
    BY <1>1, <2>1, StatusUnchanged DEF SaveBlock, LinkBlockValidator, SendJob, Goto, db,
       StatusInv, TypedInv, TypeOK, Proc, Worker
  <2> QED
    BY <1>1, <1>2, <2>1, SaveAllStatus DEF Run, Proc
<1>3. ASSUME NEW w \in Worker, Update(w) PROVE StatusInv'
  BY <1>1, <1>3, UpdateStatus
<1>4. ASSUME NEW w \in Worker, RequestFails(w) PROVE StatusInv'
  BY <1>1, <1>4, StatusUnchanged DEF RequestFails, db
<1>5. CASE WriteStatuses \/ AddressFails \/ StatementFails
  BY <1>1, <1>5, WriteStatus
<1>6. CASE UpdateUptimes
  BY <1>1, <1>6, StatusUnchanged DEF UpdateUptimes, GetActiveValidators, ResetAllUptimes,
     UpdateValidatorUptime, db
<1>7. CASE Crash \/ Panic
  <2>1. pc'["validators"] = "idle" /\ height'["validators"] = 0
    BY <1>7 DEF Crash, Panic, Die, Proc, Worker
  <2> QED
    BY <1>1, <2>1 DEF StatusInv, StatusesCurrent, Listing
<1>8. CASE Restart
  <2>1. UNCHANGED <<status, ids, spoiled, pos>>
    BY <1>8 DEF Restart
  <2>2. pc'["validators"] = pc["validators"]
    BY <1>8 DEF Restart, Goto, StatusInv, TypedInv, TypeOK, Proc, Worker
  <2>3. height'["validators"] = height["validators"]
    BY <1>8 DEF Restart, StatusInv, TypedInv, TypeOK, Proc, Worker
  <2> QED
    BY <1>1, <2>1, <2>2, <2>3, StatusUnchanged
<1>9. CASE UNCHANGED vars
  BY <1>1, <1>9, StatusUnchanged DEF vars, db
<1>10. ASSUME NEW p \in Proc, FindAllByPKFails(p) PROVE StatusInv'
  BY <1>1, <1>10, FindAllFailsStatus
<1>11. ASSUME NEW w \in Worker, FindIdByPkFails(w) PROVE StatusInv'
  BY <1>1, <1>11, FindFailsStatus
<1>12. ASSUME NEW t \in Tx,
              FindNamed(t) \/ FindNoNamed(t) \/ FindNamedFails(t) \/ CreateNamed(t)
       PROVE  StatusInv'
  BY <1>1, <1>12, StatusUnchanged DEF FindNamed, FindNoNamed, FindNamedFails, CreateNamed,
     db
<1> QED
  BY <1>2, <1>3, <1>4, <1>5, <1>6, <1>7, <1>8, <1>9, <1>10, <1>11, <1>12
  DEF Next, LinkTransactions

\* A list that went through is the status of all validators, for every list and
\* whatever other goroutines do meanwhile.
THEOREM StatusesAreCurrent == Spec => []StatusesCurrent
<1>1. Init => StatusInv
  BY InitTyped DEF StatusInv, StatusesCurrent, Listing, Init, Proc, Worker
<1>2. StatusInv => StatusesCurrent
  BY DEF StatusInv
<1> QED
  BY <1>1, <1>2, StepStatus, PTL DEF Spec
===============================================================================
