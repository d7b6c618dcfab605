----------------------------- MODULE Validators -----------------------------
(***************************************************************************)
(* How validators get into the database, and their statuses and uptimes.   *)
(* Many goroutines create validators through one repository: Run, for the  *)
(* validators of each block; the workers that update validators and        *)
(* stakes, for the candidates of the heights that Run hands to them; the   *)
(* workers that save transactions, for the validators these name.  One     *)
(* more recomputes the uptimes from time to time.                          *)
(*                                                                         *)
(* SaveAllIfNotExist and FindIdByPkOrCreate look a key up in the cache,    *)
(* then in the table, and insert it in a later statement; they drop the    *)
(* error of the search, so a failing one looks like an absent key.  A      *)
(* conflict of two inserts is logged by the workers of the lists and kills *)
(* the process in Run and in the workers of transactions.                  *)
(***************************************************************************)
EXTENDS Integers, Sequences, FiniteSets

CONSTANTS
  MaxHeight,       \* bound: the node holds blocks 1 .. MaxHeight
  PubKey,
  ValidatorsOf,    \* the validators of each block, those that sign it or fail to
  CandidatesOf,    \* the node's list of candidates at each height, in its order
  ReadyOf,         \* the candidates that are ready at each height
  Tx, TxsOf,       \* the transactions of each block that name a validator
  Names,           \* the validator a transaction names
  SaveTxsCount,    \* WrkSaveTxsCount: the workers that save transactions
  StakesEvery,     \* 12: at its multiples stakes are updated, else validators
  MaxFaults        \* bound on crashes, failed requests and failed statements

Height == 1 .. MaxHeight
Worker == {"validators", "stakes"}
Proc   == Worker \cup {"loop"}

Listed(h) == {CandidatesOf[h][n] : n \in DOMAIN CandidatesOf[h]}

ASSUME ParametersAssumption ==
  /\ MaxHeight \in Nat /\ MaxFaults \in Nat /\ StakesEvery \in Nat \ {0}
  /\ SaveTxsCount \in Nat \ {0}
  /\ IsFiniteSet(PubKey)
  /\ ValidatorsOf \in [Height -> SUBSET PubKey]
  /\ TxsOf \in [Height -> SUBSET Tx] /\ Names \in [Tx -> PubKey]
  /\ CandidatesOf \in [Height -> Seq(PubKey)]
  /\ ReadyOf \in [Height -> SUBSET PubKey]

VARIABLES
  \* The database.
  stored,    \* validators, by public key
  status,    \* the height whose list gave a validator its status, 0 for NULL
  uptime,    \* the signatures a validator's uptime was computed from
  saved,     \* the last block's height
  linked,    \* blocks whose block_validator rows are there
  \* The process.
  cache,     \* Repository.cache: "id" is the validator's id, "zero" the value 0
  chan,      \* jobUpdateValidators and jobUpdateStakes
  pc, height,    \* each goroutine: its next step, the height it works at
  args,      \* the validators SaveAllIfNotExist found missing
  pos,       \* each worker: its place in the list of candidates
  ids,       \* UpdateValidatorsWorker: the candidates with a row to write
  naming,    \* transactions whose validator is not looked up yet
  creating,  \* those of them for which a worker is about to insert it
  uptimeAt, active,   \* validatorUptimeWorker: its step, the validators left
  \* The bound and the history.
  faults,
  spoiled,   \* the last list of the validators' worker was not written in full
  made,      \* the validators created by the workers of this process
  blind      \* Run's search for the validators it is to insert has failed

db     == <<stored, status, uptime, saved, linked>>
upkeep == <<uptimeAt, active>>
txs    == <<naming, creating>>
vars   == <<db, cache, chan, pc, height, args, pos, ids, txs, upkeep, faults,
            spoiled, made, blind>>

-----------------------------------------------------------------------------
Up == pc["loop"] # "down"

Goto(p, at) == pc' = [pc EXCEPT ![p] = at]

\* The validators a goroutine has to save, those of its block or its list.
Wanted(p) == IF p = "loop" THEN ValidatorsOf[height[p]] ELSE Listed(height[p])

AfterSave(p) == IF p = "loop" THEN "save" ELSE "look"

Cached == {k \in PubKey : cache[k] # "none"}

Ready(k) == status[k] # 0 /\ k \in ReadyOf[status[k]]

\* COUNT(signed): all rows of a validator, as signed is never NULL.
Signed(k) == Cardinality({h \in linked : k \in ValidatorsOf[h]})

JobOf(h) == IF h % StakesEvery = 0 THEN "stakes" ELSE "validators"

-----------------------------------------------------------------------------
\* Repository.SaveAllIfNotExist, in each of the three goroutines.

CheckCache(p) ==
  /\ pc[p] = "check"
  /\ p = "loop" => height[p] <= MaxHeight
  /\ Goto(p, IF Wanted(p) \subseteq Cached THEN AfterSave(p) ELSE "find")
  /\ UNCHANGED <<db, cache, chan, height, args, pos, ids, txs, upkeep, faults,
                 spoiled, made, blind>>

\* Mutant of FindAllByPK: what the table has is not put into the cache.
FindWithoutCaching(p) ==
  /\ pc[p] = "find"
  /\ LET missing == Wanted(p) \ Cached IN
     /\ args' = [args EXCEPT ![p] = missing]
     /\ Goto(p, IF missing = {} THEN AfterSave(p) ELSE "insert")
  /\ blind' = (blind /\ p # "loop")
  /\ UNCHANGED <<db, cache, chan, height, pos, ids, txs, upkeep, faults,
                 spoiled, made>>

\* FindAllByPK fills the cache from the table; then the cache says what is
\* missing.
FindAllByPK(p) ==
  /\ pc[p] = "find"
  /\ LET found   == Wanted(p) \cap (stored \ Cached)
         missing == Wanted(p) \ (stored \cup Cached)
     IN  /\ cache' = [k \in PubKey |-> IF k \in found THEN "id" ELSE cache[k]]
         /\ args' = [args EXCEPT ![p] = missing]
         /\ Goto(p, IF missing = {} THEN AfterSave(p) ELSE "insert")
  /\ blind' = (blind /\ p # "loop")
  /\ UNCHANGED <<db, chan, height, pos, ids, txs, upkeep, faults, spoiled,
                 made>>

\* The error of FindAllByPK is dropped: what the cache lacks counts as missing.
FindAllByPKFails(p) ==
  /\ pc[p] = "find" /\ faults < MaxFaults
  /\ LET missing == Wanted(p) \ Cached IN
     /\ args' = [args EXCEPT ![p] = missing]
     /\ Goto(p, IF missing = {} THEN AfterSave(p) ELSE "insert")
  /\ blind' = (blind \/ p = "loop")
  /\ faults' = faults + 1
  /\ UNCHANGED <<db, cache, chan, height, pos, ids, txs, upkeep, spoiled, made>>

Conflict(p) == args[p] \cap stored # {}

\* addToCache after the insert, which gave the inserted ones their ids.
AddToCache(p) ==
  cache' = [k \in PubKey |->
              IF k \in Wanted(p) /\ cache[k] = "none"
              THEN IF k \in args[p] THEN "id" ELSE "zero"
              ELSE cache[k]]

\* Mutant of InsertMissing: the cache is filled whether or not the insert failed.
InsertAndCache(p) ==
  /\ pc[p] = "insert"
  /\ p = "loop" => ~Conflict(p)
  /\ stored' = IF Conflict(p) THEN stored ELSE stored \cup args[p]
  /\ AddToCache(p)
  /\ made' = IF Conflict(p) \/ p = "loop" THEN made ELSE made \cup args[p]
  /\ args' = [args EXCEPT ![p] = {}]
  /\ Goto(p, AfterSave(p))
  /\ UNCHANGED <<status, uptime, saved, linked, chan, height, pos, ids, txs,
                 upkeep, faults, spoiled, blind>>

\* Mutant of InsertMissing: Run goes on after a failed insert, as the workers do.
InsertOrGoOn(p) ==
  /\ pc[p] = "insert"
  /\ IF Conflict(p)
     THEN UNCHANGED <<stored, cache, made>>
     ELSE /\ stored' = stored \cup args[p]
          /\ AddToCache(p)
          /\ made' = IF p = "loop" THEN made ELSE made \cup args[p]
  /\ args' = [args EXCEPT ![p] = {}]
  /\ Goto(p, AfterSave(p))
  /\ UNCHANGED <<status, uptime, saved, linked, chan, height, pos, ids, txs,
                 upkeep, faults, spoiled, blind>>

\* One statement for all that is missing.  A worker logs its error and goes on.
InsertMissing(p) ==
  /\ pc[p] = "insert"
  /\ p = "loop" => ~Conflict(p)
  /\ IF Conflict(p)
     THEN UNCHANGED <<stored, cache, made>>
     ELSE /\ stored' = stored \cup args[p]
          /\ AddToCache(p)
          /\ made' = IF p = "loop" THEN made ELSE made \cup args[p]
  /\ args' = [args EXCEPT ![p] = {}]
  /\ Goto(p, AfterSave(p))
  /\ UNCHANGED <<status, uptime, saved, linked, chan, height, pos, ids, txs,
                 upkeep, faults, spoiled, blind>>

-----------------------------------------------------------------------------
\* The loop: the block, its links and its job.

\* FindIdByPk: the cache, else the table.
Resolves(k) == cache[k] = "id" \/ (cache[k] = "none" /\ k \in stored)

\* The proposer, one of the validators, is looked up for the block.
SaveBlock ==
  /\ pc["loop"] = "save"
  /\ Wanted("loop") = {} \/ \E k \in Wanted("loop") : Resolves(k)
  /\ saved' = height["loop"]
  /\ Goto("loop", "link")
  /\ UNCHANGED <<stored, status, uptime, linked, cache, chan, height, args,
                 pos, ids, txs, upkeep, faults, spoiled, made, blind>>

\* The block's transactions go to their workers next, unless it has no validators;
\* their way through the channels is in module Pipeline.
LinkBlockValidator ==
  /\ pc["loop"] = "link"
  /\ \A k \in Wanted("loop") : Resolves(k)
  /\ linked' = IF height["loop"] = 1 THEN linked ELSE linked \cup {height["loop"]}
  /\ naming' = IF Wanted("loop") = {} THEN naming ELSE naming \cup TxsOf[height["loop"]]
  /\ Goto("loop", "send")
  /\ UNCHANGED <<stored, status, uptime, saved, cache, chan, height, args, pos,
                 ids, creating, upkeep, faults, spoiled, made, blind>>

\* Mutant of SendJob: a job that finds its channel full is dropped.
SendJobOrDrop ==
  /\ pc["loop"] = "send"
  /\ LET h == height["loop"] IN
     /\ chan' = IF (h > 1 \/ JobOf(h) = "stakes") /\ chan[JobOf(h)] = <<>>
                THEN [chan EXCEPT ![JobOf(h)] = Append(@, h)] ELSE chan
     /\ height' = [height EXCEPT !["loop"] = h + 1]
  /\ Goto("loop", "check")
  /\ UNCHANGED <<db, cache, args, pos, ids, txs, upkeep, faults, spoiled, made,
                 blind>>

\* Mutant of SendJob: the send does not wait for room.
SendJobWithoutRoom ==
  /\ pc["loop"] = "send"
  /\ LET h == height["loop"] IN
     /\ chan' = IF h > 1 \/ JobOf(h) = "stakes"
                THEN [chan EXCEPT ![JobOf(h)] = Append(@, h)] ELSE chan
     /\ height' = [height EXCEPT !["loop"] = h + 1]
  /\ Goto("loop", "check")
  /\ UNCHANGED <<db, cache, args, pos, ids, txs, upkeep, faults, spoiled, made,
                 blind>>

\* Both channels have room for one height; block 1 has no job of the validators.
SendJob ==
  /\ pc["loop"] = "send"
  /\ LET h == height["loop"] IN
     /\ IF h > 1 \/ JobOf(h) = "stakes"
        THEN chan[JobOf(h)] = <<>> /\ chan' = [chan EXCEPT ![JobOf(h)] = <<h>>]
        ELSE UNCHANGED chan
     /\ height' = [height EXCEPT !["loop"] = h + 1]
  /\ Goto("loop", "check")
  /\ UNCHANGED <<db, cache, args, pos, ids, txs, upkeep, faults, spoiled, made,
                 blind>>

-----------------------------------------------------------------------------
\* UpdateValidatorsWorker, and UpdateStakesWorker up to its stakes.

Receive(w) ==
  /\ pc[w] = "idle" /\ chan[w] # <<>>
  /\ chan' = [chan EXCEPT ![w] = Tail(@)]
  /\ height' = [height EXCEPT ![w] = Head(chan[w])]
  /\ pos' = [pos EXCEPT ![w] = 1]
  /\ spoiled' = (spoiled /\ w # "validators")
  /\ ids' = IF w = "validators" THEN {} ELSE ids
  /\ Goto(w, IF w = "validators" /\ Listed(Head(chan[w])) = {} THEN "idle" ELSE "check")
  /\ UNCHANGED <<db, cache, args, txs, upkeep, faults, made, blind>>

\* GetCandidates fails or answers with an error: the job is dropped.
RequestFails(w) ==
  /\ pc[w] = "idle" /\ chan[w] # <<>> /\ faults < MaxFaults
  /\ chan' = [chan EXCEPT ![w] = Tail(@)]
  /\ faults' = faults + 1
  /\ UNCHANGED <<db, cache, pc, height, args, pos, ids, txs, upkeep, spoiled,
                 made, blind>>

Candidate(w) == CandidatesOf[height[w]][pos[w]]

\* A worker is through with a candidate, which has a row if ok.
Proceed(w, ok) ==
  /\ pos' = [pos EXCEPT ![w] = @ + 1]
  /\ IF w = "validators"
     THEN /\ ids' = IF ok THEN ids \cup {Candidate(w)} ELSE ids
          /\ spoiled' = (spoiled \/ ~ok)
     ELSE UNCHANGED <<ids, spoiled>>

\* FindIdByPkOrCreate: the cache or the table knows the candidate.
FindIdByPk(w) ==
  /\ pc[w] = "look" /\ pos[w] <= Len(CandidatesOf[height[w]])
  /\ Resolves(Candidate(w))
  /\ cache' = [cache EXCEPT ![Candidate(w)] = "id"]
  /\ Proceed(w, TRUE)
  /\ UNCHANGED <<db, chan, pc, height, args, txs, upkeep, faults, made, blind>>

FindNoIdByPk(w) ==
  /\ pc[w] = "look" /\ pos[w] <= Len(CandidatesOf[height[w]])
  /\ ~Resolves(Candidate(w))
  /\ Goto(w, "create")
  /\ UNCHANGED <<db, cache, chan, height, args, pos, ids, txs, upkeep, faults,
                 spoiled, made, blind>>

\* The error of FindIdByPk is dropped, so the row it did not find is inserted.
FindIdByPkFails(w) ==
  /\ pc[w] = "look" /\ pos[w] <= Len(CandidatesOf[height[w]])
  /\ cache[Candidate(w)] = "none" /\ faults < MaxFaults
  /\ Goto(w, "create")
  /\ faults' = faults + 1
  /\ UNCHANGED <<db, cache, chan, height, args, pos, ids, txs, upkeep, spoiled,
                 made, blind>>

\* The insert of FindIdByPkOrCreate.  After a conflict the candidate is skipped;
\* else its addresses are next, as those of a candidate with a row.
Create(w) ==
  /\ pc[w] = "create"
  /\ IF Candidate(w) \in stored
     THEN Proceed(w, FALSE) /\ UNCHANGED <<stored, cache, made>>
     ELSE /\ stored' = stored \cup {Candidate(w)}
          /\ cache' = [cache EXCEPT ![Candidate(w)] = "id"]
          /\ made' = made \cup {Candidate(w)}
          /\ UNCHANGED <<pos, ids, spoiled>>
  /\ Goto(w, "look")
  /\ UNCHANGED <<status, uptime, saved, linked, chan, height, args, txs,
                 upkeep, faults, blind>>

\* An address of the candidate is not found: it is skipped, after its lookup.
AddressFails ==
  /\ pc["validators"] = "look" /\ faults < MaxFaults
  /\ pos["validators"] <= Len(CandidatesOf[height["validators"]])
  /\ Resolves(Candidate("validators"))
  /\ cache' = [cache EXCEPT ![Candidate("validators")] = "id"]
  /\ Proceed("validators", FALSE)
  /\ faults' = faults + 1
  /\ UNCHANGED <<db, chan, pc, height, args, txs, upkeep, made, blind>>

\* The stakes that follow are in module Coins.
EndOfList(w) ==
  /\ pc[w] = "look" /\ pos[w] > Len(CandidatesOf[height[w]])
  /\ Goto(w, IF w = "validators" THEN "reset" ELSE "idle")
  /\ UNCHANGED <<db, cache, chan, height, args, pos, ids, txs, upkeep, faults,
                 spoiled, made, blind>>

\* Mutant of ResetAllStatuses: only the validators to be written are reset.
ResetListedStatuses ==
  /\ pc["validators"] = "reset"
  /\ status' = [k \in PubKey |-> IF k \in ids THEN 0 ELSE status[k]]
  /\ Goto("validators", "update")
  /\ UNCHANGED <<stored, uptime, saved, linked, cache, chan, height, args, pos,
                 ids, txs, upkeep, faults, spoiled, made, blind>>

ResetAllStatuses ==
  /\ pc["validators"] = "reset"
  /\ status' = [k \in PubKey |-> 0]
  /\ Goto("validators", "update")
  /\ UNCHANGED <<stored, uptime, saved, linked, cache, chan, height, args, pos,
                 ids, txs, upkeep, faults, spoiled, made, blind>>

UpdateAll ==
  /\ pc["validators"] = "update"
  /\ status' = [k \in PubKey |->
                  IF k \in ids THEN height["validators"] ELSE status[k]]
  /\ Goto("validators", "idle")
  /\ UNCHANGED <<stored, uptime, saved, linked, cache, chan, height, args, pos,
                 ids, txs, upkeep, faults, spoiled, made, blind>>

\* Either statement fails; the error is logged.
StatementFails ==
  /\ pc["validators"] \in {"reset", "update"} /\ faults < MaxFaults
  /\ Goto("validators", IF pc["validators"] = "reset" THEN "update" ELSE "idle")
  /\ spoiled' = TRUE
  /\ faults' = faults + 1
  /\ UNCHANGED <<db, cache, chan, height, args, pos, ids, txs, upkeep, made,
                 blind>>

-----------------------------------------------------------------------------
\* SaveTransactionsWorker, once it has saved its transactions: getLinksTxValidator
\* calls FindIdByPkOrCreate for each that names a validator.

FindNamed(t) ==
  /\ t \in naming \ creating /\ Resolves(Names[t])
  /\ cache' = [cache EXCEPT ![Names[t]] = "id"]
  /\ naming' = naming \ {t}
  /\ UNCHANGED <<db, chan, pc, height, args, pos, ids, creating, upkeep, faults,
                 spoiled, made, blind>>

FindNoNamed(t) ==
  /\ t \in naming \ creating /\ Cardinality(creating) < SaveTxsCount
  /\ ~Resolves(Names[t])
  /\ creating' = creating \cup {t}
  /\ UNCHANGED <<db, cache, chan, pc, height, args, pos, ids, naming, upkeep,
                 faults, spoiled, made, blind>>

FindNamedFails(t) ==
  /\ t \in naming \ creating /\ Cardinality(creating) < SaveTxsCount
  /\ cache[Names[t]] = "none" /\ faults < MaxFaults
  /\ creating' = creating \cup {t}
  /\ faults' = faults + 1
  /\ UNCHANGED <<db, cache, chan, pc, height, args, pos, ids, naming, upkeep,
                 spoiled, made, blind>>

\* A conflict is a case of Panic.
CreateNamed(t) ==
  /\ t \in creating /\ Names[t] \notin stored
  /\ stored' = stored \cup {Names[t]}
  /\ cache' = [cache EXCEPT ![Names[t]] = "id"]
  /\ made' = made \cup {Names[t]}
  /\ naming' = naming \ {t} /\ creating' = creating \ {t}
  /\ UNCHANGED <<status, uptime, saved, linked, chan, pc, height, args, pos, ids,
                 upkeep, faults, spoiled, blind>>

-----------------------------------------------------------------------------
\* validatorUptimeWorker.

GetActiveValidators ==
  /\ Up /\ uptimeAt = "idle"
  /\ active' = {k \in stored : Ready(k)}
  /\ uptimeAt' = "reset"
  /\ UNCHANGED <<db, cache, chan, pc, height, args, pos, ids, txs, faults,
                 spoiled, made, blind>>

\* Mutant of ResetAllUptimes: uptimes are only overwritten.
ResetNoUptimes ==
  /\ uptimeAt = "reset"
  /\ uptimeAt' = IF active = {} THEN "idle" ELSE "count"
  /\ UNCHANGED <<db, cache, chan, pc, height, args, pos, ids, active, txs,
                 faults, spoiled, made, blind>>

ResetAllUptimes ==
  /\ uptimeAt = "reset"
  /\ uptime' = [k \in PubKey |-> 0]
  /\ uptimeAt' = IF active = {} THEN "idle" ELSE "count"
  /\ UNCHANGED <<stored, status, saved, linked, cache, chan, pc, height, args,
                 pos, ids, active, txs, faults, spoiled, made, blind>>

\* The count joins the status again: a validator whose status was reset since
\* has signed nothing.
UpdateValidatorUptime(k) ==
  /\ uptimeAt = "count" /\ k \in active
  /\ uptime' = [uptime EXCEPT ![k] = IF Ready(k) THEN Signed(k) ELSE 0]
  /\ active' = active \ {k}
  /\ uptimeAt' = IF active' = {} THEN "idle" ELSE "count"
  /\ UNCHANGED <<stored, status, saved, linked, cache, chan, pc, height, args,
                 pos, ids, txs, faults, spoiled, made, blind>>

-----------------------------------------------------------------------------
\* Death and restart.

Die ==
  /\ pc' = [p \in Proc |-> IF p = "loop" THEN "down" ELSE "idle"]
  /\ height' = [p \in Proc |-> 0]
  /\ cache' = [k \in PubKey |-> "none"]
  /\ chan' = [w \in Worker |-> <<>>]
  /\ args' = [p \in Proc |-> {}] /\ pos' = [w \in Worker |-> 1] /\ ids' = {}
  /\ naming' = {} /\ creating' = {}
  /\ uptimeAt' = "idle" /\ active' = {}
  /\ spoiled' = FALSE /\ made' = {} /\ blind' = FALSE
  /\ UNCHANGED db

Crash ==
  /\ Up /\ faults < MaxFaults
  /\ faults' = faults + 1
  /\ Die

\* HandleError in Run, after a conflict or for a validator without a row, and in a
\* worker of transactions, after a conflict.
Panic ==
  /\ \/ pc["loop"] = "insert" /\ Conflict("loop")
     \/ \E t \in creating : Names[t] \in stored
     \/ pc["loop"] \in {"save", "link"} /\ \E k \in Wanted("loop") : ~Resolves(k)
  /\ Die
  /\ UNCHANGED faults

\* DeleteLastBlockData, which a foreign key may keep from deleting a block, but
\* only one past its links (module Pipeline).
Restart ==
  /\ ~Up
  /\ \/ saved = 0 /\ UNCHANGED <<saved, linked>>
     \/ saved > 0 /\ saved' = saved - 1 /\ linked' = linked \ {saved}
     \/ saved \in linked \cup {1} /\ UNCHANGED <<saved, linked>>
  /\ Goto("loop", "check")
  /\ height' = [height EXCEPT !["loop"] = saved' + 1]
  /\ UNCHANGED <<stored, status, uptime, cache, chan, args, pos, ids, txs,
                 upkeep, faults, spoiled, made, blind>>

-----------------------------------------------------------------------------
Init ==
  /\ stored = {} /\ saved = 0 /\ linked = {}
  /\ status = [k \in PubKey |-> 0] /\ uptime = [k \in PubKey |-> 0]
  /\ cache = [k \in PubKey |-> "none"]
  /\ chan = [w \in Worker |-> <<>>]
  /\ pc = [p \in Proc |-> IF p = "loop" THEN "check" ELSE "idle"]
  /\ height = [p \in Proc |-> IF p = "loop" THEN 1 ELSE 0]
  /\ args = [p \in Proc |-> {}] /\ pos = [w \in Worker |-> 1] /\ ids = {}
  /\ naming = {} /\ creating = {}
  /\ uptimeAt = "idle" /\ active = {}
  /\ faults = 0 /\ spoiled = FALSE /\ made = {} /\ blind = FALSE

SaveAllIfNotExist(p) == CheckCache(p) \/ FindAllByPK(p) \/ InsertMissing(p)

Run == SaveAllIfNotExist("loop") \/ SaveBlock \/ LinkBlockValidator \/ SendJob

Update(w) ==
  \/ Receive(w) \/ SaveAllIfNotExist(w)
  \/ FindIdByPk(w) \/ FindNoIdByPk(w) \/ Create(w) \/ EndOfList(w)

WriteStatuses == ResetAllStatuses \/ UpdateAll

LinkTransactions == \E t \in Tx : FindNamed(t) \/ FindNoNamed(t) \/ CreateNamed(t)

UpdateUptimes ==
  \/ GetActiveValidators \/ ResetAllUptimes
  \/ \E k \in PubKey : UpdateValidatorUptime(k)

Next ==
  \/ Run
  \/ \E w \in Worker : Update(w) \/ RequestFails(w)
  \/ WriteStatuses \/ AddressFails \/ StatementFails
  \/ LinkTransactions
  \/ \E p \in Proc : FindAllByPKFails(p)
  \/ \E w \in Worker : FindIdByPkFails(w)
  \/ \E t \in Tx : FindNamedFails(t)
  \/ UpdateUptimes
  \/ Crash \/ Panic \/ Restart

\* Go runs every goroutine that can proceed; the container is restarted.
Fairness ==
  /\ WF_vars(Run) /\ WF_vars(Panic) /\ WF_vars(Restart)
  /\ \A w \in Worker : WF_vars(Update(w))
  /\ WF_vars(WriteStatuses) /\ WF_vars(UpdateUptimes)
  /\ WF_vars(LinkTransactions)

Spec == Init /\ [][Next]_vars /\ Fairness

-----------------------------------------------------------------------------
\* Properties.

TypeOK ==
  /\ stored \subseteq PubKey
  /\ status \in [PubKey -> 0 .. MaxHeight] /\ uptime \in [PubKey -> Nat]
  /\ saved \in 0 .. MaxHeight /\ linked \subseteq Height
  /\ cache \in [PubKey -> {"none", "id", "zero"}]
  /\ chan \in [Worker -> {<<>>} \cup {<<h>> : h \in Height}]
  /\ pc \in [Proc -> {"idle", "check", "find", "insert", "save", "link", "send",
                      "look", "create", "reset", "update", "down"}]
  /\ height \in [Proc -> 0 .. MaxHeight + 1]
  /\ args \in [Proc -> SUBSET PubKey]
  /\ pos \in [Worker -> Nat \ {0}] /\ ids \subseteq PubKey
  /\ naming \subseteq Tx /\ creating \subseteq naming
  /\ uptimeAt \in {"idle", "reset", "count"} /\ active \subseteq PubKey
  /\ faults \in 0 .. MaxFaults /\ spoiled \in BOOLEAN
  /\ made \subseteq PubKey /\ blind \in BOOLEAN

\* An id in the cache is that of a row, although a failed insert leaves the
\* validators of the list without ids and others fill the cache meanwhile.
CachedIdsExist ==
  \A k \in PubKey : cache[k] = "none" \/ (cache[k] = "id" /\ k \in stored)

\* When Run has saved the validators of a block, each of them can be looked up
\* for the block's proposer and links, so those lookups never kill the process.
LinksResolve ==
  pc["loop"] \in {"save", "link"} =>
    \A k \in ValidatorsOf[height["loop"]] : Resolves(k)

\* Unless its search for them failed, Run's insert of a block's validators can only
\* conflict with a worker of the same process, be it of a list of candidates or of
\* transactions: what an earlier process or Run itself has stored is found before.
ConflictsOnlyWithWorkers ==
  pc["loop"] = "insert" /\ ~blind => args["loop"] \cap stored \subseteq made

\* A list whose statements went through is the status of all validators: those
\* in it have theirs from it, the others none, whoever created them and when.
StatusesCurrent ==
  LET h == height["validators"] IN
  pc["validators"] = "idle" /\ h # 0 /\ ~spoiled /\ Listed(h) # {} =>
    status = [k \in PubKey |-> IF k \in Listed(h) THEN h ELSE 0]

\* Panics over concurrent creations and crashes do not stop Run for good: all
\* blocks are saved and linked in the end.
EventuallyFollowed ==
  <>[](saved = MaxHeight /\ linked = Height \ {1} /\ pc["loop"] = "check")

\* While the process lives and no request fails the statuses end up as those of the last
\* height that is not one of stakes, unless the writing of that list failed: no
\* job is lost between Run and the worker.
LastList == CHOOSE h \in Height :
  JobOf(h) = "validators" /\ \A g \in Height : JobOf(g) = "validators" => g <= h

EventuallyListed ==
  [](faults = 0 /\ Up) =>
    <>[](\/ spoiled
         \/ status = [k \in PubKey |-> IF k \in Listed(LastList) THEN LastList ELSE 0])

\* An uptime computed while the statuses were being rewritten is repaired: again
\* and again the uptimes of all validators are those of their links and statuses.
UptimesRepaired ==
  []<>(\A k \in PubKey : uptime[k] = IF Ready(k) THEN Signed(k) ELSE 0)
=============================================================================
