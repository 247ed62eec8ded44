----------------------------- MODULE MemoryStore -----------------------------
(***************************************************************************)
(* The episodic memory several runs and an administrator share             *)
(* (memory/service.py, memory/store.py, MemoryRepository).  Each run       *)
(* recalls lessons at plan time and may write one memory when it ends; the *)
(* write prunes the store.  Every await is a step boundary, and a SELECT   *)
(* takes no lock that outlives it: only a transaction's writes are atomic, *)
(* so what a prune has read can be stale when it commits.                  *)
(*                                                                         *)
(* A memory is named by the run it was distilled from.  Text is left out:  *)
(* which memories a goal recalls is any choice of active ones.             *)
(***************************************************************************)
EXTENDS Naturals, FiniteSets

CONSTANTS
    Runs,           \* each run writes at most one memory
    MaxRecords,     \* memory_max_records
    ExpiryTicks,    \* memory_expiry_days
    RecallLimit,    \* memory_recall_k
    MaxClock        \* bound on time; a tick is ten days (see Retention)

ASSUME MemoryAssumption ==
    /\ IsFiniteSet(Runs)
    /\ MaxRecords \in Nat \ {0}
    /\ ExpiryTicks \in Nat \ {0}
    /\ RecallLimit \in Nat
    /\ MaxClock \in Nat

VARIABLES
    memories,       \* the memories table, by run
    clock,
    pc,             \* by run: what its MemoryService does next
    over,           \* by run: its prune's count of active rows beyond the cap
    picked,         \* by run: rows it has read and is about to update
    undisturbed     \* prunes since whose count no row was added or (un)pinned

prune == <<over, picked>>
vars  == <<memories, clock, pc, prune, undisturbed>>

Statuses == {"active", "expired"}

(* Tenths of a point: a memory starts at 1.0, a recall adds 0.1 up to 5.0. *)
Salience0   == 10
MaxSalience == 50

Memory ==
    [status : Statuses, pinned : BOOLEAN, salience : Salience0 .. MaxSalience,
     last : 0 .. MaxClock, updated : 0 .. MaxClock]

Stored  == DOMAIN memories
Active  == {m \in Stored : memories[m].status = "active"}
Pinned  == {m \in Stored : memories[m].pinned}

(* _retention_key: 0.01 is taken off per day since the memory was last     *)
(* recalled or written, one tenth per tick.  Kept positive here.           *)
Retention(m) == memories[m].salience + MaxClock - (clock - memories[m].last)

(* Points between the awaits of MemoryService.recall and write.            *)
Points == {"recall", "touch", "work", "count", "select", "update", "done"}

Pruning == {"count", "select", "update"}

Init ==
    /\ memories = [m \in {} |-> 0]
    /\ clock = 0
    /\ pc = [r \in Runs |-> "recall"]
    /\ over = [r \in Runs |-> 0]
    /\ picked = [r \in Runs |-> {}]
    /\ undisturbed = {}

Goto(r, next) == pc' = [pc EXCEPT ![r] = next]

-----------------------------------------------------------------------------
(* Recall: select at most k active lessons, then bump their salience.      *)

Recall(r) ==
    /\ pc[r] = "recall"
    /\ \E S \in SUBSET Active :
           /\ Cardinality(S) <= RecallLimit
           /\ picked' = [picked EXCEPT ![r] = S]
           /\ Goto(r, IF S = {} THEN "work" ELSE "touch")
    /\ UNCHANGED <<memories, clock, over, undisturbed>>

Bump(s) == IF s < MaxSalience THEN s + 1 ELSE MaxSalience

Touch_Merges(r) ==
    /\ pc[r] = "touch"
    /\ memories' =
           [m \in Stored \cup picked[r] |->
               IF m \in picked[r]
               THEN [status |-> "active", pinned |-> FALSE, salience |-> Salience0 + 1,
                     last |-> clock, updated |-> clock]
               ELSE memories[m]]
    /\ picked' = [picked EXCEPT ![r] = {}]
    /\ Goto(r, "work")
    /\ UNCHANGED <<clock, over, undisturbed>>

(* One UPDATE by id: a memory deleted meanwhile is not there, one expired  *)
(* meanwhile is bumped all the same.                                       *)
Touch(r) ==
    /\ pc[r] = "touch"
    /\ memories' =
           [m \in Stored |->
               IF m \in picked[r]
               THEN [memories[m] EXCEPT !.salience = Bump(@), !.last = clock,
                                        !.updated = clock]
               ELSE memories[m]]
    /\ picked' = [picked EXCEPT ![r] = {}]
    /\ Goto(r, "work")
    /\ UNCHANGED <<clock, over, undisturbed>>

-----------------------------------------------------------------------------
(* Write, then prune in a transaction of its own                           *)

(* MemoryRepository.create: insert, or refresh the run's memory and keep   *)
(* its ranking signals.                                                    *)
Create(r) ==
    /\ pc[r] = "work"
    /\ memories' =
           [m \in Stored \cup {r} |->
               IF m # r THEN memories[m]
               ELSE IF r \in Stored
               THEN [memories[r] EXCEPT !.status = "active", !.updated = clock]
               ELSE [status |-> "active", pinned |-> FALSE, salience |-> Salience0,
                     last |-> clock, updated |-> clock]]
    /\ Goto(r, "count")
    /\ undisturbed' = {}
    /\ UNCHANGED <<clock, prune>>

(* The run ends in another outcome, or did too little to learn from.       *)
Skip(r) ==
    /\ pc[r] = "work"
    /\ Goto(r, "done")
    /\ UNCHANGED <<memories, clock, prune, undisturbed>>

CountActive_Unpinned(r) ==
    /\ pc[r] = "count"
    /\ LET n == Cardinality(Active \ Pinned) IN
           IF n > MaxRecords
           THEN over' = [over EXCEPT ![r] = n - MaxRecords] /\ Goto(r, "select")
           ELSE Goto(r, "update") /\ UNCHANGED over
    /\ undisturbed' = undisturbed \cup {r}
    /\ UNCHANGED <<memories, clock, picked>>

CountActive(r) ==
    /\ pc[r] = "count"
    /\ LET n == Cardinality(Active) IN
           IF n > MaxRecords
           THEN over' = [over EXCEPT ![r] = n - MaxRecords] /\ Goto(r, "select")
           ELSE Goto(r, "update") /\ UNCHANGED over
    /\ undisturbed' = undisturbed \cup {r}
    /\ UNCHANGED <<memories, clock, picked>>

(* The first `over` of the unpinned active rows by retention; rows that    *)
(* tie come in either order.                                               *)
IsLowest(S, C, n) ==
    /\ Cardinality(S) = IF n < Cardinality(C) THEN n ELSE Cardinality(C)
    /\ \A m \in S, o \in C \ S : Retention(m) <= Retention(o)

SelectCandidates(r) ==
    /\ pc[r] = "select"
    /\ \E S \in SUBSET (Active \ Pinned) :
           /\ IsLowest(S, Active \ Pinned, over[r])
           /\ picked' = [picked EXCEPT ![r] = S]
    /\ over' = [over EXCEPT ![r] = 0]
    /\ Goto(r, "update")
    /\ UNCHANGED <<memories, clock, undisturbed>>

(* The rows read above are written by id, status and stamp only.           *)
Expire_KeepsStamp(S) ==
    [m \in Stored |->
        IF m \in S THEN [memories[m] EXCEPT !.status = "expired"] ELSE memories[m]]

Expire(S) ==
    [m \in Stored |->
        IF m \in S
        THEN [memories[m] EXCEPT !.status = "expired", !.updated = clock]
        ELSE memories[m]]

(* Rows that have been expired, and not written since, for longer than the *)
(* expiry time.                                                            *)
Stale(table) ==
    {m \in DOMAIN table : table[m].status = "expired"
                          /\ table[m].updated + ExpiryTicks < clock}

PruneCommit(r) ==
    /\ pc[r] = "update"
    /\ picked[r] \subseteq Stored
    /\ LET table == Expire(picked[r]) IN
           memories' = [m \in Stored \ Stale(table) |-> table[m]]
    /\ picked' = [picked EXCEPT ![r] = {}]
    /\ undisturbed' = undisturbed \ {r}
    /\ Goto(r, "done")
    /\ UNCHANGED <<clock, over>>

(* A row to update is gone (StaleDataError), the database is locked, the   *)
(* process dies: the transaction is rolled back, and MemoryService         *)
(* swallows it; a recall that fails lets the run go on without lessons.    *)
Fail(r) ==
    /\ pc[r] \in {"touch"} \cup Pruning
    /\ Goto(r, IF pc[r] = "touch" THEN "work" ELSE "done")
    /\ over' = [over EXCEPT ![r] = 0]
    /\ picked' = [picked EXCEPT ![r] = {}]
    /\ undisturbed' = undisturbed \ {r}
    /\ UNCHANGED <<memories, clock>>

-----------------------------------------------------------------------------
(* The administrator, through api/routes.py                                *)

SetPinned(m, pinned) ==
    /\ m \in Stored
    /\ memories' = [memories EXCEPT ![m].pinned = pinned, ![m].updated = clock]
    /\ undisturbed' = {}
    /\ UNCHANGED <<clock, pc, prune>>

Delete(m) ==
    /\ m \in Stored
    /\ memories' = [o \in Stored \ {m} |-> memories[o]]
    /\ UNCHANGED <<clock, pc, prune, undisturbed>>

(* Days pass between a run's operations on the store, not within one.      *)
Tick ==
    /\ clock < MaxClock
    /\ \A r \in Runs : pc[r] \notin {"touch"} \cup Pruning
    /\ clock' = clock + 1
    /\ UNCHANGED <<memories, pc, prune, undisturbed>>

-----------------------------------------------------------------------------
Serve(r) ==
    \/ Recall(r) \/ Touch(r) \/ Create(r) \/ Skip(r)
    \/ CountActive(r) \/ SelectCandidates(r) \/ PruneCommit(r) \/ Fail(r)

Administer(m) ==
    \/ \E pinned \in BOOLEAN : SetPinned(m, pinned)
    \/ Delete(m)

Next ==
    \/ \E r \in Runs : Serve(r) \/ Administer(r)
    \/ Tick

Spec == Init /\ [][Next]_vars

-----------------------------------------------------------------------------
(* Types, and the order of the stamps: a memory's age, which decides what   *)
(* is evicted, and the age of its expiry never run ahead of the clock or   *)
(* of each other.                                                          *)
TypeOK ==
    /\ Stored \subseteq Runs
    /\ memories \in [Stored -> Memory]
    /\ \A m \in Stored : memories[m].last <= memories[m].updated
                        /\ memories[m].updated <= clock
    /\ clock \in 0 .. MaxClock
    /\ pc \in [Runs -> Points]
    /\ over \in [Runs -> Nat]
    /\ picked \in [Runs -> SUBSET Runs]
    /\ undisturbed \in SUBSET Runs

(* The store is bounded (I-22): a prune during which nothing was added or  *)
(* (un)pinned leaves at most MaxRecords active memories, or only pinned    *)
(* ones, whatever other prunes, touches and deletions run beside it.       *)
PruneBounds ==
    [][\A r \in undisturbed :
          PruneCommit(r) => Cardinality(Active') <= MaxRecords
                            \/ Active' \subseteq Pinned']_vars

(* A memory is hidden before it is lost: no prune, nor two that run side   *)
(* by side and expire the same rows, remove a memory a search could have   *)
(* returned until then.  Only a later prune does, once the expiry time is  *)
(* over.                                                                   *)
SoftBeforeHard ==
    [][\A r \in Runs :
          PruneCommit(r) => \A m \in Stored \ Stored' : m \notin Active]_vars

(* A memory that was written and is gone, by deletion or expiry, never     *)
(* comes back: a recall or a prune that still holds it does not restore it *)
(* (docs: "Forget a memory").                                              *)
Written(m) == pc[m] \in Pruning \cup {"done"}

ForgottenStaysForgotten ==
    [][\A m \in Runs : Written(m) /\ m \notin Stored => m \notin Stored']_vars

-----------------------------------------------------------------------------
(* Claim of the documentation that the code does not meet: user-pinned     *)
(* memories are never pruned.                                              *)
PinnedNeverPruned ==
    [][\A r \in Runs, m \in Pinned :
          PruneCommit(r) => m \in Stored' /\ (m \in Active => m \in Active')]_vars

=============================================================================
