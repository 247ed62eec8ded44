-------------------------- MODULE MemoryStoreProofs --------------------------
(***************************************************************************)
(* MemoryStore for every set of runs, cap, expiry and clock: its types and *)
(* what a prune, run beside others, may and may not do.                    *)
(***************************************************************************)
EXTENDS MemoryStore, FiniteSetTheorems, TLAPS

LEMMA TypeInit == Init => TypeOK
  BY MemoryAssumption DEF Init, TypeOK, Stored, Points

(* A memory keeps its type whatever part of it an update writes.           *)
LEMMA MemoryTypes ==
    ASSUME NEW v \in Memory, NEW s \in Statuses, NEW b \in BOOLEAN,
           NEW c \in 0 .. MaxClock
    PROVE  /\ [v EXCEPT !.status = s, !.updated = c] \in Memory
           /\ [v EXCEPT !.pinned = b, !.updated = c] \in Memory
           /\ [v EXCEPT !.salience = Bump(@), !.last = c, !.updated = c] \in Memory
<1>1. v.salience \in Salience0 .. MaxSalience
  BY DEF Memory
<1>2. Bump(v.salience) \in Salience0 .. MaxSalience
  BY <1>1 DEF Bump, Salience0, MaxSalience
<1> QED
  BY <1>2 DEF Memory

(* A well-formed row, by itself: TypeOK asks it of each.                   *)
RowOK(v, now) == v \in Memory /\ v.last <= v.updated /\ v.updated <= now

LEMMA WrittenRows ==
    ASSUME NEW v, RowOK(v, clock), clock \in 0 .. MaxClock, MaxClock \in Nat,
           NEW s \in Statuses, NEW b \in BOOLEAN
    PROVE  /\ RowOK([v EXCEPT !.status = s, !.updated = clock], clock)
           /\ RowOK([v EXCEPT !.pinned = b, !.updated = clock], clock)
           /\ RowOK([v EXCEPT !.salience = Bump(@), !.last = clock, !.updated = clock], clock)
<1>1. v \in Memory /\ v.last \in 0 .. MaxClock /\ v.last <= clock
  BY DEF RowOK, Memory
<1> DEFINE expired == [v EXCEPT !.status = s, !.updated = clock]
           pinned  == [v EXCEPT !.pinned = b, !.updated = clock]
           touched == [v EXCEPT !.salience = Bump(@), !.last = clock, !.updated = clock]
<1>2. expired \in Memory /\ pinned \in Memory /\ touched \in Memory
  BY <1>1, MemoryTypes
<1>3. /\ expired.last = v.last /\ pinned.last = v.last /\ touched.last = clock
      /\ expired.updated = clock /\ pinned.updated = clock /\ touched.updated = clock
  BY <1>1 DEF Memory
<1> HIDE DEF expired, pinned, touched
<1>4. RowOK(expired, clock) /\ RowOK(pinned, clock) /\ RowOK(touched, clock)
  BY <1>1, <1>2, <1>3 DEF RowOK
<1> QED
  BY <1>4 DEF expired, pinned, touched

LEMMA TypeStep == TypeOK /\ [Next]_vars => TypeOK'
<1> SUFFICES ASSUME TypeOK, [Next]_vars PROVE TypeOK'
  OBVIOUS
<1> USE MemoryAssumption DEF TypeOK, Stored
<1>0. \A m \in Stored : RowOK(memories[m], clock)
  BY DEF RowOK
<1>1. ASSUME NEW r \in Runs, Recall(r) PROVE TypeOK'
  BY <1>1 DEF Recall, Goto, Points, Active
<1>2. ASSUME NEW r \in Runs, Touch(r) PROVE TypeOK'
  <2>1. /\ Stored' = Stored /\ UNCHANGED clock
        /\ memories' \in [Stored' -> Memory]
        /\ \A m \in Stored' : RowOK(memories'[m], clock')
    BY <1>0, <1>2, WrittenRows DEF Touch, RowOK, Statuses
  <2> QED
    BY <1>2, <2>1 DEF Touch, Goto, Points, RowOK
<1>3. ASSUME NEW r \in Runs, Create(r) PROVE TypeOK'
  <2>1. RowOK([status |-> "active", pinned |-> FALSE, salience |-> Salience0,
               last |-> clock, updated |-> clock], clock)
    BY DEF RowOK, Memory, Statuses, Salience0, MaxSalience
  <2>2. /\ Stored' = Stored \cup {r} /\ UNCHANGED clock
        /\ memories' \in [Stored' -> Memory]
        /\ \A m \in Stored' : RowOK(memories'[m], clock')
    BY <1>0, <1>3, <2>1, WrittenRows DEF Create, RowOK, Statuses
  <2> QED
    BY <1>3, <2>2 DEF Create, Goto, Points, prune, RowOK
<1>4. ASSUME NEW r \in Runs, Skip(r) PROVE TypeOK'
  BY <1>4 DEF Skip, Goto, Points, prune
<1>5. ASSUME NEW r \in Runs, CountActive(r) PROVE TypeOK'
  <2>1. Cardinality(Active) \in Nat
    BY FS_CardinalityType, FS_Subset DEF Active
  <2> QED
    BY <1>5, <2>1 DEF CountActive, Goto, Points
<1>6. ASSUME NEW r \in Runs, SelectCandidates(r) PROVE TypeOK'
  BY <1>6 DEF SelectCandidates, Goto, Points, Active
<1>7. ASSUME NEW r \in Runs, PruneCommit(r) PROVE TypeOK'
  <2> DEFINE table == Expire(picked[r])
  <2>1. table \in [Stored -> Memory] /\ \A m \in Stored : RowOK(table[m], clock)
    BY <1>0, WrittenRows DEF Expire, RowOK, Statuses
  <2>2. /\ Stored' \subseteq Stored /\ UNCHANGED clock
        /\ memories' \in [Stored' -> Memory]
        /\ \A m \in Stored' : RowOK(memories'[m], clock')
    BY <1>7, <2>1 DEF PruneCommit, Stale, RowOK
  <2> QED
    BY <1>7, <2>2 DEF PruneCommit, Goto, Points, RowOK
<1>8. ASSUME NEW r \in Runs, Fail(r) PROVE TypeOK'
  BY <1>8 DEF Fail, Goto, Points
<1>9. ASSUME NEW m \in Runs, Administer(m) PROVE TypeOK'
  <2>1. ASSUME NEW b \in BOOLEAN, SetPinned(m, b) PROVE TypeOK'
    <3>1. memories' = [memories EXCEPT ![m] = [@ EXCEPT !.pinned = b, !.updated = clock]]
      BY <2>1 DEF SetPinned, Memory
    <3> DEFINE row == [memories[m] EXCEPT !.pinned = b, !.updated = clock]
    <3>0. m \in Stored /\ RowOK(row, clock)
      BY <1>0, <2>1, WrittenRows DEF SetPinned, Statuses
    <3> HIDE DEF row
    <3>2. /\ Stored' = Stored /\ UNCHANGED clock
          /\ memories' \in [Stored' -> Memory]
          /\ \A o \in Stored' : RowOK(memories'[o], clock')
      <4>1. memories' = [memories EXCEPT ![m] = row] /\ UNCHANGED clock
        BY <2>1, <3>1 DEF row, SetPinned
      <4> QED
        BY <1>0, <3>0, <4>1 DEF RowOK
    <3>3. UNCHANGED <<pc, over, picked>> /\ undisturbed' = {}
      BY <2>1 DEF SetPinned, prune
    <3> QED
      BY <3>2, <3>3 DEF RowOK
  <2>2. ASSUME Delete(m) PROVE TypeOK'
    BY <2>2 DEF Delete, prune
  <2> QED
    BY <1>9, <2>1, <2>2 DEF Administer
<1>10. CASE Tick
  BY <1>10 DEF Tick, prune, Memory
<1>11. CASE UNCHANGED vars
  BY <1>11 DEF vars, prune
<1> QED
  BY <1>1, <1>2, <1>3, <1>4, <1>5, <1>6, <1>7, <1>8, <1>9, <1>10, <1>11 DEF Next, Serve

(* Rows and queues keep their types, stamps their order.                   *)
THEOREM MemoryTypeOK == Spec => []TypeOK
  BY TypeInit, TypeStep, PTL DEF Spec

-----------------------------------------------------------------------------
(* What is forgotten stays forgotten (MemoryRepository.touch and prune     *)
(* write by id and insert nothing).                                        *)
THEOREM ForgottenForGood == Spec => ForgottenStaysForgotten
<1>1. TypeOK /\ [Next]_vars
          => \A m \in Runs : Written(m) /\ m \notin Stored => m \notin Stored'
  <2> SUFFICES ASSUME TypeOK, [Next]_vars, NEW m \in Runs, Written(m), m \notin Stored
               PROVE  m \notin Stored'
    OBVIOUS
  <2>1. \A r \in Runs : Create(r) => m \notin Stored'
    BY DEF Create, Written, Pruning, Stored
  <2>2. \A r \in Runs : Serve(r) /\ ~Create(r) => Stored' \subseteq Stored
    BY DEF Serve, Recall, Touch, Skip, CountActive, SelectCandidates, PruneCommit, Fail,
           prune, Stored
  <2>3. \A o \in Runs : Administer(o) => Stored' \subseteq Stored
    BY DEF Administer, SetPinned, Delete, Stored
  <2>4. Tick \/ UNCHANGED vars => Stored' = Stored
    BY DEF Tick, vars, Stored
  <2> QED
    BY <2>1, <2>2, <2>3, <2>4 DEF Next
<1> QED
  BY <1>1, MemoryTypeOK, PTL DEF Spec, ForgottenStaysForgotten

(* A prune removes only rows that were hidden before it (the UPDATE of     *)
(* MemoryRepository.prune stamps what it hides).                           *)
THEOREM HiddenBeforeLost == Spec => SoftBeforeHard
<1>1. TypeOK => \A r \in Runs :
          PruneCommit(r) => \A m \in Stored \ Stored' : m \notin Active
  <2> SUFFICES ASSUME TypeOK, NEW r \in Runs, PruneCommit(r),
                      NEW m \in Stored \ Stored', m \in Active
               PROVE  FALSE
    OBVIOUS
  <2> DEFINE table == Expire(picked[r])
  <2>1. m \in Stale(table)
    BY DEF PruneCommit, Stored
  <2>2. m \notin picked[r] => table[m] = memories[m]
    BY DEF Expire, Stored
  <2>3. m \in picked[r] => table[m].updated = clock
    BY DEF Expire, Stored, TypeOK, Memory
  <2>4. clock + ExpiryTicks >= clock
    BY MemoryAssumption DEF TypeOK
  <2> QED
    BY <2>1, <2>2, <2>3, <2>4, MemoryAssumption DEF Stale, Active, TypeOK
<1> QED
  BY <1>1, MemoryTypeOK, PTL DEF Spec, SoftBeforeHard

-----------------------------------------------------------------------------
(* The store's bound.  PruneBounds speaks of the commit; what makes it     *)
(* true is known when the prune has counted and kept until then, while     *)
(* other runs expire, touch and lose rows.                                 *)
Within(S) == Cardinality(S) <= MaxRecords \/ S \subseteq Pinned

PruneInv ==
    \A r \in undisturbed :
        /\ pc[r] \in {"select", "update"}
        /\ pc[r] = "select" => Cardinality(Active) <= MaxRecords + over[r]
        /\ pc[r] = "update" => Within(Active \ picked[r])

LEMMA ActiveFinite ==
    ASSUME TypeOK, NEW S, S \subseteq Active
    PROVE  /\ IsFiniteSet(S) /\ Cardinality(S) \in Nat
           /\ \A T \in SUBSET S : IsFiniteSet(T) /\ Cardinality(T) \in Nat
                                   /\ Cardinality(T) <= Cardinality(S)
  BY MemoryAssumption, FS_Subset, FS_CardinalityType DEF TypeOK, Active

(* A smaller set stays within the bound, as long as no pin is taken off.   *)
LEMMA WithinShrinks ==
    ASSUME TypeOK, NEW S, NEW T, S \subseteq Active, T \subseteq S, Within(S),
           \A m \in T : m \in Pinned => m \in Pinned'
    PROVE  Cardinality(T) <= MaxRecords \/ T \subseteq Pinned'
  BY ActiveFinite, MemoryAssumption DEF Within

(* A step of anyone that adds no active row and takes no pin off keeps     *)
(* what a prune that waits has established.                                *)
LEMMA KeepsPrune ==
    ASSUME TypeOK, PruneInv, NEW r \in undisturbed,
           Active' \subseteq Active,
           \A m \in Active' : m \in Pinned => m \in Pinned',
           UNCHANGED <<pc[r], over[r], picked[r]>>
    PROVE  /\ pc'[r] \in {"select", "update"}
           /\ pc'[r] = "select" => Cardinality(Active') <= MaxRecords + over'[r]
           /\ pc'[r] = "update" => \/ Cardinality(Active' \ picked'[r]) <= MaxRecords
                                   \/ Active' \ picked'[r] \subseteq Pinned'
<1>1. r \in Runs /\ over[r] \in Nat
  BY DEF TypeOK
<1>2. pc[r] = "select" => Cardinality(Active') <= MaxRecords + over[r]
  <2>1. /\ Cardinality(Active') <= Cardinality(Active)
        /\ Cardinality(Active') \in Nat /\ Cardinality(Active) \in Nat
    <3>1. Active \subseteq Active /\ Active' \in SUBSET Active
      OBVIOUS
    <3> QED
      BY <3>1, ActiveFinite
  <2>2. pc[r] = "select" => Cardinality(Active) <= MaxRecords + over[r]
    BY DEF PruneInv
  <2> QED
    BY <1>1, <2>1, <2>2, MemoryAssumption
<1>3. pc[r] = "update" => \/ Cardinality(Active' \ picked[r]) <= MaxRecords
                          \/ Active' \ picked[r] \subseteq Pinned'
  <2> DEFINE S == Active \ picked[r]
             T == Active' \ picked[r]
  <2>1. S \subseteq Active /\ T \subseteq S /\ \A m \in T : m \in Pinned => m \in Pinned'
    OBVIOUS
  <2>2. pc[r] = "update" => Within(S)
    BY DEF PruneInv
  <2> HIDE DEF S, T
  <2>3. pc[r] = "update" => Cardinality(T) <= MaxRecords \/ T \subseteq Pinned'
    BY <2>1, <2>2, WithinShrinks
  <2> QED
    BY <2>3 DEF T
<1> QED
  BY <1>2, <1>3 DEF PruneInv

(* How each step changes the active rows and the pins.                     *)
LEMMA ActiveShrinks ==
    ASSUME TypeOK, NEW r \in Runs,
           \/ Recall(r) \/ Touch(r) \/ Skip(r) \/ CountActive(r)
           \/ SelectCandidates(r) \/ PruneCommit(r) \/ Fail(r)
           \/ \E m \in Runs : Delete(m)
    PROVE  /\ Active' \subseteq Active
           /\ \A m \in Active' : m \in Pinned => m \in Pinned'
<1>1. CASE Touch(r)
  <2>1. Stored' = Stored
    BY <1>1 DEF Touch, Stored
  <2>2. \A m \in Stored :
            /\ memories'[m].status = memories[m].status
            /\ memories'[m].pinned = memories[m].pinned
    BY <1>1 DEF Touch, TypeOK, Memory, Stored
  <2> QED
    BY <2>1, <2>2 DEF Active, Pinned
<1>2. CASE PruneCommit(r)
  <2> DEFINE table == Expire(picked[r])
  <2>1. /\ Stored' \subseteq Stored
        /\ \A m \in Stored' : memories'[m] = table[m]
    BY <1>2 DEF PruneCommit, Stored
  <2>2. \A m \in Stored :
            /\ table[m].pinned = memories[m].pinned
            /\ table[m].status = "active" => memories[m].status = "active"
    BY DEF Expire, TypeOK, Memory, Stored
  <2> QED
    BY <2>1, <2>2 DEF Active, Pinned
<1>3. CASE \E m \in Runs : Delete(m)
  BY <1>3 DEF Delete, Active, Pinned, Stored
<1>4. CASE Recall(r) \/ Skip(r) \/ CountActive(r) \/ SelectCandidates(r) \/ Fail(r)
  BY <1>4 DEF Recall, Skip, CountActive, SelectCandidates, Fail, Active, Pinned, Stored
<1> QED
  BY <1>1, <1>2, <1>3, <1>4

LEMMA PruneCommitHides ==
    ASSUME TypeOK, NEW r \in Runs, PruneCommit(r)
    PROVE  Active' \subseteq Active \ picked[r]
  BY DEF PruneCommit, Expire, Active, Stored, TypeOK, Memory, Statuses

(* With the `over` lowest unpinned rows gone, or all of them, the rest is  *)
(* within the bound.                                                       *)
LEMMA SelectBounds ==
    ASSUME TypeOK, NEW r \in Runs, SelectCandidates(r),
           Cardinality(Active) <= MaxRecords + over[r]
    PROVE  Within(Active \ picked'[r])
<1> DEFINE C == Active \ Pinned
<1>1. PICK S \in SUBSET C : IsLowest(S, C, over[r]) /\ picked' = [picked EXCEPT ![r] = S]
  BY DEF SelectCandidates
<1>2. picked'[r] = S
  BY <1>1 DEF TypeOK
<1>3. IsFiniteSet(Active) /\ IsFiniteSet(C)
  BY ActiveFinite
<1>4. Cardinality(S) = IF over[r] < Cardinality(C) THEN over[r] ELSE Cardinality(C)
  BY <1>1 DEF IsLowest
<1>5. CASE over[r] < Cardinality(C)
  <2>1. Active \cap S = S
    OBVIOUS
  <2>2. Cardinality(Active \ S) = Cardinality(Active) - over[r]
    BY <1>3, <1>4, <1>5, <2>1, FS_Difference
  <2>3. Cardinality(Active) \in Nat /\ over[r] \in Nat
    BY <1>3, FS_CardinalityType DEF TypeOK
  <2> QED
    BY <1>2, <2>2, <2>3, MemoryAssumption DEF Within
<1>6. CASE ~(over[r] < Cardinality(C))
  <2>1. C = S
    BY <1>3, <1>4, <1>6, FS_Subset
  <2> QED
    BY <1>2, <2>1 DEF Within
<1> QED
  BY <1>5, <1>6

(* A run whose prune is under way is at the count, the SELECT or the       *)
(* UPDATE; what the others do keeps its entry of PruneInv.                 *)
LEMMA PruneStep == TypeOK /\ PruneInv /\ [Next]_vars => PruneInv'
<1> SUFFICES ASSUME TypeOK, PruneInv, [Next]_vars, NEW q \in undisturbed'
             PROVE  /\ pc'[q] \in {"select", "update"}
                    /\ pc'[q] = "select" => Cardinality(Active') <= MaxRecords + over'[q]
                    /\ pc'[q] = "update" => \/ Cardinality(Active' \ picked'[q]) <= MaxRecords
                                            \/ Active' \ picked'[q] \subseteq Pinned'
  BY DEF PruneInv, Within
<1> DEFINE Keeps ==
        /\ q \in undisturbed
        /\ Active' \subseteq Active
        /\ \A m \in Active' : m \in Pinned => m \in Pinned'
        /\ UNCHANGED <<pc[q], over[q], picked[q]>>
<1>0. Keeps => /\ pc'[q] \in {"select", "update"}
               /\ pc'[q] = "select" => Cardinality(Active') <= MaxRecords + over'[q]
               /\ pc'[q] = "update" => \/ Cardinality(Active' \ picked'[q]) <= MaxRecords
                                       \/ Active' \ picked'[q] \subseteq Pinned'
  BY KeepsPrune
<1> HIDE DEF Keeps
<1>1. ASSUME NEW r \in Runs, q # r, Serve(r), ~Create(r) PROVE Keeps
  <2>1. /\ Active' \subseteq Active
        /\ \A m \in Active' : m \in Pinned => m \in Pinned'
    BY <1>1, ActiveShrinks DEF Serve
  <2>2. q \in undisturbed /\ UNCHANGED <<pc[q], over[q], picked[q]>>
    BY <1>1 DEF Serve, Recall, Touch, Skip, CountActive, SelectCandidates, PruneCommit,
                Fail, Goto, prune, TypeOK
  <2> QED
    BY <2>1, <2>2 DEF Keeps
<1>2. ASSUME NEW m \in Runs, Delete(m) PROVE Keeps
  <2>1. /\ Active' \subseteq Active
        /\ \A o \in Active' : o \in Pinned => o \in Pinned'
    BY <1>2, ActiveShrinks
  <2> QED
    BY <1>2, <2>1 DEF Delete, prune, Keeps
<1>3. ASSUME Tick \/ UNCHANGED vars PROVE Keeps
  <2>1. UNCHANGED <<memories, pc, over, picked, undisturbed>>
    BY <1>3 DEF Tick, vars, prune
  <2>2. Active' = Active /\ Pinned' = Pinned
    BY <2>1 DEF Active, Pinned, Stored
  <2>3. /\ Active' \subseteq Active
        /\ \A m \in Active' : m \in Pinned => m \in Pinned'
    BY <2>2
  <2>4. q \in undisturbed /\ UNCHANGED <<pc[q], over[q], picked[q]>>
    BY <2>1
  <2> QED
    BY <2>3, <2>4 DEF Keeps
<1>4. ASSUME NEW r \in Runs, Create(r) \/ \E b \in BOOLEAN : SetPinned(r, b) PROVE FALSE
  BY <1>4 DEF Create, SetPinned
<1>5. ASSUME q \in Runs, Recall(q) \/ Touch(q) \/ Skip(q) \/ PruneCommit(q) \/ Fail(q)
      PROVE  FALSE
  BY <1>5 DEF Recall, Touch, Skip, PruneCommit, Fail, prune, PruneInv
<1>6. ASSUME q \in Runs, CountActive(q)
      PROVE  /\ pc'[q] \in {"select", "update"}
             /\ pc'[q] = "select" => Cardinality(Active') <= MaxRecords + over'[q]
             /\ pc'[q] = "update" => Cardinality(Active' \ picked'[q]) <= MaxRecords
  <2>1. Active' = Active /\ picked' = picked
    BY <1>6 DEF CountActive, Active, Stored
  <2>2. /\ Cardinality(Active) \in Nat
        /\ Cardinality(Active \ picked[q]) \in Nat
        /\ Cardinality(Active \ picked[q]) <= Cardinality(Active)
    <3>1. Active \subseteq Active /\ Active \ picked[q] \in SUBSET Active
      OBVIOUS
    <3> QED
      BY <3>1, ActiveFinite
  <2>3. \/ /\ pc'[q] = "select" /\ over'[q] = Cardinality(Active) - MaxRecords
        \/ /\ pc'[q] = "update" /\ ~(Cardinality(Active) > MaxRecords)
    BY <1>6, <2>2, MemoryAssumption DEF CountActive, Goto, TypeOK
  <2> QED
    BY <2>1, <2>2, <2>3, MemoryAssumption
<1>7. ASSUME q \in Runs, SelectCandidates(q)
      PROVE  /\ pc'[q] = "update"
             /\ \/ Cardinality(Active' \ picked'[q]) <= MaxRecords
                \/ Active' \ picked'[q] \subseteq Pinned'
  <2>1. q \in undisturbed /\ pc[q] = "select" /\ pc'[q] = "update"
    BY <1>7 DEF SelectCandidates, Goto, TypeOK
  <2>2. Within(Active \ picked'[q])
    BY <1>7, <2>1, SelectBounds DEF PruneInv
  <2>3. Active' = Active /\ Pinned' = Pinned
    BY <1>7 DEF SelectCandidates, Active, Pinned, Stored
  <2> QED
    BY <2>1, <2>2, <2>3 DEF Within
<1>8. q \in Runs
  BY TypeStep DEF TypeOK
<1>9. CASE \E r \in Runs : Serve(r)
  BY <1>0, <1>1, <1>4, <1>5, <1>6, <1>7, <1>8, <1>9 DEF Serve
<1>10. CASE \E r \in Runs : Administer(r)
  BY <1>0, <1>2, <1>4, <1>10 DEF Administer
<1> QED
  BY <1>0, <1>3, <1>9, <1>10 DEF Next

(* The store is bounded whatever runs beside a prune (I-22,                *)
(* MemoryRepository.prune): only writes and pins between its count and its *)
(* commit can leave more than the cap.                                     *)
THEOREM StoreIsBounded == Spec => PruneBounds
<1>1. Init => PruneInv
  BY DEF Init, PruneInv
<1>2. TypeOK /\ PruneInv => \A r \in undisturbed :
          PruneCommit(r) => Cardinality(Active') <= MaxRecords \/ Active' \subseteq Pinned'
  <2> SUFFICES ASSUME TypeOK, PruneInv, NEW r \in undisturbed, PruneCommit(r)
               PROVE  Cardinality(Active') <= MaxRecords \/ Active' \subseteq Pinned'
    OBVIOUS
  <2>1. r \in Runs /\ pc[r] = "update"
    BY DEF TypeOK, PruneCommit
  <2>2. Within(Active \ picked[r])
    BY <2>1 DEF PruneInv
  <2>3. \A m \in Active' : m \in Pinned => m \in Pinned'
    BY <2>1, ActiveShrinks
  <2>4. Active' \subseteq Active \ picked[r]
    BY <2>1, PruneCommitHides
  <2>5. Active \ picked[r] \subseteq Active
    OBVIOUS
  <2> QED
    BY <2>2, <2>3, <2>4, <2>5, WithinShrinks
<1> QED
  BY <1>1, <1>2, PruneStep, MemoryTypeOK, PTL DEF Spec, PruneBounds

=============================================================================
