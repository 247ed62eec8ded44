-------------------------- MODULE AlgorithmProofs --------------------------
(***************************************************************************)
(* The pure algorithms for every input.  A recall, for any memories, any   *)
(* number of them, any k and any budget: the lessons fit, the selection is *)
(* justified and pinned memories come first.  The use of a reply, for any  *)
(* replies and any limits: verdicts and plans are justified by them.  The  *)
(* extraction of an object, for any text: the scan finds the first one     *)
(* that the grammar of balanced text has.                                  *)
(***************************************************************************)
EXTENDS Recall, Replies, SequenceTheorems, FiniteSetTheorems, TLAPS

Selected == [memory : store, length : Nat]

(* Types, as far as the arithmetic needs them.                             *)
SelectionTypes ==
    /\ store \subseteq Library
    /\ k \in Nat /\ charBudget \in Nat
    /\ pc \in {"search", "select", "done"}
    /\ pool \subseteq store /\ rest \subseteq pool
    /\ picked \in Seq(Selected)
    /\ used \in Nat
    /\ pc = "search" => picked = <<>> /\ used = 0 /\ pool = {} /\ rest = {}
    /\ pc = "select" => k > 0

(* The room that is left suffices for the lessons still to come, each with *)
(* its full share.                                                         *)
BudgetInv ==
    /\ Len(picked) <= k
    /\ used <= charBudget + 1
    /\ used > charBudget => picked # <<>> /\ picked[Len(picked)].length = 2
    /\ k > 0 /\ k * PerItem <= charBudget =>
           used + (k - Len(picked)) * PerItem <= charBudget

(* What is picked is before what the loop has not come to; and what it has *)
(* passed by, it had a reason to.                                          *)
OrderInv ==
    /\ Picks \subseteq pool \ rest
    /\ \A i \in DOMAIN picked :
          /\ Passes(picked[i].memory) /\ picked[i].memory.length > 0
          /\ \A j \in 1 .. (i - 1) :
                /\ Before(picked[j].memory, picked[i].memory)
                /\ ~Alike(picked[i].memory.words, picked[j].memory.words)
    /\ \A n \in Picks, m \in rest : Before(n, m)
    /\ \A m \in pool \ (rest \cup Picks) :
          \/ ~Passes(m)
          \/ m.length = 0
          \/ \E n \in Picks : Before(n, m) /\ Alike(m.words, n.words)
    /\ pc = "done" => \A m \in pool \ Picks : LeftOutFor(m)

LEMMA PerItemIsLarge ==
    ASSUME k \in Nat \ {0}, charBudget \in Nat
    PROVE  PerItem \in Nat /\ PerItem >= 2
<1>1. charBudget \div k \in Nat /\ MinPerItem \in Nat /\ MinPerItem >= 2
  BY RecallAssumption
<1> QED
  BY <1>1 DEF PerItem, Larger

(* _truncate exceeds its limit only where that is a single character.      *)
LEMMA TruncatedFits ==
    ASSUME NEW length \in Nat, NEW max \in Nat \ {0}, NEW n \in Truncated(length, max)
    PROVE  n \in Nat /\ n <= max + 1 /\ (max >= 2 => n <= max)
BY DEF Truncated, Larger

LEMMA RecallInitTypes == RecallInit => SelectionTypes /\ BudgetInv /\ OrderInv
<1> SUFFICES ASSUME RecallInit PROVE SelectionTypes /\ BudgetInv /\ OrderInv
  OBVIOUS
<1>1. k \in Nat /\ charBudget \in Nat /\ store \subseteq Library
  BY RecallAssumption DEF RecallInit
<1>2. picked = <<>> /\ used = 0 /\ pool = {} /\ rest = {} /\ pc = "search"
  BY DEF RecallInit
<1>3. SelectionTypes
  BY <1>1, <1>2 DEF SelectionTypes
<1>4. BudgetInv
  <2>1. Len(picked) = 0
    BY <1>2
  <2>2. k > 0 /\ k * PerItem <= charBudget => used + (k - Len(picked)) * PerItem <= charBudget
    BY <1>1, <1>2, <2>1, PerItemIsLarge
  <2> QED
    BY <1>1, <1>2, <2>1, <2>2 DEF BudgetInv
<1>5. OrderInv
  BY <1>2 DEF OrderInv, Picks
<1> QED
  BY <1>3, <1>4, <1>5

LEMMA PickFits ==
    ASSUME SelectionTypes, BudgetInv, NEW m \in store, Pick(m)
    PROVE  SelectionTypes' /\ BudgetInv'
<1>1. PICK length \in Truncated(m.length, Smaller(PerItem, Remaining)) :
          /\ picked' = Append(picked, [memory |-> m, length |-> length])
          /\ used' = used + length
  BY DEF Pick
<1>2. /\ pc = "select" /\ Len(picked) < k /\ m \in rest /\ Remaining > 0
      /\ rest' = rest \ {m}
      /\ UNCHANGED <<store, fts, k, charBudget, pc, pool>>
  BY DEF Pick, IsNext, given
<1>3. m.length \in Nat
  BY RecallAssumption DEF SelectionTypes, IsMemory
<1>4. /\ k \in Nat \ {0} /\ charBudget \in Nat /\ used \in Nat /\ Len(picked) \in Nat
      /\ picked \in Seq(Selected)
  BY <1>2 DEF SelectionTypes
<1>5. PerItem \in Nat /\ PerItem >= 2 /\ PerItem' = PerItem
  BY <1>2, <1>4, PerItemIsLarge DEF PerItem
<1>6. Remaining = charBudget - used
  BY DEF Remaining
<1> DEFINE max == Smaller(PerItem, Remaining)
<1>7. max \in Nat \ {0} /\ max <= PerItem /\ max <= Remaining /\ (max = PerItem \/ max = Remaining)
  BY <1>2, <1>4, <1>5, <1>6 DEF Smaller
<1>8. length \in Nat /\ length <= max + 1 /\ (max >= 2 => length <= max)
  BY <1>1, <1>3, <1>7, TruncatedFits
<1> HIDE DEF max
<1>9. /\ picked' \in Seq(Selected) /\ Len(picked') = Len(picked) + 1
  BY <1>1, <1>4, <1>8, [memory |-> m, length |-> length] \in Selected DEF Selected
<1>10. used' \in Nat /\ used' <= charBudget + 1
  BY <1>1, <1>2, <1>4, <1>6, <1>7, <1>8
<1>11. SelectionTypes'
  BY <1>2, <1>9, <1>10 DEF SelectionTypes, Selected
<1>12. ASSUME k * PerItem <= charBudget
       PROVE  used' + (k - Len(picked')) * PerItem <= charBudget
  <2> DEFINE share == PerItem
             todo  == k - Len(picked)
  <2>1. used + todo * share <= charBudget
    BY <1>4, <1>12 DEF BudgetInv
  <2>2. todo \in Nat \ {0} /\ share \in Nat /\ share >= 2
    BY <1>2, <1>4, <1>5
  <2>3. k - Len(picked') = todo - 1
    BY <1>4, <1>9
  <2> HIDE DEF share, todo
  <2>4. todo * share = (todo - 1) * share + share /\ (todo - 1) * share >= 0
    BY <2>2
  <2>5. Remaining >= share
    BY <1>4, <1>6, <2>1, <2>2, <2>4, todo * share \in Nat, (todo - 1) * share \in Nat
  <2>6. max = share
    BY <1>5, <1>6, <1>7, <1>4, <2>2, <2>5 DEF share
  <2>7. length <= share
    BY <1>8, <2>2, <2>6
  <2>8. used + length + (todo - 1) * share <= charBudget
    BY <1>4, <1>8, <2>1, <2>2, <2>4, <2>7, todo * share \in Nat, (todo - 1) * share \in Nat
  <2> QED
    BY <1>1, <2>3, <2>8 DEF share
<1>13. ASSUME used' > charBudget
       PROVE  picked' # <<>> /\ picked'[Len(picked')].length = 2
  <2>1. max = 1
    BY <1>1, <1>4, <1>6, <1>7, <1>8, <1>13
  <2>2. length > max
    BY <1>1, <1>2, <1>4, <1>6, <1>8, <1>13, <2>1
  <2>3. length = 2
    BY <1>8, <2>1, <2>2
  <2>4. [memory |-> m, length |-> length] \in Selected
    BY <1>8 DEF Selected
  <2>5. picked'[Len(picked')] = [memory |-> m, length |-> length]
    BY <1>1, <1>4, <1>9, <2>4, AppendProperties
  <2> QED
    BY <1>4, <1>9, <2>3, <2>5
<1> QED
  BY <1>2, <1>4, <1>5, <1>9, <1>10, <1>11, <1>12, <1>13 DEF BudgetInv

LEMMA FitsStep ==
    ASSUME SelectionTypes, BudgetInv, [RecallNext]_recallVars
    PROVE  SelectionTypes' /\ BudgetInv'
<1>1. CASE RecallNothing
  BY <1>1 DEF RecallNothing, given, SelectionTypes, BudgetInv, PerItem, Selected
<1>2. CASE Search
  BY <1>2 DEF Search, given, SelectionTypes, BudgetInv, PerItem, Selected
<1>3. CASE Stop
  BY <1>3 DEF Stop, given, SelectionTypes, BudgetInv, PerItem, Selected
<1>4. ASSUME NEW m \in store, Pass(m) PROVE SelectionTypes' /\ BudgetInv'
  BY <1>4 DEF Pass, IsNext, given, SelectionTypes, BudgetInv, PerItem, Selected
<1>5. CASE UNCHANGED recallVars
  BY <1>5 DEF recallVars, given, SelectionTypes, BudgetInv, PerItem, Selected
<1> QED
  BY <1>1, <1>2, <1>3, <1>4, <1>5, PickFits DEF RecallNext

(* For every k and budget: at most k lessons, and never more characters    *)
(* than the budget and one, the ellipsis of a last lesson cut to a single  *)
(* character; nor than the budget if it is large enough for k minimum      *)
(* shares (select_within_budget, _truncate).                               *)
THEOREM LessonsAlwaysFit == RecallSpec => []LessonsFit
<1>1. SelectionTypes /\ BudgetInv => LessonsFit
  <2> SUFFICES ASSUME SelectionTypes, BudgetInv PROVE LessonsFit
    OBVIOUS
  <2>1. ASSUME k > 0, k * PerItem <= charBudget PROVE used <= charBudget
    <3>1. PerItem \in Nat /\ k - Len(picked) \in Nat /\ used \in Nat /\ charBudget \in Nat
      BY <2>1, PerItemIsLarge DEF SelectionTypes, BudgetInv
    <3>2. (k - Len(picked)) * PerItem \in Nat
      BY <3>1
    <3> QED
      BY <2>1, <3>1, <3>2 DEF BudgetInv
  <2> QED
    BY <2>1 DEF BudgetInv, LessonsFit
<1> QED
  BY <1>1, RecallInitTypes, FitsStep, PTL DEF RecallSpec

-----------------------------------------------------------------------------
(* The order of the candidates is fixed by the pool.                       *)
LEMMA SameOrder ==
    ASSUME pool' = pool, NEW m, NEW n
    PROVE  Before(m, n)' <=> Before(m, n)
<1>1. ASSUME NEW c PROVE Total(c)' = Total(c)
  BY Zenon DEF Total, MinMax
<1> QED
  BY <1>1, Zenon DEF Before

LEMMA PicksAppend ==
    ASSUME picked \in Seq(Selected), NEW e \in Selected, picked' = Append(picked, e)
    PROVE  /\ Picks' = Picks \cup {e.memory}
           /\ Len(picked') = Len(picked) + 1
           /\ DOMAIN picked = 1 .. Len(picked)
           /\ DOMAIN picked' = 1 .. (Len(picked) + 1)
           /\ \A i \in 1 .. Len(picked) : picked'[i] = picked[i]
           /\ picked'[Len(picked) + 1] = e
<1>1. /\ Len(picked) \in Nat /\ Len(picked') = Len(picked) + 1
      /\ DOMAIN picked = 1 .. Len(picked)
      /\ DOMAIN picked' = 1 .. (Len(picked) + 1)
      /\ \A i \in 1 .. Len(picked) : picked'[i] = picked[i]
      /\ picked'[Len(picked) + 1] = e
  <2>1. Append(picked, e) \in Seq(Selected)
    BY AppendProperties
  <2> QED
    BY <2>1, AppendProperties, LenProperties
<1>2. DOMAIN picked' = DOMAIN picked \cup {Len(picked) + 1}
  BY <1>1
<1>3. Picks' = Picks \cup {e.memory}
  BY <1>1, <1>2 DEF Picks
<1> QED
  BY <1>1, <1>3

(* A step that picks nothing and leaves the pool.                          *)
LEMMA SamePicks ==
    ASSUME picked' = picked, pool' = pool
    PROVE  /\ Picks' = Picks
           /\ \A m, n : Before(m, n)' <=> Before(m, n)
BY SameOrder DEF Picks

LEMMA PassOrder ==
    ASSUME SelectionTypes, OrderInv, NEW m \in store, Pass(m)
    PROVE  OrderInv'
<1>1. /\ pc = "select" /\ m \in rest /\ rest' = rest \ {m} /\ ~Usable(m)
      /\ pc' = pc /\ pool' = pool /\ picked' = picked
  BY DEF Pass, IsNext
<1>2. Picks' = Picks /\ \A c, d : Before(c, d)' <=> Before(c, d)
  BY <1>1, SamePicks
<1>3. Usable(m) <=> Passes(m) /\ m.length > 0 /\ ~Redundant(m)
  BY DEF Usable
<1>4. m.length \in Nat
  BY RecallAssumption DEF SelectionTypes, IsMemory
<1>5. Redundant(m) => \E n \in Picks : Before(n, m) /\ Alike(m.words, n.words)
  BY <1>1 DEF Redundant, Picks, OrderInv
<1>6. \/ ~Passes(m)
      \/ m.length = 0
      \/ \E n \in Picks : Before(n, m) /\ Alike(m.words, n.words)
  BY <1>1, <1>3, <1>4, <1>5
<1>7. m \in pool
  BY <1>1 DEF SelectionTypes
<1> QED
  BY <1>1, <1>2, <1>6, <1>7 DEF OrderInv

LEMMA PickOrder ==
    ASSUME SelectionTypes, OrderInv, NEW m \in store, Pick(m)
    PROVE  OrderInv'
<1>1. PICK length \in Truncated(m.length, Smaller(PerItem, Remaining)) :
          picked' = Append(picked, [memory |-> m, length |-> length])
  BY DEF Pick
<1>2. /\ pc = "select" /\ m \in rest /\ rest' = rest \ {m} /\ pc' = pc /\ pool' = pool
      /\ Passes(m) /\ m.length > 0 /\ ~Redundant(m)
      /\ \A n \in rest \ {m} : Before(m, n)
  BY DEF Pick, IsNext, Usable, given
<1> DEFINE e == [memory |-> m, length |-> length]
<1>3. picked \in Seq(Selected) /\ e \in Selected
  <2>1. m.length \in Nat /\ k \in Nat \ {0} /\ charBudget \in Nat /\ used \in Nat
    BY <1>2, RecallAssumption DEF SelectionTypes, IsMemory
  <2>2. PerItem \in Nat /\ PerItem >= 2 /\ Remaining \in Nat \ {0}
    BY <2>1, PerItemIsLarge DEF Pick, Remaining
  <2>3. Smaller(PerItem, Remaining) \in Nat \ {0}
    BY <2>2 DEF Smaller
  <2>4. length \in Nat
    BY <1>1, <2>1, <2>3, TruncatedFits
  <2> QED
    BY <2>4 DEF SelectionTypes, Selected
<1>4. e.memory = m
  OBVIOUS
<1> HIDE DEF e
<1>5. /\ Picks' = Picks \cup {m}
      /\ DOMAIN picked = 1 .. Len(picked) /\ Len(picked) \in Nat
      /\ DOMAIN picked' = 1 .. (Len(picked) + 1)
      /\ \A i \in 1 .. Len(picked) : picked'[i] = picked[i]
      /\ picked'[Len(picked) + 1].memory = m
  BY <1>1, <1>3, <1>4, PicksAppend, LenProperties DEF e
<1>6. \A c, d : Before(c, d)' <=> Before(c, d)
  BY <1>2, SameOrder
<1>7. Picks' \subseteq pool' \ rest'
  BY <1>2, <1>5 DEF OrderInv, SelectionTypes
<1>8. \A n \in Picks', d \in rest' : Before(n, d)'
  BY <1>2, <1>5, <1>6 DEF OrderInv
<1>9. ASSUME NEW i \in DOMAIN picked'
      PROVE  /\ Passes(picked'[i].memory) /\ picked'[i].memory.length > 0
             /\ \A j \in 1 .. (i - 1) :
                   /\ Before(picked'[j].memory, picked'[i].memory)
                   /\ ~Alike(picked'[i].memory.words, picked'[j].memory.words)
  <2>1. CASE i \in 1 .. Len(picked)
    <3>1. picked'[i] = picked[i] /\ \A j \in 1 .. (i - 1) : picked'[j] = picked[j]
      BY <1>5, <2>1
    <3> QED
      BY <1>5, <2>1, <3>1 DEF OrderInv
  <2>2. CASE i = Len(picked) + 1
    <3>1. picked'[i].memory = m
      BY <1>5, <2>2
    <3>2. \A j \in 1 .. (i - 1) : j \in DOMAIN picked /\ picked'[j] = picked[j]
      BY <1>5, <2>2
    <3>3. \A j \in DOMAIN picked : /\ picked[j].memory \in Picks
                                   /\ ~Alike(m.words, picked[j].memory.words)
      BY <1>2 DEF Picks, Redundant
    <3>4. \A n \in Picks : Before(n, m)
      BY <1>2 DEF OrderInv
    <3> QED
      BY <1>2, <3>1, <3>2, <3>3, <3>4
  <2> QED
    BY <1>5, <2>1, <2>2
<1>10. \A d \in pool' \ (rest' \cup Picks') :
          \/ ~Passes(d)
          \/ d.length = 0
          \/ \E n \in Picks' : Before(n, d)' /\ Alike(d.words, n.words)
  <2>1. \A d \in pool' \ (rest' \cup Picks') : d \in pool \ (rest \cup Picks)
    BY <1>2, <1>5
  <2> QED
    BY <1>5, <1>6, <2>1 DEF OrderInv
<1> QED
  BY <1>2, <1>6, <1>7, <1>8, <1>9, <1>10 DEF OrderInv

LEMMA StopOrder ==
    ASSUME SelectionTypes, BudgetInv, OrderInv, Stop
    PROVE  OrderInv'
<1>1. /\ pc = "select" /\ pool' = pool /\ rest' = rest /\ picked' = picked
      /\ used' = used /\ k' = k /\ charBudget' = charBudget
  BY DEF Stop, given
<1>2. Picks' = Picks /\ \A c, d : Before(c, d)' <=> Before(c, d)
  BY <1>1, SamePicks
<1>3. ASSUME NEW m \in pool \ Picks PROVE LeftOutFor(m)
  <2>1. CASE m \notin rest
    BY <2>1 DEF OrderInv, LeftOutFor
  <2>2. CASE m \in rest
    <3>1. \A n \in Picks : Before(n, m)
      BY <2>2 DEF OrderInv
    <3>2. Len(picked) >= k \/ Remaining <= 0
      BY <2>2 DEF Stop
    <3>3. Len(picked) = k \/ used >= charBudget
      BY <3>2 DEF BudgetInv, SelectionTypes, Remaining
    <3> QED
      BY <3>1, <3>3 DEF LeftOutFor
  <2> QED
    BY <2>1, <2>2
<1>4. \A m \in pool \ Picks : LeftOutFor(m)'
  BY <1>1, <1>2, <1>3 DEF LeftOutFor
<1> QED
  BY <1>1, <1>2, <1>4 DEF OrderInv

LEMMA OrderStep ==
    ASSUME SelectionTypes, BudgetInv, OrderInv, [RecallNext]_recallVars
    PROVE  OrderInv'
<1>1. CASE RecallNothing
  BY <1>1 DEF RecallNothing, OrderInv, SelectionTypes, Picks
<1>2. CASE Search
  BY <1>2 DEF Search, OrderInv, SelectionTypes, Picks
<1>3. CASE UNCHANGED recallVars
  <2>1. pool' = pool /\ rest' = rest /\ picked' = picked /\ UNCHANGED <<pc, k, charBudget, used>>
    BY <1>3 DEF recallVars, given
  <2>2. Picks' = Picks /\ \A c, d : Before(c, d)' <=> Before(c, d)
    BY <2>1, SamePicks
  <2> QED
    BY <2>1, <2>2 DEF OrderInv, LeftOutFor
<1> QED
  BY <1>1, <1>2, <1>3, PassOrder, PickOrder, StopOrder DEF RecallNext

(* For every store and every limit, what the greedy loop selects is what   *)
(* the rules ask for, and what it leaves out it has a reason to.           *)
THEOREM SelectionIsJustified == RecallSpec => []SelectionJustified
<1>1. OrderInv => SelectionJustified
  BY DEF OrderInv, SelectionJustified
<1>2. SelectionTypes /\ BudgetInv /\ OrderInv /\ [RecallNext]_recallVars
          => (SelectionTypes /\ BudgetInv /\ OrderInv)'
  BY FitsStep, OrderStep
<1> QED
  BY <1>1, <1>2, RecallInitTypes, PTL DEF RecallSpec

-----------------------------------------------------------------------------
(* Scores.  What follows needs that the pool is finite, so that _minmax    *)
(* has a highest and a lowest value to scale by.                           *)

(* Otherwise there is a smallest nonempty set without an upper bound in    *)
(* itself, by the well-founded order of strict inclusion, and without one  *)
(* of its elements it has such a bound.                                    *)
LEMMA HighestExists ==
    ASSUME NEW S, S \in SUBSET Nat, IsFiniteSet(S), S # {}
    PROVE  \E v \in S : \A u \in S : u <= v
<1> DEFINE Bounded(X) == \E v \in X : \A u \in X : u <= v
           Bad == {X \in SUBSET S : X # {} /\ ~Bounded(X)}
<1>1. SUFFICES ASSUME S \in Bad PROVE FALSE
  OBVIOUS
<1>2. FiniteSubsetsOf(S) = SUBSET S
  BY FS_FiniteSubsetsOfFinite
<1>3. IsWellFoundedOn(StrictSubsetOrdering(S), SUBSET S)
  BY <1>2, FS_StrictSubsetOrderingWellFounded
<1>4. PICK X \in Bad : \A Y \in Bad : ~ (<<Y, X>> \in StrictSubsetOrdering(S))
  <2>1. Bad \subseteq SUBSET S /\ Bad # {}
    BY <1>1
  <2> HIDE DEF Bad
  <2> QED
    BY <1>3, <2>1, WFMin
<1>5. PICK e \in X : TRUE
  OBVIOUS
<1>6. X \ {e} \in SUBSET S /\ X \in SUBSET S /\ X \ {e} # X
  BY <1>5
<1>7. <<X \ {e}, X>> \in StrictSubsetOrdering(S)
  BY <1>6 DEF StrictSubsetOrdering
<1>8. X \ {e} \notin Bad
  BY <1>4, <1>7
<1>9. CASE X \ {e} = {}
  BY <1>5, <1>9, \A u \in X : u = e, e \in Nat
<1>10. CASE Bounded(X \ {e})
  <2>1. PICK v \in X \ {e} : \A u \in X \ {e} : u <= v
    BY <1>10
  <2>2. v \in Nat /\ e \in Nat /\ \A u \in X : u \in Nat /\ (u = e \/ u <= v)
    BY <2>1
  <2>3. CASE e <= v
    BY <2>1, <2>2, <2>3
  <2>4. CASE v <= e
    <3>1. \A u \in X : u <= e
      BY <2>2, <2>4
    <3> QED
      BY <1>5, <3>1
  <2> QED
    BY <2>2, <2>3, <2>4
<1> QED
  BY <1>6, <1>8, <1>9, <1>10

LEMMA LowestExists ==
    ASSUME NEW S, S \in SUBSET Nat, IsFiniteSet(S), S # {}
    PROVE  \E v \in S : \A u \in S : v <= u
<1>1. PICK top \in S : \A u \in S : u <= top
  BY HighestExists
<1> DEFINE T == {top - u : u \in S}
<1>2. T \in SUBSET Nat /\ T # {}
  BY <1>1
<1>3. IsFiniteSet(T)
  <2>1. \A t \in T : t <= top
    BY <1>1
  <2> QED
    BY <1>1, <1>2, <2>1, FS_BoundedSetOfNaturals
<1>4. PICK t \in T : \A s \in T : s <= t
  <2> HIDE DEF T
  <2> QED
    BY <1>2, <1>3, HighestExists
<1>5. PICK v \in S : t = top - v
  BY <1>4
<1>6. ASSUME NEW u \in S PROVE v <= u
  <2>1. top - u <= top - v
    BY <1>4, <1>5
  <2> QED
    BY <1>1, <2>1
<1> QED
  BY <1>5, <1>6

LEMMA ShareOfScale ==
    ASSUME NEW a \in Nat, NEW b \in Nat \ {0}, NEW s \in Nat, a <= b
    PROVE  (a * s) \div b \in 0 .. s
<1> DEFINE q == (a * s) \div b
<1>1. a * s \in Nat /\ b * s \in Nat /\ a * s <= b * s
  <2>1. b * s = a * s + (b - a) * s /\ (b - a) * s >= 0
    OBVIOUS
  <2> QED
    BY <2>1, a * s \in Nat, (b - a) * s \in Nat
<1>2. q \in Nat /\ b * q <= a * s
  BY <1>1
<1>3. ASSUME q > s PROVE FALSE
  <2>1. PICK d \in Nat : q = s + 1 + d
    BY <1>2, <1>3, q - s - 1 \in Nat
  <2> HIDE DEF q
  <2>2. b * q = b * s + b + b * d /\ b * d >= 0
    BY <2>1
  <2> QED
    BY <1>1, <1>2, <2>2, b * d \in Nat, b * q \in Int
<1> QED
  BY <1>2, <1>3

LEMMA MinMaxScaled ==
    ASSUME NEW S, S \in SUBSET Nat, IsFiniteSet(S), NEW v \in S
    PROVE  MinMax(v, S) \in 0 .. Scale
<1>1. Highest(S) \in S /\ \A u \in S : u <= Highest(S)
  BY HighestExists DEF Highest
<1>2. Lowest(S) \in S /\ \A u \in S : Lowest(S) <= u
  BY LowestExists DEF Lowest
<1>3. Scale \in Nat
  BY RecallAssumption
<1>4. CASE Highest(S) = Lowest(S)
  BY <1>3, <1>4 DEF MinMax
<1>5. CASE Highest(S) # Lowest(S)
  <2>1. /\ v - Lowest(S) \in Nat
        /\ Highest(S) - Lowest(S) \in Nat \ {0}
        /\ v - Lowest(S) <= Highest(S) - Lowest(S)
    <3> DEFINE lo == Lowest(S)
               hi == Highest(S)
    <3>1. lo \in Nat /\ hi \in Nat /\ v \in Nat /\ lo <= v /\ v <= hi /\ hi # lo
      BY <1>1, <1>2, <1>5
    <3> HIDE DEF lo, hi
    <3>2. /\ v - lo \in Nat /\ hi - lo \in Nat \ {0} /\ v - lo <= hi - lo
      BY <3>1
    <3> QED
      BY <3>2 DEF lo, hi
  <2>2. ((v - Lowest(S)) * Scale) \div (Highest(S) - Lowest(S)) \in 0 .. Scale
    BY <1>3, <2>1, ShareOfScale
  <2> QED
    BY <1>5, <2>2 DEF MinMax
<1> QED
  BY <1>4, <1>5

(* The pool is finite, and there is one only for a goal with terms.        *)
PoolInv ==
    /\ IsFiniteSet(store)
    /\ pool # {} => Terms > 0

LEMMA PoolStep ==
    ASSUME SelectionTypes, PoolInv, [RecallNext]_recallVars
    PROVE  PoolInv'
<1>1. CASE Search
  BY <1>1 DEF Search, given, PoolInv
<1>2. CASE RecallNothing
  BY <1>2 DEF RecallNothing, given, PoolInv
<1>3. CASE Stop
  BY <1>3 DEF Stop, given, PoolInv
<1>4. ASSUME NEW m \in store, Pass(m) \/ Pick(m) PROVE PoolInv'
  BY <1>4 DEF Pass, Pick, given, PoolInv
<1>5. CASE UNCHANGED recallVars
  BY <1>5 DEF recallVars, given, PoolInv
<1> QED
  BY <1>1, <1>2, <1>3, <1>4, <1>5 DEF RecallNext

(* Relevance, salience, recency and outcome make at most one hundredth of  *)
(* what a pin adds, and never less than nothing.                           *)
LEMMA TotalBounds ==
    ASSUME SelectionTypes, PoolInv, NEW m \in pool
    PROVE  /\ Total(m) \in Nat
           /\ ~m.pinned => Total(m) <= 100 * Scale
           /\ m.pinned => Total(m) >= PinnedFloor * 100 * Scale
<1>1. /\ m \in store /\ m \in Library /\ IsMemory(m) /\ \A n \in pool : IsMemory(n)
      /\ Scale \in Nat \ {0} /\ Terms \in Nat \ {0}
  BY RecallAssumption DEF SelectionTypes, PoolInv
<1>2. IsFiniteSet(pool)
  BY FS_Subset DEF SelectionTypes, PoolInv
<1> DEFINE salient == {n.salience : n \in pool}
           times == {n.created : n \in pool}
           rel == (m.hits * Scale) \div Terms
           out == (Bias(m.outcome) * Scale) \div 10
           sal == MinMax(m.salience, salient)
           new == MinMax(m.created, times)
<1>3. sal \in 0 .. Scale
  <2>1. IsFiniteSet(salient)
    <3> DEFINE f == [n \in pool |-> n.salience]
    <3>1. f \in Surjection(pool, salient)
      BY DEF Surjection
    <3> QED
      BY <1>2, <3>1, FS_Surjection
  <2>2. salient \in SUBSET Nat /\ m.salience \in salient
    BY <1>1 DEF IsMemory
  <2> HIDE DEF salient
  <2> QED
    BY <2>1, <2>2, MinMaxScaled
<1>4. new \in 0 .. Scale
  <2>1. IsFiniteSet(times)
    <3> DEFINE f == [n \in pool |-> n.created]
    <3>1. f \in Surjection(pool, times)
      BY DEF Surjection
    <3> QED
      BY <1>2, <3>1, FS_Surjection
  <2>2. times \in SUBSET Nat /\ m.created \in times
    BY <1>1 DEF IsMemory
  <2> HIDE DEF times
  <2> QED
    BY <2>1, <2>2, MinMaxScaled
<1>5. rel \in 0 .. Scale
  <2>1. m.hits \in Nat /\ m.hits <= Terms
    BY <1>1 DEF IsMemory
  <2> QED
    BY <1>1, <2>1, ShareOfScale
<1>6. out \in 0 .. Scale
  <2>1. Bias(m.outcome) \in Nat /\ Bias(m.outcome) <= 10
    BY <1>1 DEF IsMemory, Outcomes, Bias
  <2> QED
    BY <1>1, <2>1, ShareOfScale
<1>7. Total(m) = 60 * rel + 15 * sal + 15 * new + 10 * out
                     + (IF m.pinned THEN PinnedFloor * 100 * Scale ELSE 0)
  BY DEF Total, WRelevance, WSalience, WRecency, WOutcome
<1> HIDE DEF rel, sal, new, out
<1>8. PinnedFloor * 100 * Scale \in Nat
  BY <1>1 DEF PinnedFloor
<1>9. m.pinned \in BOOLEAN
  BY <1>1 DEF IsMemory
<1> QED
  BY <1>1, <1>3, <1>4, <1>5, <1>6, <1>7, <1>8, <1>9

(* However the others score, none without a pin comes before one with it.  *)
LEMMA PinnedBefore ==
    ASSUME SelectionTypes, PoolInv, NEW m \in pool, NEW n \in pool,
           m.pinned, Before(n, m)
    PROVE  n.pinned
<1>1. Total(n) \in Nat /\ Total(m) \in Nat /\ Total(n) >= Total(m)
  BY TotalBounds DEF Before
<1>2. Scale \in Nat \ {0}
  BY RecallAssumption
<1>3. Total(m) >= PinnedFloor * 100 * Scale
  BY TotalBounds
<1>4. ~n.pinned => Total(n) <= 100 * Scale
  BY TotalBounds
<1> QED
  BY <1>1, <1>2, <1>3, <1>4 DEF PinnedFloor

(* For every store and every limit: a pinned memory that the search found  *)
(* is left out only where all that was picked is pinned, where it has no   *)
(* lessons, or for a pinned one like it (_PINNED_FLOOR, the gate and the   *)
(* order of select_within_budget).                                         *)
THEOREM PinnedComeFirst == RecallSpec => []PinnedFirst
<1>1. SelectionTypes /\ OrderInv /\ PoolInv => PinnedFirst
  <2> SUFFICES ASSUME SelectionTypes, OrderInv, PoolInv, pc = "done",
                      NEW m \in pool \ Picks, m.pinned
               PROVE  \/ \A n \in Picks : n.pinned
                      \/ m.length = 0
                      \/ \E n \in Picks : n.pinned /\ Alike(m.words, n.words)
    BY DEF PinnedFirst
  <2>1. LeftOutFor(m)
    BY DEF OrderInv
  <2>2. Passes(m)
    BY DEF Passes
  <2>3. \A n \in Picks : n \in pool /\ (Before(n, m) => n.pinned)
    BY PinnedBefore DEF OrderInv
  <2> QED
    BY <2>1, <2>2, <2>3 DEF LeftOutFor
<1>2. RecallInit => PoolInv
  BY DEF RecallInit, PoolInv
<1>3. SelectionTypes /\ BudgetInv /\ OrderInv /\ PoolInv /\ [RecallNext]_recallVars
          => (SelectionTypes /\ BudgetInv /\ OrderInv /\ PoolInv)'
  BY FitsStep, OrderStep, PoolStep
<1> QED
  BY <1>1, <1>2, <1>3, RecallInitTypes, PTL DEF RecallSpec

-----------------------------------------------------------------------------
(* While the caller is undecided it has no usable reply.                   *)
AskingInv ==
    /\ caller \in {"none", "planner", "reflector", "executor"}
    /\ caller # "none" => floor \in 0 .. 10
    /\ replies \in Seq(RepliesTo(caller))
    /\ outcome = NoOutcome => \A i \in DOMAIN replies : replies[i].kind # "object"

LEMMA CoercedRange ==
    ASSUME NEW c \in Confidences
    PROVE  Coerced(c) \in 0 .. 10
<1>1. CASE c.is = "number"
  <2>1. c.tenths \in Int
    BY <1>1, RepliesAssumption DEF Confidences
  <2>2. Coerced(c) = Clamp(c.tenths)
    BY <1>1 DEF Coerced
  <2> QED
    BY <2>1, <2>2 DEF Clamp
<1>2. CASE c.is = "nan"
  BY <1>2 DEF Coerced
<1>3. CASE c.is # "number" /\ c.is # "nan"
  BY <1>3 DEF Coerced, DefaultConfidence
<1> QED
  BY <1>1, <1>2, <1>3

(* What the reflector makes of a usable reply: its decision, or accept for *)
(* a retry or a replan without the confidence asked for.                   *)
LEMMA JudgedIsSaid ==
    ASSUME NEW r \in VerdictReplies, NEW min \in 0 .. 10, Judged(r, min).is = "verdict"
    PROVE  LET v == Judged(r, min)
           IN  /\ v.confidence \in 0 .. 10
               /\ v.source = "llm"
               /\ \/ v.decision = r.decision
                  \/ v.decision = "accept" /\ r.decision \in Degradable
               /\ v.decision \in Degradable => v.confidence >= min
<1> DEFINE c == Coerced(r.confidence)
           v == Verdict(r.decision, c, "llm")
<1>1. c \in 0 .. 10
  BY CoercedRange DEF VerdictReplies
<1> HIDE DEF c
<1>2. Judged(r, min) = Gated(v, min)
  BY DEF Judged, Raised, c
<1>3. /\ v.is = "verdict" /\ v.decision = r.decision /\ v.confidence = c
      /\ v.source = "llm"
  BY DEF Verdict
<1>4. CASE min > 0 /\ v.decision \in Degradable /\ v.confidence < min
  <2>1. Gated(v, min) = [v EXCEPT !.decision = "accept"]
    BY <1>4 DEF Gated
  <2>2. /\ Gated(v, min).decision = "accept" /\ Gated(v, min).confidence = c
        /\ Gated(v, min).source = "llm"
    BY <2>1 DEF Verdict
  <2> QED
    BY <1>1, <1>2, <1>3, <1>4, <2>2 DEF Degradable
<1>5. CASE ~(min > 0 /\ v.decision \in Degradable /\ v.confidence < min)
  <2>1. Gated(v, min) = v
    BY <1>5 DEF Gated
  <2>2. v.decision \in Degradable => c >= min
    BY <1>1, <1>3, <1>5
  <2> QED
    BY <1>1, <1>2, <1>3, <2>1, <2>2
<1> QED
  BY <1>4, <1>5

LEMMA CompleteJustified ==
    ASSUME AskingInv, VerdictJustified, NEW r \in RepliesTo(caller), caller # "none",
           Complete(r)
    PROVE  AskingInv' /\ VerdictJustified'
<1>1. /\ outcome = NoOutcome /\ caller' = caller /\ floor' = floor
      /\ replies' = Append(replies, r)
      /\ caller \in {"planner", "reflector", "executor"} /\ floor \in 0 .. 10
  BY DEF Complete, Deciding, AskingInv
<1>2. /\ replies' \in Seq(RepliesTo(caller)) /\ replies' # <<>>
      /\ replies'[Len(replies')] = r
  BY <1>1, AppendProperties DEF AskingInv
<1>3. RepliesTo(caller') = RepliesTo(caller)
  BY <1>1
<1>4. CASE r.kind = "object"
  <2>1. outcome' = Used(r)
    BY <1>4 DEF Complete
  <2>2. CASE caller = "reflector"
    <3>1. r \in VerdictReplies
      <4>1. RepliesTo(caller) = Unusable \cup VerdictReplies
        <5>1. RepliesTo("reflector") = Unusable \cup VerdictReplies
          BY DEF RepliesTo
        <5> QED
          BY <2>2, <5>1
      <4>2. \A u \in Unusable : u.kind # "object"
        BY DEF Unusable
      <4> QED
        BY <1>4, <4>1, <4>2
    <3>2. outcome' = Judged(r, floor)
      BY <2>1, <2>2 DEF Used
    <3>3. r.decision \in Decisions
      BY <3>1 DEF VerdictReplies
    <3>4. outcome'.is # "none"
      <4>1. CASE r.confidence.is = "huge"
        BY <3>2, <4>1 DEF Judged, Raised
      <4>2. CASE r.confidence.is # "huge"
        BY <3>2, <4>2 DEF Judged, Gated, Verdict
      <4> QED
        BY <4>1, <4>2
    <3>5. AskingInv'
      BY <1>1, <1>2, <1>3, <3>4 DEF AskingInv, NoOutcome
    <3>6. ASSUME outcome'.is = "verdict"
          PROVE  /\ outcome'.confidence \in 0 .. 10 /\ outcome'.source = "llm"
                 /\ \/ outcome'.decision = r.decision
                    \/ outcome'.decision = "accept" /\ r.decision \in Degradable
                 /\ outcome'.decision \in Degradable => outcome'.confidence >= floor
      BY <1>1, <3>1, <3>2, <3>6, JudgedIsSaid
    <3>7. VerdictJustified'
      BY <1>1, <1>2, <1>4, <3>3, <3>6 DEF VerdictJustified, Decisions, Degradable
    <3> QED
      BY <3>5, <3>7
  <2>3. CASE caller # "reflector"
    <3>1. outcome'.is \in {"plan", "action"}
      BY <1>1, <2>1, <2>3 DEF Used, Normalize
    <3> QED
      BY <1>1, <1>2, <1>3, <3>1 DEF AskingInv, NoOutcome, VerdictJustified
  <2> QED
    BY <2>2, <2>3
<1>5. CASE r.kind # "object"
  <2>1. \A i \in DOMAIN replies' : replies'[i].kind # "object"
    <3>1. /\ DOMAIN replies' = 1 .. (Len(replies) + 1) /\ DOMAIN replies = 1 .. Len(replies)
          /\ \A i \in 1 .. Len(replies) : replies'[i] = replies[i]
          /\ replies'[Len(replies) + 1] = r /\ Len(replies) \in Nat
      BY <1>1, <1>2, AppendProperties, LenProperties DEF AskingInv
    <3> QED
      BY <1>1, <1>5, <3>1 DEF AskingInv
  <2>2. AskingInv'
    BY <1>1, <1>2, <1>3, <2>1 DEF AskingInv
  <2>3. CASE r.kind # "raises" /\ Len(replies) >= RepairAttempts
    <3>1. outcome' = Exhausted(replies'[1])
      BY <1>5, <2>3 DEF Complete
    <3>2. outcome' = Degraded \/ outcome'.is \in {"raised", "narration"}
      BY <1>1, <3>1 DEF Exhausted, Raised
    <3> QED
      BY <1>2, <1>5, <2>2, <3>2 DEF VerdictJustified, Degraded, Verdict, Degradable
  <2>4. CASE r.kind # "raises" /\ ~(Len(replies) >= RepairAttempts)
    <3>1. outcome' = NoOutcome
      BY <1>5, <2>4 DEF Complete
    <3> QED
      BY <2>2, <3>1 DEF VerdictJustified, NoOutcome
  <2>5. CASE r.kind = "raises"
    <3>1. outcome' = Raised
      BY <1>5, <2>5 DEF Complete
    <3> QED
      BY <2>2, <3>1 DEF VerdictJustified, Raised
  <2> QED
    BY <2>3, <2>4, <2>5
<1> QED
  BY <1>4, <1>5

LEMMA ReplyStep ==
    ASSUME AskingInv, VerdictJustified, [ReplyNext]_replyVars
    PROVE  AskingInv' /\ VerdictJustified'
<1>1. CASE Extract
  BY <1>1 DEF Extract, AskingInv, VerdictJustified, RepliesTo
<1>2. CASE UNCHANGED replyVars
  BY <1>2 DEF replyVars, AskingInv, VerdictJustified, RepliesTo
<1>3. CASE PrecheckFires
  <2>1. /\ replies = <<>> /\ replies' = replies /\ outcome' = Precheck
        /\ caller' = caller /\ floor' = floor
    BY <1>3 DEF PrecheckFires
  <2>2. outcome' # NoOutcome
    BY <2>1 DEF Precheck, Verdict, NoOutcome
  <2> QED
    BY <2>1, <2>2 DEF AskingInv, VerdictJustified, RepliesTo, Precheck, Verdict, Degradable
<1>4. CASE CompletionFails
  <2>1. /\ replies' = replies /\ outcome = NoOutcome /\ caller' = caller /\ floor' = floor
        /\ outcome' = Degraded \/ outcome' = Raised
    BY <1>4 DEF CompletionFails, Deciding
  <2>2. outcome' # NoOutcome
    BY <2>1 DEF Degraded, Raised, Verdict, NoOutcome
  <2>3. replies # <<>> => replies[Len(replies)].kind # "object"
    <3>1. replies # <<>> => Len(replies) \in DOMAIN replies
      BY DEF AskingInv
    <3> QED
      BY <2>1, <3>1 DEF AskingInv
  <2>4. AskingInv'
    BY <2>1, <2>2 DEF AskingInv, RepliesTo
  <2>5. CASE outcome' = Degraded
    <3>1. /\ outcome'.confidence = 0 /\ outcome'.decision = "accept"
          /\ outcome'.source = "degraded"
      BY <2>5 DEF Degraded, Verdict
    <3>2. "accept" \notin Degradable
      BY DEF Degradable
    <3>3. replies' # <<>> => replies'[Len(replies')].kind # "object"
      BY <2>1, <2>3
    <3>4. VerdictJustified'
      BY <3>1, <3>2, <3>3 DEF VerdictJustified
    <3> QED
      BY <2>4, <3>4
  <2>6. CASE outcome' = Raised
    <3>1. outcome'.is # "verdict"
      BY <2>6 DEF Raised
    <3>2. VerdictJustified'
      BY <3>1 DEF VerdictJustified
    <3> QED
      BY <2>4, <3>2
  <2> QED
    BY <2>1, <2>4, <2>5, <2>6
<1>5. ASSUME caller # "none", NEW r \in RepliesTo(caller), Complete(r)
      PROVE  AskingInv' /\ VerdictJustified'
  BY <1>5, CompleteJustified
<1> QED
  BY <1>1, <1>2, <1>3, <1>4, <1>5 DEF ReplyNext

LEMMA AskingInit == ReplyInit => AskingInv /\ VerdictJustified
<1> SUFFICES ASSUME ReplyInit PROVE AskingInv /\ VerdictJustified
  OBVIOUS
<1>1. /\ replies = <<>> /\ outcome = NoOutcome
      /\ caller \in {"none", "planner", "reflector", "executor"}
      /\ caller # "none" => floor \in 0 .. 10
  BY RepliesAssumption DEF ReplyInit
<1> QED
  BY <1>1 DEF AskingInv, VerdictJustified, NoOutcome

(* For any replies, numbers, floor and number of repairs: a verdict that   *)
(* sends work back or aborts the run is one the model gave, or the retry   *)
(* of the pre-check; a reply that is not usable is never more than accept. *)
THEOREM VerdictIsJustified == ReplySpec => []VerdictJustified
<1>1. AskingInv /\ VerdictJustified /\ [ReplyNext]_replyVars
          => (AskingInv /\ VerdictJustified)'
  BY ReplyStep
<1> QED
  BY <1>1, AskingInit, PTL DEF ReplySpec

-----------------------------------------------------------------------------
(* Induction, for sets in place of predicates: the initial segments of the *)
(* numbers that are not in S have a smallest one, by the well-founded      *)
(* order of strict inclusion.                                              *)
LEMMA InductiveSet ==
    ASSUME NEW S, 0 \in S, \A n \in Nat : n \in S => n + 1 \in S
    PROVE  Nat \subseteq S
<1> DEFINE Segment(n) == 0 .. n
           Bad == {Segment(n) : n \in Nat \ S}
<1>1. SUFFICES ASSUME Bad # {} PROVE FALSE
  OBVIOUS
<1>2. Bad \subseteq FiniteSubsetsOf(Nat)
  <2>1. \A n \in Nat : Segment(n) \in SUBSET Nat /\ IsFiniteSet(Segment(n))
    BY FS_Interval
  <2> QED
    BY <2>1 DEF FiniteSubsetsOf
<1>3. PICK X \in Bad : \A Y \in Bad : ~ (<<Y, X>> \in StrictSubsetOrdering(Nat))
  <2> HIDE DEF Bad
  <2> QED
    BY <1>1, <1>2, FS_StrictSubsetOrderingWellFounded, WFMin
<1>4. PICK n \in Nat \ S : X = Segment(n)
  OBVIOUS
<1>5. n - 1 \in Nat /\ n = (n - 1) + 1
  BY <1>4
<1>6. n - 1 \notin S
  BY <1>4, <1>5
<1>7. Segment(n - 1) \in Bad
  BY <1>5, <1>6
<1>8. <<Segment(n - 1), X>> \in StrictSubsetOrdering(Nat)
  <2>1. Segment(n - 1) \subseteq X /\ n \in X /\ n \notin Segment(n - 1) /\ X \subseteq Nat
    BY <1>4, <1>5
  <2> QED
    BY <2>1 DEF StrictSubsetOrdering
<1> QED
  BY <1>3, <1>7, <1>8

(* Induction down from the top of an interval.                             *)
LEMMA Downwards ==
    ASSUME NEW S, NEW lo \in Int, NEW hi \in Int,
           \A p \in lo .. hi : (\A q \in (p + 1) .. hi : q \in S) => p \in S
    PROVE  lo .. hi \subseteq S
<1> DEFINE N == {n \in Nat : \A p \in lo .. hi : hi - p <= n => p \in S}
<1>1. 0 \in N
  <2>1. ASSUME NEW p \in lo .. hi, hi - p <= 0 PROVE p \in S
    <3>1. \A q \in (p + 1) .. hi : FALSE
      BY <2>1
    <3> QED
      BY <3>1
  <2> QED
    BY <2>1
<1>2. ASSUME NEW n \in Nat, n \in N PROVE n + 1 \in N
  <2>1. ASSUME NEW p \in lo .. hi, hi - p <= n + 1 PROVE p \in S
    <3>1. \A q \in (p + 1) .. hi : q \in lo .. hi /\ hi - q <= n
      BY <2>1
    <3>2. \A q \in (p + 1) .. hi : q \in S
      BY <1>2, <3>1
    <3> QED
      BY <3>2
  <2> QED
    BY <2>1
<1>3. Nat \subseteq N
  <2> HIDE DEF N
  <2> QED
    BY <1>1, <1>2, InductiveSet
<1>4. ASSUME NEW p \in lo .. hi PROVE p \in S
  <2>1. hi - p \in Nat
    OBVIOUS
  <2>2. hi - p \in N
    BY <1>3, <2>1
  <2> QED
    BY <2>1, <2>2
<1> QED
  BY <1>4

(* And up from its bottom.                                                 *)
LEMMA Upwards ==
    ASSUME NEW S, NEW lo \in Int, NEW hi \in Int, lo \in S,
           \A p \in lo .. (hi - 1) : p \in S => p + 1 \in S
    PROVE  lo .. hi \subseteq S
<1> DEFINE N == {n \in Nat : lo + n <= hi => lo + n \in S}
<1>1. 0 \in N
  OBVIOUS
<1>2. ASSUME NEW n \in Nat, n \in N PROVE n + 1 \in N
  <2>1. SUFFICES ASSUME lo + (n + 1) <= hi PROVE lo + (n + 1) \in S
    OBVIOUS
  <2>2. lo + n \in S /\ lo + n \in lo .. (hi - 1)
    BY <1>2, <2>1
  <2>3. (lo + n) + 1 \in S /\ (lo + n) + 1 = lo + (n + 1)
    BY <2>2
  <2> QED
    BY <2>3
<1>3. Nat \subseteq N
  <2> HIDE DEF N
  <2> QED
    BY <1>1, <1>2, InductiveSet
<1>4. ASSUME NEW p \in lo .. hi PROVE p \in S
  <2>1. p - lo \in Nat /\ lo + (p - lo) = p
    OBVIOUS
  <2>2. p - lo \in N
    BY <1>3, <2>1
  <2> QED
    BY <2>1, <2>2
<1> QED
  BY <1>4

LEMMA LeastIn ==
    ASSUME NEW lo \in Nat, NEW hi \in Nat, NEW S, S \subseteq lo .. hi, S # {}
    PROVE  \E m \in S : \A p \in S : m <= p
<1>1. S \in SUBSET Nat
  OBVIOUS
<1>2. IsFiniteSet(lo .. hi)
  BY FS_Interval
<1>3. IsFiniteSet(S)
  BY <1>2, FS_Subset
<1> QED
  BY <1>1, <1>3, LowestExists

(* Recursive functions.  F is the equation of one, that depends on values  *)
(* of lower rank only; F applied again and again satisfies it up to any    *)
(* rank.                                                                   *)
Recursion(D, V, F, rank, top) ==
    /\ F \in [[D -> V] -> [D -> V]] /\ [D -> V] # {}
    /\ top \in Nat /\ \A x \in D : rank[x] \in Nat /\ rank[x] < top
    /\ \A g, h \in [D -> V] : \A x \in D :
           (\A y \in D : rank[y] < rank[x] => g[y] = h[y]) => F[g][x] = F[h][x]

LEMMA RecursionExists ==
    ASSUME NEW D, NEW V, NEW F, NEW rank, NEW top, Recursion(D, V, F, rank, top)
    PROVE  \E g \in [D -> V] : F[g] = g
<1> USE DEF Recursion
<1> DEFINE UpTo(g, n) == \A x \in D : rank[x] < n => F[g][x] = g[x]
           S == {n \in Nat : \E g \in [D -> V] : UpTo(g, n)}
<1>1. 0 \in S
  OBVIOUS
<1>2. ASSUME NEW n \in Nat, n \in S PROVE n + 1 \in S
  <2>1. PICK g \in [D -> V] : UpTo(g, n)
    BY <1>2
  <2> DEFINE h == F[g]
  <2>2. h \in [D -> V]
    OBVIOUS
  <2>3. ASSUME NEW x \in D, rank[x] < n + 1 PROVE F[h][x] = h[x]
    <3>1. \A y \in D : rank[y] < rank[x] => h[y] = g[y]
      BY <2>1, <2>3
    <3> QED
      BY <2>2, <3>1
  <2> QED
    BY <2>2, <2>3
<1> HIDE DEF S
<1>3. top \in S
  BY <1>1, <1>2, InductiveSet
<1>4. PICK g \in [D -> V] : UpTo(g, top)
  BY <1>3 DEF S
<1>5. F[g] \in [D -> V] /\ \A x \in D : F[g][x] = g[x]
  BY <1>4
<1> QED
  BY <1>4, <1>5

(* The pass of _normalize, and that there is a function that makes it.     *)
KeepAt(tasks, g, n) ==
    IF n = 0
    THEN <<>>
    ELSE IF tasks[n].blank \/ Len(g[n - 1]) >= MaxTasks
         THEN g[n - 1]
         ELSE Append(g[n - 1], n)

IsKeep(tasks, g, N) == g = [n \in 0 .. N |-> KeepAt(tasks, g, n)]

LEMMA KeepExists ==
    ASSUME NEW tasks
    PROVE  \A N \in Nat : \E g : IsKeep(tasks, g, N)
<1> DEFINE S == {N \in Nat : \E g : IsKeep(tasks, g, N)}
<1>1. 0 \in S
  <2> DEFINE g == [n \in 0 .. 0 |-> <<>>]
  <2>1. \A n \in 0 .. 0 : KeepAt(tasks, g, n) = <<>>
    BY DEF KeepAt
  <2>2. g = [n \in 0 .. 0 |-> KeepAt(tasks, g, n)]
    BY <2>1
  <2> HIDE DEF g
  <2>3. IsKeep(tasks, g, 0)
    BY <2>2 DEF IsKeep
  <2> QED
    BY <2>3
<1>2. ASSUME NEW N \in Nat, N \in S PROVE N + 1 \in S
  <2>1. PICK g : IsKeep(tasks, g, N)
    BY <1>2
  <2> DEFINE h == [n \in 0 .. (N + 1) |-> IF n = N + 1 THEN KeepAt(tasks, g, N + 1) ELSE g[n]]
  <2>2. \A n \in 0 .. N : h[n] = g[n]
    OBVIOUS
  <2>3. \A n \in 0 .. N : g[n] = KeepAt(tasks, g, n)
    BY <2>1, Zenon DEF IsKeep
  <2>4. \A n \in 0 .. (N + 1) : KeepAt(tasks, h, n) = KeepAt(tasks, g, n)
    <3> SUFFICES ASSUME NEW n \in 0 .. (N + 1) PROVE KeepAt(tasks, h, n) = KeepAt(tasks, g, n)
      OBVIOUS
    <3>1. n # 0 => n - 1 \in 0 .. N
      OBVIOUS
    <3>2. n # 0 => h[n - 1] = g[n - 1]
      BY <2>2, <3>1
    <3> HIDE DEF h
    <3> QED
      BY <3>2 DEF KeepAt
  <2>5. \A n \in 0 .. (N + 1) : h[n] = KeepAt(tasks, h, n)
    <3>1. \A n \in 0 .. (N + 1) : n = N + 1 \/ n \in 0 .. N
      OBVIOUS
    <3>2. h[N + 1] = KeepAt(tasks, g, N + 1)
      OBVIOUS
    <3> HIDE DEF h
    <3> QED
      BY <2>2, <2>3, <2>4, <3>1, <3>2
  <2>6. h = [n \in 0 .. (N + 1) |-> h[n]]
    OBVIOUS
  <2> HIDE DEF h
  <2>7. h = [n \in 0 .. (N + 1) |-> KeepAt(tasks, h, n)]
    BY <2>5, <2>6
  <2>8. IsKeep(tasks, h, N + 1)
    BY <2>7 DEF IsKeep
  <2> QED
    BY <2>8
<1> HIDE DEF S
<1>3. Nat \subseteq S
  BY <1>1, <1>2, InductiveSet
<1> QED
  BY <1>3 DEF S

(* What the pass has after n tasks: usable ones in order, at most the cap, *)
(* and all there are unless the cap is reached.                            *)
GoodKeep(tasks, K, n) ==
    /\ K \in Seq(1 .. n) /\ Len(K) <= MaxTasks
    /\ \A i \in 1 .. Len(K) : ~tasks[K[i]].blank
    /\ \A i, j \in 1 .. Len(K) : i < j => K[i] < K[j]
    /\ \A p \in 1 .. n : ~tasks[p].blank =>
          \/ \E i \in 1 .. Len(K) : K[i] = p
          \/ Len(K) = MaxTasks /\ \A i \in 1 .. Len(K) : K[i] < p

LEMMA GoodKeepStep ==
    ASSUME NEW tasks, NEW n \in Nat, NEW K, GoodKeep(tasks, K, n)
    PROVE  GoodKeep(tasks, IF tasks[n + 1].blank \/ Len(K) >= MaxTasks
                           THEN K ELSE Append(K, n + 1), n + 1)
<1>1. /\ K \in Seq(1 .. n) /\ Len(K) \in Nat /\ Len(K) <= MaxTasks
      /\ \A i \in 1 .. Len(K) : K[i] \in 1 .. n
      /\ MaxTasks \in Nat \ {0}
  BY RepliesAssumption, LenProperties DEF GoodKeep
<1>2. K \in Seq(1 .. (n + 1))
  <2>1. 1 .. n \subseteq 1 .. (n + 1)
    OBVIOUS
  <2> QED
    BY <1>1, <2>1
<1>3. CASE tasks[n + 1].blank \/ Len(K) >= MaxTasks
  <2>1. \A p \in 1 .. (n + 1) : p = n + 1 \/ p \in 1 .. n
    OBVIOUS
  <2>2. ~tasks[n + 1].blank => Len(K) = MaxTasks /\ \A i \in 1 .. Len(K) : K[i] < n + 1
    BY <1>1, <1>3
  <2> QED
    BY <1>1, <1>2, <1>3, <2>1, <2>2 DEF GoodKeep
<1>4. CASE ~(tasks[n + 1].blank \/ Len(K) >= MaxTasks)
  <2> DEFINE L == Append(K, n + 1)
  <2>1. /\ L \in Seq(1 .. (n + 1)) /\ Len(L) = Len(K) + 1
        /\ \A i \in 1 .. Len(K) : L[i] = K[i]
        /\ L[Len(K) + 1] = n + 1
    BY <1>1, <1>2, AppendProperties
  <2> HIDE DEF L
  <2>2. \A i \in 1 .. Len(L) : i = Len(K) + 1 \/ i \in 1 .. Len(K)
    BY <1>1, <2>1
  <2>3. \A i \in 1 .. Len(L) : ~tasks[L[i]].blank
    BY <1>4, <2>1, <2>2 DEF GoodKeep
  <2>4. \A i, j \in 1 .. Len(L) : i < j => L[i] < L[j]
    <3> SUFFICES ASSUME NEW i \in 1 .. Len(L), NEW j \in 1 .. Len(L), i < j
                 PROVE  L[i] < L[j]
      OBVIOUS
    <3>1. i \in 1 .. Len(K)
      BY <1>1, <2>1
    <3>2. CASE j = Len(K) + 1
      BY <1>1, <2>1, <3>1, <3>2
    <3>3. CASE j \in 1 .. Len(K)
      BY <2>1, <3>1, <3>3 DEF GoodKeep
    <3> QED
      BY <2>2, <3>2, <3>3
  <2>5. \A p \in 1 .. (n + 1) : ~tasks[p].blank => \E i \in 1 .. Len(L) : L[i] = p
    <3> SUFFICES ASSUME NEW p \in 1 .. (n + 1), ~tasks[p].blank
                 PROVE  \E i \in 1 .. Len(L) : L[i] = p
      OBVIOUS
    <3>1. CASE p = n + 1
      <4>1. Len(K) + 1 \in 1 .. Len(L)
        BY <1>1, <2>1
      <4> QED
        BY <2>1, <3>1, <4>1
    <3>2. CASE p # n + 1
      <4>1. p \in 1 .. n
        BY <3>2
      <4>2. PICK i \in 1 .. Len(K) : K[i] = p
        BY <1>1, <1>4, <4>1 DEF GoodKeep
      <4>3. i \in 1 .. Len(L)
        BY <1>1, <2>1
      <4> QED
        BY <2>1, <4>2, <4>3
    <3> QED
      BY <3>1, <3>2
  <2>6. Len(L) <= MaxTasks
    BY <1>1, <1>4, <2>1
  <2>7. GoodKeep(tasks, L, n + 1)
    BY <2>1, <2>3, <2>4, <2>5, <2>6 DEF GoodKeep
  <2> QED
    BY <1>4, <2>7 DEF L
<1> QED
  BY <1>3, <1>4

LEMMA KeptIsGood ==
    ASSUME NEW tasks, Len(tasks) \in Nat
    PROVE  GoodKeep(tasks, Kept(tasks), Len(tasks))
<1> DEFINE N == Len(tasks)
           f == CHOOSE g : IsKeep(tasks, g, N)
<1>1. Kept(tasks) = f[N]
  BY DEF Kept, IsKeep, KeepAt
<1>2. IsKeep(tasks, f, N)
  BY KeepExists
<1> HIDE DEF f
<1>3. \A n \in 0 .. N : f[n] = KeepAt(tasks, f, n)
  BY <1>2, Zenon DEF IsKeep
<1> DEFINE S == {n \in Nat : n <= N => GoodKeep(tasks, f[n], n)}
<1>4. 0 \in S
  <2>1. f[0] = <<>>
    BY <1>3 DEF KeepAt
  <2>2. MaxTasks \in Nat
    BY RepliesAssumption
  <2>3. <<>> \in Seq(1 .. 0) /\ Len(<<>>) = 0 /\ 1 .. 0 = {}
    OBVIOUS
  <2>4. GoodKeep(tasks, <<>>, 0)
    BY <2>2, <2>3 DEF GoodKeep
  <2> QED
    BY <2>1, <2>4
<1>5. ASSUME NEW n \in Nat, n \in S PROVE n + 1 \in S
  <2> SUFFICES ASSUME n + 1 <= N PROVE GoodKeep(tasks, f[n + 1], n + 1)
    OBVIOUS
  <2>1. GoodKeep(tasks, f[n], n)
    BY <1>5
  <2>2. n + 1 \in 0 .. N /\ n + 1 # 0 /\ (n + 1) - 1 = n
    OBVIOUS
  <2>3. f[n + 1] = KeepAt(tasks, f, n + 1)
    BY <1>3, <2>2
  <2>4. f[n + 1] = IF tasks[n + 1].blank \/ Len(f[n]) >= MaxTasks
                   THEN f[n] ELSE Append(f[n], n + 1)
    BY <2>2, <2>3 DEF KeepAt
  <2> QED
    BY <2>1, <2>4, GoodKeepStep
<1> HIDE DEF S
<1>6. Nat \subseteq S
  BY <1>4, <1>5, InductiveSet
<1>7. N \in S
  BY <1>6
<1> QED
  BY <1>1, <1>7 DEF S

(* A plan comes from the tasks of the last reply.                          *)
PlanInv ==
    outcome.is = "plan" =>
        LET listed == replies[Len(replies)].tasks
        IN  /\ Len(listed) \in Nat /\ DOMAIN listed = 1 .. Len(listed)
            /\ \A i \in DOMAIN listed : listed[i] \in Listing
            /\ outcome = Normalize(listed)

LEMMA PlanStep ==
    ASSUME AskingInv, PlanInv, [ReplyNext]_replyVars
    PROVE  PlanInv'
<1>1. CASE Extract \/ UNCHANGED replyVars
  BY <1>1 DEF Extract, replyVars, PlanInv
<1>2. CASE PrecheckFires \/ CompletionFails
  <2>1. outcome' \in {Precheck, Degraded, Raised}
    BY <1>2 DEF PrecheckFires, CompletionFails
  <2>2. outcome'.is \in {"verdict", "raised"}
    BY <2>1 DEF Precheck, Degraded, Raised, Verdict
  <2> QED
    BY <2>2 DEF PlanInv
<1>3. ASSUME caller # "none", NEW r \in RepliesTo(caller), Complete(r)
      PROVE  PlanInv'
  <2>1. /\ caller \in {"planner", "reflector", "executor"}
        /\ replies' = Append(replies, r) /\ replies \in Seq(RepliesTo(caller))
    BY <1>3 DEF Complete, AskingInv
  <2>2. replies'[Len(replies')] = r
    BY <1>3, <2>1, AppendProperties
  <2>3. outcome' = (IF r.kind = "object" THEN Used(r)
                    ELSE IF r.kind = "raises" THEN Raised
                    ELSE IF Len(replies) >= RepairAttempts
                         THEN Exhausted(replies'[1]) ELSE NoOutcome)
    BY <1>3 DEF Complete
  <2>4. CASE r.kind = "object" /\ caller = "planner"
    <3>1. r \in PlanReplies
      <4>1. RepliesTo("planner") = Unusable \cup PlanReplies
        BY DEF RepliesTo
      <4>2. \A u \in Unusable : u.kind # "object"
        BY DEF Unusable
      <4> QED
        BY <1>3, <2>4, <4>1, <4>2
    <3>2. r.tasks \in BoundedSeq(Listing, MaxListed)
      BY <3>1 DEF PlanReplies
    <3>3. PICK m \in 0 .. MaxListed : r.tasks \in [1 .. m -> Listing]
      BY <3>2 DEF BoundedSeq, SeqOf
    <3>4. /\ Len(r.tasks) \in Nat /\ DOMAIN r.tasks = 1 .. Len(r.tasks)
          /\ \A i \in DOMAIN r.tasks : r.tasks[i] \in Listing
      BY <3>3, RepliesAssumption
    <3>5. outcome' = Normalize(r.tasks)
      BY <2>3, <2>4 DEF Used
    <3> QED
      BY <2>2, <3>4, <3>5 DEF PlanInv
  <2>5. CASE r.kind # "object"
    <3>1. outcome' \in {Degraded, Raised, NoOutcome} \/ outcome'.is = "narration"
      BY <2>1, <2>3, <2>5 DEF Exhausted
    <3>2. outcome'.is # "plan"
      BY <3>1 DEF Degraded, Raised, NoOutcome, Verdict
    <3> QED
      BY <3>2 DEF PlanInv
  <2>6. CASE r.kind = "object" /\ caller = "reflector"
    <3>1. outcome' = Judged(r, floor)
      BY <2>3, <2>6 DEF Used
    <3>2. outcome'.is # "plan"
      BY <3>1 DEF Judged, Raised, Gated, Verdict
    <3> QED
      BY <3>2 DEF PlanInv
  <2>7. CASE r.kind = "object" /\ caller = "executor"
    <3>1. outcome'.is = "action"
      BY <2>3, <2>7 DEF Used
    <3> QED
      BY <3>1 DEF PlanInv
  <2> QED
    BY <2>1, <2>4, <2>5, <2>6, <2>7
<1> QED
  BY <1>1, <1>2, <1>3 DEF ReplyNext

(* What _normalize returns for any list of tasks and any cap.              *)
LEMMA NormalizedIsUsable ==
    ASSUME NEW listed, Len(listed) \in Nat, DOMAIN listed = 1 .. Len(listed),
           \A i \in DOMAIN listed : listed[i] \in Listing,
           outcome = Normalize(listed), replies[Len(replies)].tasks = listed
    PROVE  PlanUsable
<1> DEFINE K == Kept(listed)
           plan == outcome.tasks
           usable == {i \in DOMAIN listed : ~listed[i].blank}
           taken == {plan[n].from : n \in DOMAIN plan}
<1>1. GoodKeep(listed, K, Len(listed)) /\ MaxTasks \in Nat \ {0}
  BY KeptIsGood, RepliesAssumption
<1>2. plan = IF K = <<>> THEN <<GoalTask>>
             ELSE [n \in DOMAIN K |-> Planned(listed, K[n])]
  BY DEF Normalize
<1> SUFFICES /\ Len(plan) \in 1 .. MaxTasks
             /\ \A n \in DOMAIN plan : plan[n].tool # "unknown"
             /\ usable = {} <=> plan = <<GoalTask>>
             /\ usable # {} =>
                  /\ taken \subseteq usable
                  /\ \A m, n \in DOMAIN plan : m < n => plan[m].from < plan[n].from
                  /\ \A n \in DOMAIN plan : listed[plan[n].from].tool = "known"
                         => plan[n].tool = "known"
                  /\ \A i \in usable \ taken :
                        Len(plan) = MaxTasks /\ \A j \in taken : j < i
  BY DEF PlanUsable
<1> HIDE DEF K
<1>3. /\ Len(K) \in Nat /\ Len(K) <= MaxTasks /\ DOMAIN K = 1 .. Len(K)
      /\ \A i \in 1 .. Len(K) : K[i] \in 1 .. Len(listed)
  BY <1>1, LenProperties DEF GoodKeep
<1>4. CASE K = <<>>
  <2>1. Len(K) = 0
    BY <1>4
  <2>2. usable = {}
    BY <1>1, <1>3, <2>1 DEF GoodKeep
  <2>3. plan = <<GoalTask>>
    BY <1>2, <1>4
  <2>4. Len(plan) = 1 /\ \A n \in DOMAIN plan : plan[n].tool = "none"
    BY <2>3 DEF GoalTask
  <2> QED
    BY <1>1, <2>2, <2>3, <2>4
<1>5. CASE K # <<>>
  <2>1. plan = [n \in 1 .. Len(K) |-> Planned(listed, K[n])]
    BY <1>2, <1>3, <1>5
  <2>2. DOMAIN plan = 1 .. Len(K) /\ Len(plan) = Len(K)
    BY <1>3, <2>1
  <2>3. Len(K) >= 1
    <3>1. K \in Seq(1 .. Len(listed)) /\ Len(K) # 0
      BY <1>1, <1>5, EmptySeq DEF GoodKeep
    <3> QED
      BY <1>3, <3>1
  <2>4. ASSUME NEW n \in 1 .. Len(K)
        PROVE  /\ plan[n].from = K[n] /\ plan[n].tool # "unknown"
               /\ listed[K[n]].tool = "known" => plan[n].tool = "known"
    BY <2>1 DEF Planned
  <2> HIDE DEF plan
  <2>5. taken = {K[n] : n \in 1 .. Len(K)}
    BY <2>2, <2>4
  <2>6. taken \subseteq usable
    BY <1>1, <1>3, <2>5 DEF GoodKeep
  <2>7. usable # {} /\ plan # <<GoalTask>>
    <3>1. 1 \in 1 .. Len(K) /\ K[1] \in usable /\ plan[1].from # 0
      <4>1. 1 \in 1 .. Len(K) /\ K[1] \in 1 .. Len(listed) /\ plan[1].from = K[1]
        BY <1>3, <2>3, <2>4
      <4>2. ~listed[K[1]].blank
        BY <1>1, <4>1 DEF GoodKeep
      <4> QED
        BY <4>1, <4>2
    <3>2. <<GoalTask>>[1].from = 0
      BY DEF GoalTask
    <3> QED
      BY <3>1, <3>2
  <2>8. \A m, n \in 1 .. Len(K) : m < n => plan[m].from < plan[n].from
    BY <1>1, <2>4 DEF GoodKeep
  <2>9. \A i \in usable \ taken : Len(K) = MaxTasks /\ \A j \in taken : j < i
    <3> SUFFICES ASSUME NEW i \in usable \ taken
                 PROVE  Len(K) = MaxTasks /\ \A j \in taken : j < i
      OBVIOUS
    <3>1. i \in 1 .. Len(listed) /\ ~listed[i].blank
      OBVIOUS
    <3>2. \A n \in 1 .. Len(K) : K[n] # i
      BY <2>5
    <3>3. Len(K) = MaxTasks /\ \A n \in 1 .. Len(K) : K[n] < i
      BY <1>1, <3>1, <3>2 DEF GoodKeep
    <3> QED
      BY <2>5, <3>3
  <2>10. \A n \in DOMAIN plan : listed[plan[n].from].tool = "known"
                         => plan[n].tool = "known"
    BY <2>2, <2>4
  <2>11. Len(plan) \in 1 .. MaxTasks
    BY <1>1, <1>3, <2>2, <2>3
  <2>12. \A n \in DOMAIN plan : plan[n].tool # "unknown"
    BY <2>2, <2>4
  <2> HIDE DEF usable, taken
  <2> QED
    BY <2>2, <2>6, <2>7, <2>8, <2>9, <2>10, <2>11, <2>12
<1> QED
  BY <1>4, <1>5

(* For replies with any number of tasks, blank ones among them, and any    *)
(* cap: the plan is made of the first usable tasks, in order, or of the    *)
(* goal (_normalize).                                                      *)
THEOREM PlanIsUsable == ReplySpec => []PlanUsable
<1>1. ReplyInit => AskingInv /\ VerdictJustified /\ PlanInv
  <2> SUFFICES ASSUME ReplyInit PROVE AskingInv /\ VerdictJustified /\ PlanInv
    OBVIOUS
  <2>1. outcome.is = "none"
    BY DEF ReplyInit, NoOutcome
  <2> QED
    BY <2>1, AskingInit DEF PlanInv
<1>2. AskingInv /\ VerdictJustified /\ PlanInv /\ [ReplyNext]_replyVars
          => (AskingInv /\ VerdictJustified /\ PlanInv)'
  BY ReplyStep, PlanStep
<1>3. PlanInv => PlanUsable
  <2> SUFFICES ASSUME PlanInv, outcome.is = "plan" PROVE PlanUsable
    BY DEF PlanUsable
  <2> QED
    BY NormalizedIsUsable DEF PlanInv
<1> QED
  BY <1>1, <1>2, <1>3, PTL DEF ReplySpec

-----------------------------------------------------------------------------
(* first_balanced_object: its states                                       *)

ScanState ==
    [at : Int, depth : Int, inStr : BOOLEAN, escaped : BOOLEAN, found : BOOLEAN]

(* One character of first_balanced_object, by what it is and where.        *)
LEMMA StepInString ==
    ASSUME NEW s \in ScanState, NEW c, ~s.found, s.inStr
    PROVE  LET n == ScanStep(s, c)
           IN  /\ n \in ScanState /\ n.at = s.at + 1 /\ n.depth = s.depth /\ ~n.found
               /\ s.escaped => n.inStr /\ ~n.escaped
               /\ ~s.escaped /\ c = "backslash" => n.inStr /\ n.escaped
               /\ ~s.escaped /\ c = "quote" => ~n.inStr /\ ~n.escaped
               /\ ~s.escaped /\ c \notin {"backslash", "quote"} => n.inStr /\ ~n.escaped
<1> DEFINE m == [s EXCEPT !.at = @ + 1]
<1>1. ScanStep(s, c) = InString(m, c)
  BY DEF ScanStep
<1>2. /\ m \in ScanState /\ m.at = s.at + 1 /\ m.depth = s.depth /\ ~m.found /\ m.inStr
      /\ m.escaped = s.escaped
  BY DEF ScanState
<1> HIDE DEF m
<1>3. CASE s.escaped
  <2>1. ScanStep(s, c) = [m EXCEPT !.escaped = FALSE]
    BY <1>1, <1>2, <1>3 DEF InString
  <2> QED
    BY <1>2, <1>3, <2>1 DEF ScanState
<1>4. CASE ~s.escaped /\ c = "backslash"
  <2>1. ScanStep(s, c) = [m EXCEPT !.escaped = TRUE]
    BY <1>1, <1>2, <1>4 DEF InString
  <2> QED
    BY <1>2, <1>4, <2>1 DEF ScanState
<1>5. CASE ~s.escaped /\ c = "quote"
  <2>1. ScanStep(s, c) = [m EXCEPT !.inStr = FALSE]
    BY <1>1, <1>2, <1>5 DEF InString
  <2> QED
    BY <1>2, <1>5, <2>1 DEF ScanState
<1>6. CASE ~s.escaped /\ c \notin {"backslash", "quote"}
  <2>1. ScanStep(s, c) = m
    BY <1>1, <1>2, <1>6 DEF InString
  <2> QED
    BY <1>2, <1>6, <2>1
<1> QED
  BY <1>3, <1>4, <1>5, <1>6

LEMMA StepOutside ==
    ASSUME NEW s \in ScanState, NEW c, ~s.found, ~s.inStr
    PROVE  LET n == ScanStep(s, c)
           IN  /\ n \in ScanState /\ n.at = s.at + 1 /\ n.escaped = s.escaped
               /\ n.inStr <=> c = "quote"
               /\ n.found <=> c = "close" /\ s.depth = 1
               /\ n.depth = IF c = "open" THEN s.depth + 1
                            ELSE IF c = "close" THEN s.depth - 1 ELSE s.depth
<1> DEFINE m == [s EXCEPT !.at = @ + 1]
<1>1. ScanStep(s, c) = Outside(m, c)
  BY DEF ScanStep
<1>2. /\ m \in ScanState /\ m.at = s.at + 1 /\ m.depth = s.depth /\ ~m.found /\ ~m.inStr
      /\ m.escaped = s.escaped /\ m.depth \in Int
  BY DEF ScanState
<1> HIDE DEF m
<1>3. CASE c = "quote"
  <2>1. ScanStep(s, c) = [m EXCEPT !.inStr = TRUE]
    BY <1>1, <1>3 DEF Outside
  <2> QED
    BY <1>2, <1>3, <2>1 DEF ScanState
<1>4. CASE c = "open"
  <2>1. ScanStep(s, c) = [m EXCEPT !.depth = @ + 1]
    BY <1>1, <1>4 DEF Outside
  <2> QED
    BY <1>2, <1>4, <2>1 DEF ScanState
<1>5. CASE c = "close"
  <2>1. ScanStep(s, c) = [m EXCEPT !.depth = @ - 1, !.found = m.depth = 1]
    BY <1>1, <1>5 DEF Outside
  <2>2. PICK b \in BOOLEAN : b = (m.depth = 1)
    OBVIOUS
  <2>3. ScanStep(s, c) = [m EXCEPT !.depth = @ - 1, !.found = b]
    BY <2>1, <2>2
  <2>4. /\ ScanStep(s, c) \in ScanState /\ ScanStep(s, c).at = m.at
        /\ ScanStep(s, c).depth = m.depth - 1 /\ ScanStep(s, c).found = b
        /\ ScanStep(s, c).escaped = m.escaped /\ ScanStep(s, c).inStr = m.inStr
    <3> DEFINE r == [at |-> m.at, depth |-> m.depth - 1, inStr |-> m.inStr,
                     escaped |-> m.escaped, found |-> b]
    <3>1. ScanStep(s, c) = r
      BY <1>2, <2>3 DEF ScanState
    <3>2. r \in ScanState
      BY <1>2 DEF ScanState
    <3> QED
      BY <3>1, <3>2
  <2> QED
    BY <1>2, <1>5, <2>2, <2>4
<1>6. CASE c \notin {"quote", "open", "close"}
  <2>1. ScanStep(s, c) = m
    BY <1>1, <1>6 DEF Outside
  <2> QED
    BY <1>2, <1>6, <2>1
<1> QED
  BY <1>3, <1>4, <1>5, <1>6

LEMMA StepFound ==
    ASSUME NEW s \in ScanState, NEW c, s.found
    PROVE  ScanStep(s, c) = s
BY DEF ScanStep

LEMMA ScanStepType ==
    ASSUME NEW s \in ScanState, NEW c
    PROVE  ScanStep(s, c) \in ScanState
BY StepInString, StepOutside, StepFound

ScanAt(t, start, g, i) ==
    IF i = start - 1 THEN Unscanned(start) ELSE ScanStep(g[i - 1], t[i])

IsScan(t, start, g) ==
    g = [i \in (start - 1) .. Len(t) |-> ScanAt(t, start, g, i)]

LEMMA ScanExists ==
    ASSUME NEW t, Len(t) \in Nat, NEW start \in 1 .. Len(t)
    PROVE  \E g \in [(start - 1) .. Len(t) -> ScanState] : IsScan(t, start, g)
<1> DEFINE D == (start - 1) .. Len(t)
           F == [g \in [D -> ScanState] |-> [i \in D |-> ScanAt(t, start, g, i)]]
           rank == [i \in D |-> i]
<1>1. Unscanned(start) \in ScanState
  BY DEF Unscanned, ScanState
<1>2. ASSUME NEW i \in D, i # start - 1 PROVE i - 1 \in D
  BY <1>2
<1>3. ASSUME NEW g \in [D -> ScanState], NEW i \in D PROVE ScanAt(t, start, g, i) \in ScanState
  <2>1. CASE i = start - 1
    BY <1>1, <2>1 DEF ScanAt
  <2>2. CASE i # start - 1
    <3>1. g[i - 1] \in ScanState
      BY <1>2, <2>2
    <3> QED
      BY <2>2, <3>1, ScanStepType DEF ScanAt
  <2> QED
    BY <2>1, <2>2
<1>4. F \in [[D -> ScanState] -> [D -> ScanState]]
  BY <1>3
<1>5. [D -> ScanState] # {}
  <2>1. [i \in D |-> Unscanned(start)] \in [D -> ScanState]
    BY <1>1
  <2> QED
    BY <2>1
<1>6. \A i \in D : rank[i] \in Nat /\ rank[i] < Len(t) + 1
  OBVIOUS
<1>7. ASSUME NEW g \in [D -> ScanState], NEW h \in [D -> ScanState], NEW i \in D,
             \A j \in D : rank[j] < rank[i] => g[j] = h[j]
      PROVE  F[g][i] = F[h][i]
  <2>1. F[g][i] = ScanAt(t, start, g, i) /\ F[h][i] = ScanAt(t, start, h, i)
    OBVIOUS
  <2>2. i # start - 1 => g[i - 1] = h[i - 1]
    BY <1>2, <1>7
  <2> QED
    BY <2>1, <2>2, Zenon DEF ScanAt
<1>8. \E g \in [D -> ScanState] : F[g] = g
  <2> HIDE DEF F, rank
  <2>1. Recursion(D, ScanState, F, rank, Len(t) + 1)
    <3>1. Len(t) + 1 \in Nat
      OBVIOUS
    <3>2. \A g, h \in [D -> ScanState] : \A i \in D :
              (\A j \in D : rank[j] < rank[i] => g[j] = h[j]) => F[g][i] = F[h][i]
      BY <1>7
    <3> HIDE DEF D
    <3> QED
      BY <1>4, <1>5, <1>6, <3>1, <3>2, Zenon DEF Recursion
  <2> HIDE DEF D
  <2> QED
    BY <2>1, RecursionExists
<1>9. \A g \in [D -> ScanState] : F[g] = [i \in D |-> ScanAt(t, start, g, i)]
  OBVIOUS
<1> HIDE DEF F
<1> QED
  BY <1>8, <1>9, Zenon DEF IsScan

-----------------------------------------------------------------------------
(* The grammar's functions                                                 *)

BodyAt(t, j, g, x) ==
    \/ x = j + 1
    \/ x <= j /\ t[x] \notin {"quote", "backslash"} /\ g[x + 1]
    \/ x < j /\ t[x] = "backslash" /\ g[x + 2]

IsBody(t, i, j, g) == g = [x \in i .. (j + 2) |-> BodyAt(t, j, g, x)]

LEMMA BodyExists ==
    ASSUME NEW t, NEW i \in Int, NEW j \in Int
    PROVE  \E g \in [i .. (j + 2) -> BOOLEAN] : IsBody(t, i, j, g)
<1> DEFINE D == i .. (j + 2)
           F == [g \in [D -> BOOLEAN] |-> [x \in D |-> BodyAt(t, j, g, x)]]
           rank == [x \in D |-> (j + 2) - x]
<1>1. ASSUME NEW g, NEW x PROVE BodyAt(t, j, g, x) \in BOOLEAN
  BY Zenon DEF BodyAt
<1>2. F \in [[D -> BOOLEAN] -> [D -> BOOLEAN]]
  <2>1. \A g, x : BodyAt(t, j, g, x) \in BOOLEAN
    BY <1>1
  <2> QED
    BY <2>1
<1>3. [D -> BOOLEAN] # {}
  <2>1. [x \in D |-> TRUE] \in [D -> BOOLEAN]
    OBVIOUS
  <2> QED
    BY <2>1
<1>4. PICK top \in Nat : \A x \in D : rank[x] \in Nat /\ rank[x] < top
  <2>1. CASE j + 3 - i \in Nat
    <3>1. \A x \in D : rank[x] \in Nat /\ rank[x] < j + 3 - i
      OBVIOUS
    <3> QED
      BY <2>1, <3>1
  <2>2. CASE j + 3 - i \notin Nat
    <3>1. D = {}
      BY <2>2
    <3> QED
      BY <3>1
  <2> QED
    BY <2>1, <2>2
<1>5. ASSUME NEW g \in [D -> BOOLEAN], NEW h \in [D -> BOOLEAN], NEW x \in D,
             \A m \in D : rank[m] < rank[x] => g[m] = h[m]
      PROVE  F[g][x] = F[h][x]
  <2>1. F[g][x] = BodyAt(t, j, g, x) /\ F[h][x] = BodyAt(t, j, h, x)
    OBVIOUS
  <2>2. x <= j => g[x + 1] = h[x + 1]
    <3>1. x <= j => x + 1 \in D /\ rank[x + 1] < rank[x]
      OBVIOUS
    <3> QED
      BY <1>5, <3>1
  <2>3. x < j => g[x + 2] = h[x + 2]
    <3>1. x < j => x + 2 \in D /\ rank[x + 2] < rank[x]
      OBVIOUS
    <3> QED
      BY <1>5, <3>1
  <2>4. BodyAt(t, j, g, x) = BodyAt(t, j, h, x)
    BY <2>2, <2>3, Zenon DEF BodyAt
  <2> QED
    BY <2>1, <2>4
<1>6. \E g \in [D -> BOOLEAN] : F[g] = g
  <2>1. Recursion(D, BOOLEAN, F, rank, top)
    <3>1. \A g, h \in [D -> BOOLEAN] : \A x \in D :
              (\A m \in D : rank[m] < rank[x] => g[m] = h[m]) => F[g][x] = F[h][x]
      BY <1>5
    <3> HIDE DEF D, F, rank
    <3> QED
      BY <1>2, <1>3, <1>4, <3>1, Zenon DEF Recursion
  <2> HIDE DEF D, F, rank
  <2> QED
    BY <2>1, RecursionExists
<1>7. \A g \in [D -> BOOLEAN] : F[g] = [x \in D |-> BodyAt(t, j, g, x)]
  OBVIOUS
<1> HIDE DEF F
<1> QED
  BY <1>6, <1>7, Zenon DEF IsBody

(* The inside of a literal, by the function IsLiteralBody is defined with. *)
LEMMA LiteralBody ==
    ASSUME NEW t, NEW i \in Int, NEW j \in Int
    PROVE  \E b \in [i .. (j + 2) -> BOOLEAN] :
               /\ IsLiteralBody(t, i, j) <=> b[i]
               /\ \A x \in i .. (j + 2) : b[x] <=> BodyAt(t, j, b, x)
<1> DEFINE b == CHOOSE g : IsBody(t, i, j, g)
<1>1. IsLiteralBody(t, i, j) <=> b[i]
  BY DEF IsLiteralBody, IsBody, BodyAt
<1>2. IsBody(t, i, j, b)
  BY BodyExists
<1> HIDE DEF b
<1>3. b = [x \in i .. (j + 2) |-> BodyAt(t, j, b, x)]
  BY <1>2, Zenon DEF IsBody
<1>4. \A x : BodyAt(t, j, b, x) \in BOOLEAN
  BY Zenon DEF BodyAt
<1>5. b \in [i .. (j + 2) -> BOOLEAN] /\ \A x \in i .. (j + 2) : b[x] = BodyAt(t, j, b, x)
  BY <1>3, <1>4
<1> QED
  BY <1>1, <1>5, Zenon

ItemsAt(t, g, s) ==
    \/ s[2] < s[1]
    \/ t[s[1]] \notin {"open", "close", "quote"} /\ g[<<s[1] + 1, s[2]>>]
    \/ \E m \in (s[1] + 1) .. s[2] :
          /\ \/ IsLiteral(t, s[1], m)
             \/ /\ t[s[1]] = "open" /\ t[m] = "close"
                /\ g[<<s[1] + 1, m - 1>>]
          /\ m = s[2] \/ g[<<m + 1, s[2]>>]

Spans(t) == (1 .. (Len(t) + 1)) \X (0 .. Len(t))

IsItems(t, g) == g = [s \in Spans(t) |-> ItemsAt(t, g, s)]

LEMMA ItemsExist ==
    ASSUME NEW t, Len(t) \in Nat
    PROVE  \E g \in [Spans(t) -> BOOLEAN] : IsItems(t, g)
<1> DEFINE D == Spans(t)
           F == [g \in [D -> BOOLEAN] |-> [s \in D |-> ItemsAt(t, g, s)]]
           rank == [s \in D |-> (s[2] + Len(t) + 1) - s[1]]
<1>1. ASSUME NEW g, NEW s PROVE ItemsAt(t, g, s) \in BOOLEAN
  BY Zenon DEF ItemsAt
<1>2. F \in [[D -> BOOLEAN] -> [D -> BOOLEAN]]
  <2>1. \A g, s : ItemsAt(t, g, s) \in BOOLEAN
    BY <1>1
  <2> HIDE DEF D
  <2> QED
    BY <2>1
<1>3. [D -> BOOLEAN] # {}
  <2> HIDE DEF D
  <2>1. [x \in D |-> TRUE] \in [D -> BOOLEAN]
    OBVIOUS
  <2> QED
    BY <2>1
<1>4. /\ 2 * Len(t) + 2 \in Nat
      /\ \A s \in D : rank[s] \in Nat /\ rank[s] < 2 * Len(t) + 2
  BY DEF Spans
<1>5. ASSUME NEW g \in [D -> BOOLEAN], NEW h \in [D -> BOOLEAN], NEW s \in D,
             \A u \in D : rank[u] < rank[s] => g[u] = h[u]
      PROVE  F[g][s] = F[h][s]
  <2>1. F[g][s] = ItemsAt(t, g, s) /\ F[h][s] = ItemsAt(t, h, s)
    OBVIOUS
  <2>2. /\ s[1] \in 1 .. (Len(t) + 1) /\ s[2] \in 0 .. Len(t)
    BY DEF Spans
  <2>3. ASSUME NEW a \in 1 .. (Len(t) + 1), NEW b \in 0 .. Len(t), b - a < s[2] - s[1]
        PROVE  g[<<a, b>>] = h[<<a, b>>]
    <3>1. <<a, b>> \in D /\ rank[<<a, b>>] < rank[s]
      BY <2>2, <2>3 DEF Spans
    <3> QED
      BY <1>5, <3>1
  <2>4. s[1] <= s[2] => g[<<s[1] + 1, s[2]>>] = h[<<s[1] + 1, s[2]>>]
    BY <2>2, <2>3
  <2>5. ASSUME NEW m \in (s[1] + 1) .. s[2]
        PROVE  /\ g[<<s[1] + 1, m - 1>>] = h[<<s[1] + 1, m - 1>>]
               /\ g[<<m + 1, s[2]>>] = h[<<m + 1, s[2]>>]
    <3>1. /\ s[1] + 1 \in 1 .. (Len(t) + 1) /\ m + 1 \in 1 .. (Len(t) + 1)
          /\ m - 1 \in 0 .. Len(t)
          /\ (m - 1) - (s[1] + 1) < s[2] - s[1] /\ s[2] - (m + 1) < s[2] - s[1]
      BY <2>2, <2>5
    <3> QED
      BY <2>2, <2>3, <3>1
  <2>7. s[1] <= s[2] \/ s[2] < s[1]
    BY <2>2
  <2>8. CASE s[2] < s[1]
    BY <2>8, Zenon DEF ItemsAt
  <2>9. CASE s[1] <= s[2]
    BY <2>4, <2>5, <2>9, Zenon DEF ItemsAt
  <2> QED
    BY <2>1, <2>7, <2>8, <2>9
<1>6. \E g \in [D -> BOOLEAN] : F[g] = g
  <2>1. Recursion(D, BOOLEAN, F, rank, 2 * Len(t) + 2)
    <3>1. \A g, h \in [D -> BOOLEAN] : \A x \in D :
              (\A m \in D : rank[m] < rank[x] => g[m] = h[m]) => F[g][x] = F[h][x]
      BY <1>5
    <3> HIDE DEF D, F, rank
    <3> QED
      BY <1>2, <1>3, <1>4, <3>1, Zenon DEF Recursion
  <2> HIDE DEF D, F, rank
  <2> QED
    BY <2>1, RecursionExists
<1>7. \A g \in [D -> BOOLEAN] : F[g] = [s \in D |-> ItemsAt(t, g, s)]
  OBVIOUS
<1> HIDE DEF F
<1> QED
  BY <1>6, <1>7, Zenon DEF IsItems

(* IsObject, by the function it is defined with.                           *)
IsGrammar(t, g) ==
    /\ \A s \in Spans(t) : g[s] <=> ItemsAt(t, g, s)
    /\ \A i, j : IsObject(t, i, j) <=>
           i < j /\ t[i] = "open" /\ t[j] = "close" /\ g[<<i + 1, j - 1>>]

LEMMA GrammarExists ==
    ASSUME NEW t, Len(t) \in Nat
    PROVE  \E g : IsGrammar(t, g)
<1> DEFINE g == CHOOSE f : IsItems(t, f)
<1>1. ASSUME NEW i, NEW j
      PROVE  IsObject(t, i, j) <=>
                 i < j /\ t[i] = "open" /\ t[j] = "close" /\ g[<<i + 1, j - 1>>]
  BY DEF IsObject, IsItems, ItemsAt, Spans
<1>2. IsItems(t, g)
  BY ItemsExist
<1> HIDE DEF g
<1>3. g = [s \in Spans(t) |-> ItemsAt(t, g, s)]
  BY <1>2, Zenon DEF IsItems
<1>4. \A s \in Spans(t) : g[s] <=> ItemsAt(t, g, s)
  BY <1>3
<1> QED
  BY <1>1, <1>4, Zenon DEF IsGrammar

-----------------------------------------------------------------------------
(* The scan                                                                *)

(* g is the scan of a text from its first brace.                           *)
Scanned(t, start, g) ==
    /\ Len(t) \in Nat /\ start \in 1 .. Len(t) /\ t[start] = "open"
    /\ g \in [(start - 1) .. Len(t) -> ScanState]
    /\ g[start - 1] = Unscanned(start)
    /\ \A i \in start .. Len(t) : g[i] = ScanStep(g[i - 1], t[i])

(* Between two characters of the text, d objects deep and in no literal.   *)
Between(s, d) == s.depth = d /\ ~s.inStr /\ ~s.escaped /\ ~s.found

LEMMA ScanBefore ==
    ASSUME NEW t, NEW start, NEW g, Scanned(t, start, g), NEW i \in start .. Len(t)
    PROVE  /\ i - 1 \in (start - 1) .. Len(t) /\ g[i - 1] \in ScanState
           /\ g[i] \in ScanState /\ g[i] = ScanStep(g[i - 1], t[i])
BY DEF Scanned

(* As long as no object ends, the scan is inside one, at the character it  *)
(* has come to.                                                            *)
ScanInside(s, i) ==
    ~s.found => s.at = i /\ s.depth >= 1 /\ (s.escaped => s.inStr)

LEMMA ScanGoesOn ==
    ASSUME NEW t, NEW start, NEW g, Scanned(t, start, g)
    PROVE  /\ Between(g[start], 1)
           /\ \A i \in start .. Len(t) : ScanInside(g[i], i)
<1>1. /\ Len(t) \in Nat /\ start \in 1 .. Len(t) /\ t[start] = "open"
      /\ Unscanned(start) \in ScanState
  BY DEF Scanned, Unscanned, ScanState
<1>2. g[start] = ScanStep(Unscanned(start), "open")
  BY <1>1 DEF Scanned
<1>3. Between(g[start], 1) /\ g[start].at = start
  <2> DEFINE s == Unscanned(start)
  <2>1. /\ s.at = start - 1 /\ s.depth = 0 /\ ~s.inStr /\ ~s.escaped /\ ~s.found
    BY DEF Unscanned
  <2>2. s \in ScanState /\ g[start] = ScanStep(s, "open")
    BY <1>1, <1>2
  <2> HIDE DEF s
  <2>3. /\ g[start].at = s.at + 1 /\ g[start].escaped = s.escaped /\ ~g[start].inStr
        /\ ~g[start].found /\ g[start].depth = s.depth + 1
    BY <2>1, <2>2, StepOutside
  <2> QED
    BY <1>1, <2>1, <2>3 DEF Between
<1> DEFINE S == {i \in start .. Len(t) : ScanInside(g[i], i)}
<1>4. start \in S
  BY <1>1, <1>3 DEF ScanInside, Between
<1>5. ASSUME NEW i \in start .. (Len(t) - 1), i \in S PROVE i + 1 \in S
  <2>1. i + 1 \in start .. Len(t) /\ (i + 1) - 1 = i
    BY <1>1
  <2>2. SUFFICES ASSUME ~g[i + 1].found PROVE ScanInside(g[i + 1], i + 1)
    BY <2>1 DEF ScanInside
  <2> DEFINE s == g[i]
             c == t[i + 1]
  <2>3. s \in ScanState /\ g[i + 1] = ScanStep(s, c) /\ s.depth \in Int
    BY <2>1, ScanBefore DEF ScanState
  <2>4. ~s.found
    BY <2>2, <2>3, StepFound
  <2>5. s.at = i /\ s.depth >= 1 /\ (s.escaped => s.inStr)
    BY <1>5, <2>4 DEF ScanInside
  <2> HIDE DEF s, c
  <2>6. CASE s.inStr
    BY <1>1, <2>3, <2>4, <2>5, <2>6, StepInString DEF ScanInside
  <2>7. CASE ~s.inStr
    BY <1>1, <2>2, <2>3, <2>4, <2>5, <2>7, StepOutside DEF ScanInside
  <2> QED
    BY <2>6, <2>7
<1>6. start .. Len(t) \subseteq S
  <2>1. start \in Int /\ Len(t) \in Int
    BY <1>1
  <2> HIDE DEF S
  <2> QED
    BY <1>4, <1>5, <2>1, Upwards
<1> QED
  BY <1>3, <1>6

LEMMA FoundStays ==
    ASSUME NEW t, NEW start, NEW g, Scanned(t, start, g),
           NEW i \in (start - 1) .. Len(t), g[i].found, NEW j \in i .. Len(t)
    PROVE  g[j] = g[i]
<1> DEFINE S == {p \in i .. Len(t) : g[p] = g[i]}
<1>1. Len(t) \in Nat /\ start \in 1 .. Len(t)
  BY DEF Scanned
<1>2. i \in S
  BY <1>1
<1>3. ASSUME NEW p \in i .. (Len(t) - 1), p \in S PROVE p + 1 \in S
  <2>1. p + 1 \in start .. Len(t) /\ (p + 1) - 1 = p /\ p + 1 \in i .. Len(t)
    BY <1>1
  <2>2. g[p] \in ScanState /\ g[p + 1] = ScanStep(g[p], t[p + 1])
    BY <2>1, ScanBefore
  <2> QED
    BY <1>3, <2>1, <2>2, StepFound
<1>4. i .. Len(t) \subseteq S
  <2>1. i \in Int /\ Len(t) \in Int
    BY <1>1
  <2> HIDE DEF S
  <2> QED
    BY <1>2, <1>3, <2>1, Upwards
<1> QED
  BY <1>4

(* In a literal d objects deep, not after a backslash.                     *)
Within(s, d) == s.depth = d /\ s.inStr /\ ~s.escaped /\ ~s.found

(* b is the function of the body t[i .. j] of a literal.                   *)
IsBodyOf(t, i, j, b) ==
    /\ \A p \in i .. (j + 2) : b[p] <=> BodyAt(t, j, b, p)
    /\ IsLiteralBody(t, i, j) <=> b[i]

(* The scan passes over a literal.                                         *)
LEMMA LiteralScan ==
    ASSUME NEW t, NEW start, NEW g, Scanned(t, start, g),
           NEW i \in (start + 1) .. Len(t), NEW j \in i .. Len(t), NEW d \in Int,
           Between(g[i - 1], d), IsLiteral(t, i, j)
    PROVE  Between(g[j], d)
<1>1. Len(t) \in Nat /\ start \in 1 .. Len(t)
  BY DEF Scanned
<1>2. i < j /\ t[i] = "quote" /\ t[j] = "quote" /\ IsLiteralBody(t, i + 1, j - 1)
  BY Zenon DEF IsLiteral
<1>3. PICK b : IsBodyOf(t, i + 1, j - 1, b)
  BY <1>1, LiteralBody DEF IsBodyOf
<1> DEFINE Leaves(p) == Within(g[p], d) /\ b[p + 1] => Between(g[j], d)
<1>4. ASSUME NEW p \in i .. (j - 1), \A q \in (p + 1) .. (j - 1) : Leaves(q)
      PROVE  Leaves(p)
  <2>1. SUFFICES ASSUME Within(g[p], d), b[p + 1] PROVE Between(g[j], d)
    OBVIOUS
  <2>2. g[p] \in ScanState /\ g[p + 1] \in ScanState /\ g[p + 1] = ScanStep(g[p], t[p + 1])
    <3>1. p + 1 \in start .. Len(t) /\ (p + 1) - 1 = p
      BY <1>1
    <3> QED
      BY <3>1, ScanBefore
  <2>3. BodyAt(t, j - 1, b, p + 1)
    <3>1. p + 1 \in (i + 1) .. ((j - 1) + 2)
      BY <1>1
    <3> QED
      BY <1>3, <2>1, <3>1 DEF IsBodyOf
  <2>4. CASE p + 1 = (j - 1) + 1
    <3>1. p + 1 = j
      BY <1>1, <2>4
    <3> QED
      BY <1>2, <2>1, <2>2, <3>1, StepInString DEF Within, Between
  <2>5. CASE p + 1 <= j - 1 /\ t[p + 1] \notin {"quote", "backslash"} /\ b[(p + 1) + 1]
    <3>1. Within(g[p + 1], d)
      BY <2>1, <2>2, <2>5, StepInString DEF Within
    <3>2. p + 1 \in (p + 1) .. (j - 1)
      BY <1>1, <2>5
    <3> QED
      BY <1>4, <2>5, <3>1, <3>2
  <2>6. CASE p + 1 < j - 1 /\ t[p + 1] = "backslash" /\ b[(p + 1) + 2]
    <3>1. /\ g[p + 1].depth = d /\ g[p + 1].inStr /\ g[p + 1].escaped /\ ~g[p + 1].found
      BY <2>1, <2>2, <2>6, StepInString DEF Within
    <3>2. /\ p + 2 \in start .. Len(t) /\ (p + 2) - 1 = p + 1 /\ p + 2 \in (p + 1) .. (j - 1)
          /\ (p + 2) + 1 = (p + 1) + 2
      BY <1>1, <2>6
    <3>3. g[p + 2] = ScanStep(g[p + 1], t[p + 2])
      BY <3>2, ScanBefore
    <3>4. Within(g[p + 2], d)
      BY <2>2, <3>1, <3>3, StepInString DEF Within
    <3> QED
      BY <1>4, <2>6, <3>2, <3>4
  <2> QED
    BY <2>3, <2>4, <2>5, <2>6, Zenon DEF BodyAt
<1> DEFINE S == {p \in i .. (j - 1) : Leaves(p)}
<1>5. \A p \in i .. (j - 1) : (\A q \in (p + 1) .. (j - 1) : q \in S) => p \in S
  BY <1>4
<1>6. i .. (j - 1) \subseteq S
  <2> HIDE DEF S
  <2>1. j - 1 \in Int /\ i \in Int
    BY <1>1
  <2> QED
    BY <1>5, <2>1, Downwards
<1>7. Leaves(i)
  <2>1. i \in i .. (j - 1)
    BY <1>1, <1>2
  <2> QED
    BY <1>6, <2>1
<1>8. Within(g[i], d)
  <2>1. i \in start .. Len(t)
    BY <1>1
  <2> QED
    BY <1>2, <2>1, ScanBefore, StepOutside DEF Within, Between
<1>9. b[i + 1]
  BY <1>2, <1>3 DEF IsBodyOf
<1> QED
  BY <1>7, <1>8, <1>9 DEF Leaves

LEMMA BetweenStep ==
    ASSUME NEW s \in ScanState, NEW c, NEW d \in Int, Between(s, d)
    PROVE  LET n == ScanStep(s, c)
           IN  /\ c = "open" => Between(n, d + 1)
               /\ c = "close" /\ d # 1 => Between(n, d - 1)
               /\ c = "close" /\ d = 1 => n.found /\ n.at = s.at + 1
               /\ c = "quote" => Within(n, d)
               /\ c \notin {"open", "close", "quote"} => Between(n, d)
<1>1. /\ ~s.found /\ ~s.inStr /\ ~s.escaped /\ s.depth = d
  BY DEF Between
<1> DEFINE n == ScanStep(s, c)
<1>2. /\ n.at = s.at + 1 /\ ~n.escaped
      /\ n.inStr <=> c = "quote"
      /\ n.found <=> c = "close" /\ s.depth = 1
      /\ n.depth = IF c = "open" THEN s.depth + 1
                   ELSE IF c = "close" THEN s.depth - 1 ELSE s.depth
  BY <1>1, StepOutside
<1> HIDE DEF n
<1>3. /\ c = "open" => Between(n, d + 1)
      /\ c = "close" /\ d # 1 => Between(n, d - 1)
      /\ c = "close" /\ d = 1 => n.found /\ n.at = s.at + 1
      /\ c = "quote" => Within(n, d)
      /\ c \notin {"open", "close", "quote"} => Between(n, d)
  BY <1>1, <1>2 DEF Between, Within
<1> QED
  BY <1>3 DEF n

(* What is balanced leaves the scan where it was, d objects deep.          *)
LeavesDepth(g, f, i, j, d) ==
    d >= 1 /\ Between(g[i - 1], d) /\ f[<<i, j>>] => Between(g[j], d)

LeaveDepth(t, start, g, f, n) ==
    \A i \in (start + 1) .. (Len(t) + 1) : \A j \in (i - 1) .. Len(t) : \A d \in Int :
        j - i < n => LeavesDepth(g, f, i, j, d)

LEMMA ItemsScanStep ==
    ASSUME NEW t, NEW start, NEW g, Scanned(t, start, g), NEW f, IsGrammar(t, f),
           NEW n \in Nat, LeaveDepth(t, start, g, f, n)
    PROVE  LeaveDepth(t, start, g, f, n + 1)
<1>1. Len(t) \in Nat /\ start \in 1 .. Len(t)
  BY DEF Scanned
<1>2. SUFFICES ASSUME NEW i \in (start + 1) .. (Len(t) + 1), NEW j \in (i - 1) .. Len(t),
                      NEW d \in Int, j - i < n + 1,
                      d >= 1, Between(g[i - 1], d), f[<<i, j>>]
               PROVE  Between(g[j], d)
  BY DEF LeaveDepth, LeavesDepth
<1>3. ItemsAt(t, f, <<i, j>>)
  <2>1. <<i, j>> \in Spans(t)
    BY <1>1 DEF Spans
  <2> QED
    BY <1>2, <2>1, Zenon DEF IsGrammar
<1>4. CASE j < i
  <2>1. j = i - 1
    BY <1>1, <1>4
  <2> QED
    BY <1>2, <2>1
<1>5. CASE i <= j
  <2> USE <1>5
  <2>1. /\ g[i - 1] \in ScanState /\ g[i] = ScanStep(g[i - 1], t[i])
    <3>1. i \in start .. Len(t)
      BY <1>1
    <3> QED
      BY <3>1, ScanBefore
  <2>2. CASE t[i] \notin {"open", "close", "quote"} /\ f[<<i + 1, j>>]
    <3>1. Between(g[i], d)
      BY <1>2, <2>1, <2>2, BetweenStep
    <3>2. i + 1 \in (start + 1) .. (Len(t) + 1) /\ j \in ((i + 1) - 1) .. Len(t)
          /\ j - (i + 1) < n /\ (i + 1) - 1 = i
      BY <1>1, <1>2
    <3>3. LeavesDepth(g, f, i + 1, j, d)
      BY <3>2 DEF LeaveDepth
    <3> QED
      BY <1>2, <2>2, <3>1, <3>2, <3>3 DEF LeavesDepth
  <2>3. ASSUME NEW m \in (i + 1) .. j,
               \/ IsLiteral(t, i, m)
               \/ t[i] = "open" /\ t[m] = "close" /\ f[<<i + 1, m - 1>>],
               m = j \/ f[<<m + 1, j>>]
        PROVE  Between(g[j], d)
    <3>1. ASSUME IsLiteral(t, i, m) PROVE Between(g[m], d)
      <4>1. i \in (start + 1) .. Len(t) /\ m \in i .. Len(t)
        BY <1>1
      <4>2. Between(g[m], d)
        BY <1>2, <3>1, <4>1, LiteralScan
      <4> QED
        BY <4>2
    <3>2. ASSUME t[i] = "open", t[m] = "close", f[<<i + 1, m - 1>>]
          PROVE  Between(g[m], d)
      <4>1. Between(g[i], d + 1) /\ d + 1 \in Int /\ d + 1 >= 1
        <5>1. Between(ScanStep(g[i - 1], "open"), d + 1)
          BY <1>2, <2>1, BetweenStep
        <5> QED
          BY <1>2, <2>1, <3>2, <5>1
      <4>2. /\ i + 1 \in (start + 1) .. (Len(t) + 1) /\ m - 1 \in ((i + 1) - 1) .. Len(t)
            /\ (m - 1) - (i + 1) < n /\ (i + 1) - 1 = i
        BY <1>1, <1>2
      <4>3. LeavesDepth(g, f, i + 1, m - 1, d + 1)
        BY <4>1, <4>2 DEF LeaveDepth
      <4>4. Between(g[m - 1], d + 1)
        BY <3>2, <4>1, <4>2, <4>3 DEF LeavesDepth
      <4>5. m \in start .. Len(t)
        BY <1>1
      <4>6. d + 1 # 1 /\ (d + 1) - 1 = d
        BY <1>2
      <4>7. g[m - 1] \in ScanState /\ g[m] = ScanStep(g[m - 1], t[m])
        BY <4>5, ScanBefore
      <4>8. Between(ScanStep(g[m - 1], "close"), (d + 1) - 1)
        BY <4>1, <4>4, <4>6, <4>7, BetweenStep
      <4> QED
        BY <3>2, <4>6, <4>7, <4>8
    <3>3. Between(g[m], d)
      BY <2>3, <3>1, <3>2
    <3>4. CASE m # j /\ f[<<m + 1, j>>]
      <4>1. /\ m + 1 \in (start + 1) .. (Len(t) + 1) /\ j \in ((m + 1) - 1) .. Len(t)
            /\ j - (m + 1) < n /\ (m + 1) - 1 = m
        BY <1>1, <1>2, <3>4
      <4>2. LeavesDepth(g, f, m + 1, j, d)
        BY <4>1 DEF LeaveDepth
      <4> QED
        BY <1>2, <3>3, <3>4, <4>1, <4>2 DEF LeavesDepth
    <3> QED
      BY <2>3, <3>3, <3>4
  <2> DEFINE Unit(m) == \/ IsLiteral(t, i, m)
                        \/ t[i] = "open" /\ t[m] = "close" /\ f[<<i + 1, m - 1>>]
  <2>4. \/ t[i] \notin {"open", "close", "quote"} /\ f[<<i + 1, j>>]
        \/ \E m \in (i + 1) .. j : Unit(m) /\ (m = j \/ f[<<m + 1, j>>])
    <3>1. ~(j < i)
      BY <1>1
    <3> QED
      BY <1>3, <3>1 DEF ItemsAt
  <2> QED
    BY <2>2, <2>3, <2>4
<1> QED
  BY <1>1, <1>4, <1>5

LEMMA ObjectIsFound ==
    ASSUME NEW t, NEW start, NEW g, Scanned(t, start, g),
           NEW j \in DOMAIN t, DOMAIN t = 1 .. Len(t), IsObject(t, start, j)
    PROVE  g[Len(t)].found /\ g[Len(t)].at = j
<1>1. Len(t) \in Nat /\ start \in 1 .. Len(t) /\ j \in 1 .. Len(t)
  BY DEF Scanned
<1>2. PICK f : IsGrammar(t, f)
  BY <1>1, GrammarExists
<1>3. start < j /\ t[j] = "close" /\ f[<<start + 1, j - 1>>]
  BY <1>2, Zenon DEF IsGrammar
<1> DEFINE S == {n \in Nat : LeaveDepth(t, start, g, f, n)}
<1>4. 0 \in S
  <2>1. ASSUME NEW i \in (start + 1) .. (Len(t) + 1), NEW m \in (i - 1) .. Len(t),
               NEW d \in Int, m - i < 0
        PROVE  LeavesDepth(g, f, i, m, d)
    <3>1. m = i - 1
      BY <1>1, <2>1
    <3> QED
      BY <3>1 DEF LeavesDepth
  <2> QED
    BY <2>1 DEF LeaveDepth
<1>5. \A n \in Nat : n \in S => n + 1 \in S
  BY <1>2, ItemsScanStep
<1>6. Nat \subseteq S
  <2> HIDE DEF S
  <2> QED
    BY <1>4, <1>5, InductiveSet
<1>7. LeaveDepth(t, start, g, f, Len(t))
  BY <1>1, <1>6
<1>8. LeavesDepth(g, f, start + 1, j - 1, 1)
  <2>1. /\ start + 1 \in (start + 1) .. (Len(t) + 1) /\ j - 1 \in ((start + 1) - 1) .. Len(t)
        /\ (j - 1) - (start + 1) < Len(t) /\ 1 \in Int
    BY <1>1, <1>3
  <2> QED
    BY <1>7, <2>1 DEF LeaveDepth
<1>9. Between(g[j - 1], 1)
  <2>1. (start + 1) - 1 = start
    BY <1>1
  <2> QED
    BY <1>3, <1>8, <2>1, ScanGoesOn DEF LeavesDepth
<1>10. /\ j \in start .. Len(t) /\ j - 1 \in start .. Len(t) /\ (j - 1) + 1 = j
       /\ Len(t) \in j .. Len(t) /\ j \in (start - 1) .. Len(t)
  BY <1>1, <1>3
<1>11. g[j - 1] \in ScanState /\ g[j] = ScanStep(g[j - 1], "close")
  BY <1>3, <1>10, ScanBefore
<1>12. ScanInside(g[j - 1], j - 1)
  BY <1>10, ScanGoesOn
<1>13. g[j - 1].at = j - 1
  BY <1>9, <1>12 DEF ScanInside, Between
<1>14. g[j].found /\ g[j].at = (j - 1) + 1
  BY <1>9, <1>11, <1>13, BetweenStep
<1> QED
  BY <1>10, <1>14, FoundStays

-----------------------------------------------------------------------------
(* The converse: what the scan passes over is balanced                     *)

LEMMA LiteralIsFound ==
    ASSUME NEW t, NEW start, NEW g, Scanned(t, start, g),
           NEW i \in (start + 1) .. Len(t), NEW j \in i .. Len(t), NEW d \in Int,
           Between(g[i - 1], d), t[i] = "quote", ~g[j].inStr, ~g[j].found
    PROVE  \E m \in (i + 1) .. j : IsLiteral(t, i, m) /\ Between(g[m], d)
<1>1. Len(t) \in Nat /\ start \in 1 .. Len(t)
  BY DEF Scanned
<1>2. Within(g[i], d)
  <2>1. i \in start .. Len(t)
    BY <1>1
  <2> QED
    BY <2>1, ScanBefore, BetweenStep
<1> DEFINE Outs == {p \in (i + 1) .. j : ~g[p].inStr}
<1>3. i + 1 \in Nat /\ j \in Nat /\ j \in Outs
  BY <1>1, <1>2 DEF Within
<1>4. PICK m \in Outs : \A p \in Outs : m <= p
  BY <1>3, LeastIn
<1>5. /\ m \in (i + 1) .. j /\ ~g[m].inStr
      /\ \A p \in i .. (m - 1) : g[p].inStr
  BY <1>1, <1>2, <1>4 DEF Within
<1> HIDE DEF Outs
<1>6. ASSUME NEW p \in i .. j PROVE ~g[p].found
  <2>1. p \in (start - 1) .. Len(t) /\ j \in p .. Len(t)
    BY <1>1
  <2> QED
    BY <2>1, FoundStays
<1>7. ASSUME NEW p \in (i + 1) .. m
      PROVE  /\ g[p - 1] \in ScanState /\ g[p] = ScanStep(g[p - 1], t[p])
             /\ g[p - 1].inStr /\ ~g[p - 1].found
  <2>1. p \in start .. Len(t) /\ p - 1 \in i .. (m - 1) /\ p - 1 \in i .. j
    BY <1>1, <1>5
  <2> QED
    BY <1>5, <1>6, <2>1, ScanBefore
<1>8. \A p \in i .. m : g[p].depth = d
  <2> DEFINE S == {p \in i .. m : g[p].depth = d}
  <2>1. i \in S
    BY <1>1, <1>2, <1>5 DEF Within
  <2>2. ASSUME NEW p \in i .. (m - 1), p \in S PROVE p + 1 \in S
    <3>1. p + 1 \in (i + 1) .. m /\ (p + 1) - 1 = p /\ p + 1 \in i .. m
      BY <1>1, <1>5
    <3>2. /\ g[p] \in ScanState /\ g[p + 1] = ScanStep(g[p], t[p + 1])
          /\ g[p].inStr /\ ~g[p].found
      BY <1>7, <3>1
    <3>3. g[p + 1].depth = g[p].depth
      BY <3>2, StepInString
    <3> QED
      BY <2>2, <3>1, <3>3
  <2>3. i \in Int /\ m \in Int
    BY <1>1, <1>5
  <2> HIDE DEF S
  <2>4. i .. m \subseteq S
    BY <2>1, <2>2, <2>3, Upwards
  <2> QED
    BY <2>4 DEF S
<1>9. /\ ~g[m - 1].escaped /\ t[m] = "quote" /\ ~g[m].escaped
  <2>1. m \in (i + 1) .. m
    BY <1>1, <1>5
  <2> QED
    BY <1>5, <1>7, <2>1, StepInString
<1>10. Between(g[m], d)
  <2>1. m \in i .. m /\ m \in i .. j
    BY <1>1, <1>5
  <2> QED
    BY <1>5, <1>6, <1>8, <1>9, <2>1 DEF Between
<1>11. PICK b : IsBodyOf(t, i + 1, m - 1, b)
  <2>1. i + 1 \in Int /\ m - 1 \in Int
    BY <1>1, <1>5
  <2> QED
    BY <2>1, LiteralBody DEF IsBodyOf
<1> DEFINE Ends == {p \in i .. (m - 1) : ~g[p].escaped => b[p + 1]}
<1>12. ASSUME NEW p \in i .. (m - 1), \A q \in (p + 1) .. (m - 1) : q \in Ends
       PROVE  p \in Ends
  <2>1. SUFFICES ASSUME ~g[p].escaped PROVE b[p + 1]
    OBVIOUS
  <2>2. SUFFICES BodyAt(t, m - 1, b, p + 1)
    <3>1. p + 1 \in (i + 1) .. ((m - 1) + 2)
      BY <1>1, <1>5
    <3> QED
      BY <1>11, <3>1 DEF IsBodyOf
  <2>3. CASE p = m - 1
    <3>1. p + 1 = (m - 1) + 1
      BY <1>1, <1>5, <2>3
    <3> QED
      BY <3>1 DEF BodyAt
  <2>4. CASE p # m - 1
    <3>1. /\ p + 1 \in (i + 1) .. m /\ (p + 1) - 1 = p
          /\ p + 1 \in (p + 1) .. (m - 1) /\ p + 1 \in i .. (m - 1) /\ p + 1 <= m - 1
      BY <1>1, <1>5, <2>4
    <3>2. /\ g[p] \in ScanState /\ g[p + 1] = ScanStep(g[p], t[p + 1])
          /\ g[p].inStr /\ ~g[p].found
      BY <1>7, <3>1
    <3>3. g[p + 1].inStr /\ p + 1 \in Ends
      BY <1>5, <1>12, <3>1
    <3>4. t[p + 1] # "quote"
      BY <2>1, <3>2, <3>3, StepInString
    <3>5. CASE t[p + 1] # "backslash"
      <4>1. ~g[p + 1].escaped
        BY <2>1, <3>2, <3>4, <3>5, StepInString
      <4> QED
        BY <3>1, <3>3, <3>4, <3>5, <4>1 DEF BodyAt
    <3>6. CASE t[p + 1] = "backslash"
      <4>1. g[p + 1].escaped
        BY <2>1, <3>2, <3>6, StepInString
      <4>2. p + 1 # m - 1
        BY <1>9, <4>1
      <4>3. /\ p + 2 \in (i + 1) .. m /\ (p + 2) - 1 = p + 1 /\ p + 1 < m - 1
            /\ p + 2 \in (p + 1) .. (m - 1) /\ (p + 2) + 1 = (p + 1) + 2
        BY <1>1, <1>5, <3>1, <4>2
      <4>4. /\ g[p + 1] \in ScanState /\ g[p + 2] = ScanStep(g[p + 1], t[p + 2])
            /\ g[p + 1].inStr /\ ~g[p + 1].found
        BY <1>7, <4>3
      <4>5. ~g[p + 2].escaped
        BY <4>1, <4>4, StepInString
      <4>6. b[(p + 1) + 2]
        BY <1>12, <4>3, <4>5
      <4> QED
        BY <3>6, <4>3, <4>6 DEF BodyAt
    <3> QED
      BY <3>5, <3>6
  <2> QED
    BY <2>3, <2>4
<1>13. i .. (m - 1) \subseteq Ends
  <2>1. i \in Int /\ m - 1 \in Int
    BY <1>1, <1>5
  <2> HIDE DEF Ends
  <2> QED
    BY <1>12, <2>1, Downwards
<1>14. b[i + 1]
  <2>1. i \in i .. (m - 1)
    BY <1>1, <1>5
  <2> QED
    BY <1>2, <1>13, <2>1 DEF Within
<1>15. IsLiteral(t, i, m)
  <2>1. IsLiteralBody(t, i + 1, m - 1)
    BY <1>11, <1>14 DEF IsBodyOf
  <2>2. i < m
    BY <1>1, <1>5
  <2> QED
    BY <1>9, <2>1, <2>2 DEF IsLiteral
<1> QED
  BY <1>5, <1>10, <1>15

(* What the scan passes over, back where it was and never above it, is a   *)
(* sequence of objects, literals and other characters.                     *)
IsPassed(g, f, i, j, d) ==
    /\ d >= 1 /\ Between(g[i - 1], d) /\ Between(g[j], d)
    /\ \A p \in i .. j : g[p].depth >= d
    => f[<<i, j>>]

ArePassed(t, start, g, f, n) ==
    \A i \in (start + 1) .. (Len(t) + 1) : \A j \in (i - 1) .. Len(t) : \A d \in Int :
        j - i < n => IsPassed(g, f, i, j, d)

LEMMA PassedStep ==
    ASSUME NEW t, NEW start, NEW g, Scanned(t, start, g), NEW f, IsGrammar(t, f),
           NEW n \in Nat, ArePassed(t, start, g, f, n)
    PROVE  ArePassed(t, start, g, f, n + 1)
<1>1. Len(t) \in Nat /\ start \in 1 .. Len(t)
  BY DEF Scanned
<1>2. SUFFICES ASSUME NEW i \in (start + 1) .. (Len(t) + 1), NEW j \in (i - 1) .. Len(t),
                      NEW d \in Int, j - i < n + 1,
                      d >= 1, Between(g[i - 1], d), Between(g[j], d),
                      \A p \in i .. j : g[p].depth >= d
               PROVE  f[<<i, j>>]
  BY DEF ArePassed, IsPassed
<1>3. SUFFICES ItemsAt(t, f, <<i, j>>)
  <2>1. <<i, j>> \in Spans(t)
    BY <1>1 DEF Spans
  <2> QED
    BY <2>1, Zenon DEF IsGrammar
<1>4. CASE j < i
  BY <1>4 DEF ItemsAt
<1>5. CASE i <= j
  <2> USE <1>5
  <2>1. /\ i \in (start + 1) .. Len(t) /\ j \in i .. Len(t)
        /\ g[i - 1] \in ScanState /\ g[i] \in ScanState /\ g[i] = ScanStep(g[i - 1], t[i])
    <3>1. i \in start .. Len(t)
      BY <1>1
    <3> QED
      BY <1>1, <3>1, ScanBefore
  <2>2. ASSUME NEW p \in i .. j PROVE ~g[p].found
    <3>1. p \in (start - 1) .. Len(t) /\ j \in p .. Len(t)
      BY <1>1
    <3> QED
      BY <1>2, <3>1, FoundStays DEF Between
  <2>3. t[i] # "close"
    <3>1. SUFFICES ASSUME t[i] = "close" PROVE FALSE
      OBVIOUS
    <3>2. i \in i .. j
      BY <1>1
    <3>3. ~g[i].found /\ g[i].depth >= d
      BY <1>2, <2>2, <3>2
    <3>4. d # 1
      BY <1>2, <2>1, <3>1, <3>3, BetweenStep
    <3>5. g[i].depth = d - 1
      BY <1>2, <2>1, <3>1, <3>4, BetweenStep DEF Between
    <3> QED
      BY <3>3, <3>5
  <2>4. CASE t[i] \notin {"open", "close", "quote"}
    <3>1. Between(g[i], d)
      BY <1>2, <2>1, <2>4, BetweenStep
    <3>2. /\ i + 1 \in (start + 1) .. (Len(t) + 1) /\ j \in ((i + 1) - 1) .. Len(t)
          /\ j - (i + 1) < n /\ (i + 1) - 1 = i
      BY <1>1, <1>2
    <3>3. IsPassed(g, f, i + 1, j, d)
      BY <3>2 DEF ArePassed
    <3>4. \A p \in (i + 1) .. j : g[p].depth >= d
      BY <1>1, <1>2
    <3>5. f[<<i + 1, j>>]
      BY <1>2, <3>1, <3>2, <3>3, <3>4 DEF IsPassed
    <3> QED
      BY <2>4, <3>5 DEF ItemsAt
  <2> DEFINE Unit(m) == \/ IsLiteral(t, i, m)
                        \/ t[i] = "open" /\ t[m] = "close" /\ f[<<i + 1, m - 1>>]
  <2>5. ASSUME NEW m \in (i + 1) .. j, Unit(m), Between(g[m], d)
        PROVE  ItemsAt(t, f, <<i, j>>)
    <3>1. ASSUME m # j PROVE f[<<m + 1, j>>]
      <4>1. /\ m + 1 \in (start + 1) .. (Len(t) + 1) /\ j \in ((m + 1) - 1) .. Len(t)
            /\ j - (m + 1) < n /\ (m + 1) - 1 = m
        BY <1>1, <1>2, <3>1
      <4>2. IsPassed(g, f, m + 1, j, d)
        BY <4>1 DEF ArePassed
      <4>3. \A p \in (m + 1) .. j : g[p].depth >= d
        BY <1>1, <1>2
      <4> QED
        BY <1>2, <2>5, <4>1, <4>2, <4>3 DEF IsPassed
    <3> QED
      BY <2>5, <3>1 DEF ItemsAt
  <2>6. CASE t[i] = "quote"
    <3>1. \E m \in (i + 1) .. j : IsLiteral(t, i, m) /\ Between(g[m], d)
      <4>1. ~g[j].inStr /\ ~g[j].found
        BY <1>2 DEF Between
      <4> QED
        BY <1>2, <2>1, <2>6, <4>1, LiteralIsFound
    <3> QED
      BY <2>5, <3>1
  <2>7. CASE t[i] = "open"
    <3>1. Between(g[i], d + 1) /\ g[i].depth = d + 1
      BY <1>2, <2>1, <2>7, BetweenStep DEF Between
    <3> DEFINE Backs == {p \in (i + 1) .. j : g[p].depth = d}
    <3>2. j \in Backs /\ i + 1 \in Nat /\ j \in Nat
      <4>1. g[j].depth = d /\ d # d + 1
        BY <1>2 DEF Between
      <4>2. j # i
        BY <3>1, <4>1
      <4> QED
        BY <1>1, <4>1, <4>2
    <3>3. PICK m \in Backs : \A p \in Backs : m <= p
      BY <3>2, LeastIn
    <3>4. m \in (i + 1) .. j /\ g[m].depth = d
      BY <3>3
    <3>5. ASSUME NEW p \in i .. (m - 1) PROVE g[p].depth >= d + 1
      <4>1. CASE p = i
        BY <3>1, <4>1
      <4>2. CASE p # i
        <5>1. p \in (i + 1) .. j /\ p \in i .. j /\ ~(m <= p) /\ p \in start .. Len(t)
          BY <1>1, <3>4, <4>2
        <5>2. g[p].depth # d /\ g[p].depth >= d
          BY <1>2, <3>3, <5>1
        <5>3. g[p].depth \in Int
          BY <5>1, ScanBefore DEF ScanState
        <5> QED
          BY <5>2, <5>3
      <4> QED
        BY <4>1, <4>2
    <3> HIDE DEF Backs
    <3>6. /\ m \in start .. Len(t) /\ m - 1 \in i .. (m - 1) /\ m - 1 \in i .. j
          /\ m - 1 \in start .. Len(t) /\ m \in i .. j
      BY <1>1, <3>4
    <3>7. /\ g[m - 1] \in ScanState /\ g[m] = ScanStep(g[m - 1], t[m])
          /\ ~g[m - 1].found /\ ~g[m].found /\ g[m - 1].depth >= d + 1
          /\ g[m - 1].depth \in Int
      BY <2>2, <3>5, <3>6, ScanBefore DEF ScanState
    <3>8. ~g[m - 1].inStr
      BY <3>4, <3>7, StepInString
    <3>9. ~g[m - 1].escaped
      BY <3>6, <3>7, <3>8, ScanGoesOn DEF ScanInside
    <3>10. t[m] = "close" /\ g[m - 1].depth = d + 1 /\ ~g[m].inStr /\ ~g[m].escaped
      <4>1. /\ g[m].inStr <=> t[m] = "quote"
            /\ g[m].escaped = g[m - 1].escaped
            /\ g[m].depth = IF t[m] = "open" THEN g[m - 1].depth + 1
                            ELSE IF t[m] = "close" THEN g[m - 1].depth - 1 ELSE g[m - 1].depth
        BY <3>7, <3>8, StepOutside
      <4> QED
        BY <3>4, <3>7, <3>9, <4>1
    <3>11. Between(g[m], d) /\ Between(g[m - 1], d + 1)
      BY <3>4, <3>7, <3>8, <3>9, <3>10 DEF Between
    <3>12. f[<<i + 1, m - 1>>]
      <4>1. /\ i + 1 \in (start + 1) .. (Len(t) + 1) /\ m - 1 \in ((i + 1) - 1) .. Len(t)
            /\ (m - 1) - (i + 1) < n /\ (i + 1) - 1 = i /\ d + 1 \in Int /\ d + 1 >= 1
        BY <1>1, <1>2, <3>4
      <4>2. IsPassed(g, f, i + 1, m - 1, d + 1)
        BY <4>1 DEF ArePassed
      <4>3. \A p \in (i + 1) .. (m - 1) : p \in i .. (m - 1)
        BY <1>1
      <4>4. \A p \in (i + 1) .. (m - 1) : g[p].depth >= d + 1
        BY <3>5, <4>3
      <4> QED
        BY <3>1, <3>11, <4>1, <4>2, <4>4 DEF IsPassed
    <3> QED
      BY <2>5, <2>7, <3>4, <3>10, <3>11, <3>12
  <2> QED
    BY <2>3, <2>4, <2>6, <2>7
<1> QED
  BY <1>1, <1>4, <1>5

LEMMA FoundIsObject ==
    ASSUME NEW t, NEW start, NEW g, Scanned(t, start, g), g[Len(t)].found
    PROVE  g[Len(t)].at \in 1 .. Len(t) /\ IsObject(t, start, g[Len(t)].at)
<1>1. Len(t) \in Nat /\ start \in 1 .. Len(t) /\ t[start] = "open"
  BY DEF Scanned
<1>2. PICK f : IsGrammar(t, f)
  BY <1>1, GrammarExists
<1> DEFINE Founds == {p \in start .. Len(t) : g[p].found}
<1>3. Len(t) \in Founds /\ start \in Nat
  BY <1>1
<1>4. PICK m \in Founds : \A p \in Founds : m <= p
  BY <1>1, <1>3, LeastIn
<1>5. /\ m \in start .. Len(t) /\ g[m].found
      /\ \A p \in start .. (m - 1) : ~g[p].found
  BY <1>1, <1>4
<1> HIDE DEF Founds
<1>6. m # start
  BY <1>5, ScanGoesOn DEF Between
<1>7. \A p \in start .. (m - 1) : g[p].at = p /\ g[p].depth >= 1 /\ (g[p].escaped => g[p].inStr)
  <2>1. \A p \in start .. (m - 1) : p \in start .. Len(t)
    BY <1>1, <1>5
  <2> QED
    BY <1>5, <2>1, ScanGoesOn DEF ScanInside
<1>8. m - 1 \in start .. (m - 1) /\ start < m
  BY <1>1, <1>5, <1>6
<1>9. /\ g[m - 1] \in ScanState /\ g[m] = ScanStep(g[m - 1], t[m])
      /\ ~g[m - 1].found /\ g[m - 1].at = m - 1 /\ (g[m - 1].escaped => g[m - 1].inStr)
  BY <1>5, <1>7, <1>8, ScanBefore
<1>10. ~g[m - 1].inStr
  BY <1>5, <1>9, StepInString
<1>11. t[m] = "close" /\ g[m - 1].depth = 1 /\ g[m].at = (m - 1) + 1
  BY <1>5, <1>9, <1>10, StepOutside
<1> DEFINE S == {n \in Nat : ArePassed(t, start, g, f, n)}
<1>12. 0 \in S
  <2>1. ASSUME NEW i \in (start + 1) .. (Len(t) + 1), NEW j \in (i - 1) .. Len(t),
               NEW d \in Int, j - i < 0
        PROVE  f[<<i, j>>]
    <3>1. j < i
      BY <1>1, <2>1
    <3>2. <<i, j>> \in Spans(t)
      BY <1>1 DEF Spans
    <3>3. ItemsAt(t, f, <<i, j>>)
      BY <3>1 DEF ItemsAt
    <3> QED
      BY <1>2, <3>2, <3>3, Zenon DEF IsGrammar
  <2> QED
    BY <2>1 DEF ArePassed, IsPassed
<1>13. \A n \in Nat : n \in S => n + 1 \in S
  BY <1>2, PassedStep
<1>14. Nat \subseteq S
  <2> HIDE DEF S
  <2> QED
    BY <1>12, <1>13, InductiveSet
<1>15. ArePassed(t, start, g, f, Len(t))
  BY <1>1, <1>14
<1>16. f[<<start + 1, m - 1>>]
  <2>1. /\ start + 1 \in (start + 1) .. (Len(t) + 1) /\ m - 1 \in ((start + 1) - 1) .. Len(t)
        /\ (m - 1) - (start + 1) < Len(t) /\ 1 \in Int /\ (start + 1) - 1 = start
        /\ 1 >= 1
    BY <1>1, <1>5, <1>8
  <2>2. IsPassed(g, f, start + 1, m - 1, 1)
    BY <1>15, <2>1 DEF ArePassed
  <2>3. Between(g[start], 1) /\ Between(g[m - 1], 1)
    BY <1>9, <1>10, <1>11, ScanGoesOn DEF Between
  <2>4. \A p \in (start + 1) .. (m - 1) : p \in start .. (m - 1)
    BY <1>1
  <2>5. \A p \in (start + 1) .. (m - 1) : g[p].depth >= 1
    BY <1>7, <2>4
  <2> QED
    BY <2>1, <2>2, <2>3, <2>5 DEF IsPassed
<1>17. g[Len(t)] = g[m] /\ g[m].at = m /\ m \in 1 .. Len(t)
  <2>1. m \in (start - 1) .. Len(t) /\ Len(t) \in m .. Len(t) /\ (m - 1) + 1 = m
        /\ m \in 1 .. Len(t)
    BY <1>1, <1>5
  <2> QED
    BY <1>5, <1>11, <2>1, FoundStays
<1>18. IsObject(t, start, m)
  BY <1>1, <1>2, <1>8, <1>11, <1>16, Zenon DEF IsGrammar
<1> QED
  BY <1>17, <1>18

LEMMA IsScanned ==
    ASSUME NEW t, Len(t) \in Nat, NEW start \in 1 .. Len(t), t[start] = "open",
           NEW g, IsScan(t, start, g)
    PROVE  Scanned(t, start, g)
<1>1. /\ g = [i \in (start - 1) .. Len(t) |-> ScanAt(t, start, g, i)]
      /\ \A i \in (start - 1) .. Len(t) : g[i] = ScanAt(t, start, g, i)
  BY DEF IsScan
<1>2. g[start - 1] = Unscanned(start)
  <2>1. start - 1 \in (start - 1) .. Len(t)
    OBVIOUS
  <2> QED
    BY <1>1, <2>1 DEF ScanAt
<1>3. ASSUME NEW i \in start .. Len(t) PROVE g[i] = ScanStep(g[i - 1], t[i])
  <2>1. i \in (start - 1) .. Len(t) /\ i # start - 1
    OBVIOUS
  <2> QED
    BY <1>1, <2>1 DEF ScanAt
<1> DEFINE S == {i \in (start - 1) .. Len(t) : g[i] \in ScanState}
<1>4. start - 1 \in S
  <2>1. Unscanned(start) \in ScanState
    BY DEF Unscanned, ScanState
  <2> QED
    BY <1>2, <2>1
<1>5. ASSUME NEW i \in (start - 1) .. (Len(t) - 1), i \in S PROVE i + 1 \in S
  <2>1. i + 1 \in start .. Len(t) /\ (i + 1) - 1 = i /\ i + 1 \in (start - 1) .. Len(t)
    OBVIOUS
  <2>2. g[i + 1] = ScanStep(g[i], t[i + 1])
    BY <1>3, <2>1
  <2> QED
    BY <1>5, <2>1, <2>2, ScanStepType
<1>6. (start - 1) .. Len(t) \subseteq S
  <2>1. start - 1 \in Int /\ Len(t) \in Int
    OBVIOUS
  <2> HIDE DEF S
  <2> QED
    BY <1>4, <1>5, <2>1, Upwards
<1>7. g \in [(start - 1) .. Len(t) -> ScanState]
  BY <1>1, <1>6
<1> QED
  BY <1>2, <1>3, <1>7 DEF Scanned

-----------------------------------------------------------------------------
(* What it finds                                                           *)

Opens(t) == {i \in DOMAIN t : t[i] = "open"}

LEMMA FirstBalancedScans ==
    ASSUME NEW t, Len(t) \in Nat, DOMAIN t = 1 .. Len(t)
    PROVE  /\ Opens(t) = {} => FirstBalanced(t) = NoSpan
           /\ Opens(t) # {} =>
                 /\ Min(Opens(t)) \in Opens(t)
                 /\ \E g : /\ Scanned(t, Min(Opens(t)), g)
                           /\ FirstBalanced(t) = IF g[Len(t)].found
                                                 THEN <<Min(Opens(t)), g[Len(t)].at>>
                                                 ELSE NoSpan
<1> DEFINE start == SelectInSeq(t, LAMBDA c : c = "open")
           g == CHOOSE f : IsScan(t, start, f)
<1>1. start = IF Opens(t) # {} THEN Min(Opens(t)) ELSE 0
  BY DEF SelectInSeq, Opens
<1>2. FirstBalanced(t) = IF start # 0 /\ g[Len(t)].found
                         THEN <<start, g[Len(t)].at>> ELSE NoSpan
  BY DEF FirstBalanced, IsScan, ScanAt
<1>3. CASE Opens(t) = {}
  BY <1>1, <1>2, <1>3
<1>4. CASE Opens(t) # {}
  <2>1. PICK m \in Opens(t) : \A i \in Opens(t) : m <= i
    <3>1. Opens(t) \subseteq 1 .. Len(t) /\ 1 \in Nat
      BY DEF Opens
    <3> QED
      BY <1>4, <3>1, LeastIn
  <2>2. Min(Opens(t)) \in Opens(t)
    BY <2>1 DEF Min
  <2>3. start = Min(Opens(t)) /\ start \in 1 .. Len(t) /\ t[start] = "open"
    BY <1>1, <1>4, <2>2 DEF Opens
  <2> HIDE DEF start
  <2>4. IsScan(t, start, g)
    BY <2>3, ScanExists
  <2>5. Scanned(t, start, g)
    BY <2>3, <2>4, IsScanned
  <2> HIDE DEF g
  <2>6. FirstBalanced(t) = IF g[Len(t)].found THEN <<start, g[Len(t)].at>> ELSE NoSpan
    BY <1>2, <2>3
  <2> QED
    BY <1>4, <2>2, <2>3, <2>5, <2>6
<1> QED
  BY <1>3, <1>4

(* FirstBalanced against the grammar: what ScanFindsFirst says of a text.  *)
LEMMA BalancedIsFirst ==
    ASSUME NEW t, Len(t) \in Nat, DOMAIN t = 1 .. Len(t)
    PROVE  LET opens == {i \in DOMAIN t : t[i] = "open"}
               start == Min(opens)
               ends  == {j \in DOMAIN t : IsObject(t, start, j)}
           IN  FirstBalanced(t) = IF opens = {} \/ ends = {}
                                  THEN NoSpan ELSE <<start, Min(ends)>>
<1> DEFINE opens == {i \in DOMAIN t : t[i] = "open"}
           start == Min(opens)
           ends == {j \in DOMAIN t : IsObject(t, start, j)}
<1>1. opens = Opens(t)
  BY DEF Opens
<1>2. SUFFICES FirstBalanced(t) = IF opens = {} \/ ends = {} THEN NoSpan ELSE <<start, Min(ends)>>
  OBVIOUS
<1>3. CASE opens = {}
  BY <1>1, <1>3, FirstBalancedScans
<1>4. CASE opens # {}
  <2>1. PICK g : /\ Scanned(t, start, g)
                 /\ FirstBalanced(t) = IF g[Len(t)].found
                                       THEN <<start, g[Len(t)].at>> ELSE NoSpan
    BY <1>1, <1>4, FirstBalancedScans
  <2> HIDE DEF start, opens
  <2>2. ASSUME NEW j \in ends PROVE g[Len(t)].found /\ g[Len(t)].at = j
    BY <2>1, ObjectIsFound
  <2>3. g[Len(t)].found => g[Len(t)].at \in ends
    BY <2>1, FoundIsObject
  <2> HIDE DEF ends
  <2>4. CASE ends = {}
    BY <1>4, <2>1, <2>3, <2>4
  <2>5. CASE ends # {}
    <3>1. g[Len(t)].found /\ ends = {g[Len(t)].at}
      BY <2>2, <2>3, <2>5
    <3>2. Len(t) \in Nat /\ g[Len(t)].at \in Nat
      BY <2>1, FoundIsObject, <3>1
    <3>3. Min(ends) = g[Len(t)].at
      BY <3>1, <3>2 DEF Min
    <3> QED
      BY <1>4, <2>1, <2>5, <3>1, <3>3
  <2> QED
    BY <2>4, <2>5
<1> QED
  BY <1>3, <1>4

(* What was extracted where there is no fenced block is what the scan      *)
(* finds, in a text of bounded length.                                     *)
ScanInv ==
    /\ text \in BoundedSeq(Characters, MaxText)
    /\ span # <<>> /\ Fenced(text) = {} => span = FirstBalanced(text)

(* For texts of any length: with no fenced block to prefer, what           *)
(* first_balanced_object returns is the shortest balanced text from the    *)
(* first brace on, where strings hide their braces and a backslash hides   *)
(* the character after it, and nothing only when there is none.            *)
THEOREM ScanFindsObject == ReplySpec => []ScanFindsFirst
<1>1. ReplyInit => ScanInv
  <2> SUFFICES ASSUME ReplyInit PROVE ScanInv
    OBVIOUS
  <2>1. <<>> \in BoundedSeq(Characters, MaxText)
    <3>1. 0 \in 0 .. MaxText
      BY RepliesAssumption
    <3>2. <<>> \in [1 .. 0 -> Characters]
      OBVIOUS
    <3> QED
      BY <3>1, <3>2 DEF BoundedSeq, SeqOf
  <2> QED
    BY <2>1 DEF ReplyInit, ScanInv
<1>2. ScanInv /\ [ReplyNext]_replyVars => ScanInv'
  <2> SUFFICES ASSUME ScanInv, [ReplyNext]_replyVars PROVE ScanInv'
    OBVIOUS
  <2>1. CASE Extract
    BY <2>1 DEF Extract, Extracted, ScanInv
  <2>2. CASE UNCHANGED <<text, span>>
    BY <2>2 DEF ScanInv
  <2>3. ReplyNext => Extract \/ UNCHANGED <<text, span>>
    BY DEF ReplyNext, PrecheckFires, CompletionFails, Complete
  <2>4. UNCHANGED replyVars => UNCHANGED <<text, span>>
    BY DEF replyVars
  <2> QED
    BY <2>1, <2>2, <2>3, <2>4
<1>3. ScanInv => ScanFindsFirst
  <2> SUFFICES ASSUME ScanInv, span # <<>>, Fenced(text) = {} PROVE ScanFindsFirst
    BY DEF ScanFindsFirst
  <2>1. PICK m \in 0 .. MaxText : text \in [1 .. m -> Characters]
    BY DEF ScanInv, BoundedSeq, SeqOf
  <2>2. Len(text) \in Nat /\ DOMAIN text = 1 .. Len(text)
    BY <2>1, RepliesAssumption
  <2>3. span = FirstBalanced(text)
    BY DEF ScanInv
  <2> QED
    BY <2>2, <2>3, BalancedIsFirst DEF ScanFindsFirst
<1> QED
  BY <1>1, <1>2, <1>3, PTL DEF ReplySpec
=============================================================================
