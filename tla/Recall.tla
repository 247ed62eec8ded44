------------------------------- MODULE Recall -------------------------------
(***************************************************************************)
(* Which memories a goal recalls, and how much of each: the search of      *)
(* MemoryRepository, the score of memory/ranking.py, and its greedy        *)
(* selection within a character budget, as RecallService runs them on one  *)
(* snapshot of the store.  What happens to the store meanwhile is in       *)
(* MemoryStore.                                                            *)
(*                                                                         *)
(* A memory's text is reduced to what the code asks of it: how many of the *)
(* goal's terms it has, whether one occurs in it at all, the set of words  *)
(* of its lesson and the lesson's length.  Scores are exact: in units of   *)
(* 1 / (100 * Scale), where Scale is a common multiple of the numbers the  *)
(* code divides by.                                                        *)
(***************************************************************************)
EXTENDS Integers, Sequences, FiniteSets

CONSTANTS
    Library,        \* the memories a store may hold, records as in IsMemory
    MaxStored,      \* bound on the memories in the store
    Terms,          \* distinct terms of the goal
    Ks,             \* values of memory_recall_k
    CharBudgets,    \* values of memory_recall_char_budget
    MinScore,       \* memory_recall_min_score, in percent
    MinPerItem,     \* _MIN_PER_ITEM_CHARS
    Scale

(* _W_RELEVANCE and the other weights in percent, _OUTCOME_BIAS in tenths. *)
WRelevance == 60
WSalience == 15
WRecency == 15
WOutcome == 10

Outcomes == {"done", "partial", "failed", "cancelled"}

Bias(outcome) ==
    CASE outcome = "done"      -> 10
      [] outcome = "partial"   -> 6
      [] outcome = "failed"    -> 4
      [] outcome = "cancelled" -> 0

PinnedFloor_None == 0
PinnedFloor == 1000

IsMemory(m) ==
    /\ m.id \in Nat /\ m.created \in Nat /\ m.salience \in Nat
    /\ m.active \in BOOLEAN /\ m.pinned \in BOOLEAN
    /\ m.outcome \in Outcomes
    /\ m.hits \in 0 .. Terms        \* terms among its tokens
    /\ m.within \in BOOLEAN         \* some term occurs in its text
    /\ IsFiniteSet(m.words)         \* _tokens of its lesson
    /\ m.length \in Nat             \* of its lesson, 0 if it has none

ASSUME RecallAssumption ==
    /\ \A m \in Library : IsMemory(m)
    /\ \A m \in Library : m.hits > 0 => m.within
    /\ Terms \in Nat /\ Ks \subseteq Nat /\ CharBudgets \subseteq Nat
    /\ MinScore \in Nat /\ MinPerItem \in Nat \ {0, 1}
    /\ Scale \in Nat \ {0} /\ MaxStored \in Nat

VARIABLES
    store,      \* the memories, with distinct ids
    fts,        \* the build of SQLite has FTS5
    k,          \* memory_recall_k
    charBudget, \* memory_recall_char_budget
    pc,         \* "search", "select", "done"
    pool,       \* the candidates the search found
    rest,       \* those the loop has not come to
    picked,     \* the lessons selected, in order: memory and length
    used        \* characters they take

given == <<store, fts, k, charBudget>>
recallVars == <<given, pc, pool, rest, picked, used>>

-----------------------------------------------------------------------------
(* MemoryRepository.search                                                 *)

Matching == {m \in store : m.active /\ m.hits > 0}
Containing == {m \in store : m.active /\ m.within}

Limited(C, S) ==
    /\ C \subseteq S
    /\ \/ C = S /\ Cardinality(S) <= 3 * k
       \/ Cardinality(C) = 3 * k

(* bm25 may rank the matching rows any way; LIKE takes the newest.         *)
Found(C) ==
    IF fts THEN Limited(C, Matching)
           ELSE /\ Limited(C, Containing)
                /\ \A m \in C, n \in Containing \ C : m.created >= n.created

-----------------------------------------------------------------------------
(* score_candidates                                                        *)

Highest(S) == CHOOSE v \in S : \A u \in S : u <= v
Lowest(S)  == CHOOSE v \in S : \A u \in S : v <= u

(* _minmax of one value among those of all candidates.                     *)
MinMax(v, S) ==
    IF Highest(S) = Lowest(S)
    THEN Scale
    ELSE ((v - Lowest(S)) * Scale) \div (Highest(S) - Lowest(S))

Total(m) ==
    WRelevance * ((m.hits * Scale) \div Terms)
        + WSalience * MinMax(m.salience, {n.salience : n \in pool})
        + WRecency * MinMax(m.created, {n.created : n \in pool})
        + WOutcome * ((Bias(m.outcome) * Scale) \div 10)
        + (IF m.pinned THEN PinnedFloor * 100 * Scale ELSE 0)

(* The sort key: score, then newest, then id.                              *)
Before(m, n) ==
    \/ Total(m) > Total(n)
    \/ Total(m) = Total(n) /\ m.created > n.created
    \/ Total(m) = Total(n) /\ m.created = n.created /\ m.id < n.id

-----------------------------------------------------------------------------
(* select_within_budget                                                    *)

Larger(a, b)  == IF a >= b THEN a ELSE b
Smaller(a, b) == IF a <= b THEN a ELSE b

PerItem == Larger(charBudget \div k, MinPerItem)

Passes(m) == m.pinned \/ m.hits * 100 >= MinScore * Terms

(* _jaccard at or above _REDUNDANCY_THRESHOLD.                             *)
Alike(a, b) ==
    /\ a # {} /\ b # {}
    /\ 10 * Cardinality(a \cap b) >= 8 * Cardinality(a \cup b)

Redundant_WithLast(m) ==
    picked # <<>> /\ Alike(m.words, picked[Len(picked)].memory.words)

Redundant(m) ==
    \E i \in DOMAIN picked : Alike(m.words, picked[i].memory.words)

(* _truncate: the lengths a lesson may have when cut to max.  The cut      *)
(* makes room for the ellipsis, except where one character is all there is *)
(* room for; rstrip may take more.                                         *)
Truncated_Wide(length, max) ==
    IF length <= max THEN {length} ELSE 2 .. (max + 1)

Truncated(length, max) ==
    IF length <= max THEN {length} ELSE 2 .. (Larger(1, max - 1) + 1)

Remaining == charBudget - used

(* The candidate the loop comes to next.                                   *)
IsNext(m) ==
    /\ pc = "select"
    /\ Len(picked) < k
    /\ m \in rest
    /\ \A n \in rest \ {m} : Before(m, n)

Usable(m) == Passes(m) /\ m.length > 0 /\ ~Redundant(m)

Pass(m) ==
    /\ IsNext(m)
    /\ ~Usable(m)
    /\ rest' = rest \ {m}
    /\ UNCHANGED <<given, pc, pool, picked, used>>

Pick(m) ==
    /\ IsNext(m)
    /\ Usable(m)
    /\ Remaining > 0
    /\ \E length \in Truncated(m.length, Smaller(PerItem, Remaining)) :
           /\ picked' = Append(picked, [memory |-> m, length |-> length])
           /\ used' = used + length
    /\ rest' = rest \ {m}
    /\ UNCHANGED <<given, pc, pool>>

Stop ==
    /\ pc = "select"
    /\ \/ rest = {}
       \/ Len(picked) >= k
       \/ Remaining <= 0 /\ \E m \in rest : IsNext(m) /\ Usable(m)
    /\ pc' = "done"
    /\ UNCHANGED <<given, pool, rest, picked, used>>

-----------------------------------------------------------------------------
RecallInit ==
    /\ store \in SUBSET Library
    /\ IsFiniteSet(store) /\ Cardinality(store) <= MaxStored
    /\ \A m, n \in store : m.id = n.id => m = n
    /\ fts \in BOOLEAN /\ k \in Ks /\ charBudget \in CharBudgets
    /\ pc = "search"
    /\ pool = {} /\ rest = {} /\ picked = <<>> /\ used = 0

(* Nothing is recalled when recall is off or the goal has no terms.        *)
RecallNothing ==
    /\ pc = "search"
    /\ k = 0 \/ Terms = 0 \/ charBudget = 0
    /\ pc' = "done"
    /\ UNCHANGED <<given, pool, rest, picked, used>>

Search ==
    /\ pc = "search"
    /\ k > 0 /\ Terms > 0 /\ charBudget > 0
    /\ \E C \in SUBSET store : Found(C) /\ pool' = C
    /\ rest' = pool'
    /\ pc' = "select"
    /\ UNCHANGED <<given, picked, used>>

RecallNext ==
    \/ RecallNothing \/ Search \/ Stop
    \/ \E m \in store : Pass(m) \/ Pick(m)

RecallSpec == RecallInit /\ [][RecallNext]_recallVars

-----------------------------------------------------------------------------
RecallTypeOK ==
    /\ store \subseteq Library
    /\ fts \in BOOLEAN /\ k \in Ks /\ charBudget \in CharBudgets
    /\ pc \in {"search", "select", "done"}
    /\ pool \subseteq store /\ rest \subseteq pool
    /\ picked \in Seq([memory : store, length : Nat])
    /\ used \in Nat

(* The lessons injected into a prompt fit the budget: at most k, and at    *)
(* most one character too many in all.  It is the ellipsis of the last     *)
(* lesson, cut to the one character left, and comes only of a budget that  *)
(* is not large enough for k lessons of the minimum share.                 *)
LessonsFit ==
    /\ Len(picked) <= k
    /\ used <= charBudget + 1
    /\ used > charBudget => picked # <<>> /\ picked[Len(picked)].length = 2
    /\ k > 0 /\ k * PerItem <= charBudget => used <= charBudget

(* The recall is the one its rules ask for: what is picked passed the      *)
(* gate, is in score order and unlike whatever else is picked; and for     *)
(* each candidate left out there is a reason.                              *)
Picks == {picked[i].memory : i \in DOMAIN picked}

LeftOutFor(m) ==
    \/ ~Passes(m)
    \/ m.length = 0
    \/ \E n \in Picks : Before(n, m) /\ Alike(m.words, n.words)
    \/ used >= charBudget /\ \A n \in Picks : Before(n, m)
    \/ Len(picked) = k /\ \A n \in Picks : Before(n, m)

SelectionJustified ==
    pc = "done" =>
        /\ \A i \in DOMAIN picked :
              /\ Passes(picked[i].memory) /\ picked[i].memory.length > 0
              /\ \A j \in 1 .. (i - 1) :
                    /\ Before(picked[j].memory, picked[i].memory)
                    /\ ~Alike(picked[i].memory.words, picked[j].memory.words)
        /\ \A m \in pool \ Picks : LeftOutFor(m)

(* A pinned memory the search found gives way to pinned ones only, however *)
(* the others score.                                                       *)
PinnedFirst ==
    pc = "done" =>
        \A m \in pool \ Picks :
            m.pinned =>
                \/ \A n \in Picks : n.pinned
                \/ m.length = 0
                \/ \E n \in Picks : n.pinned /\ Alike(m.words, n.words)

=============================================================================
