--------------------------- MODULE RunLedgerProofs ---------------------------
(***************************************************************************)
(* The rows of a run, its ledger and the page that follows it, for every   *)
(* value of the constants: no event says what the rows do not hold, the    *)
(* ledger of a run that ended tells all of them, the page shows what the   *)
(* ledger tells, and to its clients the run is a RunLifecycle.  Then the   *)
(* same run across crashes, database faults and the reconciler's work.     *)
(*                                                                         *)
(* All rests on one habit of the manager: it commits a row and appends the *)
(* event about it right after, with nothing in between, so that rows and   *)
(* ledger are at most one event apart, the one at the head of todo.        *)
(***************************************************************************)
EXTENDS RunRecovery, BrowserView, RunManagerProofs, SequenceTheorems

-----------------------------------------------------------------------------
(* Commits and the events that announce them                               *)

PlanEventTypes == {"plan.created", "plan.replanned"}
ClosingTypes == {"run.completed", "run.cancelled", "run.failed"}

(* The events about rows; the others follow no commit of their own.        *)
TellingTypes ==
    TaskEventTypes \cup PlanEventTypes \cup ClosingTypes \cup {"answer.completed"}

FreeTypes == SilentEventTypes \cup {"run.created", "run.started", "answer.token"}

Says(c, types) == c.op = "emit" /\ c.event.type \in types

Telling(c)     == c.op = "emitSkipped" \/ Says(c, TellingTypes)
LastWord(c)    == Says(c, ClosingTypes)
Silent(c)      == Says(c, {"memory.recalled", "memory.written"})
GivesAnswer(c) == c.op \in {"answer", "done"}

Span(x) == x.start .. (x.start + x.count - 1)

(* Commit e tells what commit c did.  The full answer is announced before  *)
(* the completion that was stored with it.                                 *)
Announces(e, c) ==
    \/ /\ c.op = "mark" /\ Says(e, TaskEventTypes)
       /\ e.event.index = c.index /\ TaskEventStatus(e.event.type) = c.status
    \/ c.op = "drop" /\ e.op = "emitSkipped" /\ e.tasks = c.tasks
    \/ /\ c.op = "add" /\ Says(e, PlanEventTypes)
       /\ e.event.start = c.start /\ e.event.count = c.count
       /\ e.event.type = "plan.created" => c.start = 0
    \/ c.op = "answer" /\ Says(e, {"answer.completed"}) /\ e.event.text = "partial"
    \/ c.op = "done" /\ Says(e, {"answer.completed"}) /\ e.event.text = "full"
    \/ /\ Says(c, {"answer.completed"}) /\ c.event.text = "full"
       /\ Says(e, {"run.completed"})
    \/ c.op = "failed" /\ Says(e, {"run.failed"}) /\ e.event.error = c.error
    \/ c.op = "status" /\ c.status = "cancelled" /\ Says(e, {"run.cancelled"})

(* Commits that must be announced.  A task that runs again is not.         *)
Public(c) ==
    \/ c.op \in {"drop", "add", "answer", "done", "failed"}
    \/ c.op = "mark" /\ c.status # "running"
    \/ c.op = "status" /\ c.status = "cancelled"
    \/ Says(c, {"answer.completed"}) /\ c.event.text = "full"

Followed(s, k) == k + 1 \in 1 .. Len(s) /\ Announces(s[k + 1], s[k])
Preceded(s, k) == k - 1 \in 1 .. Len(s) /\ Announces(s[k], s[k - 1])

(* A list of commits in which rows and events come in pairs; the event at  *)
(* its head may be about a row committed before.                           *)
Paired(s) ==
    \A k \in 1 .. Len(s) :
        /\ Public(s[k]) => Followed(s, k)
        /\ Telling(s[k]) => k = 1 \/ Preceded(s, k)
        /\ LastWord(s[k]) => k = Len(s)
        /\ s[k].op = "status" => s[k].status \in {"planning", "running", "cancelled"}

(* A list as it is decided on begins with no such event.                   *)
Fresh(s) == Paired(s) /\ \A k \in 1 .. Len(s) : k = 1 => ~Telling(s[k])

AnswersOnce(s) ==
    \A k, m \in 1 .. Len(s) : GivesAnswer(s[k]) /\ GivesAnswer(s[m]) => k = m

NoAnswer(s) == \A k \in 1 .. Len(s) : ~GivesAnswer(s[k])
HasClose(s) == \E k \in 1 .. Len(s) : Closes(s[k])
SetsOnly(s, S) == \A k \in 1 .. Len(s) : s[k].op = "status" => s[k].status \in S

(* A task runs again, and no event says so.                                *)
Unsaid(s, k) == s[k].op = "mark" /\ s[k].status = "running" /\ ~Followed(s, k)
AllSaid(s)   == \A k \in 1 .. Len(s) : ~Unsaid(s, k)

TouchesIn(s, S) == \A k \in 1 .. Len(s) : Touches(s[k]) \subseteq S
EndsTask(s, i) ==
    \E k \in 1 .. Len(s) :
        s[k].op = "mark" /\ s[k].index = i /\ s[k].status \in TerminalTaskStatuses

(* The manager never fails a run as interrupted: the reconciler does.      *)
Ours(s) ==
    \A k \in 1 .. Len(s) : Closes(s[k]) /\ s[k].op = "failed" => s[k].error # "interrupted"

Orderly(s) == Fresh(s) /\ ClosesLast(s) /\ AnswersOnce(s)

(* Lists that leave the outcome of the run alone, and lists that end it.   *)
InnerList(s) ==
    Orderly(s) /\ NoClose(s) /\ NoAnswer(s) /\ SetsOnly(s, {}) /\ AllSaid(s)
EndList(s) ==
    Orderly(s) /\ HasClose(s) /\ SetsOnly(s, {"cancelled"}) /\ AllSaid(s) /\ Ours(s)

-----------------------------------------------------------------------------
(* The nature of each commit                                               *)

(* It is no business of a run's outcome; nor of anything else.             *)
Inner(c) == ~Closes(c) /\ ~Writes(c) /\ ~GivesAnswer(c)
Neutral(c) ==
    Inner(c) /\ ~Telling(c) /\ ~Public(c) /\ ~LastWord(c) /\ c.op \notin {"mark", "status"}

LEMMA RowNature ==
    /\ \A i, t : LET c == MarkTask(i, t) IN
          /\ Inner(c) /\ ~Telling(c) /\ ~LastWord(c) /\ Touches(c) = {i}
          /\ c.op = "mark" /\ c.index = i /\ c.status = t /\ (Public(c) <=> t # "running")
    /\ \A i, n : Neutral(RecordAttempt(i, n)) /\ Touches(RecordAttempt(i, n)) = {i}
    /\ Neutral(SkipPending) /\ Touches(SkipPending) = {}
    /\ Neutral(RecordReflection) /\ Touches(RecordReflection) = {}
    /\ \A S : LET c == DropTasks(S) IN
          /\ Inner(c) /\ ~Telling(c) /\ ~LastWord(c) /\ Public(c) /\ Touches(c) = S
          /\ c.op = "drop" /\ c.tasks = S
    /\ \A m, n : LET c == AddTasks(m, n) IN
          /\ Inner(c) /\ ~Telling(c) /\ ~LastWord(c) /\ Public(c) /\ Touches(c) = {}
          /\ c.op = "add" /\ c.start = m /\ c.count = n
<1> USE DEF Inner, Neutral, Closes, Writes, GivesAnswer, Telling, Public, LastWord, Says
<1>1. \A i, t : LET c == MarkTask(i, t) IN
          /\ Inner(c) /\ ~Telling(c) /\ ~LastWord(c) /\ Touches(c) = {i}
          /\ c.op = "mark" /\ c.index = i /\ c.status = t /\ (Public(c) <=> t # "running")
  BY DEF MarkTask, Touches
<1>2. \A i, n : Neutral(RecordAttempt(i, n)) /\ Touches(RecordAttempt(i, n)) = {i}
  BY DEF RecordAttempt, Touches
<1>3. /\ Neutral(SkipPending) /\ Touches(SkipPending) = {}
      /\ Neutral(RecordReflection) /\ Touches(RecordReflection) = {}
  BY DEF SkipPending, RecordReflection, Touches
<1>4. \A S : LET c == DropTasks(S) IN
          /\ Inner(c) /\ ~Telling(c) /\ ~LastWord(c) /\ Public(c) /\ Touches(c) = S
          /\ c.op = "drop" /\ c.tasks = S
  BY DEF DropTasks, Touches
<1>5. \A m, n : LET c == AddTasks(m, n) IN
          /\ Inner(c) /\ ~Telling(c) /\ ~LastWord(c) /\ Public(c) /\ Touches(c) = {}
          /\ c.op = "add" /\ c.start = m /\ c.count = n
  BY DEF AddTasks, Touches
<1> HIDE DEF Inner, Neutral, Closes, Writes, GivesAnswer, Telling, Public, LastWord, Says
<1> QED
  BY <1>1, <1>2, <1>3, <1>4, <1>5

LEMMA OutcomeNature ==
    /\ \A x \in {"planning", "running"} : LET c == SetStatus(x) IN
          /\ ~Closes(c) /\ ~GivesAnswer(c) /\ ~Telling(c) /\ ~Public(c) /\ ~LastWord(c)
          /\ c.op = "status" /\ c.status = x /\ Touches(c) = {}
    /\ LET c == SetStatus("cancelled") IN
          /\ Closes(c) /\ ~GivesAnswer(c) /\ ~Telling(c) /\ Public(c) /\ ~LastWord(c)
          /\ c.op = "status" /\ c.status = "cancelled" /\ Touches(c) = {}
    /\ \A e : LET c == SetFailed(e) IN
          /\ Closes(c) /\ ~GivesAnswer(c) /\ ~Telling(c) /\ Public(c) /\ ~LastWord(c)
          /\ c.op = "failed" /\ c.error = e /\ Touches(c) = {}
    /\ LET c == SetDone IN
          /\ Closes(c) /\ GivesAnswer(c) /\ ~Telling(c) /\ Public(c) /\ ~LastWord(c)
          /\ c.op = "done" /\ Touches(c) = {}
    /\ LET c == SetPartialAnswer IN
          /\ ~Closes(c) /\ GivesAnswer(c) /\ ~Telling(c) /\ Public(c) /\ ~LastWord(c)
          /\ c.op = "answer" /\ Touches(c) = {}
<1> USE DEF Closes, Writes, GivesAnswer, Telling, Public, LastWord, Says, Touches
<1>1. \A x \in {"planning", "running"} : LET c == SetStatus(x) IN
          /\ ~Closes(c) /\ ~GivesAnswer(c) /\ ~Telling(c) /\ ~Public(c) /\ ~LastWord(c)
          /\ c.op = "status" /\ c.status = x /\ Touches(c) = {}
  BY DEF SetStatus, TerminalRunStatuses
<1>2. LET c == SetStatus("cancelled") IN
          /\ Closes(c) /\ ~GivesAnswer(c) /\ ~Telling(c) /\ Public(c) /\ ~LastWord(c)
          /\ c.op = "status" /\ c.status = "cancelled" /\ Touches(c) = {}
  BY DEF SetStatus, TerminalRunStatuses
<1>3. \A e : LET c == SetFailed(e) IN
          /\ Closes(c) /\ ~GivesAnswer(c) /\ ~Telling(c) /\ Public(c) /\ ~LastWord(c)
          /\ c.op = "failed" /\ c.error = e /\ Touches(c) = {}
  BY DEF SetFailed
<1>4. LET c == SetDone IN
          /\ Closes(c) /\ GivesAnswer(c) /\ ~Telling(c) /\ Public(c) /\ ~LastWord(c)
          /\ c.op = "done" /\ Touches(c) = {}
  BY DEF SetDone
<1>5. LET c == SetPartialAnswer IN
          /\ ~Closes(c) /\ GivesAnswer(c) /\ ~Telling(c) /\ Public(c) /\ ~LastWord(c)
          /\ c.op = "answer" /\ Touches(c) = {}
  BY DEF SetPartialAnswer
<1> QED
  BY <1>1, <1>2, <1>3, <1>4, <1>5, Zenon

(* An event is neither a mark nor a write; it may be the last word.        *)
Word(c) ==
    Inner(c) /\ Telling(c) /\ ~Public(c) /\ c.op \notin {"mark", "status"} /\ Touches(c) = {}

LEMMA EventNature ==
    /\ \A t \in FreeTypes : Neutral(Emit(Plain(t))) /\ Touches(Emit(Plain(t))) = {}
    /\ \A t \in TaskEventTypes : \A i : LET c == Emit(TaskEvent(t, i)) IN
          Word(c) /\ ~LastWord(c)
    /\ \A S : Word(EmitSkipped(S)) /\ ~LastWord(EmitSkipped(S))
    /\ \A m, n : LET c == Emit(PlanEvent(m, n)) IN Word(c) /\ ~LastWord(c)
    /\ \A S, m, n : LET c == Emit(ReplanEvent(S, m, n)) IN Word(c) /\ ~LastWord(c)
    /\ LET c == Emit([type |-> "answer.completed", text |-> "partial"]) IN
          Word(c) /\ ~LastWord(c)
    /\ LET c == Emit([type |-> "answer.completed", text |-> "full"]) IN
          /\ Inner(c) /\ Telling(c) /\ Public(c) /\ ~LastWord(c)
          /\ c.op = "emit" /\ Touches(c) = {}
    /\ \A e : Word(Emit([type |-> "run.failed", error |-> e]))
    /\ Word(Emit(Plain("run.cancelled"))) /\ Word(Emit(Plain("run.completed")))
<1> USE DEF Inner, Neutral, Word, Closes, Writes, GivesAnswer, Telling, Public, LastWord,
            Says, Touches, Emit, TellingTypes, ClosingTypes, PlanEventTypes
<1>1. \A t \in FreeTypes : Neutral(Emit(Plain(t))) /\ Touches(Emit(Plain(t))) = {}
  BY DEF Plain, FreeTypes, SilentEventTypes, TaskEventTypes
<1>2. \A t \in TaskEventTypes : \A i : LET c == Emit(TaskEvent(t, i)) IN
          Word(c) /\ ~LastWord(c)
  BY DEF TaskEvent, TaskEventTypes
<1>3. \A S : Word(EmitSkipped(S)) /\ ~LastWord(EmitSkipped(S))
  BY DEF EmitSkipped
<1>4. \A m, n : LET c == Emit(PlanEvent(m, n)) IN Word(c) /\ ~LastWord(c)
  BY DEF PlanEvent
<1>5. \A S, m, n : LET c == Emit(ReplanEvent(S, m, n)) IN Word(c) /\ ~LastWord(c)
  BY DEF ReplanEvent
<1>6. LET c == Emit([type |-> "answer.completed", text |-> "partial"]) IN
          Word(c) /\ ~LastWord(c)
  OBVIOUS
<1>7. LET c == Emit([type |-> "answer.completed", text |-> "full"]) IN
          /\ Inner(c) /\ Telling(c) /\ Public(c) /\ ~LastWord(c)
          /\ c.op = "emit" /\ Touches(c) = {}
  OBVIOUS
<1>8. \A e : Word(Emit([type |-> "run.failed", error |-> e]))
  OBVIOUS
<1>9. Word(Emit(Plain("run.cancelled"))) /\ Word(Emit(Plain("run.completed")))
  BY DEF Plain
<1> HIDE DEF Inner, Neutral, Word, Closes, Writes, GivesAnswer, Telling, Public, LastWord,
             Says, Touches, Emit, TellingTypes, ClosingTypes, PlanEventTypes
<1> QED
  BY <1>1, <1>2, <1>3, <1>4, <1>5, <1>6, <1>7, <1>8, <1>9, Zenon

(* The pairs the manager commits.                                          *)
LEMMA Pairs ==
    /\ \A i : /\ Announces(Emit(TaskEvent("task.started", i)), MarkTask(i, "running"))
              /\ Announces(Emit(TaskEvent("task.completed", i)), MarkTask(i, "done"))
              /\ Announces(Emit(TaskEvent("task.failed", i)), MarkTask(i, "failed"))
              /\ Announces(Emit(TaskEvent("task.retrying", i)), MarkTask(i, "retrying"))
              /\ Announces(Emit(TaskEvent("task.cancelled", i)), MarkTask(i, "cancelled"))
    /\ \A S : Announces(EmitSkipped(S), DropTasks(S))
    /\ \A n : Announces(Emit(PlanEvent(0, n)), AddTasks(0, n))
    /\ \A S, m, n : Announces(Emit(ReplanEvent(S, m, n)), AddTasks(m, n))
    /\ Announces(Emit([type |-> "answer.completed", text |-> "partial"]), SetPartialAnswer)
    /\ Announces(Emit([type |-> "answer.completed", text |-> "full"]), SetDone)
    /\ Announces(Emit(Plain("run.completed")),
                 Emit([type |-> "answer.completed", text |-> "full"]))
    /\ \A e : Announces(Emit([type |-> "run.failed", error |-> e]), SetFailed(e))
    /\ Announces(Emit(Plain("run.cancelled")), SetStatus("cancelled"))
<1> USE DEF Announces, Says, Emit
<1>1. \A i : /\ Announces(Emit(TaskEvent("task.started", i)), MarkTask(i, "running"))
             /\ Announces(Emit(TaskEvent("task.completed", i)), MarkTask(i, "done"))
             /\ Announces(Emit(TaskEvent("task.failed", i)), MarkTask(i, "failed"))
             /\ Announces(Emit(TaskEvent("task.retrying", i)), MarkTask(i, "retrying"))
             /\ Announces(Emit(TaskEvent("task.cancelled", i)), MarkTask(i, "cancelled"))
  BY DEF TaskEvent, MarkTask, TaskEventTypes, TaskEventStatus
<1>2. \A S : Announces(EmitSkipped(S), DropTasks(S))
  BY DEF EmitSkipped, DropTasks
<1>3. \A n : Announces(Emit(PlanEvent(0, n)), AddTasks(0, n))
  BY DEF PlanEvent, AddTasks, PlanEventTypes
<1>4. \A S, m, n : Announces(Emit(ReplanEvent(S, m, n)), AddTasks(m, n))
  BY DEF ReplanEvent, AddTasks, PlanEventTypes
<1>5. /\ Announces(Emit([type |-> "answer.completed", text |-> "partial"]), SetPartialAnswer)
      /\ Announces(Emit([type |-> "answer.completed", text |-> "full"]), SetDone)
      /\ Announces(Emit(Plain("run.completed")),
                   Emit([type |-> "answer.completed", text |-> "full"]))
  BY DEF SetPartialAnswer, SetDone, Plain
<1>6. /\ \A e : Announces(Emit([type |-> "run.failed", error |-> e]), SetFailed(e))
      /\ Announces(Emit(Plain("run.cancelled")), SetStatus("cancelled"))
  BY DEF SetFailed, SetStatus, Plain
<1> QED
  BY <1>1, <1>2, <1>3, <1>4, <1>5, <1>6, Zenon

-----------------------------------------------------------------------------
(* The lists the manager decides on                                        *)

LEMMA InnerLists ==
    /\ InnerList(<<>>)
    /\ \A t \in FreeTypes : InnerList(<<Emit(Plain(t))>>)
    /\ \A n : InnerList(<<AddTasks(0, n), Emit(PlanEvent(0, n))>>)
    /\ \A i, n : InnerList(<<RecordAttempt(i, n)>>)
    /\ InnerList(<<RecordReflection, Emit(Plain("task.reflected"))>>)
    /\ \A i : /\ InnerList(<<MarkTask(i, "running"), Emit(TaskEvent("task.started", i))>>)
              /\ InnerList(<<MarkTask(i, "retrying"), Emit(TaskEvent("task.retrying", i))>>)
              /\ InnerList(CompleteTask(i))
    /\ \A S, m, n : InnerList(<<DropTasks(S), EmitSkipped(S), AddTasks(m, n),
                                Emit(ReplanEvent(S, m, n))>>)
<1> USE DEF InnerList, Orderly, Fresh, Paired, Followed, Preceded, ClosesLast, AnswersOnce,
            NoClose, NoAnswer, SetsOnly, AllSaid, Unsaid, Inner, Neutral, Word
<1>1. InnerList(<<>>)
  OBVIOUS
<1>2. \A t \in FreeTypes : InnerList(<<Emit(Plain(t))>>)
  BY EventNature
<1>3. ASSUME NEW n PROVE InnerList(<<AddTasks(0, n), Emit(PlanEvent(0, n))>>)
  BY RowNature, EventNature, Pairs
<1>4. \A i, n : InnerList(<<RecordAttempt(i, n)>>)
  BY RowNature
<1>5. InnerList(<<RecordReflection, Emit(Plain("task.reflected"))>>)
  <2>1. "task.reflected" \in FreeTypes
    BY DEF FreeTypes, SilentEventTypes
  <2> QED
    BY <2>1, RowNature, EventNature
<1>6. ASSUME NEW i
      PROVE  InnerList(<<MarkTask(i, "running"), Emit(TaskEvent("task.started", i))>>)
  BY RowNature, EventNature, Pairs DEF TaskEventTypes
<1>7. ASSUME NEW i
      PROVE  InnerList(<<MarkTask(i, "retrying"), Emit(TaskEvent("task.retrying", i))>>)
  BY RowNature, EventNature, Pairs DEF TaskEventTypes
<1>8. ASSUME NEW i PROVE InnerList(CompleteTask(i))
  BY RowNature, EventNature, Pairs DEF TaskEventTypes, CompleteTask
<1>9. ASSUME NEW S, NEW m, NEW n, NEW s,
             s = <<DropTasks(S), EmitSkipped(S), AddTasks(m, n), Emit(ReplanEvent(S, m, n))>>
      PROVE  InnerList(s)
  <2>1. /\ Len(s) = 4
        /\ s[1] = DropTasks(S) /\ s[2] = EmitSkipped(S)
        /\ s[3] = AddTasks(m, n) /\ s[4] = Emit(ReplanEvent(S, m, n))
    BY <1>9
  <2> QED
    BY <2>1, RowNature, EventNature, Pairs
<1> HIDE DEF InnerList
<1> QED
  BY <1>1, <1>2, <1>3, <1>4, <1>5, <1>6, <1>7, <1>8, <1>9

(* The lists that move the run on, or run a task again.                    *)
LEMMA MovingLists ==
    /\ LET s == <<SetStatus("planning"), Emit(Plain("run.started"))>> IN
          /\ Orderly(s) /\ NoClose(s) /\ NoAnswer(s) /\ SetsOnly(s, {"planning"})
          /\ AllSaid(s) /\ TouchesIn(s, {}) /\ Len(s) = 2 /\ s[1] = SetStatus("planning")
          /\ s[2].op # "status"
    /\ LET s == <<SetStatus("running")>> IN
          /\ Orderly(s) /\ NoClose(s) /\ NoAnswer(s) /\ SetsOnly(s, {"running"})
          /\ AllSaid(s) /\ TouchesIn(s, {}) /\ Len(s) = 1 /\ s[1] = SetStatus("running")
    /\ \A i : LET s == <<MarkTask(i, "running")>> IN
          /\ Orderly(s) /\ NoClose(s) /\ NoAnswer(s) /\ SetsOnly(s, {})
          /\ TouchesIn(s, {i})
<1> USE DEF Orderly, Fresh, Paired, Followed, Preceded, ClosesLast, AnswersOnce,
            NoClose, NoAnswer, SetsOnly, AllSaid, Unsaid, Inner, Neutral, TouchesIn
<1>1. ASSUME NEW s, s = <<SetStatus("planning"), Emit(Plain("run.started"))>>
      PROVE  /\ Orderly(s) /\ NoClose(s) /\ NoAnswer(s) /\ SetsOnly(s, {"planning"})
             /\ AllSaid(s) /\ TouchesIn(s, {}) /\ Len(s) = 2 /\ s[1] = SetStatus("planning")
             /\ s[2].op # "status"
  BY <1>1, OutcomeNature, EventNature DEF FreeTypes
<1>2. ASSUME NEW s, s = <<SetStatus("running")>>
      PROVE  /\ Orderly(s) /\ NoClose(s) /\ NoAnswer(s) /\ SetsOnly(s, {"running"})
             /\ AllSaid(s) /\ TouchesIn(s, {}) /\ Len(s) = 1 /\ s[1] = SetStatus("running")
  BY <1>2, OutcomeNature
<1>3. ASSUME NEW i, NEW s, s = <<MarkTask(i, "running")>>
      PROVE  /\ Orderly(s) /\ NoClose(s) /\ NoAnswer(s) /\ SetsOnly(s, {})
             /\ TouchesIn(s, {i})
  BY <1>3, RowNature
<1> HIDE DEF Orderly, NoClose, NoAnswer, SetsOnly, AllSaid, TouchesIn
<1> QED
  BY <1>1, <1>2, <1>3

(* What the inner lists touch.                                             *)
LEMMA InnerTouches ==
    /\ TouchesIn(<<>>, {})
    /\ \A t \in FreeTypes : TouchesIn(<<Emit(Plain(t))>>, {})
    /\ \A n : TouchesIn(<<AddTasks(0, n), Emit(PlanEvent(0, n))>>, {})
    /\ \A i, n : TouchesIn(<<RecordAttempt(i, n)>>, {i})
    /\ TouchesIn(<<RecordReflection, Emit(Plain("task.reflected"))>>, {})
    /\ \A i : /\ TouchesIn(<<MarkTask(i, "running"), Emit(TaskEvent("task.started", i))>>, {i})
              /\ LET s == <<MarkTask(i, "retrying"), Emit(TaskEvent("task.retrying", i))>> IN
                    TouchesIn(s, {i}) /\ Len(s) = 2 /\ s[1] = MarkTask(i, "retrying")
              /\ TouchesIn(CompleteTask(i), {i}) /\ EndsTask(CompleteTask(i), i)
    /\ \A S, m, n : LET s == <<DropTasks(S), EmitSkipped(S), AddTasks(m, n),
                               Emit(ReplanEvent(S, m, n))>> IN
          TouchesIn(s, S) /\ Len(s) = 4 /\ s[1] = DropTasks(S) /\ s[3] = AddTasks(m, n)
    /\ \A n : LET s == <<AddTasks(0, n), Emit(PlanEvent(0, n))>> IN
          Len(s) = 2 /\ s[1] = AddTasks(0, n)
<1> USE DEF TouchesIn, Neutral, Word
<1>1. TouchesIn(<<>>, {}) /\ \A t \in FreeTypes : TouchesIn(<<Emit(Plain(t))>>, {})
  BY EventNature
<1>2. ASSUME NEW n
      PROVE  LET s == <<AddTasks(0, n), Emit(PlanEvent(0, n))>> IN
                TouchesIn(s, {}) /\ Len(s) = 2 /\ s[1] = AddTasks(0, n)
  BY RowNature, EventNature
<1>3. ASSUME NEW i, NEW n PROVE TouchesIn(<<RecordAttempt(i, n)>>, {i})
  BY RowNature
<1>4. TouchesIn(<<RecordReflection, Emit(Plain("task.reflected"))>>, {})
  BY RowNature, EventNature DEF FreeTypes, SilentEventTypes
<1>5. ASSUME NEW i
      PROVE  TouchesIn(<<MarkTask(i, "running"), Emit(TaskEvent("task.started", i))>>, {i})
  BY RowNature, EventNature DEF TaskEventTypes
<1>6. ASSUME NEW i
      PROVE  LET s == <<MarkTask(i, "retrying"), Emit(TaskEvent("task.retrying", i))>> IN
                TouchesIn(s, {i}) /\ Len(s) = 2 /\ s[1] = MarkTask(i, "retrying")
  BY RowNature, EventNature DEF TaskEventTypes
<1>7. ASSUME NEW i PROVE TouchesIn(CompleteTask(i), {i}) /\ EndsTask(CompleteTask(i), i)
  <2>1. PICK s : s = CompleteTask(i)
    OBVIOUS
  <2>2. Len(s) = 2 /\ s[1] = MarkTask(i, "done") /\ s[2] = Emit(TaskEvent("task.completed", i))
    BY <2>1 DEF CompleteTask
  <2> QED
    BY <2>1, <2>2, RowNature, EventNature
    DEF TaskEventTypes, EndsTask, TerminalTaskStatuses
<1>8. ASSUME NEW S, NEW m, NEW n, NEW s,
             s = <<DropTasks(S), EmitSkipped(S), AddTasks(m, n), Emit(ReplanEvent(S, m, n))>>
      PROVE  TouchesIn(s, S) /\ Len(s) = 4 /\ s[1] = DropTasks(S) /\ s[3] = AddTasks(m, n)
  <2>1. /\ Len(s) = 4
        /\ s[1] = DropTasks(S) /\ s[2] = EmitSkipped(S)
        /\ s[3] = AddTasks(m, n) /\ s[4] = Emit(ReplanEvent(S, m, n))
    BY <1>8
  <2> QED
    BY <2>1, RowNature, EventNature
<1> HIDE DEF TouchesIn
<1> QED
  BY <1>1, <1>2, <1>3, <1>4, <1>5, <1>6, <1>7, <1>8

(* The finalizers, spelled out with their events.                          *)
LEMMA FinalizersSpelled ==
    /\ \A s : s = FinalizeCancelledRun(TRUE) =>
          /\ Len(s) = 5
          /\ s[1] = MarkTask(cur, "cancelled") /\ s[2] = Emit(TaskEvent("task.cancelled", cur))
          /\ s[3] = SkipPending
          /\ s[4] = SetStatus("cancelled") /\ s[5] = Emit(Plain("run.cancelled"))
    /\ \A s : s = FinalizeCancelledRun(FALSE) =>
          /\ Len(s) = 3
          /\ s[1] = SkipPending
          /\ s[2] = SetStatus("cancelled") /\ s[3] = Emit(Plain("run.cancelled"))
    /\ ~cancel => \A s : s = FinalizeBudgetExceeded(TRUE) =>
          /\ Len(s) = 6
          /\ s[1] = Emit(Plain("budget.exceeded"))
          /\ s[2] = MarkTask(cur, "failed") /\ s[3] = Emit(TaskEvent("task.failed", cur))
          /\ s[4] = SkipPending
          /\ s[5] = SetFailed("budget")
          /\ s[6] = Emit([type |-> "run.failed", error |-> "budget"])
    /\ ~cancel => \A s : s = FinalizeBudgetExceeded(FALSE) =>
          /\ Len(s) = 4
          /\ s[1] = Emit(Plain("budget.exceeded")) /\ s[2] = SkipPending
          /\ s[3] = SetFailed("budget")
          /\ s[4] = Emit([type |-> "run.failed", error |-> "budget"])
  BY DEF FinalizeCancelledRun, CancelTask, FinalizeCancelled, FinalizeBudgetExceeded,
         FailTask, FinalizeFailed

LEMMA FailuresSpelled ==
    /\ \A s : s = FailTask(cur) \o <<SkipPending>> =>
          /\ Len(s) = 3
          /\ s[1] = MarkTask(cur, "failed") /\ s[2] = Emit(TaskEvent("task.failed", cur))
          /\ s[3] = SkipPending
    /\ \A s : s = FailTask(cur) \o <<SkipPending>> \o FinalizeFailed("aborted") =>
          /\ Len(s) = 5
          /\ s[1] = MarkTask(cur, "failed") /\ s[2] = Emit(TaskEvent("task.failed", cur))
          /\ s[3] = SkipPending
          /\ s[4] = SetFailed("aborted")
          /\ s[5] = Emit([type |-> "run.failed", error |-> "aborted"])
    /\ \A e, s : s = FailTask(cur) \o FinalizeFailed(e) =>
          /\ Len(s) = 4
          /\ s[1] = MarkTask(cur, "failed") /\ s[2] = Emit(TaskEvent("task.failed", cur))
          /\ s[3] = SetFailed(e) /\ s[4] = Emit([type |-> "run.failed", error |-> e])
    /\ \A s : s = <<SetPartialAnswer, Emit([type |-> "answer.completed", text |-> "partial"])>>
                      \o FinalizeFailed("aborted") =>
          /\ Len(s) = 4
          /\ s[1] = SetPartialAnswer
          /\ s[2] = Emit([type |-> "answer.completed", text |-> "partial"])
          /\ s[3] = SetFailed("aborted")
          /\ s[4] = Emit([type |-> "run.failed", error |-> "aborted"])
  BY DEF FailTask, FinalizeFailed

LEMMA EndLists ==
    /\ \A e : e # "interrupted" =>
          /\ EndList(FinalizeFailed(e)) /\ NoAnswer(FinalizeFailed(e))
          /\ TouchesIn(FinalizeFailed(e), {})
    /\ EndList(FinalizeCancelled) /\ NoAnswer(FinalizeCancelled)
    /\ TouchesIn(FinalizeCancelled, {})
    /\ EndList(FinalizeDone) /\ TouchesIn(FinalizeDone, {})
    /\ LET s == <<SetPartialAnswer, Emit([type |-> "answer.completed", text |-> "partial"])>>
                    \o FinalizeFailed("aborted") IN
          EndList(s) /\ TouchesIn(s, {})
<1> USE DEF EndList, Orderly, Fresh, Paired, Followed, Preceded, ClosesLast, AnswersOnce,
            HasClose, NoAnswer, SetsOnly, AllSaid, Unsaid, Inner, Neutral, Word, TouchesIn,
            Writes, Ours
<1>1. ASSUME NEW e, NEW s, e # "interrupted", s = FinalizeFailed(e)
      PROVE  EndList(s) /\ NoAnswer(s) /\ TouchesIn(s, {})
  <2>1. Len(s) = 2 /\ s[1] = SetFailed(e) /\ s[2] = Emit([type |-> "run.failed", error |-> e])
    BY <1>1 DEF FinalizeFailed
  <2>2. s[1].error # "interrupted" /\ ~Closes(s[2])
    BY <1>1, <2>1, OutcomeNature, EventNature
  <2> QED
    BY <2>1, <2>2, OutcomeNature, EventNature, Pairs
<1>2. ASSUME NEW s, s = FinalizeCancelled
      PROVE  EndList(s) /\ NoAnswer(s) /\ TouchesIn(s, {})
  <2>1. Len(s) = 2 /\ s[1] = SetStatus("cancelled") /\ s[2] = Emit(Plain("run.cancelled"))
    BY <1>2 DEF FinalizeCancelled
  <2> QED
    BY <2>1, OutcomeNature, EventNature, Pairs
<1>3. ASSUME NEW s, s = FinalizeDone PROVE EndList(s) /\ TouchesIn(s, {})
  <2>1. /\ Len(s) = 3 /\ s[1] = SetDone
        /\ s[2] = Emit([type |-> "answer.completed", text |-> "full"])
        /\ s[3] = Emit(Plain("run.completed"))
    BY <1>3 DEF FinalizeDone
  <2> QED
    BY <2>1, OutcomeNature, EventNature, Pairs
<1>4. ASSUME NEW s,
             s = <<SetPartialAnswer, Emit([type |-> "answer.completed", text |-> "partial"])>>
                    \o FinalizeFailed("aborted")
      PROVE  EndList(s) /\ TouchesIn(s, {})
  <2>1. /\ Len(s) = 4
        /\ s[1] = SetPartialAnswer
        /\ s[2] = Emit([type |-> "answer.completed", text |-> "partial"])
        /\ s[3] = SetFailed("aborted")
        /\ s[4] = Emit([type |-> "run.failed", error |-> "aborted"])
    BY <1>4, FailuresSpelled, Zenon
  <2> QED
    BY <2>1, OutcomeNature, EventNature, Pairs
<1> HIDE DEF EndList, NoAnswer, TouchesIn
<1> QED
  BY <1>1, <1>2, <1>3, <1>4

(* The lists that end the current task.                                    *)
LEMMA TaskEndLists ==
    /\ LET s == FailTask(cur) \o <<SkipPending>> IN
          InnerList(s) /\ TouchesIn(s, {cur}) /\ EndsTask(s, cur)
    /\ LET s == FailTask(cur) \o <<SkipPending>> \o FinalizeFailed("aborted") IN
          EndList(s) /\ NoAnswer(s) /\ TouchesIn(s, {cur}) /\ EndsTask(s, cur)
    /\ \A e : e # "interrupted" =>
          LET s == FailTask(cur) \o FinalizeFailed(e) IN
          EndList(s) /\ NoAnswer(s) /\ TouchesIn(s, {cur}) /\ EndsTask(s, cur)
    /\ LET s == FinalizeCancelledRun(TRUE) IN
          EndList(s) /\ NoAnswer(s) /\ TouchesIn(s, {cur}) /\ EndsTask(s, cur)
    /\ LET s == FinalizeCancelledRun(FALSE) IN
          EndList(s) /\ NoAnswer(s) /\ TouchesIn(s, {})
    /\ LET s == FinalizeBudgetExceeded(TRUE) IN
          EndList(s) /\ NoAnswer(s) /\ TouchesIn(s, {cur}) /\ EndsTask(s, cur)
    /\ LET s == FinalizeBudgetExceeded(FALSE) IN
          EndList(s) /\ NoAnswer(s) /\ TouchesIn(s, {})
<1> USE DEF InnerList, EndList, Orderly, Fresh, Paired, Followed, Preceded, ClosesLast,
            AnswersOnce, HasClose, NoClose, NoAnswer, SetsOnly, AllSaid, Unsaid, Inner,
            Neutral, Word, TouchesIn, EndsTask, TerminalTaskStatuses, TaskEventTypes, Ours
<1>1. ASSUME NEW s, s = FailTask(cur) \o <<SkipPending>>
      PROVE  InnerList(s) /\ TouchesIn(s, {cur}) /\ EndsTask(s, cur)
  <2>1. /\ Len(s) = 3
        /\ s[1] = MarkTask(cur, "failed") /\ s[2] = Emit(TaskEvent("task.failed", cur))
        /\ s[3] = SkipPending
    BY <1>1, FailuresSpelled, Zenon
  <2> QED
    BY <2>1, RowNature, EventNature, Pairs
<1>2. ASSUME NEW s, s = FailTask(cur) \o <<SkipPending>> \o FinalizeFailed("aborted")
      PROVE  EndList(s) /\ NoAnswer(s) /\ TouchesIn(s, {cur}) /\ EndsTask(s, cur)
  <2>1. /\ Len(s) = 5
        /\ s[1] = MarkTask(cur, "failed") /\ s[2] = Emit(TaskEvent("task.failed", cur))
        /\ s[3] = SkipPending
        /\ s[4] = SetFailed("aborted")
        /\ s[5] = Emit([type |-> "run.failed", error |-> "aborted"])
    BY <1>2, FailuresSpelled, Zenon
  <2> QED
    BY <2>1, RowNature, OutcomeNature, EventNature, Pairs
<1>3. ASSUME NEW e, NEW s, e # "interrupted", s = FailTask(cur) \o FinalizeFailed(e)
      PROVE  EndList(s) /\ NoAnswer(s) /\ TouchesIn(s, {cur}) /\ EndsTask(s, cur)
  <2>1. /\ Len(s) = 4
        /\ s[1] = MarkTask(cur, "failed") /\ s[2] = Emit(TaskEvent("task.failed", cur))
        /\ s[3] = SetFailed(e) /\ s[4] = Emit([type |-> "run.failed", error |-> e])
    BY <1>3, FailuresSpelled, Zenon
  <2>2. s[3].error # "interrupted" /\ ~Closes(s[1]) /\ ~Closes(s[2]) /\ ~Closes(s[4])
    BY <1>3, <2>1, RowNature, OutcomeNature, EventNature
  <2> QED
    BY <2>1, <2>2, RowNature, OutcomeNature, EventNature, Pairs
<1>4. ASSUME NEW s, s = FinalizeCancelledRun(TRUE)
      PROVE  EndList(s) /\ NoAnswer(s) /\ TouchesIn(s, {cur}) /\ EndsTask(s, cur)
  <2>1. /\ Len(s) = 5
        /\ s[1] = MarkTask(cur, "cancelled") /\ s[2] = Emit(TaskEvent("task.cancelled", cur))
        /\ s[3] = SkipPending
        /\ s[4] = SetStatus("cancelled") /\ s[5] = Emit(Plain("run.cancelled"))
    BY <1>4, FinalizersSpelled, Zenon
  <2> QED
    BY <2>1, RowNature, OutcomeNature, EventNature, Pairs
<1>5. ASSUME NEW s, s = FinalizeCancelledRun(FALSE)
      PROVE  EndList(s) /\ NoAnswer(s) /\ TouchesIn(s, {})
  <2>1. /\ Len(s) = 3
        /\ s[1] = SkipPending
        /\ s[2] = SetStatus("cancelled") /\ s[3] = Emit(Plain("run.cancelled"))
    BY <1>5, FinalizersSpelled, Zenon
  <2> QED
    BY <2>1, RowNature, OutcomeNature, EventNature, Pairs
<1>6. "budget.exceeded" \in FreeTypes
  BY DEF FreeTypes, SilentEventTypes
<1>7. ASSUME ~cancel, NEW s, s = FinalizeBudgetExceeded(TRUE)
      PROVE  EndList(s) /\ NoAnswer(s) /\ TouchesIn(s, {cur}) /\ EndsTask(s, cur)
  <2>1. /\ Len(s) = 6
        /\ s[1] = Emit(Plain("budget.exceeded"))
        /\ s[2] = MarkTask(cur, "failed") /\ s[3] = Emit(TaskEvent("task.failed", cur))
        /\ s[4] = SkipPending
        /\ s[5] = SetFailed("budget")
        /\ s[6] = Emit([type |-> "run.failed", error |-> "budget"])
    BY <1>7, FinalizersSpelled, Zenon
  <2> QED
    BY <1>6, <2>1, RowNature, OutcomeNature, EventNature, Pairs
<1>8. ASSUME ~cancel, NEW s, s = FinalizeBudgetExceeded(FALSE)
      PROVE  EndList(s) /\ NoAnswer(s) /\ TouchesIn(s, {})
  <2>1. /\ Len(s) = 4
        /\ s[1] = Emit(Plain("budget.exceeded")) /\ s[2] = SkipPending
        /\ s[3] = SetFailed("budget")
        /\ s[4] = Emit([type |-> "run.failed", error |-> "budget"])
    BY <1>8, FinalizersSpelled, Zenon
  <2> QED
    BY <1>6, <2>1, RowNature, OutcomeNature, EventNature, Pairs
<1> HIDE DEF InnerList, EndList, NoAnswer, TouchesIn, EndsTask
<1>9. LET s == FinalizeBudgetExceeded(TRUE) IN
          EndList(s) /\ NoAnswer(s) /\ TouchesIn(s, {cur}) /\ EndsTask(s, cur)
  <2>1. CASE cancel
    BY <1>4, <2>1 DEF FinalizeBudgetExceeded
  <2>2. CASE ~cancel
    BY <1>7, <2>2
  <2> QED
    BY <2>1, <2>2
<1>10. LET s == FinalizeBudgetExceeded(FALSE) IN
          EndList(s) /\ NoAnswer(s) /\ TouchesIn(s, {})
  <2>1. CASE cancel
    BY <1>5, <2>1 DEF FinalizeBudgetExceeded
  <2>2. CASE ~cancel
    BY <1>8, <2>2
  <2> QED
    BY <2>1, <2>2
<1> QED
  BY <1>1, <1>2, <1>3, <1>4, <1>5, <1>9, <1>10

-----------------------------------------------------------------------------
(* What the plan guarantees                                                *)

(* Every task still to be worked through has its row, or will have it when *)
(* the plan waiting to be stored is; and no commit is about a missing row. *)
Rowed(i) == i \in DOMAIN tasks \/ \E c \in Waiting : c.op = "add" /\ i \in Span(c)

PlanInv ==
    /\ pc \in AtRest \cup InFlight => \A i \in cur .. last : Rowed(i)
    /\ pc \in InFlight => cur <= last
    /\ \A c \in Waiting : Touches(c) \subseteq DOMAIN tasks

LEMMA CurrentHasRow ==
    ASSUME TypeOK, PlanInv, todo = <<>>
    PROVE  /\ pc \in AtRest \cup InFlight => cur .. last \subseteq DOMAIN tasks
           /\ pc \in AtRest \cup InFlight /\ cur <= last => cur \in DOMAIN tasks
           /\ pc \in InFlight => cur <= last /\ cur \in DOMAIN tasks
<1>1. Waiting = {}
  BY DEF Waiting
<1>2. cur \in Nat /\ last \in Nat
  BY DEF TypeOK, LocalOK
<1> QED
  BY <1>1, <1>2 DEF PlanInv, Rowed

-----------------------------------------------------------------------------
(* Decisions                                                               *)

(* What the list of a decision is like, given where it is taken and where  *)
(* it goes.                                                                *)
ListFits(from, to, s) ==
    /\ Orderly(s) /\ Ours(s)
    /\ to \notin ClosedPoints => NoClose(s) /\ NoAnswer(s)
    /\ from \in ClosedPoints => to \in ClosedPoints /\ \A k \in 1 .. Len(s) : Silent(s[k])
    /\ from \notin ClosedPoints /\ to \in ClosedPoints => HasClose(s)
    /\ to = "ended" => s = <<>>
    /\ NoAnswer(s) \/ from \in {"partial", "stream"}

(* How it changes what is left of the plan, and leaves the current task.   *)
Drops(s, i) == \E k \in 1 .. Len(s) : s[k].op = "drop" /\ i \in s[k].tasks
Adds(s, i)  == \E k \in 1 .. Len(s) : s[k].op = "add" /\ i \in Span(s[k])

(* An unexpected error alone leaves the current task as it stands.         *)
Breaks(s) == \E k \in 1 .. Len(s) : s[k] = SetFailed("unexpected")
LeavesBroken(to, s) == to = "handled" /\ cur' = cur /\ Breaks(s)

PlanFits(from, to, s) ==
    /\ TouchesIn(s, DOMAIN tasks)
    /\ to \in AtRest \cup InFlight =>
          \A i \in cur' .. last' :
              (from \in AtRest \cup InFlight /\ i \in cur .. last) \/ Adds(s, i)
    /\ to \in InFlight => cur' <= last'
    /\ from \in InFlight /\ to \notin InFlight =>
          EndsTask(s, cur) \/ Drops(s, cur) \/ LeavesBroken(to, s)
    /\ from \in ClosedPoints => cur' = cur
    /\ to = "retry" => cur' = cur /\ \E k \in 1 .. Len(s) : s[k] = MarkTask(cur, "retrying")
    /\ \A k \in 1 .. Len(s) : Unsaid(s, k) => from = "retry" /\ s[k].index = cur

(* How the statuses it sets go with the way it takes.                      *)
Drafting == {"recall", "plan", "planned"}
Working  == InFlight \cup Over \cup {"partial"}

SetsOnce(s) == \A k, m \in 1 .. Len(s) : s[k].op = "status" /\ s[m].op = "status" => k = m
Sets(s, x)  == \E k \in 1 .. Len(s) : s[k] = SetStatus(x)

WayFits(from, to, s) ==
    /\ SetsOnce(s)
    /\ to \notin {"none", "register"} /\ from # "ended"
    /\ to = "start" => from = "register" /\ SetsOnly(s, {})
    /\ to = "planning" => from = "start" /\ SetsOnly(s, {"planning"}) /\ Sets(s, "planning")
    /\ to \in Drafting => from \in {"planning", "recall", "plan"} /\ SetsOnly(s, {})
    /\ to = "task" =>
          \/ from = "planned" /\ SetsOnly(s, {"running"}) /\ Sets(s, "running")
          \/ from \in InFlight /\ SetsOnly(s, {})
    /\ to \in Working => from \in {"task"} \cup InFlight \cup Over /\ SetsOnly(s, {})
    /\ to \in ClosedPoints => from \notin {"none", "register", "start"}
                              /\ SetsOnly(s, {"cancelled"})

Decision(from, to, s) ==
    /\ Decide(from, to, s)
    /\ ListFits(from, to, s) /\ PlanFits(from, to, s) /\ WayFits(from, to, s)

Decides == \E from, to, s : Decision(from, to, s)

(* A decision goes on, with a list that leaves the outcome alone.          *)
GoesOn(from, to) ==
    \/ from = "register" /\ to = "start"
    \/ from \in {"planning", "recall", "plan"} /\ to \in {"recall", "plan"}
    \/ from \in InFlight /\ to \in {"task", "partial"}
    \/ from = "task" /\ to = "execute"
    \/ from \in InFlight /\ to \in InFlight
    \/ from \in {"task"} \cup Over /\ to \in Over

LEMMA DecideOn ==
    ASSUME TypeOK, PlanInv, NEW from, NEW to, NEW s, Decide(from, to, s), GoesOn(from, to),
           InnerList(s), NEW S, TouchesIn(s, S), S \subseteq DOMAIN tasks,
           cur' \in {cur, cur + 1}, last' = last,
           to \in InFlight => cur' = cur,
           from = "task" /\ to = "execute" => cur <= last,
           from \in InFlight /\ to \notin InFlight => EndsTask(s, cur),
           to = "retry" => \E k \in 1 .. Len(s) : s[k] = MarkTask(cur, "retrying")
    PROVE  Decides
<1>1. pc = from /\ todo = <<>>
  BY DEF Decide
<1>2. cur \in Nat /\ last \in Nat
  BY DEF TypeOK, LocalOK
<1>3. to \notin ClosedPoints /\ from \notin ClosedPoints
  BY DEF GoesOn, ClosedPoints, InFlight, Over
<1>4. ListFits(from, to, s)
  BY <1>3 DEF ListFits, InnerList, ClosedPoints, NoClose, Ours
<1>5. from \in InFlight => cur <= last
  BY <1>1, CurrentHasRow
<1>6. PlanFits(from, to, s)
  <2>1. TouchesIn(s, DOMAIN tasks)
    BY DEF TouchesIn
  <2>2. to \in AtRest \cup InFlight => from \in AtRest \cup InFlight
    BY DEF GoesOn, AtRest, InFlight, Over
  <2>3. \A i \in cur' .. last' : i \in cur .. last
    BY <1>2
  <2>4. to \in InFlight => cur' <= last'
    BY <1>5 DEF GoesOn, InFlight, Over
  <2>5. to = "retry" => cur' = cur
    BY DEF InFlight
  <2> QED
    BY <1>3, <2>1, <2>2, <2>3, <2>4, <2>5 DEF PlanFits, InnerList, AllSaid
<1>7. WayFits(from, to, s)
  <2>1. SetsOnce(s)
    BY DEF SetsOnce, InnerList, SetsOnly
  <2> QED
    BY <2>1
    DEF WayFits, GoesOn, InnerList, ClosedPoints, InFlight, Over, Drafting, Working
<1> QED
  BY <1>4, <1>6, <1>7 DEF Decides, Decision

(* A decision ends the run.                                                *)
LEMMA DecideEnd ==
    ASSUME TypeOK, PlanInv, NEW from, NEW to \in {"memory", "finished", "handled"}, NEW s,
           Decide(from, to, s), EndList(s),
           from \notin ClosedPoints \cup {"none", "register", "start"},
           NoAnswer(s) \/ from \in {"partial", "stream"},
           NEW S, TouchesIn(s, S), S \subseteq DOMAIN tasks,
           from \in InFlight => EndsTask(s, cur) \/ LeavesBroken(to, s)
    PROVE  Decides
<1>1. to \in ClosedPoints /\ to # "ended"
  BY DEF ClosedPoints
<1>2. ListFits(from, to, s)
  BY <1>1 DEF ListFits, EndList
<1>3. PlanFits(from, to, s)
  <2>1. TouchesIn(s, DOMAIN tasks)
    BY DEF TouchesIn
  <2>2. to \notin AtRest \cup InFlight
    BY DEF AtRest, InFlight
  <2> QED
    BY <2>1, <2>2 DEF PlanFits, EndList, AllSaid
<1>4. WayFits(from, to, s)
  <2>1. SetsOnce(s)
    <3> SUFFICES ASSUME NEW k \in 1 .. Len(s), NEW m \in 1 .. Len(s),
                        s[k].op = "status", s[m].op = "status"
                 PROVE  k = m
      BY DEF SetsOnce
    <3>1. Closes(s[k]) /\ Closes(s[m]) /\ Writes(s[k]) /\ Writes(s[m])
      BY DEF EndList, SetsOnly, Closes, Writes, TerminalRunStatuses
    <3> QED
      BY <3>1 DEF EndList, Orderly, ClosesLast
  <2>2. to \notin {"none", "register", "start", "planning", "task"} \cup Drafting \cup Working
    BY DEF InFlight, Over, Drafting, Working
  <2>3. from # "ended"
    BY DEF ClosedPoints
  <2> QED
    BY <1>1, <2>1, <2>2, <2>3 DEF WayFits, EndList
<1> QED
  BY <1>2, <1>3, <1>4 DEF Decides, Decision

(* So do the two teardowns, with the current task or without.              *)
LEMMA DecideTeardown ==
    ASSUME TypeOK, PlanInv, NEW from, NEW to \in {"memory", "finished", "handled"},
           from \notin ClosedPoints \cup {"none", "register", "start"},
           \/ /\ from \in InFlight
              /\ \/ Decide(from, to, FinalizeCancelledRun(TRUE))
                 \/ Decide(from, to, FinalizeBudgetExceeded(TRUE))
           \/ /\ from \notin InFlight
              /\ \/ Decide(from, to, FinalizeCancelledRun(FALSE))
                 \/ Decide(from, to, FinalizeBudgetExceeded(FALSE))
    PROVE  Decides
<1>1. ASSUME NEW s, Decide(from, to, s), EndList(s), NoAnswer(s),
             \/ from \in InFlight /\ TouchesIn(s, {cur}) /\ EndsTask(s, cur)
             \/ from \notin InFlight /\ TouchesIn(s, {})
      PROVE  Decides
  <2>1. pc = from /\ todo = <<>>
    BY <1>1 DEF Decide
  <2>2. CASE from \in InFlight
    <3>1. {cur} \subseteq DOMAIN tasks
      BY <2>1, <2>2, CurrentHasRow
    <3> QED
      BY <1>1, <2>2, <3>1, DecideEnd
  <2>3. CASE from \notin InFlight
    BY <1>1, <2>3, DecideEnd
  <2> QED
    BY <2>2, <2>3
<1> QED
  BY <1>1, TaskEndLists

(* The three decisions that set a status or lay out the plan.              *)
LEMMA DecideToPlan ==
    ASSUME Decide("start", "planning", <<SetStatus("planning"), Emit(Plain("run.started"))>>)
    PROVE  Decides
<1> DEFINE s == <<SetStatus("planning"), Emit(Plain("run.started"))>>
<1>1. /\ Orderly(s) /\ NoClose(s) /\ NoAnswer(s) /\ SetsOnly(s, {"planning"})
      /\ AllSaid(s) /\ TouchesIn(s, {}) /\ Len(s) = 2 /\ s[1] = SetStatus("planning")
      /\ s[2].op # "status"
  BY MovingLists
<1> HIDE DEF s
<1>2. ListFits("start", "planning", s)
  BY <1>1 DEF ListFits, ClosedPoints, NoClose, Ours
<1>3. PlanFits("start", "planning", s)
  BY <1>1 DEF PlanFits, AllSaid, TouchesIn, AtRest, InFlight, ClosedPoints
<1>4. WayFits("start", "planning", s)
  BY <1>1 DEF WayFits, SetsOnce, Sets, ClosedPoints, InFlight, Over, Drafting, Working
<1> QED
  BY <1>2, <1>3, <1>4 DEF Decides, Decision, s

LEMMA DecideThePlan ==
    ASSUME TypeOK, NEW n \in Nat,
           Decide("plan", "planned", <<AddTasks(0, n), Emit(PlanEvent(0, n))>>),
           cur' = cur, last' = n - 1
    PROVE  Decides
<1> DEFINE s == <<AddTasks(0, n), Emit(PlanEvent(0, n))>>
<1>1. InnerList(s) /\ TouchesIn(s, {}) /\ Len(s) = 2 /\ s[1] = AddTasks(0, n)
  BY InnerLists, InnerTouches
<1> HIDE DEF s
<1>2. ListFits("plan", "planned", s)
  BY <1>1 DEF ListFits, InnerList, ClosedPoints, NoClose, Ours
<1>3. PlanFits("plan", "planned", s)
  <2>1. s[1].op = "add" /\ s[1].start = 0 /\ s[1].count = n
    BY <1>1, RowNature
  <2>2. \A i \in cur' .. last' : Adds(s, i)
    BY <1>1, <2>1 DEF Adds, Span, TypeOK, LocalOK
  <2> QED
    BY <1>1, <2>2 DEF PlanFits, InnerList, AllSaid, TouchesIn, AtRest, InFlight
<1>4. WayFits("plan", "planned", s)
  BY <1>1 DEF WayFits, InnerList, SetsOnly, SetsOnce, ClosedPoints, InFlight, Over, Drafting,
     Working
<1> QED
  BY <1>2, <1>3, <1>4 DEF Decides, Decision, s

LEMMA DecideToRun ==
    ASSUME Decide("planned", "task", <<SetStatus("running")>>), cur' = cur, last' = last
    PROVE  Decides
<1> DEFINE s == <<SetStatus("running")>>
<1>1. /\ Orderly(s) /\ NoClose(s) /\ NoAnswer(s) /\ SetsOnly(s, {"running"})
      /\ AllSaid(s) /\ TouchesIn(s, {}) /\ Len(s) = 1 /\ s[1] = SetStatus("running")
  BY MovingLists
<1> HIDE DEF s
<1>2. ListFits("planned", "task", s)
  BY <1>1 DEF ListFits, ClosedPoints, NoClose, Ours
<1>3. PlanFits("planned", "task", s)
  BY <1>1 DEF PlanFits, AllSaid, TouchesIn, AtRest, InFlight
<1>4. WayFits("planned", "task", s)
  BY <1>1 DEF WayFits, SetsOnce, Sets, ClosedPoints, InFlight, Over, Drafting, Working
<1> QED
  BY <1>2, <1>3, <1>4 DEF Decides, Decision, s

LEMMA PlanningDecides ==
    ASSUME TypeOK, PlanInv, Planning
    PROVE  Decides
<1>1. CASE Register
  <2>1. Decide("register", "start", <<>>) /\ UNCHANGED <<cur, last>>
    BY <1>1 DEF Register, plan
  <2> QED
    BY <2>1, InnerLists, InnerTouches, DecideOn DEF GoesOn, InFlight
<1>2. CASE StartPlanning
  BY <1>2, DecideToPlan DEF StartPlanning
<1>3. CASE CheckPlanning
  <2>1. UNCHANGED <<cur, last>>
    BY <1>3 DEF CheckPlanning, local, plan
  <2>2. CASE Decide("planning", "finished", FinalizeCancelled)
    BY <2>2, EndLists, DecideEnd DEF ClosedPoints, InFlight
  <2>3. ASSUME NEW to \in {"recall", "plan"}, Decide("planning", to, <<>>) PROVE Decides
    BY <2>1, <2>3, InnerLists, InnerTouches, DecideOn DEF GoesOn, InFlight
  <2> QED
    BY <1>3, <2>2, <2>3 DEF CheckPlanning
<1>4. CASE Recall
  <2>1. UNCHANGED <<cur, last>>
    BY <1>4 DEF Recall, local, plan
  <2>2. PICK s \in {<<>>, <<Emit(Plain("memory.recalled"))>>} : Decide("recall", "plan", s)
    BY <1>4 DEF Recall
  <2>3. InnerList(s) /\ TouchesIn(s, {})
    BY <2>2, InnerLists, InnerTouches DEF FreeTypes, SilentEventTypes
  <2> QED
    BY <2>1, <2>2, <2>3, DecideOn DEF GoesOn, InFlight
<1>5. CASE PlannerReturns
  <2>1. PICK n \in 1 .. MaxTasks :
            /\ Decide("plan", "planned", <<AddTasks(0, n), Emit(PlanEvent(0, n))>>)
            /\ last' = n - 1
    BY <1>5 DEF PlannerReturns
  <2>2. n \in Nat /\ cur' = cur
    BY <1>5, LimitsAssumption DEF PlannerReturns
  <2> QED
    BY <2>1, <2>2, DecideThePlan
<1>6. CASE PlannerFails
  <2>1. PICK e : e # "interrupted" /\ Decide("plan", "handled", FinalizeFailed(e))
    BY <1>6 DEF PlannerFails
  <2> QED
    BY <2>1, EndLists, DecideEnd DEF ClosedPoints, InFlight
<1>7. CASE PlannerExhausts
  <2>1. Decide("plan", "handled", FinalizeBudgetExceeded(FALSE))
    BY <1>7 DEF PlannerExhausts
  <2>2. /\ "plan" \notin ClosedPoints \cup {"none", "register", "start"}
        /\ "plan" \notin InFlight /\ "handled" \in {"memory", "finished", "handled"}
    BY DEF ClosedPoints, InFlight
  <2> QED
    BY <2>1, <2>2, DecideTeardown, Zenon
<1>8. CASE CheckPlanned
  <2>1. UNCHANGED <<cur, last>>
    BY <1>8 DEF CheckPlanned, local, plan
  <2>2. CASE Decide("planned", "finished", FinalizeCancelledRun(FALSE))
    <3>1. /\ "planned" \notin ClosedPoints \cup {"none", "register", "start"}
          /\ "planned" \notin InFlight /\ "finished" \in {"memory", "finished", "handled"}
      BY DEF ClosedPoints, InFlight
    <3> QED
      BY <2>2, <3>1, DecideTeardown, Zenon
  <2>3. CASE Decide("planned", "task", <<SetStatus("running")>>)
    BY <2>1, <2>3, DecideToRun
  <2> QED
    BY <1>8, <2>2, <2>3 DEF CheckPlanned
<1> QED
  BY <1>1, <1>2, <1>3, <1>4, <1>5, <1>6, <1>7, <1>8 DEF Planning

(* From a task in flight, which the teardown ends.                         *)
LEMMA TeardownInFlight ==
    ASSUME TypeOK, PlanInv, NEW from \in InFlight,
           \/ Decide(from, "finished", FinalizeCancelledRun(TRUE))
           \/ Decide(from, "finished", FinalizeBudgetExceeded(TRUE))
    PROVE  Decides
<1>1. /\ from \notin ClosedPoints \cup {"none", "register", "start"}
      /\ "finished" \in {"memory", "finished", "handled"}
  BY DEF ClosedPoints, InFlight
<1> QED
  BY <1>1, DecideTeardown, Zenon

(* A decision that keeps the plan as it is and the current task in flight. *)
LEMMA StaysInFlight ==
    ASSUME TypeOK, PlanInv, NEW from \in InFlight, NEW to \in InFlight \ {"retry"}, NEW s,
           Decide(from, to, s), InnerList(s), TouchesIn(s, {}) \/ TouchesIn(s, {cur}),
           cur' = cur, last' = last
    PROVE  Decides
<1>1. pc = from /\ todo = <<>>
  BY DEF Decide
<1>2. {cur} \subseteq DOMAIN tasks
  BY <1>1, CurrentHasRow
<1>3. GoesOn(from, to) /\ to \in InFlight /\ ~(from = "task") /\ to # "retry"
  BY DEF GoesOn, InFlight
<1> QED
  BY <1>2, <1>3, DecideOn

LEMMA DecideToAccept ==
    ASSUME TypeOK, PlanInv, NEW from \in InFlight, Accept(from)
    PROVE  Decides
<1>1. Decide(from, "task", CompleteTask(cur)) /\ cur' = cur + 1 /\ last' = last
  BY DEF Accept
<1>2. pc = from /\ todo = <<>>
  BY <1>1 DEF Decide
<1>3. {cur} \subseteq DOMAIN tasks
  BY <1>2, CurrentHasRow
<1>4. GoesOn(from, "task") /\ "task" \notin InFlight /\ from # "task"
  BY DEF GoesOn, InFlight
<1>5. PICK s : s = CompleteTask(cur)
  OBVIOUS
<1>6. InnerList(s) /\ TouchesIn(s, {cur}) /\ EndsTask(s, cur)
  BY <1>5, InnerLists, InnerTouches
<1>7. cur' \in {cur, cur + 1} /\ "task" # "retry"
  BY <1>1
<1> QED
  BY <1>1, <1>3, <1>4, <1>5, <1>6, <1>7, DecideOn

(* A task runs again, unsaid.                                              *)
LEMMA DecideAgain ==
    ASSUME TypeOK, PlanInv, Decide("retry", "execute", <<MarkTask(cur, "running")>>),
           cur' = cur, last' = last
    PROVE  Decides
<1>1. PICK s : s = <<MarkTask(cur, "running")>>
  OBVIOUS
<1>2. /\ Orderly(s) /\ NoClose(s) /\ NoAnswer(s) /\ SetsOnly(s, {}) /\ TouchesIn(s, {cur})
  BY <1>1, MovingLists
<1>3. Len(s) = 1 /\ s[1] = MarkTask(cur, "running")
  BY <1>1
<1>4. pc = "retry" /\ todo = <<>>
  BY DEF Decide
<1>5. cur <= last /\ cur \in DOMAIN tasks
  BY <1>4, CurrentHasRow DEF InFlight
<1>6. ListFits("retry", "execute", s)
  BY <1>2 DEF ListFits, ClosedPoints, NoClose, Ours
<1>7. PlanFits("retry", "execute", s)
  <2>1. TouchesIn(s, DOMAIN tasks)
    BY <1>2, <1>5 DEF TouchesIn
  <2>2. \A k \in 1 .. Len(s) : s[k].index = cur
    BY <1>3, RowNature
  <2> QED
    BY <1>5, <2>1, <2>2 DEF PlanFits, InFlight
<1>8. WayFits("retry", "execute", s)
  BY <1>2 DEF WayFits, SetsOnly, SetsOnce, ClosedPoints, InFlight, Over, Drafting, Working
<1> QED
  BY <1>1, <1>6, <1>7, <1>8 DEF Decides, Decision

LEMMA ExecutingDecides ==
    ASSUME TypeOK, PlanInv, Executing
    PROVE  Decides
<1> USE DEF local, plan
<1>0. /\ "execute" \in InFlight \ {"retry"} /\ "executed" \in InFlight \ {"retry"}
      /\ "reflect" \in InFlight \ {"retry"} /\ "judged" \in InFlight \ {"retry"}
      /\ "retry" \in InFlight
  BY DEF InFlight
<1>1. CASE StartTask
  <2>1. UNCHANGED <<cur, last>> /\ cur <= last
    BY <1>1 DEF StartTask
  <2>2. CASE Decide("task", "finished", FinalizeCancelledRun(FALSE))
    <3>1. /\ "task" \notin ClosedPoints \cup {"none", "register", "start"}
          /\ "task" \notin InFlight /\ "finished" \in {"memory", "finished", "handled"}
      BY DEF ClosedPoints, InFlight
    <3> QED
      BY <2>2, <3>1, DecideTeardown, Zenon
  <2>3. CASE Decide("task", "execute",
                    <<MarkTask(cur, "running"), Emit(TaskEvent("task.started", cur))>>)
    <3>1. pc = "task" /\ todo = <<>>
      BY <2>3 DEF Decide
    <3>2. {cur} \subseteq DOMAIN tasks
      BY <2>1, <3>1, CurrentHasRow DEF AtRest
    <3>3. PICK s : s = <<MarkTask(cur, "running"), Emit(TaskEvent("task.started", cur))>>
      OBVIOUS
    <3>4. InnerList(s) /\ TouchesIn(s, {cur})
      BY <3>3, InnerLists, InnerTouches
    <3>5. GoesOn("task", "execute") /\ "task" \notin InFlight /\ "execute" # "retry"
      BY DEF GoesOn, InFlight
    <3> QED
      BY <2>1, <2>3, <3>2, <3>3, <3>4, <3>5, DecideOn
  <2> QED
    BY <1>1, <2>2, <2>3 DEF StartTask
<1>2. CASE TasksDone
  <2>1. Decide("task", "synthesize", <<>>) /\ UNCHANGED <<cur, last>>
    BY <1>2 DEF TasksDone
  <2> QED
    BY <2>1, InnerLists, InnerTouches, DecideOn DEF GoesOn, InFlight, Over
<1>3. CASE StartAttempt
  <2>1. CASE Decide("retry", "finished", FinalizeCancelledRun(TRUE))
    BY <1>0, <2>1, TeardownInFlight, Zenon
  <2>2. CASE Decide("retry", "execute", <<MarkTask(cur, "running")>>)
    BY <1>3, <2>2, DecideAgain DEF StartAttempt
  <2> QED
    BY <1>3, <2>1, <2>2 DEF StartAttempt
<1>4. ASSUME Decide("execute", "executed", <<RecordAttempt(cur, attempt)>>),
             UNCHANGED <<cur, last>>
      PROVE  Decides
  BY <1>0, <1>4, InnerLists, InnerTouches, StaysInFlight
<1>5. CASE ExecutorReturns
  BY <1>4, <1>5 DEF ExecutorReturns
<1>6. CASE ExecutorCancelled
  <2>1. Decide("execute", "finished", FinalizeCancelledRun(TRUE))
    BY <1>6 DEF ExecutorCancelled
  <2> QED
    BY <1>0, <2>1, TeardownInFlight, Zenon
<1>7. CASE ExecutorFails
  <2>1. CASE Decide("execute", "finished", FinalizeCancelledRun(TRUE))
    BY <1>0, <2>1, TeardownInFlight, Zenon
  <2>2. CASE Decide("execute", "finished", FailTask(cur) \o FinalizeFailed("task"))
    <3>1. pc = "execute" /\ todo = <<>>
      BY <2>2 DEF Decide
    <3>2. {cur} \subseteq DOMAIN tasks
      BY <1>0, <3>1, CurrentHasRow
    <3> QED
      BY <2>2, <3>2, TaskEndLists, DecideEnd DEF ClosedPoints, InFlight
  <2>3. CASE Decide("execute", "executed", <<RecordAttempt(cur, attempt)>>)
    BY <1>4, <1>7, <2>3 DEF ExecutorFails
  <2> QED
    BY <1>7, <2>1, <2>2, <2>3 DEF ExecutorFails
<1>8. CASE ExecutorExhausts
  <2>1. Decide("execute", "finished", FinalizeBudgetExceeded(TRUE))
    BY <1>8 DEF ExecutorExhausts
  <2> QED
    BY <1>0, <2>1, TeardownInFlight, Zenon
<1>9. CASE CheckExecuted
  <2>1. CASE Decide("executed", "finished", FinalizeCancelledRun(TRUE))
    BY <1>0, <2>1, TeardownInFlight, Zenon
  <2>2. CASE Decide("executed", "reflect", <<>>) /\ UNCHANGED plan
    BY <1>0, <2>2, InnerLists, InnerTouches, StaysInFlight
  <2>3. CASE Accept("executed")
    BY <1>0, <2>3, DecideToAccept
  <2> QED
    BY <1>9, <2>1, <2>2, <2>3 DEF CheckExecuted
<1>10. CASE ReflectorReturns
  <2>1. /\ Decide("reflect", "judged", <<RecordReflection, Emit(Plain("task.reflected"))>>)
        /\ UNCHANGED <<cur, last>>
    BY <1>10 DEF ReflectorReturns
  <2> QED
    BY <1>0, <2>1, InnerLists, InnerTouches, StaysInFlight
<1>11. CASE ReflectorExhausts
  <2>1. Decide("reflect", "finished", FinalizeBudgetExceeded(TRUE))
    BY <1>11 DEF ReflectorExhausts
  <2> QED
    BY <1>0, <2>1, TeardownInFlight, Zenon
<1> QED
  BY <1>1, <1>2, <1>3, <1>5, <1>6, <1>7, <1>8, <1>9, <1>10, <1>11 DEF Executing

(* A new generation takes the place of the current task and all after it.  *)
LEMMA DecideToReplan ==
    ASSUME TypeOK, PlanInv, NEW n \in Nat,
           Decide("replan", "task",
                  <<DropTasks(Dropped), EmitSkipped(Dropped), AddTasks(StartIndex, n),
                    Emit(ReplanEvent(Dropped, StartIndex, n))>>),
           cur' = StartIndex, last' = StartIndex + n - 1
    PROVE  Decides
<1>1. PICK s : s = <<DropTasks(Dropped), EmitSkipped(Dropped), AddTasks(StartIndex, n),
                     Emit(ReplanEvent(Dropped, StartIndex, n))>>
  OBVIOUS
<1>2. /\ InnerList(s) /\ TouchesIn(s, Dropped)
      /\ Len(s) = 4 /\ s[1] = DropTasks(Dropped) /\ s[3] = AddTasks(StartIndex, n)
  BY <1>1, InnerLists, InnerTouches
<1>3. pc = "replan" /\ todo = <<>>
  BY DEF Decide
<1>4. cur <= last /\ cur \in Nat /\ last \in Nat /\ Dropped \subseteq DOMAIN tasks
  BY <1>3, CurrentHasRow DEF InFlight, TypeOK, LocalOK, Dropped
<1>5. ListFits("replan", "task", s)
  BY <1>2 DEF ListFits, InnerList, ClosedPoints, NoClose, Ours
<1>6. PlanFits("replan", "task", s)
  <2>1. TouchesIn(s, DOMAIN tasks)
    BY <1>2, <1>4 DEF TouchesIn
  <2>2. /\ s[3].op = "add" /\ s[3].start = StartIndex /\ s[3].count = n
        /\ s[1].op = "drop" /\ s[1].tasks = Dropped
    BY <1>2, RowNature
  <2>3. \A i \in cur' .. last' : Adds(s, i)
    BY <1>2, <2>2 DEF Adds, Span
  <2>4. Drops(s, cur)
    BY <1>2, <1>4, <2>2 DEF Drops, Dropped
  <2>5. "task" \notin InFlight /\ "task" # "retry" /\ "replan" \notin ClosedPoints
    BY DEF InFlight, ClosedPoints
  <2> QED
    BY <1>2, <2>1, <2>3, <2>4, <2>5 DEF PlanFits, InnerList, AllSaid
<1>7. WayFits("replan", "task", s)
  BY <1>2 DEF WayFits, InnerList, SetsOnly, SetsOnce, ClosedPoints, InFlight, Over, Drafting,
     Working
<1> QED
  BY <1>1, <1>5, <1>6, <1>7 DEF Decides, Decision

(* The task in flight fails, and with it the run.                          *)
LEMMA FailsInFlight ==
    ASSUME TypeOK, PlanInv, NEW from \in InFlight, NEW s, Decide(from, "finished", s),
           \/ s = FailTask(cur) \o <<SkipPending>> \o FinalizeFailed("aborted")
           \/ \E e : e # "interrupted" /\ s = FailTask(cur) \o FinalizeFailed(e)
    PROVE  Decides
<1>1. EndList(s) /\ NoAnswer(s) /\ TouchesIn(s, {cur}) /\ EndsTask(s, cur)
  BY TaskEndLists
<1>2. pc = from /\ todo = <<>>
  BY DEF Decide
<1>3. {cur} \subseteq DOMAIN tasks
  BY <1>2, CurrentHasRow
<1>4. from \notin ClosedPoints \cup {"none", "register", "start"}
  BY DEF ClosedPoints, InFlight
<1> QED
  BY <1>1, <1>3, <1>4, DecideEnd

LEMMA JudgingDecides ==
    ASSUME TypeOK, PlanInv, Judging
    PROVE  Decides
<1> USE DEF local, plan
<1>0. /\ "judged" \in InFlight /\ "replan" \in InFlight \ {"retry"}
      /\ "retry" \in InFlight
  BY DEF InFlight
<1>1. CASE JudgedCancelled
  <2>1. Decide("judged", "finished", FinalizeCancelledRun(TRUE))
    BY <1>1 DEF JudgedCancelled
  <2> QED
    BY <1>0, <2>1, TeardownInFlight, Zenon
<1>2. CASE JudgedAccept
  BY <1>0, <1>2, DecideToAccept DEF JudgedAccept
<1>3. CASE JudgedRetry
  <2>1. /\ Decide("judged", "retry",
                  <<MarkTask(cur, "retrying"), Emit(TaskEvent("task.retrying", cur))>>)
        /\ UNCHANGED <<cur, last>>
    BY <1>3 DEF JudgedRetry
  <2>2. pc = "judged" /\ todo = <<>>
    BY <2>1 DEF Decide
  <2>3. {cur} \subseteq DOMAIN tasks
    BY <1>0, <2>2, CurrentHasRow
  <2>4. PICK s : s = <<MarkTask(cur, "retrying"), Emit(TaskEvent("task.retrying", cur))>>
    OBVIOUS
  <2>5. InnerList(s) /\ TouchesIn(s, {cur}) /\ Len(s) = 2 /\ s[1] = MarkTask(cur, "retrying")
    BY <2>4, InnerLists, InnerTouches
  <2>6. GoesOn("judged", "retry") /\ "judged" # "task"
    BY DEF GoesOn, InFlight
  <2> QED
    BY <1>0, <2>1, <2>3, <2>4, <2>5, <2>6, DecideOn
<1>4. CASE JudgedReplan
  <2>1. Decide("judged", "replan", <<>>) /\ UNCHANGED <<cur, last>>
    BY <1>4 DEF JudgedReplan
  <2> QED
    BY <1>0, <2>1, InnerLists, InnerTouches, StaysInFlight
<1>5. CASE JudgedAbort
  <2>1. UNCHANGED <<cur, last>>
    BY <1>5 DEF JudgedAbort
  <2>2. CASE Decide("judged", "finished",
                    FailTask(cur) \o <<SkipPending>> \o FinalizeFailed("aborted"))
    BY <1>0, <2>2, FailsInFlight
  <2>3. CASE Decide("judged", "partial", FailTask(cur) \o <<SkipPending>>)
    <3>1. pc = "judged" /\ todo = <<>>
      BY <2>3 DEF Decide
    <3>2. {cur} \subseteq DOMAIN tasks
      BY <1>0, <3>1, CurrentHasRow
    <3>3. PICK s : s = FailTask(cur) \o <<SkipPending>>
      OBVIOUS
    <3>4. InnerList(s) /\ TouchesIn(s, {cur}) /\ EndsTask(s, cur)
      BY <3>3, TaskEndLists
    <3>5. /\ GoesOn("judged", "partial") /\ "judged" # "task"
          /\ "partial" \notin InFlight /\ "partial" # "retry"
      BY DEF GoesOn, InFlight
    <3> QED
      BY <2>1, <2>3, <3>2, <3>3, <3>4, <3>5, DecideOn
  <2> QED
    BY <1>5, <2>2, <2>3 DEF JudgedAbort
<1>6. CASE ReplanReturns
  <2>1. CASE Decide("replan", "finished", FinalizeCancelledRun(TRUE))
    BY <1>0, <2>1, TeardownInFlight, Zenon
  <2>2. CASE ~cancel
    <3>1. PICK n \in 1 .. MaxTasks :
              /\ Decide("replan", "task",
                        <<DropTasks(Dropped), EmitSkipped(Dropped), AddTasks(StartIndex, n),
                          Emit(ReplanEvent(Dropped, StartIndex, n))>>)
              /\ last' = StartIndex + n - 1
      BY <1>6, <2>2 DEF ReplanReturns
    <3>2. cur' = StartIndex
      BY <1>6, <2>2 DEF ReplanReturns
    <3>3. n \in Nat
      BY LimitsAssumption
    <3> QED
      BY <3>1, <3>2, <3>3, DecideToReplan
  <2> QED
    BY <1>6, <2>1, <2>2 DEF ReplanReturns
<1>7. CASE ReplanFails
  <2>1. Decide("replan", "finished", FailTask(cur) \o FinalizeFailed("replan"))
    BY <1>7 DEF ReplanFails
  <2> QED
    BY <1>0, <2>1, FailsInFlight
<1>8. CASE ReplanExhausts
  <2>1. Decide("replan", "finished", FinalizeBudgetExceeded(TRUE))
    BY <1>8 DEF ReplanExhausts
  <2> QED
    BY <1>0, <2>1, TeardownInFlight, Zenon
<1>9. CASE ReplyRaises
  <2>0. PICK s : s = FinalizeFailed("unexpected")
    OBVIOUS
  <2>1. PICK from \in Parsing : Decide(from, "handled", s)
    BY <1>9, <2>0 DEF ReplyRaises
  <2>2. EndList(s) /\ NoAnswer(s) /\ TouchesIn(s, {})
    BY <2>0, EndLists
  <2>3. LeavesBroken("handled", s)
    <3>1. Len(s) = 2 /\ s[1] = SetFailed("unexpected")
      BY <2>0 DEF FinalizeFailed
    <3> QED
      BY <1>9, <3>1 DEF LeavesBroken, Breaks, ReplyRaises
  <2>4. from \notin ClosedPoints \cup {"none", "register", "start"}
    BY DEF Parsing, ClosedPoints
  <2> QED
    BY <2>1, <2>2, <2>3, <2>4, DecideEnd
<1> QED
  BY <1>1, <1>2, <1>3, <1>4, <1>5, <1>6, <1>7, <1>8, <1>9 DEF Judging

(* After the tasks: the budget runs out, or the model fails.               *)
LEMMA TeardownAfter ==
    ASSUME TypeOK, PlanInv, NEW from \in Over \cup {"partial"},
           NEW to \in {"memory", "finished", "handled"}, NEW s, Decide(from, to, s),
           \/ s = FinalizeCancelled
           \/ \E e : e # "interrupted" /\ s = FinalizeFailed(e)
           \/ s = FinalizeBudgetExceeded(FALSE)
    PROVE  Decides
<1>1. from \notin ClosedPoints \cup {"none", "register", "start"} /\ from \notin InFlight
  BY DEF ClosedPoints, InFlight, Over
<1>2. CASE s = FinalizeBudgetExceeded(FALSE)
  BY <1>1, <1>2, DecideTeardown, Zenon
<1>3. CASE \/ s = FinalizeCancelled
           \/ \E e : e # "interrupted" /\ s = FinalizeFailed(e)
  <2>1. EndList(s) /\ NoAnswer(s) /\ TouchesIn(s, {})
    BY <1>3, EndLists
  <2> QED
    BY <1>1, <2>1, DecideEnd
<1> QED
  BY <1>2, <1>3

(* At the closed points: nothing but events that no row knows of.          *)
LEMMA DecideClosing ==
    ASSUME TypeOK, PlanInv, NEW from, NEW to, NEW s, Decide(from, to, s),
           \/ /\ from = "memory" /\ to = "finished"
              /\ s \in {<<>>, <<Emit(Plain("memory.written"))>>}
           \/ from \in {"finished", "handled"} /\ to = "ended" /\ s = <<>>,
           cur' = cur
    PROVE  Decides
<1>1. InnerList(s) /\ TouchesIn(s, {})
  BY InnerLists, InnerTouches DEF FreeTypes, SilentEventTypes
<1>2. \A k \in 1 .. Len(s) : Silent(s[k])
  BY DEF Silent, Says, SilentEventTypes, Emit, Plain
<1>3. from \in ClosedPoints /\ to \in ClosedPoints
  BY DEF ClosedPoints
<1>4. ListFits(from, to, s)
  BY <1>1, <1>2, <1>3 DEF ListFits, InnerList, NoClose, Ours
<1>5. PlanFits(from, to, s)
  BY <1>1 DEF PlanFits, TouchesIn, InnerList, AllSaid, AtRest, InFlight
<1>6. WayFits(from, to, s)
  BY <1>1 DEF WayFits, InnerList, SetsOnly, SetsOnce, ClosedPoints, InFlight, Over, Drafting,
     Working
<1> QED
  BY <1>4, <1>5, <1>6 DEF Decides, Decision

LEMMA AnsweringDecides ==
    ASSUME TypeOK, PlanInv, Answering
    PROVE  Decides
<1> USE DEF local, plan
<1>0. /\ "partial" \in Over \cup {"partial"} /\ "synthesize" \in Over \cup {"partial"}
      /\ "answer" \in Over \cup {"partial"} /\ "stream" \in Over \cup {"partial"}
      /\ "finished" \in {"memory", "finished", "handled"}
      /\ "handled" \in {"memory", "finished", "handled"}
      /\ AfterAnswer \in {"memory", "finished", "handled"}
  BY DEF Over, AfterAnswer
<1>1. ASSUME NEW from \in Over, NEW to \in Over, NEW s, Decide(from, to, s),
             s \in {<<>>, <<Emit(Plain("answer.token"))>>}, UNCHANGED <<cur, last>>
      PROVE  Decides
  <2>1. InnerList(s) /\ TouchesIn(s, {})
    BY <1>1, InnerLists, InnerTouches DEF FreeTypes, SilentEventTypes
  <2>2. GoesOn(from, to) /\ from \notin InFlight /\ to \notin InFlight /\ to # "retry"
    BY <1>1 DEF GoesOn, Over, InFlight
  <2> QED
    BY <1>1, <2>1, <2>2, DecideOn DEF Over
<1>2. ASSUME NEW from \in {"partial", "stream"}, NEW s, Decide(from, AfterAnswer, s),
             EndList(s), TouchesIn(s, {})
      PROVE  Decides
  <2>1. from \notin ClosedPoints \cup {"none", "register", "start"} /\ from \notin InFlight
    BY <1>2 DEF ClosedPoints, InFlight
  <2> QED
    BY <1>0, <1>2, <2>1, DecideEnd
<1>3. CASE PartialReturns
  <2>1. PICK s : /\ Decide("partial", AfterAnswer, s)
                 /\ s = <<SetPartialAnswer,
                          Emit([type |-> "answer.completed", text |-> "partial"])>>
                            \o FinalizeFailed("aborted")
    BY <1>3 DEF PartialReturns
  <2>2. EndList(s) /\ TouchesIn(s, {})
    BY <2>1, EndLists
  <2> QED
    BY <1>2, <2>1, <2>2
<1>4. CASE PartialFails
  BY <1>0, <1>4, TeardownAfter DEF PartialFails
<1>5. CASE PartialExhausts
  <2>1. Decide("partial", "finished", FinalizeBudgetExceeded(FALSE))
    BY <1>5 DEF PartialExhausts
  <2> QED
    BY <1>0, <2>1, TeardownAfter, Zenon
<1>6. CASE CheckSynthesis
  <2>1. UNCHANGED <<cur, last>> /\ "synthesize" \in Over /\ "answer" \in Over
    BY <1>6 DEF CheckSynthesis, Over
  <2>2. CASE Decide("synthesize", "finished", FinalizeCancelled)
    BY <1>0, <2>2, TeardownAfter
  <2>3. CASE Decide("synthesize", "answer", <<>>)
    BY <1>1, <2>1, <2>3
  <2> QED
    BY <1>6, <2>2, <2>3 DEF CheckSynthesis
<1>7. CASE AnswerReturns
  <2>1. Decide("answer", "stream", <<>>) /\ UNCHANGED <<cur, last>>
    BY <1>7 DEF AnswerReturns
  <2>2. "answer" \in Over /\ "stream" \in Over
    BY DEF Over
  <2> QED
    BY <1>1, <2>1, <2>2
<1>8. CASE AnswerFails
  BY <1>0, <1>8, TeardownAfter DEF AnswerFails
<1>9. CASE AnswerExhausts
  <2>1. Decide("answer", "handled", FinalizeBudgetExceeded(FALSE))
    BY <1>9 DEF AnswerExhausts
  <2> QED
    BY <1>0, <2>1, TeardownAfter, Zenon
<1>10. CASE StreamToken
  <2>1. UNCHANGED <<cur, last>> /\ "stream" \in Over
    BY <1>10 DEF StreamToken, Over
  <2>2. CASE Decide("stream", "finished", FinalizeCancelled)
    BY <1>0, <2>2, TeardownAfter
  <2>3. CASE Decide("stream", "stream", <<Emit(Plain("answer.token"))>>)
    BY <1>1, <2>1, <2>3
  <2> QED
    BY <1>10, <2>2, <2>3 DEF StreamToken
<1>11. CASE StreamDone
  <2>1. Decide("stream", AfterAnswer, FinalizeDone)
    BY <1>11 DEF StreamDone
  <2> QED
    BY <1>2, <2>1, EndLists
<1>12. CASE WriteMemory
  BY <1>12, DecideClosing DEF WriteMemory
<1>13. CASE Cleanup
  BY <1>13, DecideClosing DEF Cleanup
<1> QED
  BY <1>3, <1>4, <1>5, <1>6, <1>7, <1>8, <1>9, <1>10, <1>11, <1>12, <1>13 DEF Answering

LEMMA EveryDecisionFits ==
    ASSUME TypeOK, PlanInv, Planning \/ Executing \/ Judging \/ Answering
    PROVE  Decides
BY PlanningDecides, ExecutingDecides, JudgingDecides, AnsweringDecides

-----------------------------------------------------------------------------
(* What a commit does                                                      *)

(* The fold, field by field.                                               *)
Reads(v, e, w) ==
    /\ w.terminal <=> v.terminal \/ e.type \in ClosingTypes
    /\ e.type = "run.completed" => w.status = "done"
    /\ e.type = "run.cancelled" => w.status = "cancelled"
    /\ e.type = "run.failed" => w.status = "failed" /\ w.error = e.error
    /\ e.type \notin ClosingTypes \cup {"run.created", "run.started"} => w.status = v.status
    /\ e.type # "run.failed" => w.error = v.error
    /\ e.type = "answer.completed" => w.answer = e.text
    /\ e.type # "answer.completed" => w.answer = v.answer
    /\ e.type \in PlanEventTypes => w.tasks = WithPlan(v.tasks, e.start, e.count)
    /\ e.type \in TaskEventTypes => w.tasks = WithTask(v.tasks, e.index, TaskEventStatus(e.type))
    /\ e.type \notin PlanEventTypes \cup TaskEventTypes => w.tasks = v.tasks
    /\ w.tokens <=> v.tokens \/ e.type = "answer.token"
    /\ e.type \in SilentEventTypes => w = v

LEMMA FoldReads ==
    ASSUME NEW v, IsReplayState(v), NEW e \in Event
    PROVE  Reads(v, e, FoldStep(v, e))
<1>1. v.terminal \in BOOLEAN /\ v.tokens \in BOOLEAN
  BY DEF IsReplayState
<1>2. CASE e.type \in {"plan.created", "plan.replanned"}
  <2>1. FoldStep(v, e) = [v EXCEPT !.tasks = WithPlan(v.tasks, e.start, e.count)]
    BY <1>2 DEF FoldStep, TaskEventTypes
  <2> QED
    BY <1>1, <1>2, <2>1
    DEF IsReplayState, Reads, ClosingTypes, PlanEventTypes, TaskEventTypes, SilentEventTypes
<1>3. CASE e.type \in TaskEventTypes
  <2>1. FoldStep(v, e) = [v EXCEPT !.tasks =
                            WithTask(v.tasks, e.index, TaskEventStatus(e.type))]
    BY <1>3 DEF FoldStep, TaskEventTypes
  <2> QED
    BY <1>1, <1>3, <2>1
    DEF IsReplayState, Reads, ClosingTypes, PlanEventTypes, TaskEventTypes, SilentEventTypes
<1>4. CASE e.type = "run.failed" \/ e.type = "answer.completed"
  <2>1. FoldStep(v, e) =
            IF e.type = "run.failed"
            THEN [v EXCEPT !.status = "failed", !.terminal = TRUE, !.error = e.error]
            ELSE [v EXCEPT !.answer = e.text]
    BY <1>4 DEF FoldStep, TaskEventTypes
  <2> QED
    BY <1>1, <1>4, <2>1
    DEF IsReplayState, Reads, ClosingTypes, PlanEventTypes, TaskEventTypes, SilentEventTypes
<1>5. CASE e.type \in PlainEventTypes
  BY <1>1, <1>5
  DEF FoldStep, IsReplayState, PlainEventTypes, SilentEventTypes, Reads, ClosingTypes,
      PlanEventTypes, TaskEventTypes
<1> QED
  BY <1>2, <1>3, <1>4, <1>5 DEF Event

(* What the head of todo changes, by its kind.                             *)
Effect(c) ==
    /\ c.op = "status" => status' = c.status
    /\ c.op = "failed" => status' = "failed" /\ error' = c.error
    /\ c.op = "done" => status' = "done" /\ answer' = "full"
    /\ c.op = "answer" => answer' = "partial"
    /\ c.op \notin {"status", "failed", "done"} => status' = status
    /\ c.op \notin {"done", "answer"} => answer' = answer
    /\ c.op # "failed" => error' = error
    /\ c.op = "mark" =>
          tasks' = [i \in DOMAIN tasks |-> IF i = c.index THEN c.status ELSE tasks[i]]
    /\ c.op = "skip" =>
          tasks' = [i \in DOMAIN tasks |->
                       IF tasks[i] = "pending" THEN "skipped" ELSE tasks[i]]
    /\ c.op = "drop" =>
          tasks' = [i \in DOMAIN tasks |-> IF i \in c.tasks THEN "skipped" ELSE tasks[i]]
    /\ c.op = "add" => tasks' = WithPlan(tasks, c.start, c.count)
    /\ c.op \notin {"mark", "skip", "drop", "add"} => tasks' = tasks
    /\ c.op = "emit" => view' = FoldStep(view, c.event)
    /\ c.op = "emitSkipped" =>
          \E i \in c.tasks : view' = FoldStep(view, TaskEvent("task.skipped", i))
    /\ c.op \notin {"emit", "emitSkipped"} => view' = view

(* What it leaves to be done: the rest, behind the events of what it       *)
(* skipped, one by one.                                                    *)
LeavesBehind(c) ==
    \/ /\ todo' = Tail(todo)
       /\ c.op = "skip" => \A i \in DOMAIN tasks : tasks[i] # "pending"
       /\ c.op = "emitSkipped" =>
             \E i : c.tasks = {i} /\ view' = FoldStep(view, TaskEvent("task.skipped", i))
    \/ /\ c.op = "skip"
       /\ todo' = <<EmitSkipped({i \in DOMAIN tasks : tasks[i] = "pending"})>> \o Tail(todo)
    \/ /\ c.op = "emitSkipped"
       /\ \E i \in c.tasks :
             /\ view' = FoldStep(view, TaskEvent("task.skipped", i))
             /\ todo' = <<EmitSkipped(c.tasks \ {i})>> \o Tail(todo)

LEMMA CommitEffect ==
    ASSUME Committing
    PROVE  /\ todo # <<>> /\ UNCHANGED <<pc, local>>
           /\ Effect(Head(todo)) /\ LeavesBehind(Head(todo))
<1> DEFINE c == Head(todo)
<1>1. CASE CommitStatus
  BY <1>1 DEF CommitStatus, Pending, Performed, Effect, LeavesBehind
<1>2. CASE CommitFailed
  BY <1>2 DEF CommitFailed, Pending, Performed, Effect, LeavesBehind
<1>3. CASE CommitDone
  BY <1>3 DEF CommitDone, Pending, Performed, Effect, LeavesBehind
<1>4. CASE CommitPartialAnswer
  BY <1>4 DEF CommitPartialAnswer, Pending, Performed, Effect, LeavesBehind
<1>5. CASE CommitMark
  BY <1>5 DEF CommitMark, Pending, Performed, Effect, LeavesBehind
<1>6. CASE CommitSkip
  <2> DEFINE pending == {i \in DOMAIN tasks : tasks[i] = "pending"}
  <2>1. /\ todo # <<>> /\ c.op = "skip" /\ UNCHANGED <<pc, local, status, answer, error, view>>
        /\ tasks' = [i \in DOMAIN tasks |-> IF i \in pending THEN "skipped" ELSE tasks[i]]
        /\ todo' = IF pending = {} THEN Tail(todo) ELSE <<EmitSkipped(pending)>> \o Tail(todo)
    BY <1>6 DEF CommitSkip, Pending
  <2>2. tasks' = [i \in DOMAIN tasks |->
                     IF tasks[i] = "pending" THEN "skipped" ELSE tasks[i]]
    BY <2>1
  <2>3. pending = {} => \A i \in DOMAIN tasks : tasks[i] # "pending"
    OBVIOUS
  <2>4. Effect(c)
    BY <2>1, <2>2 DEF Effect
  <2>5. LeavesBehind(c)
    BY <2>1, <2>3 DEF LeavesBehind
  <2> QED
    BY <2>1, <2>4, <2>5
<1>7. CASE CommitDrop
  BY <1>7 DEF CommitDrop, Pending, Performed, Effect, LeavesBehind
<1>8. CASE CommitAdd
  BY <1>8 DEF CommitAdd, Pending, Performed, Effect, LeavesBehind
<1>9. CASE CommitAttempt
  BY <1>9 DEF CommitAttempt, Pending, Performed, Effect, LeavesBehind
<1>10. CASE CommitReflection
  BY <1>10 DEF CommitReflection, Pending, Performed, Effect, LeavesBehind, durable
<1>11. CASE CommitEmit
  BY <1>11 DEF CommitEmit, Pending, Performed, Effect, LeavesBehind, rows
<1>12. CASE CommitEmitSkipped
  <2>1. /\ todo # <<>> /\ c.op = "emitSkipped" /\ UNCHANGED <<pc, local, rows>>
    BY <1>12 DEF CommitEmitSkipped, Pending
  <2>2. PICK i \in c.tasks :
            /\ view' = FoldStep(view, TaskEvent("task.skipped", i))
            /\ todo' = IF c.tasks = {i} THEN Tail(todo)
                       ELSE <<EmitSkipped(c.tasks \ {i})>> \o Tail(todo)
    BY <1>12 DEF CommitEmitSkipped
  <2>3. Effect(c)
    BY <2>1, <2>2 DEF Effect, rows
  <2>4. LeavesBehind(c)
    BY <2>1, <2>2 DEF LeavesBehind
  <2> QED
    BY <2>1, <2>3, <2>4
<1> QED
  BY <1>1, <1>2, <1>3, <1>4, <1>5, <1>6, <1>7, <1>8, <1>9, <1>10, <1>11, <1>12
  DEF Committing

-----------------------------------------------------------------------------
(* What a commit leaves of a paired list                                   *)

(* The event that comes first now announces what was just done.            *)
LEMMA TailPaired ==
    ASSUME NEW s \in Seq(Commit), s # <<>>, Paired(s), NEW t, t = Tail(s)
    PROVE  /\ Paired(t)
           /\ t # <<>> /\ Telling(t[1]) => Announces(t[1], s[1])
           /\ Public(s[1]) => t # <<>> /\ Announces(t[1], s[1])
           /\ LastWord(s[1]) => t = <<>>
<1>1. /\ Len(s) \in Nat /\ Len(s) >= 1 /\ Len(t) = Len(s) - 1
      /\ t \in Seq(Commit) /\ \A k \in 1 .. Len(t) : t[k] = s[k + 1]
  OBVIOUS
<1>0. t # <<>> <=> Len(t) >= 1
  <2>1. t = <<>> => Len(t) = 0
    OBVIOUS
  <2>2. Len(t) = 0 => t = <<>>
    BY <1>1
  <2> QED
    BY <1>1, <2>1, <2>2
<1>2. Paired(t)
  <2> SUFFICES ASSUME NEW k \in 1 .. Len(t)
               PROVE  /\ Public(t[k]) => Followed(t, k)
                      /\ Telling(t[k]) => k = 1 \/ Preceded(t, k)
                      /\ LastWord(t[k]) => k = Len(t)
                      /\ t[k].op = "status" => t[k].status \in {"planning", "running", "cancelled"}
    BY DEF Paired
  <2>1. k + 1 \in 1 .. Len(s) /\ k \in 1 .. Len(s) /\ t[k] = s[k + 1] /\ k + 1 # 1
    BY <1>1
  <2>2. /\ Public(s[k + 1]) => Followed(s, k + 1)
        /\ Telling(s[k + 1]) => Preceded(s, k + 1)
        /\ LastWord(s[k + 1]) => k + 1 = Len(s)
        /\ s[k + 1].op = "status" => s[k + 1].status \in {"planning", "running", "cancelled"}
    BY <2>1 DEF Paired
  <2>3. Followed(s, k + 1) => Followed(t, k)
    <3> SUFFICES ASSUME Followed(s, k + 1) PROVE Followed(t, k)
      OBVIOUS
    <3>1. k + 1 + 1 \in 1 .. Len(s) /\ Announces(s[k + 1 + 1], s[k + 1])
      BY DEF Followed
    <3>2. k + 1 \in 1 .. Len(t) /\ t[k + 1] = s[k + 1 + 1]
      BY <1>1, <3>1
    <3> QED
      BY <2>1, <3>1, <3>2 DEF Followed
  <2>4. Preceded(s, k + 1) => k = 1 \/ Preceded(t, k)
    <3> SUFFICES ASSUME Preceded(s, k + 1), k # 1 PROVE Preceded(t, k)
      OBVIOUS
    <3>1. k - 1 \in 1 .. Len(t) /\ t[k - 1] = s[k] /\ k + 1 - 1 = k
      BY <1>1
    <3> QED
      BY <2>1, <3>1 DEF Preceded
  <2>5. k + 1 = Len(s) => k = Len(t)
    <3>1. \A l, m \in Nat : \A j \in 1 .. l : l = m - 1 /\ j + 1 = m => j = l
      OBVIOUS
    <3>2. Len(t) \in Nat
      BY <1>1
    <3> QED
      BY <1>1, <3>1, <3>2
  <2> QED
    BY <2>1, <2>2, <2>3, <2>4, <2>5
<1>3. ASSUME t # <<>>
      PROVE  /\ Telling(t[1]) => Announces(t[1], s[1])
             /\ ~LastWord(s[1])
  <2>1. 2 \in 1 .. Len(s) /\ 1 \in 1 .. Len(s) /\ t[1] = s[2] /\ 1 # Len(s) /\ 2 # 1 /\ 2 - 1 = 1
    BY <1>0, <1>1, <1>3
  <2> QED
    BY <2>1 DEF Paired, Preceded
<1>4. ASSUME Public(s[1]) PROVE t # <<>> /\ Announces(t[1], s[1])
  <2>1. 1 \in 1 .. Len(s) /\ 1 + 1 = 2
    BY <1>1
  <2>2. 2 \in 1 .. Len(s) /\ Announces(s[2], s[1])
    BY <1>4, <2>1 DEF Paired, Followed
  <2>3. t # <<>> /\ t[1] = s[2]
    BY <1>0, <1>1, <2>2
  <2> QED
    BY <2>2, <2>3
<1> QED
  BY <1>2, <1>3, <1>4

(* A skip, or the event about one skipped task, makes room for the next.   *)
LEMMA SkippedPaired ==
    ASSUME NEW s \in Seq(Commit), s # <<>>, Paired(s), s[1].op \in {"skip", "emitSkipped"},
           NEW S, NEW t, t = <<EmitSkipped(S)>> \o Tail(s)
    PROVE  Paired(t)
<1>1. /\ Len(s) \in Nat /\ Len(s) >= 1 /\ Len(t) = Len(s) /\ t[1] = EmitSkipped(S)
      /\ \A k \in 2 .. Len(s) : t[k] = s[k]
  OBVIOUS
<1>2. 2 \in 1 .. Len(s) => ~Telling(s[2])
  <2>1. \A e : ~Announces(e, s[1])
    BY DEF Announces, Says
  <2> QED
    BY <2>1 DEF Paired, Preceded
<1> SUFFICES ASSUME NEW k \in 1 .. Len(t)
             PROVE  /\ Public(t[k]) => Followed(t, k)
                    /\ Telling(t[k]) => k = 1 \/ Preceded(t, k)
                    /\ LastWord(t[k]) => k = Len(t)
                    /\ t[k].op = "status" => t[k].status \in {"planning", "running", "cancelled"}
  BY DEF Paired
<1>3. CASE k = 1
  BY <1>1, <1>3, EventNature DEF Word
<1>4. CASE k # 1
  <2>1. k \in 1 .. Len(s) /\ t[k] = s[k] /\ k \in 2 .. Len(s)
    BY <1>1, <1>4
  <2>2. Followed(s, k) => Followed(t, k)
    <3>1. k + 1 \in 1 .. Len(s) => t[k + 1] = s[k + 1]
      BY <1>1, <2>1
    <3> QED
      BY <1>1, <2>1, <3>1 DEF Followed
  <2>3. k # 2 /\ Preceded(s, k) => Preceded(t, k)
    <3>1. k # 2 => t[k - 1] = s[k - 1]
      BY <1>1, <2>1
    <3> QED
      BY <1>1, <2>1, <3>1 DEF Preceded
  <2> QED
    BY <1>1, <1>2, <1>4, <2>1, <2>2, <2>3 DEF Paired
<1> QED
  BY <1>3, <1>4

(* What waits after a commit waited behind it, or tells what it skipped.   *)
LEMMA Behind ==
    ASSUME TypeOK, Committing
    PROVE  /\ todo \in Seq(Commit) /\ Len(todo) \in Nat \ {0} /\ 1 \in 1 .. Len(todo)
           /\ Head(todo) = todo[1] /\ Head(todo) \in Waiting /\ Head(todo) \in Commit
           /\ \E d \in {0, 1} :
                 /\ Len(todo') = Len(todo) - d
                 /\ \A k \in 1 .. Len(todo') :
                       \/ d = 0 /\ k = 1 /\ todo'[k].op = "emitSkipped"
                       \/ k + d \in 2 .. Len(todo) /\ todo'[k] = todo[k + d]
<1>1. todo # <<>> /\ todo \in Seq(Commit) /\ LeavesBehind(Head(todo))
  BY CommitEffect DEF TypeOK, ControlOK
<1>2. /\ Len(todo) \in Nat \ {0} /\ 1 \in 1 .. Len(todo)
      /\ Head(todo) = todo[1] /\ Head(todo) \in Waiting /\ Head(todo) \in Commit
  BY <1>1 DEF Waiting
<1>3. CASE todo' = Tail(todo)
  <2>1. /\ Len(todo') = Len(todo) - 1
        /\ \A k \in 1 .. Len(todo') : k + 1 \in 2 .. Len(todo) /\ todo'[k] = todo[k + 1]
    BY <1>1, <1>2, <1>3
  <2> QED
    BY <1>1, <1>2, <2>1
<1>4. ASSUME NEW S, todo' = <<EmitSkipped(S)>> \o Tail(todo)
      PROVE  /\ Len(todo') = Len(todo) - 0
             /\ \A k \in 1 .. Len(todo') :
                   \/ k = 1 /\ todo'[k].op = "emitSkipped"
                   \/ k + 0 \in 2 .. Len(todo) /\ todo'[k] = todo[k + 0]
  BY <1>1, <1>2, <1>4 DEF EmitSkipped
<1> QED
  BY <1>1, <1>2, <1>3, <1>4 DEF LeavesBehind

LEMMA StillWaiting ==
    ASSUME TypeOK, Committing
    PROVE  \A c \in Waiting' : c \in Waiting \/ c.op = "emitSkipped"
<1>1. PICK d \in {0, 1} :
          \A k \in 1 .. Len(todo') :
              \/ todo'[k].op = "emitSkipped"
              \/ k + d \in 1 .. Len(todo) /\ todo'[k] = todo[k + d]
  BY Behind
<1> QED
  BY <1>1 DEF Waiting

-----------------------------------------------------------------------------
(* How a run ends                                                          *)

(* Its outcome is written once, last: what is left behind the commit that  *)
(* ends it writes nothing; before the closed points there is none, nor an  *)
(* answer; and an answer is given once.  Said so that it holds of a run    *)
(* that fails for a fault as well, after it was done.                      *)
EndInv ==
    /\ ClosesLast(todo) /\ AnswersOnce(todo) /\ Ours(todo)
    /\ pc \notin ClosedPoints =>
          /\ NoClose(todo) /\ NoAnswer(todo)
          /\ status \notin TerminalRunStatuses /\ answer = "none"
    /\ status = "failed" => \A c \in Waiting : c.op \notin {"status", "done"}
    /\ NoAnswer(todo) \/ answer = "none"
    /\ pc = "ended" => todo = <<>>

LEMMA DecisionEnds ==
    ASSUME EndInv, NEW from, NEW to, NEW s, Decide(from, to, s), ListFits(from, to, s)
    PROVE  EndInv'
<1>1. /\ pc = from /\ pc' = to /\ todo = <<>> /\ todo' = s
      /\ UNCHANGED <<status, answer, error>>
  BY DEF Decide, durable
<1>2. ClosesLast(todo)' /\ AnswersOnce(todo)' /\ Ours(todo)'
  BY <1>1 DEF ListFits, Orderly, ClosesLast, AnswersOnce, Closes, Writes, GivesAnswer, Ours
<1>3. pc' \notin ClosedPoints =>
          /\ NoClose(todo') /\ NoAnswer(todo')
          /\ status' \notin TerminalRunStatuses /\ answer' = "none"
  BY <1>1 DEF ListFits, EndInv
<1>4. status' = "failed" => \A c \in Waiting' : c.op \notin {"status", "done"}
  BY <1>1 DEF ListFits, EndInv, Waiting, Silent, Says, TerminalRunStatuses
<1>5. NoAnswer(todo') \/ answer' = "none"
  <2>1. "partial" \notin ClosedPoints /\ "stream" \notin ClosedPoints
    BY DEF ClosedPoints
  <2> QED
    BY <1>1, <2>1 DEF ListFits, EndInv
<1>6. pc' = "ended" => todo' = <<>>
  BY <1>1 DEF ListFits
<1> QED
  BY <1>2, <1>3, <1>4, <1>5, <1>6 DEF EndInv, NoClose, NoAnswer, Closes, GivesAnswer, Ours

LEMMA CommitEnds ==
    ASSUME TypeOK, EndInv, Committing
    PROVE  EndInv'
<1> DEFINE c == Head(todo)
<1>1. /\ UNCHANGED pc /\ Effect(c) /\ c = todo[1] /\ c \in Waiting
      /\ 1 \in 1 .. Len(todo) /\ Len(todo) \in Nat
  BY CommitEffect, Behind
<1>2. PICK d \in {0, 1} :
          /\ Len(todo') = Len(todo) - d
          /\ \A k \in 1 .. Len(todo') :
                \/ d = 0 /\ k = 1 /\ todo'[k].op = "emitSkipped"
                \/ k + d \in 2 .. Len(todo) /\ todo'[k] = todo[k + d]
  BY Behind
<1>3. /\ \A e : e.op = "emitSkipped" => ~Closes(e) /\ ~Writes(e) /\ ~GivesAnswer(e)
      /\ \A e : Closes(e) => Writes(e)
  BY DEF Closes, Writes, GivesAnswer
<1> HIDE DEF c
<1>4. ASSUME NEW k \in 1 .. Len(todo')
      PROVE  /\ Writes(todo'[k]) \/ GivesAnswer(todo'[k]) =>
                   k + d \in 2 .. Len(todo) /\ todo'[k] = todo[k + d]
             /\ Closes(c) => ~Writes(todo'[k])
             /\ GivesAnswer(c) => ~GivesAnswer(todo'[k])
             /\ todo'[k].op \in {"status", "done"} => todo'[k] \in Waiting
             /\ NoClose(todo) => ~Closes(todo'[k])
             /\ NoAnswer(todo) => ~GivesAnswer(todo'[k])
  <2>1. CASE todo'[k].op = "emitSkipped"
    BY <1>3, <2>1
  <2>2. CASE k + d \in 2 .. Len(todo) /\ todo'[k] = todo[k + d]
    <3>1. k + d \in 1 .. Len(todo) /\ 1 < k + d /\ 1 # k + d
      BY <1>1, <2>2
    <3> QED
      BY <1>1, <2>2, <3>1 DEF EndInv, ClosesLast, AnswersOnce, NoClose, NoAnswer, Waiting
  <2> QED
    BY <1>2, <2>1, <2>2
<1>5. ClosesLast(todo)'
  <2> SUFFICES ASSUME NEW k \in 1 .. Len(todo'), NEW m \in 1 .. Len(todo'), k < m,
                      Closes(todo'[k])
               PROVE  ~Writes(todo'[m])
    BY DEF ClosesLast, Closes, Writes
  <2>1. CASE Writes(todo'[m])
    <3>1. /\ k + d \in 1 .. Len(todo) /\ todo'[k] = todo[k + d]
          /\ m + d \in 1 .. Len(todo) /\ todo'[m] = todo[m + d]
      BY <1>1, <1>3, <1>4, <2>1
    <3>2. k + d < m + d
      BY <1>1, <1>2
    <3> QED
      BY <3>1, <3>2 DEF EndInv, ClosesLast
  <2> QED
    BY <2>1
<1>6. AnswersOnce(todo)'
  <2> SUFFICES ASSUME NEW k \in 1 .. Len(todo'), NEW m \in 1 .. Len(todo'),
                      GivesAnswer(todo'[k]), GivesAnswer(todo'[m])
               PROVE  k = m
    BY DEF AnswersOnce, GivesAnswer
  <2>1. /\ k + d \in 1 .. Len(todo) /\ todo'[k] = todo[k + d]
        /\ m + d \in 1 .. Len(todo) /\ todo'[m] = todo[m + d]
    BY <1>1, <1>4
  <2>2. k + d = m + d
    BY <2>1 DEF EndInv, AnswersOnce
  <2> QED
    BY <1>1, <1>2, <2>2
<1>7. pc' \notin ClosedPoints =>
          /\ NoClose(todo)' /\ NoAnswer(todo)'
          /\ status' \notin TerminalRunStatuses /\ answer' = "none"
  <2> SUFFICES ASSUME pc \notin ClosedPoints
               PROVE  /\ NoClose(todo)' /\ NoAnswer(todo)'
                      /\ status' \notin TerminalRunStatuses /\ answer' = "none"
    BY <1>1
  <2>1. NoClose(todo) /\ NoAnswer(todo) /\ status \notin TerminalRunStatuses /\ answer = "none"
    BY DEF EndInv
  <2>2. ~Closes(c) /\ ~GivesAnswer(c)
    BY <1>1, <2>1 DEF NoClose, NoAnswer
  <2>3. NoClose(todo)' /\ NoAnswer(todo)'
    BY <1>4, <2>1 DEF NoClose, NoAnswer, Closes, GivesAnswer
  <2> QED
    BY <1>1, <2>1, <2>2, <2>3 DEF Effect, Closes, GivesAnswer
<1>8. status' = "failed" => \A e \in Waiting' : e.op \notin {"status", "done"}
  <2> SUFFICES ASSUME status' = "failed", NEW k \in 1 .. Len(todo')
               PROVE  todo'[k].op \notin {"status", "done"}
    BY DEF Waiting
  <2>1. status = "failed" \/ Closes(c)
    BY <1>1 DEF Effect, Closes, TerminalRunStatuses
  <2> QED
    BY <1>4, <2>1 DEF EndInv, Writes
<1>9. NoAnswer(todo)' \/ answer' = "none"
  <2>1. CASE GivesAnswer(c)
    BY <1>4, <2>1 DEF NoAnswer, GivesAnswer
  <2>2. CASE ~GivesAnswer(c)
    <3>1. answer' = answer
      BY <1>1, <2>2 DEF Effect, GivesAnswer
    <3>2. NoAnswer(todo) => NoAnswer(todo)'
      BY <1>4 DEF NoAnswer, GivesAnswer
    <3> QED
      BY <3>1, <3>2 DEF EndInv
  <2> QED
    BY <2>1, <2>2
<1>10. Ours(todo)'
  <2> SUFFICES ASSUME NEW k \in 1 .. Len(todo'), Closes(todo'[k]), todo'[k].op = "failed"
               PROVE  todo'[k].error # "interrupted"
    BY DEF Ours, Closes
  <2>1. k + d \in 1 .. Len(todo) /\ todo'[k] = todo[k + d]
    BY <1>1, <1>3, <1>4
  <2> QED
    BY <2>1 DEF EndInv, Ours
<1>11. pc' # "ended"
  BY <1>1, CommitEffect DEF EndInv
<1> QED
  BY <1>5, <1>6, <1>7, <1>8, <1>9, <1>10, <1>11
  DEF EndInv, NoClose, NoAnswer, Closes, GivesAnswer, Ours

-----------------------------------------------------------------------------
(* What is left of the plan has its rows                                   *)

LEMMA DecisionPlans ==
    ASSUME TypeOK, PlanInv, NEW from, NEW to, NEW s, Decide(from, to, s), PlanFits(from, to, s)
    PROVE  PlanInv'
<1>1. /\ pc = from /\ pc' = to /\ todo = <<>> /\ todo' = s /\ tasks' = tasks
      /\ Waiting = {}
  BY DEF Decide, durable, Waiting
<1>2. ASSUME pc' \in AtRest \cup InFlight, NEW i \in cur' .. last' PROVE Rowed(i)'
  <2>1. CASE from \in AtRest \cup InFlight /\ i \in cur .. last
    BY <1>1, <2>1 DEF PlanInv, Rowed
  <2>2. CASE Adds(s, i)
    BY <1>1, <2>2 DEF Adds, Rowed, Waiting, Span
  <2> QED
    BY <1>1, <1>2, <2>1, <2>2 DEF PlanFits
<1>3. \A c \in Waiting' : Touches(c) \subseteq DOMAIN tasks'
  BY <1>1 DEF PlanFits, TouchesIn, Waiting
<1> QED
  BY <1>1, <1>2, <1>3 DEF PlanInv, PlanFits, Touches

(* No commit takes a row away, and the rows a plan adds are there at once. *)
LEMMA CommitRows ==
    ASSUME TypeOK, Committing
    PROVE  /\ DOMAIN tasks \subseteq DOMAIN tasks'
           /\ Head(todo).op = "add" => Span(Head(todo)) \subseteq DOMAIN tasks'
           /\ Head(todo).op # "add" => DOMAIN tasks' = DOMAIN tasks
<1>1. Effect(Head(todo))
  BY CommitEffect
<1> QED
  BY <1>1 DEF Effect, WithPlan, Span

LEMMA CommitPlans ==
    ASSUME TypeOK, PlanInv, Committing
    PROVE  PlanInv'
<1> DEFINE c == Head(todo)
<1>1. /\ UNCHANGED <<pc, cur, last>> /\ c \in Waiting
      /\ \A e \in Waiting' : e \in Waiting \/ e.op = "emitSkipped"
  BY CommitEffect, Behind, StillWaiting DEF local, plan
<1>2. /\ DOMAIN tasks \subseteq DOMAIN tasks'
      /\ c.op = "add" => Span(c) \subseteq DOMAIN tasks'
  BY CommitRows
<1>3. \A e \in Waiting : e = c \/ e \in Waiting'
  <2>1. LeavesBehind(c) /\ todo \in Seq(Commit) /\ todo # <<>>
    BY CommitEffect DEF TypeOK, ControlOK
  <2>2. CASE todo' = Tail(todo)
    <3>1. \A k \in 1 .. Len(todo) :
             k = 1 \/ (k - 1 \in 1 .. Len(todo') /\ todo'[k - 1] = todo[k])
      BY <2>1, <2>2
    <3> QED
      BY <2>1, <3>1 DEF Waiting
  <2>3. ASSUME NEW S, todo' = <<EmitSkipped(S)>> \o Tail(todo)
        PROVE  \A e \in Waiting : e = c \/ e \in Waiting'
    <3>1. \A k \in 1 .. Len(todo) : k = 1 \/ (k \in 1 .. Len(todo') /\ todo'[k] = todo[k])
      BY <2>1, <2>3
    <3> QED
      BY <2>1, <3>1 DEF Waiting
  <2> QED
    BY <2>1, <2>2, <2>3 DEF LeavesBehind
<1> HIDE DEF c
<1>4. ASSUME NEW i, Rowed(i) PROVE Rowed(i)'
  BY <1>2, <1>3, <1>4 DEF Rowed, Span
<1>5. \A e \in Waiting' : Touches(e) \subseteq DOMAIN tasks'
  <2>1. \A e : e.op = "emitSkipped" => Touches(e) = {}
    BY DEF Touches
  <2> QED
    BY <1>1, <1>2, <2>1 DEF PlanInv
<1> QED
  BY <1>1, <1>4, <1>5 DEF PlanInv, Touches

(* The two steps that begin a run and ask for its end, and those that stay.*)
LEMMA AsideSteps ==
    ASSUME CancelRun \/ Ended \/ UNCHANGED vars
    PROVE  UNCHANGED <<status, answer, error, tasks, view, pc, todo, cur, last, attempts,
                       attempt>>
  BY DEF CancelRun, Ended, vars, durable, local, plan, turn

LEMMA DecidingSteps ==
    ASSUME [Next]_vars
    PROVE  \/ CreateRun \/ Committing
           \/ Planning \/ Executing \/ Judging \/ Answering
           \/ CancelRun \/ Ended \/ UNCHANGED vars
  BY DEF Next, Execute

LEMMA EndStep ==
    ASSUME TypeOK, EndInv, PlanInv, [Next]_vars
    PROVE  EndInv'
<1>1. CASE CreateRun
  <2>1. PICK c : c = Emit(Plain("run.created"))
    OBVIOUS
  <2>2. todo' = <<c>> /\ pc = "none" /\ pc' = "register" /\ status' = "created" /\ answer' = answer
    BY <1>1, <2>1 DEF CreateRun
  <2>3. ~Closes(c) /\ ~GivesAnswer(c) /\ c.op \notin {"status", "done"}
    BY <2>1 DEF Closes, GivesAnswer, Emit
  <2>4. answer = "none"
    BY <2>2 DEF EndInv, ClosedPoints
  <2>5. \A k \in 1 .. Len(todo') :
            ~Closes(todo'[k]) /\ ~GivesAnswer(todo'[k]) /\ todo'[k].op \notin {"status", "done"}
    BY <2>2, <2>3
  <2>6. /\ ClosesLast(todo)' /\ AnswersOnce(todo)' /\ NoClose(todo)' /\ NoAnswer(todo)'
        /\ Ours(todo)'
    BY <2>5 DEF ClosesLast, AnswersOnce, NoClose, NoAnswer, GivesAnswer, Closes, Ours
  <2> QED
    BY <2>4, <2>5, <2>6, <2>2 DEF EndInv, Waiting, TerminalRunStatuses
<1>2. CASE Planning \/ Executing \/ Judging \/ Answering
  BY <1>2, EveryDecisionFits, DecisionEnds DEF Decides, Decision
<1>3. CASE Committing
  BY <1>3, CommitEnds
<1>4. CASE CancelRun \/ Ended \/ UNCHANGED vars
  <2>1. UNCHANGED <<status, answer, pc, todo>>
    BY <1>4, AsideSteps
  <2> QED
    BY <2>1 DEF EndInv, ClosesLast, AnswersOnce, NoClose, NoAnswer, Waiting, Closes, Writes,
       GivesAnswer, Ours
<1> QED
  BY <1>1, <1>2, <1>3, <1>4, DecidingSteps

LEMMA PlanStep ==
    ASSUME TypeOK, PlanInv, [Next]_vars
    PROVE  PlanInv'
<1>1. CASE CreateRun
  <2>1. PICK c : c = Emit(Plain("run.created"))
    OBVIOUS
  <2>2. todo' = <<c>> /\ pc' = "register" /\ Touches(c) = {}
    BY <1>1, <2>1 DEF CreateRun, Touches, Emit
  <2> QED
    BY <2>2 DEF PlanInv, Waiting, AtRest, InFlight, Touches
<1>2. CASE Planning \/ Executing \/ Judging \/ Answering
  BY <1>2, EveryDecisionFits, DecisionPlans DEF Decides, Decision
<1>3. CASE Committing
  BY <1>3, CommitPlans
<1>4. CASE CancelRun \/ Ended \/ UNCHANGED vars
  <2>1. UNCHANGED <<tasks, pc, todo, cur, last>>
    BY <1>4, AsideSteps
  <2> QED
    BY <2>1 DEF PlanInv, Rowed, Waiting, Touches, Span
<1> QED
  BY <1>1, <1>2, <1>3, <1>4, DecidingSteps

-----------------------------------------------------------------------------
(* The rows lead the ledger                                                *)

(* What an event about to be appended says is in the rows.                 *)
True(c) ==
    /\ c.op = "emitSkipped" =>
          \A i \in c.tasks : i \in DOMAIN tasks /\ tasks[i] = "skipped"
    /\ Says(c, TaskEventTypes) =>
          /\ c.event.index \in DOMAIN tasks
          /\ tasks[c.event.index] = TaskEventStatus(c.event.type)
    /\ Says(c, PlanEventTypes) =>
          \A i \in Span(c.event) : i \in DOMAIN tasks /\ tasks[i] = "pending"
    /\ Says(c, {"answer.completed"}) =>
          /\ answer = c.event.text /\ answer # "none"
          /\ answer = "full" => status = "done"
    /\ Says(c, {"run.completed"}) => status = "done"
    /\ Says(c, {"run.cancelled"}) => status = "cancelled"
    /\ Says(c, {"run.failed"}) => status = "failed" /\ error = c.event.error

Owing == Len(todo) > 0 /\ Telling(todo[1])

(* A terminal event is the last: only events that no fold reads wait       *)
(* behind it.                                                              *)
LeadInv ==
    /\ Paired(todo)
    /\ Owing => True(todo[1])
    /\ RowsLeadLedger
    /\ view.terminal =>
          /\ pc \in ClosedPoints /\ status \in TerminalRunStatuses
          /\ \A c \in Waiting : Silent(c)
    /\ ~view.terminal => view.error = "none"
    /\ status # "failed" => error = "none"

LEMMA DecisionLeads ==
    ASSUME LeadInv, NEW from, NEW to, NEW s, Decide(from, to, s), ListFits(from, to, s)
    PROVE  LeadInv'
<1>1. /\ pc = from /\ pc' = to /\ todo' = s
      /\ UNCHANGED <<status, answer, error, tasks, view>>
  BY DEF Decide, durable
<1>2. Paired(todo)'
  <2>1. Paired(todo')
    BY <1>1 DEF ListFits, Orderly, Fresh
  <2> QED
    BY <2>1, Zenon
    DEF Paired, Followed, Preceded, Public, Telling, LastWord, Says, Announces
<1>3. ~Owing'
  BY <1>1 DEF ListFits, Orderly, Fresh, Owing, Telling, Says
<1>4. view'.terminal =>
          /\ pc' \in ClosedPoints /\ status' \in TerminalRunStatuses
          /\ \A c \in Waiting' : Silent(c)
  BY <1>1 DEF LeadInv, ListFits, Waiting
<1> QED
  BY <1>1, <1>2, <1>3, <1>4 DEF LeadInv, RowsLeadLedger, Silent, Says

(* The event that comes first once a commit is performed says what it did. *)
LEMMA CommitTells ==
    ASSUME TypeOK, PlanInv, LeadInv, Committing
    PROVE  Paired(todo)' /\ (Owing' => True(todo[1])')
<1> DEFINE c == Head(todo)
<1>1. /\ Effect(c) /\ LeavesBehind(c) /\ c = todo[1] /\ c \in Waiting
      /\ todo \in Seq(Commit) /\ todo # <<>> /\ Len(todo) > 0
  BY CommitEffect, Behind
<1>2. Paired(todo) /\ (Telling(c) => True(c))
  BY <1>1 DEF LeadInv, Owing
<1>0. PICK e : e = todo'[1]
  OBVIOUS
<1>3. CASE todo' = Tail(todo)
  <2>1. Paired(todo') /\ (todo' # <<>> /\ Telling(e) => Announces(e, c))
    BY <1>0, <1>1, <1>2, <1>3, TailPaired
  <2>2. ASSUME Announces(e, c) PROVE True(e)'
    <3> HIDE DEF c
    <3>1. CASE /\ c.op = "mark" /\ Says(e, TaskEventTypes)
               /\ e.event.index = c.index /\ TaskEventStatus(e.event.type) = c.status
      <4>1. c.index \in DOMAIN tasks
        BY <1>1, <3>1 DEF PlanInv, Touches
      <4>2. c.index \in DOMAIN tasks' /\ tasks'[c.index] = c.status
        BY <1>1, <3>1, <4>1 DEF Effect
      <4> QED
        BY <3>1, <4>2 DEF True, Says, TaskEventTypes, PlanEventTypes
    <3>2. CASE c.op = "drop" /\ e.op = "emitSkipped" /\ e.tasks = c.tasks
      <4>1. \A i \in c.tasks : i \in DOMAIN tasks
        BY <1>1, <3>2 DEF PlanInv, Touches
      <4>2. \A i \in c.tasks : i \in DOMAIN tasks' /\ tasks'[i] = "skipped"
        BY <1>1, <3>2, <4>1 DEF Effect
      <4> QED
        BY <3>2, <4>2 DEF True, Says
    <3>3. CASE /\ c.op = "add" /\ Says(e, PlanEventTypes)
               /\ e.event.start = c.start /\ e.event.count = c.count
      <4>1. \A i \in Span(c) : i \in DOMAIN tasks' /\ tasks'[i] = "pending"
        BY <1>1, <3>3 DEF Effect, WithPlan, Span
      <4>2. Span(e.event) = Span(c)
        BY <3>3 DEF Span
      <4> QED
        BY <3>3, <4>1, <4>2 DEF True, Says, TaskEventTypes, PlanEventTypes
    <3>4. CASE c.op = "answer" /\ Says(e, {"answer.completed"}) /\ e.event.text = "partial"
      BY <1>1, <3>4 DEF Effect, True, Says, TaskEventTypes, PlanEventTypes
    <3>5. CASE c.op = "done" /\ Says(e, {"answer.completed"}) /\ e.event.text = "full"
      BY <1>1, <3>5 DEF Effect, True, Says, TaskEventTypes, PlanEventTypes
    <3>6. CASE /\ Says(c, {"answer.completed"}) /\ c.event.text = "full"
               /\ Says(e, {"run.completed"})
      <4>1. Telling(c)
        BY <3>6 DEF Telling, Says, TellingTypes
      <4>2. status = "done" /\ status' = status
        BY <1>1, <1>2, <3>6, <4>1 DEF True, Effect, Says
      <4> QED
        BY <3>6, <4>2 DEF True, Says, TaskEventTypes, PlanEventTypes
    <3>7. CASE c.op = "failed" /\ Says(e, {"run.failed"}) /\ e.event.error = c.error
      BY <1>1, <3>7 DEF Effect, True, Says, TaskEventTypes, PlanEventTypes
    <3>8. CASE c.op = "status" /\ c.status = "cancelled" /\ Says(e, {"run.cancelled"})
      BY <1>1, <3>8 DEF Effect, True, Says, TaskEventTypes, PlanEventTypes
    <3> QED
      BY <2>2, <3>1, <3>2, <3>3, <3>4, <3>5, <3>6, <3>7, <3>8 DEF Announces
  <2>3. Owing' => todo' # <<>> /\ Telling(e)
    BY <1>0 DEF Owing, Telling, Says
  <2>4. True(e)' => True(todo[1])'
    BY <1>0 DEF True, Says, Span
  <2> QED
    BY <2>1, <2>2, <2>3, <2>4
    DEF Paired, Followed, Preceded, Public, Telling, LastWord, Says, Announces
<1>4. ASSUME NEW S, todo' = <<EmitSkipped(S)>> \o Tail(todo),
             c.op \in {"skip", "emitSkipped"},
             \A i \in S : i \in DOMAIN tasks' /\ tasks'[i] = "skipped"
      PROVE  Paired(todo)' /\ True(todo[1])'
  <2>1. Paired(todo')
    BY <1>1, <1>2, <1>4, SkippedPaired
  <2>2. todo'[1].op = "emitSkipped" /\ todo'[1].tasks = S
    BY <1>1, <1>4 DEF EmitSkipped
  <2> QED
    BY <1>4, <2>1, <2>2
    DEF Paired, Followed, Preceded, Public, Telling, LastWord, Says, Announces, True
<1>5. CASE /\ c.op = "skip"
           /\ todo' = <<EmitSkipped({i \in DOMAIN tasks : tasks[i] = "pending"})>> \o Tail(todo)
  <2>1. \A i \in DOMAIN tasks : tasks[i] = "pending" =>
            i \in DOMAIN tasks' /\ tasks'[i] = "skipped"
    BY <1>1, <1>5 DEF Effect
  <2> QED
    BY <1>4, <1>5, <2>1
<1>6. CASE /\ c.op = "emitSkipped"
           /\ \E i \in c.tasks : todo' = <<EmitSkipped(c.tasks \ {i})>> \o Tail(todo)
  <2>1. \A i \in c.tasks : i \in DOMAIN tasks' /\ tasks'[i] = "skipped"
    <3>1. Telling(c) /\ tasks' = tasks
      BY <1>1, <1>6 DEF Telling, Effect
    <3> QED
      BY <1>2, <1>6, <3>1 DEF True
  <2> QED
    BY <1>4, <1>6, <2>1
<1> QED
  BY <1>1, <1>3, <1>5, <1>6 DEF LeavesBehind

(* What the event appended by a commit says.                               *)
Honest(e) ==
    /\ e \in Event
    /\ e.type \in TaskEventTypes =>
          e.index \in DOMAIN tasks /\ tasks[e.index] = TaskEventStatus(e.type)
    /\ e.type \in PlanEventTypes =>
          \A i \in Span(e) : i \in DOMAIN tasks /\ tasks[i] = "pending"
    /\ e.type = "answer.completed" => answer = e.text
    /\ e.type = "run.completed" => status = "done"
    /\ e.type = "run.cancelled" => status = "cancelled"
    /\ e.type = "run.failed" => status = "failed" /\ error = e.error

LEMMA CommitAppends ==
    ASSUME TypeOK, LeadInv, Committing, Head(todo).op \in {"emit", "emitSkipped"}
    PROVE  \E e : /\ Honest(e) /\ Reads(view, e, view')
                  /\ UNCHANGED <<status, answer, error, tasks>>
                  /\ Head(todo).op = "emit" => e = Head(todo).event
                  /\ Head(todo).op = "emitSkipped" =>
                        /\ e.type = "task.skipped" /\ e.index \in Head(todo).tasks
                        /\ \A j \in Head(todo).tasks :
                              \/ j = e.index
                              \/ /\ Len(todo') > 0 /\ todo'[1].op = "emitSkipped"
                                 /\ j \in todo'[1].tasks
<1> DEFINE c == Head(todo)
<1>1. /\ Effect(c) /\ c = todo[1] /\ c \in Commit /\ Len(todo) > 0
      /\ LeavesBehind(c) /\ todo \in Seq(Commit) /\ todo # <<>>
  BY CommitEffect, Behind
<1>2. (Telling(c) => True(c)) /\ IsReplayState(view)
  BY <1>1 DEF LeadInv, Owing, TypeOK
<1> HIDE DEF c
<1>3. UNCHANGED <<status, answer, error, tasks>>
  BY <1>1 DEF Effect, c
<1>4. CASE c.op = "emit"
  <2>1. c.event \in Event /\ view' = FoldStep(view, c.event)
    BY <1>1, <1>4, CommitFields DEF Effect
  <2>2. Honest(c.event)
    <3>1. CASE c.event.type \in TellingTypes
      <4>1. True(c)
        BY <1>2, <1>4, <3>1 DEF Telling, Says
      <4> QED
        BY <1>4, <2>1, <4>1 DEF True, Says, Honest
    <3>2. CASE c.event.type \notin TellingTypes
      BY <2>1, <3>2 DEF Honest, TellingTypes, ClosingTypes
    <3> QED
      BY <3>1, <3>2
  <2> QED
    BY <1>2, <1>3, <1>4, <2>1, <2>2, FoldReads DEF c
<1>5. CASE c.op = "emitSkipped"
  <2>1. PICK i \in c.tasks :
            /\ view' = FoldStep(view, TaskEvent("task.skipped", i))
            /\ \A j \in c.tasks :
                  \/ j = i
                  \/ /\ Len(todo') > 0 /\ todo'[1].op = "emitSkipped"
                     /\ j \in todo'[1].tasks
    <3>1. ASSUME NEW i, c.tasks = {i}, view' = FoldStep(view, TaskEvent("task.skipped", i))
          PROVE  i \in c.tasks /\ \A j \in c.tasks : j = i
      BY <3>1
    <3>2. ASSUME NEW i \in c.tasks, todo' = <<EmitSkipped(c.tasks \ {i})>> \o Tail(todo)
          PROVE  \A j \in c.tasks :
                     j = i \/ (Len(todo') > 0 /\ todo'[1].op = "emitSkipped"
                                 /\ j \in todo'[1].tasks)
      <4>1. PICK x : x = EmitSkipped(c.tasks \ {i})
        OBVIOUS
      <4>2. Len(todo') > 0 /\ todo'[1] = x
        BY <1>1, <3>2, <4>1
      <4>3. x.op = "emitSkipped" /\ x.tasks = c.tasks \ {i}
        BY <4>1 DEF EmitSkipped
      <4> QED
        BY <4>2, <4>3
    <3> QED
      BY <1>1, <1>5, <3>1, <3>2 DEF LeavesBehind
  <2>2. i \in Nat /\ i \in DOMAIN tasks /\ tasks[i] = "skipped"
    BY <1>1, <1>2, <1>5, CommitFields DEF Telling, True
  <2>3. PICK e : e = TaskEvent("task.skipped", i)
    OBVIOUS
  <2>4. e \in Event /\ e.type = "task.skipped" /\ e.index = i
    BY <2>2, <2>3, EventTypes DEF TaskEvent, TaskEventTypes
  <2>5. Honest(e)
    BY <2>2, <2>4 DEF Honest, PlanEventTypes, TaskEventStatus
  <2>6. Reads(view, e, view')
    BY <1>2, <2>1, <2>3, <2>4, FoldReads
  <2> QED
    BY <1>3, <1>5, <2>1, <2>4, <2>5, <2>6 DEF c
<1> QED
  BY <1>4, <1>5 DEF c

LEMMA CommitLeads ==
    ASSUME TypeOK, TasksInv, EndInv, PlanInv, LeadInv, Committing
    PROVE  LeadInv'
<1> DEFINE c == Head(todo)
<1>1. /\ UNCHANGED pc /\ Effect(c) /\ c = todo[1] /\ c \in Waiting /\ c \in Commit
      /\ \A e \in Waiting' : e \in Waiting \/ e.op = "emitSkipped"
      /\ Len(todo) \in Nat /\ 1 \in 1 .. Len(todo)
  BY CommitEffect, Behind, StillWaiting
<1>2. FinalKept /\ Paired(todo)' /\ (Owing' => True(todo[1])')
  BY CommittingTasks, CommitTells
<1>3. IsReplayState(view) /\ view.terminal \in BOOLEAN
  BY DEF TypeOK, IsReplayState
<1> HIDE DEF c
<1>4. CASE c.op \notin {"emit", "emitSkipped"}
  <2>1. view' = view /\ ~view.terminal
    BY <1>1, <1>4 DEF Effect, LeadInv, Silent, Says
  <2>2. view.answer # "none" => answer' = view.answer
    <3> SUFFICES ASSUME view.answer # "none" PROVE answer' = view.answer
      OBVIOUS
    <3>1. answer = view.answer
      BY DEF LeadInv, RowsLeadLedger
    <3>2. ~GivesAnswer(c)
      BY <1>1, <3>1 DEF EndInv, NoAnswer
    <3> QED
      BY <1>1, <3>1, <3>2 DEF Effect, GivesAnswer
  <2>3. \A i \in DOMAIN view.tasks :
            /\ i \in DOMAIN tasks'
            /\ view.tasks[i] \in TerminalTaskStatuses => tasks'[i] = view.tasks[i]
    BY <1>2, CommitRows DEF LeadInv, RowsLeadLedger, FinalKept, Final
  <2>4. status' # "failed" => error' = "none"
    BY <1>1 DEF LeadInv, Effect, EndInv
  <2>5. RowsLeadLedger'
    BY <2>1, <2>2, <2>3 DEF RowsLeadLedger
  <2> QED
    BY <1>2, <2>1, <2>4, <2>5 DEF LeadInv
<1>5. CASE c.op \in {"emit", "emitSkipped"}
  <2>1. PICK e : /\ Honest(e) /\ Reads(view, e, view')
                 /\ UNCHANGED <<status, answer, error, tasks>>
                 /\ c.op = "emit" => e = c.event
                 /\ c.op = "emitSkipped" => e.type = "task.skipped"
    BY <1>5, CommitAppends DEF c
  <2>2. status' # "failed" => error' = "none"
    BY <2>1 DEF LeadInv
  <2>3. CASE view.terminal
    <3>1. Silent(c)
      BY <1>1, <2>3 DEF LeadInv
    <3>2. view' = view
      BY <2>1, <3>1 DEF Silent, Says, Reads, SilentEventTypes
    <3>3. todo' = Tail(todo)
      BY <3>1, CommitEffect DEF Silent, Says, LeavesBehind, c
    <3>4. \A e2 \in Waiting' : Silent(e2)
      <4>1. \A k \in 1 .. Len(todo') : k + 1 \in 1 .. Len(todo) /\ todo'[k] = todo[k + 1]
        BY <1>1, <3>3 DEF TypeOK, ControlOK
      <4> QED
        BY <2>3, <4>1 DEF LeadInv, Waiting
    <3> QED
      BY <1>1, <1>2, <2>1, <2>2, <2>3, <3>2, <3>4
      DEF LeadInv, RowsLeadLedger, Silent, Says
  <2>4. CASE ~view.terminal
    <3>1. /\ view.error = "none"
          /\ view.answer # "none" => answer = view.answer
      BY <2>4 DEF LeadInv, RowsLeadLedger
    <3>2. view'.terminal => status' = view'.status /\ error' = view'.error
      BY <2>1, <2>2, <2>4, <3>1 DEF Reads, Honest, ClosingTypes
    <3>3. view'.answer # "none" => answer' = view'.answer
      BY <2>1, <3>1 DEF Reads, Honest
    <3>4. \A i \in DOMAIN view'.tasks :
              /\ i \in DOMAIN tasks'
              /\ view'.tasks[i] \in TerminalTaskStatuses => tasks'[i] = view'.tasks[i]
      <4>1. \A i \in DOMAIN view.tasks :
                /\ i \in DOMAIN tasks
                /\ view.tasks[i] \in TerminalTaskStatuses => tasks[i] = view.tasks[i]
        BY DEF LeadInv, RowsLeadLedger
      <4>2. CASE e.type \in PlanEventTypes
        <5>1. view'.tasks = WithPlan(view.tasks, e.start, e.count)
          BY <2>1, <4>2 DEF Reads
        <5>2. \A i \in Span(e) : i \in DOMAIN tasks
          BY <2>1, <4>2 DEF Honest
        <5> QED
          BY <2>1, <4>1, <5>1, <5>2 DEF WithPlan, Span, TerminalTaskStatuses
      <4>3. CASE e.type \in TaskEventTypes
        <5>1. view'.tasks = WithTask(view.tasks, e.index, TaskEventStatus(e.type))
          BY <2>1, <4>3 DEF Reads
        <5>2. e.index \in DOMAIN tasks /\ tasks[e.index] = TaskEventStatus(e.type)
          BY <2>1, <4>3 DEF Honest
        <5> QED
          BY <2>1, <4>1, <5>1, <5>2 DEF WithTask
      <4>4. CASE e.type \notin PlanEventTypes \cup TaskEventTypes
        BY <2>1, <4>1, <4>4 DEF Reads
      <4> QED
        BY <4>2, <4>3, <4>4
    <3>5. RowsLeadLedger'
      BY <3>2, <3>3, <3>4 DEF RowsLeadLedger
    <3>6. view'.terminal =>
              /\ pc' \in ClosedPoints /\ status' \in TerminalRunStatuses
              /\ \A e2 \in Waiting' : Silent(e2)
      <4> SUFFICES ASSUME view'.terminal
                   PROVE  /\ pc \in ClosedPoints /\ status' \in TerminalRunStatuses
                          /\ Waiting' = {}
        BY <1>1 DEF Silent, Says
      <4>1. e.type \in ClosingTypes
        BY <2>1, <2>4 DEF Reads
      <4>2. status \in TerminalRunStatuses
        BY <2>1, <4>1 DEF Honest, ClosingTypes, TerminalRunStatuses
      <4>3. LastWord(c)
        BY <1>5, <2>1, <4>1 DEF LastWord, Says, ClosingTypes
      <4>4. todo' = Tail(todo)
        BY <4>3, CommitEffect DEF LastWord, Says, LeavesBehind, c
      <4>5. todo' = <<>>
        <5>1. todo \in Seq(Commit) /\ todo # <<>> /\ Paired(todo)
          BY CommitEffect DEF TypeOK, ControlOK, LeadInv
        <5> QED
          BY <1>1, <4>3, <4>4, <5>1, TailPaired
      <4> QED
        BY <2>1, <4>2, <4>5 DEF EndInv, Waiting
    <3>7. ~view'.terminal => view'.error = "none"
      BY <2>1, <3>1 DEF Reads, ClosingTypes
    <3> QED
      BY <1>2, <2>2, <3>5, <3>6, <3>7 DEF LeadInv
  <2> QED
    BY <1>3, <2>3, <2>4
<1> QED
  BY <1>4, <1>5

LEMMA LeadStep ==
    ASSUME TypeOK, TasksInv, EndInv, PlanInv, LeadInv, [Next]_vars
    PROVE  LeadInv'
<1>1. CASE CreateRun
  <2>1. PICK c : c = Emit(Plain("run.created"))
    OBVIOUS
  <2>2. /\ todo' = <<c>> /\ pc = "none" /\ status' = "created"
        /\ UNCHANGED <<answer, error, tasks, view>>
    BY <1>1, <2>1 DEF CreateRun
  <2>3. ~Telling(c) /\ ~Public(c) /\ ~LastWord(c) /\ c.op = "emit"
    BY <2>1 DEF Telling, Public, LastWord, Says, Emit, Plain, TellingTypes, ClosingTypes,
       TaskEventTypes, PlanEventTypes
  <2>4. Paired(<<c>>)
    BY <2>3 DEF Paired
  <2>5. ~view.terminal /\ status \notin TerminalRunStatuses
    BY <2>2 DEF LeadInv, EndInv, ClosedPoints
  <2>6. Len(todo') = 1 /\ todo'[1] = c
    BY <2>2
  <2>7. ~Owing'
    BY <2>3, <2>6 DEF Owing, Telling, Says
  <2>8. error' = "none"
    BY <2>2, <2>5 DEF LeadInv, TerminalRunStatuses
  <2> QED
    BY <2>2, <2>4, <2>5, <2>7, <2>8 DEF LeadInv, RowsLeadLedger, Paired, Followed, Preceded,
       Public, Telling, LastWord, Says, Announces
<1>2. CASE Planning \/ Executing \/ Judging \/ Answering
  BY <1>2, EveryDecisionFits, DecisionLeads DEF Decides, Decision
<1>3. CASE Committing
  BY <1>3, CommitLeads
<1>4. CASE CancelRun \/ Ended \/ UNCHANGED vars
  <2>1. UNCHANGED <<status, answer, error, tasks, view, pc, todo>>
    BY <1>4, AsideSteps
  <2> QED
    BY <2>1 DEF LeadInv, RowsLeadLedger, Owing, True, Waiting, Paired, Followed, Preceded,
       Public, Telling, LastWord, Says, Announces, Silent, Span
<1> QED
  BY <1>1, <1>2, <1>3, <1>4, DecidingSteps

(* In every reachable state what waits is in pairs, the run's end last,    *)
(* and the plan has its rows.                                              *)
BookInv == EndInv /\ PlanInv /\ LeadInv

LEMMA InitBook == ASSUME Init PROVE BookInv
<1>1. /\ pc = "none" /\ todo = <<>> /\ status = "none" /\ answer = "none" /\ error = "none"
      /\ view = ReplayState0 /\ Len(todo) = 0
  BY DEF Init
<1>2. Waiting = {}
  BY <1>1 DEF Waiting
<1>3. EndInv
  BY <1>1, <1>2 DEF EndInv, ClosesLast, AnswersOnce, NoClose, NoAnswer, TerminalRunStatuses,
     Ours
<1>4. PlanInv
  BY <1>1, <1>2 DEF PlanInv, AtRest, InFlight
<1>5. LeadInv
  BY <1>1, <1>2 DEF LeadInv, Paired, Owing, RowsLeadLedger, ReplayState0, NoTasks
<1> QED
  BY <1>3, <1>4, <1>5 DEF BookInv

(* In every reachable state each event that waits is led by the commit it  *)
(* tells of, a plan's events wait in plan order, and rows and ledger are   *)
(* apart by no more than what waits.                                       *)
THEOREM BookInvariant == Spec => []BookInv
<1>1. Init => BookInv
  BY InitBook
<1>2. TypeOK /\ TasksInv /\ BookInv /\ [Next]_vars => BookInv'
  BY EndStep, PlanStep, LeadStep DEF BookInv
<1> QED
  BY <1>1, <1>2, TypeInvariant, TasksInvariant, PTL DEF Spec

(* No event announces what the rows do not hold: a client that reads the   *)
(* run because of an event finds at least what the event said.             *)
THEOREM RowsLead == Spec => []RowsLeadLedger
<1>1. BookInv => RowsLeadLedger
  BY DEF BookInv, LeadInv
<1> QED
  BY <1>1, BookInvariant, PTL

-----------------------------------------------------------------------------
(* A run that is over has been ended                                       *)

CloseInv == pc \in ClosedPoints => status \in TerminalRunStatuses \/ HasClose(todo)

LEMMA DecisionCloses ==
    ASSUME CloseInv, NEW from, NEW to, NEW s, Decide(from, to, s), ListFits(from, to, s)
    PROVE  CloseInv'
<1>1. pc = from /\ pc' = to /\ todo = <<>> /\ todo' = s /\ status' = status
  BY DEF Decide, durable
<1>2. ~HasClose(todo)
  BY <1>1 DEF HasClose
<1>3. HasClose(s) => HasClose(todo)'
  BY <1>1 DEF HasClose, Closes
<1> QED
  BY <1>1, <1>2, <1>3 DEF CloseInv, ListFits

LEMMA CommitCloses ==
    ASSUME TypeOK, OutcomeInv, CloseInv, Committing
    PROVE  CloseInv'
<1> DEFINE c == Head(todo)
<1>1. /\ Effect(c) /\ c = todo[1] /\ Len(todo) > 0 /\ pc' = pc
      /\ Len(todo) \in Nat /\ 1 \in 1 .. Len(todo) /\ LeavesBehind(c)
  BY CommitEffect, Behind
<1> HIDE DEF c
<1>3. pc' \in ClosedPoints => status' \in TerminalRunStatuses \/ HasClose(todo)'
  <2> SUFFICES ASSUME pc \in ClosedPoints
               PROVE  status' \in TerminalRunStatuses \/ HasClose(todo)'
    BY <1>1
  <2>1. CASE Closes(c)
    BY <1>1, <2>1 DEF Closes, Effect, TerminalRunStatuses
  <2>2. CASE status \in TerminalRunStatuses
    <3>1. ~Writes(c)
      BY <1>1, <2>2 DEF OutcomeInv, NoWrite
    <3> QED
      BY <1>1, <2>2, <3>1 DEF Writes, Effect
  <2>3. CASE ~Closes(c) /\ HasClose(todo)
    <3>1. PICK k \in 1 .. Len(todo) : Closes(todo[k])
      BY <2>3 DEF HasClose
    <3>2. k # 1 /\ todo \in Seq(Commit) /\ todo # <<>>
      BY <1>1, <2>3, <3>1 DEF TypeOK, ControlOK
    <3>3. PICK m \in 1 .. Len(todo') : todo'[m] = todo[k]
      <4>1. CASE todo' = Tail(todo)
        <5>1. k - 1 \in 1 .. Len(todo') /\ todo'[k - 1] = todo[k]
          BY <1>1, <3>1, <3>2, <4>1
        <5> QED
          BY <5>1
      <4>2. ASSUME NEW S, todo' = <<EmitSkipped(S)>> \o Tail(todo)
            PROVE  k \in 1 .. Len(todo') /\ todo'[k] = todo[k]
        BY <1>1, <3>1, <3>2, <4>2
      <4> QED
        BY <1>1, <4>1, <4>2 DEF LeavesBehind
    <3>4. Closes(todo[m])'
      BY <3>1, <3>3 DEF Closes
    <3> QED
      BY <3>3, <3>4 DEF HasClose
  <2> QED
    BY <2>1, <2>2, <2>3 DEF CloseInv
<1> QED
  BY <1>3 DEF CloseInv, HasClose, Closes

LEMMA CloseStep ==
    ASSUME TypeOK, OutcomeInv, PlanInv, CloseInv, [Next]_vars
    PROVE  CloseInv'
<1>1. CASE CreateRun
  BY <1>1 DEF CreateRun, CloseInv, ClosedPoints
<1>2. CASE Planning \/ Executing \/ Judging \/ Answering
  BY <1>2, EveryDecisionFits, DecisionCloses DEF Decides, Decision
<1>3. CASE Committing
  BY <1>3, CommitCloses
<1>4. CASE CancelRun \/ Ended \/ UNCHANGED vars
  <2>1. UNCHANGED <<status, pc, todo>>
    BY <1>4, AsideSteps
  <2> QED
    BY <2>1 DEF CloseInv, HasClose, Closes
<1> QED
  BY <1>1, <1>2, <1>3, <1>4, DecidingSteps

(* Whatever way a run takes, before its task is over a commit is decided   *)
(* on that makes its status terminal.                                      *)
THEOREM EndedRunsAreClosed == Spec => []CloseInv
<1>1. Init => CloseInv
  BY DEF Init, CloseInv, ClosedPoints
<1>2. TypeOK /\ OutcomeInv /\ BookInv /\ CloseInv /\ [Next]_vars => CloseInv'
  BY CloseStep DEF BookInv
<1> QED
  BY <1>1, <1>2, TypeInvariant, OutcomeSettled, BookInvariant, PTL DEF Spec

-----------------------------------------------------------------------------
(* Tasks in flight                                                         *)

(* The task an unexpected error interrupted.                               *)
Broken(i) ==
    i = cur /\ (error = "unexpected" \/ SetFailed("unexpected") \in Waiting)

(* A task is marked as running without an event only while its row and the *)
(* ledger both have it retrying; and away from the loop over its attempts  *)
(* none is running or retrying but those about to be ended and, once the   *)
(* run is over, the one an unexpected error interrupted.                   *)
FlightInv ==
    /\ \A k \in 1 .. Len(todo) : Unsaid(todo, k) => tasks[todo[k].index] = "retrying"
    /\ pc = "retry" =>
          \/ MarkTask(cur, "retrying") \in Waiting
          \/ cur \in DOMAIN tasks /\ tasks[cur] = "retrying" /\ \A c \in Waiting : ~Works(c)
    /\ pc \notin InFlight =>
          \A i \in DOMAIN tasks :
              tasks[i] \in {"running", "retrying"} =>
                  (\E c \in Waiting : Ends(c, i)) \/ (pc \in ClosedPoints /\ Broken(i))
    /\ error = "unexpected" => status = "failed"

LEMMA DecisionFlies ==
    ASSUME TypeOK, TasksInv, PlanInv, FlightInv, NEW from, NEW to, NEW s,
           Decide(from, to, s), PlanFits(from, to, s), ListFits(from, to, s)
    PROVE  FlightInv'
<1>1. /\ pc = from /\ pc' = to /\ todo = <<>> /\ todo' = s /\ tasks' = tasks
      /\ error' = error /\ status' = status
      /\ Waiting = {}
  BY DEF Decide, durable, Waiting
<1>2. \A k \in 1 .. Len(todo') : Unsaid(todo', k) => tasks'[todo'[k].index] = "retrying"
  <2> SUFFICES ASSUME NEW k \in 1 .. Len(s), Unsaid(s, k)
               PROVE  tasks[s[k].index] = "retrying"
    BY <1>1
  <2>1. from = "retry" /\ s[k].index = cur
    BY DEF PlanFits
  <2> QED
    BY <1>1, <2>1 DEF FlightInv
<1>3. pc' = "retry" => MarkTask(cur, "retrying")' \in Waiting'
  BY <1>1 DEF PlanFits, Waiting, MarkTask
<1>4. pc' \notin InFlight =>
          \A i \in DOMAIN tasks' :
              tasks'[i] \in {"running", "retrying"} =>
                  \/ \E c \in Waiting' : Ends(c, i)'
                  \/ pc' \in ClosedPoints /\ Broken(i)'
  <2> SUFFICES ASSUME to \notin InFlight, NEW i \in DOMAIN tasks,
                      tasks[i] \in {"running", "retrying"}
               PROVE  \/ \E c \in Waiting' : Ends(c, i)'
                      \/ pc' \in ClosedPoints /\ Broken(i)'
    BY <1>1
  <2>1. CASE from \notin InFlight
    <3>1. from \in ClosedPoints /\ i = cur /\ error = "unexpected"
      BY <1>1, <2>1 DEF FlightInv, Broken
    <3> QED
      BY <1>1, <3>1 DEF PlanFits, ListFits, Broken
  <2>2. CASE from \in InFlight
    <3>1. EndsTask(s, cur) \/ Drops(s, cur) \/ LeavesBroken(to, s)
      BY <2>2 DEF PlanFits
    <3>2. i = cur
      <4>1. cur \in Nat /\ i \in Nat
        BY DEF TypeOK, LocalOK, RowsOK, IsChecklist
      <4>2. ~Final(i) /\ tasks[i] # "pending"
        BY DEF Final, TerminalTaskStatuses
      <4> QED
        BY <1>1, <2>2, <4>1, <4>2, NothingWaits DEF TasksInv, LoopInv
    <3>3. CASE EndsTask(s, cur) \/ Drops(s, cur)
      BY <1>1, <3>2, <3>3 DEF EndsTask, Drops, Ends, Waiting
    <3>4. CASE LeavesBroken(to, s)
      <4>1. SetFailed("unexpected")' \in Waiting'
        BY <1>1, <3>4 DEF LeavesBroken, Breaks, Waiting, SetFailed
      <4> QED
        BY <1>1, <3>2, <3>4, <4>1 DEF LeavesBroken, Broken, ClosedPoints
    <3> QED
      BY <3>1, <3>3, <3>4
  <2> QED
    BY <2>1, <2>2
<1> QED
  BY <1>1, <1>2, <1>3, <1>4
  DEF FlightInv, Unsaid, Followed, Announces, Says, MarkTask, Waiting, Ends, Works, Broken

(* What is unsaid after a commit was unsaid before it.                     *)
LEMMA StillUnsaid ==
    ASSUME TypeOK, Committing, NEW k \in 1 .. Len(todo'), Unsaid(todo', k)
    PROVE  \E m \in 2 .. Len(todo) : Unsaid(todo, m) /\ todo[m] = todo'[k]
<1>1. PICK d \in {0, 1} :
          /\ Len(todo') = Len(todo) - d
          /\ \A j \in 1 .. Len(todo') :
                \/ d = 0 /\ j = 1 /\ todo'[j].op = "emitSkipped"
                \/ j + d \in 2 .. Len(todo) /\ todo'[j] = todo[j + d]
  BY Behind
<1>2. k + d \in 2 .. Len(todo) /\ todo'[k] = todo[k + d] /\ Len(todo) \in Nat
  BY <1>1, Behind DEF Unsaid
<1>3. Followed(todo, k + d) => Followed(todo', k)
  <2> SUFFICES ASSUME Followed(todo, k + d) PROVE Followed(todo', k)
    OBVIOUS
  <2>1. k + d + 1 \in 1 .. Len(todo) /\ Announces(todo[k + d + 1], todo[k + d])
    BY DEF Followed
  <2>2. k + 1 \in 1 .. Len(todo') /\ todo'[k + 1] = todo[k + d + 1]
    BY <1>1, <1>2, <2>1
  <2> QED
    BY <1>2, <2>1, <2>2 DEF Followed
<1> QED
  BY <1>2, <1>3 DEF Unsaid

(* Nothing works on a task before a commit that waits to run it again.     *)
LEMMA CommitFlies ==
    ASSUME TypeOK, TasksInv, OutcomeInv, PlanInv, FlightInv, Committing
    PROVE  FlightInv'
<1> DEFINE c == Head(todo)
<1>1. /\ UNCHANGED <<pc, cur>> /\ Effect(c) /\ c = todo[1] /\ c \in Waiting /\ c \in Commit
      /\ 1 \in 1 .. Len(todo) /\ Len(todo) \in Nat
      /\ \A e \in Waiting' : e \in Waiting \/ e.op = "emitSkipped"
  BY CommitEffect, Behind, StillWaiting DEF local, plan
<1>2. Performs(c)
  <2>1. UNCHANGED last
    BY CommitEffect DEF local, plan
  <2> QED
    BY <1>1, <2>1, CommitEffect DEF Performs, LeavesBehind
<1>3. /\ \A e \in Waiting : e = c \/ e \in Waiting'
      /\ \A e \in Waiting' : e.op = "emitSkipped" \/ (e \in Waiting /\ Follows(c, e))
  BY <1>2, AfterCommit DEF TasksInv
<1> HIDE DEF c
<1>4. ASSUME NEW k \in 1 .. Len(todo'), Unsaid(todo', k)
      PROVE  tasks'[todo'[k].index] = "retrying"
  <2>1. PICK m \in 2 .. Len(todo) : Unsaid(todo, m) /\ todo[m] = todo'[k]
    BY <1>4, StillUnsaid
  <2>2. ~Works(c) /\ c.op # "skip"
    <3>1. m \in 1 .. Len(todo) /\ 1 < m /\ todo[m].op = "mark"
      BY <1>1, <2>1 DEF Unsaid
    <3> QED
      BY <1>1, <3>1 DEF TasksInv, Tidy, Works
  <2>3. tasks' = tasks
    BY <1>1, <2>2 DEF Works, Effect
  <2> QED
    BY <1>1, <2>1, <2>3 DEF FlightInv
<1>5. ASSUME pc' = "retry"
      PROVE  \/ MarkTask(cur, "retrying")' \in Waiting'
             \/ cur' \in DOMAIN tasks' /\ tasks'[cur'] = "retrying" /\ \A e \in Waiting' : ~Works(e)
  <2>1. CASE c = MarkTask(cur, "retrying")
    <3>1. /\ c.op = "mark" /\ c.index = cur /\ c.status = "retrying" /\ Touches(c) = {cur}
          /\ Works(c) /\ ~(c.op = "drop")
      BY <2>1, RowNature DEF Works
    <3>2. cur \in DOMAIN tasks
      BY <1>1, <3>1 DEF PlanInv
    <3>3. cur \in DOMAIN tasks' /\ tasks'[cur] = "retrying"
      BY <1>1, <3>1, <3>2 DEF Effect
    <3>4. \A e \in Waiting' : ~Works(e)
      BY <1>3, <3>1 DEF Follows, Works
    <3> QED
      BY <1>1, <3>3, <3>4
  <2>2. CASE c # MarkTask(cur, "retrying") /\ MarkTask(cur, "retrying") \in Waiting
    BY <1>1, <1>3, <2>2 DEF MarkTask
  <2>3. CASE /\ cur \in DOMAIN tasks /\ tasks[cur] = "retrying"
             /\ \A e \in Waiting : ~Works(e)
    <3>1. cur \in DOMAIN tasks' /\ tasks'[cur] = "retrying"
      BY <1>1, <2>3 DEF Works, Effect
    <3>2. \A e \in Waiting' : ~Works(e)
      BY <1>1, <2>3 DEF Works
    <3> QED
      BY <1>1, <3>1, <3>2
  <2> QED
    BY <1>1, <1>5, <2>1, <2>2, <2>3 DEF FlightInv
<1>0. error = "unexpected" => status = "failed" /\ UNCHANGED <<status, error>>
  <2> SUFFICES ASSUME error = "unexpected" PROVE status = "failed" /\ UNCHANGED <<status, error>>
    OBVIOUS
  <2>1. status = "failed" /\ ~Writes(c)
    BY <1>1 DEF FlightInv, OutcomeInv, NoWrite, TerminalRunStatuses
  <2> QED
    BY <1>1, <2>1 DEF Effect, Writes
<1>6. ASSUME pc' \notin InFlight, NEW i \in DOMAIN tasks', tasks'[i] \in {"running", "retrying"}
      PROVE  (\E e \in Waiting' : Ends(e, i)') \/ (pc' \in ClosedPoints /\ Broken(i)')
  <2>1. ~(c.op = "mark" /\ Opens(c) /\ c.index = i)
    <3>1. CASE pc \in AtRest
      <4>1. c.op = "mark" /\ Opens(c) => c.index = cur
        BY <1>1, <3>1 DEF TasksInv, LoopInv
      <4>2. c.op = "mark" => cur \notin Touches(c)
        BY <1>1, <1>6, <3>1 DEF TasksInv, LoopInv
      <4> QED
        BY <4>1, <4>2 DEF Touches
    <3>2. CASE pc \notin AtRest
      BY <1>1, <1>6, <3>2 DEF TasksInv, LateInv
    <3> QED
      BY <3>1, <3>2
  <2>2. i \in DOMAIN tasks /\ tasks[i] = tasks'[i] /\ ~Ends(c, i)
    BY <1>1, <1>6, <2>1 DEF Effect, WithPlan, Opens, Ends, TerminalTaskStatuses
  <2>3. CASE \E e \in Waiting : Ends(e, i)
    <3>1. PICK e \in Waiting : Ends(e, i)
      BY <2>3
    <3>2. e \in Waiting'
      BY <1>3, <2>2, <3>1
    <3> QED
      BY <1>6, <2>2, <3>1, <3>2 DEF Ends
  <2>4. CASE pc \in ClosedPoints /\ Broken(i)
    <3>1. CASE c = SetFailed("unexpected")
      BY <1>1, <2>4, <3>1 DEF Effect, SetFailed, Broken
    <3>2. CASE c # SetFailed("unexpected")
      BY <1>0, <1>1, <1>3, <2>4, <3>2 DEF Broken
    <3> QED
      BY <3>1, <3>2
  <2> QED
    BY <1>1, <1>6, <2>2, <2>3, <2>4 DEF FlightInv
<1>7. error' = "unexpected" => status' = "failed"
  BY <1>0, <1>1 DEF Effect
<1> QED
  BY <1>4, <1>5, <1>6, <1>7
  DEF FlightInv, Unsaid, Followed, Announces, Says, MarkTask, Waiting, Ends, Works, Broken

LEMMA FlightStep ==
    ASSUME TypeOK, TasksInv, OutcomeInv, PlanInv, FlightInv, [Next]_vars
    PROVE  FlightInv'
<1>1. CASE CreateRun
  <2>1. PICK c : c = Emit(Plain("run.created"))
    OBVIOUS
  <2>2. todo' = <<c>> /\ pc = "none" /\ pc' = "register" /\ tasks' = tasks
    BY <1>1, <2>1 DEF CreateRun
  <2>3. c.op = "emit" /\ DOMAIN tasks = {}
    BY <2>1, <2>2 DEF Emit, TasksInv, EarlyInv, Early
  <2>4. error' # "unexpected"
    BY <1>1, <2>2 DEF CreateRun, FlightInv, OutcomeInv, ClosedPoints, TerminalRunStatuses
  <2> QED
    BY <2>2, <2>3, <2>4 DEF FlightInv, Unsaid
<1>2. CASE Planning \/ Executing \/ Judging \/ Answering
  BY <1>2, EveryDecisionFits, DecisionFlies DEF Decides, Decision
<1>3. CASE Committing
  BY <1>3, CommitFlies
<1>4. CASE CancelRun \/ Ended \/ UNCHANGED vars
  <2>1. UNCHANGED <<status, error, tasks, pc, todo, cur>>
    BY <1>4, AsideSteps
  <2> QED
    BY <2>1
    DEF FlightInv, Unsaid, Followed, Announces, Says, MarkTask, Waiting, Ends, Works, Broken
<1> QED
  BY <1>1, <1>2, <1>3, <1>4, DecidingSteps

-----------------------------------------------------------------------------
(* Nothing is lost                                                         *)

(* What the event at the head of todo is about to tell.                    *)
HeadSays(types) == Len(todo) > 0 /\ Says(todo[1], types)

OwedPlan(i) == HeadSays(PlanEventTypes) /\ i \in Span(todo[1].event)

Owed(i) ==
    \/ Len(todo) > 0 /\ todo[1].op = "emitSkipped" /\ i \in todo[1].tasks
    \/ HeadSays(TaskEventTypes) /\ todo[1].event.index = i

(* A task is in the ledger as it is in its row, but for that event and for *)
(* a task that runs again.                                                 *)
Same(i) ==
    /\ i \in DOMAIN view.tasks
    /\ \/ view.tasks[i] = tasks[i]
       \/ view.tasks[i] = "retrying" /\ tasks[i] = "running"

Told(i) == OwedPlan(i) \/ (i \in DOMAIN view.tasks /\ Owed(i)) \/ Same(i)

EndTold ==
    \/ view.terminal
    \/ HeadSays(ClosingTypes)
    \/ HeadSays({"answer.completed"}) /\ todo[1].event.text = "full"

ToldInv ==
    /\ \A i \in DOMAIN tasks : Told(i)
    /\ status \in TerminalRunStatuses => EndTold
    /\ answer # "none" => view.answer = answer \/ HeadSays({"answer.completed"})

LEMMA DecisionToldAll ==
    ASSUME ToldInv, NEW from, NEW to, NEW s, Decide(from, to, s), ListFits(from, to, s)
    PROVE  ToldInv'
<1>1. /\ pc = from /\ pc' = to /\ todo = <<>> /\ todo' = s /\ Len(todo) = 0
      /\ UNCHANGED <<status, answer, error, tasks, view>>
  BY DEF Decide, durable
<1>2. \A types : ~HeadSays(types)
  BY <1>1 DEF HeadSays
<1>3. \A i \in DOMAIN tasks : Same(i)
  BY <1>1, <1>2 DEF ToldInv, Told, OwedPlan, Owed
<1>4. /\ status \in TerminalRunStatuses => view.terminal
      /\ answer # "none" => view.answer = answer
  BY <1>2 DEF ToldInv, EndTold
<1> QED
  BY <1>1, <1>3, <1>4 DEF ToldInv, Told, Same, EndTold

(* What a commit leaves at the head tells what it did.                     *)
LEMMA CommitOwes ==
    ASSUME TypeOK, LeadInv, Committing, Public(Head(todo))
    PROVE  Len(todo') > 0 /\ Announces(todo'[1], Head(todo))
<1> DEFINE c == Head(todo)
<1>1. /\ LeavesBehind(c) /\ c = todo[1] /\ todo \in Seq(Commit) /\ todo # <<>>
  BY CommitEffect, Behind
<1>2. c.op \notin {"skip", "emitSkipped"}
  BY DEF Public, Says
<1>3. todo' = Tail(todo)
  BY <1>1, <1>2 DEF LeavesBehind
<1>4. todo' # <<>> /\ Announces(todo'[1], c)
  BY <1>1, <1>3, TailPaired DEF LeadInv
<1> QED
  BY <1>1, <1>3, <1>4

LEMMA CommitToldTasks ==
    ASSUME TypeOK, PlanInv, LeadInv, FlightInv, ToldInv, Committing
    PROVE  \A i \in DOMAIN tasks' : Told(i)'
<1> DEFINE c == Head(todo)
<1>1. /\ Effect(c) /\ c = todo[1] /\ c \in Waiting /\ Len(todo) > 0
      /\ LeavesBehind(c) /\ Len(todo) \in Nat /\ 1 \in 1 .. Len(todo)
  BY CommitEffect, Behind
<1>2. Public(c) => Len(todo') > 0 /\ Announces(todo'[1], c)
  BY CommitOwes
<1>3. ASSUME c.op \notin {"emit", "emitSkipped"}, NEW i \in DOMAIN tasks
      PROVE  view' = view /\ Same(i)
  <2>1. ~OwedPlan(i) /\ ~Owed(i)
    BY <1>1, <1>3 DEF OwedPlan, Owed, HeadSays, Says
  <2> QED
    BY <1>1, <1>3, <2>1 DEF ToldInv, Told, Effect
<1>0. PICK e : e = todo'[1]
  OBVIOUS
<1> HIDE DEF c
<1>4. ASSUME NEW i \in DOMAIN tasks, i \in DOMAIN tasks', tasks'[i] = tasks[i],
             c.op \notin {"emit", "emitSkipped"}
      PROVE  Told(i)'
  BY <1>3, <1>4 DEF Told, Same
<1>5. CASE c.op = "mark"
  <2>0. PICK n : n = c.index
    OBVIOUS
  <2>1. /\ c.index \in DOMAIN tasks /\ DOMAIN tasks' = DOMAIN tasks
        /\ \A i \in DOMAIN tasks : tasks'[i] = IF i = c.index THEN c.status ELSE tasks[i]
        /\ view' = view
    BY <1>1, <1>5 DEF PlanInv, Touches, Effect
  <2>2. Same(c.index)
    BY <1>3, <1>5, <2>1
  <2>3. CASE Len(todo') > 0 /\ Announces(todo'[1], c)
    <3>1. Len(todo') > 0 /\ Says(e, TaskEventTypes) /\ e.event.index = c.index
      BY <1>0, <1>5, <2>3 DEF Announces, Says
    <3>2. Owed(n)'
      BY <1>0, <2>0, <3>1 DEF Owed, HeadSays, Says
    <3>3. Told(n)'
      BY <2>0, <2>1, <2>2, <3>2 DEF Told, Same
    <3> QED
      BY <1>4, <1>5, <2>0, <2>1, <3>3
  <2>4. CASE c.status = "running" /\ ~(Len(todo') > 0 /\ Announces(todo'[1], c))
    <3>1. Unsaid(todo, 1)
      <4> SUFFICES ASSUME Followed(todo, 1) PROVE Len(todo') > 0 /\ Announces(todo'[1], c)
        BY <1>1, <1>5, <2>4 DEF Unsaid
      <4>1. 2 \in 1 .. Len(todo) /\ Announces(todo[2], todo[1])
        BY DEF Followed
      <4>2. todo' = Tail(todo)
        BY <1>1, <1>5 DEF LeavesBehind
      <4>3. todo \in Seq(Commit)
        BY DEF TypeOK, ControlOK
      <4>4. Len(todo') > 0 /\ todo'[1] = todo[2]
        BY <1>1, <4>1, <4>2, <4>3
      <4> QED
        BY <1>1, <4>1, <4>4
    <3>2. tasks[c.index] = "retrying"
      BY <1>1, <3>1 DEF FlightInv
    <3>3. view.tasks[c.index] = "retrying" /\ c.index \in DOMAIN view.tasks
      BY <2>2, <3>2 DEF Same
    <3>4. Told(n)'
      BY <2>0, <2>1, <2>4, <3>3 DEF Told, Same
    <3> QED
      BY <1>4, <1>5, <2>0, <2>1, <3>4
  <2> QED
    BY <1>2, <1>5, <2>3, <2>4 DEF Public
<1>6. CASE c.op = "skip"
  <2>1. /\ DOMAIN tasks' = DOMAIN tasks
        /\ \A i \in DOMAIN tasks :
              tasks'[i] = IF tasks[i] = "pending" THEN "skipped" ELSE tasks[i]
    BY <1>1, <1>6 DEF Effect
  <2> SUFFICES ASSUME NEW i \in DOMAIN tasks, tasks[i] = "pending" PROVE Told(i)'
    BY <1>4, <1>6, <2>1
  <2>2. todo' = <<EmitSkipped({j \in DOMAIN tasks : tasks[j] = "pending"})>> \o Tail(todo)
    BY <1>1, <1>6 DEF LeavesBehind
  <2>3. PICK S : S = {j \in DOMAIN tasks : tasks[j] = "pending"}
    OBVIOUS
  <2>4. PICK x : x = EmitSkipped(S)
    OBVIOUS
  <2>5. x.op = "emitSkipped" /\ x.tasks = S /\ i \in S
    BY <2>3, <2>4 DEF EmitSkipped
  <2>6. Len(todo') > 0 /\ todo'[1] = x
    <3>1. todo \in Seq(Commit)
      BY DEF TypeOK, ControlOK
    <3>2. todo' = <<x>> \o Tail(todo)
      BY <2>2, <2>3, <2>4
    <3> QED
      BY <1>1, <3>1, <3>2
  <2>7. Owed(i)'
    BY <2>5, <2>6 DEF Owed
  <2>8. i \in DOMAIN view'.tasks
    BY <1>3, <1>6 DEF Same
  <2> QED
    BY <2>7, <2>8 DEF Told
<1>7. CASE c.op = "drop"
  <2>1. /\ DOMAIN tasks' = DOMAIN tasks
        /\ \A i \in DOMAIN tasks : i \notin c.tasks => tasks'[i] = tasks[i]
    BY <1>1, <1>7 DEF Effect
  <2> SUFFICES ASSUME NEW i \in DOMAIN tasks, i \in c.tasks PROVE Told(i)'
    BY <1>4, <1>7, <2>1
  <2>2. Len(todo') > 0 /\ e.op = "emitSkipped" /\ e.tasks = c.tasks
    BY <1>0, <1>2, <1>7 DEF Public, Announces, Says
  <2>3. Owed(i)'
    BY <1>0, <2>2 DEF Owed
  <2>4. i \in DOMAIN view'.tasks
    BY <1>3, <1>7 DEF Same
  <2> QED
    BY <2>3, <2>4 DEF Told
<1>8. CASE c.op = "add"
  <2>1. \A i \in DOMAIN tasks' : i \in Span(c) \/ (i \in DOMAIN tasks /\ tasks'[i] = tasks[i])
    BY <1>1, <1>8 DEF Effect, WithPlan, Span
  <2>2. /\ Len(todo') > 0 /\ Says(e, PlanEventTypes)
        /\ e.event.start = c.start /\ e.event.count = c.count
    BY <1>0, <1>2, <1>8 DEF Public, Announces, Says
  <2>3. \A i \in Span(c) : OwedPlan(i)'
    BY <1>0, <2>2 DEF OwedPlan, HeadSays, Says, Span
  <2> QED
    BY <1>4, <1>8, <2>1, <2>3 DEF Told
<1>9. CASE c.op \in {"emit", "emitSkipped"}
  <2>1. PICK v : /\ Honest(v) /\ Reads(view, v, view') /\ tasks' = tasks
                 /\ c.op = "emit" => v = c.event
                 /\ c.op = "emitSkipped" =>
                       /\ v.type = "task.skipped" /\ v.index \in c.tasks
                       /\ \A j \in c.tasks :
                             \/ j = v.index
                             \/ /\ Len(todo') > 0 /\ todo'[1].op = "emitSkipped"
                                /\ j \in todo'[1].tasks
    BY <1>9, CommitAppends DEF c
  <2> SUFFICES ASSUME NEW i \in DOMAIN tasks PROVE Told(i)'
    BY <2>1
  <2>2. CASE v.type \in PlanEventTypes
    <3>1. view'.tasks = WithPlan(view.tasks, v.start, v.count) /\ c.op = "emit" /\ v = c.event
      BY <1>9, <2>1, <2>2 DEF Reads, PlanEventTypes
    <3>2. i \in Span(v) => tasks[i] = "pending"
      BY <2>1, <2>2 DEF Honest
    <3>3. ~Owed(i) /\ (OwedPlan(i) => i \in Span(v))
      BY <1>1, <2>2, <3>1 DEF Owed, OwedPlan, HeadSays, Says, PlanEventTypes, TaskEventTypes
    <3>4. Told(i)
      BY DEF ToldInv
    <3>5. CASE i \in Span(v)
      <4>1. i \in DOMAIN view'.tasks /\ view'.tasks[i] = "pending"
        BY <3>1, <3>5 DEF WithPlan, Span
      <4> QED
        BY <2>1, <3>2, <3>5, <4>1 DEF Told, Same
    <3>6. CASE i \notin Span(v)
      <4>1. Same(i)
        BY <3>3, <3>4, <3>6 DEF Told
      <4>2. i \in DOMAIN view'.tasks /\ view'.tasks[i] = view.tasks[i]
        BY <3>1, <3>6, <4>1 DEF WithPlan, Span, Same
      <4> QED
        BY <2>1, <4>1, <4>2 DEF Told, Same
    <3> QED
      BY <3>5, <3>6
  <2>3. CASE v.type \in TaskEventTypes
    <3>1. view'.tasks = WithTask(view.tasks, v.index, TaskEventStatus(v.type))
      BY <2>1, <2>3 DEF Reads
    <3>2. CASE i = v.index
      <4>1. i \in DOMAIN view'.tasks /\ view'.tasks[i] = tasks[i]
        BY <2>1, <2>3, <3>1, <3>2 DEF WithTask, Honest
      <4> QED
        BY <2>1, <4>1 DEF Told, Same
    <3>3. CASE i # v.index /\ c.op = "emitSkipped" /\ i \in c.tasks
      <4>1. Owed(i)'
        BY <2>1, <3>3 DEF Owed
      <4>2. i \in DOMAIN view.tasks
        <5>1. ~OwedPlan(i)
          BY <1>1, <3>3 DEF OwedPlan, HeadSays, Says
        <5> QED
          BY <5>1 DEF ToldInv, Told, Same
      <4>3. i \in DOMAIN view'.tasks
        BY <3>1, <4>2 DEF WithTask
      <4> QED
        BY <4>1, <4>3 DEF Told
    <3>4. CASE i # v.index /\ ~(c.op = "emitSkipped" /\ i \in c.tasks)
      <4>1. ~OwedPlan(i) /\ ~Owed(i)
        BY <1>1, <1>9, <2>1, <2>3, <3>4
        DEF Owed, OwedPlan, HeadSays, Says, PlanEventTypes, TaskEventTypes
      <4>2. Same(i)
        BY <4>1 DEF ToldInv, Told
      <4>3. i \in DOMAIN view'.tasks /\ view'.tasks[i] = view.tasks[i]
        BY <3>1, <3>4, <4>2 DEF WithTask, Same
      <4> QED
        BY <2>1, <4>2, <4>3 DEF Told, Same
    <3> QED
      BY <3>2, <3>3, <3>4
  <2>4. CASE v.type \notin PlanEventTypes \cup TaskEventTypes
    <3>1. view'.tasks = view.tasks /\ c.op = "emit" /\ v = c.event
      BY <1>9, <2>1, <2>4 DEF Reads, TaskEventTypes
    <3>2. ~OwedPlan(i) /\ ~Owed(i)
      BY <1>1, <2>4, <3>1 DEF Owed, OwedPlan, HeadSays, Says
    <3>3. Same(i)
      BY <3>2 DEF ToldInv, Told
    <3> QED
      BY <2>1, <3>1, <3>3 DEF Told, Same
  <2> QED
    BY <2>2, <2>3, <2>4
<1>10. CASE c.op \notin {"mark", "skip", "drop", "add", "emit", "emitSkipped"}
  <2>1. tasks' = tasks
    BY <1>1, <1>10 DEF Effect
  <2> QED
    BY <1>4, <1>10, <2>1
<1> QED
  BY <1>5, <1>6, <1>7, <1>8, <1>9, <1>10

LEMMA CommitToldEnd ==
    ASSUME TypeOK, OutcomeInv, EndInv, LeadInv, ToldInv, Committing
    PROVE  /\ status' \in TerminalRunStatuses => EndTold'
           /\ answer' # "none" => view'.answer = answer' \/ HeadSays({"answer.completed"})'
<1> DEFINE c == Head(todo)
<1>0. PICK e : e = todo'[1]
  OBVIOUS
<1>1. /\ Effect(c) /\ c = todo[1] /\ c \in Waiting /\ Len(todo) > 0 /\ pc' = pc
      /\ Len(todo) \in Nat /\ 1 \in 1 .. Len(todo) /\ LeavesBehind(c)
  BY CommitEffect, Behind
<1>2. Public(c) => Len(todo') > 0 /\ Announces(e, c)
  BY <1>0, CommitOwes
<1>3. ASSUME NEW types, Len(todo') > 0, Says(e, types) PROVE HeadSays(types)'
  BY <1>0, <1>3 DEF HeadSays, Says
<1>4. view.terminal \in BOOLEAN /\ view'.terminal \in BOOLEAN
  BY CommittingType DEF TypeOK, IsReplayState
<1>5. c.op = "status" => c.status \in {"planning", "running", "cancelled"}
  BY <1>1 DEF LeadInv, Paired
<1> HIDE DEF c
<1>6. status' \in TerminalRunStatuses => EndTold'
  <2>1. CASE Closes(c)
    <3>1. \/ c.op = "failed" \/ c.op = "done" \/ (c.op = "status" /\ c.status = "cancelled")
      BY <1>5, <2>1 DEF Closes, TerminalRunStatuses
    <3>2. \/ Says(e, ClosingTypes) \/ (Says(e, {"answer.completed"}) /\ e.event.text = "full")
      BY <1>2, <3>1 DEF Public, Announces, Says, ClosingTypes
    <3>3. Len(todo') > 0
      BY <1>2, <3>1 DEF Public
    <3> QED
      BY <1>0, <1>3, <3>2, <3>3 DEF EndTold
  <2>2. CASE ~Closes(c) /\ status' \in TerminalRunStatuses
    <3>1. EndTold
      BY <1>1, <1>5, <2>2 DEF Effect, Closes, ToldInv, TerminalRunStatuses
    <3>2. CASE c.op \notin {"emit", "emitSkipped"}
      BY <1>1, <3>1, <3>2 DEF EndTold, HeadSays, Says, Effect
    <3>3. CASE c.op \in {"emit", "emitSkipped"}
      <4>1. PICK v : /\ Reads(view, v, view')
                     /\ c.op = "emit" => v = c.event
        BY <3>3, CommitAppends DEF c
      <4>2. CASE view.terminal \/ HeadSays(ClosingTypes)
        BY <1>1, <4>1, <4>2 DEF Reads, EndTold, HeadSays, Says
      <4>3. CASE HeadSays({"answer.completed"}) /\ todo[1].event.text = "full"
        <5>1. Says(c, {"answer.completed"}) /\ c.event.text = "full"
          BY <1>1, <4>3 DEF HeadSays
        <5>2. Len(todo') > 0 /\ Says(e, ClosingTypes)
          BY <1>2, <5>1 DEF Public, Announces, Says, ClosingTypes
        <5> QED
          BY <1>3, <5>2 DEF EndTold
      <4> QED
        BY <3>1, <4>2, <4>3 DEF EndTold
    <3> QED
      BY <3>2, <3>3
  <2> QED
    BY <2>1, <2>2
<1>7. answer' # "none" => view'.answer = answer' \/ HeadSays({"answer.completed"})'
  <2>1. CASE GivesAnswer(c)
    <3>1. Len(todo') > 0 /\ Says(e, {"answer.completed"})
      BY <1>2, <2>1 DEF GivesAnswer, Public, Announces, Says
    <3> QED
      BY <1>3, <3>1
  <2>2. CASE ~GivesAnswer(c)
    <3>1. answer' = answer
      BY <1>1, <2>2 DEF GivesAnswer, Effect
    <3>2. CASE c.op \notin {"emit", "emitSkipped"}
      BY <1>1, <3>1, <3>2 DEF ToldInv, HeadSays, Says, Effect
    <3>3. CASE c.op \in {"emit", "emitSkipped"}
      <4>1. PICK v : /\ Reads(view, v, view') /\ Honest(v)
                     /\ c.op = "emit" => v = c.event
                     /\ c.op = "emitSkipped" => v.type = "task.skipped"
        BY <3>3, CommitAppends DEF c
      <4>2. CASE v.type = "answer.completed"
        BY <3>1, <4>1, <4>2 DEF Reads, Honest
      <4>3. CASE v.type # "answer.completed"
        <5>1. ~HeadSays({"answer.completed"})
          BY <1>1, <3>3, <4>1, <4>3 DEF HeadSays, Says
        <5> QED
          BY <3>1, <4>1, <4>3, <5>1 DEF Reads, ToldInv
      <4> QED
        BY <4>2, <4>3
    <3> QED
      BY <3>2, <3>3
  <2> QED
    BY <2>1, <2>2
<1> QED
  BY <1>6, <1>7

LEMMA ToldStep ==
    ASSUME TypeOK, TasksInv, OutcomeInv, EndInv, PlanInv, LeadInv, FlightInv, ToldInv,
           [Next]_vars
    PROVE  ToldInv'
<1>1. CASE CreateRun
  <2>1. /\ pc = "none" /\ pc' = "register" /\ status' = "created"
        /\ UNCHANGED <<answer, tasks>>
    BY <1>1 DEF CreateRun
  <2>2. DOMAIN tasks = {} /\ answer = "none"
    BY <2>1 DEF TasksInv, EarlyInv, Early, EndInv, ClosedPoints
  <2> QED
    BY <2>1, <2>2 DEF ToldInv, ClosedPoints, TerminalRunStatuses
<1>2. CASE Planning \/ Executing \/ Judging \/ Answering
  BY <1>2, EveryDecisionFits, DecisionToldAll DEF Decides, Decision
<1>3. CASE Committing
  <2>1. pc' = pc /\ todo # <<>>
    BY <1>3, CommitEffect
  <2> QED
    BY <1>3, <2>1, CommitToldTasks, CommitToldEnd DEF ToldInv
<1>4. CASE CancelRun \/ Ended \/ UNCHANGED vars
  <2>1. UNCHANGED <<status, answer, tasks, view, pc, todo>>
    BY <1>4, AsideSteps
  <2> QED
    BY <2>1 DEF ToldInv, Told, Same, Owed, OwedPlan, HeadSays, Says, Span, EndTold, HasClose,
       Closes
<1> QED
  BY <1>1, <1>2, <1>3, <1>4, DecidingSteps

(* In every reachable state what the ledger does not tell yet is what the  *)
(* event at the head of todo says, and a task that runs again.             *)
THEOREM ToldInvariant == Spec => [](FlightInv /\ ToldInv)
<1>1. Init => FlightInv /\ ToldInv
  <2> SUFFICES ASSUME Init PROVE FlightInv /\ ToldInv
    OBVIOUS
  <2>1. /\ pc = "none" /\ todo = <<>> /\ status = "none" /\ answer = "none"
        /\ DOMAIN tasks = {} /\ Len(todo) = 0 /\ error = "none"
    BY DEF Init, NoTasks
  <2> QED
    BY <2>1 DEF FlightInv, ToldInv, ClosedPoints, TerminalRunStatuses
<1>2. /\ TypeOK /\ TasksInv /\ OutcomeInv /\ BookInv /\ FlightInv /\ ToldInv /\ [Next]_vars
      => FlightInv' /\ ToldInv'
  BY FlightStep, ToldStep DEF BookInv
<1> QED
  BY <1>1, <1>2, TypeInvariant, TasksInvariant, OutcomeSettled, BookInvariant, PTL DEF Spec

(* When the run is over, folding its ledger gives back its rows: status,   *)
(* error, every task and the answer.  Only a run that was stopped while    *)
(* its answer streamed has none, where the fold gives the tokens; and only *)
(* the task whose further attempt raised is still retrying for the fold,   *)
(* where its row has it running (I-24).                                    *)
THEOREM LedgerTells == Spec => []LedgerTellsAll
<1>1. TypeOK /\ BookInv /\ CloseInv /\ FlightInv /\ ToldInv /\ AnswerMatchesOutcome
      => LedgerTellsAll
  <2> SUFFICES ASSUME TypeOK, BookInv, CloseInv, FlightInv, ToldInv, AnswerMatchesOutcome,
                      pc = "ended"
               PROVE  /\ view.terminal
                      /\ view.status = status
                      /\ view.error = error
                      /\ \/ FoldAnswer(view) = answer
                         \/ FoldAnswer(view) = "tokens" /\ answer = "none" /\ status # "done"
                      /\ DOMAIN view.tasks = DOMAIN tasks
                      /\ \A i \in DOMAIN tasks :
                            \/ view.tasks[i] = tasks[i]
                            \/ /\ error = "unexpected" /\ i = cur
                               /\ view.tasks[i] = "retrying" /\ tasks[i] = "running"
    BY DEF LedgerTellsAll
  <2>1. todo = <<>> /\ Len(todo) = 0 /\ Waiting = {} /\ ~HasClose(todo)
    BY DEF BookInv, EndInv, Waiting, HasClose
  <2>2. \A types : ~HeadSays(types)
    BY <2>1 DEF HeadSays
  <2>3. view.terminal
    BY <2>1, <2>2 DEF ToldInv, CloseInv, ClosedPoints, EndTold
  <2>4. RowsLeadLedger
    BY DEF BookInv, LeadInv
  <2>5. \/ FoldAnswer(view) = answer
        \/ FoldAnswer(view) = "tokens" /\ answer = "none" /\ status # "done"
    BY <2>2, <2>4 DEF FoldAnswer, ToldInv, AnswerMatchesOutcome, RowsLeadLedger
  <2>6. \A i \in DOMAIN tasks :
            /\ i \in DOMAIN view.tasks
            /\ \/ view.tasks[i] = tasks[i]
               \/ /\ error = "unexpected" /\ i = cur
                  /\ view.tasks[i] = "retrying" /\ tasks[i] = "running"
    <3> SUFFICES ASSUME NEW i \in DOMAIN tasks
                 PROVE  /\ i \in DOMAIN view.tasks
                        /\ \/ view.tasks[i] = tasks[i]
                           \/ /\ error = "unexpected" /\ i = cur
                              /\ view.tasks[i] = "retrying" /\ tasks[i] = "running"
      OBVIOUS
    <3>1. Same(i)
      BY <2>1, <2>2 DEF ToldInv, Told, OwedPlan, Owed
    <3>2. tasks[i] = "running" => Broken(i)
      BY <2>1 DEF FlightInv, InFlight
    <3> QED
      BY <2>1, <3>1, <3>2 DEF Same, Broken
  <2>7. DOMAIN view.tasks = DOMAIN tasks
    BY <2>4, <2>6 DEF RowsLeadLedger
  <2> QED
    BY <2>3, <2>4, <2>5, <2>6, <2>7 DEF RowsLeadLedger
<1> QED
  BY <1>1, TypeInvariant, BookInvariant, EndedRunsAreClosed, ToldInvariant, AnswersMatch,
     PTL

-----------------------------------------------------------------------------
(* The run is a RunLifecycle                                               *)

(* Which status goes with which control point, and with which commits.     *)
StatusInv ==
    /\ pc = "none" => status = "none" /\ Len(todo) = 0
    /\ pc \in {"register", "start"} => status = "created" /\ SetsOnly(todo, {})
    /\ pc = "planning" =>
          /\ SetsOnly(todo, {"planning"})
          /\ \/ status = "created" /\ Sets(todo, "planning")
             \/ status = "planning" /\ SetsOnly(todo, {})
    /\ pc \in Drafting => status = "planning" /\ SetsOnly(todo, {})
    /\ pc = "task" =>
          /\ SetsOnly(todo, {"running"})
          /\ \/ status = "planning" /\ Sets(todo, "running")
             \/ status = "running" /\ SetsOnly(todo, {})
    /\ pc \in Working => status = "running" /\ SetsOnly(todo, {})
    /\ pc \in ClosedPoints =>
          /\ status \in {"planning", "running"} \cup TerminalRunStatuses
          /\ SetsOnly(todo, {"cancelled"})
    /\ SetsOnce(todo)
    /\ \A c \in Waiting : GivesAnswer(c) => status = "running"

LEMMA DecisionSets ==
    ASSUME TypeOK, StatusInv, NEW from, NEW to, NEW s, Decide(from, to, s),
           ListFits(from, to, s), WayFits(from, to, s)
    PROVE  StatusInv'
<1>1. /\ pc = from /\ pc' = to /\ todo = <<>> /\ todo' = s /\ Len(todo) = 0
      /\ status' = status /\ pc \in ControlPoints
  BY DEF Decide, durable, TypeOK, ControlOK
<1>2. \A x : ~Sets(todo, x)
  BY <1>1 DEF Sets
<1>3. /\ from = "register" \/ from = "start" => status = "created"
      /\ from \in {"planning"} \cup Drafting => status = "planning"
      /\ from \in {"task"} \cup Working => status = "running"
      /\ from \in ClosedPoints => status \in {"planning", "running"} \cup TerminalRunStatuses
  BY <1>1, <1>2 DEF StatusInv
<1>4. from \in {"none", "register", "start", "planning", "task"} \cup Drafting \cup Working
               \cup ClosedPoints
  BY <1>1 DEF ControlPoints, Drafting, Working, InFlight, Over, ClosedPoints
<1>5. \A c \in Waiting' : GivesAnswer(c) => status' = "running"
  <2>1. "partial" \in Working /\ "stream" \in Working
    BY DEF Working, Over
  <2> QED
    BY <1>1, <1>3, <2>1 DEF ListFits, NoAnswer, Waiting
<1>6. /\ pc' \notin {"none", "register"}
      /\ pc' = "start" => status' = "created" /\ SetsOnly(s, {})
      /\ pc' = "planning" => status' = "created" /\ Sets(s, "planning") /\ SetsOnly(s, {"planning"})
      /\ pc' \in Drafting => status' = "planning" /\ SetsOnly(s, {})
      /\ pc' = "task" =>
            /\ SetsOnly(s, {"running"})
            /\ \/ status' = "planning" /\ Sets(s, "running")
               \/ status' = "running" /\ SetsOnly(s, {})
      /\ pc' \in Working => status' = "running" /\ SetsOnly(s, {})
      /\ pc' \in ClosedPoints =>
            /\ status' \in {"planning", "running"} \cup TerminalRunStatuses
            /\ SetsOnly(s, {"cancelled"})
      /\ SetsOnce(s)
  <2>1. \A x \in InFlight \cup Over : x \in Working
    BY DEF Working
  <2>2. "planned" \in Drafting /\ "recall" \in Drafting /\ "plan" \in Drafting
    BY DEF Drafting
  <2>3. SetsOnly(s, {}) => SetsOnly(s, {"running"})
    BY DEF SetsOnly
  <2> QED
    BY <1>1, <1>3, <1>4, <2>1, <2>2, <2>3 DEF WayFits
<1> QED
  BY <1>1, <1>5, <1>6 DEF StatusInv, SetsOnly, Sets, SetsOnce, SetStatus, GivesAnswer

(* A commit that sets a status is the only one, and one that ends the run  *)
(* is the last that writes.                                                *)
LEMMA CommitSets ==
    ASSUME TypeOK, TasksInv, OutcomeInv, EndInv, StatusInv, Committing
    PROVE  StatusInv'
<1> DEFINE c == Head(todo)
<1>1. /\ UNCHANGED <<pc, cur, last>> /\ Effect(c) /\ c = todo[1] /\ c \in Waiting
      /\ 1 \in 1 .. Len(todo) /\ Len(todo) \in Nat
      /\ \A e \in Waiting' : e \in Waiting \/ e.op = "emitSkipped"
  BY CommitEffect, Behind, StillWaiting DEF local, plan
<1>2. \A e \in Waiting : e = c \/ e \in Waiting'
  <2>1. Performs(c)
    BY <1>1, CommitEffect DEF Performs, LeavesBehind
  <2> QED
    BY <2>1, AfterCommit DEF TasksInv
<1>3. PICK d \in {0, 1} :
          /\ Len(todo') = Len(todo) - d
          /\ \A k \in 1 .. Len(todo') :
                \/ d = 0 /\ k = 1 /\ todo'[k].op = "emitSkipped"
                \/ k + d \in 2 .. Len(todo) /\ todo'[k] = todo[k + d]
  BY Behind
<1> HIDE DEF c
<1>4. /\ \A S : SetsOnly(todo, S) => SetsOnly(todo', S)
      /\ SetsOnce(todo')
      /\ c.op = "status" => SetsOnly(todo', {})
      /\ Closes(c) => \A e \in Waiting' : ~GivesAnswer(e)
  <2>1. \A k \in 1 .. Len(todo') : todo'[k].op # "emitSkipped" =>
            /\ k + d \in 1 .. Len(todo) /\ 1 # k + d /\ 1 < k + d
            /\ todo'[k] = todo[k + d]
    BY <1>1, <1>3
  <2>2. \A S : SetsOnly(todo, S) => SetsOnly(todo', S)
    BY <2>1 DEF SetsOnly
  <2>3. SetsOnce(todo')
    <3> SUFFICES ASSUME NEW k \in 1 .. Len(todo'), NEW m \in 1 .. Len(todo'),
                        todo'[k].op = "status", todo'[m].op = "status"
                 PROVE  k = m
      BY DEF SetsOnce
    <3>1. k + d = m + d
      BY <2>1 DEF StatusInv, SetsOnce
    <3> QED
      BY <1>3, <3>1
  <2>4. c.op = "status" => SetsOnly(todo', {})
    BY <1>1, <2>1 DEF StatusInv, SetsOnce, SetsOnly
  <2>5. Closes(c) => \A e \in Waiting' : ~GivesAnswer(e)
    <3>1. \A e : GivesAnswer(e) => Writes(e) /\ e.op # "emitSkipped"
      BY DEF GivesAnswer, Writes
    <3> QED
      BY <1>1, <2>1, <3>1 DEF EndInv, ClosesLast, Waiting
  <2> QED
    BY <2>2, <2>3, <2>4, <2>5
<1>5. \A x : Sets(todo, x) => c = SetStatus(x) \/ Sets(todo', x)
  <2> SUFFICES ASSUME NEW x, Sets(todo, x) PROVE c = SetStatus(x) \/ Sets(todo', x)
    OBVIOUS
  <2>1. SetStatus(x) \in Waiting
    BY DEF Sets, Waiting
  <2>2. PICK y : y = SetStatus(x)
    OBVIOUS
  <2>3. y = c \/ y \in Waiting'
    BY <1>2, <2>1, <2>2
  <2> QED
    BY <2>2, <2>3 DEF Sets, Waiting
<1>6. c.op = "status" =>
          \/ pc = "planning" /\ c.status = "planning"
          \/ pc = "task" /\ c.status = "running"
          \/ pc \in ClosedPoints /\ c.status = "cancelled"
          \/ pc = "none"
  <2>1. \A S : SetsOnly(todo, S) /\ c.op = "status" => c.status \in S
    BY <1>1 DEF SetsOnly
  <2>2. pc \in {"none", "register", "start", "planning", "task"} \cup Drafting \cup Working
               \cup ClosedPoints
    BY DEF TypeOK, ControlOK, ControlPoints, Drafting, Working, InFlight, Over, ClosedPoints
  <2> QED
    BY <2>1, <2>2 DEF StatusInv
<1>7. pc # "none"
  BY <1>1 DEF StatusInv
<1>8. ASSUME NEW e \in Waiting', GivesAnswer(e) PROVE status' = "running"
  <2>1. status = "running" /\ ~Closes(c) /\ e \in Waiting
    BY <1>1, <1>4, <1>8 DEF StatusInv, GivesAnswer
  <2>2. c.op # "status"
    <3>1. pc \in ClosedPoints
      BY <2>1, <1>8 DEF EndInv, NoAnswer, Waiting
    <3>2. c.op = "status" => c.status = "cancelled"
      BY <1>6, <3>1 DEF ClosedPoints
    <3> QED
      BY <2>1, <3>2 DEF Closes, TerminalRunStatuses
  <2> QED
    BY <1>1, <2>1, <2>2 DEF Effect, Closes
<1>9. CASE c.op = "status"
  <2>1. status' = c.status /\ SetsOnly(todo', {})
    BY <1>1, <1>4, <1>9 DEF Effect
  <2>2. \A S : SetsOnly(todo', S)
    BY <2>1 DEF SetsOnly
  <2>3. \/ pc = "planning" /\ status' = "planning"
        \/ pc = "task" /\ status' = "running"
        \/ pc \in ClosedPoints /\ status' = "cancelled"
    BY <1>6, <1>7, <1>9, <2>1
  <2> QED
    BY <1>1, <1>4, <1>8, <2>2, <2>3
    DEF StatusInv, SetsOnly, Sets, SetsOnce, SetStatus, GivesAnswer, Drafting, Working,
        InFlight, Over, ClosedPoints, TerminalRunStatuses
<1>10. CASE Closes(c) /\ c.op # "status"
  <2>1. pc \in ClosedPoints
    BY <1>1, <1>10 DEF EndInv, NoClose
  <2>2. status' \in TerminalRunStatuses
    BY <1>1, <1>10 DEF Closes, Effect, TerminalRunStatuses
  <2>3. SetsOnly(todo', {"cancelled"})
    BY <1>4, <2>1 DEF StatusInv
  <2> QED
    BY <1>1, <1>4, <1>8, <2>1, <2>2, <2>3
    DEF StatusInv, SetsOnly, Sets, SetsOnce, SetStatus, GivesAnswer, Drafting, Working,
        InFlight, Over, ClosedPoints
<1>11. CASE ~Closes(c) /\ c.op # "status"
  <2>1. status' = status
    BY <1>1, <1>11 DEF Closes, Effect
  <2>2. \A x : Sets(todo, x) => Sets(todo', x)
    BY <1>5, <1>11 DEF SetStatus
  <2>3. /\ pc \in {"register", "start"} => status = "created" /\ SetsOnly(todo', {})
        /\ pc = "planning" =>
              /\ SetsOnly(todo', {"planning"})
              /\ \/ status = "created" /\ Sets(todo', "planning")
                 \/ status = "planning" /\ SetsOnly(todo', {})
        /\ pc \in Drafting => status = "planning" /\ SetsOnly(todo', {})
        /\ pc = "task" =>
              /\ SetsOnly(todo', {"running"})
              /\ \/ status = "planning" /\ Sets(todo', "running")
                 \/ status = "running" /\ SetsOnly(todo', {})
        /\ pc \in Working => status = "running" /\ SetsOnly(todo', {})
        /\ pc \in ClosedPoints =>
              /\ status \in {"planning", "running"} \cup TerminalRunStatuses
              /\ SetsOnly(todo', {"cancelled"})
        /\ SetsOnce(todo')
    BY <1>4, <2>2 DEF StatusInv
  <2> QED
    BY <1>1, <1>7, <1>8, <2>1, <2>3
    DEF StatusInv, SetsOnly, Sets, SetsOnce, SetStatus, GivesAnswer
<1> QED
  BY <1>9, <1>10, <1>11

LEMMA StatusStep ==
    ASSUME TypeOK, TasksInv, OutcomeInv, EndInv, PlanInv, StatusInv, [Next]_vars
    PROVE  StatusInv'
<1>1. CASE CreateRun
  <2>1. PICK c : c = Emit(Plain("run.created"))
    OBVIOUS
  <2>2. todo' = <<c>> /\ pc' = "register" /\ status' = "created"
    BY <1>1, <2>1 DEF CreateRun
  <2>3. c.op = "emit"
    BY <2>1 DEF Emit
  <2> QED
    BY <2>2, <2>3 DEF StatusInv, SetsOnly, SetsOnce, Waiting, GivesAnswer, Drafting, Working,
       InFlight, Over, ClosedPoints
<1>2. CASE Planning \/ Executing \/ Judging \/ Answering
  BY <1>2, EveryDecisionFits, DecisionSets DEF Decides, Decision
<1>3. CASE Committing
  BY <1>3, CommitSets
<1>4. CASE CancelRun \/ Ended \/ UNCHANGED vars
  <2>1. UNCHANGED <<status, pc, todo>>
    BY <1>4, AsideSteps
  <2> QED
    BY <2>1 DEF StatusInv, SetsOnly, Sets, SetsOnce, SetStatus, Waiting, GivesAnswer
<1> QED
  BY <1>1, <1>2, <1>3, <1>4, DecidingSteps

(* In every reachable state the status goes with the control point and     *)
(* with what waits.                                                        *)
THEOREM StatusInvariant == Spec => []StatusInv
<1>1. Init => StatusInv
  BY DEF Init, StatusInv, SetsOnce, Waiting, Drafting, Working, InFlight, Over, ClosedPoints
<1>2. TypeOK /\ TasksInv /\ OutcomeInv /\ BookInv /\ StatusInv /\ [Next]_vars => StatusInv'
  BY StatusStep DEF BookInv
<1> QED
  BY <1>1, <1>2, TypeInvariant, TasksInvariant, OutcomeSettled, BookInvariant, PTL DEF Spec

(* What a commit is to the clients: nothing, or one step of the lifecycle. *)
LEMMA CommitIsLifecycle ==
    ASSUME TypeOK, OutcomeInv, AnswerInv, BookInv, StatusInv, Committing
    PROVE  [Lifecycle!Next]_(Lifecycle!vars)
<1> DEFINE c == Head(todo)
<1>1. /\ Effect(c) /\ c = todo[1] /\ c \in Waiting /\ 1 \in 1 .. Len(todo)
  BY CommitEffect, Behind
<1>2. view.terminal \in BOOLEAN /\ view'.terminal \in BOOLEAN /\ pc \in ControlPoints
  BY CommittingType DEF TypeOK, IsReplayState, ControlOK
<1>3. EndInv /\ LeadInv
  BY DEF BookInv
<1> HIDE DEF c
<1> USE DEF Lifecycle!Next, Lifecycle!vars
<1>4. Writes(c) => view' = view /\ status \notin TerminalRunStatuses /\ ~view.terminal
  BY <1>1, <1>3 DEF Writes, Effect, OutcomeInv, NoWrite, LeadInv, Silent, Says
<1>5. Closes(c) \/ GivesAnswer(c) => pc \in ClosedPoints
  BY <1>1, <1>3 DEF EndInv, NoClose, NoAnswer
<1>6. CASE c.op = "status"
  <2>1. status' = c.status /\ UNCHANGED <<answer, view>> /\ ~view.terminal
    BY <1>1, <1>4, <1>6 DEF Effect, Writes
  <2>2. \A S : SetsOnly(todo, S) => c.status \in S
    BY <1>1, <1>6 DEF SetsOnly
  <2>3. pc \in {"none", "register", "start", "planning", "task"} \cup Drafting \cup Working
               \cup ClosedPoints
    BY <1>2 DEF ControlPoints, Drafting, Working, InFlight, Over, ClosedPoints
  <2>4. \/ status = "created" /\ status' = "planning"
        \/ status = "planning" /\ status' = "running"
        \/ status \in {"planning", "running"} /\ status' = "cancelled"
    BY <1>1, <1>4, <1>6, <2>1, <2>2, <2>3 DEF StatusInv, Writes
  <2>5. answer = "none"
    <3>1. answer # "partial"
      BY <1>1, <1>6 DEF AnswerInv, Writes, Aborts
    <3>2. answer # "full"
      BY <1>4, <1>6 DEF AnswerInv, Writes, TerminalRunStatuses
    <3> QED
      BY <3>1, <3>2 DEF TypeOK, RowsOK, Answers
  <2> QED
    BY <2>1, <2>4, <2>5 DEF Lifecycle!Progress, Lifecycle!Finish
<1>7. CASE c.op = "failed" \/ c.op = "done"
  <2>1. /\ c.op = "failed" => status' = "failed" /\ answer' = answer
        /\ c.op = "done" => status' = "done" /\ answer' = "full"
        /\ view' = view /\ ~view.terminal /\ status \in {"planning", "running"}
    <3>1. pc \in ClosedPoints
      BY <1>5, <1>7 DEF Closes
    <3> QED
      BY <1>1, <1>4, <1>7, <3>1 DEF Effect, Writes, StatusInv
  <2>2. c.op = "done" => status = "running" /\ answer = "none"
    BY <1>1, <1>3 DEF GivesAnswer, StatusInv, EndInv, NoAnswer
  <2> QED
    BY <1>7, <2>1, <2>2 DEF Lifecycle!Finish
<1>8. CASE c.op = "answer"
  <2>1. status' = status /\ answer' = "partial" /\ view' = view /\ ~view.terminal
    BY <1>1, <1>4, <1>8 DEF Effect, Writes
  <2>2. status = "running" /\ answer = "none"
    BY <1>1, <1>3, <1>8 DEF GivesAnswer, StatusInv, EndInv, NoAnswer
  <2> QED
    BY <2>1, <2>2 DEF Lifecycle!KeepPartial
<1>9. CASE c.op \in {"emit", "emitSkipped"}
  <2>1. PICK v : /\ Honest(v) /\ Reads(view, v, view') /\ UNCHANGED <<status, answer>>
                 /\ c.op = "emit" => v = c.event
                 /\ c.op = "emitSkipped" => v.type = "task.skipped"
    BY <1>3, <1>9, CommitAppends DEF c
  <2>2. CASE view.terminal
    <3>1. Silent(c)
      BY <1>1, <1>3, <2>2 DEF LeadInv
    <3> QED
      BY <2>1, <3>1 DEF Silent, Says, Reads, SilentEventTypes
  <2>3. CASE ~view.terminal /\ v.type \in ClosingTypes
    <3>1. view'.terminal /\ view'.status = status /\ status \in TerminalRunStatuses
      BY <2>1, <2>3 DEF Reads, Honest, ClosingTypes, TerminalRunStatuses
    <3> QED
      BY <2>1, <2>3, <3>1
      DEF Lifecycle!Announce, Lifecycle!TerminalRunStatuses, TerminalRunStatuses
  <2>4. CASE ~view.terminal /\ v.type \notin ClosingTypes
    BY <1>2, <2>1, <2>4 DEF Reads
  <2> QED
    BY <2>2, <2>3, <2>4
<1>10. CASE c.op \notin {"status", "failed", "done", "answer", "emit", "emitSkipped"}
  BY <1>1, <1>10 DEF Effect
<1> QED
  BY <1>6, <1>7, <1>8, <1>9, <1>10

LEMMA RunIsLifecycle ==
    ASSUME TypeOK, OutcomeInv, AnswerInv, BookInv, StatusInv, [Next]_vars
    PROVE  [Lifecycle!Next]_(Lifecycle!vars)
<1> USE DEF Lifecycle!Next, Lifecycle!vars
<1>1. CASE CreateRun
  BY <1>1 DEF CreateRun, StatusInv, Lifecycle!Create
<1>2. CASE Planning \/ Executing \/ Judging \/ Answering
  <2>1. PlanInv
    BY DEF BookInv
  <2> QED
    BY <1>2, <2>1, EveryDecisionFits DEF Decides, Decision, Decide, durable
<1>3. CASE Committing
  BY <1>3, CommitIsLifecycle
<1>4. CASE CancelRun \/ Ended \/ UNCHANGED vars
  BY <1>4, AsideSteps
<1> QED
  BY <1>1, <1>2, <1>3, <1>4, DecidingSteps

(* To its clients the run is a RunLifecycle, in all that is safe: statuses *)
(* advance, a terminal one is final and comes with the answer it allows,   *)
(* and it is announced once, after it is stored, as it is stored.          *)
THEOREM RunImplementsLifecycle == Spec => Lifecycle!Spec
<1>1. Init => Lifecycle!Init
  BY DEF Init, ReplayState0, Lifecycle!Init
<1>2. /\ TypeOK /\ OutcomeInv /\ AnswerInv /\ BookInv /\ StatusInv /\ [Next]_vars
      => [Lifecycle!Next]_(Lifecycle!vars)
  BY RunIsLifecycle
<1> QED
  BY <1>1, <1>2, TypeInvariant, OutcomeSettled, AnswerInvariant, BookInvariant,
     StatusInvariant, PTL DEF Spec, Lifecycle!Spec

-----------------------------------------------------------------------------
(***************************************************************************)
(* What holds of a run across failures of its process and of its database, *)
(* for every number of crashes and faults.                                 *)
(*                                                                         *)
(* But for the time in which the reconciler's commits are in todo, the     *)
(* manager's own invariants hold whatever failed: a crash and an exception *)
(* leave states that the manager could leave too, as far as those          *)
(* invariants look.  That is what they are stated for: none says that a    *)
(* run is over only once it is closed (CloseInv) or that a finished run is *)
(* left alone (OutcomeInv); a fault breaks both, and they return with the  *)
(* next start of the process.                                              *)
(***************************************************************************)

ManagerInv == TypeOK /\ TasksInv /\ EndInv /\ PlanInv /\ LeadInv

(* What they say of the rows and the ledger of a run that nothing runs.    *)
RestInv ==
    /\ ExecutedInOrder
    /\ Settled => AllFinal
    /\ RowsLeadLedger
    /\ view.terminal => status \in TerminalRunStatuses
    /\ ~view.terminal => view.error = "none"
    /\ status # "failed" => error = "none"

(* The reconciler's commits, in the order it performs them.                *)
Closing == FinalizeFailed("interrupted")
Verdict == Emit([type |-> "run.failed", error |-> "interrupted"])

Cancelling == todo = <<CancelOpen>> \o Closing
TellingCancelled ==
    \E S \in SUBSET DOMAIN tasks :
        /\ S # {} /\ todo = <<EmitCancelled(S)>> \o Closing
        /\ \A i \in S : tasks[i] = "cancelled"
Failing == todo = Closing
TellingFailed == todo = <<Verdict>>

ReconcilingInv ==
    /\ pc = "ended"
    /\ \/ /\ status \notin TerminalRunStatuses \cup {"none"}
          /\ Cancelling \/ (AllFinal /\ (TellingCancelled \/ Failing))
       \/ /\ TellingFailed /\ AllFinal
          /\ status = "failed" /\ error = "interrupted" /\ ~view.terminal
       \/ todo = <<>> /\ status \in TerminalRunStatuses

(* Before it is created a run is nothing yet.                              *)
ExistInv ==
    /\ pc = "none" <=> status = "none"
    /\ pc = "none" => todo = <<>>

ClosedInv == error = "interrupted" => AllFinal /\ pc = "ended"

RecoveryInv ==
    /\ RecoveryTypeOK
    /\ server # "reconcile" => ManagerInv
    /\ server = "reconcile" => RestInv /\ ReconcilingInv
    /\ server \in {"down", "scan"} => pc \in {"none", "ended"} /\ todo = <<>>
    /\ ExistInv /\ ClosedInv
    /\ server # "reconcile" /\ faults = 0 => OutcomeInv
    /\ RecoveryEnabled /\ server = "up" /\ faults = 0 => CloseInv

-----------------------------------------------------------------------------
LEMMA RestsAlways == ASSUME RecoveryInv PROVE RestInv
<1>1. ASSUME ManagerInv PROVE RestInv
  BY <1>1 DEF ManagerInv, RestInv, TasksInv, SettleInv, LeadInv
<1> QED
  BY <1>1 DEF RecoveryInv

LEMMA ManagedTypes ==
    ASSUME TypeOK, server \in Servers, crashes \in 0 .. MaxCrashes, faults \in 0 .. MaxFaults
    PROVE  RecoveryTypeOK
BY DEF TypeOK, ControlOK, RecoveryTypeOK

LEMMA Prefixed ==
    ASSUME NEW T, NEW x \in T, NEW q \in Seq(T)
    PROVE  /\ <<x>> \o q \in Seq(T) \ {<<>>}
           /\ Head(<<x>> \o q) = x /\ Tail(<<x>> \o q) = q
<1>1. <<x>> \in Seq(T) /\ Len(<<x>>) = 1
  OBVIOUS
<1>2. PICK s : s = <<x>> \o q
  OBVIOUS
<1>3. Len(s) = 1 + Len(q) /\ s \in Seq(T) /\ s[1] = x
  BY <1>1, <1>2
<1>4. \A k \in 1 .. Len(q) : s[1 + k] = q[k]
  BY <1>1, <1>2
<1>5. s # <<>> /\ Tail(s) \in Seq(T) /\ Len(Tail(s)) = Len(q) /\ Head(s) = x
  BY <1>3
<1>6. \A k \in 1 .. Len(q) : Tail(s)[k] = q[k]
  BY <1>3, <1>4
<1> QED
  BY <1>2, <1>5, <1>6, SeqEqual

LEMMA ClosingSpelled ==
    /\ \A x, s : s = <<x>> \o Closing => s # <<>> /\ Head(s) = x /\ Tail(s) = Closing
    /\ Closing # <<>> /\ Head(Closing) = SetFailed("interrupted") /\ Tail(Closing) = <<Verdict>>
    /\ <<Verdict>> # <<>> /\ Head(<<Verdict>>) = Verdict /\ Tail(<<Verdict>>) = <<>>
<1>1. PICK f : f = SetFailed("interrupted")
  OBVIOUS
<1>2. PICK v : v = Verdict
  OBVIOUS
<1>3. Closing = <<f, v>>
  BY <1>1, <1>2 DEF Closing, FinalizeFailed, Verdict
<1>4. ASSUME NEW x, NEW s, s = <<x>> \o Closing
      PROVE  s # <<>> /\ Head(s) = x /\ Tail(s) = Closing
  <2>1. PICK T : T = {x, f, v}
    OBVIOUS
  <2>2. x \in T /\ f \in T /\ v \in T
    BY <2>1
  <2>3. Closing \in Seq(T)
    BY <1>3, <2>2
  <2> QED
    BY <1>4, <2>2, <2>3, Prefixed
<1>5. <<f, v>> # <<>> /\ Head(<<f, v>>) = f /\ Tail(<<f, v>>) = <<v>>
  OBVIOUS
<1>6. <<v>> # <<>> /\ Head(<<v>>) = v /\ Tail(<<v>>) = <<>>
  OBVIOUS
<1> QED
  BY <1>1, <1>2, <1>3, <1>4, <1>5, <1>6, Zenon

LEMMA DurableTypes ==
    ASSUME RowsOK, IsReplayState(view), UNCHANGED durable
    PROVE  RowsOK' /\ IsReplayState(view)'
BY DEF durable, RowsOK, IsReplayState

(* The rows and the ledger rest: nothing runs the run any more.            *)
LEMMA ComesToRest ==
    ASSUME RestInv, UNCHANGED durable, TypeOK', todo' = <<>>,
           \/ pc' = "ended"
           \/ pc' = "none" /\ status = "none" /\ answer = "none" /\ DOMAIN tasks = {} /\ cur' = 0
    PROVE  ManagerInv' /\ OutcomeInv'
<1>1. UNCHANGED <<status, answer, error, tasks, view>>
  BY DEF durable
<1>2. Waiting' = {} /\ Len(todo') = 0
  BY DEF Waiting
<1>3. (~view.terminal /\ ~Settled) \/ pc' = "ended"
  BY DEF RestInv, TerminalRunStatuses, Settled
<1>4. TasksInv'
  <2>1. ExecutedInOrder'
    BY <1>1 DEF RestInv, ExecutedInOrder
  <2>2. (Settled => AllFinal /\ pc \in ClosedPoints)'
    BY <1>1, <1>3 DEF RestInv, Settled, AllFinal, Final, ClosedPoints
  <2>3. EarlyInv' /\ LoopInv'
    BY <1>1 DEF EarlyInv, LoopInv, Early, AtRest, InFlight
  <2>4. LateInv' /\ SettleInv'
    BY <1>2, <2>2 DEF LateInv, SettleInv, Over
  <2>5. Tidy(todo)'
    BY <1>2 DEF Tidy
  <2> QED
    BY <1>2, <2>1, <2>3, <2>4, <2>5 DEF TasksInv
<1>5. EndInv'
  BY <1>1, <1>2 DEF EndInv, ClosesLast, AnswersOnce, Ours, NoClose, NoAnswer, ClosedPoints,
     TerminalRunStatuses
<1>6. PlanInv'
  BY <1>2 DEF PlanInv, AtRest, InFlight
<1>7. LeadInv'
  BY <1>1, <1>2, <1>3 DEF LeadInv, RestInv, RowsLeadLedger, Paired, Owing, ClosedPoints
<1>8. OutcomeInv'
  BY <1>1, <1>2 DEF OutcomeInv, ClosesLast, NoClose, NoWrite, ClosedPoints, TerminalRunStatuses
<1> QED
  BY <1>4, <1>5, <1>6, <1>7, <1>8 DEF ManagerInv

-----------------------------------------------------------------------------
(* The steps of the manager                                                *)

(* No event follows the one that ends a run, but for those no fold reads.  *)
LEMMA ViewSealed ==
    ASSUME TypeOK, LeadInv, EndInv, PlanInv, view.terminal, [Next]_vars
    PROVE  view' = view
<1>1. CASE CreateRun
  BY <1>1 DEF CreateRun
<1>2. CASE Planning \/ Executing \/ Judging \/ Answering
  BY <1>2, EveryDecisionFits DEF Decides, Decision, Decide, durable
<1>3. CASE Committing
  <2>1. Silent(Head(todo)) /\ Head(todo).op = "emit" /\ Head(todo).event.type \in SilentEventTypes
    BY <1>3, Behind DEF LeadInv, Silent, Says, SilentEventTypes
  <2>2. PICK e : Reads(view, e, view') /\ e = Head(todo).event
    BY <1>3, <2>1, CommitAppends
  <2> QED
    BY <2>1, <2>2 DEF Reads
<1>4. CASE CancelRun \/ Ended \/ UNCHANGED vars
  BY <1>4, AsideSteps
<1> QED
  BY <1>1, <1>2, <1>3, <1>4, DecidingSteps

LEMMA ManagerExists ==
    ASSUME TypeOK, PlanInv, ExistInv, [Next]_vars
    PROVE  ExistInv'
<1>1. CASE CreateRun
  BY <1>1 DEF CreateRun, ExistInv
<1>2. CASE Planning \/ Executing \/ Judging \/ Answering
  <2>1. PICK from, to, s : Decision(from, to, s)
    BY <1>2, EveryDecisionFits DEF Decides
  <2>2. pc = from /\ pc' = to /\ status' = status
    BY <2>1 DEF Decision, Decide, durable
  <2>3. to \in ControlPoints
    BY <2>2, TypeStep DEF TypeOK, ControlOK
  <2>4. from # "none" /\ to # "none"
    BY <2>1, <2>3 DEF Decision, WayFits, ControlPoints, ClosedPoints, InFlight, Over, Drafting,
       Working
  <2> QED
    BY <2>2, <2>4 DEF ExistInv
<1>3. CASE Committing
  <2>1. todo # <<>> /\ pc' = pc /\ Effect(Head(todo)) /\ Head(todo) \in Commit
    BY <1>3, CommitEffect, Behind
  <2>2. pc # "none" /\ status # "none"
    BY <2>1 DEF ExistInv
  <2>3. status' # "none"
    BY <2>1, <2>2, CommitFields DEF Effect, RunStatuses
  <2> QED
    BY <2>1, <2>2, <2>3 DEF ExistInv
<1>4. CASE CancelRun \/ Ended \/ UNCHANGED vars
  <2>1. UNCHANGED <<status, pc, todo>>
    BY <1>4, AsideSteps
  <2> QED
    BY <2>1 DEF ExistInv
<1> QED
  BY <1>1, <1>2, <1>3, <1>4, DecidingSteps

(* A run whose task is over is left as it is.                              *)
LEMMA OverIsOver ==
    ASSUME TypeOK, PlanInv, EndInv, pc = "ended", [Next]_vars
    PROVE  UNCHANGED <<status, answer, error, tasks, view, pc, todo>>
<1>1. ~CreateRun
  BY DEF CreateRun
<1>2. ~Committing
  BY CommitEffect DEF EndInv
<1>3. ASSUME Planning \/ Executing \/ Judging \/ Answering PROVE FALSE
  <2>1. PICK from, to, s : Decision(from, to, s)
    BY <1>3, EveryDecisionFits DEF Decides
  <2>2. pc = from /\ pc' = to
    BY <2>1 DEF Decision, Decide
  <2>3. to \in ControlPoints
    BY <2>2, TypeStep DEF TypeOK, ControlOK
  <2> QED
    BY <2>1, <2>2 DEF Decision, WayFits
<1> QED
  BY <1>1, <1>2, <1>3, AsideSteps, DecidingSteps

LEMMA ManagerClosed ==
    ASSUME ManagerInv, ClosedInv, [Next]_vars
    PROVE  ClosedInv'
<1>1. CASE error = "interrupted"
  <2>1. UNCHANGED <<error, tasks, pc>>
    BY <1>1, OverIsOver DEF ManagerInv, ClosedInv
  <2> QED
    BY <2>1 DEF ClosedInv, AllFinal, Final
<1>2. CASE error # "interrupted"
  <2> SUFFICES error' # "interrupted"
    BY DEF ClosedInv
  <2>1. CASE CreateRun
    BY <1>2, <2>1 DEF CreateRun
  <2>2. CASE Planning \/ Executing \/ Judging \/ Answering
    BY <1>2, <2>2, EveryDecisionFits DEF ManagerInv, Decides, Decision, Decide, durable
  <2>3. CASE Committing
    <3>1. Effect(Head(todo)) /\ Head(todo) = todo[1] /\ 1 \in 1 .. Len(todo)
      BY <2>3, CommitEffect, Behind DEF ManagerInv
    <3>2. Head(todo).op = "failed" => Head(todo).error # "interrupted"
      BY <3>1 DEF ManagerInv, EndInv, Ours, Closes
    <3> QED
      BY <1>2, <3>1, <3>2 DEF Effect
  <2>4. CASE CancelRun \/ Ended \/ UNCHANGED vars
    BY <1>2, <2>4, AsideSteps
  <2> QED
    BY <2>1, <2>2, <2>3, <2>4, DecidingSteps
<1> QED
  BY <1>1, <1>2

(* A step of the manager, in a life of the process that goes on.           *)
LEMMA ManagerKeeps ==
    ASSUME RecoveryInv, server = "up", server' = "up", crashes' = crashes,
           faults' = faults \/ faults' \in 1 .. MaxFaults, [Next]_vars
    PROVE  RecoveryInv'
<1>1. ManagerInv /\ ExistInv /\ ClosedInv /\ RecoveryTypeOK
  BY DEF RecoveryInv
<1>2. ManagerInv'
  BY <1>1, TypeStep, TasksStep, EndStep, PlanStep, LeadStep DEF ManagerInv
<1>3. faults' \in 0 .. MaxFaults /\ (faults' = 0 => faults = 0)
  BY <1>1, FailureAssumption DEF RecoveryTypeOK
<1>4. RecoveryTypeOK'
  BY <1>1, <1>2, <1>3 DEF ManagerInv, RecoveryTypeOK, TypeOK, ControlOK, Servers
<1>5. ExistInv' /\ ClosedInv'
  BY <1>1, ManagerExists, ManagerClosed DEF ManagerInv
<1>6. faults' = 0 => OutcomeInv'
  BY <1>1, <1>3, OutcomeStep DEF RecoveryInv, ManagerInv
<1>7. RecoveryEnabled /\ faults' = 0 => CloseInv'
  BY <1>1, <1>3, CloseStep DEF RecoveryInv, ManagerInv
<1> QED
  BY <1>2, <1>4, <1>5, <1>6, <1>7 DEF RecoveryInv

-----------------------------------------------------------------------------
(* Faults                                                                  *)

(* A best-effort commit that raises leaves what it leaves when it returns. *)
LEMMA BestEffortIsCommit ==
    ASSUME TypeOK, todo # <<>>, BestEffort, todo' = Tail(todo), UNCHANGED <<durable, pc, local>>
    PROVE  Next
<1>1. IsReplayState(view) /\ FoldStep(view, Head(todo).event) = view
  BY DEF TypeOK, BestEffort, FoldStep, TaskEventTypes
<1>2. CommitEmit
  BY <1>1 DEF CommitEmit, Pending, Performed, BestEffort, durable, rows
<1> QED
  BY <1>2 DEF Next, Execute, Committing

(* The exception that reaches _execute finalizes a run whose ledger does   *)
(* not hold its terminal event yet.                                        *)
LEMMA UnexpectedKeeps ==
    ASSUME RecoveryInv, server = "up", UNCHANGED <<server, crashes>>, Unexpected,
           faults' \in 1 .. MaxFaults, ~view.terminal, pc # "none", error # "interrupted"
    PROVE  RecoveryInv'
<1>1. ManagerInv /\ ExistInv /\ RecoveryTypeOK
  BY DEF RecoveryInv
<1>2. PICK s : s = FinalizeFailed("unexpected")
  OBVIOUS
<1>3. EndList(s) /\ NoAnswer(s) /\ TouchesIn(s, {})
  BY <1>2, EndLists
<1>4. /\ pc' = "handled" /\ todo' = s
      /\ UNCHANGED <<status, answer, error, tasks, attempts, view, local>>
  BY <1>2 DEF Unexpected, durable
<1>5. /\ Len(s) = 2 /\ s[1] = SetFailed("unexpected")
      /\ s[2] = Emit([type |-> "run.failed", error |-> "unexpected"])
  BY <1>2 DEF FinalizeFailed
<1>6. /\ s[1].op = "failed" /\ s[1].error = "unexpected" /\ s[2].op = "emit"
      /\ Waiting' = {s[1], s[2]}
  BY <1>4, <1>5 DEF SetFailed, Emit, Waiting
<1>7. TypeOK'
  <2>1. s \in Seq(Commit)
    BY <1>1, <1>2, HelperTypes DEF Errors, ManagerInv, TypeOK, LocalOK
  <2>2. "handled" \in ControlPoints /\ UNCHANGED <<registered, cancel>>
    BY <1>4 DEF ControlPoints, local, handle
  <2> QED
    BY <1>1, <1>4, <2>1, <2>2
    DEF ManagerInv, TypeOK, ControlOK, RowsOK, IsReplayState, LocalOK, BudgetOK, local, handle,
        plan, turn, budget
<1>8. TasksInv'
  <2>1. \A c \in Waiting' : ~Opens(c) /\ ~Settles(c) /\ c.op # "skip"
    BY <1>6 DEF Opens, Settles
  <2>2. \A c \in Waiting' : Fits(c)'
    BY <1>6 DEF Fits, Touches
  <2>3. Tidy(s)
    BY <1>5, <1>6 DEF Tidy, Settles, Works
  <2>4. EarlyInv' /\ LoopInv' /\ LateInv'
    BY <1>4, <2>1 DEF EarlyInv, LoopInv, LateInv, Early, AtRest, InFlight, Over, Opens
  <2>5. SettleInv' /\ ExecutedInOrder'
    BY <1>1, <1>4, <2>1
    DEF ManagerInv, TasksInv, SettleInv, Settled, AllFinal, Final, ExecutedInOrder, ClosedPoints,
        Settles
  <2>6. Tidy(todo)'
    BY <1>4, <2>3 DEF Tidy, Settles, Works
  <2> QED
    BY <2>2, <2>4, <2>5, <2>6 DEF TasksInv
<1>9. EndInv'
  <2>1. ClosesLast(s) /\ AnswersOnce(s) /\ Ours(s)
    BY <1>3 DEF EndList, Orderly
  <2>2. ClosesLast(todo)' /\ AnswersOnce(todo)' /\ Ours(todo)' /\ NoAnswer(todo)'
    BY <1>3, <1>4, <2>1 DEF ClosesLast, AnswersOnce, Ours, NoAnswer, Closes, Writes, GivesAnswer
  <2>3. \A c \in Waiting' : c.op \notin {"status", "done"}
    BY <1>6
  <2> QED
    BY <1>4, <2>2, <2>3 DEF EndInv, ClosedPoints
<1>10. PlanInv'
  BY <1>4, <1>6 DEF PlanInv, AtRest, InFlight, Touches
<1>11. LeadInv'
  <2>1. Paired(s) /\ ~Telling(s[1])
    BY <1>3, <1>5 DEF EndList, Orderly, Fresh
  <2>2. Paired(todo)'
    BY <1>4, <2>1 DEF Paired, Followed, Preceded, Public, Telling, LastWord, Says, Announces
  <2>3. ~Owing'
    BY <1>4, <1>5, <2>1 DEF Owing, Telling, Says
  <2> QED
    BY <1>1, <1>4, <2>2, <2>3 DEF ManagerInv, LeadInv, RowsLeadLedger
<1>12. ManagerInv'
  BY <1>7, <1>8, <1>9, <1>10, <1>11 DEF ManagerInv
<1>13. RecoveryTypeOK'
  BY <1>1, <1>7 DEF RecoveryTypeOK, TypeOK, ControlOK, Servers
<1>14. ExistInv' /\ ClosedInv' /\ faults' # 0
  BY <1>1, <1>4, FailureAssumption DEF ExistInv, ClosedInv
<1> QED
  BY <1>12, <1>13, <1>14 DEF RecoveryInv

LEMMA FaultKeeps ==
    ASSUME RecoveryInv, Fault
    PROVE  RecoveryInv' /\ UNCHANGED durable
<1>1. /\ server = "up" /\ UNCHANGED <<server, crashes>> /\ faults' \in 1 .. MaxFaults
      /\ ManagerInv /\ ExistInv /\ ClosedInv /\ RecoveryTypeOK /\ RestInv
  BY FailureAssumption, RestsAlways DEF Fault, RecoveryInv, RecoveryTypeOK
<1>2. CASE CommitRaises
  <2>1. todo # <<>> /\ pc \notin {"none", "ended"}
    BY <1>1, <1>2 DEF CommitRaises, ManagerInv, EndInv, ExistInv
  <2>2. error # "interrupted"
    BY <1>1, <2>1 DEF ClosedInv
  <2>3. CASE BestEffort /\ todo' = Tail(todo) /\ UNCHANGED <<durable, pc, local>>
    <3>1. Next
      BY <1>1, <2>1, <2>3, BestEffortIsCommit DEF ManagerInv
    <3> QED
      BY <1>1, <2>3, <3>1, ManagerKeeps
  <2>4. CASE ~BestEffort /\ Unexpected
    <3>1. ~view.terminal
      <4>1. Head(todo) \in Waiting
        BY <1>1, <2>1 DEF ManagerInv, TypeOK, ControlOK, Waiting
      <4> QED
        BY <1>1, <2>4, <4>1 DEF ManagerInv, LeadInv, Silent, Says, BestEffort
    <3> QED
      BY <1>1, <2>1, <2>2, <2>4, <3>1, UnexpectedKeeps DEF Unexpected
  <2>5. CASE pc \in {"register", "handled"} /\ Escapes
    <3>1. TypeOK'
      <4>1. RowsOK' /\ IsReplayState(view)'
        BY <1>1, <2>5, DurableTypes DEF Escapes, RecoveryTypeOK
      <4>2. LocalOK' /\ BudgetOK'
        BY <1>1, <2>5 DEF Escapes, RecoveryTypeOK, LocalOK, BudgetOK, plan, turn, budget
      <4>3. <<>> \in Seq(Commit)
        OBVIOUS
      <4>4. ControlOK'
        BY <1>1, <2>5, <4>3 DEF Escapes, RecoveryTypeOK, ControlOK, ControlPoints
      <4> QED
        BY <4>1, <4>2, <4>4 DEF TypeOK
    <3>2. ManagerInv'
      BY <1>1, <2>5, <3>1, ComesToRest DEF Escapes
    <3>3. RecoveryTypeOK'
      BY <1>1, <3>1 DEF RecoveryTypeOK, TypeOK, ControlOK, Servers
    <3>4. ExistInv' /\ ClosedInv' /\ faults' # 0
      BY <1>1, <2>1, <2>2, <2>5, FailureAssumption DEF ExistInv, ClosedInv, Escapes, durable
    <3> QED
      BY <1>1, <2>5, <3>2, <3>3, <3>4 DEF RecoveryInv, Escapes
  <2> QED
    BY <1>2, <2>3, <2>4, <2>5 DEF CommitRaises
<1>3. CASE TurnRaises
  <2>1. pc = "execute" /\ Unexpected
    BY <1>3 DEF TurnRaises
  <2>2. ~view.terminal /\ error # "interrupted"
    BY <1>1, <2>1 DEF ManagerInv, LeadInv, ClosedPoints, ClosedInv
  <2> QED
    BY <1>1, <2>1, <2>2, UnexpectedKeeps DEF Unexpected
<1> QED
  BY <1>2, <1>3 DEF Fault

-----------------------------------------------------------------------------
(* Crash and startup                                                       *)

LEMMA CrashKeeps ==
    ASSUME RecoveryInv, Crash
    PROVE  RecoveryInv' /\ UNCHANGED durable
<1>1. /\ RestInv /\ ExistInv /\ ClosedInv /\ RecoveryTypeOK
      /\ server # "reconcile" => ManagerInv
      /\ server = "reconcile" => pc = "ended"
  BY RestsAlways DEF RecoveryInv, ReconcilingInv
<1>2. /\ server' = "down" /\ faults' = 0 /\ todo' = <<>> /\ UNCHANGED durable
      /\ pc' = IF pc = "none" THEN "none" ELSE "ended"
      /\ cur' = 0 /\ last' = 0 /\ outputs' = {}
      /\ registered' = FALSE /\ cancel' = FALSE
  BY DEF Crash
<1>3. TypeOK'
  <2>1. RowsOK' /\ IsReplayState(view)'
    BY <1>1, <1>2, DurableTypes DEF RecoveryTypeOK
  <2>2. LocalOK'
    BY LimitsAssumption DEF Crash, LocalOK, Verdicts
  <2>3. BudgetOK'
    <3>1. /\ modelCalls' = 0 /\ toolCalls' = 0 /\ replansUsed' = 0
          /\ retries' = [i \in {} |-> 0]
      BY DEF Crash
    <3> QED
      BY <3>1, LimitsAssumption, CapsAssumption DEF BudgetOK
  <2>4. <<>> \in Seq(Commit)
    OBVIOUS
  <2>5. ControlOK'
    BY <1>2, <2>4 DEF ControlOK, ControlPoints
  <2> QED
    BY <2>1, <2>2, <2>3, <2>5 DEF TypeOK
<1>4. pc = "none" => status = "none" /\ answer = "none" /\ DOMAIN tasks = {}
  BY <1>1 DEF ExistInv, ManagerInv, EndInv, ClosedPoints, TasksInv, EarlyInv, Early
<1>5. ManagerInv' /\ OutcomeInv'
  BY <1>1, <1>2, <1>3, <1>4, ComesToRest
<1>6. RecoveryTypeOK'
  <2>1. crashes' \in 0 .. MaxCrashes /\ faults' \in 0 .. MaxFaults
    BY <1>1, <1>2, FailureAssumption DEF Crash, RecoveryTypeOK
  <2> QED
    BY <1>2, <1>3, <2>1 DEF RecoveryTypeOK, TypeOK, ControlOK, Servers
<1>7. ExistInv' /\ ClosedInv'
  BY <1>1, <1>2 DEF ExistInv, ClosedInv, durable, AllFinal, Final
<1> QED
  BY <1>2, <1>5, <1>6, <1>7 DEF RecoveryInv

(* A step that leaves the run alone keeps what the manager keeps.          *)
LEMMA AloneKeeps ==
    ASSUME ManagerInv, ExistInv, ClosedInv, UNCHANGED vars
    PROVE  /\ ManagerInv' /\ ExistInv' /\ ClosedInv' /\ UNCHANGED <<pc, todo, durable>>
           /\ OutcomeInv => OutcomeInv'
           /\ CloseInv /\ OutcomeInv => CloseInv'
<1>1. ManagerInv'
  BY TypeStep, TasksStep, EndStep, PlanStep, LeadStep DEF ManagerInv
<1>2. ExistInv' /\ ClosedInv'
  BY ManagerExists, ManagerClosed DEF ManagerInv
<1>3. UNCHANGED <<pc, todo, durable>>
  BY DEF vars
<1> QED
  BY <1>1, <1>2, <1>3, OutcomeStep, CloseStep DEF ManagerInv

LEMMA BootKeeps ==
    ASSUME RecoveryInv, Boot
    PROVE  RecoveryInv' /\ UNCHANGED durable
<1>1. /\ ManagerInv /\ ExistInv /\ ClosedInv /\ RecoveryTypeOK
      /\ pc \in {"none", "ended"} /\ todo = <<>> /\ UNCHANGED vars
      /\ server = "down" /\ server' = IF RecoveryEnabled THEN "scan" ELSE "up"
      /\ UNCHANGED <<crashes, faults>> /\ (faults = 0 => OutcomeInv)
  BY DEF RecoveryInv, Boot
<1>2. /\ ManagerInv' /\ ExistInv' /\ ClosedInv' /\ UNCHANGED <<pc, todo, durable>>
      /\ OutcomeInv => OutcomeInv'
  BY <1>1, AloneKeeps
<1>3. RecoveryTypeOK'
  BY <1>1, <1>2 DEF ManagerInv, RecoveryTypeOK, TypeOK, ControlOK, Servers
<1> QED
  BY <1>1, <1>2, <1>3 DEF RecoveryInv

LEMMA ReconcileKeeps ==
    ASSUME RecoveryInv, Reconcile
    PROVE  RecoveryInv' /\ UNCHANGED durable
<1>1. /\ RestInv /\ ExistInv /\ ClosedInv /\ RecoveryTypeOK /\ pc \in {"none", "ended"}
      /\ server = "scan" /\ server' = "reconcile" /\ Interrupted
      /\ UNCHANGED <<durable, pc, local, crashes, faults>>
  BY RestsAlways DEF RecoveryInv, Reconcile
<1>2. pc = "ended" /\ ~view.terminal
  BY <1>1 DEF ExistInv, Interrupted, RestInv
<1>3. todo' = <<CancelOpen>> \o Closing
  BY <1>2 DEF Reconcile, Closing
<1>4. Cancelling'
  BY <1>3 DEF Cancelling, Closing, FinalizeFailed, SetFailed, Emit, CancelOpen
<1>5. UNCHANGED <<status, answer, error, tasks, attempts, view>>
  BY <1>1 DEF durable
<1>6. RestInv'
  BY <1>1, <1>5 DEF RestInv, ExecutedInOrder, Settled, AllFinal, Final, RowsLeadLedger
<1>7. ReconcilingInv'
  BY <1>1, <1>2, <1>4, <1>5 DEF ReconcilingInv, Interrupted
<1>8. RecoveryTypeOK'
  <2>1. Closing \in Seq(Commit)
    BY <1>1, HelperTypes DEF Closing, Errors, RecoveryTypeOK, LocalOK
  <2>2. CancelOpen \in Commit \cup RecoveryCommit
    BY DEF CancelOpen, RecoveryCommit
  <2>3. todo' \in Seq(Commit \cup RecoveryCommit)
    BY <1>3, <2>1, <2>2
  <2>4. RowsOK' /\ IsReplayState(view)'
    BY <1>1, DurableTypes DEF RecoveryTypeOK
  <2>5. LocalOK' /\ BudgetOK' /\ UNCHANGED <<registered, cancel>>
    BY <1>1 DEF RecoveryTypeOK, LocalOK, BudgetOK, local, handle, plan, turn, budget
  <2> QED
    BY <1>1, <2>3, <2>4, <2>5 DEF RecoveryTypeOK, Servers
<1>9. ExistInv' /\ ClosedInv'
  BY <1>1, <1>2, <1>5 DEF ExistInv, ClosedInv, AllFinal, Final
<1> QED
  BY <1>1, <1>6, <1>7, <1>8, <1>9 DEF RecoveryInv

(* The server takes requests: what was interrupted is closed, or the row   *)
(* of the run it failed on rests as it stands.                             *)
LEMMA ServeKeeps ==
    ASSUME RecoveryInv, server' = "up", UNCHANGED <<durable, pc, local, crashes>>,
           \/ Serve
           \/ ReconcileRaises
    PROVE  RecoveryInv'
<1>1. /\ RestInv /\ ExistInv /\ ClosedInv /\ RecoveryTypeOK /\ todo' = <<>>
      /\ server = "scan" => ManagerInv /\ todo = <<>>
      /\ pc \in {"none", "ended"}
      /\ server \in {"scan", "reconcile"}
      /\ server = "reconcile" => pc = "ended"
      /\ faults' \in 0 .. MaxFaults
      /\ Serve => UNCHANGED faults
      /\ ReconcileRaises => faults' # 0
  BY RestsAlways, FailureAssumption
  DEF RecoveryInv, ReconcilingInv, RecoveryTypeOK, Serve, ReconcileRaises, vars
<1>2. pc' = pc /\ UNCHANGED <<status, answer, error, tasks, view>>
  BY DEF durable
<1>3. TypeOK'
  <2>1. RowsOK' /\ IsReplayState(view)'
    BY <1>1, DurableTypes DEF RecoveryTypeOK
  <2>2. LocalOK' /\ BudgetOK' /\ UNCHANGED <<registered, cancel>>
    BY <1>1 DEF RecoveryTypeOK, LocalOK, BudgetOK, local, handle, plan, turn, budget
  <2>3. <<>> \in Seq(Commit)
    OBVIOUS
  <2> QED
    BY <1>1, <1>2, <2>1, <2>2, <2>3 DEF TypeOK, ControlOK, RecoveryTypeOK
<1>4. pc = "none" => status = "none" /\ answer = "none" /\ DOMAIN tasks = {} /\ cur' = 0
  BY <1>1 DEF ExistInv, ManagerInv, EndInv, ClosedPoints, TasksInv, EarlyInv, Early, local, plan
<1>5. ManagerInv' /\ OutcomeInv'
  BY <1>1, <1>2, <1>3, <1>4, ComesToRest
<1>6. RecoveryTypeOK'
  BY <1>1, <1>3 DEF RecoveryTypeOK, TypeOK, ControlOK, Servers
<1>7. ExistInv' /\ ClosedInv'
  BY <1>1, <1>2 DEF ExistInv, ClosedInv, AllFinal, Final
<1>8. ~ReconcileRaises => CloseInv'
  <2> SUFFICES ASSUME Serve, pc = "ended"
               PROVE  status \in TerminalRunStatuses
    BY <1>1, <1>2 DEF CloseInv, ClosedPoints
  <2>1. CASE server = "scan"
    BY <1>1, <2>1 DEF Serve, Interrupted, ExistInv
  <2>2. CASE server = "reconcile" /\ todo = <<>>
    <3>1. ~Cancelling /\ ~TellingCancelled /\ ~Failing /\ ~TellingFailed
      BY <2>2, ClosingSpelled, Zenon DEF Cancelling, TellingCancelled, Failing, TellingFailed
    <3> QED
      BY <2>2, <3>1 DEF RecoveryInv, ReconcilingInv
  <2> QED
    BY <1>1, <2>1, <2>2 DEF Serve
<1> QED
  BY <1>1, <1>5, <1>6, <1>7, <1>8 DEF RecoveryInv

(* What the reconciler has yet to do, by its next commit.                  *)
LEMMA Stages ==
    ASSUME ReconcilingInv, todo # <<>>
    PROVE  /\ pc = "ended"
           /\ \/ /\ Head(todo).op = "cancelOpen" /\ Tail(todo) = Closing
                 /\ Interrupted
              \/ /\ Head(todo).op = "emitCancelled" /\ Tail(todo) = Closing
                 /\ Interrupted /\ AllFinal
                 /\ Head(todo).tasks \in SUBSET DOMAIN tasks
                 /\ \A i \in Head(todo).tasks : tasks[i] = "cancelled"
              \/ /\ Head(todo).op = "failed" /\ Tail(todo) = <<Verdict>>
                 /\ Head(todo).error = "interrupted" /\ Interrupted /\ AllFinal
              \/ /\ Head(todo).op = "emit" /\ Tail(todo) = <<>>
                 /\ Head(todo).event = [type |-> "run.failed", error |-> "interrupted"]
                 /\ status = "failed" /\ error = "interrupted" /\ AllFinal /\ ~view.terminal
<1>1. CASE Cancelling /\ Interrupted
  <2>1. Head(todo) = CancelOpen /\ Tail(todo) = Closing
    BY <1>1, ClosingSpelled, Zenon DEF Cancelling
  <2> QED
    BY <1>1, <2>1 DEF CancelOpen, ReconcilingInv
<1>2. CASE TellingCancelled /\ Interrupted /\ AllFinal
  <2>1. PICK S \in SUBSET DOMAIN tasks : /\ todo = <<EmitCancelled(S)>> \o Closing
                                         /\ \A i \in S : tasks[i] = "cancelled"
    BY <1>2 DEF TellingCancelled
  <2>2. Head(todo) = EmitCancelled(S) /\ Tail(todo) = Closing
    BY <2>1, ClosingSpelled, Zenon
  <2> QED
    BY <1>2, <2>1, <2>2 DEF EmitCancelled, ReconcilingInv
<1>3. CASE Failing /\ Interrupted /\ AllFinal
  <2>1. Head(todo) = SetFailed("interrupted") /\ Tail(todo) = <<Verdict>>
    BY <1>3, ClosingSpelled, Zenon DEF Failing
  <2> QED
    BY <1>3, <2>1 DEF SetFailed, ReconcilingInv
<1>4. CASE TellingFailed /\ AllFinal /\ status = "failed" /\ error = "interrupted" /\ ~view.terminal
  <2>1. Head(todo) = Verdict /\ Tail(todo) = <<>>
    BY <1>4, ClosingSpelled, Zenon DEF TellingFailed
  <2> QED
    BY <1>4, <2>1 DEF Verdict, Emit, ReconcilingInv
<1> QED
  BY <1>1, <1>2, <1>3, <1>4 DEF ReconcilingInv, Interrupted

(* All that a reconciler's commit has to keep.                             *)
Kept ==
    /\ RecoveryTypeOK /\ RestInv /\ ReconcilingInv /\ ExistInv /\ ClosedInv

LEMMA ReconcilerTypes ==
    ASSUME RecoveryTypeOK
    PROVE  /\ Closing \in Seq(Commit \cup RecoveryCommit)
           /\ <<Verdict>> \in Seq(Commit \cup RecoveryCommit)
           /\ <<>> \in Seq(Commit \cup RecoveryCommit)
<1>1. Closing \in Seq(Commit) /\ Closing # <<>>
  BY HelperTypes, ClosingSpelled DEF Closing, Errors, RecoveryTypeOK, LocalOK
<1>2. Tail(Closing) \in Seq(Commit)
  BY <1>1
<1>3. <<Verdict>> \in Seq(Commit)
  BY <1>2, ClosingSpelled
<1> QED
  BY <1>1, <1>3

(* A commit of the reconciler leaves the rest of the process alone.        *)
LEMMA SameProcess ==
    ASSUME RecoveryTypeOK, server = "reconcile", UNCHANGED <<pc, local, process>>,
           RowsOK', IsReplayState(view)', todo' \in Seq(Commit \cup RecoveryCommit)
    PROVE  RecoveryTypeOK'
BY DEF RecoveryTypeOK, LocalOK, BudgetOK, local, handle, plan, turn, budget, process

LEMMA CancelOpenKeeps ==
    ASSUME RecoveryInv, server = "reconcile", UNCHANGED process, CommitCancelOpen
    PROVE  Kept' /\ ~view.terminal /\ UNCHANGED view /\ Interrupted
<1> DEFINE open == {i \in DOMAIN tasks : tasks[i] \in OpenTaskStatuses}
<1>1. /\ RecoveryTypeOK /\ RestInv /\ ReconcilingInv /\ ExistInv /\ ClosedInv
      /\ todo # <<>> /\ Head(todo).op = "cancelOpen"
  BY DEF RecoveryInv, CommitCancelOpen, Pending
<1>2. Tail(todo) = Closing /\ Interrupted /\ pc = "ended"
  BY <1>1, Stages
<1>3. /\ tasks' = [i \in DOMAIN tasks |-> IF i \in open THEN "cancelled" ELSE tasks[i]]
      /\ todo' = IF open = {} THEN Closing ELSE <<EmitCancelled(open)>> \o Closing
      /\ UNCHANGED <<pc, local, status, answer, error, attempts, view>>
  BY <1>2 DEF CommitCancelOpen
<1>4. IsChecklist(tasks) /\ RowsOK /\ IsReplayState(view)
  BY <1>1 DEF RecoveryTypeOK, RowsOK
<1>5. /\ DOMAIN tasks' = DOMAIN tasks
      /\ \A i \in DOMAIN tasks : i \in open => tasks'[i] = "cancelled"
      /\ \A i \in DOMAIN tasks : i \notin open => tasks'[i] = tasks[i]
      /\ \A i \in DOMAIN tasks : i \notin open => tasks[i] \in TerminalTaskStatuses
      /\ \A i \in DOMAIN tasks : i \in open => tasks[i] \notin TerminalTaskStatuses
  BY <1>3, <1>4 DEF IsChecklist, TaskStatuses, OpenTaskStatuses, TerminalTaskStatuses
<1>6. AllFinal'
  BY <1>5 DEF AllFinal, Final, TerminalTaskStatuses
<1>7. ~view.terminal
  BY <1>1, <1>2 DEF RestInv, Interrupted
<1>8. RestInv'
  <2>1. ExecutedInOrder'
    BY <1>6 DEF AllFinal, Final, ExecutedInOrder
  <2>2. RowsLeadLedger'
    BY <1>1, <1>3, <1>5 DEF RestInv, RowsLeadLedger
  <2> QED
    BY <1>1, <1>3, <1>6, <2>1, <2>2 DEF RestInv
<1>9. ReconcilingInv'
  <2>1. Failing' \/ TellingCancelled'
    <3>1. CASE open = {}
      <4>1. todo' = Closing
        BY <1>3, <3>1
      <4> QED
        BY <4>1 DEF Failing, Closing, FinalizeFailed, SetFailed, Emit
    <3>2. CASE open # {}
      <4>1. todo' = <<EmitCancelled(open)>> \o Closing
        BY <1>3, <3>2
      <4>2. PICK S : S = open
        OBVIOUS
      <4>3. S \in SUBSET DOMAIN tasks' /\ S # {} /\ \A i \in S : tasks'[i] = "cancelled"
        BY <1>5, <3>2, <4>2
      <4>4. todo' = <<EmitCancelled(S)>> \o Closing
        BY <4>1, <4>2
      <4> HIDE DEF open
      <4>5. \E R \in SUBSET DOMAIN tasks' :
               /\ R # {} /\ todo' = <<EmitCancelled(R)>> \o Closing
               /\ \A i \in R : tasks'[i] = "cancelled"
        BY <4>3, <4>4, Zenon
      <4> QED
        BY <4>5, Zenon
        DEF TellingCancelled, Closing, FinalizeFailed, SetFailed, Emit, EmitCancelled
    <3> QED
      BY <3>1, <3>2
  <2> QED
    BY <1>2, <1>3, <1>6, <2>1 DEF ReconcilingInv, Interrupted
<1>10. RecoveryTypeOK'
  <2>1. todo' \in Seq(Commit \cup RecoveryCommit)
    <3>1. open \in SUBSET Nat
      BY <1>4 DEF IsChecklist
    <3>2. EmitCancelled(open) \in Commit \cup RecoveryCommit
      BY <3>1 DEF EmitCancelled, RecoveryCommit
    <3>3. Closing \in Seq(Commit \cup RecoveryCommit)
      BY <1>1, ReconcilerTypes
    <3>4. <<EmitCancelled(open)>> \o Closing \in Seq(Commit \cup RecoveryCommit)
      BY <3>2, <3>3, Prefixed
    <3> HIDE DEF open
    <3> QED
      BY <1>3, <3>3, <3>4
  <2>2. IsChecklist(tasks')
    <3>1. \A i \in DOMAIN tasks : tasks'[i] \in TaskStatuses
      BY <1>4, <1>5 DEF IsChecklist, TaskStatuses, TerminalTaskStatuses
    <3> QED
      BY <1>3, <1>4, <1>5, <3>1 DEF IsChecklist
  <2>3. RowsOK' /\ IsReplayState(view)'
    BY <1>3, <1>4, <1>5, <2>2 DEF RowsOK, IsReplayState
  <2> QED
    BY <1>1, <1>3, <2>1, <2>3, SameProcess
<1>11. ExistInv' /\ ClosedInv'
  BY <1>1, <1>2, <1>3, <1>6 DEF ExistInv, ClosedInv
<1> QED
  BY <1>2, <1>3, <1>7, <1>8, <1>9, <1>10, <1>11 DEF Kept

LEMMA TellCancelledKeeps ==
    ASSUME RecoveryInv, server = "reconcile", UNCHANGED process, CommitEmitCancelled
    PROVE  Kept' /\ ~view.terminal /\ UNCHANGED rows /\ Interrupted
<1>1. /\ RecoveryTypeOK /\ RestInv /\ ReconcilingInv /\ ExistInv /\ ClosedInv
      /\ todo # <<>> /\ Head(todo).op = "emitCancelled"
  BY DEF RecoveryInv, CommitEmitCancelled, Pending
<1>2. PICK S : S = Head(todo).tasks
  OBVIOUS
<1>3. /\ Tail(todo) = Closing /\ Interrupted /\ pc = "ended" /\ AllFinal
      /\ S \in SUBSET DOMAIN tasks /\ \A i \in S : tasks[i] = "cancelled"
  BY <1>1, <1>2, Stages
<1>4. PICK i \in S : /\ view' = FoldStep(view, TaskEvent("task.cancelled", i))
                     /\ todo' = IF S = {i} THEN Closing ELSE <<EmitCancelled(S \ {i})>> \o Closing
                     /\ UNCHANGED <<pc, local, rows>>
  BY <1>2, <1>3 DEF CommitEmitCancelled
<1>5. /\ IsChecklist(tasks) /\ RowsOK /\ IsReplayState(view) /\ IsChecklist(view.tasks)
      /\ S \in SUBSET Nat /\ i \in DOMAIN tasks
      /\ UNCHANGED <<status, answer, error, tasks, attempts>>
  BY <1>1, <1>3, <1>4 DEF RecoveryTypeOK, RowsOK, rows, IsReplayState, IsChecklist
<1>6. PICK e : e = TaskEvent("task.cancelled", i)
  OBVIOUS
<1>7. e \in Event /\ e.type = "task.cancelled" /\ e.index = i
  BY <1>5, <1>6, EventTypes DEF TaskEvent, TaskEventTypes
<1>8. /\ view'.tasks = WithTask(view.tasks, i, "cancelled")
      /\ view'.terminal = view.terminal /\ view'.status = view.status
      /\ view'.error = view.error /\ view'.answer = view.answer
      /\ IsReplayState(view)'
  <2>1. IsReplayState(FoldStep(view, e)) /\ Reads(view, e, FoldStep(view, e))
    BY <1>5, <1>7, FoldStepType, FoldReads
  <2>2. view' = FoldStep(view, e)
    BY <1>4, <1>6
  <2>3. IsReplayState(view) /\ IsReplayState(view)' /\ Reads(view, e, view')
    BY <1>5, <2>1, <2>2 DEF IsReplayState
  <2> QED
    BY <1>7, <2>3
    DEF Reads, IsReplayState, ClosingTypes, TaskEventTypes, TaskEventStatus
<1>9. ~view.terminal /\ ~view'.terminal
  BY <1>1, <1>3, <1>8 DEF RestInv, Interrupted
<1>10. RestInv'
  <2>1. RowsLeadLedger'
    <3>1. \A j \in DOMAIN view'.tasks :
              /\ j \in DOMAIN tasks
              /\ view'.tasks[j] \in TerminalTaskStatuses => tasks[j] = view'.tasks[j]
      BY <1>1, <1>3, <1>5, <1>8 DEF RestInv, RowsLeadLedger, WithTask
    <3> QED
      BY <1>1, <1>5, <1>8, <1>9, <3>1 DEF RestInv, RowsLeadLedger
  <2>2. ExecutedInOrder' /\ AllFinal'
    BY <1>1, <1>3, <1>5 DEF RestInv, ExecutedInOrder, AllFinal, Final
  <2> QED
    BY <1>1, <1>5, <1>8, <1>9, <2>1, <2>2 DEF RestInv
<1>11. ReconcilingInv'
  <2>1. Failing' \/ TellingCancelled'
    <3>1. CASE S = {i}
      <4>1. todo' = Closing
        BY <1>4, <3>1
      <4> QED
        BY <4>1 DEF Failing, Closing, FinalizeFailed, SetFailed, Emit
    <3>2. CASE S # {i}
      <4>1. PICK R : R = S \ {i}
        OBVIOUS
      <4>2. todo' = <<EmitCancelled(R)>> \o Closing
        BY <1>4, <3>2, <4>1
      <4>3. R \in SUBSET DOMAIN tasks' /\ R # {} /\ \A j \in R : tasks'[j] = "cancelled"
        BY <1>3, <1>4, <1>5, <3>2, <4>1
      <4>4. \E Q \in SUBSET DOMAIN tasks' :
               /\ Q # {} /\ todo' = <<EmitCancelled(Q)>> \o Closing
               /\ \A j \in Q : tasks'[j] = "cancelled"
        BY <4>2, <4>3, Zenon
      <4> QED
        BY <4>4, Zenon
        DEF TellingCancelled, Closing, FinalizeFailed, SetFailed, Emit, EmitCancelled
    <3> QED
      BY <3>1, <3>2
  <2>2. AllFinal'
    BY <1>3, <1>5 DEF AllFinal, Final
  <2> QED
    BY <1>3, <1>4, <1>5, <2>1, <2>2 DEF ReconcilingInv, Interrupted
<1>12. RecoveryTypeOK'
  <2>1. todo' \in Seq(Commit \cup RecoveryCommit)
    <3>1. EmitCancelled(S \ {i}) \in Commit \cup RecoveryCommit
      BY <1>5 DEF EmitCancelled, RecoveryCommit
    <3>2. Closing \in Seq(Commit \cup RecoveryCommit)
      BY <1>1, ReconcilerTypes
    <3>3. <<EmitCancelled(S \ {i})>> \o Closing \in Seq(Commit \cup RecoveryCommit)
      BY <3>1, <3>2, Prefixed
    <3> QED
      BY <1>4, <3>2, <3>3
  <2>2. RowsOK'
    BY <1>5 DEF RowsOK
  <2> QED
    BY <1>1, <1>4, <1>8, <2>1, <2>2, SameProcess
<1>13. ExistInv' /\ ClosedInv'
  BY <1>1, <1>3, <1>4, <1>5 DEF ExistInv, ClosedInv, AllFinal, Final
<1> QED
  BY <1>3, <1>4, <1>9, <1>10, <1>11, <1>12, <1>13 DEF Kept

LEMMA FailKeeps ==
    ASSUME RecoveryInv, server = "reconcile", UNCHANGED process, CommitFailed
    PROVE  Kept' /\ ~view.terminal /\ UNCHANGED view /\ Interrupted
<1>1. /\ RecoveryTypeOK /\ RestInv /\ ReconcilingInv /\ ExistInv /\ ClosedInv
      /\ todo # <<>> /\ Head(todo).op = "failed"
  BY DEF RecoveryInv, CommitFailed, Pending
<1>2. /\ Tail(todo) = <<Verdict>> /\ Interrupted /\ pc = "ended" /\ AllFinal
      /\ Head(todo).error = "interrupted"
  BY <1>1, Stages
<1>3. /\ status' = "failed" /\ error' = "interrupted" /\ todo' = <<Verdict>>
      /\ UNCHANGED <<pc, local, answer, tasks, attempts, view>>
  BY <1>2 DEF CommitFailed, Performed
<1>4. ~view.terminal
  BY <1>1, <1>2 DEF RestInv, Interrupted
<1>5. AllFinal' /\ ExecutedInOrder'
  BY <1>1, <1>2, <1>3 DEF AllFinal, Final, RestInv, ExecutedInOrder
<1>6. RestInv'
  BY <1>1, <1>3, <1>4, <1>5 DEF RestInv, RowsLeadLedger
<1>7. ReconcilingInv'
  <2>1. TellingFailed'
    BY <1>3 DEF TellingFailed, Verdict, Emit
  <2> QED
    BY <1>2, <1>3, <1>4, <1>5, <2>1 DEF ReconcilingInv
<1>8. RecoveryTypeOK'
  <2>1. RowsOK' /\ IsReplayState(view)'
    BY <1>1, <1>3 DEF RecoveryTypeOK, RowsOK, RunStatuses, TerminalRunStatuses, Errors, IsReplayState
  <2>2. todo' \in Seq(Commit \cup RecoveryCommit)
    BY <1>1, <1>3, ReconcilerTypes
  <2> QED
    BY <1>1, <1>3, <2>1, <2>2, SameProcess
<1>9. ExistInv' /\ ClosedInv'
  BY <1>1, <1>2, <1>3, <1>5 DEF ExistInv, ClosedInv
<1> QED
  BY <1>2, <1>3, <1>4, <1>6, <1>7, <1>8, <1>9 DEF Kept

LEMMA TellFailedKeeps ==
    ASSUME RecoveryInv, server = "reconcile", UNCHANGED process, CommitEmit
    PROVE  Kept' /\ ~view.terminal /\ UNCHANGED rows
<1>1. /\ RecoveryTypeOK /\ RestInv /\ ReconcilingInv /\ ExistInv /\ ClosedInv
      /\ todo # <<>> /\ Head(todo).op = "emit"
  BY DEF RecoveryInv, CommitEmit, Pending
<1>2. PICK e : e = Head(todo).event
  OBVIOUS
<1>3. /\ Tail(todo) = <<>> /\ pc = "ended" /\ AllFinal
      /\ status = "failed" /\ error = "interrupted" /\ ~view.terminal
      /\ e = [type |-> "run.failed", error |-> "interrupted"]
  BY <1>1, <1>2, Stages
<1>4. /\ view' = FoldStep(view, e) /\ todo' = <<>>
      /\ UNCHANGED <<pc, local, rows>> /\ UNCHANGED <<status, answer, error, tasks, attempts>>
  BY <1>2, <1>3 DEF CommitEmit, Performed, rows
<1>5. e.type = "run.failed" /\ e.error = "interrupted" /\ e \in Event
  BY <1>3 DEF Event, Errors
<1>6. /\ view'.tasks = view.tasks /\ view'.terminal /\ view'.status = "failed"
      /\ view'.error = "interrupted" /\ view'.answer = view.answer
      /\ IsReplayState(view)'
  <2>1. IsReplayState(view)
    BY <1>1 DEF RecoveryTypeOK
  <2>2. IsReplayState(FoldStep(view, e)) /\ Reads(view, e, FoldStep(view, e))
    BY <1>5, <2>1, FoldStepType, FoldReads
  <2>3. IsReplayState(view)' /\ Reads(view, e, view')
    BY <1>4, <2>2 DEF IsReplayState
  <2> QED
    BY <1>5, <2>1, <2>3
    DEF Reads, IsReplayState, ClosingTypes, TaskEventTypes, PlanEventTypes
<1>7. AllFinal' /\ ExecutedInOrder'
  BY <1>1, <1>3, <1>4 DEF AllFinal, Final, RestInv, ExecutedInOrder
<1>8. RestInv'
  <2>1. RowsLeadLedger'
    BY <1>1, <1>3, <1>4, <1>6 DEF RestInv, RowsLeadLedger
  <2> QED
    BY <1>1, <1>3, <1>4, <1>6, <1>7, <2>1 DEF RestInv, TerminalRunStatuses
<1>9. ReconcilingInv'
  BY <1>3, <1>4 DEF ReconcilingInv, TerminalRunStatuses
<1>10. RecoveryTypeOK'
  <2>1. RowsOK'
    BY <1>1, <1>4 DEF RecoveryTypeOK, RowsOK
  <2>2. todo' \in Seq(Commit \cup RecoveryCommit)
    BY <1>1, <1>4, ReconcilerTypes
  <2> QED
    BY <1>1, <1>4, <1>6, <2>1, <2>2, SameProcess
<1>11. ExistInv' /\ ClosedInv'
  BY <1>1, <1>3, <1>4, <1>7 DEF ExistInv, ClosedInv
<1> QED
  BY <1>3, <1>4, <1>8, <1>9, <1>10, <1>11 DEF Kept

(* The reconciler's commits, each in its place.                            *)
LEMMA RecoveringKeeps ==
    ASSUME RecoveryInv, Recovering
    PROVE  /\ RecoveryInv'
           /\ Interrupted \/ UNCHANGED rows
           /\ ~view.terminal
<1>1. server = "reconcile" /\ UNCHANGED process
  BY DEF Recovering
<1>2. ~CommitStatus
  <2>1. ReconcilingInv
    BY <1>1 DEF RecoveryInv
  <2> QED
    BY <2>1, Stages DEF CommitStatus, Pending
<1>3. Kept' /\ ~view.terminal /\ (Interrupted \/ UNCHANGED rows)
  BY <1>1, <1>2, CancelOpenKeeps, TellCancelledKeeps, FailKeeps, TellFailedKeeps DEF Recovering
<1>4. server' = "reconcile"
  BY <1>1 DEF process
<1> QED
  BY <1>3, <1>4 DEF Kept, RecoveryInv

-----------------------------------------------------------------------------
(* The theorems about failures                                             *)

LEMMA RecoveryStarts == ASSUME RecoveryInit PROVE RecoveryInv
<1>1. /\ Init /\ server = "up" /\ crashes = 0 /\ faults = 0
      /\ pc = "none" /\ todo = <<>> /\ status = "none" /\ error = "none"
  BY DEF RecoveryInit, Init
<1>2. TypeOK
  BY <1>1, InitTypes
<1>3. TasksInv /\ EndInv /\ PlanInv /\ LeadInv
  BY <1>1, InitTasks, InitBook DEF BookInv
<1>4. OutcomeInv /\ CloseInv
  BY <1>1 DEF Init, OutcomeInv, ClosesLast, NoClose, TerminalRunStatuses, CloseInv, ClosedPoints
<1>5. RecoveryTypeOK
  BY <1>1, <1>2, ManagedTypes, FailureAssumption DEF Servers
<1> QED
  BY <1>1, <1>2, <1>3, <1>4, <1>5 DEF RecoveryInv, ManagerInv, ExistInv, ClosedInv

(* What a step of the process and what a step of its failures do to the    *)
(* rows and the ledger.                                                    *)
LEMMA RecoverySteps ==
    ASSUME RecoveryInv, [RecoveryNext]_allVars
    PROVE  /\ RecoveryInv'
           /\ \/ server = "up" /\ faults' = faults /\ [Next]_vars
              \/ UNCHANGED durable
              \/ Recovering
<1>1. ASSUME server = "up", UNCHANGED process, [Next]_vars
      PROVE  RecoveryInv' /\ server = "up" /\ faults' = faults /\ [Next]_vars
  BY <1>1, ManagerKeeps DEF process
<1>2. CASE Manage(CreateRun) \/ Manage(CancelRun) \/ Manage(Execute) \/ Manage(Ended)
  BY <1>1, <1>2 DEF Manage, Next
<1>3. CASE Fault
  BY <1>3, FaultKeeps
<1>4. CASE Crash
  BY <1>4, CrashKeeps
<1>5. CASE Boot \/ Reconcile
  BY <1>5, BootKeeps, ReconcileKeeps
<1>6. CASE Serve
  BY <1>6, ServeKeeps DEF Serve, vars, durable
<1>7. CASE ReconcileRaises
  BY <1>7, ServeKeeps DEF ReconcileRaises
<1>8. CASE Recovering
  BY <1>8, RecoveringKeeps
<1>9. CASE UNCHANGED allVars
  <2>1. UNCHANGED vars /\ UNCHANGED process /\ UNCHANGED durable
    BY <1>9 DEF allVars, vars
  <2>2. CASE server = "up"
    BY <1>1, <2>1, <2>2
  <2>3. CASE server \in {"down", "scan"}
    <3>1. /\ ManagerInv /\ ExistInv /\ ClosedInv /\ RecoveryTypeOK
          /\ pc \in {"none", "ended"} /\ todo = <<>> /\ (faults = 0 => OutcomeInv)
      BY <2>3 DEF RecoveryInv
    <3>2. /\ ManagerInv' /\ ExistInv' /\ ClosedInv' /\ UNCHANGED <<pc, todo, durable>>
          /\ OutcomeInv => OutcomeInv'
      BY <2>1, <3>1, AloneKeeps
    <3>3. RecoveryTypeOK'
      BY <2>1, <3>1, <3>2 DEF ManagerInv, RecoveryTypeOK, TypeOK, ControlOK, process
    <3> QED
      BY <2>1, <2>3, <3>1, <3>2, <3>3 DEF RecoveryInv, process
  <2>4. CASE server = "reconcile"
    <3>1. RestInv /\ ReconcilingInv /\ ExistInv /\ ClosedInv /\ RecoveryTypeOK
      BY <2>4 DEF RecoveryInv
    <3>2. /\ UNCHANGED <<pc, local, todo, status, answer, error, tasks, attempts, view>>
          /\ UNCHANGED <<server, crashes, faults>>
      BY <2>1 DEF vars, durable, process
    <3>3. RecoveryTypeOK'
      <4>1. RowsOK' /\ IsReplayState(view)'
        BY <2>1, <3>1, DurableTypes DEF RecoveryTypeOK
      <4> QED
        BY <2>1, <2>4, <3>1, <3>2, <4>1, SameProcess DEF RecoveryTypeOK
    <3>4. RestInv'
      BY <3>1, <3>2 DEF RestInv, ExecutedInOrder, Settled, AllFinal, Final, RowsLeadLedger
    <3>5. ReconcilingInv'
      BY <3>1, <3>2
      DEF ReconcilingInv, Cancelling, TellingCancelled, Failing, TellingFailed, AllFinal, Final,
          Closing, Verdict, FinalizeFailed, SetFailed, Emit, CancelOpen, EmitCancelled
    <3>6. ExistInv' /\ ClosedInv'
      BY <3>1, <3>2 DEF ExistInv, ClosedInv, AllFinal, Final
    <3> QED
      BY <2>1, <2>4, <3>2, <3>3, <3>4, <3>5, <3>6 DEF RecoveryInv
  <2> QED
    BY <2>2, <2>3, <2>4 DEF RecoveryInv, RecoveryTypeOK, Servers
<1> QED
  BY <1>2, <1>3, <1>4, <1>5, <1>6, <1>7, <1>8, <1>9 DEF RecoveryNext, Startup

(* The manager's invariants hold whatever crashes and whatever raises, but *)
(* for the time the reconciler works on the run; what it does then follows *)
(* its own order, and the outcome is sound in every life of the process    *)
(* that has met no fault.                                                  *)
THEOREM RecoveryInvariant == RecoverySpec => []RecoveryInv
<1>1. RecoveryInit => RecoveryInv
  BY RecoveryStarts
<1>2. RecoveryInv /\ [RecoveryNext]_allVars => RecoveryInv'
  BY RecoverySteps
<1> QED
  BY <1>1, <1>2, PTL DEF RecoverySpec

(* Type correctness of a run and its process, through any number of        *)
(* crashes, faults and restarts.                                           *)
THEOREM RecoveryTypes == RecoverySpec => []RecoveryTypeOK
<1>1. RecoveryInv => RecoveryTypeOK
  BY DEF RecoveryInv
<1> QED
  BY <1>1, RecoveryInvariant, PTL

(* After a startup no run without a task is left in a status that is not   *)
(* terminal: the reconciler has failed every run a crash interrupted and   *)
(* every one an exception abandoned in an earlier life.                    *)
THEOREM OrphansAreClosed == RecoverySpec => []NoOrphanRun
<1>1. RecoveryInv => NoOrphanRun
  <2> SUFFICES ASSUME RecoveryInv, RecoveryEnabled, server = "up", faults = 0, pc = "ended"
               PROVE  status \in TerminalRunStatuses
    BY DEF NoOrphanRun
  <2>1. CloseInv /\ todo = <<>>
    BY DEF RecoveryInv, ManagerInv, EndInv
  <2>2. Len(todo) = 0
    BY <2>1
  <2>3. ~HasClose(todo)
    BY <2>2 DEF HasClose
  <2> QED
    BY <2>1, <2>3 DEF CloseInv, ClosedPoints
<1> QED
  BY <1>1, RecoveryInvariant, PTL

(* A run the reconciler failed has no open task: a crash half-way through  *)
(* the reconciler leaves the run to the next startup with its status       *)
(* untouched, never failed with tasks open.                                *)
THEOREM InterruptedAreClosed == RecoverySpec => []InterruptedTasksClosed
<1>1. RecoveryInv => InterruptedTasksClosed
  BY DEF RecoveryInv, ClosedInv, InterruptedTasksClosed, AllFinal, Final
<1> QED
  BY <1>1, RecoveryInvariant, PTL

(* No crash and no fault makes the ledger announce what the rows do not    *)
(* hold: each event is appended after the transaction it tells of.         *)
THEOREM RowsLeadAcrossFailures == RecoverySpec => []RowsLeadLedger
<1>1. RecoveryInv => RowsLeadLedger
  BY RestsAlways DEF RestInv
<1> QED
  BY <1>1, RecoveryInvariant, PTL

(* The plan order and the closing of tasks hold of the rows a crash or a   *)
(* fault leaves behind, and of those the reconciler makes of them.         *)
THEOREM RowsStayOrderly == RecoverySpec => [](ExecutedInOrder /\ NoOpenTaskLeft)
<1>1. RecoveryInv => ExecutedInOrder /\ NoOpenTaskLeft
  BY RestsAlways DEF RestInv, Settled, AllFinal, Final, NoOpenTaskLeft
<1> QED
  BY <1>1, RecoveryInvariant, PTL

(* Recovery leaves the rows of a run alone that it finds finished, at      *)
(* every one of its steps and in a crash between them.                     *)
THEOREM FinishedAreUntouched == RecoverySpec => FinishedUntouched
<1>1. RecoveryInv /\ [RecoveryNext]_allVars
          => [(server # "up" /\ status \in TerminalRunStatuses) => (rows' = rows)]_rows
  <2> SUFFICES ASSUME RecoveryInv, [RecoveryNext]_allVars,
                      server # "up", status \in TerminalRunStatuses
               PROVE  rows' = rows
    OBVIOUS
  <2>1. UNCHANGED durable \/ Recovering
    BY RecoverySteps
  <2> QED
    BY <2>1, RecoveringKeeps DEF Interrupted, durable, rows
<1> QED
  BY <1>1, RecoveryInvariant, PTL DEF RecoverySpec, FinishedUntouched

(* Nothing a fold reads is appended behind a terminal event: not by an     *)
(* exception that strikes after it, and not by the reconciler.             *)
THEOREM LedgerIsSealed == RecoverySpec => SealedLedger
<1>1. RecoveryInv /\ [RecoveryNext]_allVars => [view.terminal => view' = view]_view
  <2> SUFFICES ASSUME RecoveryInv, [RecoveryNext]_allVars, view.terminal
               PROVE  view' = view
    OBVIOUS
  <2>1. CASE server = "up" /\ [Next]_vars
    BY <2>1, ViewSealed DEF RecoveryInv, ManagerInv
  <2> QED
    BY <2>1, RecoverySteps, RecoveringKeeps DEF durable
<1> QED
  BY <1>1, RecoveryInvariant, PTL DEF RecoverySpec, SealedLedger

(* Only a fault can rewrite the outcome of a finished run: in a life of    *)
(* the process that has met none, neither the run's task nor the           *)
(* reconciler does, whatever the lives before left behind.                 *)
THEOREM OutcomeNeedsAFault ==
    RecoverySpec => [][faults = 0 /\ status \in TerminalRunStatuses
                           => outcome' = outcome]_outcome
<1>1. RecoveryInv /\ [RecoveryNext]_allVars
          => [faults = 0 /\ status \in TerminalRunStatuses => outcome' = outcome]_outcome
  <2> SUFFICES ASSUME RecoveryInv, [RecoveryNext]_allVars,
                      faults = 0, status \in TerminalRunStatuses
               PROVE  outcome' = outcome
    OBVIOUS
  <2>1. CASE server = "up" /\ [Next]_vars
    BY <2>1, OutcomeStep DEF RecoveryInv, ManagerInv
  <2> QED
    BY <2>1, RecoverySteps, RecoveringKeeps DEF Interrupted, durable, rows, outcome
<1> QED
  BY <1>1, RecoveryInvariant, PTL DEF RecoverySpec

(* Where no transaction raises, a run's outcome outlives every crash: what *)
(* its row once said at its end, no restart and no reconciler rewrites.    *)
THEOREM OutcomeOutlivesCrashes ==
    ASSUME MaxFaults = 0
    PROVE  RecoverySpec => OutcomeFinal
<1>1. RecoveryTypeOK /\ [faults = 0 /\ status \in TerminalRunStatuses => outcome' = outcome]_outcome
          => [(status \in TerminalRunStatuses) => (outcome' = outcome)]_outcome
  BY DEF RecoveryTypeOK
<1> QED
  BY <1>1, OutcomeNeedsAFault, RecoveryTypes, PTL DEF OutcomeFinal

(* A final task's row outlives crashes and faults too: the reconciler      *)
(* closes the tasks that are open, and no other.                           *)
THEOREM FinalTasksOutliveCrashes == RecoverySpec => FinalTasksKept
<1>1. RecoveryInv /\ [RecoveryNext]_allVars
          => [\A i \in DOMAIN tasks :
                  tasks[i] \in TerminalTaskStatuses =>
                      /\ i \in DOMAIN tasks'
                      /\ tasks'[i] = tasks[i]
                      /\ attempts'[i] = attempts[i]]_<<tasks, attempts>>
  <2> SUFFICES ASSUME RecoveryInv, [RecoveryNext]_allVars,
                      NEW i \in DOMAIN tasks, tasks[i] \in TerminalTaskStatuses
               PROVE  /\ i \in DOMAIN tasks'
                      /\ tasks'[i] = tasks[i]
                      /\ attempts'[i] = attempts[i]
    OBVIOUS
  <2>1. CASE server = "up" /\ [Next]_vars
    BY <2>1, TasksStep DEF RecoveryInv, ManagerInv, FinalKept, Final
  <2>2. CASE UNCHANGED durable
    BY <2>2 DEF durable
  <2>3. CASE Recovering
    <3>1. CASE CommitCancelOpen
      BY <3>1 DEF CommitCancelOpen, OpenTaskStatuses, TerminalTaskStatuses
    <3>2. CASE CommitEmitCancelled \/ CommitStatus \/ CommitFailed \/ CommitEmit
      BY <3>2 DEF CommitEmitCancelled, CommitStatus, CommitFailed, CommitEmit, rows
    <3> QED
      BY <2>3, <3>1, <3>2 DEF Recovering
  <2> QED
    BY <2>1, <2>2, <2>3, RecoverySteps
<1> QED
  BY <1>1, RecoveryInvariant, PTL DEF RecoverySpec, FinalTasksKept

-----------------------------------------------------------------------------
(***************************************************************************)
(* The page that folds the events of a run in a browser, for every value   *)
(* of the constants: after each of them it shows what the canonical fold   *)
(* gives, and whenever the run has nothing left to commit it shows the     *)
(* run's rows.  The two reducers read different parts of an event, so that *)
(* this rests on when an event can come: the first plan upon an empty      *)
(* checklist, a replan after the tasks it drops are skipped, the words of  *)
(* an answer before there is one, a completion at the attempt that the     *)
(* task's row counts.                                                      *)
(***************************************************************************)

-----------------------------------------------------------------------------
(* When an event can come                                                  *)

SaysPlan(c)      == Says(c, {"plan.created"})
SaysReplan(c)    == Says(c, {"plan.replanned"})
SaysToken(c)     == Says(c, {"answer.token"})
SaysStart(c)     == Says(c, {"run.started"})
SaysTask(c)      == Says(c, {"task.started"})
SaysCompleted(c) == Says(c, {"task.completed"})

SkippedBy(s, k, i) ==
    \E j \in 1 .. Len(s) : j < k /\ s[j].op = "drop" /\ i \in s[j].tasks

PlanWaits ==
    \A k \in 1 .. Len(todo) :
        /\ SaysPlan(todo[k]) =>
              /\ DOMAIN view.tasks = {}
              /\ \A j \in 1 .. Len(todo) : j < k => todo[j].op = "add"
        /\ SaysReplan(todo[k]) =>
              \A i \in todo[k].event.dropped :
                  /\ i \in DOMAIN tasks
                  /\ tasks[i] = "skipped" \/ SkippedBy(todo, k, i)

(* The words of an answer are streamed to a run that does not fail.        *)
TokenWaits ==
    /\ \A c \in Waiting : SaysToken(c) => pc = "stream"
    /\ view.tokens =>
          /\ pc \in {"stream"} \cup ClosedPoints
          /\ status # "failed" /\ \A c \in Waiting : c.op # "failed"

(* The events that turn the status the page shows.                         *)
TurnWaits ==
    \A c \in Waiting :
        /\ SaysStart(c) => pc = "planning"
        /\ SaysTask(c) => pc = "execute"

(* The attempt a task is accepted at is the one its row counts.            *)
Attempted(i) == i \in DOMAIN tasks /\ attempts[i] = attempt

AttemptWaits ==
    /\ \A c \in Waiting :
          /\ c.op = "attempt" => pc = "executed" /\ c.index = cur /\ c.number = attempt
          /\ SaysCompleted(c) => pc = "task" /\ Attempted(c.event.index)
    /\ pc \in {"executed", "reflect", "judged"} =>
          Attempted(cur) \/ RecordAttempt(cur, attempt) \in Waiting

(* No event precedes a row out of pending.                                 *)
PendingUnsaid ==
    \A i \in DOMAIN view.tasks :
        i \in DOMAIN tasks /\ tasks[i] = "pending" => view.tasks[i] = "pending"

WaitInv == PlanWaits /\ TokenWaits /\ TurnWaits /\ AttemptWaits /\ PendingUnsaid

-----------------------------------------------------------------------------
(* What the page shows                                                     *)

IsDerived(p) ==
    /\ p = [status |-> p.status, tasks |-> p.tasks, attempt |-> p.attempt,
            answer |-> p.answer, error |-> p.error, partial |-> p.partial]
    /\ p.tasks = [i \in DOMAIN p.tasks |-> p.tasks[i]]
    /\ DOMAIN p.attempt = DOMAIN p.tasks
    /\ p.partial \in BOOLEAN

TurnShown ==
    /\ pc \in {"none", "register", "start"} => page.status = "created"
    /\ pc = "planning" =>
          page.status = "planning" \/ \E c \in Waiting : SaysStart(c)
    /\ pc \in Drafting => page.status = "planning"
    /\ pc \in {"task"} \cup Working => page.status \in {"planning", "running"}

AttemptsShown ==
    \A i \in DOMAIN view.tasks :
        view.tasks[i] = "done" =>
            i \in DOMAIN tasks /\ page.attempt[i] = attempts[i]

PartialShown ==
    IF view.terminal THEN page.partial <=> answer = "partial" ELSE ~page.partial

PageInv == IsDerived(page) /\ FoldsAgree /\ TurnShown /\ AttemptsShown /\ PartialShown

-----------------------------------------------------------------------------
(* Which decision lets an event come                                       *)

TurningTypes ==
    {"plan.created", "plan.replanned", "answer.token", "run.started", "task.started",
     "task.completed"}

(* A commit that is none of those, nor records an attempt.                 *)
Quiet(c) == c.op # "attempt" /\ ~Says(c, TurningTypes)

AllQuiet(s) == \A k \in 1 .. Len(s) : Quiet(s[k])

PlanComes(from, s) ==
    \A k \in 1 .. Len(s) :
        /\ SaysPlan(s[k]) =>
              from = "plan" /\ \A j \in 1 .. Len(s) : j < k => s[j].op = "add"
        /\ SaysReplan(s[k]) =>
              \A i \in s[k].event.dropped : i \in DOMAIN tasks /\ SkippedBy(s, k, i)

TokenComes(from, to, s) ==
    /\ \A k \in 1 .. Len(s) : SaysToken(s[k]) => to = "stream"
    /\ from = "stream" =>
          /\ to \in {"stream"} \cup ClosedPoints
          /\ \A k \in 1 .. Len(s) : s[k].op # "failed"

TurnComes(to, s) ==
    /\ \A k \in 1 .. Len(s) :
          /\ SaysStart(s[k]) => to = "planning"
          /\ SaysTask(s[k]) => to = "execute"
    /\ to = "planning" => \E k \in 1 .. Len(s) : SaysStart(s[k])

AttemptComes(from, to, s) ==
    /\ \A k \in 1 .. Len(s) :
          /\ s[k].op = "attempt" =>
                to = "executed" /\ s[k].index = cur' /\ s[k].number = attempt'
          /\ SaysCompleted(s[k]) =>
                /\ to = "task" /\ from \in {"executed", "judged"}
                /\ s[k].event.index = cur /\ attempt' = attempt
    /\ to = "executed" => \E k \in 1 .. Len(s) : s[k] = RecordAttempt(cur', attempt')
    /\ to \in {"reflect", "judged"} =>
          from \in {"executed", "reflect"} /\ cur' = cur /\ attempt' = attempt

PageFits(from, to, s) ==
    /\ PlanComes(from, s) /\ TokenComes(from, to, s)
    /\ TurnComes(to, s) /\ AttemptComes(from, to, s)

Turns == \E from, to, s : Decide(from, to, s) /\ PageFits(from, to, s)

LEMMA QuietRows ==
    /\ \A i, t : Quiet(MarkTask(i, t)) /\ MarkTask(i, t).op # "failed"
    /\ Quiet(SkipPending) /\ SkipPending.op # "failed"
    /\ Quiet(RecordReflection) /\ RecordReflection.op # "failed"
    /\ \A S : Quiet(DropTasks(S)) /\ DropTasks(S).op = "drop" /\ DropTasks(S).tasks = S
    /\ \A m, n : Quiet(AddTasks(m, n)) /\ AddTasks(m, n).op = "add"
    /\ \A x : Quiet(SetStatus(x)) /\ SetStatus(x).op # "failed"
    /\ \A e : Quiet(SetFailed(e))
    /\ Quiet(SetDone) /\ SetDone.op # "failed"
    /\ Quiet(SetPartialAnswer) /\ SetPartialAnswer.op # "failed"
    /\ \A S : Quiet(EmitSkipped(S)) /\ EmitSkipped(S).op # "failed"
BY DEF Quiet, Says, MarkTask, SkipPending, RecordReflection, DropTasks, AddTasks, SetStatus,
   SetFailed, SetDone, SetPartialAnswer, EmitSkipped

LEMMA QuietEvents ==
    /\ \A t : t \notin TurningTypes =>
          Quiet(Emit(Plain(t))) /\ \A i : Quiet(Emit(TaskEvent(t, i)))
    /\ \A x : Quiet(Emit([type |-> "answer.completed", text |-> x]))
    /\ \A e : Quiet(Emit([type |-> "run.failed", error |-> e]))
    /\ \A e : Emit(e).op # "failed"
BY DEF Quiet, Says, Emit, Plain, TaskEvent, TurningTypes

(* The lists that keep quiet: the finalizers, and the events about memory, *)
(* verdicts and retries.                                                   *)
LEMMA QuietFinalizers ==
    /\ \A e : AllQuiet(FinalizeFailed(e))
    /\ AllQuiet(FinalizeCancelled)
    /\ \A k \in 1 .. Len(FinalizeCancelled) : FinalizeCancelled[k].op # "failed"
    /\ AllQuiet(FinalizeDone)
    /\ \A k \in 1 .. Len(FinalizeDone) : FinalizeDone[k].op # "failed"
    /\ AllQuiet(FinalizeCancelledRun(TRUE)) /\ AllQuiet(FinalizeCancelledRun(FALSE))
<1>1. ASSUME NEW e, NEW s, s = FinalizeFailed(e) PROVE AllQuiet(s)
  <2>1. Len(s) = 2 /\ s[1] = SetFailed(e) /\ s[2] = Emit([type |-> "run.failed", error |-> e])
    BY <1>1 DEF FinalizeFailed
  <2> QED
    BY <2>1, QuietRows, QuietEvents DEF AllQuiet
<1>2. ASSUME NEW s, s = FinalizeCancelled
      PROVE  AllQuiet(s) /\ \A k \in 1 .. Len(s) : s[k].op # "failed"
  <2>1. Len(s) = 2 /\ s[1] = SetStatus("cancelled") /\ s[2] = Emit(Plain("run.cancelled"))
    BY <1>2 DEF FinalizeCancelled
  <2>2. "run.cancelled" \notin TurningTypes
    BY DEF TurningTypes
  <2> QED
    BY <2>1, <2>2, QuietRows, QuietEvents DEF AllQuiet
<1>3. ASSUME NEW s, s = FinalizeDone
      PROVE  AllQuiet(s) /\ \A k \in 1 .. Len(s) : s[k].op # "failed"
  <2>1. /\ Len(s) = 3 /\ s[1] = SetDone
        /\ s[2] = Emit([type |-> "answer.completed", text |-> "full"])
        /\ s[3] = Emit(Plain("run.completed"))
    BY <1>3 DEF FinalizeDone
  <2>2. "run.completed" \notin TurningTypes
    BY DEF TurningTypes
  <2> QED
    BY <2>1, <2>2, QuietRows, QuietEvents DEF AllQuiet
<1>4. "run.cancelled" \notin TurningTypes /\ "task.cancelled" \notin TurningTypes
  BY DEF TurningTypes
<1>5. ASSUME NEW s, s = FinalizeCancelledRun(TRUE) PROVE AllQuiet(s)
  <2>1. /\ Len(s) = 5
        /\ s[1] = MarkTask(cur, "cancelled") /\ s[2] = Emit(TaskEvent("task.cancelled", cur))
        /\ s[3] = SkipPending
        /\ s[4] = SetStatus("cancelled") /\ s[5] = Emit(Plain("run.cancelled"))
    BY <1>5, FinalizersSpelled, Zenon
  <2> QED
    BY <1>4, <2>1, QuietRows, QuietEvents DEF AllQuiet
<1>6. ASSUME NEW s, s = FinalizeCancelledRun(FALSE) PROVE AllQuiet(s)
  <2>1. /\ Len(s) = 3
        /\ s[1] = SkipPending
        /\ s[2] = SetStatus("cancelled") /\ s[3] = Emit(Plain("run.cancelled"))
    BY <1>6, FinalizersSpelled, Zenon
  <2> QED
    BY <1>4, <2>1, QuietRows, QuietEvents DEF AllQuiet
<1> QED
  BY <1>1, <1>2, <1>3, <1>5, <1>6, Zenon

LEMMA QuietBudget ==
    AllQuiet(FinalizeBudgetExceeded(TRUE)) /\ AllQuiet(FinalizeBudgetExceeded(FALSE))
<1>1. "budget.exceeded" \notin TurningTypes /\ "task.failed" \notin TurningTypes
  BY DEF TurningTypes
<1>2. ASSUME ~cancel, NEW s, s = FinalizeBudgetExceeded(TRUE) PROVE AllQuiet(s)
  <2>1. /\ Len(s) = 6
        /\ s[1] = Emit(Plain("budget.exceeded"))
        /\ s[2] = MarkTask(cur, "failed") /\ s[3] = Emit(TaskEvent("task.failed", cur))
        /\ s[4] = SkipPending
        /\ s[5] = SetFailed("budget")
        /\ s[6] = Emit([type |-> "run.failed", error |-> "budget"])
    BY <1>2, FinalizersSpelled, Zenon
  <2> QED
    BY <1>1, <2>1, QuietRows, QuietEvents DEF AllQuiet
<1>3. ASSUME ~cancel, NEW s, s = FinalizeBudgetExceeded(FALSE) PROVE AllQuiet(s)
  <2>1. /\ Len(s) = 4
        /\ s[1] = Emit(Plain("budget.exceeded")) /\ s[2] = SkipPending
        /\ s[3] = SetFailed("budget")
        /\ s[4] = Emit([type |-> "run.failed", error |-> "budget"])
    BY <1>3, FinalizersSpelled, Zenon
  <2> QED
    BY <1>1, <2>1, QuietRows, QuietEvents DEF AllQuiet
<1>4. ASSUME cancel
      PROVE  /\ FinalizeBudgetExceeded(TRUE) = FinalizeCancelledRun(TRUE)
             /\ FinalizeBudgetExceeded(FALSE) = FinalizeCancelledRun(FALSE)
  BY <1>4 DEF FinalizeBudgetExceeded
<1> QED
  BY <1>2, <1>3, <1>4, QuietFinalizers, Zenon

LEMMA QuietFailures ==
    /\ AllQuiet(FailTask(cur) \o <<SkipPending>>)
    /\ AllQuiet(FailTask(cur) \o <<SkipPending>> \o FinalizeFailed("aborted"))
    /\ \A e : AllQuiet(FailTask(cur) \o FinalizeFailed(e))
    /\ AllQuiet(<<SetPartialAnswer, Emit([type |-> "answer.completed", text |-> "partial"])>>
                    \o FinalizeFailed("aborted"))
<1>1. "task.failed" \notin TurningTypes
  BY DEF TurningTypes
<1>2. ASSUME NEW s, s = FailTask(cur) \o <<SkipPending>> PROVE AllQuiet(s)
  <2>1. /\ Len(s) = 3
        /\ s[1] = MarkTask(cur, "failed") /\ s[2] = Emit(TaskEvent("task.failed", cur))
        /\ s[3] = SkipPending
    BY <1>2, FailuresSpelled, Zenon
  <2> QED
    BY <1>1, <2>1, QuietRows, QuietEvents DEF AllQuiet
<1>3. ASSUME NEW s, s = FailTask(cur) \o <<SkipPending>> \o FinalizeFailed("aborted")
      PROVE  AllQuiet(s)
  <2>1. /\ Len(s) = 5
        /\ s[1] = MarkTask(cur, "failed") /\ s[2] = Emit(TaskEvent("task.failed", cur))
        /\ s[3] = SkipPending
        /\ s[4] = SetFailed("aborted")
        /\ s[5] = Emit([type |-> "run.failed", error |-> "aborted"])
    BY <1>3, FailuresSpelled, Zenon
  <2> QED
    BY <1>1, <2>1, QuietRows, QuietEvents DEF AllQuiet
<1>4. ASSUME NEW e, NEW s, s = FailTask(cur) \o FinalizeFailed(e) PROVE AllQuiet(s)
  <2>1. /\ Len(s) = 4
        /\ s[1] = MarkTask(cur, "failed") /\ s[2] = Emit(TaskEvent("task.failed", cur))
        /\ s[3] = SetFailed(e) /\ s[4] = Emit([type |-> "run.failed", error |-> e])
    BY <1>4, FailuresSpelled, Zenon
  <2> QED
    BY <1>1, <2>1, QuietRows, QuietEvents DEF AllQuiet
<1>5. ASSUME NEW s,
             s = <<SetPartialAnswer, Emit([type |-> "answer.completed", text |-> "partial"])>>
                    \o FinalizeFailed("aborted")
      PROVE  AllQuiet(s)
  <2>1. /\ Len(s) = 4
        /\ s[1] = SetPartialAnswer
        /\ s[2] = Emit([type |-> "answer.completed", text |-> "partial"])
        /\ s[3] = SetFailed("aborted")
        /\ s[4] = Emit([type |-> "run.failed", error |-> "aborted"])
    BY <1>5, FailuresSpelled, Zenon
  <2> QED
    BY <2>1, QuietRows, QuietEvents DEF AllQuiet
<1> QED
  BY <1>2, <1>3, <1>4, <1>5, Zenon

LEMMA QuietShort ==
    /\ AllQuiet(<<>>)
    /\ \A t : t \notin TurningTypes => AllQuiet(<<Emit(Plain(t))>>)
    /\ AllQuiet(<<RecordReflection, Emit(Plain("task.reflected"))>>)
    /\ \A i : /\ AllQuiet(<<MarkTask(i, "running")>>)
              /\ AllQuiet(<<MarkTask(i, "retrying"), Emit(TaskEvent("task.retrying", i))>>)
    /\ \A x : AllQuiet(<<SetStatus(x)>>)
<1>1. "task.reflected" \notin TurningTypes /\ "task.retrying" \notin TurningTypes
  BY DEF TurningTypes
<1> QED
  BY <1>1, QuietRows, QuietEvents DEF AllQuiet

LEMMA TurnsQuietly ==
    ASSUME NEW from, NEW to, NEW s, Decide(from, to, s), AllQuiet(s),
           to \notin {"planning", "executed", "reflect", "judged"},
           from = "stream" =>
               to \in ClosedPoints /\ \A k \in 1 .. Len(s) : s[k].op # "failed"
    PROVE  Turns
<1>1. \A k \in 1 .. Len(s) :
          /\ s[k].op # "attempt"
          /\ ~SaysPlan(s[k]) /\ ~SaysReplan(s[k]) /\ ~SaysToken(s[k])
          /\ ~SaysStart(s[k]) /\ ~SaysTask(s[k]) /\ ~SaysCompleted(s[k])
  BY DEF AllQuiet, Quiet, Says, TurningTypes, SaysPlan, SaysReplan, SaysToken, SaysStart,
     SaysTask, SaysCompleted
<1>2. PageFits(from, to, s)
  BY <1>1 DEF PageFits, PlanComes, TokenComes, TurnComes, AttemptComes
<1> QED
  BY <1>2 DEF Turns

(* What the commits of the other lists say.                                *)
LEMMA TurningNature ==
    /\ \A c : Quiet(c) =>
          /\ c.op # "attempt"
          /\ ~SaysPlan(c) /\ ~SaysReplan(c) /\ ~SaysToken(c)
          /\ ~SaysStart(c) /\ ~SaysTask(c) /\ ~SaysCompleted(c)
    /\ \A n : LET c == Emit(PlanEvent(0, n)) IN
          /\ SaysPlan(c) /\ c.op = "emit" /\ ~SaysReplan(c) /\ ~SaysToken(c)
          /\ ~SaysStart(c) /\ ~SaysTask(c) /\ ~SaysCompleted(c)
    /\ \A S, m, n : LET c == Emit(ReplanEvent(S, m, n)) IN
          /\ SaysReplan(c) /\ c.op = "emit" /\ c.event.dropped = S /\ ~SaysPlan(c)
          /\ ~SaysToken(c) /\ ~SaysStart(c) /\ ~SaysTask(c) /\ ~SaysCompleted(c)
    /\ LET c == Emit(Plain("answer.token")) IN
          /\ SaysToken(c) /\ c.op = "emit" /\ ~SaysPlan(c) /\ ~SaysReplan(c)
          /\ ~SaysStart(c) /\ ~SaysTask(c) /\ ~SaysCompleted(c)
    /\ LET c == Emit(Plain("run.started")) IN
          /\ SaysStart(c) /\ c.op = "emit" /\ ~SaysPlan(c) /\ ~SaysReplan(c)
          /\ ~SaysToken(c) /\ ~SaysTask(c) /\ ~SaysCompleted(c)
    /\ \A i : LET c == Emit(TaskEvent("task.started", i)) IN
          /\ SaysTask(c) /\ c.op = "emit" /\ ~SaysPlan(c) /\ ~SaysReplan(c)
          /\ ~SaysToken(c) /\ ~SaysStart(c) /\ ~SaysCompleted(c)
    /\ \A i : LET c == Emit(TaskEvent("task.completed", i)) IN
          /\ SaysCompleted(c) /\ c.op = "emit" /\ c.event.index = i /\ ~SaysPlan(c)
          /\ ~SaysReplan(c) /\ ~SaysToken(c) /\ ~SaysStart(c) /\ ~SaysTask(c)
    /\ \A i, n : LET c == RecordAttempt(i, n) IN
          /\ c.op = "attempt" /\ c.index = i /\ c.number = n /\ ~SaysPlan(c)
          /\ ~SaysReplan(c) /\ ~SaysToken(c) /\ ~SaysStart(c) /\ ~SaysTask(c)
          /\ ~SaysCompleted(c)
<1> USE DEF Says, SaysPlan, SaysReplan, SaysToken, SaysStart, SaysTask, SaysCompleted, Emit
<1>1. \A c : Quiet(c) =>
          /\ c.op # "attempt"
          /\ ~SaysPlan(c) /\ ~SaysReplan(c) /\ ~SaysToken(c)
          /\ ~SaysStart(c) /\ ~SaysTask(c) /\ ~SaysCompleted(c)
  BY DEF Quiet, TurningTypes
<1>2. \A n : LET c == Emit(PlanEvent(0, n)) IN
          /\ SaysPlan(c) /\ c.op = "emit" /\ ~SaysReplan(c) /\ ~SaysToken(c)
          /\ ~SaysStart(c) /\ ~SaysTask(c) /\ ~SaysCompleted(c)
  BY DEF PlanEvent
<1>3. \A S, m, n : LET c == Emit(ReplanEvent(S, m, n)) IN
          /\ SaysReplan(c) /\ c.op = "emit" /\ c.event.dropped = S /\ ~SaysPlan(c)
          /\ ~SaysToken(c) /\ ~SaysStart(c) /\ ~SaysTask(c) /\ ~SaysCompleted(c)
  BY DEF ReplanEvent
<1>4. LET c == Emit(Plain("answer.token")) IN
          /\ SaysToken(c) /\ c.op = "emit" /\ ~SaysPlan(c) /\ ~SaysReplan(c)
          /\ ~SaysStart(c) /\ ~SaysTask(c) /\ ~SaysCompleted(c)
  BY DEF Plain
<1>5. LET c == Emit(Plain("run.started")) IN
          /\ SaysStart(c) /\ c.op = "emit" /\ ~SaysPlan(c) /\ ~SaysReplan(c)
          /\ ~SaysToken(c) /\ ~SaysTask(c) /\ ~SaysCompleted(c)
  BY DEF Plain
<1>6. \A i : LET c == Emit(TaskEvent("task.started", i)) IN
          /\ SaysTask(c) /\ c.op = "emit" /\ ~SaysPlan(c) /\ ~SaysReplan(c)
          /\ ~SaysToken(c) /\ ~SaysStart(c) /\ ~SaysCompleted(c)
  BY DEF TaskEvent
<1>7. \A i : LET c == Emit(TaskEvent("task.completed", i)) IN
          /\ SaysCompleted(c) /\ c.op = "emit" /\ c.event.index = i /\ ~SaysPlan(c)
          /\ ~SaysReplan(c) /\ ~SaysToken(c) /\ ~SaysStart(c) /\ ~SaysTask(c)
  BY DEF TaskEvent
<1>8. \A i, n : LET c == RecordAttempt(i, n) IN
          /\ c.op = "attempt" /\ c.index = i /\ c.number = n /\ ~SaysPlan(c)
          /\ ~SaysReplan(c) /\ ~SaysToken(c) /\ ~SaysStart(c) /\ ~SaysTask(c)
          /\ ~SaysCompleted(c)
  BY DEF RecordAttempt
<1> HIDE DEF Says, SaysPlan, SaysReplan, SaysToken, SaysStart, SaysTask, SaysCompleted, Emit
<1> QED
  BY <1>1, <1>2, <1>3, <1>4, <1>5, <1>6, <1>7, <1>8

LEMMA TurnsToPlan ==
    ASSUME \/ Decide("start", "planning", <<SetStatus("planning"), Emit(Plain("run.started"))>>)
           \/ \E n : Decide("plan", "planned", <<AddTasks(0, n), Emit(PlanEvent(0, n))>>)
    PROVE  Turns
<1> USE DEF PageFits, PlanComes, TokenComes, TurnComes, AttemptComes
<1>1. ASSUME NEW s, Decide("start", "planning", s),
             s = <<SetStatus("planning"), Emit(Plain("run.started"))>>
      PROVE  Turns
  <2>1. Len(s) = 2 /\ s[1] = SetStatus("planning") /\ s[2] = Emit(Plain("run.started"))
    BY <1>1
  <2>2. PageFits("start", "planning", s)
    BY <2>1, QuietRows, TurningNature
  <2> HIDE DEF PageFits
  <2> QED
    BY <1>1, <2>2 DEF Turns
<1>2. ASSUME NEW n, NEW s, Decide("plan", "planned", s),
             s = <<AddTasks(0, n), Emit(PlanEvent(0, n))>>
      PROVE  Turns
  <2>1. Len(s) = 2 /\ s[1] = AddTasks(0, n) /\ s[2] = Emit(PlanEvent(0, n))
    BY <1>2
  <2>2. PageFits("plan", "planned", s)
    BY <2>1, QuietRows, TurningNature
  <2> HIDE DEF PageFits
  <2> QED
    BY <1>2, <2>2 DEF Turns
<1>3. CASE Decide("start", "planning", <<SetStatus("planning"), Emit(Plain("run.started"))>>)
  BY <1>1, <1>3, Zenon
<1>4. CASE \E n : Decide("plan", "planned", <<AddTasks(0, n), Emit(PlanEvent(0, n))>>)
  BY <1>2, <1>4, Zenon
<1> QED
  BY <1>3, <1>4

LEMMA TurnsToAttempt ==
    ASSUME \/ Decide("task", "execute",
                     <<MarkTask(cur, "running"), Emit(TaskEvent("task.started", cur))>>)
           \/ /\ Decide("execute", "executed", <<RecordAttempt(cur, attempt)>>)
              /\ cur' = cur /\ attempt' = attempt
    PROVE  Turns
<1> USE DEF PageFits, PlanComes, TokenComes, TurnComes, AttemptComes
<1>1. ASSUME NEW s, Decide("task", "execute", s),
             s = <<MarkTask(cur, "running"), Emit(TaskEvent("task.started", cur))>>
      PROVE  Turns
  <2>1. /\ Len(s) = 2 /\ s[1] = MarkTask(cur, "running")
        /\ s[2] = Emit(TaskEvent("task.started", cur))
    BY <1>1
  <2>2. PageFits("task", "execute", s)
    BY <2>1, QuietRows, TurningNature
  <2> HIDE DEF PageFits
  <2> QED
    BY <1>1, <2>2 DEF Turns
<1>2. ASSUME NEW s, Decide("execute", "executed", s), s = <<RecordAttempt(cur, attempt)>>,
             cur' = cur, attempt' = attempt
      PROVE  Turns
  <2>1. Len(s) = 1 /\ s[1] = RecordAttempt(cur', attempt')
    BY <1>2
  <2>2. PageFits("execute", "executed", s)
    BY <2>1, TurningNature
  <2> HIDE DEF PageFits
  <2> QED
    BY <1>2, <2>2 DEF Turns
<1> HIDE DEF PageFits, PlanComes, TokenComes, TurnComes, AttemptComes
<1> QED
  BY <1>1, <1>2

(* The task is judged, and accepted, at the attempt that was recorded.     *)
LEMMA TurnsToAccept ==
    ASSUME NEW from \in {"executed", "judged"}, Accept(from), attempt' = attempt
    PROVE  Turns
<1>1. PICK s : s = CompleteTask(cur)
  OBVIOUS
<1>2. /\ Len(s) = 2 /\ s[1] = MarkTask(cur, "done")
      /\ s[2] = Emit(TaskEvent("task.completed", cur))
  BY <1>1 DEF CompleteTask
<1>3. PageFits(from, "task", s)
  BY <1>2, QuietRows, TurningNature DEF PageFits, PlanComes, TokenComes, TurnComes, AttemptComes
<1> QED
  BY <1>1, <1>3 DEF Turns, Accept

LEMMA TurnsToJudge ==
    ASSUME NEW from \in {"executed", "reflect"}, NEW to \in {"reflect", "judged"}, NEW s,
           Decide(from, to, s), AllQuiet(s), cur' = cur, attempt' = attempt
    PROVE  Turns
<1>1. PageFits(from, to, s)
  BY TurningNature
  DEF AllQuiet, PageFits, PlanComes, TokenComes, TurnComes, AttemptComes
<1> QED
  BY <1>1 DEF Turns

LEMMA TurnsToReplan ==
    ASSUME NEW m, NEW n, Dropped \subseteq DOMAIN tasks,
           Decide("replan", "task",
                  <<DropTasks(Dropped), EmitSkipped(Dropped), AddTasks(m, n),
                    Emit(ReplanEvent(Dropped, m, n))>>)
    PROVE  Turns
<1>1. PICK s : s = <<DropTasks(Dropped), EmitSkipped(Dropped), AddTasks(m, n),
                     Emit(ReplanEvent(Dropped, m, n))>>
  OBVIOUS
<1>2. /\ Len(s) = 4
      /\ s[1] = DropTasks(Dropped) /\ s[2] = EmitSkipped(Dropped)
      /\ s[3] = AddTasks(m, n) /\ s[4] = Emit(ReplanEvent(Dropped, m, n))
  BY <1>1
<1>3. /\ s[1].op = "drop" /\ s[1].tasks = Dropped /\ s[4].event.dropped = Dropped
      /\ Quiet(s[1]) /\ Quiet(s[2]) /\ Quiet(s[3])
  BY <1>2, QuietRows, TurningNature
<1>4. \A i \in s[4].event.dropped : i \in DOMAIN tasks /\ SkippedBy(s, 4, i)
  BY <1>2, <1>3 DEF SkippedBy
<1>5. \A k \in 1 .. Len(s) : Quiet(s[k]) \/ (k = 4 /\ ~SaysPlan(s[k]))
  BY <1>2, <1>3, TurningNature
<1>6. PlanComes("replan", s)
  BY <1>4, <1>5, TurningNature DEF PlanComes
<1>7. TokenComes("replan", "task", s) /\ TurnComes("task", s) /\ AttemptComes("replan", "task", s)
  BY <1>2, <1>3, TurningNature DEF TokenComes, TurnComes, AttemptComes
<1> QED
  BY <1>1, <1>6, <1>7 DEF Turns, PageFits

LEMMA TurnsToStream ==
    ASSUME Decide("stream", "stream", <<Emit(Plain("answer.token"))>>)
    PROVE  Turns
<1>1. PICK s : s = <<Emit(Plain("answer.token"))>>
  OBVIOUS
<1>2. Len(s) = 1 /\ s[1] = Emit(Plain("answer.token"))
  BY <1>1
<1>3. PageFits("stream", "stream", s)
  BY <1>2, TurningNature DEF PageFits, PlanComes, TokenComes, TurnComes, AttemptComes
<1> QED
  BY <1>1, <1>3 DEF Turns

LEMMA PlanningTurns ==
    ASSUME Planning
    PROVE  Turns
<1>1. ASSUME NEW from \in {"register", "planning", "recall", "plan", "planned"},
             NEW to \in {"start", "recall", "plan", "task", "finished", "handled"}, NEW s,
             Decide(from, to, s), AllQuiet(s)
      PROVE  Turns
  BY <1>1, TurnsQuietly
<1>2. CASE Register
  BY <1>1, <1>2, QuietShort DEF Register
<1>3. CASE StartPlanning
  BY <1>3, TurnsToPlan DEF StartPlanning
<1>4. CASE CheckPlanning
  <2>1. CASE Decide("planning", "finished", FinalizeCancelled)
    BY <1>1, <2>1, QuietFinalizers
  <2>2. ASSUME NEW to \in {"recall", "plan"}, Decide("planning", to, <<>>) PROVE Turns
    BY <1>1, <2>2, QuietShort
  <2> QED
    BY <1>4, <2>1, <2>2 DEF CheckPlanning
<1>5. CASE Recall
  <2>1. PICK s \in {<<>>, <<Emit(Plain("memory.recalled"))>>} : Decide("recall", "plan", s)
    BY <1>5 DEF Recall
  <2>2. "memory.recalled" \notin TurningTypes
    BY DEF TurningTypes
  <2>3. AllQuiet(s)
    BY <2>1, <2>2, QuietShort
  <2> QED
    BY <1>1, <2>1, <2>3
<1>6. CASE PlannerReturns
  BY <1>6, TurnsToPlan DEF PlannerReturns
<1>7. CASE PlannerFails
  <2>1. PICK e : Decide("plan", "handled", FinalizeFailed(e))
    BY <1>7 DEF PlannerFails
  <2>2. AllQuiet(FinalizeFailed(e))
    BY QuietFinalizers
  <2> QED
    BY <1>1, <2>1, <2>2
<1>8. CASE PlannerExhausts
  <2>1. Decide("plan", "handled", FinalizeBudgetExceeded(FALSE))
    BY <1>8 DEF PlannerExhausts
  <2>2. "plan" \in {"register", "planning", "recall", "plan", "planned"}
        /\ "handled" \in {"start", "recall", "plan", "task", "finished", "handled"}
    OBVIOUS
  <2> QED
    BY <1>1, <2>1, <2>2, QuietBudget, Zenon
<1>9. CASE CheckPlanned
  <2>1. CASE Decide("planned", "finished", FinalizeCancelledRun(FALSE))
    <3>1. "planned" \in {"register", "planning", "recall", "plan", "planned"}
          /\ "finished" \in {"start", "recall", "plan", "task", "finished", "handled"}
      OBVIOUS
    <3> QED
      BY <1>1, <2>1, <3>1, QuietFinalizers, Zenon
  <2>2. CASE Decide("planned", "task", <<SetStatus("running")>>)
    BY <1>1, <2>2, QuietShort
  <2> QED
    BY <1>9, <2>1, <2>2 DEF CheckPlanned
<1> QED
  BY <1>2, <1>3, <1>4, <1>5, <1>6, <1>7, <1>8, <1>9 DEF Planning

(* From a task in flight, with no event that turns anything.               *)
LEMMA TurnsFromFlight ==
    ASSUME NEW from \in {"task"} \cup InFlight,
           NEW to \in {"finished", "synthesize", "execute", "retry", "replan", "partial"},
           NEW s, Decide(from, to, s), AllQuiet(s)
    PROVE  Turns
<1>1. from # "stream" /\ to \notin {"planning", "executed", "reflect", "judged"}
  BY DEF InFlight
<1> QED
  BY <1>1, TurnsQuietly

LEMMA TeardownTurns ==
    ASSUME NEW from \in {"task"} \cup InFlight,
           \/ Decide(from, "finished", FinalizeCancelledRun(TRUE))
           \/ Decide(from, "finished", FinalizeCancelledRun(FALSE))
           \/ Decide(from, "finished", FinalizeBudgetExceeded(TRUE))
    PROVE  Turns
<1>1. "finished" \in {"finished", "synthesize", "execute", "retry", "replan", "partial"}
  OBVIOUS
<1> QED
  BY <1>1, TurnsFromFlight, QuietFinalizers, QuietBudget, Zenon

LEMMA ExecutingTurns ==
    ASSUME Executing
    PROVE  Turns
<1> USE DEF turn, plan, local
<1>0. /\ {"task", "execute", "executed", "reflect", "retry"} \subseteq {"task"} \cup InFlight
  BY DEF InFlight
<1>1. CASE StartTask
  <2>1. CASE Decide("task", "finished", FinalizeCancelledRun(FALSE))
    BY <1>0, <2>1, TeardownTurns, Zenon
  <2>2. CASE Decide("task", "execute",
                    <<MarkTask(cur, "running"), Emit(TaskEvent("task.started", cur))>>)
    BY <2>2, TurnsToAttempt
  <2> QED
    BY <1>1, <2>1, <2>2 DEF StartTask
<1>2. CASE TasksDone
  <2>1. Decide("task", "synthesize", <<>>) /\ AllQuiet(<<>>)
    BY <1>2, QuietShort DEF TasksDone
  <2> QED
    BY <2>1, TurnsFromFlight
<1>3. CASE StartAttempt
  <2>1. CASE Decide("retry", "finished", FinalizeCancelledRun(TRUE))
    BY <1>0, <2>1, TeardownTurns, Zenon
  <2>2. CASE Decide("retry", "execute", <<MarkTask(cur, "running")>>)
    BY <1>0, <2>2, QuietShort, TurnsFromFlight
  <2> QED
    BY <1>3, <2>1, <2>2 DEF StartAttempt
<1>4. CASE ExecutorReturns
  BY <1>4, TurnsToAttempt DEF ExecutorReturns
<1>5. CASE ExecutorCancelled
  BY <1>0, <1>5, TeardownTurns, Zenon DEF ExecutorCancelled
<1>6. CASE ExecutorFails
  <2>1. CASE Decide("execute", "finished", FinalizeCancelledRun(TRUE))
    BY <1>0, <2>1, TeardownTurns, Zenon
  <2>2. CASE Decide("execute", "finished", FailTask(cur) \o FinalizeFailed("task"))
    <3>1. AllQuiet(FailTask(cur) \o FinalizeFailed("task"))
      BY QuietFailures
    <3> QED
      BY <1>0, <2>2, <3>1, TurnsFromFlight
  <2>3. CASE Decide("execute", "executed", <<RecordAttempt(cur, attempt)>>)
    BY <1>6, <2>3, TurnsToAttempt DEF ExecutorFails
  <2> QED
    BY <1>6, <2>1, <2>2, <2>3 DEF ExecutorFails
<1>7. CASE ExecutorExhausts
  BY <1>0, <1>7, TeardownTurns, Zenon DEF ExecutorExhausts
<1>8. CASE CheckExecuted
  <2>1. CASE Decide("executed", "finished", FinalizeCancelledRun(TRUE))
    BY <1>0, <2>1, TeardownTurns, Zenon
  <2>2. CASE Decide("executed", "reflect", <<>>) /\ UNCHANGED plan
    BY <1>8, <2>2, QuietShort, TurnsToJudge DEF CheckExecuted
  <2>3. CASE Accept("executed")
    BY <1>8, <2>3, TurnsToAccept DEF CheckExecuted
  <2> QED
    BY <1>8, <2>1, <2>2, <2>3 DEF CheckExecuted
<1>9. CASE ReflectorReturns
  <2>1. /\ Decide("reflect", "judged", <<RecordReflection, Emit(Plain("task.reflected"))>>)
        /\ cur' = cur /\ attempt' = attempt
    BY <1>9 DEF ReflectorReturns
  <2>2. AllQuiet(<<RecordReflection, Emit(Plain("task.reflected"))>>)
    BY QuietShort
  <2> QED
    BY <2>1, <2>2, TurnsToJudge
<1>10. CASE ReflectorExhausts
  BY <1>0, <1>10, TeardownTurns, Zenon DEF ReflectorExhausts
<1> QED
  BY <1>1, <1>2, <1>3, <1>4, <1>5, <1>6, <1>7, <1>8, <1>9, <1>10 DEF Executing

LEMMA JudgingTurns ==
    ASSUME TypeOK, PlanInv, Judging
    PROVE  Turns
<1> USE DEF turn, plan, local
<1>0. /\ {"judged", "replan"} \subseteq {"task"} \cup InFlight
  BY DEF InFlight
<1>1. CASE JudgedCancelled
  BY <1>0, <1>1, TeardownTurns, Zenon DEF JudgedCancelled
<1>2. CASE JudgedAccept
  BY <1>2, TurnsToAccept DEF JudgedAccept
<1>3. CASE JudgedRetry
  <2>1. PICK s : s = <<MarkTask(cur, "retrying"), Emit(TaskEvent("task.retrying", cur))>>
    OBVIOUS
  <2>2. Decide("judged", "retry", s) /\ AllQuiet(s)
    BY <1>3, <2>1, QuietShort DEF JudgedRetry
  <2> QED
    BY <1>0, <2>2, TurnsFromFlight
<1>4. CASE JudgedReplan
  <2>1. Decide("judged", "replan", <<>>) /\ AllQuiet(<<>>)
    BY <1>4, QuietShort DEF JudgedReplan
  <2> QED
    BY <1>0, <2>1, TurnsFromFlight
<1>5. CASE JudgedAbort
  <2>1. ASSUME NEW s, NEW to \in {"finished", "partial"}, Decide("judged", to, s), AllQuiet(s)
        PROVE  Turns
    BY <1>0, <2>1, TurnsFromFlight
  <2> QED
    BY <1>5, <2>1, QuietFailures DEF JudgedAbort
<1>6. CASE ReplanReturns
  <2>1. CASE Decide("replan", "finished", FinalizeCancelledRun(TRUE))
    BY <1>0, <2>1, TeardownTurns, Zenon
  <2>2. CASE ~cancel
    <3>1. PICK n \in 1 .. MaxTasks :
              Decide("replan", "task",
                     <<DropTasks(Dropped), EmitSkipped(Dropped), AddTasks(StartIndex, n),
                       Emit(ReplanEvent(Dropped, StartIndex, n))>>)
      BY <1>6, <2>2 DEF ReplanReturns
    <3>2. pc = "replan" /\ todo = <<>>
      BY <3>1 DEF Decide
    <3>3. Dropped \subseteq DOMAIN tasks
      BY <3>2, CurrentHasRow DEF InFlight, Dropped
    <3> QED
      BY <3>1, <3>3, TurnsToReplan
  <2> QED
    BY <1>6, <2>1, <2>2 DEF ReplanReturns
<1>7. CASE ReplanFails
  <2>1. Decide("replan", "finished", FailTask(cur) \o FinalizeFailed("replan"))
    BY <1>7 DEF ReplanFails
  <2>2. AllQuiet(FailTask(cur) \o FinalizeFailed("replan"))
    BY QuietFailures
  <2> QED
    BY <1>0, <2>1, <2>2, TurnsFromFlight
<1>8. CASE ReplanExhausts
  BY <1>0, <1>8, TeardownTurns, Zenon DEF ReplanExhausts
<1>9. CASE ReplyRaises
  <2>0. PICK s : s = FinalizeFailed("unexpected")
    OBVIOUS
  <2>1. PICK from \in Parsing : Decide(from, "handled", s)
    BY <1>9, <2>0 DEF ReplyRaises
  <2>2. AllQuiet(s)
    BY <2>0, QuietFinalizers
  <2> QED
    BY <2>1, <2>2, TurnsQuietly DEF Parsing
<1> QED
  BY <1>1, <1>2, <1>3, <1>4, <1>5, <1>6, <1>7, <1>8, <1>9 DEF Judging

LEMMA AnsweringTurns ==
    ASSUME Answering
    PROVE  Turns
<1>0. AfterAnswer \in {"memory", "finished"}
  BY DEF AfterAnswer
<1>1. ASSUME NEW from \in {"partial", "synthesize", "answer", "memory", "finished", "handled"},
             NEW to \in {"answer", "stream", "memory", "finished", "handled", "ended"}, NEW s,
             Decide(from, to, s), AllQuiet(s)
      PROVE  Turns
  BY <1>1, TurnsQuietly
<1>2. CASE PartialReturns
  <2>1. PICK s : /\ Decide("partial", AfterAnswer, s)
                 /\ s = <<SetPartialAnswer,
                          Emit([type |-> "answer.completed", text |-> "partial"])>>
                            \o FinalizeFailed("aborted")
    BY <1>2 DEF PartialReturns
  <2>2. AllQuiet(s)
    BY <2>1, QuietFailures
  <2> QED
    BY <1>0, <1>1, <2>1, <2>2
<1>3. ASSUME NEW from \in {"partial", "answer"}, NEW e, Decide(from, "handled", FinalizeFailed(e))
      PROVE  Turns
  <2>1. AllQuiet(FinalizeFailed(e))
    BY QuietFinalizers
  <2> QED
    BY <1>1, <1>3, <2>1
<1>4. CASE PartialFails
  BY <1>3, <1>4 DEF PartialFails
<1>5. ASSUME NEW from \in {"partial", "answer"}, NEW to \in {"finished", "handled"},
             Decide(from, to, FinalizeBudgetExceeded(FALSE))
      PROVE  Turns
  <2>1. /\ from \in {"partial", "synthesize", "answer", "memory", "finished", "handled"}
        /\ to \in {"answer", "stream", "memory", "finished", "handled", "ended"}
    OBVIOUS
  <2> QED
    BY <1>1, <1>5, <2>1, QuietBudget, Zenon
<1>6. CASE PartialExhausts
  <2>1. Decide("partial", "finished", FinalizeBudgetExceeded(FALSE))
    BY <1>6 DEF PartialExhausts
  <2>2. "partial" \in {"partial", "answer"} /\ "finished" \in {"finished", "handled"}
    OBVIOUS
  <2> QED
    BY <1>5, <2>1, <2>2, Zenon
<1>7. CASE CheckSynthesis
  BY <1>1, <1>7, QuietShort, QuietFinalizers DEF CheckSynthesis
<1>8. CASE AnswerReturns
  BY <1>1, <1>8, QuietShort DEF AnswerReturns
<1>9. CASE AnswerFails
  BY <1>3, <1>9 DEF AnswerFails
<1>10. CASE AnswerExhausts
  <2>1. Decide("answer", "handled", FinalizeBudgetExceeded(FALSE))
    BY <1>10 DEF AnswerExhausts
  <2>2. "answer" \in {"partial", "answer"} /\ "handled" \in {"finished", "handled"}
    OBVIOUS
  <2> QED
    BY <1>5, <2>1, <2>2, Zenon
<1>11. CASE StreamToken
  <2>1. CASE Decide("stream", "finished", FinalizeCancelled)
    <3>1. PICK s : s = FinalizeCancelled
      OBVIOUS
    <3>2. AllQuiet(s) /\ \A k \in 1 .. Len(s) : s[k].op # "failed"
      BY <3>1, QuietFinalizers
    <3> QED
      BY <2>1, <3>1, <3>2, TurnsQuietly DEF ClosedPoints
  <2>2. CASE Decide("stream", "stream", <<Emit(Plain("answer.token"))>>)
    BY <2>2, TurnsToStream
  <2> QED
    BY <1>11, <2>1, <2>2 DEF StreamToken
<1>12. CASE StreamDone
  <2>1. PICK s : s = FinalizeDone
    OBVIOUS
  <2>2. AllQuiet(s) /\ \A k \in 1 .. Len(s) : s[k].op # "failed"
    BY <2>1, QuietFinalizers
  <2>3. Decide("stream", AfterAnswer, s)
    BY <1>12, <2>1 DEF StreamDone
  <2> QED
    BY <1>0, <2>2, <2>3, TurnsQuietly DEF ClosedPoints
<1>13. CASE WriteMemory
  <2>1. "memory.written" \notin TurningTypes
    BY DEF TurningTypes
  <2>2. PICK s \in {<<>>, <<Emit(Plain("memory.written"))>>} : Decide("memory", "finished", s)
    BY <1>13 DEF WriteMemory
  <2>3. AllQuiet(s)
    BY <2>1, <2>2, QuietShort
  <2> QED
    BY <1>1, <2>2, <2>3
<1>14. CASE Cleanup
  BY <1>1, <1>14, QuietShort DEF Cleanup
<1> QED
  BY <1>2, <1>4, <1>6, <1>7, <1>8, <1>9, <1>10, <1>11, <1>12, <1>13, <1>14 DEF Answering

(* What every decision lets come, beside what it leaves for the ledger.    *)
LEMMA EveryDecisionTurns ==
    ASSUME TypeOK, PlanInv, Planning \/ Executing \/ Judging \/ Answering
    PROVE  \E from, to, s : Decision(from, to, s) /\ PageFits(from, to, s)
<1>1. PICK f, t, s : Decision(f, t, s)
  BY EveryDecisionFits DEF Decides
<1>2. PICK f2, t2, s2 : Decide(f2, t2, s2) /\ PageFits(f2, t2, s2)
  BY PlanningTurns, ExecutingTurns, JudgingTurns, AnsweringTurns DEF Turns
<1>3. f = f2 /\ t = t2 /\ s = s2
  BY <1>1, <1>2 DEF Decision, Decide
<1> QED
  BY <1>1, <1>2, <1>3

-----------------------------------------------------------------------------
(* When an event can come, step by step                                    *)

LEMMA DecisionWaits ==
    ASSUME TasksInv, EndInv, LeadInv, WaitInv, NEW from, NEW to, NEW s,
           Decision(from, to, s), PageFits(from, to, s)
    PROVE  WaitInv'
<1>1. /\ pc = from /\ pc' = to /\ todo = <<>> /\ todo' = s /\ Waiting = {}
      /\ UNCHANGED <<status, tasks, attempts, view>>
      /\ Waiting' = {s[k] : k \in 1 .. Len(s)}
  BY DEF Decision, Decide, durable, Waiting
<1>0. TokenWaits /\ AttemptWaits
  BY DEF WaitInv
<1>2. DOMAIN view.tasks \subseteq DOMAIN tasks
  BY DEF LeadInv, RowsLeadLedger
<1>3. PlanWaits'
  <2>1. from = "plan" => DOMAIN view.tasks = {}
    BY <1>1, <1>2 DEF TasksInv, EarlyInv, Early
  <2>2. \A k \in 1 .. Len(s) :
            /\ SaysPlan(s[k]) =>
                  /\ DOMAIN view.tasks = {}
                  /\ \A j \in 1 .. Len(s) : j < k => s[j].op = "add"
            /\ SaysReplan(s[k]) =>
                  \A i \in s[k].event.dropped :
                      i \in DOMAIN tasks /\ (tasks[i] = "skipped" \/ SkippedBy(s, k, i))
    BY <2>1 DEF PageFits, PlanComes
  <2> QED
    BY <1>1, <2>2 DEF PlanWaits, SaysPlan, SaysReplan, Says, SkippedBy
<1>4. TokenWaits'
  <2>1. ListFits(from, to, s) /\ TokenComes(from, to, s)
    BY DEF Decision, PageFits
  <2>2. view.tokens =>
            /\ to \in {"stream"} \cup ClosedPoints
            /\ status # "failed" /\ \A k \in 1 .. Len(s) : s[k].op # "failed"
    <3>1. CASE from = "stream"
      BY <1>0, <1>1, <2>1, <3>1 DEF TokenWaits, TokenComes
    <3>2. CASE from \in ClosedPoints
      BY <1>0, <1>1, <2>1, <3>2 DEF TokenWaits, ListFits, Silent, Says
    <3> QED
      BY <1>0, <1>1, <3>1, <3>2 DEF TokenWaits
  <2> QED
    BY <1>1, <2>1, <2>2 DEF TokenWaits, TokenComes, SaysToken, Says
<1>5. TurnWaits'
  BY <1>1 DEF PageFits, TurnComes, TurnWaits, SaysStart, SaysTask, Says
<1>6. AttemptWaits'
  <2>1. AttemptComes(from, to, s)
    BY DEF PageFits
  <2>2. from \in {"executed", "reflect", "judged"} => Attempted(cur)
    BY <1>0, <1>1 DEF AttemptWaits
  <2>3. \A k \in 1 .. Len(s) :
            /\ s[k].op = "attempt" =>
                  to = "executed" /\ s[k].index = cur' /\ s[k].number = attempt'
            /\ SaysCompleted(s[k]) =>
                  /\ to = "task" /\ s[k].event.index \in DOMAIN tasks
                  /\ attempts[s[k].event.index] = attempt'
    BY <2>1, <2>2 DEF AttemptComes, Attempted
  <2>4. to \in {"executed", "reflect", "judged"} =>
            \/ cur' \in DOMAIN tasks /\ attempts[cur'] = attempt'
            \/ \E k \in 1 .. Len(s) : s[k] = RecordAttempt(cur', attempt')
    BY <2>1, <2>2 DEF AttemptComes, Attempted
  <2> QED
    BY <1>1, <2>3, <2>4 DEF AttemptWaits, Attempted, SaysCompleted, Says, RecordAttempt
<1>7. PendingUnsaid'
  BY <1>1 DEF WaitInv, PendingUnsaid
<1> QED
  BY <1>3, <1>4, <1>5, <1>6, <1>7 DEF WaitInv

(* The attempt counts a commit writes.                                     *)
LEMMA CommitCounts ==
    ASSUME TypeOK, TasksInv, PlanInv, Committing
    PROVE  /\ \A i \in DOMAIN tasks :
                 i \in DOMAIN tasks' /\ (Head(todo).op # "attempt" => attempts'[i] = attempts[i])
           /\ Head(todo).op = "attempt" =>
                 /\ Head(todo).index \in DOMAIN tasks
                 /\ \A i \in DOMAIN tasks :
                       attempts'[i] = IF i = Head(todo).index THEN Head(todo).number
                                      ELSE attempts[i]
<1> DEFINE c == Head(todo)
<1>1. DOMAIN attempts = DOMAIN tasks /\ DOMAIN tasks \subseteq Nat
  BY DEF TypeOK, RowsOK, IsChecklist
<1>2. DOMAIN tasks \subseteq DOMAIN tasks'
  BY CommitRows
<1>3. c \in Waiting /\ c \in Commit
  BY Behind
<1>4. CASE CommitAttempt
  <2>1. /\ c.op = "attempt"
        /\ attempts' = [i \in DOMAIN attempts |->
                           IF i = c.index THEN c.number ELSE attempts[i]]
    BY <1>4 DEF CommitAttempt, Pending
  <2>2. c.index \in DOMAIN tasks
    BY <1>3, <2>1 DEF PlanInv, Touches
  <2> QED
    BY <1>1, <1>2, <2>1, <2>2
<1>5. CASE CommitAdd
  <2>1. /\ c.op = "add"
        /\ attempts' = [i \in DOMAIN tasks \cup c.start .. (c.start + c.count - 1) |->
                           IF i \in c.start .. (c.start + c.count - 1)
                           THEN 0 ELSE attempts[i]]
    BY <1>5 DEF CommitAdd, Pending
  <2>2. \A i \in DOMAIN tasks : i \notin c.start .. (c.start + c.count - 1)
    BY <1>1, <1>3, <2>1, CommitFields DEF TasksInv, Fits
  <2> QED
    BY <1>2, <2>1, <2>2
<1>6. CASE \/ CommitStatus \/ CommitFailed \/ CommitDone \/ CommitPartialAnswer
           \/ CommitMark \/ CommitSkip \/ CommitDrop \/ CommitReflection
           \/ CommitEmit \/ CommitEmitSkipped
  <2>1. attempts' = attempts /\ c.op # "attempt"
    BY <1>6 DEF CommitStatus, CommitFailed, CommitDone, CommitPartialAnswer, CommitMark,
       CommitSkip, CommitDrop, CommitReflection, CommitEmit, CommitEmitSkipped, Pending,
       durable, rows
  <2> QED
    BY <1>2, <2>1
<1> QED
  BY <1>4, <1>5, <1>6 DEF Committing

LEMMA CommitPlanWaits ==
    ASSUME TypeOK, TasksInv, PlanWaits, Committing
    PROVE  PlanWaits'
<1> DEFINE c == Head(todo)
<1>1. /\ Effect(c) /\ LeavesBehind(c) /\ c = todo[1] /\ Len(todo) \in Nat /\ 1 \in 1 .. Len(todo)
      /\ todo \in Seq(Commit) /\ todo # <<>>
  BY CommitEffect, Behind
<1>2. PICK d \in {0, 1} :
          /\ Len(todo') = Len(todo) - d
          /\ \A k \in 1 .. Len(todo') :
                \/ d = 0 /\ k = 1 /\ todo'[k].op = "emitSkipped"
                \/ k + d \in 2 .. Len(todo) /\ todo'[k] = todo[k + d]
  BY Behind
<1>3. FinalKept /\ DOMAIN tasks \subseteq DOMAIN tasks'
  BY CommittingTasks, CommitRows
<1> HIDE DEF c
<1>4. PICK t : t = todo'
  OBVIOUS
<1>5. ASSUME NEW k \in 1 .. Len(t), SaysPlan(t[k])
      PROVE  /\ DOMAIN view'.tasks = {}
             /\ \A j \in 1 .. Len(t) : j < k => t[j].op = "add"
  <2>1. k + d \in 2 .. Len(todo) /\ t[k] = todo[k + d]
    BY <1>2, <1>4, <1>5 DEF SaysPlan, Says
  <2>2. DOMAIN view.tasks = {} /\ \A j \in 1 .. Len(todo) : j < k + d => todo[j].op = "add"
    BY <1>5, <2>1 DEF PlanWaits
  <2>3. c.op = "add"
    BY <1>1, <2>1, <2>2
  <2>4. view' = view /\ t = Tail(todo)
    BY <1>1, <1>4, <2>3 DEF Effect, LeavesBehind
  <2>5. \A j \in 1 .. Len(t) : j + 1 \in 1 .. Len(todo) /\ t[j] = todo[j + 1] /\ d = 1
    BY <1>1, <1>2, <1>4, <2>4
  <2> QED
    BY <2>2, <2>4, <2>5
<1>6. ASSUME NEW k \in 1 .. Len(t), SaysReplan(t[k]), NEW i \in t[k].event.dropped
      PROVE  i \in DOMAIN tasks' /\ (tasks'[i] = "skipped" \/ SkippedBy(t, k, i))
  <2>1. k + d \in 2 .. Len(todo) /\ t[k] = todo[k + d]
    BY <1>2, <1>4, <1>6 DEF SaysReplan, Says
  <2>2. i \in DOMAIN tasks /\ (tasks[i] = "skipped" \/ SkippedBy(todo, k + d, i))
    BY <1>6, <2>1 DEF PlanWaits
  <2>3. CASE tasks[i] = "skipped"
    BY <1>3, <2>2, <2>3 DEF FinalKept, Final, TerminalTaskStatuses
  <2>4. CASE SkippedBy(todo, k + d, i)
    <3>1. PICK j \in 1 .. Len(todo) : j < k + d /\ todo[j].op = "drop" /\ i \in todo[j].tasks
      BY <2>4 DEF SkippedBy
    <3>2. CASE j = 1
      BY <1>1, <1>3, <2>2, <3>1, <3>2 DEF Effect
    <3>3. CASE j # 1
      <4>1. j - d \in 1 .. Len(t) /\ j - d < k /\ t[j - d] = todo[j]
        BY <1>1, <1>2, <1>4, <3>1, <3>3
      <4> QED
        BY <1>3, <2>2, <3>1, <4>1 DEF SkippedBy
    <3> QED
      BY <3>2, <3>3
  <2> QED
    BY <2>2, <2>3, <2>4
<1> QED
  BY <1>4, <1>5, <1>6 DEF PlanWaits, SaysPlan, SaysReplan, Says, SkippedBy

LEMMA CommitTokenWaits ==
    ASSUME TypeOK, EndInv, LeadInv, TokenWaits, Committing
    PROVE  TokenWaits'
<1> DEFINE c == Head(todo)
<1>1. /\ Effect(c) /\ c = todo[1] /\ c \in Waiting /\ pc' = pc
      /\ Len(todo) \in Nat /\ 1 \in 1 .. Len(todo)
      /\ \A x \in Waiting' : x \in Waiting \/ x.op = "emitSkipped"
  BY CommitEffect, Behind, StillWaiting
<1> HIDE DEF c
<1>2. \A x \in Waiting' : SaysToken(x) => pc = "stream"
  BY <1>1 DEF TokenWaits, SaysToken, Says
<1>3. ASSUME view'.tokens
      PROVE  /\ pc \in {"stream"} \cup ClosedPoints
             /\ status # "failed" /\ \A x \in Waiting : x.op # "failed"
  <2>1. CASE view.tokens
    BY <2>1 DEF TokenWaits
  <2>2. CASE ~view.tokens
    <3>1. c.op \in {"emit", "emitSkipped"}
      BY <1>1, <1>3, <2>2 DEF Effect
    <3>2. PICK e : /\ Reads(view, e, view')
                   /\ c.op = "emit" => e = c.event
                   /\ c.op = "emitSkipped" => e.type = "task.skipped"
      BY <3>1, CommitAppends DEF c
    <3>3. SaysToken(c)
      BY <1>3, <2>2, <3>1, <3>2 DEF Reads, SaysToken, Says
    <3>4. pc = "stream" /\ "stream" \notin ClosedPoints
      BY <1>1, <3>3 DEF TokenWaits, ClosedPoints
    <3> QED
      BY <3>4 DEF EndInv, NoClose, Closes, Waiting, TerminalRunStatuses
  <2> QED
    BY <2>1, <2>2
<1>4. view'.tokens => status' # "failed"
  <2>1. c.op = "status" => c.status # "failed"
    BY <1>1 DEF LeadInv, Paired
  <2>2. c.op = "failed" \/ status' = status \/ status' \in {"done", c.status}
    BY <1>1 DEF Effect
  <2> QED
    BY <1>1, <1>3, <2>1, <2>2 DEF Effect
<1> QED
  BY <1>1, <1>2, <1>3, <1>4 DEF TokenWaits, SaysToken, Says

LEMMA CommitAttemptWaits ==
    ASSUME TypeOK, TasksInv, PlanInv, AttemptWaits, Committing
    PROVE  AttemptWaits'
<1> DEFINE c == Head(todo)
<1>1. /\ c \in Waiting /\ pc' = pc /\ cur' = cur /\ attempt' = attempt
      /\ \A x \in Waiting' : x \in Waiting \/ x.op = "emitSkipped"
  BY CommitEffect, Behind, StillWaiting DEF local, plan, turn
<1>2. /\ \A i \in DOMAIN tasks :
             i \in DOMAIN tasks' /\ (c.op # "attempt" => attempts'[i] = attempts[i])
      /\ c.op = "attempt" =>
             /\ c.index \in DOMAIN tasks
             /\ \A i \in DOMAIN tasks :
                    attempts'[i] = IF i = c.index THEN c.number ELSE attempts[i]
  BY CommitCounts
<1>3. \A x \in Waiting : x = c \/ x \in Waiting'
  <2>1. Performs(c)
    BY DEF Committing, CommitStatus, CommitFailed, CommitDone, CommitPartialAnswer,
       CommitMark, CommitSkip, CommitDrop, CommitAdd, CommitAttempt, CommitReflection,
       CommitEmit, CommitEmitSkipped, Pending, Performed, local, plan, Performs
  <2> QED
    BY <2>1, AfterCommit DEF TasksInv
<1> HIDE DEF c
<1>4. \A x \in Waiting' :
          x.op = "attempt" => pc = "executed" /\ x.index = cur /\ x.number = attempt
  BY <1>1 DEF AttemptWaits
<1>5. ASSUME NEW x \in Waiting', SaysCompleted(x)
      PROVE  /\ pc = "task" /\ x.event.index \in DOMAIN tasks'
             /\ attempts'[x.event.index] = attempt
  <2>1. x \in Waiting
    BY <1>1, <1>5 DEF SaysCompleted, Says
  <2>2. pc = "task" /\ Attempted(x.event.index)
    BY <1>5, <2>1 DEF AttemptWaits
  <2>3. c.op # "attempt"
    BY <1>1, <2>2 DEF AttemptWaits
  <2> QED
    BY <1>2, <2>2, <2>3 DEF Attempted
<1>6. ASSUME pc \in {"executed", "reflect", "judged"}
      PROVE  \/ cur \in DOMAIN tasks' /\ attempts'[cur] = attempt
             \/ RecordAttempt(cur, attempt) \in Waiting'
  <2>1. CASE Attempted(cur)
    BY <1>1, <1>2, <2>1 DEF AttemptWaits, Attempted
  <2>2. CASE RecordAttempt(cur, attempt) \in Waiting /\ RecordAttempt(cur, attempt) # c
    BY <1>3, <2>2
  <2>3. CASE RecordAttempt(cur, attempt) = c
    <3>1. c.op = "attempt" /\ c.index = cur /\ c.number = attempt
      BY <2>3 DEF RecordAttempt
    <3> QED
      BY <1>2, <3>1
  <2> QED
    BY <1>6, <2>1, <2>2, <2>3 DEF AttemptWaits
<1>7. RecordAttempt(cur, attempt)' = RecordAttempt(cur, attempt)
  BY <1>1 DEF RecordAttempt
<1> QED
  BY <1>1, <1>4, <1>5, <1>6, <1>7 DEF AttemptWaits, Attempted, SaysCompleted, Says

(* A commit that puts a row out of pending leaves it out.                  *)
LEMMA CommitPendingUnsaid ==
    ASSUME TypeOK, TasksInv, PlanInv, LeadInv, PendingUnsaid, Committing
    PROVE  PendingUnsaid'
<1> DEFINE c == Head(todo)
<1>1. /\ Effect(c) /\ c = todo[1] /\ c \in Waiting /\ c \in Commit
      /\ Len(todo) \in Nat /\ 1 \in 1 .. Len(todo)
  BY CommitEffect, Behind
<1>2. DOMAIN view.tasks \subseteq DOMAIN tasks
  BY DEF LeadInv, RowsLeadLedger
<1>3. \A t \in TaskEventTypes : TaskEventStatus(t) # "pending"
  BY DEF TaskEventTypes, TaskEventStatus
<1> HIDE DEF c
<1>4. CASE c.op \notin {"emit", "emitSkipped"}
  <2>1. view' = view
    BY <1>1, <1>4 DEF Effect
  <2>2. c.op = "mark" => c.status # "pending"
    <3> SUFFICES ASSUME c.op = "mark", c.status = "pending" PROVE FALSE
      OBVIOUS
    <3>1. Public(c) /\ Paired(todo)
      BY DEF Public, LeadInv
    <3>2. Announces(todo[2], c)
      BY <1>1, <3>1 DEF Paired, Followed
    <3>3. c.op = "mark" => Says(todo[2], TaskEventTypes)
                           /\ TaskEventStatus(todo[2].event.type) = c.status
      BY <3>2 DEF Announces, Says
    <3> QED
      BY <1>3, <3>3 DEF Says
  <2>3. ASSUME NEW i \in DOMAIN tasks, tasks'[i] = "pending" PROVE tasks[i] = "pending"
    <3>1. CASE c.op \in {"mark", "skip", "drop"}
      BY <1>1, <2>2, <2>3, <3>1 DEF Effect
    <3>2. CASE c.op = "add"
      <4>1. i \notin c.start .. (c.start + c.count - 1)
        <5>1. i < c.start /\ i \in Nat /\ c.start \in Nat
          BY <1>1, <3>2, CommitFields DEF TasksInv, Fits, TypeOK, RowsOK, IsChecklist
        <5> QED
          BY <5>1
      <4> QED
        BY <1>1, <2>3, <3>2, <4>1 DEF Effect, WithPlan
    <3>3. CASE c.op \notin {"mark", "skip", "drop", "add"}
      BY <1>1, <2>3, <3>3 DEF Effect
    <3> QED
      BY <3>1, <3>2, <3>3
  <2> QED
    BY <1>2, <2>1, <2>3 DEF PendingUnsaid
<1>5. CASE c.op \in {"emit", "emitSkipped"}
  <2>1. PICK e : Honest(e) /\ Reads(view, e, view') /\ tasks' = tasks
    BY <1>5, CommitAppends DEF c
  <2>2. CASE e.type \in PlanEventTypes
    <3>1. view'.tasks = WithPlan(view.tasks, e.start, e.count)
      BY <2>1, <2>2 DEF Reads
    <3> QED
      BY <2>1, <3>1 DEF WithPlan, PendingUnsaid
  <2>3. CASE e.type \in TaskEventTypes
    <3>1. /\ view'.tasks = WithTask(view.tasks, e.index, TaskEventStatus(e.type))
          /\ tasks[e.index] # "pending"
      BY <1>3, <2>1, <2>3 DEF Reads, Honest
    <3> QED
      BY <2>1, <3>1 DEF WithTask, PendingUnsaid
  <2>4. CASE e.type \notin PlanEventTypes \cup TaskEventTypes
    BY <2>1, <2>4 DEF Reads, PendingUnsaid
  <2> QED
    BY <2>2, <2>3, <2>4
<1> QED
  BY <1>4, <1>5

LEMMA CommitWaits ==
    ASSUME TypeOK, TasksInv, BookInv, WaitInv, Committing
    PROVE  WaitInv'
<1>1. TurnWaits'
  <2>1. pc' = pc /\ \A x \in Waiting' : x \in Waiting \/ x.op = "emitSkipped"
    BY CommitEffect, StillWaiting
  <2> QED
    BY <2>1 DEF WaitInv, TurnWaits, SaysStart, SaysTask, Says
<1>2. EndInv /\ PlanInv /\ LeadInv
  BY DEF BookInv
<1> QED
  BY <1>1, <1>2, CommitPlanWaits, CommitTokenWaits, CommitAttemptWaits, CommitPendingUnsaid
  DEF WaitInv

LEMMA WaitStep ==
    ASSUME TypeOK, TasksInv, BookInv, WaitInv, [Next]_vars
    PROVE  WaitInv'
<1>1. EndInv /\ PlanInv /\ LeadInv
  BY DEF BookInv
<1>2. CASE CreateRun
  <2>1. PICK c : c = Emit(Plain("run.created"))
    OBVIOUS
  <2>2. /\ Len(todo') = 1 /\ todo'[1] = c /\ Waiting' = {c} /\ pc' = "register" /\ pc = "none"
        /\ UNCHANGED <<tasks, attempts, view>> /\ status' = "created"
    BY <1>2, <2>1 DEF CreateRun, Waiting
  <2>3. /\ c.op = "emit" /\ ~SaysPlan(c) /\ ~SaysReplan(c) /\ ~SaysToken(c)
        /\ ~SaysStart(c) /\ ~SaysTask(c) /\ ~SaysCompleted(c)
    BY <2>1 DEF Emit, Plain, Says, SaysPlan, SaysReplan, SaysToken, SaysStart, SaysTask,
       SaysCompleted
  <2>4. ~view.tokens
    BY <2>2 DEF WaitInv, TokenWaits, ClosedPoints
  <2> QED
    BY <2>2, <2>3, <2>4
    DEF WaitInv, PlanWaits, TokenWaits, TurnWaits, AttemptWaits, PendingUnsaid, Says,
        SaysPlan, SaysReplan, SaysToken, SaysStart, SaysTask, SaysCompleted
<1>3. CASE Planning \/ Executing \/ Judging \/ Answering
  BY <1>1, <1>3, EveryDecisionTurns, DecisionWaits
<1>4. CASE Committing
  BY <1>4, CommitWaits
<1>5. CASE CancelRun \/ Ended \/ UNCHANGED vars
  <2>1. UNCHANGED <<status, tasks, attempts, view, pc, todo, cur, attempt>>
    BY <1>5, AsideSteps
  <2> QED
    BY <2>1
    DEF WaitInv, PlanWaits, TokenWaits, TurnWaits, AttemptWaits, PendingUnsaid, Attempted,
        Says, SaysPlan, SaysReplan, SaysToken, SaysStart, SaysTask, SaysCompleted,
        SkippedBy, Waiting, RecordAttempt
<1> QED
  BY <1>2, <1>3, <1>4, <1>5, DecidingSteps

-----------------------------------------------------------------------------
(* The fold in the browser                                                 *)

(* The second reducer, field by field.                                     *)
PageReads(p, e, n, q) ==
    /\ IsDerived(q)
    /\ e.type = "run.started" => q.status = "planning"
    /\ e.type = "task.started" => q.status = "running"
    /\ e.type = "run.completed" => q.status = "done"
    /\ e.type = "run.cancelled" => q.status = "cancelled"
    /\ e.type = "run.failed" =>
          q.status = "failed" /\ q.error = e.error /\ (q.partial <=> p.answer # "none")
    /\ e.type \notin {"run.started", "task.started"} \cup ClosingTypes => q.status = p.status
    /\ e.type # "run.failed" => q.error = p.error /\ q.partial = p.partial
    /\ e.type = "answer.token" => q.answer = "tokens"
    /\ e.type = "answer.completed" => q.answer = e.text
    /\ e.type \notin {"answer.token", "answer.completed"} => q.answer = p.answer
    /\ e.type = "plan.created" => q.tasks = Listed(NoTasks, e)
    /\ e.type = "plan.replanned" =>
          /\ q.tasks = ApplyReplan(p.tasks, e)
          /\ \A i \in DOMAIN p.attempt : q.attempt[i] = p.attempt[i]
    /\ e.type \in TaskEventTypes =>
          /\ q.tasks = [j \in DOMAIN p.tasks |->
                           IF j = e.index THEN TaskEventStatus(e.type) ELSE p.tasks[j]]
          /\ \A i \in DOMAIN p.attempt : i # e.index => q.attempt[i] = p.attempt[i]
          /\ e.type = "task.completed" /\ e.index \in DOMAIN p.attempt =>
                q.attempt[e.index] = n
    /\ e.type \notin TaskEventTypes \cup PlanEventTypes =>
          q.tasks = p.tasks /\ q.attempt = p.attempt
    /\ e.type \in SilentEventTypes => q = p

LEMMA DerivedFields ==
    ASSUME NEW st, NEW l, NEW a, NEW an, NEW er, NEW pa \in BOOLEAN, NEW q,
           l = [i \in DOMAIN l |-> l[i]], DOMAIN a = DOMAIN l,
           q = [status |-> st, tasks |-> l, attempt |-> a,
                answer |-> an, error |-> er, partial |-> pa]
    PROVE  /\ IsDerived(q) /\ q.status = st /\ q.tasks = l /\ q.attempt = a
           /\ q.answer = an /\ q.error = er /\ q.partial = pa
BY DEF IsDerived

LEMMA TailDiffers ==
    ASSUME NEW S, NEW s \in Seq(S), s # <<>>
    PROVE  Tail(s) # s
<1>1. PICK t : t = Tail(s)
  OBVIOUS
<1>2. Len(t) = Len(s) - 1 /\ Len(s) \in Nat
  BY <1>1
<1>3. \A m \in Nat : m - 1 # m
  OBVIOUS
<1>4. t # s
  BY <1>2, <1>3
<1> QED
  BY <1>1, <1>4

LEMMA ReduceReads ==
    ASSUME NEW p, IsDerived(p), NEW e \in Event, NEW n
    PROVE  PageReads(p, e, n, ReduceEvent(p, e, n))
<1>0. PICK q : q = ReduceEvent(p, e, n)
  OBVIOUS
<1>d. p.partial \in BOOLEAN /\ DOMAIN p.attempt = DOMAIN p.tasks
  BY DEF IsDerived
<1>1. CASE e.type = "plan.created"
  <2>1. PICK l : l = Listed(NoTasks, e)
    OBVIOUS
  <2>2. l = [i \in DOMAIN l |-> l[i]]
    BY <2>1 DEF Listed
  <2>3. q = [status |-> p.status, tasks |-> l,
             attempt |-> [i \in DOMAIN l |->
                             IF i \in DOMAIN <<>> THEN <<>>[i] ELSE 0],
             answer |-> p.answer, error |-> p.error, partial |-> p.partial]
    BY <1>0, <1>1, <2>1 DEF ReduceEvent, WithTasks, IsDerived
  <2>4. /\ IsDerived(q) /\ q.status = p.status /\ q.tasks = l
        /\ q.answer = p.answer /\ q.error = p.error /\ q.partial = p.partial
    BY <1>d, <2>2, <2>3, DerivedFields
  <2> QED
    BY <1>0, <1>1, <2>1, <2>4
    DEF PageReads, ClosingTypes, PlanEventTypes, TaskEventTypes, SilentEventTypes
<1>2. CASE e.type = "plan.replanned"
  <2>1. PICK l : l = ApplyReplan(p.tasks, e)
    OBVIOUS
  <2>2. l = [i \in DOMAIN l |-> l[i]] /\ DOMAIN p.tasks \subseteq DOMAIN l
    BY <2>1 DEF ApplyReplan, Listed
  <2>3. q = [status |-> p.status, tasks |-> l,
             attempt |-> [i \in DOMAIN l |->
                             IF i \in DOMAIN p.attempt THEN p.attempt[i] ELSE 0],
             answer |-> p.answer, error |-> p.error, partial |-> p.partial]
    BY <1>0, <1>2, <2>1 DEF ReduceEvent, WithTasks, IsDerived
  <2>4. PICK a : a = [i \in DOMAIN l |->
                         IF i \in DOMAIN p.attempt THEN p.attempt[i] ELSE 0]
    OBVIOUS
  <2>5. /\ IsDerived(q) /\ q.status = p.status /\ q.tasks = l /\ q.attempt = a
        /\ q.answer = p.answer /\ q.error = p.error /\ q.partial = p.partial
    BY <1>d, <2>2, <2>3, <2>4, DerivedFields
  <2>6. \A i \in DOMAIN p.attempt : a[i] = p.attempt[i]
    BY <1>d, <2>2, <2>4
  <2> QED
    BY <1>0, <1>2, <2>1, <2>5, <2>6
    DEF PageReads, ClosingTypes, PlanEventTypes, TaskEventTypes, SilentEventTypes
<1>3. CASE e.type \in TaskEventTypes
  <2>1. PICK l : l = [j \in DOMAIN p.tasks |->
                         IF j = e.index THEN TaskEventStatus(e.type) ELSE p.tasks[j]]
    OBVIOUS
  <2>2. PICK a : a = [j \in DOMAIN p.attempt |-> IF j = e.index THEN n ELSE p.attempt[j]]
    OBVIOUS
  <2>3. l = [i \in DOMAIN l |-> l[i]] /\ DOMAIN l = DOMAIN p.tasks /\ DOMAIN a = DOMAIN p.tasks
    BY <2>1, <2>2 DEF IsDerived
  <2>4. CASE e.type \in {"task.failed", "task.skipped", "task.cancelled"}
    <3>1. q = [status |-> p.status, tasks |-> l, attempt |-> p.attempt,
               answer |-> p.answer, error |-> p.error, partial |-> p.partial]
      BY <1>0, <2>1, <2>4 DEF ReduceEvent, PatchTask, IsDerived
    <3>2. /\ IsDerived(q) /\ q.status = p.status /\ q.tasks = l /\ q.attempt = p.attempt
          /\ q.answer = p.answer /\ q.error = p.error /\ q.partial = p.partial
      BY <1>d, <2>3, <3>1, DerivedFields
    <3> QED
      BY <1>0, <1>3, <2>1, <2>2, <2>3, <2>4, <3>2
      DEF PageReads, ClosingTypes, PlanEventTypes, TaskEventTypes, SilentEventTypes
  <2>5. CASE e.type \in {"task.completed", "task.retrying"}
    <3>1. q = [status |-> p.status, tasks |-> l, attempt |-> a,
               answer |-> p.answer, error |-> p.error, partial |-> p.partial]
      BY <1>0, <2>1, <2>2, <2>5 DEF ReduceEvent, PatchTask, PatchAttempt, IsDerived
    <3>2. /\ IsDerived(q) /\ q.status = p.status /\ q.tasks = l /\ q.attempt = a
          /\ q.answer = p.answer /\ q.error = p.error /\ q.partial = p.partial
      BY <1>d, <2>3, <3>1, DerivedFields
    <3> QED
      BY <1>0, <1>3, <2>1, <2>2, <2>3, <2>5, <3>2
      DEF PageReads, ClosingTypes, PlanEventTypes, TaskEventTypes, SilentEventTypes
  <2>6. CASE e.type = "task.started"
    <3>1. TaskEventStatus(e.type) = "running"
      BY <2>6 DEF TaskEventStatus
    <3>2. q = [status |-> "running", tasks |-> l, attempt |-> a,
               answer |-> p.answer, error |-> p.error, partial |-> p.partial]
      BY <1>0, <2>1, <2>2, <2>6, <3>1 DEF ReduceEvent, PatchTask, PatchAttempt, IsDerived
    <3>3. /\ IsDerived(q) /\ q.status = "running" /\ q.tasks = l /\ q.attempt = a
          /\ q.answer = p.answer /\ q.error = p.error /\ q.partial = p.partial
      BY <1>d, <2>3, <3>2, DerivedFields
    <3> QED
      BY <1>0, <1>3, <2>1, <2>2, <2>3, <2>6, <3>3
      DEF PageReads, ClosingTypes, PlanEventTypes, TaskEventTypes, SilentEventTypes
  <2> QED
    BY <1>3, <2>4, <2>5, <2>6 DEF TaskEventTypes
<1>4. CASE e.type = "run.failed" \/ e.type = "answer.completed"
  <2>1. q = IF e.type = "run.failed"
            THEN [p EXCEPT !.status = "failed", !.error = e.error,
                           !.partial = p.answer # "none"]
            ELSE [p EXCEPT !.answer = e.text]
    BY <1>0, <1>4 DEF ReduceEvent
  <2>2. CASE e.type = "run.failed"
    <3>1. q = [status |-> "failed", tasks |-> p.tasks, attempt |-> p.attempt,
               answer |-> p.answer, error |-> e.error, partial |-> p.answer # "none"]
      BY <2>1, <2>2 DEF IsDerived
    <3>2. PICK b \in BOOLEAN : b = (p.answer # "none")
      OBVIOUS
    <3>3. /\ IsDerived(q) /\ q.status = "failed" /\ q.tasks = p.tasks
          /\ q.attempt = p.attempt /\ q.answer = p.answer /\ q.error = e.error
          /\ q.partial = b
      BY <3>1, <3>2, DerivedFields DEF IsDerived
    <3> QED
      BY <1>0, <2>2, <3>2, <3>3
      DEF PageReads, ClosingTypes, PlanEventTypes, TaskEventTypes, SilentEventTypes
  <2>3. CASE e.type = "answer.completed"
    <3>1. q = [status |-> p.status, tasks |-> p.tasks, attempt |-> p.attempt,
               answer |-> e.text, error |-> p.error, partial |-> p.partial]
      BY <2>1, <2>3 DEF IsDerived
    <3>2. /\ IsDerived(q) /\ q.status = p.status /\ q.tasks = p.tasks
          /\ q.attempt = p.attempt /\ q.answer = e.text /\ q.error = p.error
          /\ q.partial = p.partial
      BY <3>1, DerivedFields DEF IsDerived
    <3> QED
      BY <1>0, <2>3, <3>2
      DEF PageReads, ClosingTypes, PlanEventTypes, TaskEventTypes, SilentEventTypes
  <2> QED
    BY <1>4, <2>2, <2>3
<1>5. CASE e.type \in PlainEventTypes
  BY <1>5
  DEF ReduceEvent, IsDerived, PlainEventTypes, SilentEventTypes, PageReads, ClosingTypes,
      PlanEventTypes, TaskEventTypes
<1> QED
  BY <1>0, <1>1, <1>2, <1>3, <1>4, <1>5 DEF Event

(* The event a commit appends is the one the page folds.                   *)
LEMMA CommitShows ==
    ASSUME TypeOK, LeadInv, IsDerived(page), PageNext, Committing,
           Head(todo).op \in {"emit", "emitSkipped"}
    PROVE  \E e : /\ Honest(e) /\ Reads(view, e, view') /\ PageReads(page, e, attempt, page')
                  /\ UNCHANGED <<status, answer, error, tasks>>
                  /\ Head(todo).op = "emit" => e = Head(todo).event
                  /\ Head(todo).op = "emitSkipped" =>
                        e.type = "task.skipped" /\ e.index \in Head(todo).tasks
<1> DEFINE c == Head(todo)
<1>1. /\ c = todo[1] /\ c \in Commit /\ Len(todo) \in Nat /\ 1 \in 1 .. Len(todo)
      /\ LeavesBehind(c) /\ todo \in Seq(Commit) /\ todo # <<>>
  BY CommitEffect, Behind
<1>2. page' = IF todo' # todo THEN ReduceEvent(page, EventDue, attempt) ELSE page
  BY <1>1 DEF PageNext, Appending, Pending
<1>3. CASE c.op = "emit"
  <2>1. PICK e : /\ Honest(e) /\ Reads(view, e, view')
                 /\ UNCHANGED <<status, answer, error, tasks>> /\ e = c.event
    BY <1>3, CommitAppends
  <2>2. todo' = Tail(todo) /\ EventDue = e
    BY <1>1, <1>3, <2>1 DEF LeavesBehind, EventDue
  <2>3. todo' # todo
    BY <1>1, <2>2, TailDiffers
  <2>4. PageReads(page, e, attempt, page')
    BY <1>2, <2>1, <2>2, <2>3, ReduceReads DEF Honest
  <2> QED
    BY <1>3, <2>1, <2>4
<1>4. CASE c.op = "emitSkipped"
  <2>1. /\ \A i \in c.tasks : i \in DOMAIN tasks /\ tasks[i] = "skipped" /\ i \in Nat
        /\ UNCHANGED <<status, answer, error, tasks>>
    <3>1. CommitEmitSkipped
      BY <1>4 DEF Committing, CommitStatus, CommitFailed, CommitDone, CommitPartialAnswer,
         CommitMark, CommitSkip, CommitDrop, CommitAdd, CommitAttempt, CommitReflection,
         CommitEmit, Pending
    <3>2. Telling(c) /\ True(c)
      BY <1>1, <1>4 DEF Telling, LeadInv, Owing
    <3> QED
      BY <1>4, <3>1, <3>2 DEF True, CommitEmitSkipped, rows, TypeOK, RowsOK, IsChecklist
  <2>2. PICK i \in c.tasks :
            /\ \A j \in c.tasks : i <= j
            /\ view' = FoldStep(view, TaskEvent("task.skipped", i))
            /\ todo' = IF c.tasks = {i} THEN Tail(todo)
                       ELSE <<EmitSkipped(c.tasks \ {i})>> \o Tail(todo)
    <3>1. CommitEmitSkipped
      BY <1>4 DEF Committing, CommitStatus, CommitFailed, CommitDone, CommitPartialAnswer,
         CommitMark, CommitSkip, CommitDrop, CommitAdd, CommitAttempt, CommitReflection,
         CommitEmit, Pending
    <3> QED
      BY <3>1 DEF CommitEmitSkipped
  <2>3. \A k \in c.tasks : (\A j \in c.tasks : k <= j) => k = i
    BY <2>1, <2>2
  <2>4. EventDue = TaskEvent("task.skipped", i)
    <3>1. (CHOOSE k \in c.tasks : \A j \in c.tasks : k <= j) = i
      BY <2>2, <2>3
    <3> QED
      BY <1>4, <3>1 DEF EventDue
  <2>5. todo' # todo
    <3>1. CASE todo' = Tail(todo)
      BY <1>1, <3>1, TailDiffers
    <3>2. CASE todo' = <<EmitSkipped(c.tasks \ {i})>> \o Tail(todo)
      <4>1. PICK x : x = EmitSkipped(c.tasks \ {i})
        OBVIOUS
      <4>2. todo'[1] = x
        BY <1>1, <3>2, <4>1
      <4>3. x.tasks # c.tasks
        BY <4>1 DEF EmitSkipped
      <4> QED
        BY <1>1, <4>2, <4>3
    <3> QED
      BY <2>2, <3>1, <3>2
  <2>6. PICK e : e = TaskEvent("task.skipped", i)
    OBVIOUS
  <2>7. e \in Event /\ e.type = "task.skipped" /\ e.index = i
    BY <2>1, <2>6, EventTypes DEF TaskEvent, TaskEventTypes
  <2>8. Honest(e)
    BY <2>1, <2>7 DEF Honest, PlanEventTypes, TaskEventStatus
  <2>9. Reads(view, e, view')
    BY <2>2, <2>6, <2>7, FoldReads DEF TypeOK
  <2>10. PageReads(page, e, attempt, page')
    BY <1>2, <2>4, <2>5, <2>6, <2>7, ReduceReads
  <2> QED
    BY <1>4, <2>1, <2>7, <2>8, <2>9, <2>10
<1> QED
  BY <1>3, <1>4

(* Whatever else happens leaves the page.                                  *)
LEMMA OtherwiseStays ==
    ASSUME PageNext,
           \/ todo = <<>> \/ todo' = todo
           \/ Head(todo).op \notin {"emit", "emitSkipped"}
    PROVE  page' = page
BY DEF PageNext, Appending, Pending

-----------------------------------------------------------------------------
(* The page, step by step                                                  *)

LEMMA DecisionPages ==
    ASSUME PageInv, NEW from, NEW to, NEW s, Decision(from, to, s), PageFits(from, to, s),
           page' = page
    PROVE  PageInv'
<1>1. /\ pc = from /\ pc' = to /\ Waiting = {}
      /\ UNCHANGED <<answer, tasks, attempts, view>>
      /\ Waiting' = {s[k] : k \in 1 .. Len(s)}
  BY DEF Decision, Decide, durable, Waiting
<1>2. WayFits(from, to, s) /\ TurnComes(to, s) /\ TurnShown
  BY DEF Decision, PageFits, PageInv
<1>3. to = "planning" => \E c \in Waiting' : SaysStart(c)
  BY <1>1, <1>2 DEF TurnComes
<1>4. to \notin {"none", "register"} /\ (to = "start" => page.status = "created")
  BY <1>1, <1>2 DEF WayFits, TurnShown
<1>5. to \in Drafting => page.status = "planning"
  BY <1>1, <1>2 DEF WayFits, TurnShown, Drafting
<1>6. to \in {"task"} \cup Working => page.status \in {"planning", "running"}
  BY <1>1, <1>2 DEF WayFits, TurnShown, Drafting, Working
<1>7. TurnShown'
  BY <1>1, <1>3, <1>4, <1>5, <1>6 DEF TurnShown, SaysStart, Says
<1> QED
  BY <1>1, <1>7 DEF PageInv, IsDerived, FoldsAgree, FoldAnswer, AttemptsShown, PartialShown

(* A commit that appends nothing leaves what the page shows true.          *)
LEMMA RowCommitPages ==
    ASSUME TypeOK, TasksInv, LeadInv, PageInv, Committing,
           Head(todo).op \notin {"emit", "emitSkipped"}, page' = page
    PROVE  PageInv'
<1> DEFINE c == Head(todo)
<1>1. /\ Effect(c) /\ c \in Waiting /\ pc' = pc
  BY CommitEffect, Behind
<1>2. view' = view /\ ~view.terminal
  BY <1>1 DEF Effect, LeadInv, Silent, Says
<1>3. \A x \in Waiting : x = c \/ x \in Waiting'
  <2>1. Performs(c)
    BY DEF Committing, CommitStatus, CommitFailed, CommitDone, CommitPartialAnswer,
       CommitMark, CommitSkip, CommitDrop, CommitAdd, CommitAttempt, CommitReflection,
       CommitEmit, CommitEmitSkipped, Pending, Performed, local, plan, Performs
  <2> QED
    BY <2>1, AfterCommit DEF TasksInv
<1>4. FinalKept
  BY CommittingTasks
<1> HIDE DEF c
<1>5. TurnShown'
  <2>1. ~SaysStart(c)
    BY DEF SaysStart, Says, c
  <2> QED
    BY <1>1, <1>3, <2>1 DEF PageInv, TurnShown, SaysStart, Says
<1>6. AttemptsShown'
  BY <1>2, <1>4
  DEF LeadInv, RowsLeadLedger, PageInv, AttemptsShown, FinalKept, Final, TerminalTaskStatuses
<1>7. PartialShown'
  BY <1>2 DEF PageInv, PartialShown
<1> QED
  BY <1>2, <1>5, <1>6, <1>7 DEF PageInv, IsDerived, FoldsAgree, FoldAnswer

(* An event that is appended, as the next lemmas meet it.                  *)
Appends(c, e) ==
    /\ c = todo[1] /\ c \in Waiting /\ 1 \in 1 .. Len(todo) /\ Len(todo) \in Nat
    /\ c.op \in {"emit", "emitSkipped"}
    /\ c.op = "emit" => e = c.event
    /\ c.op = "emitSkipped" => e.type = "task.skipped" /\ e.index \in c.tasks
    /\ Honest(e) /\ Reads(view, e, view') /\ PageReads(page, e, attempt, page')
    /\ UNCHANGED <<pc, status, answer, error, tasks>>
    /\ \A i \in DOMAIN tasks : attempts'[i] = attempts[i]
    /\ \A x \in Waiting : x = c \/ x \in Waiting'

LEMMA EveryAppend ==
    ASSUME TypeOK, TasksInv, PlanInv, LeadInv, IsDerived(page), PageNext, Committing,
           Head(todo).op \in {"emit", "emitSkipped"}
    PROVE  \E e : Appends(Head(todo), e)
<1> DEFINE c == Head(todo)
<1>1. /\ c = todo[1] /\ c \in Waiting /\ pc' = pc
      /\ Len(todo) \in Nat /\ 1 \in 1 .. Len(todo)
  BY CommitEffect, Behind
<1>2. PICK e : /\ Honest(e) /\ Reads(view, e, view') /\ PageReads(page, e, attempt, page')
               /\ UNCHANGED <<status, answer, error, tasks>>
               /\ c.op = "emit" => e = c.event
               /\ c.op = "emitSkipped" => e.type = "task.skipped" /\ e.index \in c.tasks
  BY CommitShows
<1>3. \A x \in Waiting : x = c \/ x \in Waiting'
  <2>1. Performs(c)
    BY DEF Committing, CommitStatus, CommitFailed, CommitDone, CommitPartialAnswer,
       CommitMark, CommitSkip, CommitDrop, CommitAdd, CommitAttempt, CommitReflection,
       CommitEmit, CommitEmitSkipped, Pending, Performed, local, plan, Performs
  <2> QED
    BY <2>1, AfterCommit DEF TasksInv
<1>4. \A i \in DOMAIN tasks : attempts'[i] = attempts[i]
  BY CommitCounts
<1> HIDE DEF c
<1>5. Appends(c, e)
  BY <1>1, <1>2, <1>3, <1>4 DEF Appends, c
<1> QED
  BY <1>5 DEF c

(* What it can be, by where it comes.                                      *)
LEMMA AppendComes ==
    ASSUME EndInv, LeadInv, ToldInv, WaitInv, NEW c, NEW e, Appends(c, e)
    PROVE  /\ e.type = "plan.created" => DOMAIN view.tasks = {}
           /\ e.type = "plan.replanned" =>
                 \A i \in e.dropped :
                     i \notin Span(e) /\ (i \in DOMAIN view.tasks => view.tasks[i] = "skipped")
           /\ e.type = "answer.token" => pc = "stream" /\ view.answer = "none"
           /\ e.type = "answer.completed" => e.text # "none"
           /\ e.type = "run.started" => pc = "planning"
           /\ e.type = "task.started" => pc = "execute"
           /\ e.type = "task.completed" => attempts[e.index] = attempt
           /\ e.type \in ClosingTypes =>
                 pc \in ClosedPoints /\ status \in TerminalRunStatuses
           /\ e.type \in TaskEventTypes => e.index \in DOMAIN view.tasks
           /\ view.terminal => e.type \in SilentEventTypes
<1>1. /\ c = todo[1] /\ c \in Waiting /\ 1 \in 1 .. Len(todo) /\ Len(todo) \in Nat
      /\ Honest(e) /\ c.op \in {"emit", "emitSkipped"} /\ (c.op = "emit" => e = c.event)
      /\ c.op = "emitSkipped" => e.type = "task.skipped" /\ e.index \in c.tasks
  BY DEF Appends
<1>2. PlanWaits /\ TokenWaits /\ TurnWaits /\ AttemptWaits
  BY DEF WaitInv
<1>3. ASSUME e.type # "task.skipped" PROVE c.op = "emit" /\ e = c.event
  BY <1>1, <1>3
<1>4. e.type = "plan.created" => DOMAIN view.tasks = {}
  BY <1>1, <1>2, <1>3 DEF PlanWaits, SaysPlan, Says
<1>5. ASSUME e.type = "plan.replanned", NEW i \in e.dropped
      PROVE  i \notin Span(e) /\ (i \in DOMAIN view.tasks => view.tasks[i] = "skipped")
  <2>1. SaysReplan(c)
    BY <1>3, <1>5 DEF SaysReplan, Says
  <2>2. ~SkippedBy(todo, 1, i)
    BY <1>1 DEF SkippedBy
  <2>3. i \in DOMAIN tasks /\ tasks[i] = "skipped"
    BY <1>1, <1>2, <1>3, <1>5, <2>1, <2>2 DEF PlanWaits
  <2>4. i \notin Span(e)
    BY <1>1, <1>5, <2>3 DEF Honest, PlanEventTypes
  <2>5. ~OwedPlan(i) /\ ~Owed(i)
    BY <1>1, <1>3, <1>5, <2>4
    DEF OwedPlan, Owed, HeadSays, Says, PlanEventTypes, TaskEventTypes
  <2>6. Same(i)
    BY <2>3, <2>5 DEF ToldInv, Told
  <2> QED
    BY <2>3, <2>4, <2>6 DEF Same
<1>6. e.type = "answer.token" => pc = "stream" /\ view.answer = "none"
  <2> SUFFICES ASSUME e.type = "answer.token" PROVE pc = "stream" /\ view.answer = "none"
    OBVIOUS
  <2>1. pc = "stream" /\ "stream" \notin ClosedPoints
    BY <1>1, <1>2, <1>3 DEF TokenWaits, SaysToken, Says, ClosedPoints
  <2>2. answer = "none"
    BY <2>1 DEF EndInv
  <2> QED
    BY <2>1, <2>2 DEF LeadInv, RowsLeadLedger
<1>7. e.type = "answer.completed" => e.text # "none"
  <2> SUFFICES ASSUME e.type = "answer.completed" PROVE e.text # "none"
    OBVIOUS
  <2>1. Says(c, {"answer.completed"})
    BY <1>3 DEF Says
  <2>2. Telling(c)
    BY <1>3 DEF Telling, Says, TellingTypes
  <2>3. True(c)
    BY <1>1, <2>2 DEF LeadInv, Owing
  <2> QED
    BY <1>3, <2>1, <2>3 DEF True
<1>8. /\ e.type = "run.started" => pc = "planning"
      /\ e.type = "task.started" => pc = "execute"
  BY <1>1, <1>2, <1>3 DEF TurnWaits, SaysStart, SaysTask, Says
<1>9. e.type = "task.completed" => attempts[e.index] = attempt
  BY <1>1, <1>2, <1>3 DEF AttemptWaits, SaysCompleted, Says, Attempted
<1>10. e.type \in ClosingTypes => pc \in ClosedPoints /\ status \in TerminalRunStatuses
  BY <1>1 DEF Honest, ClosingTypes, TerminalRunStatuses, EndInv
<1>11. e.type \in TaskEventTypes => e.index \in DOMAIN view.tasks
  <2> SUFFICES ASSUME e.type \in TaskEventTypes PROVE e.index \in DOMAIN view.tasks
    OBVIOUS
  <2>1. e.index \in DOMAIN tasks /\ e.type \notin PlanEventTypes
    BY <1>1 DEF Honest, TaskEventTypes, PlanEventTypes
  <2>2. ~OwedPlan(e.index)
    BY <1>1, <2>1 DEF OwedPlan, HeadSays, Says
  <2> QED
    BY <2>1, <2>2 DEF ToldInv, Told, Same
<1>12. view.terminal => e.type \in SilentEventTypes
  BY <1>1 DEF LeadInv, Silent, Says, SilentEventTypes
<1> QED
  BY <1>4, <1>5, <1>6, <1>7, <1>8, <1>9, <1>10, <1>11, <1>12

(* The two reducers make the same of it.                                   *)
LEMMA AppendAgrees ==
    ASSUME TypeOK, EndInv, LeadInv, ToldInv, WaitInv, PageInv, NEW c, NEW e, Appends(c, e)
    PROVE  FoldsAgree'
<1>1. Honest(e) /\ Reads(view, e, view') /\ PageReads(page, e, attempt, page')
  BY DEF Appends
<1>2. FoldsAgree /\ PendingUnsaid
  BY DEF PageInv, WaitInv
<1>3. view.tasks = [i \in DOMAIN view.tasks |-> view.tasks[i]] /\ view.terminal \in BOOLEAN
      /\ view.tokens \in BOOLEAN /\ DOMAIN view.tasks \subseteq DOMAIN tasks
  BY DEF TypeOK, IsReplayState, IsChecklist, LeadInv, RowsLeadLedger
<1>4. page'.tasks = view'.tasks
  <2>1. CASE e.type = "plan.created"
    <3>1. DOMAIN view.tasks = {}
      BY <2>1, AppendComes
    <3>2. view'.tasks = WithPlan(view.tasks, e.start, e.count)
          /\ page'.tasks = Listed(NoTasks, e)
      BY <1>1, <2>1 DEF Reads, PageReads, PlanEventTypes
    <3> QED
      BY <3>1, <3>2 DEF WithPlan, Listed, NoTasks
  <2>2. CASE e.type = "plan.replanned"
    <3>1. /\ view'.tasks = WithPlan(view.tasks, e.start, e.count)
          /\ page'.tasks = ApplyReplan(view.tasks, e)
      BY <1>1, <1>2, <2>2 DEF Reads, PageReads, PlanEventTypes, FoldsAgree
    <3>2. \A i \in e.dropped :
              i \notin Span(e) /\ (i \in DOMAIN view.tasks => view.tasks[i] = "skipped")
      BY <2>2, AppendComes
    <3>3. \A i \in DOMAIN view.tasks : i \in Span(e) => view.tasks[i] = "pending"
      BY <1>1, <1>2, <1>3, <2>2 DEF Honest, PlanEventTypes, PendingUnsaid
    <3> QED
      BY <3>1, <3>2, <3>3 DEF WithPlan, ApplyReplan, Listed, Span
  <2>3. CASE e.type \in TaskEventTypes
    <3>1. e.index \in DOMAIN view.tasks
      BY <2>3, AppendComes
    <3>2. /\ view'.tasks = WithTask(view.tasks, e.index, TaskEventStatus(e.type))
          /\ page'.tasks = [j \in DOMAIN view.tasks |->
                              IF j = e.index THEN TaskEventStatus(e.type) ELSE view.tasks[j]]
      BY <1>1, <1>2, <2>3 DEF Reads, PageReads, FoldsAgree
    <3>3. DOMAIN view.tasks \cup {e.index} = DOMAIN view.tasks
      BY <3>1
    <3> QED
      BY <3>2, <3>3 DEF WithTask
  <2>4. CASE e.type \notin TaskEventTypes \cup PlanEventTypes
    BY <1>1, <1>2, <2>4 DEF Reads, PageReads, FoldsAgree
  <2> QED
    BY <2>1, <2>2, <2>3, <2>4 DEF PlanEventTypes
<1>5. page'.answer = FoldAnswer(view')
  <2>1. e.type = "answer.token" => view.answer = "none"
    BY AppendComes
  <2>2. e.type = "answer.completed" => e.text # "none"
    BY AppendComes
  <2> QED
    BY <1>1, <1>2, <1>3, <2>1, <2>2 DEF Reads, PageReads, FoldsAgree, FoldAnswer
<1>6. page'.error = view'.error
  BY <1>1, <1>2 DEF Reads, PageReads, FoldsAgree
<1>7. /\ view'.terminal => page'.status = view'.status
      /\ ~view'.terminal => page'.status \notin TerminalRunStatuses
  <2>1. CASE view.terminal
    <3>1. e.type \in SilentEventTypes
      BY <2>1, AppendComes
    <3> QED
      BY <1>1, <1>2, <2>1, <3>1 DEF Reads, PageReads, FoldsAgree
  <2>2. CASE ~view.terminal
    BY <1>1, <1>2, <2>2 DEF Reads, PageReads, FoldsAgree, ClosingTypes, TerminalRunStatuses
  <2> QED
    BY <2>1, <2>2
<1>8. FoldAnswer(view)' = FoldAnswer(view')
  BY DEF FoldAnswer
<1> QED
  BY <1>4, <1>5, <1>6, <1>7, <1>8 DEF FoldsAgree

LEMMA AppendTurns ==
    ASSUME EndInv, LeadInv, ToldInv, WaitInv, PageInv, NEW c, NEW e, Appends(c, e)
    PROVE  TurnShown'
<1>1. /\ PageReads(page, e, attempt, page') /\ pc' = pc
      /\ \A x \in Waiting : x = c \/ x \in Waiting'
      /\ c.op = "emit" => e = c.event
  BY DEF Appends
<1>2. TurnShown
  BY DEF PageInv
<1>3. /\ e.type = "run.started" => pc = "planning"
      /\ e.type = "task.started" => pc = "execute"
      /\ e.type \in ClosingTypes => pc \in ClosedPoints
  BY AppendComes
<1>4. CASE pc \in ClosedPoints
  BY <1>1, <1>4 DEF TurnShown, ClosedPoints, Drafting, Working, InFlight, Over
<1>5. CASE pc = "planning"
  <2>1. e.type = "run.started" => page'.status = "planning"
    BY <1>1 DEF PageReads
  <2>2. e.type # "run.started" => page'.status = page.status /\ ~SaysStart(c)
    BY <1>1, <1>3, <1>5 DEF PageReads, SaysStart, Says, ClosedPoints
  <2> QED
    BY <1>1, <1>2, <1>5, <2>1, <2>2
    DEF TurnShown, Drafting, Working, InFlight, Over, SaysStart, Says
<1>6. CASE pc \notin ClosedPoints \cup {"planning"}
  <2>1. \/ page'.status = page.status
        \/ pc = "execute" /\ page'.status = "running"
    BY <1>1, <1>3, <1>6 DEF PageReads
  <2> QED
    BY <1>1, <1>2, <1>6, <2>1 DEF TurnShown, Drafting, Working, InFlight, Over
<1> QED
  BY <1>4, <1>5, <1>6

LEMMA AppendAttempts ==
    ASSUME EndInv, LeadInv, ToldInv, WaitInv, PageInv, NEW c, NEW e, Appends(c, e)
    PROVE  AttemptsShown'
<1>1. /\ Reads(view, e, view') /\ PageReads(page, e, attempt, page') /\ tasks' = tasks
      /\ \A i \in DOMAIN tasks : attempts'[i] = attempts[i]
  BY DEF Appends
<1>2. /\ AttemptsShown /\ DOMAIN page.attempt = DOMAIN view.tasks
      /\ DOMAIN view.tasks \subseteq DOMAIN tasks
  BY DEF PageInv, IsDerived, FoldsAgree, LeadInv, RowsLeadLedger
<1>3. SUFFICES ASSUME NEW i \in DOMAIN view'.tasks, view'.tasks[i] = "done"
               PROVE  i \in DOMAIN tasks /\ page'.attempt[i] = attempts[i]
  BY <1>1 DEF AttemptsShown
<1>4. CASE e.type \in PlanEventTypes
  <2>1. view'.tasks = WithPlan(view.tasks, e.start, e.count)
    BY <1>1, <1>4 DEF Reads
  <2>2. i \in DOMAIN view.tasks /\ view.tasks[i] = "done"
    BY <1>3, <2>1 DEF WithPlan
  <2>3. e.type = "plan.replanned"
    BY <1>4, <2>2, AppendComes DEF PlanEventTypes
  <2> QED
    BY <1>1, <1>2, <2>2, <2>3 DEF PageReads, AttemptsShown
<1>5. CASE e.type \in TaskEventTypes
  <2>1. view'.tasks = WithTask(view.tasks, e.index, TaskEventStatus(e.type))
        /\ e.index \in DOMAIN view.tasks
    BY <1>1, <1>5, AppendComes DEF Reads
  <2>2. CASE i = e.index
    <3>1. TaskEventStatus(e.type) = "done"
      BY <1>3, <2>1, <2>2 DEF WithTask
    <3>2. e.type = "task.completed"
      BY <1>5, <3>1 DEF TaskEventTypes, TaskEventStatus
    <3>3. attempts[i] = attempt
      BY <2>2, <3>2, AppendComes
    <3>4. page'.attempt[i] = attempt
      BY <1>1, <1>2, <1>5, <2>1, <2>2, <3>2 DEF PageReads
    <3> QED
      BY <1>2, <2>1, <2>2, <3>3, <3>4
  <2>3. CASE i # e.index
    <3>1. i \in DOMAIN view.tasks /\ view.tasks[i] = "done"
      BY <1>3, <2>1, <2>3 DEF WithTask
    <3> QED
      BY <1>1, <1>2, <1>5, <2>3, <3>1 DEF PageReads, AttemptsShown
  <2> QED
    BY <2>2, <2>3
<1>6. CASE e.type \notin TaskEventTypes \cup PlanEventTypes
  BY <1>1, <1>2, <1>3, <1>6 DEF Reads, PageReads, AttemptsShown
<1> QED
  BY <1>4, <1>5, <1>6

LEMMA AppendPartial ==
    ASSUME TypeOK, EndInv, LeadInv, ToldInv, WaitInv, AnswerMatchesOutcome, PageInv,
           NEW c, NEW e, Appends(c, e)
    PROVE  PartialShown'
<1>1. /\ Honest(e) /\ Reads(view, e, view') /\ PageReads(page, e, attempt, page')
      /\ answer' = answer
  BY DEF Appends
<1>2. /\ PartialShown /\ page.answer = FoldAnswer(view) /\ view.terminal \in BOOLEAN
      /\ view.answer # "none" => answer = view.answer
      /\ answer \in {"none", "full", "partial"}
  BY DEF PageInv, FoldsAgree, TypeOK, RowsOK, Answers, IsReplayState, LeadInv, RowsLeadLedger
<1>3. CASE view.terminal
  <2>1. e.type \in SilentEventTypes
    BY <1>3, AppendComes
  <2> QED
    BY <1>1, <1>2, <1>3, <2>1 DEF Reads, PageReads, PartialShown
<1>4. CASE ~view.terminal /\ e.type = "run.failed"
  <2>1. status = "failed" /\ ~view.tokens
    BY <1>1, <1>4 DEF Honest, WaitInv, TokenWaits
  <2>2. answer # "full"
    BY <2>1 DEF AnswerMatchesOutcome
  <2>3. ~HeadSays({"answer.completed"})
    BY <1>4 DEF Appends, HeadSays, Says
  <2>4. answer # "none" => view.answer = answer
    BY <2>3 DEF ToldInv
  <2>5. page'.partial <=> view.answer # "none"
    BY <1>1, <1>2, <1>4, <2>1 DEF PageReads, FoldAnswer
  <2>6. view'.terminal
    BY <1>1, <1>4 DEF Reads, ClosingTypes
  <2> QED
    BY <1>1, <1>2, <2>2, <2>4, <2>5, <2>6 DEF PartialShown
<1>5. CASE ~view.terminal /\ e.type \in ClosingTypes /\ e.type # "run.failed"
  <2>1. status \in {"done", "cancelled"}
    BY <1>1, <1>5 DEF Honest, ClosingTypes
  <2>2. answer # "partial"
    BY <2>1 DEF AnswerMatchesOutcome, TerminalRunStatuses
  <2>3. page'.partial = page.partial /\ view'.terminal
    BY <1>1, <1>5 DEF Reads, PageReads
  <2> QED
    BY <1>1, <1>2, <1>5, <2>2, <2>3 DEF PartialShown
<1>6. CASE ~view.terminal /\ e.type \notin ClosingTypes
  BY <1>1, <1>2, <1>6 DEF Reads, PageReads, PartialShown, ClosingTypes
<1> QED
  BY <1>3, <1>4, <1>5, <1>6

LEMMA PageStep ==
    ASSUME TypeOK, TasksInv, BookInv, ToldInv, StatusInv, AnswerMatchesOutcome, WaitInv,
           PageInv, [PageNext]_pageVars
    PROVE  PageInv'
<1>1. EndInv /\ PlanInv /\ LeadInv /\ IsDerived(page)
  BY DEF BookInv, PageInv
<1>2. CASE PageNext
  <2>1. [Next]_vars
    BY <1>2 DEF PageNext
  <2>2. CASE CreateRun
    <3>1. /\ pc = "none" /\ pc' = "register" /\ UNCHANGED <<answer, tasks, attempts, view>>
      BY <2>2 DEF CreateRun
    <3>2. todo = <<>>
      BY <3>1 DEF StatusInv, TypeOK, ControlOK
    <3>3. page' = page
      BY <1>2, <3>2, OtherwiseStays
    <3> QED
      BY <3>1, <3>3
      DEF PageInv, IsDerived, FoldsAgree, FoldAnswer, AttemptsShown, PartialShown, TurnShown,
          Drafting, Working, InFlight, Over
  <2>3. CASE Planning \/ Executing \/ Judging \/ Answering
    <3>1. PICK from, to, s : Decision(from, to, s) /\ PageFits(from, to, s)
      BY <1>1, <2>3, EveryDecisionTurns
    <3>2. page' = page
      BY <1>2, <3>1, OtherwiseStays DEF Decision, Decide
    <3> QED
      BY <3>1, <3>2, DecisionPages
  <2>4. CASE Committing /\ Head(todo).op \notin {"emit", "emitSkipped"}
    BY <1>1, <1>2, <2>4, OtherwiseStays, RowCommitPages
  <2>5. CASE Committing /\ Head(todo).op \in {"emit", "emitSkipped"}
    <3>1. PICK e : Appends(Head(todo), e)
      BY <1>1, <1>2, <2>5, EveryAppend
    <3>2. FoldsAgree' /\ TurnShown' /\ AttemptsShown' /\ PartialShown'
      BY <1>1, <3>1, AppendAgrees, AppendTurns, AppendAttempts, AppendPartial
    <3>3. IsDerived(page')
      BY <3>1 DEF Appends, PageReads
    <3>4. IsDerived(page)'
      BY <3>3 DEF IsDerived
    <3> QED
      BY <3>2, <3>4 DEF PageInv
  <2>6. CASE CancelRun \/ Ended \/ UNCHANGED vars
    <3>1. UNCHANGED <<answer, tasks, attempts, view, pc, todo>>
      BY <2>6, AsideSteps
    <3>2. page' = page
      BY <1>2, <3>1, OtherwiseStays
    <3> QED
      BY <3>1, <3>2
      DEF PageInv, IsDerived, FoldsAgree, FoldAnswer, AttemptsShown, PartialShown, TurnShown,
          Waiting, SaysStart, Says
  <2> QED
    BY <2>1, <2>2, <2>3, <2>4, <2>5, <2>6, DecidingSteps
<1>3. CASE UNCHANGED pageVars
  <2>1. UNCHANGED <<answer, tasks, attempts, view, pc, todo>> /\ page' = page
    BY <1>3, AsideSteps DEF pageVars
  <2> QED
    BY <2>1
    DEF PageInv, IsDerived, FoldsAgree, FoldAnswer, AttemptsShown, PartialShown, TurnShown,
        Waiting, SaysStart, Says
<1> QED
  BY <1>2, <1>3

LEMMA InitPage == ASSUME PageInit PROVE WaitInv /\ PageInv
<1>1. /\ pc = "none" /\ todo = <<>> /\ DOMAIN tasks = {} /\ answer = "none"
      /\ view = ReplayState0 /\ page = InitialDerived
  BY DEF PageInit, Init, NoTasks
<1>2. Waiting = {} /\ Len(todo) = 0
  BY <1>1 DEF Waiting
<1>3. /\ view.tasks = NoTasks /\ DOMAIN view.tasks = {} /\ ~view.terminal /\ ~view.tokens
      /\ view.answer = "none" /\ view.error = "none"
  BY <1>1 DEF ReplayState0, NoTasks
<1>4. WaitInv
  BY <1>1, <1>2, <1>3
  DEF WaitInv, PlanWaits, TokenWaits, TurnWaits, AttemptWaits, PendingUnsaid
<1>5. /\ IsDerived(page) /\ page.status = "created" /\ page.tasks = NoTasks
      /\ page.answer = "none" /\ page.error = "none" /\ page.partial = FALSE
  BY <1>1 DEF InitialDerived, IsDerived, NoTasks
<1>6. PageInv
  BY <1>1, <1>2, <1>3, <1>5
  DEF PageInv, FoldsAgree, FoldAnswer, AttemptsShown, PartialShown, TurnShown, Drafting,
      Working, InFlight, Over, TerminalRunStatuses
<1> QED
  BY <1>4, <1>6

(* The run beside the page is the run of RunManager.                       *)
LEMMA PageRuns == PageFairSpec => Spec
<1>1. PageInit => Init
  BY DEF PageInit
<1>2. [PageNext]_pageVars => [Next]_vars
  BY DEF PageNext, pageVars
<1> QED
  BY <1>1, <1>2, PTL DEF PageFairSpec, Spec

(* In every reachable state an event waits only where the page can take    *)
(* it, and the page shows what the events so far say.                      *)
THEOREM PageInvariant == PageFairSpec => [](WaitInv /\ PageInv)
<1>1. PageInit => WaitInv /\ PageInv
  BY InitPage
<1>2. [PageNext]_pageVars => [Next]_vars
  BY DEF PageNext, pageVars
<1>3. TypeOK /\ TasksInv /\ BookInv /\ FlightInv /\ ToldInv /\ StatusInv
      /\ AnswerMatchesOutcome /\ WaitInv /\ PageInv /\ [PageNext]_pageVars
      => WaitInv' /\ PageInv'
  BY <1>2, WaitStep, PageStep
<1> QED
  BY <1>1, <1>3, PageRuns, TypeInvariant, TasksInvariant, BookInvariant, ToldInvariant,
     StatusInvariant, AnswersMatch, PTL DEF PageFairSpec

(* The two reducers agree on every prefix of every ledger a run can write: *)
(* the checklist, the outcome, the error and the answer.                   *)
THEOREM ReducersAgree == PageFairSpec => []FoldsAgree
<1>1. PageInv => FoldsAgree
  BY DEF PageInv
<1> QED
  BY <1>1, PageInvariant, PTL

(* Whenever the run has nothing left to commit the page shows its rows,    *)
(* and a finished run is shown with its outcome, live and in the replay.   *)
THEOREM PageTells == PageFairSpec => []PageTellsRun
<1>1. /\ TypeOK /\ BookInv /\ CloseInv /\ FlightInv /\ ToldInv /\ StatusInv /\ PageInv
      => PageTellsRun
  <2> SUFFICES ASSUME TypeOK, BookInv, CloseInv, ToldInv, StatusInv, PageInv, todo = <<>>
               PROVE  ShowsRows /\ (pc = "ended" => ShowsOutcome)
    BY DEF PageTellsRun
  <2>1. Len(todo) = 0 /\ Waiting = {} /\ ~HasClose(todo)
    BY DEF Waiting, HasClose
  <2>2. \A types : ~HeadSays(types)
    BY <2>1 DEF HeadSays
  <2>3. RowsLeadLedger /\ FoldsAgree /\ TurnShown /\ AttemptsShown /\ PartialShown
    BY DEF BookInv, LeadInv, PageInv
  <2>4. \A i \in DOMAIN tasks : Same(i)
    BY <2>1, <2>2 DEF ToldInv, Told, OwedPlan, Owed
  <2>5. DOMAIN page.tasks = DOMAIN tasks
    BY <2>3, <2>4 DEF FoldsAgree, RowsLeadLedger, Same
  <2>6. \A i \in DOMAIN tasks :
            /\ \/ page.tasks[i] = tasks[i]
               \/ page.tasks[i] = "retrying" /\ tasks[i] = "running"
            /\ tasks[i] = "done" => page.attempt[i] = attempts[i]
    BY <2>3, <2>4 DEF FoldsAgree, AttemptsShown, Same
  <2>7. pc \in ClosedPoints => view.terminal /\ page.status = status
    BY <2>1, <2>2, <2>3 DEF CloseInv, ToldInv, EndTold, FoldsAgree, RowsLeadLedger
  <2>8. pc \notin ClosedPoints =>
            \/ page.status = status
            \/ page.status = "created" /\ status = "none"
            \/ page.status = "planning" /\ status = "running"
    <3>1. \A x : ~Sets(todo, x)
      BY <2>1 DEF Sets
    <3>2. pc \in {"none", "register", "start", "planning", "task"} \cup Drafting \cup Working
                    \cup ClosedPoints
      BY DEF TypeOK, ControlOK, ControlPoints, Drafting, Working, InFlight, Over, ClosedPoints
    <3> QED
      BY <2>1, <2>3, <3>1, <3>2 DEF StatusInv, TurnShown
  <2>9. pc = "ended" => ShowsOutcome
    <3> SUFFICES ASSUME pc = "ended" PROVE ShowsOutcome
      OBVIOUS
    <3>1. view.terminal /\ page.status = status
      BY <2>7 DEF ClosedPoints
    <3>2. page.partial <=> answer = "partial"
      BY <2>3, <3>1 DEF PartialShown
    <3>3. page.error = error
      BY <2>3, <3>1 DEF FoldsAgree, RowsLeadLedger
    <3>4. answer # "none" => page.answer = answer
      BY <2>2, <2>3 DEF ToldInv, FoldsAgree, FoldAnswer
    <3> QED
      BY <3>1, <3>2, <3>3, <3>4 DEF ShowsOutcome, ReplayStatus, ReplayAnswer
  <2> QED
    BY <2>5, <2>6, <2>7, <2>8, <2>9 DEF ShowsRows
<1> QED
  BY <1>1, PageRuns, TypeInvariant, BookInvariant, EndedRunsAreClosed, ToldInvariant,
     StatusInvariant, PageInvariant, PTL
=============================================================================
