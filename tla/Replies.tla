------------------------------ MODULE Replies ------------------------------
(***************************************************************************)
(* What becomes of a model's reply.  The planner, the reflector and the    *)
(* executor all pull one JSON object out of it (agent/jsonio.py), check    *)
(* its shape, ask again while it is unusable, and turn what they get into  *)
(* a plan, a verdict or an action.                                         *)
(*                                                                         *)
(* The extraction works on text, here a sequence of the characters it      *)
(* tells apart.  The decisions work on the object found in it, here a      *)
(* record of the fields they read; the budget and the cancel checks of the *)
(* same loops are in AgentTurn.                                            *)
(***************************************************************************)
EXTENDS Integers, SequencesExt

CONSTANTS
    MaxText,        \* bound on the length of a text
    RepairAttempts, \* agent_repair_attempts
    MaxTasks,       \* agent_max_tasks
    MaxListed,      \* bound on the tasks a reply lists
    Floors,         \* values of agent_reflection_min_confidence, in tenths
    Numbers         \* numbers a reply may give as confidence, in tenths

ASSUME RepliesAssumption ==
    /\ MaxText \in Nat /\ RepairAttempts \in Nat /\ MaxListed \in Nat
    /\ MaxTasks \in Nat \ {0}
    /\ Floors \subseteq 0 .. 10 /\ Numbers \subseteq Int

-----------------------------------------------------------------------------
(* extract_json                                                            *)

(* "fence" is ``` with its json tag and the blanks next to it.             *)
Characters == {"open", "close", "quote", "backslash", "fence", "other"}

NoSpan == <<0, 0>>

(* _FENCE_RE: an object right between two fences, found as early and cut   *)
(* as short as possible.                                                   *)
IsFenced(t, i, j) ==
    /\ 1 < i /\ i < j /\ j < Len(t)
    /\ t[i - 1] = "fence" /\ t[i] = "open"
    /\ t[j] = "close" /\ t[j + 1] = "fence"

Fenced(t) == {s \in (DOMAIN t) \X (DOMAIN t) : IsFenced(t, s[1], s[2])}

First(S) ==
    CHOOSE s \in S : \A u \in S : s[1] < u[1] \/ (s[1] = u[1] /\ s[2] <= u[2])

InString_NoEscapes(s, c) ==
    IF c = "quote" THEN [s EXCEPT !.inStr = FALSE] ELSE s

(* first_balanced_object: one pass from the first brace.                   *)
InString(s, c) ==
    IF s.escaped
    THEN [s EXCEPT !.escaped = FALSE]
    ELSE CASE c = "backslash" -> [s EXCEPT !.escaped = TRUE]
           [] c = "quote"     -> [s EXCEPT !.inStr = FALSE]
           [] OTHER           -> s

Outside(s, c) ==
    CASE c = "quote" -> [s EXCEPT !.inStr = TRUE]
      [] c = "open"  -> [s EXCEPT !.depth = @ + 1]
      [] c = "close" -> [s EXCEPT !.depth = @ - 1,
                                  !.found = s.depth = 1]
      [] OTHER       -> s

ScanStep(s, c) ==
    IF s.found
    THEN s
    ELSE LET n == [s EXCEPT !.at = @ + 1]
         IN  IF s.inStr THEN InString(n, c) ELSE Outside(n, c)

Unscanned(start) ==
    [at |-> start - 1, depth |-> 0, inStr |-> FALSE, escaped |-> FALSE, found |-> FALSE]

FirstBalanced(t) ==
    LET start == SelectInSeq(t, LAMBDA c : c = "open")
        scan[i \in (start - 1) .. Len(t)] ==
            IF i = start - 1 THEN Unscanned(start) ELSE ScanStep(scan[i - 1], t[i])
    IN  IF start # 0 /\ scan[Len(t)].found
        THEN <<start, scan[Len(t)].at>>
        ELSE NoSpan

Extracted(t) == IF Fenced(t) # {} THEN First(Fenced(t)) ELSE FirstBalanced(t)

-----------------------------------------------------------------------------
(* What the object of a reply says to each caller.  "none": no object;     *)
(* "malformed": json.loads refuses it; "shape": its fields do not fit;     *)
(* "raises": json.loads raises what no caller catches, a plain ValueError  *)
(* for an integer of too many digits or a RecursionError.                  *)

Unusable == [kind : {"none", "malformed", "shape", "raises"}]

Decisions == {"accept", "retry", "replan", "abort"}

(* confidence: a number, or what is not one.  A JSON boolean, a missing    *)
(* field and text that is not a number are alike; NaN is a number to       *)
(* json.loads and float(), and an integer may be too large for a float.    *)
Confidences ==
    [is : {"number"}, tenths : Numbers]
        \cup [is : {"bool", "missing", "garbage", "nan", "huge"}, tenths : {0}]

VerdictReplies ==
    [kind : {"object"}, decision : Decisions, confidence : Confidences]

(* A listed task: whether its description is blank, and its tool hint.     *)
Listing == [blank : BOOLEAN, tool : {"none", "known", "unknown"}]

PlanReplies == [kind : {"object"}, tasks : BoundedSeq(Listing, MaxListed)]

(* AgentAction: what _check_shape demands is part of being an object; what *)
(* lacks it is "shape".                                                    *)
ActionReplies == [kind : {"object"}, action : {"tool_call", "finish"}]

RepliesTo(c) ==
    Unusable \cup CASE c = "reflector" -> VerdictReplies
                    [] c = "planner"   -> PlanReplies
                    [] c = "executor"  -> ActionReplies

-----------------------------------------------------------------------------
(* The reflector                                                           *)

DefaultConfidence == 5

Clamp(n) == IF n < 0 THEN 0 ELSE IF n > 10 THEN 10 ELSE n

(* _coerce_confidence; max(0.0, min(1.0, nan)) is 1.0 in Python.           *)
Coerced(c) ==
    CASE c.is = "number" -> Clamp(c.tenths)
      [] c.is = "nan"    -> 10
      [] OTHER           -> DefaultConfidence

Degradable == {"retry", "replan"}

Verdict(d, c, s) == [is |-> "verdict", decision |-> d, confidence |-> c, source |-> s]

Gated_AnyVerdict(v, min) ==
    IF v.confidence <= min THEN [v EXCEPT !.decision = "accept"] ELSE v

(* _apply_confidence_gate *)
Gated(v, min) ==
    IF min > 0 /\ v.decision \in Degradable /\ v.confidence < min
    THEN [v EXCEPT !.decision = "accept"]
    ELSE v

Raised == [is |-> "raised"]

Judged(r, min) ==
    IF r.confidence.is = "huge"
    THEN Raised
    ELSE Gated(Verdict(r.decision, Coerced(r.confidence), "llm"), min)

Degraded == Verdict("accept", 0, "degraded")

Precheck == Verdict("retry", 9, "precheck")

-----------------------------------------------------------------------------
(* The planner                                                             *)

(* A planned task: its place in the reply, or the goal itself at 0.        *)
GoalTask == [from |-> 0, tool |-> "none"]

Planned(tasks, i) ==
    [from |-> i,
     tool |-> IF tasks[i].tool = "unknown" THEN "none" ELSE tasks[i].tool]

(* A cap on the tasks the reply lists, blank ones included.                *)
Kept_CapFirst(tasks) ==
    SelectSeq([i \in 1 .. Min({Len(tasks), MaxTasks}) |-> i],
              LAMBDA i : ~tasks[i].blank)

(* The places of the tasks _normalize keeps: one pass, up to the cap.      *)
Kept(tasks) ==
    LET kept[n \in 0 .. Len(tasks)] ==
            IF n = 0
            THEN <<>>
            ELSE IF tasks[n].blank \/ Len(kept[n - 1]) >= MaxTasks
                 THEN kept[n - 1]
                 ELSE Append(kept[n - 1], n)
    IN  kept[Len(tasks)]

Normalize(tasks) ==
    [is |-> "plan",
     tasks |-> IF Kept(tasks) = <<>>
               THEN <<GoalTask>>
               ELSE [n \in DOMAIN Kept(tasks) |-> Planned(tasks, Kept(tasks)[n])]]

-----------------------------------------------------------------------------
VARIABLES
    text,       \* the text to extract from
    span,       \* what was extracted, <<>> before
    caller,     \* whose reply it is
    floor,      \* agent_reflection_min_confidence, in tenths
    replies,    \* the replies to it so far
    outcome     \* what it made of them

replyVars == <<text, span, caller, floor, replies, outcome>>

NoOutcome == [is |-> "none"]

(* Either a text is to be searched or a caller has yet to ask.             *)
ReplyInit ==
    /\ \/ /\ text \in BoundedSeq(Characters, MaxText)
          /\ caller = "none" /\ floor = 0
       \/ /\ text = <<>>
          /\ caller \in {"planner", "reflector", "executor"}
          /\ floor \in Floors
    /\ span = <<>>
    /\ replies = <<>>
    /\ outcome = NoOutcome

Extract ==
    /\ caller = "none" /\ span = <<>>
    /\ span' = Extracted(text)
    /\ UNCHANGED <<text, caller, floor, replies, outcome>>

Deciding == caller # "none" /\ outcome = NoOutcome

(* An output that is empty or an error is sent back unread.                *)
PrecheckFires ==
    /\ Deciding
    /\ caller = "reflector" /\ replies = <<>>
    /\ outcome' = Precheck
    /\ UNCHANGED <<text, span, caller, floor, replies>>

(* LLMError, of the first call or of a repair.                             *)
CompletionFails ==
    /\ Deciding
    /\ outcome' = IF caller = "reflector" THEN Degraded ELSE Raised
    /\ UNCHANGED <<text, span, caller, floor, replies>>

Used(r) ==
    CASE caller = "reflector" -> Judged(r, floor)
      [] caller = "planner"   -> Normalize(r.tasks)
      [] caller = "executor"  -> [is |-> "action", action |-> r.action]

Exhausted(first) ==
    CASE caller = "reflector" -> Degraded
      [] caller = "planner"   -> Raised
      [] caller = "executor"  -> [is |-> "narration", reply |-> first]

Complete(r) ==
    /\ Deciding
    /\ replies' = Append(replies, r)
    /\ outcome' =
           IF r.kind = "object"
           THEN Used(r)
           ELSE IF r.kind = "raises"
                THEN Raised
                ELSE IF Len(replies) >= RepairAttempts
                     THEN Exhausted(replies'[1])
                     ELSE NoOutcome
    /\ UNCHANGED <<text, span, caller, floor>>

ReplyNext ==
    \/ Extract \/ PrecheckFires \/ CompletionFails
    \/ caller # "none" /\ \E r \in RepliesTo(caller) : Complete(r)

ReplySpec == ReplyInit /\ [][ReplyNext]_replyVars

-----------------------------------------------------------------------------
(* A reference for the extraction: the grammar of brace-balanced text, in  *)
(* which a string literal is one unit and a backslash inside it takes the  *)
(* next character with it.                                                 *)

(* t[i .. j] is the inside of a string literal. *)
IsLiteralBody(t, i, j) ==
    LET body[k \in i .. (j + 2)] ==
            \/ k = j + 1
            \/ k <= j /\ t[k] \notin {"quote", "backslash"} /\ body[k + 1]
            \/ k < j /\ t[k] = "backslash" /\ body[k + 2]
    IN  body[i]

IsLiteral(t, i, j) ==
    i < j /\ t[i] = "quote" /\ t[j] = "quote" /\ IsLiteralBody(t, i + 1, j - 1)

(* t[i .. j] is a sequence of objects, literals and other characters.      *)
IsObject(t, i, j) ==
    LET items[s \in (1 .. (Len(t) + 1)) \X (0 .. Len(t))] ==
            \/ s[2] < s[1]
            \/ t[s[1]] \notin {"open", "close", "quote"} /\ items[<<s[1] + 1, s[2]>>]
            \/ \E m \in (s[1] + 1) .. s[2] :
                  /\ \/ IsLiteral(t, s[1], m)
                     \/ /\ t[s[1]] = "open" /\ t[m] = "close"
                        /\ items[<<s[1] + 1, m - 1>>]
                  /\ m = s[2] \/ items[<<m + 1, s[2]>>]
    IN  i < j /\ t[i] = "open" /\ t[j] = "close" /\ items[<<i + 1, j - 1>>]

(* Unless a fenced block is there to prefer, the object extracted is the   *)
(* shortest balanced text that begins at the first brace, and nothing is   *)
(* extracted only when there is none.                                      *)
ScanFindsFirst ==
    span # <<>> /\ Fenced(text) = {} =>
        LET opens == {i \in DOMAIN text : text[i] = "open"}
            start == Min(opens)
            ends  == {j \in DOMAIN text : IsObject(text, start, j)}
        IN  span = IF opens = {} \/ ends = {} THEN NoSpan ELSE <<start, Min(ends)>>

(* A verdict comes from somewhere: a run is aborted only on the word of    *)
(* the model, sent back on its word given with the confidence asked for,   *)
(* or unread; whatever else happens, the output is accepted; and the       *)
(* confidence is always one the row can hold.                              *)
VerdictJustified ==
    outcome.is = "verdict" =>
        LET last == replies[Len(replies)]
            Said(d) == /\ replies # <<>>
                       /\ last.kind = "object" /\ last.decision = d
        IN  /\ outcome.confidence \in 0 .. 10
            /\ outcome.decision = "abort" => Said("abort")
            /\ outcome.decision = "replan" => Said("replan")
            /\ outcome.decision = "retry" => replies = <<>> \/ Said("retry")
            /\ outcome.decision \in Degradable /\ outcome.source = "llm"
                   => outcome.confidence >= floor
            /\ Said("abort") => outcome.decision = "abort"
            /\ outcome.source = "degraded" => outcome.decision = "accept"

(* A plan has work in it: between one task and the cap, none of them       *)
(* blank, no hint the registry does not know; and it takes the first       *)
(* usable tasks of the reply, so that one is left out only at the cap.     *)
PlanUsable ==
    outcome.is = "plan" =>
        LET plan == outcome.tasks
            listed == replies[Len(replies)].tasks
            usable == {i \in DOMAIN listed : ~listed[i].blank}
            taken == {plan[n].from : n \in DOMAIN plan}
        IN  /\ Len(plan) \in 1 .. MaxTasks
            /\ \A n \in DOMAIN plan : plan[n].tool # "unknown"
            /\ usable = {} <=> plan = <<GoalTask>>
            /\ usable # {} =>
                  /\ taken \subseteq usable
                  /\ \A m, n \in DOMAIN plan : m < n => plan[m].from < plan[n].from
                  /\ \A n \in DOMAIN plan : listed[plan[n].from].tool = "known"
                         => plan[n].tool = "known"
                  /\ \A i \in usable \ taken :
                        Len(plan) = MaxTasks /\ \A j \in taken : j < i
=============================================================================
