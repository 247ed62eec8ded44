---------------------------- MODULE MCAlgorithms ----------------------------
(* The pure algorithms, each on its own: a recall or the use of a reply.   *)
EXTENDS Recall, Replies

Row(id, created, salience, outcome_, pinned, hits, words, length) ==
    [id |-> id, created |-> created, salience |-> salience, active |-> TRUE,
     outcome |-> outcome_, pinned |-> pinned, hits |-> hits,
     within |-> TRUE, words |-> words, length |-> length]

MCLibrary ==
    {Row(1, 1, 1, "done", FALSE, 2, {"a", "b"}, 9),
     Row(2, 2, 2, "failed", FALSE, 2, {"a", "b"}, 3),
     Row(3, 3, 1, "partial", TRUE, 0, {"c"}, 5),
     Row(4, 1, 3, "done", TRUE, 1, {"c", "d"}, 4),
     Row(5, 2, 1, "cancelled", FALSE, 1, {"d"}, 2),
     Row(6, 3, 2, "done", FALSE, 0, {"e"}, 6),
     Row(7, 1, 1, "done", FALSE, 1, {}, 0),
     Row(8, 3, 3, "failed", FALSE, 1, {"f"}, 1),
     Row(9, 2, 1, "partial", TRUE, 2, {"a", "b"}, 7),
     [Row(10, 1, 2, "done", TRUE, 2, {"g"}, 4) EXCEPT !.active = FALSE]}

MCNumbers == {-3, 0, 4, 5, 7, 12}

NoRecall ==
    /\ store = {} /\ fts = TRUE /\ k = 0 /\ charBudget = 0
    /\ pc = "done" /\ pool = {} /\ rest = {} /\ picked = <<>> /\ used = 0

NoReply ==
    /\ text = <<>> /\ span = NoSpan /\ caller = "none" /\ floor = 0
    /\ replies = <<>> /\ outcome = NoOutcome

Init == (RecallInit /\ NoReply) \/ (NoRecall /\ ReplyInit)

Next ==
    \/ RecallNext /\ UNCHANGED replyVars
    \/ ReplyNext /\ UNCHANGED recallVars

Spec == Init /\ [][Next]_<<recallVars, replyVars>>
=============================================================================
