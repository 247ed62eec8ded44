---------------------------- MODULE StartupProofs ----------------------------
(***************************************************************************)
(* Startup for any memories and texts and any number of crashes: the stamp *)
(* tells the truth, and the index mirrors the rows.                        *)
(***************************************************************************)
EXTENDS Startup, SequenceTheorems, TLAPS

-----------------------------------------------------------------------------
(* The statements, by number: 14 about tables, 8 migrations, the stamp.    *)

Steps ==
    {TableSteps[i] : i \in 1 .. 14} \cup {MigrationSteps[i] : i \in 1 .. 8}
        \cup {Stamping}

LEMMA SeqOf ==
    ASSUME NEW S, NEW n \in Nat, NEW f \in [1 .. n -> S]
    PROVE  f \in Seq(S) /\ Len(f) = n
OBVIOUS

LEMMA Lengths ==
    /\ Len(TableSteps) = 14 /\ TableSteps = [i \in 1 .. 14 |-> TableSteps[i]]
    /\ Len(Migrations) = 8 /\ DOMAIN Migrations = 1 .. 8
BY DEF TableSteps, Migrations

LEMMA TableStepsSeq == TableSteps \in Seq(Steps) /\ Len(TableSteps) = 14
<1>1. \A i \in 1 .. 14 : TableSteps[i] \in Steps
  BY DEF Steps
<1>2. TableSteps \in [1 .. 14 -> Steps]
  BY <1>1, Lengths
<1> QED
  BY <1>2, SeqOf, 14 \in Nat

LEMMA MigrationStepsSeq == MigrationSteps \in Seq(Steps) /\ Len(MigrationSteps) = 8
<1>1. MigrationSteps \in [1 .. 8 -> Steps]
  <2>1. \A i \in 1 .. 8 : MigrationSteps[i] \in Steps
    BY DEF Steps
  <2>2. MigrationSteps = [i \in 1 .. 8 |-> MigrationSteps[i]]
    BY Lengths DEF MigrationSteps
  <2> QED
    BY <2>1, <2>2
<1> QED
  BY <1>1, SeqOf, 8 \in Nat

LEMMA StatementsByNumber ==
    /\ Len(Statements) = 23
    /\ \A n \in 1 .. 14 : Statements[n] = TableSteps[n]
    /\ \A n \in 1 .. 8 : Statements[14 + n] = <<"migration", Migrations[n]>>
    /\ Statements[23] = Stamping
<1> DEFINE DDL == TableSteps \o MigrationSteps
<1>1. /\ DDL \in Seq(Steps)
      /\ Len(DDL) = Len(TableSteps) + Len(MigrationSteps)
      /\ \A n \in 1 .. Len(TableSteps) + Len(MigrationSteps) :
            DDL[n] = IF n <= Len(TableSteps) THEN TableSteps[n]
                                             ELSE MigrationSteps[n - Len(TableSteps)]
  BY TableStepsSeq, MigrationStepsSeq, ConcatProperties, Zenon
<1>2. Statements = Append(DDL, Stamping) /\ Stamping \in Steps
  BY DEF Statements, Steps
<1> HIDE DEF DDL
<1>3. /\ Len(Statements) = Len(DDL) + 1
      /\ \A n \in 1 .. Len(DDL) : Statements[n] = DDL[n]
      /\ Statements[Len(DDL) + 1] = Stamping
  BY <1>1, <1>2, AppendProperties
<1>4. Len(DDL) = 22
  BY <1>1, TableStepsSeq, MigrationStepsSeq
<1>5. \A n \in 1 .. 8 : /\ 14 + n \in 1 .. 22 /\ (14 + n) - 14 = n /\ ~(14 + n <= 14)
                        /\ MigrationSteps[n] = <<"migration", Migrations[n]>>
  BY Lengths DEF MigrationSteps
<1> QED
  BY <1>1, <1>3, <1>4, <1>5, TableStepsSeq, MigrationStepsSeq

LEMMA TableStatements ==
    /\ Statements[1] = <<"table", "runs">>
    /\ Statements[4] = <<"table", "schema_meta">>
    /\ Statements[5] = <<"table", "events">>
    /\ Statements[7] = <<"table", "tasks">>
    /\ Statements[10] = <<"table", "memories">>
    /\ Statements[13] = <<"table", "task_attempts">>
BY StatementsByNumber DEF TableSteps

LEMMA MigrationStatements ==
    /\ Statements[15] = <<"migration", "attempt_count">>
    /\ Statements[16] = <<"migration", "replan_generation">>
    /\ Statements[17] = <<"migration", "parent_generation">>
    /\ Statements[18] = <<"migration", "ix_runs_created">>
    /\ Statements[19] = <<"migration", "memories_fts">>
    /\ Statements[20] = <<"migration", "memories_ai">>
    /\ Statements[21] = <<"migration", "memories_ad">>
    /\ Statements[22] = <<"migration", "memories_au">>
<1>1. \A n \in 1 .. 8 : Statements[14 + n] = <<"migration", Migrations[n]>>
  BY StatementsByNumber
<1>2. /\ Statements[15] = <<"migration", Migrations[1]>>
      /\ Statements[16] = <<"migration", Migrations[2]>>
      /\ Statements[17] = <<"migration", Migrations[3]>>
      /\ Statements[18] = <<"migration", Migrations[4]>>
  BY <1>1, 14 + 1 = 15, 14 + 2 = 16, 14 + 3 = 17, 14 + 4 = 18
<1>3. /\ Statements[19] = <<"migration", Migrations[5]>>
      /\ Statements[20] = <<"migration", Migrations[6]>>
      /\ Statements[21] = <<"migration", Migrations[7]>>
      /\ Statements[22] = <<"migration", Migrations[8]>>
  BY <1>1, 14 + 5 = 19, 14 + 6 = 20, 14 + 7 = 21, 14 + 8 = 22
<1> QED
  BY <1>2, <1>3 DEF Migrations

LEMMA NotStamping == \A n \in 1 .. 22 : Statements[n] # Stamping
<1>1. ASSUME NEW n \in 1 .. 14 PROVE Statements[n] # Stamping
  <2>1. TableSteps[n][1] \in {"table", "index"}
    BY DEF TableSteps
  <2> QED
    BY <2>1, StatementsByNumber DEF Stamping
<1>2. ASSUME NEW n \in 1 .. 8 PROVE Statements[14 + n] # Stamping
  BY StatementsByNumber DEF Stamping
<1>3. \A n \in 1 .. 22 : n <= 14 \/ (n - 14 \in 1 .. 8 /\ 14 + (n - 14) = n)
  OBVIOUS
<1> QED
  BY <1>1, <1>2, <1>3

-----------------------------------------------------------------------------
(* What a startup has come past is there, if this build can have it.       *)
Done(s) ==
    s[1] \in {"table", "migration"} /\ (fts5 \/ s[2] \notin FullText)
        => s[2] \in schema

StartupInv ==
    /\ next \in 1 .. 24
    /\ up # "down" => \A i \in 1 .. (next - 1) : Done(Statements[i])
    /\ up # "down" /\ next = 24 => stamped
    /\ up = "serving" => next = 24
    /\ stamped => Required \subseteq schema

LEMMA AllDone ==
    ASSUME \A i \in 1 .. 22 : Done(Statements[i])
    PROVE  Required \subseteq schema
<1>1. /\ Done(Statements[1]) /\ Done(Statements[4]) /\ Done(Statements[5])
      /\ Done(Statements[7]) /\ Done(Statements[10]) /\ Done(Statements[13])
  OBVIOUS
<1>2. /\ Done(Statements[15]) /\ Done(Statements[16]) /\ Done(Statements[17])
      /\ Done(Statements[18]) /\ Done(Statements[19]) /\ Done(Statements[20])
      /\ Done(Statements[21]) /\ Done(Statements[22])
  OBVIOUS
<1> USE DEF Done, FullText, Triggers
<1>3. Tables \subseteq schema
  BY <1>1, TableStatements DEF Tables
<1>4. TaskColumns \cup {"ix_runs_created"} \subseteq schema
  BY <1>2, MigrationStatements DEF TaskColumns
<1>5. fts5 => FullText \subseteq schema
  BY <1>2, MigrationStatements
<1> QED
  BY <1>3, <1>4, <1>5 DEF Required

LEMMA StartupInitInv == Init => StartupInv
BY DEF Init, StartupInv

LEMMA DoneStays ==
    ASSUME schema \subseteq schema', fts5' = fts5, NEW s, Done(s)
    PROVE  Done(s)'
BY DEF Done, FullText, Triggers

LEMMA ExecuteStep == StartupInv /\ Execute => StartupInv'
<1> SUFFICES ASSUME StartupInv, Execute PROVE StartupInv'
  OBVIOUS
<1>1. /\ schema \subseteq schema' /\ fts5' = fts5 /\ up' = up /\ stamped' = stamped
      /\ next' = next + 1 /\ up = "booting"
  BY DEF Execute
<1>2. next \in 1 .. 22
  BY StatementsByNumber DEF Execute, Current, StartupInv
<1>3. ASSUME NEW i \in 1 .. 22, i = next PROVE Done(Statements[i])'
  <2> DEFINE s == Statements[i]
  <2>1. PICK new \in IF Left(s) THEN {{}} ELSE Creates(s) : schema' = schema \cup new
    BY <1>3, Zenon DEF Execute, Current
  <2> HIDE DEF s
  <2>2. ASSUME s[1] # "index", ~Left(s) PROVE s[2] \in new
    <3>1. CASE s = <<"table", "tasks">>
      BY <2>1, <2>2, <3>1 DEF Creates
    <3>2. CASE s # <<"table", "tasks">>
      <4>1. Creates(s) = {{s[2]}}
        BY <2>2, <3>2, Zenon DEF Creates
      <4> QED
        BY <2>1, <2>2, <4>1
    <3> QED
      BY <3>1, <3>2
  <2>3. ASSUME s[1] # "index", fts5 \/ s[2] \notin FullText, Left(s)
        PROVE  s[2] \in schema
    BY <2>3 DEF Left
  <2>4. Done(s)'
    BY <1>1, <2>1, <2>2, <2>3 DEF Done, FullText, Triggers
  <2> QED
    BY <2>4 DEF s
<1>4. ASSUME NEW i \in 1 .. next PROVE Done(Statements[i])'
  <2>1. CASE i = next
    BY <1>2, <1>3, <2>1
  <2>2. CASE i # next
    <3>1. i \in 1 .. (next - 1)
      BY <1>2, <2>2
    <3>2. Done(Statements[i])
      BY <1>1, <3>1 DEF StartupInv
    <3> QED
      BY <1>1, <3>2, DoneStays
  <2> QED
    BY <2>1, <2>2
<1> QED
  BY <1>1, <1>2, <1>4 DEF StartupInv, Required, FullText, Triggers

LEMMA StartupStep == StartupInv /\ [Next]_vars => StartupInv'
<1> SUFFICES ASSUME StartupInv, [Next]_vars PROVE StartupInv'
  OBVIOUS
<1> USE DEF StartupInv
<1>1. CASE Boot
  BY <1>1 DEF Boot, file, Required
<1>2. CASE Execute
  BY <1>2, ExecuteStep
<1>3. CASE Stamp
  <2>1. next = 23
    <3>1. Current = Stamping /\ next <= 23
      BY <1>3, StatementsByNumber DEF Stamp
    <3>2. ASSUME next \in 1 .. 22 PROVE Statements[next] # Stamping
      BY <3>2, NotStamping
    <3> QED
      BY <3>1, <3>2 DEF Current
  <2>2. /\ next' = 24 /\ UNCHANGED <<fts5, schema, up>> /\ stamped' /\ up = "booting"
    BY <1>3, <2>1 DEF Stamp
  <2>3. Required \subseteq schema
    BY <2>1, <2>2, AllDone
  <2>4. \A i \in 1 .. 23 : Done(Statements[i])'
    <3>1. \A i \in 1 .. 22 : Done(Statements[i])'
      BY <2>1, <2>2, DoneStays
    <3>2. Done(Statements[23])'
      BY StatementsByNumber DEF Done, Stamping
    <3> QED
      BY <3>1, <3>2
  <2> QED
    BY <2>2, <2>3, <2>4 DEF Required, FullText, Triggers
<1>4. CASE StartServing
  <2>1. next = 24
    BY <1>4, StatementsByNumber DEF StartServing
  <2>2. /\ UNCHANGED file /\ next' = next /\ up = "booting" /\ up' = "serving"
    BY <1>4 DEF StartServing
  <2> QED
    BY <2>1, <2>2, DoneStays DEF file, Required, FullText, Triggers
<1>5. CASE Crash
  BY <1>5 DEF Crash, file, Required
<1>6. CASE UNCHANGED <<fts5, schema, stamped, up, next>>
  <2>1. \A i \in 1 .. (next - 1) : Done(Statements[i]) => Done(Statements[i])'
    BY <1>6, DoneStays
  <2> QED
    BY <1>6, <2>1 DEF Required, FullText, Triggers
<1>7. ASSUME NEW m \in Memories, NEW text \in Texts, Write(m, text) \/ Update(m, text)
      PROVE  StartupInv'
  BY <1>6, <1>7 DEF Write, Update
<1>8. ASSUME NEW m \in Memories, Delete(m)
      PROVE  StartupInv'
  BY <1>6, <1>8 DEF Delete
<1>9. CASE UNCHANGED vars
  BY <1>6, <1>9 DEF vars, file
<1> QED
  BY <1>1, <1>2, <1>3, <1>4, <1>5, <1>7, <1>8, <1>9 DEF Next

LEMMA StartupHolds == Spec => []StartupInv
BY StartupInitInv, StartupStep, PTL DEF Spec

(* For any number of crashes: a stamp is never ahead of the schema, and    *)
(* nothing is served without it (create_all, _stamp_schema_meta).          *)
THEOREM StampIsTrue == Spec => []StampTellsSchema
<1>1. StartupInv => StampTellsSchema
  BY DEF StartupInv, StampTellsSchema
<1> QED
  BY <1>1, StartupHolds, PTL

-----------------------------------------------------------------------------
LEMMA IndexStep ==
    StartupInv /\ IndexMirrors /\ [Next]_vars => IndexMirrors'
<1> SUFFICES ASSUME StartupInv, IndexMirrors, [Next]_vars PROVE IndexMirrors'
  OBVIOUS
<1> USE DEF IndexMirrors
<1>1. up = "serving" /\ fts5 => Triggers \subseteq schema
  BY DEF StartupInv, Required, FullText
<1>2. ASSUME NEW m \in Memories, NEW text \in Texts, Write(m, text) \/ Update(m, text)
      PROVE  IndexMirrors'
  BY <1>1, <1>2 DEF Write, Update, Indexed, Triggers
<1>3. ASSUME NEW m \in Memories, Delete(m)
      PROVE  IndexMirrors'
  BY <1>1, <1>3 DEF Delete, Indexed, Triggers
<1>4. CASE Boot \/ Execute \/ Stamp \/ StartServing \/ Crash \/ UNCHANGED vars
  BY <1>4 DEF Boot, Execute, Stamp, StartServing, Crash, vars, file
<1> QED
  BY <1>2, <1>3, <1>4 DEF Next

(* For any memories: where the build has FTS5, the triggers keep the index *)
(* equal to the rows, because none is written before they exist.           *)
THEOREM IndexIsMirror == Spec => []IndexMirrors
<1>1. Init => IndexMirrors
  BY DEF Init, IndexMirrors
<1> QED
  BY <1>1, StartupHolds, IndexStep, PTL DEF Spec
=============================================================================
