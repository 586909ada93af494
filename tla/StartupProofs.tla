--------------------------- MODULE StartupProofs ---------------------------
(***************************************************************************)
(* Proofs about Startup: what a clean start leaves in the database and    *)
(* how long quick failures to connect can take altogether.                 *)
(***************************************************************************)
EXTENDS Startup, TLAPS

\* The last attempt is not slept after.
SleepInv == stage = "sleeping" => attempt < MaxAttempts

\* The statements of a clean start begin with the first, and those before the
\* next one have had their effect, whatever was there before them.
SchemaInv ==
    /\ stage \in {"connecting", "sleeping"} => next = 1
    /\ stage = "migrating" /\ clean => \A i \in 1..(next - 1) : Statements[i] \in schema
    /\ CleanStartCompletes

StartupInv == TypeOK /\ SleepInv /\ SchemaInv

\* As long as attempts fail at once, the time that has gone by is what the
\* sleeps took. Before the n-th attempt the backoff is at most 2^(n-1) seconds.
QuickInv ==
    stage \in {"connecting", "sleeping"} /\ ~slow =>
        \/ attempt = 1 /\ backoff <= 1 /\ elapsed <= 0
        \/ attempt = 2 /\ backoff <= 2 /\ elapsed <= 2
        \/ attempt = 3 /\ backoff <= 4 /\ elapsed <= 5
        \/ attempt = 4 /\ backoff <= 8 /\ elapsed <= 10
        \/ attempt = 5 /\ elapsed <= 20

-----------------------------------------------------------------------------
(* The schema                                                              *)

LEMMA StatementsAreNine ==
  /\ Len(Statements) = 9
  /\ Statements[1] = "workspaces" /\ Statements[2] = "conversations"
  /\ Statements[3] = "conversation_members" /\ Statements[4] = "last_read_at"
  /\ Statements[5] = "messages" /\ Statements[6] = "columns"
  /\ Statements[7] = "message_reactions" /\ Statements[8] = "message_views"
  /\ Statements[9] = "thread_root_message_id"
BY DEF Statements

\* The order of the statements follows what they depend on.
LEMMA OrderFollowsNeeds ==
  ASSUME NEW n \in 1..Len(Statements), NEW object \in Needs(Statements[n])
  PROVE  \E i \in 1..(n - 1) : object = Statements[i]
<1>1. n \in 1..9
  BY StatementsAreNine
<1>2. /\ n # 1
      /\ n = 2 => object = Statements[1]
      /\ n = 3 => object = Statements[2]
      /\ n = 4 => object = Statements[3]
      /\ n = 5 => object = Statements[2]
      /\ n = 6 => object = Statements[5]
      /\ n = 7 => object = Statements[5]
      /\ n = 8 => object = Statements[5]
      /\ n = 9 => object = Statements[5]
  <2>1. /\ Needs("workspaces") = {}
        /\ Needs("conversations") = {"workspaces"}
        /\ Needs("conversation_members") = {"conversations"}
        /\ Needs("last_read_at") = {"conversation_members"}
        /\ Needs("messages") = {"conversations"}
    BY Zenon DEF Needs
  <2>2. /\ Needs("columns") = {"messages"}
        /\ Needs("message_reactions") = {"messages"}
        /\ Needs("message_views") = {"messages"}
        /\ Needs("thread_root_message_id") = {"messages"}
    BY Zenon DEF Needs
  <2> QED
    BY <2>1, <2>2, StatementsAreNine
<1> QED
  BY <1>1, <1>2

LEMMA InitInvariant ==
  ASSUME Init
  PROVE  StartupInv
<1>1. TypeOK
  <2>1. /\ attempt \in 1..MaxAttempts /\ backoff \in 0..MaxBackoff
        /\ elapsed \in 0..Timeout /\ next \in 1..Len(Statements)
        /\ crashes \in 0..MaxCrashes
    BY StartupAssumption, StatementsAreNine DEF Init
  <2>2. schema \subseteq Schema /\ slow \in BOOLEAN /\ clean \in BOOLEAN
    BY DEF Init
  <2> QED
    BY <2>1, <2>2 DEF Init, TypeOK
<1> QED
  BY <1>1 DEF Init, StartupInv, SleepInv, SchemaInv, CleanStartCompletes

\* A statement of a clean start has its effect, since all it needs is there.
LEMMA ExecuteInvariant ==
  ASSUME StartupInv, Execute
  PROVE  StartupInv'
<1> DEFINE object == Statements[next]
           works == dbUp /\ elapsed' < Timeout /\ Needs(object) \subseteq schema
<1>1. /\ stage = "migrating"
      /\ elapsed' \in {elapsed, Timeout} /\ elapsed \in 0..Timeout
      /\ UNCHANGED <<env, dbUp, attempt, backoff, slow, crashes>>
      /\ next \in 1..Len(Statements)
      /\ schema \subseteq Schema
  BY DEF Execute, StartupInv, TypeOK
<1>2. object \in Schema
  BY <1>1 DEF Schema
<1>3. schema' = (IF works THEN schema \cup {object} ELSE schema)
  BY DEF Execute
<1>4. \/ stage' = "serving" /\ next' = next /\ next = Len(Statements)
      \/ stage' = "migrating" /\ next' = next + 1 /\ next # Len(Statements)
  BY <1>1 DEF Execute
<1>5. clean' = (clean /\ dbUp /\ elapsed' < Timeout)
  BY DEF Execute
<1>6. TypeOK'
  <2>1. clean' \in BOOLEAN
    BY <1>5
  <2>2. elapsed' \in 0..Timeout
    BY <1>1, StartupAssumption
  <2>3. schema' \subseteq Schema
    BY <1>1, <1>2, <1>3
  <2>4. next' \in 1..Len(Statements) /\ stage' \in {"migrating", "serving"}
    BY <1>1, <1>4, StatementsAreNine
  <2> QED
    BY <1>1, <2>1, <2>2, <2>3, <2>4 DEF StartupInv, TypeOK
<1>7. clean' => \A i \in 1..next : Statements[i] \in schema'
  <2> SUFFICES ASSUME clean' PROVE \A i \in 1..next : Statements[i] \in schema'
    OBVIOUS
  <2>1. clean /\ dbUp /\ elapsed' < Timeout
    BY <1>5
  <2>2. \A i \in 1..(next - 1) : Statements[i] \in schema
    BY <1>1, <2>1 DEF StartupInv, SchemaInv
  <2>3. Needs(object) \subseteq schema
    BY <1>1, <2>2, OrderFollowsNeeds
  <2>4. schema' = schema \cup {object}
    BY <1>3, <2>1, <2>3
  <2> QED
    BY <1>1, <2>2, <2>4, StatementsAreNine
<1>8. stage' = "serving" /\ clean' => schema' = Schema
  BY <1>4, <1>6, <1>7 DEF Schema, TypeOK
<1>9. SchemaInv' /\ SleepInv'
  BY <1>1, <1>4, <1>7, <1>8, StatementsAreNine DEF SchemaInv, SleepInv, CleanStartCompletes
<1> QED
  BY <1>6, <1>9 DEF StartupInv

\* No other step has to do with the schema or with the next statement.
LEMMA ProcessInvariant ==
  ASSUME StartupInv, Start \/ Connect \/ ConnectFails \/ OutOfTime \/ Sleep
  PROVE  StartupInv'
<1>1. CASE Start
  <2>1. /\ attempt' = 1 /\ backoff' = FirstBackoff /\ elapsed' = 0 /\ next' = 1
        /\ slow' = FALSE /\ clean' = TRUE
        /\ stage' \in {"down", "connecting", "serving"}
        /\ stage' = "serving" => env.url # "usable"
        /\ UNCHANGED <<env, dbUp, schema, crashes>>
    BY <1>1 DEF Start
  <2>2. /\ attempt' \in 1..MaxAttempts /\ backoff' \in 0..MaxBackoff
        /\ elapsed' \in 0..Timeout /\ next' \in 1..Len(Statements)
    BY <2>1, StartupAssumption, StatementsAreNine
  <2>3. TypeOK'
    BY <2>1, <2>2 DEF StartupInv, TypeOK
  <2> QED
    BY <2>1, <2>3 DEF StartupInv, SleepInv, SchemaInv, CleanStartCompletes
<1>2. CASE Connect
  BY <1>2 DEF Connect, StartupInv, TypeOK, SleepInv, SchemaInv, CleanStartCompletes
<1>3. CASE ConnectFails
  <2>1. /\ elapsed' \in elapsed..Timeout /\ elapsed \in 0..Timeout
        /\ attempt \in 1..MaxAttempts
        /\ IF attempt = MaxAttempts THEN stage' = "down" ELSE stage' = "sleeping"
        /\ stage = "connecting"
        /\ UNCHANGED <<env, dbUp, schema, attempt, backoff, next, clean, crashes>>
    BY <1>3 DEF ConnectFails, GiveUp, StartupInv, TypeOK
  <2>2. slow' \in BOOLEAN
    BY <1>3 DEF ConnectFails
  <2>3. elapsed' \in 0..Timeout
    BY <2>1, StartupAssumption
  <2>4. TypeOK'
    BY <2>1, <2>2, <2>3 DEF StartupInv, TypeOK
  <2>5. SleepInv' /\ SchemaInv'
    BY <2>1, StartupAssumption DEF StartupInv, SleepInv, SchemaInv, CleanStartCompletes
  <2> QED
    BY <2>4, <2>5 DEF StartupInv
<1>4. CASE OutOfTime
  BY <1>4 DEF OutOfTime, GiveUp, StartupInv, TypeOK, SleepInv, SchemaInv, CleanStartCompletes
<1>5. CASE Sleep
  <2>1. /\ stage = "sleeping" /\ stage' \in {"connecting", "down"}
        /\ UNCHANGED <<env, dbUp, schema, next, slow, clean, crashes>>
    BY <1>5 DEF Sleep, GiveUp
  <2>2. /\ attempt \in 1..MaxAttempts /\ attempt < MaxAttempts
        /\ backoff \in 0..MaxBackoff /\ elapsed \in 0..Timeout
    BY <2>1 DEF StartupInv, TypeOK, SleepInv
  <2>3. elapsed' \in 0..Timeout
    <3>1. \A awake \in Wakes : awake \in Nat
      BY <2>2, StartupAssumption DEF Wakes, Lesser
    <3> QED
      BY <1>5, <3>1, StartupAssumption DEF Sleep
  <2>4. attempt' \in 1..MaxAttempts
    BY <1>5, <2>2, StartupAssumption DEF Sleep
  <2>5. backoff' \in 0..MaxBackoff
    BY <1>5, <2>2, StartupAssumption DEF Sleep, NextBackoff, Lesser
  <2>6. TypeOK'
    BY <2>1, <2>3, <2>4, <2>5 DEF StartupInv, TypeOK
  <2>7. SleepInv' /\ SchemaInv'
    BY <2>1 DEF StartupInv, SleepInv, SchemaInv, CleanStartCompletes
  <2> QED
    BY <2>6, <2>7 DEF StartupInv
<1> QED
  BY <1>1, <1>2, <1>3, <1>4, <1>5

LEMMA SurroundingsInvariant ==
  ASSUME StartupInv, Crash \/ DatabaseChanges
  PROVE  StartupInv'
<1>1. CASE Crash
  BY <1>1, StartupAssumption
  DEF Crash, StartupInv, TypeOK, SleepInv, SchemaInv, CleanStartCompletes
<1>2. CASE DatabaseChanges
  <2>1. dbUp' \in BOOLEAN
    BY <1>2 DEF DatabaseChanges
  <2>2. UNCHANGED <<env, schema, stage, attempt, backoff, elapsed, next, slow, clean, crashes>>
    BY <1>2 DEF DatabaseChanges
  <2> QED
    BY <2>1, <2>2 DEF StartupInv, TypeOK, SleepInv, SchemaInv, CleanStartCompletes
<1> QED
  BY <1>1, <1>2

LEMMA Invariant ==
  Spec => []StartupInv
<1>1. ASSUME StartupInv, [Next]_vars
      PROVE  StartupInv'
  <2>1. CASE UNCHANGED vars
    BY <1>1, <2>1 DEF vars, StartupInv, TypeOK, SleepInv, SchemaInv, CleanStartCompletes
  <2> QED
    BY <1>1, <2>1, ExecuteInvariant, ProcessInvariant, SurroundingsInvariant DEF Next, Process
<1> QED
  BY <1>1, InitInvariant, PTL DEF Spec

\* The state of Startup has its types; the time counted never passes the
\* deadline and the backoff never its maximum (retry.go).
THEOREM TypeCorrect ==
  Spec => []TypeOK
BY Invariant, PTL DEF StartupInv

\* A start of which no statement met a failure of the database leaves all
\* that InitDB creates, whatever an earlier version or start left of it and
\* however many restarts there were (db.go, InitDB).
THEOREM CleanStartMigrates ==
  Spec => []CleanStartCompletes
BY Invariant, PTL DEF StartupInv, SchemaInv

-----------------------------------------------------------------------------
(* The deadline                                                            *)

LEMMA QuickInvariant ==
  ASSUME MaxAttempts <= 5, FirstBackoff <= 1
  PROVE  Spec => []QuickInv
<1>1. Init => QuickInv
  BY DEF Init, QuickInv
<1>2. ASSUME StartupInv, QuickInv, [Next]_vars
      PROVE  QuickInv'
  <2>1. CASE Start
    BY <2>1, StartupAssumption DEF Start, QuickInv
  <2>2. CASE ConnectFails
    <3> SUFFICES ASSUME stage' = "sleeping", ~slow'
                 PROVE  QuickInv'
      BY <2>2 DEF ConnectFails, QuickInv, GiveUp
    <3>1. ~slow /\ ~(elapsed' > elapsed)
      BY <2>2 DEF ConnectFails
    <3>2. elapsed' = elapsed
      BY <1>2, <2>2, <3>1, StartupAssumption DEF ConnectFails, StartupInv, TypeOK
    <3> QED
      BY <1>2, <2>2, <3>1, <3>2 DEF ConnectFails, QuickInv
  <2>3. CASE Sleep
    <3> SUFFICES ASSUME stage' = "connecting", ~slow'
                 PROVE  QuickInv'
      BY <2>3 DEF Sleep, QuickInv, GiveUp
    <3>1. /\ stage = "sleeping" /\ ~slow
          /\ attempt' = attempt + 1 /\ backoff' = NextBackoff /\ elapsed' \in Wakes
      BY <2>3 DEF Sleep, GiveUp
    <3>2. /\ attempt \in 1..MaxAttempts /\ attempt < MaxAttempts
          /\ backoff \in 0..MaxBackoff /\ elapsed \in 0..Timeout
      BY <1>2, <3>1 DEF StartupInv, TypeOK, SleepInv
    <3>3. backoff' <= 2 * backoff
      BY <3>1, <3>2, StartupAssumption DEF NextBackoff, Lesser
    <3>4. elapsed' <= elapsed + backoff + (backoff + 4) \div 5
      BY <3>1, <3>2, StartupAssumption DEF Wakes, Lesser
    <3>5. backoff' \in Nat /\ elapsed' \in Nat
      BY <3>1, <3>2, StartupAssumption DEF NextBackoff, Wakes, Lesser
    <3> QED
      BY <1>2, <3>1, <3>2, <3>3, <3>4, <3>5, StartupAssumption DEF QuickInv
  <2>4. CASE Connect \/ OutOfTime \/ Execute \/ Crash
    BY <2>4 DEF Connect, OutOfTime, GiveUp, Execute, Crash, QuickInv
  <2>5. CASE DatabaseChanges
    BY <1>2, <2>5 DEF DatabaseChanges, QuickInv
  <2>6. CASE UNCHANGED vars
    BY <1>2, <2>6 DEF vars, QuickInv
  <2> QED
    BY <1>2, <2>1, <2>2, <2>3, <2>4, <2>5, <2>6 DEF Next, Process
<1> QED
  BY <1>1, <1>2, Invariant, PTL DEF Spec

\* With at most five attempts and a first backoff of at most a second, as in
\* main.go and retry.go, attempts that fail at once are all made: 21 seconds
\* suffice for the sleeps between them, whatever the jitter and MaxBackoff.
THEOREM TheDeadlineLeavesRoom ==
  ASSUME MaxAttempts <= 5, FirstBackoff <= 1, Timeout >= 21
  PROVE  Spec => QuickFailuresAreRetried
<1>1. ASSUME StartupInv, QuickInv, [Next]_vars
      PROVE  [stage = "sleeping" /\ ~slow => stage' # "down" \/ crashes' # crashes]_vars
  <2> SUFFICES ASSUME stage = "sleeping", ~slow, stage' = "down"
               PROVE  crashes' # crashes
    OBVIOUS
  <2>1. /\ attempt \in 1..MaxAttempts /\ attempt < MaxAttempts
        /\ backoff \in 0..MaxBackoff /\ elapsed \in 0..Timeout /\ crashes \in Nat
    BY <1>1, StartupAssumption DEF StartupInv, TypeOK, SleepInv
  <2>2. CASE Crash
    BY <2>1, <2>2 DEF Crash
  <2>3. ~Sleep
    <3>1. \A awake \in Wakes : awake <= elapsed + backoff + (backoff + 4) \div 5
      BY <2>1, StartupAssumption DEF Wakes, Lesser
    <3>2. elapsed + backoff + (backoff + 4) \div 5 < 21
      BY <1>1, <2>1, StartupAssumption DEF QuickInv
    <3>3. \A awake \in Wakes : awake \in Nat /\ awake < Timeout
      <4>1. \A awake \in Wakes : awake \in Nat
        BY <2>1, StartupAssumption DEF Wakes, Lesser
      <4> QED
        BY <2>1, <3>1, <3>2, <4>1, StartupAssumption
    <3> QED
      BY <3>3, StartupAssumption DEF Sleep
  <2> QED
    BY <1>1, <2>2, <2>3
    DEF Next, Process, Start, Connect, ConnectFails, OutOfTime, Execute, DatabaseChanges, vars
<1> QED
  BY <1>1, Invariant, QuickInvariant, PTL DEF Spec, QuickFailuresAreRetried

=============================================================================
