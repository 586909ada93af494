------------------------------- MODULE Startup -------------------------------
(***************************************************************************)
(* From the start of the process to serving: connecting to the database    *)
(* with backoff under a deadline, and, except in production, statements    *)
(* that create what is missing and whose failure is only logged. The       *)
(* deadline covers both. What they create is not the whole schema: the     *)
(* migration files add more tables, and nothing here runs those. A process *)
(* that gives up or crashes is restarted by Docker; one whose log files    *)
(* cannot be opened or whose DATABASE_URL does not parse gives up at every *)
(* start.                                                                  *)
(*                                                                         *)
(* Time is counted in seconds since the deadline began to run.             *)
(***************************************************************************)
EXTENDS Naturals, Sequences

CONSTANTS
    Timeout,                    \* 30
    MaxAttempts,                \* 5
    FirstBackoff, MaxBackoff,   \* 1 and 30
    MaxCrashes                  \* bound on crashes, for TLC

ASSUME StartupAssumption ==
    /\ Timeout \in Nat \ {0}
    /\ MaxAttempts \in Nat \ {0}
    /\ MaxBackoff \in Nat
    /\ FirstBackoff \in 0..MaxBackoff
    /\ MaxCrashes \in Nat

VARIABLES
    env,        \* what the process is given: it does not change
    dbUp,       \* the database answers
    schema,     \* what exists of what InitDB creates
    stage,
    attempt, backoff,
    elapsed,    \* of the time until the deadline
    next,       \* the statement to come
    slow,       \* an attempt to connect took a while before it failed
    clean,      \* no statement of this start has failed
    crashes

vars == <<env, dbUp, schema, stage, attempt, backoff, elapsed, next, slow, clean, crashes>>

\* What InitDB creates, in its order, and what each depends on. The columns
\* that depend on messages alone are one; indexes are left out.
Statements_ViewsFirst ==
    <<"workspaces", "conversations", "conversation_members", "last_read_at",
      "message_views", "messages", "columns", "message_reactions",
      "thread_root_message_id">>
Statements ==
    <<"workspaces", "conversations", "conversation_members", "last_read_at",
      "messages", "columns", "message_reactions", "message_views",
      "thread_root_message_id">>
Environments ==
    [logs : BOOLEAN,                        \* its log files can be opened
     url : {"none", "malformed", "usable"}, \* DATABASE_URL
     production : BOOLEAN]
Schema == {Statements[i] : i \in 1..Len(Statements)}
Needs(object) ==
    CASE object = "workspaces" -> {}
      [] object = "conversations" -> {"workspaces"}
      [] object = "last_read_at" -> {"conversation_members"}
      [] object \in {"conversation_members", "messages"} -> {"conversations"}
      [] OTHER -> {"messages"}

TypeOK ==
    /\ env \in Environments
    /\ {dbUp, slow, clean} \subseteq BOOLEAN
    /\ schema \subseteq Schema
    /\ stage \in {"down", "connecting", "sleeping", "migrating", "serving"}
    /\ attempt \in 1..MaxAttempts
    /\ backoff \in 0..MaxBackoff
    /\ elapsed \in 0..Timeout
    /\ next \in 1..Len(Statements)
    /\ crashes \in 0..MaxCrashes

\* An earlier version, or an earlier start, may have left any part of it.
Init ==
    /\ env \in Environments
    /\ dbUp \in BOOLEAN
    /\ schema \in {S \in SUBSET Schema : \A object \in S : Needs(object) \subseteq S}
    /\ stage = "down"
    /\ attempt = 1
    /\ backoff = FirstBackoff
    /\ elapsed = 0
    /\ next = 1
    /\ slow = FALSE
    /\ clean = TRUE
    /\ crashes = 0

-----------------------------------------------------------------------------
(* The process                                                             *)

\* Without its logs or with a URL that does not parse it exits again. Without
\* a URL it serves at once, every endpoint answering with an error.
Startable == env.logs /\ env.url # "malformed"
Start ==
    /\ stage = "down"
    /\ stage' = CASE ~Startable -> "down"
                  [] Startable /\ env.url = "none" -> "serving"
                  [] OTHER -> "connecting"
    /\ attempt' = 1
    /\ backoff' = FirstBackoff
    /\ elapsed' = 0
    /\ next' = 1
    /\ slow' = FALSE
    /\ clean' = TRUE
    /\ UNCHANGED <<env, dbUp, schema, crashes>>

\* run returns the error and the process exits.
GiveUp_Retries == stage' = "connecting"
GiveUp == stage' = "down"

\* An attempt is a new pool and a ping.
Connect ==
    /\ stage = "connecting"
    /\ elapsed < Timeout
    /\ dbUp
    /\ stage' = IF env.production THEN "serving" ELSE "migrating"
    /\ UNCHANGED <<env, dbUp, schema, attempt, backoff, elapsed, next, slow, clean, crashes>>

\* It fails at once, or hangs for a time, the deadline at the latest.
ConnectFails ==
    /\ stage = "connecting"
    /\ elapsed < Timeout
    /\ ~dbUp
    /\ elapsed' \in elapsed..Timeout
    /\ slow' = (slow \/ elapsed' > elapsed)
    /\ IF attempt = MaxAttempts THEN GiveUp ELSE stage' = "sleeping"
    /\ UNCHANGED <<env, dbUp, schema, attempt, backoff, next, clean, crashes>>

OutOfTime ==
    /\ stage = "connecting"
    /\ elapsed >= Timeout
    /\ GiveUp
    /\ UNCHANGED <<env, dbUp, schema, attempt, backoff, elapsed, next, slow, clean, crashes>>

Lesser(a, b) == IF a < b THEN a ELSE b

NextBackoff_Tripled == Lesser(3 * backoff, MaxBackoff)
NextBackoff == Lesser(2 * backoff, MaxBackoff)

\* The jitter is less than a fifth of the backoff: rounded up here.
Wakes == {elapsed + Lesser(backoff + jitter, MaxBackoff) : jitter \in 0..((backoff + 4) \div 5)}

Sleep_Uninterrupted ==
    /\ stage = "sleeping"
    /\ elapsed' \in Wakes
    /\ attempt' = attempt + 1
    /\ backoff' = NextBackoff
    /\ stage' = "connecting"
    /\ UNCHANGED <<env, dbUp, schema, next, slow, clean, crashes>>
\* When both the timer and the deadline are up, select takes either.
Sleep ==
    /\ stage = "sleeping"
    /\ \E awake \in Wakes :
        \/ /\ awake <= Timeout
           /\ elapsed' = awake
           /\ attempt' = attempt + 1
           /\ backoff' = NextBackoff
           /\ stage' = "connecting"
        \/ /\ awake >= Timeout
           /\ elapsed' = Timeout
           /\ GiveUp
           /\ UNCHANGED <<attempt, backoff>>
    /\ UNCHANGED <<env, dbUp, schema, next, slow, clean, crashes>>

\* A statement takes effect unless the database is gone, the deadline passes
\* or an earlier one it depends on has failed. The next one follows anyway.
Execute ==
    /\ stage = "migrating"
    /\ elapsed' \in {elapsed, Timeout}
    /\ LET object == Statements[next]
           works == dbUp /\ elapsed' < Timeout /\ Needs(object) \subseteq schema
       IN  /\ schema' = IF works THEN schema \cup {object} ELSE schema
           /\ clean' = (clean /\ dbUp /\ elapsed' < Timeout)
    /\ IF next = Len(Statements)
       THEN stage' = "serving" /\ UNCHANGED next
       ELSE next' = next + 1 /\ UNCHANGED stage
    /\ UNCHANGED <<env, dbUp, attempt, backoff, slow, crashes>>

-----------------------------------------------------------------------------
(* Its surroundings                                                        *)

Crash ==
    /\ stage # "down"
    /\ crashes < MaxCrashes
    /\ crashes' = crashes + 1
    /\ stage' = "down"
    /\ UNCHANGED <<env, dbUp, schema, attempt, backoff, elapsed, next, slow, clean>>

DatabaseChanges ==
    /\ dbUp' = ~dbUp
    /\ UNCHANGED <<env, schema, stage, attempt, backoff, elapsed, next, slow, clean, crashes>>

Process == Start \/ Connect \/ ConnectFails \/ OutOfTime \/ Sleep \/ Execute
Next == Process \/ Crash \/ DatabaseChanges

\* The process runs on, and Docker restarts it.
Spec == Init /\ [][Next]_vars /\ WF_vars(Process)

-----------------------------------------------------------------------------
(* Properties                                                              *)

\* The deadline leaves room for the backoff, the jitter at its worst: as long
\* as attempts fail at once, none but the last makes the process give up.
QuickFailuresAreRetried ==
    [][stage = "sleeping" /\ ~slow => stage' # "down" \/ crashes' # crashes]_vars

\* A start of which no statement met a failure of the database leaves all
\* that InitDB creates, whatever part of it was there: the order follows the
\* dependencies.
CleanStartCompletes ==
    stage = "serving" /\ env.url = "usable" /\ ~env.production /\ clean => schema = Schema

\* When the database stays up, a process that can start at all comes to serve
\* and goes on serving.
StaysServing == Startable /\ <>[]dbUp => <>[](stage = "serving")

=============================================================================
