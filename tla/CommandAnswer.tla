---------------------------- MODULE CommandAnswer -----------------------------
(***************************************************************************)
(* What the connector promises the platform about commands, whatever its   *)
(* goroutines do: a command addressed to it is answered at most once, by a *)
(* response or by an error, an answer is lost only while the connector     *)
(* shuts down or its broker breaks publishes, and none is given by a       *)
(* process that has exited.  Each is answered in the end, unless its       *)
(* answer is blocked for ever by a broker that is out of reach.            *)
(***************************************************************************)
CONSTANTS
    Commands,
    MayLose     \* answers can be lost even while the connector runs

VARIABLES
    outcome,    \* the fate of each command
    blocked,    \* the commands whose answer waits for the broker; set by others
    stopping,   \* the context of the connector is cancelled
    down        \* the process has exited

vars == <<outcome, stopping, down>>

Answered == {"response", "error", "lost"}

TypeOK ==
    /\ outcome \in [Commands -> {"unknown", "open"} \cup Answered]
    /\ stopping \in BOOLEAN
    /\ down \in BOOLEAN

Init ==
    /\ outcome = [c \in Commands |-> "unknown"]
    /\ stopping = FALSE
    /\ down = FALSE

Accept(c) ==
    /\ ~down
    /\ outcome[c] = "unknown"
    /\ outcome' = [outcome EXCEPT ![c] = "open"]
    /\ UNCHANGED <<stopping, down>>

Answer(c) ==
    /\ ~down
    /\ outcome[c] = "open"
    /\ \E o \in {"response", "error"} : outcome' = [outcome EXCEPT ![c] = o]
    /\ UNCHANGED <<stopping, down>>

Lose(c) ==
    /\ ~down
    /\ stopping \/ MayLose
    /\ outcome[c] = "open"
    /\ outcome' = [outcome EXCEPT ![c] = "lost"]
    /\ UNCHANGED <<stopping, down>>

Stop ==
    /\ ~stopping
    /\ stopping' = TRUE
    /\ UNCHANGED <<outcome, down>>

Exit ==
    /\ stopping
    /\ ~down
    /\ down' = TRUE
    /\ UNCHANGED <<outcome, stopping>>

Next ==
    \/ \E c \in Commands : Accept(c) \/ Answer(c) \/ Lose(c)
    \/ Stop
    \/ Exit

Safety == Init /\ [][Next]_vars

\* An accepted command is answered unless the connector is stopped first or the
\* broker keeps the answer waiting.
Live ==
    \A c \in Commands :
        \/ outcome[c] = "open" ~> outcome[c] \in Answered \/ stopping
        \/ <>[](c \in blocked)

Spec == Safety /\ Live

===============================================================================
