--------------------------- MODULE CommandAckProofs ---------------------------
(***************************************************************************)
(* What holds of CommandAck for any number of commands, eventHandlers and  *)
(* devices, any definition, payload and state, and any buffer size.        *)
(***************************************************************************)
EXTENDS CommandAck, FiniteSetTheorems, TLAPS

\* TypeOK without the sign of wg, which needs the count of the goroutines.
KindsOK == ControlTypeOK /\ LoopTypeOK /\ RegistryTypeOK /\ HandlerTypeOK /\ AnswerTypeOK

\* The loop works on a command whenever it is between two receives.
LoopAtWork == cmd \notin {"idle", "stopped"} => at \in Commands

-------------------------------------------------------------------------------
\* The inductive invariant: at every moment at most one party can answer a
\* command, and nobody has answered it before.

Unanswered(c) == replies[c] = <<>> /\ c \notin lost

\* The registry has never heard of the command.
Untouched(c) ==
    /\ c \notin pending
    /\ delivering[c] = "no"
    /\ timer[c] = "off"
    /\ Unanswered(c)

LoopHolds(c) == at = c /\ cmd \notin {"idle", "stopped"}

FreshInv ==
    \A c \in Commands : request[c] = NoRequest => Untouched(c) /\ ~LoopHolds(c)

BufferInv ==
    \A i \in DOMAIN commandbuffer :
        /\ request[commandbuffer[i]] # NoRequest
        /\ Untouched(commandbuffer[i])
        /\ ~LoopHolds(commandbuffer[i])
        /\ \A j \in DOMAIN commandbuffer : commandbuffer[i] = commandbuffer[j] => i = j

LoopInv ==
    /\ cmd \in {"expecting", "registering"} => Untouched(at) /\ cancelAck = "nil"
    /\ cmd \in {"publishing", "cancelling"} /\ cancelAck # "entry" => Untouched(at)
    /\ cmd \in {"publishing", "cancelling"} /\ cancelAck = "noop" => closed
    /\ cmd = "cancelling" => cancelAck # "nil"
    /\ cmd \in {"getting", "responding", "failing"} =>
          /\ at \notin pending
          /\ delivering[at] = "no"
          /\ timer[at] # "failing"
          /\ Unanswered(at)

RegistryInv ==
    \A c \in Commands :
        /\ c \in pending => timer[c] \in {"armed", "fired"} /\ delivering[c] = "no"
        /\ c \in pending \/ DeliveryOwes(c) \/ TimerOwes(c) => Unanswered(c)
        /\ TimerOwes(c) => delivering[c] = "no"
        /\ timer[c] = "armed" => c \in pending

OneAnswerer == FreshInv /\ BufferInv /\ LoopInv /\ RegistryInv /\ AnsweredOnce

USE RequestsAssumption, FlagsAssumption, CommandsAssumption, CommandBufferSizeAssumption

-------------------------------------------------------------------------------
\* SendCommandError and Respond keep the kinds of what they change.
LEMMA AnswersKeepKinds ==
    ASSUME AnswerTypeOK, NEW c \in Commands,
           Responded(c) \/ RespondRefused \/ SendCommandError(c)
    PROVE  AnswerTypeOK'
<1> USE DEF AnswerTypeOK
<1>1. \A e \in {"response", "error"} : Append(replies[c], e) \in Seq({"response", "error"})
    OBVIOUS
<1>2. CASE Responded(c)
    BY <1>1, <1>2 DEF Responded
<1>3. CASE RespondRefused
    BY <1>3 DEF RespondRefused, answerVars
<1>4. CASE SendCommandError(c)
    BY <1>1, <1>4 DEF SendCommandError
<1>5. QED
    BY <1>2, <1>3, <1>4

\* Every variable keeps its kind, and the loop its command, in every step.
LEMMA KindsStep == KindsOK /\ LoopAtWork /\ [Next]_vars => KindsOK' /\ LoopAtWork'
<1> SUFFICES ASSUME KindsOK, LoopAtWork, [Next]_vars
             PROVE  KindsOK' /\ LoopAtWork'
    OBVIOUS
<1> USE DEF KindsOK, LoopAtWork, ControlTypeOK, LoopTypeOK, RegistryTypeOK, HandlerTypeOK,
            AnswerTypeOK, controlVars, loopVars, ackVars, handlerVars, answerVars
<1>1. ASSUME NEW c \in Commands, NEW r \in Requests, Command(c, r)
      PROVE  KindsOK' /\ LoopAtWork'
    BY <1>1 DEF Command
<1>2. CASE TakeCommand
    BY <1>2 DEF TakeCommand, firstStep
<1>3. CASE Expect
    BY <1>3 DEF Expect
<1>4. CASE Register
    BY <1>4 DEF Register
<1>5. CASE SetPublished
    BY <1>5 DEF SetPublished, setCalled
<1>6. CASE SetSucceeds
    BY <1>6 DEF SetSucceeds, afterSet
<1>7. CASE SetFails
    BY <1>7 DEF SetFails
<1>8. CASE Cancel
    BY <1>8 DEF Cancel, afterCancel, stopped
<1>9. CASE Get
    BY <1>9 DEF Get
<1>10. CASE Respond
    BY <1>10, AnswersKeepKinds DEF Respond
<1>11. CASE Fail
    BY <1>11, AnswersKeepKinds DEF Fail
<1>12. CASE StopLoop
    BY <1>12 DEF StopLoop
<1>13. ASSUME NEW c \in Commands, Fire(c)
       PROVE  KindsOK' /\ LoopAtWork'
    BY <1>13 DEF Fire
<1>14. ASSUME NEW c \in Commands, Expire(c)
       PROVE  KindsOK' /\ LoopAtWork'
    BY <1>14 DEF Expire, expired
<1>15. ASSUME NEW c \in Commands, ExpireFail(c)
       PROVE  KindsOK' /\ LoopAtWork'
    BY <1>15, AnswersKeepKinds DEF ExpireFail
<1>16. ASSUME NEW h \in Handlers, NEW d \in Devices, NEW s \in DeviceStates,
              NEW retained \in BOOLEAN, Arrive(h, d, s, retained)
       PROVE  KindsOK' /\ LoopAtWork'
    BY <1>16 DEF Arrive, confirmedBy
<1>17. ASSUME NEW h \in Handlers, Check(h)
       PROVE  KindsOK' /\ LoopAtWork'
    BY <1>17 DEF Check
<1>18. ASSUME NEW h \in Handlers, Match(h)
       PROVE  KindsOK' /\ LoopAtWork'
    BY <1>18 DEF Match, stopped
<1>19. ASSUME NEW h \in Handlers, Store(h)
       PROVE  KindsOK' /\ LoopAtWork'
    BY <1>19 DEF Store
<1>20. ASSUME NEW c \in Commands, DeliverResponse(c)
       PROVE  KindsOK' /\ LoopAtWork'
  <2>1. AnswerTypeOK'
    BY <1>20, AnswersKeepKinds DEF DeliverResponse
  <2>2. delivering' \in [Commands -> {"no", "responding", "failing", "done"}]
    BY <1>20 DEF DeliverResponse
  <2>3. QED
    BY <1>20, <2>1, <2>2 DEF DeliverResponse
<1>21. ASSUME NEW c \in Commands, DeliverError(c)
       PROVE  KindsOK' /\ LoopAtWork'
    BY <1>21, AnswersKeepKinds DEF DeliverError
<1>22. CASE Shutdown
    BY <1>22 DEF Shutdown
<1>23. CASE Close
    BY <1>23 DEF Close, stopped
<1>24. CASE WatcherDone
    BY <1>24 DEF WatcherDone
<1>25. CASE MgwDisconnect
    BY <1>25 DEF MgwDisconnect
<1>26. CASE Exit
    BY <1>26 DEF Exit
<1>27. CASE UNCHANGED vars
    BY <1>27 DEF vars
<1> HIDE DEF KindsOK, LoopAtWork
<1>28. QED
    BY <1>1, <1>2, <1>3, <1>4, <1>5, <1>6, <1>7, <1>8, <1>9, <1>10, <1>11, <1>12, <1>13,
       <1>14, <1>15, <1>16, <1>17, <1>18, <1>19, <1>20, <1>21, <1>22, <1>23, <1>24, <1>25,
       <1>26, <1>27
       DEF Next, Loop, Handler, Timer, Deliver, Terminated

\* The first answer of a command is its only one and touches no other command.
LEMMA FirstAnswer ==
    ASSUME AnswerTypeOK, AnsweredOnce, NEW c \in Commands, Unanswered(c),
           Responded(c) \/ RespondRefused \/ SendCommandError(c)
    PROVE  /\ AnsweredOnce'
           /\ \A x \in Commands \ {c} : Unanswered(x) => Unanswered(x)'
           /\ RespondRefused => \A x \in Commands : Unanswered(x) => Unanswered(x)'
<1> USE DEF AnswerTypeOK, AnsweredOnce, Unanswered
<1>1. \A e \in {"response", "error"} : Len(Append(replies[c], e)) = 1
    OBVIOUS
<1>2. CASE Responded(c)
    BY <1>1, <1>2 DEF Responded, RespondRefused, answerVars
<1>3. CASE RespondRefused
    BY <1>3 DEF RespondRefused, answerVars
<1>4. CASE SendCommandError(c)
    BY <1>1, <1>4 DEF SendCommandError, RespondRefused, answerVars
<1>5. QED
    BY <1>2, <1>3, <1>4

\* No step lets a second party answer a command, or anyone answer it again.
LEMMA OneAnswererStep ==
    KindsOK /\ LoopAtWork /\ OneAnswerer /\ [Next]_vars => OneAnswerer'
<1> SUFFICES ASSUME KindsOK, LoopAtWork, OneAnswerer, [Next]_vars
             PROVE  OneAnswerer'
    OBVIOUS
<1> USE DEF KindsOK, LoopAtWork, OneAnswerer, ControlTypeOK, LoopTypeOK, RegistryTypeOK,
            HandlerTypeOK, AnswerTypeOK, FreshInv, BufferInv, LoopInv, RegistryInv, AnsweredOnce,
            LoopHolds, Untouched, Unanswered, DeliveryOwes, TimerOwes,
            controlVars, loopVars, ackVars, handlerVars, answerVars
<1>1. ASSUME NEW c \in Commands, NEW r \in Requests, Command(c, r)
      PROVE  OneAnswerer'
    BY <1>1 DEF Command
<1>2. CASE TakeCommand
  <2> DEFINE c == Head(commandbuffer)
  <2>1. /\ commandbuffer # <<>> /\ cmd = "idle" /\ at' = c /\ cancelAck' = "nil"
        /\ commandbuffer' = Tail(commandbuffer)
        /\ UNCHANGED <<request, pending, closed, timer, delivering, replies, lost>>
    BY <1>2 DEF TakeCommand
  <2>2. 1 \in DOMAIN commandbuffer /\ c = commandbuffer[1] /\ c \in Commands
    BY <2>1
  <2>3. Untouched(c) /\ request[c] # NoRequest
    BY <2>2
  <2>4. \A i \in DOMAIN commandbuffer' :
            /\ i + 1 \in DOMAIN commandbuffer
            /\ commandbuffer'[i] = commandbuffer[i + 1]
            /\ commandbuffer'[i] # c
    BY <2>1, <2>2
  <2>5. FreshInv'
    BY <2>1, <2>3
  <2>6. BufferInv'
    BY <2>1, <2>4
  <2>7. cmd' \in {"idle", "getting", "failing", "expecting", "publishing"}
    BY <1>2 DEF TakeCommand, firstStep
  <2>8. LoopInv' /\ RegistryInv' /\ AnsweredOnce'
    BY <2>1, <2>3, <2>7
  <2>9. QED
    BY <2>5, <2>6, <2>8
<1>3. CASE Expect
  <2>1. /\ at \in Commands /\ Untouched(at)
        /\ cmd = "expecting" /\ cmd' \in {"registering", "publishing"}
        /\ UNCHANGED <<request, commandbuffer, at, cancelAck, pending, closed, timer,
                       delivering, replies, lost>>
    BY <1>3 DEF Expect
  <2>2. FreshInv'
    BY <2>1
  <2>3. BufferInv'
    BY <2>1
  <2>4. LoopInv'
    BY <2>1
  <2>5. RegistryInv' /\ AnsweredOnce'
    BY <2>1
  <2>6. QED
    BY <2>2, <2>3, <2>4, <2>5
<1>4. CASE Register
    BY <1>4 DEF Register
<1>5. CASE SetPublished
    BY <1>5 DEF SetPublished, setCalled
<1>6. CASE SetSucceeds
    BY <1>6 DEF SetSucceeds, afterSet
<1>7. CASE SetFails
    BY <1>7 DEF SetFails
<1>8. CASE Cancel
    BY <1>8 DEF Cancel, afterCancel, stopped
<1>9. CASE Get
    BY <1>9 DEF Get
<1>10. CASE Respond
  <2>1. /\ at \in Commands
        /\ Unanswered(at)
        /\ Responded(at) \/ RespondRefused
        /\ cmd = "responding" /\ cmd' \in {"idle", "failing"}
        /\ cmd' = "failing" => RespondRefused
        /\ UNCHANGED <<request, commandbuffer, at, pending, timer, delivering>>
    BY <1>10 DEF Respond
  <2>2. /\ AnsweredOnce'
        /\ \A x \in Commands \ {at} : Unanswered(x) => Unanswered(x)'
        /\ RespondRefused => Unanswered(at)'
    BY <2>1, FirstAnswer
  <2> HIDE DEF Unanswered, AnsweredOnce
  <2>3. FreshInv'
    BY <2>1, <2>2
  <2>4. BufferInv'
    BY <2>1, <2>2
  <2>5. LoopInv'
    BY <2>1, <2>2
  <2>6. RegistryInv'
    BY <2>1, <2>2
  <2>7. QED
    BY <2>2, <2>3, <2>4, <2>5, <2>6
<1>11. CASE Fail
  <2>1. /\ at \in Commands /\ Unanswered(at) /\ SendCommandError(at)
        /\ cmd = "failing" /\ cmd' = "idle"
        /\ UNCHANGED <<request, commandbuffer, at, pending, timer, delivering>>
    BY <1>11 DEF Fail
  <2>2. AnsweredOnce' /\ \A x \in Commands \ {at} : Unanswered(x) => Unanswered(x)'
    BY <2>1, FirstAnswer
  <2> HIDE DEF Unanswered, AnsweredOnce
  <2>3. FreshInv'
    BY <2>1, <2>2
  <2>4. BufferInv'
    BY <2>1, <2>2
  <2>5. LoopInv'
    BY <2>1, <2>2
  <2>6. RegistryInv'
    BY <2>1, <2>2
  <2>7. QED
    BY <2>2, <2>3, <2>4, <2>5, <2>6
<1>12. CASE StopLoop
    BY <1>12 DEF StopLoop
<1>13. ASSUME NEW c \in Commands, Fire(c)
      PROVE  OneAnswerer'
    BY <1>13 DEF Fire
<1>14. ASSUME NEW c \in Commands, Expire(c)
      PROVE  OneAnswerer'
    BY <1>14 DEF Expire, expired
<1>15. ASSUME NEW c \in Commands, ExpireFail(c)
      PROVE  OneAnswerer'
  <2>1. /\ Unanswered(c) /\ SendCommandError(c)
        /\ timer[c] = "failing" /\ timer' = [timer EXCEPT ![c] = "done"]
        /\ UNCHANGED <<request, commandbuffer, at, cmd, cancelAck, pending, closed, delivering>>
    BY <1>15 DEF ExpireFail
  <2>2. AnsweredOnce' /\ \A x \in Commands \ {c} : Unanswered(x) => Unanswered(x)'
    BY <2>1, FirstAnswer
  <2> HIDE DEF Unanswered, AnsweredOnce
  <2>3. FreshInv'
    BY <2>1, <2>2
  <2>4. BufferInv'
    BY <2>1, <2>2
  <2>5. LoopInv'
    BY <2>1, <2>2
  <2>6. RegistryInv'
    BY <2>1, <2>2
  <2>7. QED
    BY <2>2, <2>3, <2>4, <2>5, <2>6
<1>16. ASSUME NEW h \in Handlers, NEW d \in Devices, NEW s \in DeviceStates, NEW retained \in BOOLEAN,
              Arrive(h, d, s, retained)
      PROVE  OneAnswerer'
    BY <1>16 DEF Arrive
<1>17. ASSUME NEW h \in Handlers, Check(h)
      PROVE  OneAnswerer'
    BY <1>17 DEF Check
<1>18. ASSUME NEW h \in Handlers, Match(h)
      PROVE  OneAnswerer'
    BY <1>18 DEF Match, stopped, matched, pendingOf
<1>19. ASSUME NEW h \in Handlers, Store(h)
      PROVE  OneAnswerer'
    BY <1>19 DEF Store
<1>20. ASSUME NEW c \in Commands, DeliverResponse(c)
      PROVE  OneAnswerer'
  <2>1. /\ Unanswered(c)
        /\ Responded(c) \/ RespondRefused
        /\ delivering[c] = "responding"
        /\ delivering'[c] \in {"done", "failing"}
        /\ delivering'[c] = "failing" => RespondRefused
        /\ \A x \in Commands \ {c} : delivering'[x] = delivering[x]
        /\ UNCHANGED <<request, commandbuffer, at, cmd, cancelAck, pending, closed, timer>>
    BY <1>20 DEF DeliverResponse
  <2>2. /\ AnsweredOnce'
        /\ \A x \in Commands \ {c} : Unanswered(x) => Unanswered(x)'
        /\ RespondRefused => Unanswered(c)'
    BY <2>1, FirstAnswer
  <2> HIDE DEF Unanswered, AnsweredOnce
  <2>3. FreshInv'
    BY <2>1, <2>2
  <2>4. BufferInv'
    BY <2>1, <2>2
  <2>5. LoopInv'
    BY <2>1, <2>2
  <2>6. RegistryInv'
    BY <2>1, <2>2
  <2>7. QED
    BY <2>2, <2>3, <2>4, <2>5, <2>6
<1>21. ASSUME NEW c \in Commands, DeliverError(c)
      PROVE  OneAnswerer'
  <2>1. /\ Unanswered(c) /\ SendCommandError(c)
        /\ delivering[c] = "failing" /\ delivering' = [delivering EXCEPT ![c] = "done"]
        /\ UNCHANGED <<request, commandbuffer, at, cmd, cancelAck, pending, closed, timer>>
    BY <1>21 DEF DeliverError
  <2>2. AnsweredOnce' /\ \A x \in Commands \ {c} : Unanswered(x) => Unanswered(x)'
    BY <2>1, FirstAnswer
  <2> HIDE DEF Unanswered, AnsweredOnce
  <2>3. FreshInv'
    BY <2>1, <2>2
  <2>4. BufferInv'
    BY <2>1, <2>2
  <2>5. LoopInv'
    BY <2>1, <2>2
  <2>6. RegistryInv'
    BY <2>1, <2>2
  <2>7. QED
    BY <2>2, <2>3, <2>4, <2>5, <2>6
<1>22. CASE Shutdown
    BY <1>22 DEF Shutdown
<1>23. CASE Close
    BY <1>23 DEF Close, stopped
<1>24. CASE WatcherDone
    BY <1>24 DEF WatcherDone
<1>25. CASE MgwDisconnect
    BY <1>25 DEF MgwDisconnect
<1>26. CASE Exit
    BY <1>26 DEF Exit
<1>27. CASE UNCHANGED vars
    BY <1>27 DEF vars
<1> HIDE DEF KindsOK, LoopAtWork, OneAnswerer
<1>28. QED
    BY <1>1, <1>2, <1>3, <1>4, <1>5, <1>6, <1>7, <1>8, <1>9, <1>10, <1>11, <1>12,
       <1>13, <1>14, <1>15, <1>16, <1>17, <1>18, <1>19, <1>20, <1>21, <1>22, <1>23, <1>24,
       <1>25, <1>26, <1>27
       DEF Next, Loop, Handler, Timer, Deliver, Terminated

-------------------------------------------------------------------------------
\* The counter of the WaitGroup: one for each goroutine main waits for.

Delivering == { c \in Commands : DeliveryOwes(c) }

Others ==
    (IF cmd = "stopped" THEN 0 ELSE 1) + (IF connected THEN 1 ELSE 0)
    + (IF watcher = "done" THEN 0 ELSE 1)

CountInv == wg = Others + Cardinality(Delivering)

\* Only an open registry, whose watcher still waits, has entries.
OpenInv ==
    /\ cmd \in {"expecting", "registering"} => AckEnabled
    /\ AckEnabled /\ ~closed => watcher = "waiting"
    /\ pending # {} => AckEnabled /\ ~closed

ExitInv == exited => wg = 0

\* What is registered, or would be in an open registry, expects something.
ConfirmableInv ==
    /\ cmd = "registering" => isAcknowledgeable(expected[at])
    /\ cmd \in {"publishing", "cancelling"} /\ cancelAck # "nil" =>
          isAcknowledgeable(expected[at])
    /\ \A c \in pending : isAcknowledgeable(expected[c])

\* The entries an eventHandler matches are answered by goroutines of their own,
\* each counted; none of them was counted before.
LEMMA MatchCounts ==
    ASSUME KindsOK, OneAnswerer, CountInv, NEW h \in Handlers, Match(h)
    PROVE  CountInv' /\ (wg' > wg => ~closed /\ pending # {})
<1> DEFINE m == IF closed THEN {} ELSE matched(hDevice[h], hState[h])
<1>1. m \subseteq pending /\ pending \subseteq Commands /\ IsFiniteSet(m)
    BY FS_Subset DEF matched, pendingOf, KindsOK, RegistryTypeOK
<1>2. wg' = wg + Cardinality(m) /\ UNCHANGED <<cmd, connected, watcher>>
    BY DEF Match, wgAdded, loopVars
<1>3. \A c \in Commands : delivering'[c] = IF c \in m THEN "responding" ELSE delivering[c]
    BY DEF Match
<1> HIDE DEF m
<1>4. Delivering' = Delivering \cup m /\ Delivering \cap m = {}
    BY <1>1, <1>3 DEF Delivering, DeliveryOwes, OneAnswerer, RegistryInv
<1>5. IsFiniteSet(Delivering)
    BY FS_Subset DEF Delivering
<1>6. Cardinality(Delivering') = Cardinality(Delivering) + Cardinality(m)
  <2>1. Cardinality(Delivering \cup m)
            = Cardinality(Delivering) + Cardinality(m) - Cardinality(Delivering \cap m)
    BY <1>1, <1>5, FS_Union
  <2>2. Cardinality(Delivering \cap m) = 0
    BY <1>4, FS_EmptySet
  <2>3. Cardinality(Delivering) \in Nat /\ Cardinality(m) \in Nat
    BY <1>1, <1>5, FS_CardinalityType
  <2>4. QED
    BY <1>4, <2>1, <2>2, <2>3
<1>7. /\ Cardinality(m) \in Nat /\ Cardinality(Delivering) \in Nat
      /\ Cardinality(m) > 0 => m # {}
    BY <1>1, <1>5, FS_CardinalityType, FS_EmptySet
<1>8. m # {} => ~closed /\ pending # {}
    BY <1>1 DEF m
<1>9. Others' = Others /\ Others \in Nat
    BY <1>2 DEF Others
<1>10. QED
    BY <1>2, <1>6, <1>7, <1>8, <1>9 DEF CountInv

\* A goroutine is taken off the counter when its delivery has ended.
LEMMA DeliverCounts ==
    ASSUME KindsOK, CountInv, NEW c \in Commands, DeliverResponse(c) \/ DeliverError(c)
    PROVE  CountInv' /\ ~(wg' > wg)
<1>1. IsFiniteSet(Delivering) /\ c \in Delivering
    BY FS_Subset DEF Delivering, DeliveryOwes, DeliverResponse, DeliverError
<1>2. /\ Cardinality(Delivering) \in Nat
      /\ Cardinality(Delivering \ {c}) = Cardinality(Delivering) - 1
    BY <1>1, FS_RemoveElement, FS_CardinalityType
<1>3. Others' = Others /\ Others \in Nat
    BY DEF Others, DeliverResponse, DeliverError, loopVars
<1>4. \/ wg' = wg - 1 /\ delivering' = [delivering EXCEPT ![c] = "done"]
      \/ wg' = wg /\ delivering' = [delivering EXCEPT ![c] = "failing"]
    BY DEF DeliverResponse, DeliverError
<1>5. CASE delivering' = [delivering EXCEPT ![c] = "done"] /\ wg' = wg - 1
  <2>1. Delivering' = Delivering \ {c}
    BY <1>1, <1>5 DEF Delivering, DeliveryOwes, KindsOK, RegistryTypeOK
  <2>2. QED
    BY <1>2, <1>3, <1>5, <2>1 DEF CountInv
<1>6. CASE delivering' = [delivering EXCEPT ![c] = "failing"] /\ wg' = wg
  <2>1. Delivering' = Delivering
    BY <1>1, <1>6 DEF Delivering, DeliveryOwes, KindsOK, RegistryTypeOK
  <2>2. QED
    BY <1>2, <1>3, <1>6, <2>1 DEF CountInv
<1>7. QED
    BY <1>4, <1>5, <1>6

\* Every other step adds and takes away as many as start and end.
LEMMA CountStep ==
    KindsOK /\ OneAnswerer /\ CountInv /\ OpenInv /\ [Next]_vars
        => CountInv' /\ (wg' > wg => ~closed /\ pending # {})
<1> SUFFICES ASSUME KindsOK, OneAnswerer, CountInv, OpenInv, [Next]_vars
             PROVE  CountInv' /\ (wg' > wg => ~closed /\ pending # {})
    OBVIOUS
<1> DEFINE G == CountInv' /\ (wg' > wg => ~closed /\ pending # {})
<1>0. Cardinality(Delivering) \in Nat /\ (UNCHANGED delivering => Delivering' = Delivering)
    BY FS_Subset, FS_CardinalityType DEF Delivering, DeliveryOwes
<1> USE DEF CountInv, Others, KindsOK, LoopTypeOK, RegistryTypeOK, ControlTypeOK,
            controlVars, loopVars, ackVars, handlerVars, answerVars
<1>1. ASSUME NEW c \in Commands, NEW r \in Requests, Command(c, r)
      PROVE  G
    BY <1>0, <1>1 DEF Command
<1>2. CASE TakeCommand
    BY <1>0, <1>2 DEF TakeCommand, firstStep
<1>3. CASE Expect
    BY <1>0, <1>3 DEF Expect
<1>4. CASE Register
    BY <1>0, <1>4 DEF Register
<1>5. CASE SetPublished
    BY <1>0, <1>5 DEF SetPublished
<1>6. CASE SetSucceeds
    BY <1>0, <1>6 DEF SetSucceeds, afterSet
<1>7. CASE SetFails
    BY <1>0, <1>7 DEF SetFails
<1>8. CASE Cancel
    BY <1>0, <1>8 DEF Cancel, afterCancel
<1>9. CASE Get
    BY <1>0, <1>9 DEF Get
<1>10. CASE Respond
    BY <1>0, <1>10 DEF Respond
<1>11. CASE Fail
    BY <1>0, <1>11 DEF Fail
<1>12. CASE StopLoop
    BY <1>0, <1>12 DEF StopLoop
<1>13. ASSUME NEW c \in Commands, Fire(c)
      PROVE  G
    BY <1>0, <1>13 DEF Fire
<1>14. ASSUME NEW c \in Commands, Expire(c)
      PROVE  G
    BY <1>0, <1>14 DEF Expire
<1>15. ASSUME NEW c \in Commands, ExpireFail(c)
      PROVE  G
    BY <1>0, <1>15 DEF ExpireFail
<1>16. ASSUME NEW h \in Handlers, NEW d \in Devices, NEW s \in DeviceStates, NEW retained \in BOOLEAN,
              Arrive(h, d, s, retained)
      PROVE  G
    BY <1>0, <1>16 DEF Arrive
<1>17. ASSUME NEW h \in Handlers, Check(h)
      PROVE  G
    BY <1>0, <1>17 DEF Check
<1>18. ASSUME NEW h \in Handlers, Match(h)
      PROVE  G
    BY <1>18, MatchCounts
<1>19. ASSUME NEW h \in Handlers, Store(h)
      PROVE  G
    BY <1>0, <1>19 DEF Store
<1>20. ASSUME NEW c \in Commands, DeliverResponse(c)
      PROVE  G
    BY <1>20, DeliverCounts
<1>21. ASSUME NEW c \in Commands, DeliverError(c)
      PROVE  G
    BY <1>21, DeliverCounts
<1>22. CASE Shutdown
    BY <1>0, <1>22 DEF Shutdown
<1>23. CASE Close
    BY <1>0, <1>23 DEF Close
<1>24. CASE WatcherDone
    BY <1>0, <1>24 DEF WatcherDone
<1>25. CASE MgwDisconnect
    BY <1>0, <1>25 DEF MgwDisconnect
<1>26. CASE Exit
    BY <1>0, <1>26 DEF Exit
<1>27. CASE UNCHANGED vars
    BY <1>0, <1>27 DEF vars
<1> HIDE DEF KindsOK, CountInv, Others
<1>28. QED
    BY <1>1, <1>2, <1>3, <1>4, <1>5, <1>6, <1>7, <1>8, <1>9, <1>10, <1>11, <1>12,
       <1>13, <1>14, <1>15, <1>16, <1>17, <1>18, <1>19, <1>20, <1>21, <1>22, <1>23, <1>24,
       <1>25, <1>26, <1>27
       DEF Next, Loop, Handler, Timer, Deliver, Terminated

\* The registry takes entries only while it is open.
LEMMA OpenStep == KindsOK /\ OpenInv /\ [Next]_vars => OpenInv'
<1> SUFFICES ASSUME KindsOK, OpenInv, [Next]_vars
             PROVE  OpenInv'
    OBVIOUS
<1> USE DEF OpenInv, KindsOK, LoopTypeOK, RegistryTypeOK, ControlTypeOK,
            controlVars, loopVars, ackVars, handlerVars, answerVars
<1>1. ASSUME NEW c \in Commands, NEW r \in Requests, Command(c, r)
      PROVE  OpenInv'
    BY <1>1 DEF Command
<1>2. CASE TakeCommand
    BY <1>2 DEF TakeCommand, firstStep
<1>3. CASE Expect
    BY <1>3 DEF Expect
<1>4. CASE Register
    BY <1>4 DEF Register
<1>5. CASE SetPublished
    BY <1>5 DEF SetPublished
<1>6. CASE SetSucceeds
    BY <1>6 DEF SetSucceeds, afterSet
<1>7. CASE SetFails
    BY <1>7 DEF SetFails
<1>8. CASE Cancel
    BY <1>8 DEF Cancel, afterCancel
<1>9. CASE Get
    BY <1>9 DEF Get
<1>10. CASE Respond
    BY <1>10 DEF Respond
<1>11. CASE Fail
    BY <1>11 DEF Fail
<1>12. CASE StopLoop
    BY <1>12 DEF StopLoop
<1>13. ASSUME NEW c \in Commands, Fire(c)
      PROVE  OpenInv'
    BY <1>13 DEF Fire
<1>14. ASSUME NEW c \in Commands, Expire(c)
      PROVE  OpenInv'
    BY <1>14 DEF Expire
<1>15. ASSUME NEW c \in Commands, ExpireFail(c)
      PROVE  OpenInv'
    BY <1>15 DEF ExpireFail
<1>16. ASSUME NEW h \in Handlers, NEW d \in Devices, NEW s \in DeviceStates, NEW retained \in BOOLEAN,
              Arrive(h, d, s, retained)
      PROVE  OpenInv'
    BY <1>16 DEF Arrive
<1>17. ASSUME NEW h \in Handlers, Check(h)
      PROVE  OpenInv'
    BY <1>17 DEF Check
<1>18. ASSUME NEW h \in Handlers, Match(h)
      PROVE  OpenInv'
    BY <1>18 DEF Match, matched, pendingOf
<1>19. ASSUME NEW h \in Handlers, Store(h)
      PROVE  OpenInv'
    BY <1>19 DEF Store
<1>20. ASSUME NEW c \in Commands, DeliverResponse(c)
      PROVE  OpenInv'
    BY <1>20 DEF DeliverResponse
<1>21. ASSUME NEW c \in Commands, DeliverError(c)
      PROVE  OpenInv'
    BY <1>21 DEF DeliverError
<1>22. CASE Shutdown
    BY <1>22 DEF Shutdown
<1>23. CASE Close
    BY <1>23 DEF Close
<1>24. CASE WatcherDone
    BY <1>24 DEF WatcherDone
<1>25. CASE MgwDisconnect
    BY <1>25 DEF MgwDisconnect
<1>26. CASE Exit
    BY <1>26 DEF Exit
<1>27. CASE UNCHANGED vars
    BY <1>27 DEF vars
<1> HIDE DEF KindsOK, OpenInv
<1>28. QED
    BY <1>1, <1>2, <1>3, <1>4, <1>5, <1>6, <1>7, <1>8, <1>9, <1>10, <1>11, <1>12,
       <1>13, <1>14, <1>15, <1>16, <1>17, <1>18, <1>19, <1>20, <1>21, <1>22, <1>23, <1>24,
       <1>25, <1>26, <1>27
       DEF Next, Loop, Handler, Timer, Deliver, Terminated

\* The counter stays at zero once main has returned.
LEMMA ExitStep == ExitInv /\ [Next]_vars => ExitInv'
<1> SUFFICES ASSUME ExitInv, [Next]_vars
             PROVE  ExitInv'
    OBVIOUS
<1> USE DEF ExitInv, controlVars
<1>1. ASSUME NEW c \in Commands, NEW r \in Requests, Command(c, r)
      PROVE  ExitInv'
    BY <1>1 DEF Command
<1>2. CASE TakeCommand
    BY <1>2 DEF TakeCommand
<1>3. CASE Expect
    BY <1>3 DEF Expect
<1>4. CASE Register
    BY <1>4 DEF Register
<1>5. CASE SetPublished
    BY <1>5 DEF SetPublished
<1>6. CASE SetSucceeds
    BY <1>6 DEF SetSucceeds
<1>7. CASE SetFails
    BY <1>7 DEF SetFails
<1>8. CASE Cancel
    BY <1>8 DEF Cancel
<1>9. CASE Get
    BY <1>9 DEF Get
<1>10. CASE Respond
    BY <1>10 DEF Respond
<1>11. CASE Fail
    BY <1>11 DEF Fail
<1>12. CASE StopLoop
    BY <1>12 DEF StopLoop
<1>13. ASSUME NEW c \in Commands, Fire(c)
      PROVE  ExitInv'
    BY <1>13 DEF Fire
<1>14. ASSUME NEW c \in Commands, Expire(c)
      PROVE  ExitInv'
    BY <1>14 DEF Expire
<1>15. ASSUME NEW c \in Commands, ExpireFail(c)
      PROVE  ExitInv'
    BY <1>15 DEF ExpireFail
<1>16. ASSUME NEW h \in Handlers, NEW d \in Devices, NEW s \in DeviceStates, NEW retained \in BOOLEAN,
              Arrive(h, d, s, retained)
      PROVE  ExitInv'
    BY <1>16 DEF Arrive
<1>17. ASSUME NEW h \in Handlers, Check(h)
      PROVE  ExitInv'
    BY <1>17 DEF Check
<1>18. ASSUME NEW h \in Handlers, Match(h)
      PROVE  ExitInv'
    BY <1>18 DEF Match
<1>19. ASSUME NEW h \in Handlers, Store(h)
      PROVE  ExitInv'
    BY <1>19 DEF Store
<1>20. ASSUME NEW c \in Commands, DeliverResponse(c)
      PROVE  ExitInv'
    BY <1>20 DEF DeliverResponse
<1>21. ASSUME NEW c \in Commands, DeliverError(c)
      PROVE  ExitInv'
    BY <1>21 DEF DeliverError
<1>22. CASE Shutdown
    BY <1>22 DEF Shutdown
<1>23. CASE Close
    BY <1>23 DEF Close
<1>24. CASE WatcherDone
    BY <1>24 DEF WatcherDone
<1>25. CASE MgwDisconnect
    BY <1>25 DEF MgwDisconnect
<1>26. CASE Exit
    BY <1>26 DEF Exit
<1>27. CASE UNCHANGED vars
    BY <1>27 DEF vars
<1> HIDE DEF ExitInv
<1>28. QED
    BY <1>1, <1>2, <1>3, <1>4, <1>5, <1>6, <1>7, <1>8, <1>9, <1>10, <1>11, <1>12,
       <1>13, <1>14, <1>15, <1>16, <1>17, <1>18, <1>19, <1>20, <1>21, <1>22, <1>23, <1>24,
       <1>25, <1>26, <1>27
       DEF Next, Loop, Handler, Timer, Deliver, Terminated

\* The loop registers nothing without an expectation.
LEMMA ConfirmableStep ==
    KindsOK /\ LoopAtWork /\ OneAnswerer /\ ConfirmableInv /\ [Next]_vars => ConfirmableInv'
<1> SUFFICES ASSUME KindsOK, LoopAtWork, OneAnswerer, ConfirmableInv, [Next]_vars
             PROVE  ConfirmableInv'
    OBVIOUS
<1>a. LoopTypeOK /\ RegistryTypeOK /\ LoopInv /\ LoopAtWork
    BY DEF KindsOK, OneAnswerer
<1> USE <1>a DEF ConfirmableInv, LoopAtWork, LoopTypeOK, LoopInv, Untouched,
            controlVars, loopVars, ackVars, handlerVars, answerVars
<1>1. ASSUME NEW c \in Commands, NEW r \in Requests, Command(c, r)
      PROVE  ConfirmableInv'
    BY <1>1 DEF Command
<1>2. CASE TakeCommand
    BY <1>2 DEF TakeCommand, firstStep
<1>3. CASE Expect
  <2>1. cmd = "expecting" /\ at \in Commands \ pending /\ UNCHANGED <<at, cancelAck, pending>>
    BY <1>3 DEF Expect
  <2>2. \/ cmd' = "publishing" /\ UNCHANGED expected
        \/ /\ cmd' = "registering"
           /\ \E e : isAcknowledgeable(e) /\ expected' = [expected EXCEPT ![at] = e]
    BY <1>3 DEF Expect
  <2>3. CASE cmd' = "publishing" /\ UNCHANGED expected
    BY <2>1, <2>3
  <2>4. CASE /\ cmd' = "registering"
             /\ \E e : isAcknowledgeable(e) /\ expected' = [expected EXCEPT ![at] = e]
    <3>1. PICK e : isAcknowledgeable(e) /\ expected' = [expected EXCEPT ![at] = e]
      BY <2>4
    <3>2. expected'[at] = e /\ \A c \in Commands \ {at} : expected'[c] = expected[c]
      BY <2>1, <3>1
    <3>3. isAcknowledgeable(expected'[at])
      BY <3>1, <3>2
    <3>4. \A c \in pending' : isAcknowledgeable(expected'[c])
      BY <2>1, <3>2 DEF RegistryTypeOK
    <3>5. QED
      BY <2>1, <2>4, <3>3, <3>4
  <2>5. QED
    BY <2>2, <2>3, <2>4
<1>4. CASE Register
    BY <1>4 DEF Register
<1>5. CASE SetPublished
    BY <1>5 DEF SetPublished
<1>6. CASE SetSucceeds
    BY <1>6 DEF SetSucceeds, afterSet
<1>7. CASE SetFails
    BY <1>7 DEF SetFails
<1>8. CASE Cancel
    BY <1>8 DEF Cancel, afterCancel
<1>9. CASE Get
    BY <1>9 DEF Get
<1>10. CASE Respond
    BY <1>10 DEF Respond
<1>11. CASE Fail
    BY <1>11 DEF Fail
<1>12. CASE StopLoop
    BY <1>12 DEF StopLoop
<1>13. ASSUME NEW c \in Commands, Fire(c)
       PROVE  ConfirmableInv'
    BY <1>13 DEF Fire
<1>14. ASSUME NEW c \in Commands, Expire(c)
       PROVE  ConfirmableInv'
    BY <1>14 DEF Expire
<1>15. ASSUME NEW c \in Commands, ExpireFail(c)
       PROVE  ConfirmableInv'
    BY <1>15 DEF ExpireFail
<1>16. ASSUME NEW h \in Handlers, NEW d \in Devices, NEW s \in DeviceStates,
              NEW retained \in BOOLEAN, Arrive(h, d, s, retained)
       PROVE  ConfirmableInv'
    BY <1>16 DEF Arrive
<1>17. ASSUME NEW h \in Handlers, Check(h)
       PROVE  ConfirmableInv'
    BY <1>17 DEF Check
<1>18. ASSUME NEW h \in Handlers, Match(h)
       PROVE  ConfirmableInv'
    BY <1>18 DEF Match
<1>19. ASSUME NEW h \in Handlers, Store(h)
       PROVE  ConfirmableInv'
    BY <1>19 DEF Store
<1>20. ASSUME NEW c \in Commands, DeliverResponse(c)
       PROVE  ConfirmableInv'
    BY <1>20 DEF DeliverResponse
<1>21. ASSUME NEW c \in Commands, DeliverError(c)
       PROVE  ConfirmableInv'
    BY <1>21 DEF DeliverError
<1>22. CASE Shutdown
    BY <1>22 DEF Shutdown
<1>23. CASE Close
    BY <1>23 DEF Close
<1>24. CASE WatcherDone
    BY <1>24 DEF WatcherDone
<1>25. CASE MgwDisconnect
    BY <1>25 DEF MgwDisconnect
<1>26. CASE Exit
    BY <1>26 DEF Exit
<1>27. CASE UNCHANGED vars
    BY <1>27 DEF vars
<1> HIDE DEF ConfirmableInv
<1>28. QED
    BY <1>1, <1>2, <1>3, <1>4, <1>5, <1>6, <1>7, <1>8, <1>9, <1>10, <1>11, <1>12, <1>13,
       <1>14, <1>15, <1>16, <1>17, <1>18, <1>19, <1>20, <1>21, <1>22, <1>23, <1>24, <1>25,
       <1>26, <1>27
       DEF Next, Loop, Handler, Timer, Deliver, Terminated

\* Whoever gives up a command before it is answered hands it to another.
LEMMA NeverForgottenStep ==
    KindsOK /\ LoopAtWork /\ OneAnswerer /\ ConfirmableInv /\ NeverForgotten /\ [Next]_vars
        => NeverForgotten'
<1> SUFFICES ASSUME KindsOK, LoopAtWork, OneAnswerer, ConfirmableInv, NeverForgotten, [Next]_vars
             PROVE  NeverForgotten'
    OBVIOUS
<1> USE DEF KindsOK, LoopAtWork, OneAnswerer, LoopTypeOK, RegistryTypeOK, AnswerTypeOK,
            LoopInv, RegistryInv, NeverForgotten, Owed, InBuffer, LoopOwes, DeliveryOwes,
            TimerOwes, Answered, Dropped, controlVars, loopVars, ackVars, handlerVars, answerVars
<1>1. ASSUME NEW c \in Commands, NEW r \in Requests, Command(c, r)
      PROVE  NeverForgotten'
  <2>1. /\ request' = [request EXCEPT ![c] = r]
        /\ commandbuffer' = Append(commandbuffer, c)
        /\ UNCHANGED <<at, cmd, cancelAck, expected, published, pending, closed, timer,
                       delivering, replies, lost>>
    BY <1>1 DEF Command
  <2>2. InBuffer(c)' /\ \A x \in Commands : InBuffer(x) => InBuffer(x)'
    <3>1. /\ Len(commandbuffer) + 1 \in DOMAIN commandbuffer'
          /\ commandbuffer'[Len(commandbuffer) + 1] = c
          /\ \A i \in DOMAIN commandbuffer : i \in DOMAIN commandbuffer'
                                            /\ commandbuffer'[i] = commandbuffer[i]
      BY <2>1
    <3>2. QED
      BY <3>1
  <2> HIDE DEF InBuffer
  <2>3. QED
    BY <2>1, <2>2
<1>2. CASE TakeCommand
  <2>1. /\ cmd = "idle" /\ at' = commandbuffer[1] /\ cancelAck' = "nil"
        /\ commandbuffer # <<>> /\ commandbuffer' = Tail(commandbuffer)
        /\ cmd' = firstStep(request[at'])
        /\ UNCHANGED <<request, expected, published, pending, closed, timer, delivering,
                       replies, lost>>
    BY <1>2 DEF TakeCommand
  <2>2. \A x \in Commands : InBuffer(x) => InBuffer(x)' \/ x = at'
    <3>1. \A i \in DOMAIN commandbuffer \ {1} : /\ i - 1 \in DOMAIN commandbuffer'
                                                /\ commandbuffer'[i - 1] = commandbuffer[i]
      BY <2>1
    <3>2. SUFFICES ASSUME NEW x \in Commands, NEW i \in DOMAIN commandbuffer,
                          commandbuffer[i] = x
                   PROVE  InBuffer(x)' \/ x = at'
      OBVIOUS
    <3>3. CASE i = 1
      BY <2>1, <3>2, <3>3
    <3>4. CASE i # 1
      BY <3>1, <3>2, <3>4
    <3>5. QED
      BY <3>3, <3>4
  <2>3. request[at'].own => cmd' \in {"getting", "failing", "expecting", "publishing"}
    BY <2>1 DEF firstStep
  <2> HIDE DEF InBuffer
  <2>4. QED
    BY <2>1, <2>2, <2>3
<1>3. CASE Expect
    BY <1>3 DEF Expect
<1>4. CASE Register
    BY <1>4 DEF Register
<1>5. CASE SetPublished
    BY <1>5 DEF SetPublished, setCalled
<1>6. CASE SetSucceeds
  <2>1. /\ at \in Commands /\ cmd = "publishing" /\ at \in published
        /\ cmd' = IF cancelAck = "nil" THEN "responding" ELSE "idle"
        /\ UNCHANGED <<request, commandbuffer, at, cancelAck, expected, published, pending,
                       closed, timer, delivering, replies, lost>>
    BY <1>6 DEF SetSucceeds, afterSet
  <2>2. cancelAck = "noop" => Dropped(at)
    BY <2>1 DEF ConfirmableInv, Untouched
  <2>3. QED
    BY <2>1, <2>2
<1>7. CASE SetFails
    BY <1>7 DEF SetFails
<1>8. CASE Cancel
  <2>1. /\ at \in Commands /\ cmd = "cancelling"
        /\ cancelAck = "noop" \/ at \in pending => cmd' = "failing"
        /\ cancelAck \in {"entry", "noop"}
        /\ pending' = pending \ {at}
        /\ \A x \in Commands : /\ timer[x] = "failing" => timer'[x] = "failing"
                               /\ timer[x] # "off" => timer'[x] # "off"
        /\ UNCHANGED <<request, commandbuffer, at, cancelAck, expected, published, closed,
                       delivering, replies, lost>>
    BY <1>8 DEF Cancel, afterCancel, stopped
  <2>2. QED
    BY <2>1
<1>9. CASE Get
    BY <1>9 DEF Get
<1>10. CASE Respond
    BY <1>10 DEF Respond, Responded, RespondRefused
<1>11. CASE Fail
    BY <1>11 DEF Fail, SendCommandError
<1>12. CASE StopLoop
    BY <1>12 DEF StopLoop
<1>13. ASSUME NEW c \in Commands, Fire(c)
      PROVE  NeverForgotten'
    BY <1>13 DEF Fire
<1>14. ASSUME NEW c \in Commands, Expire(c)
      PROVE  NeverForgotten'
    BY <1>14 DEF Expire, expired
<1>15. ASSUME NEW c \in Commands, ExpireFail(c)
      PROVE  NeverForgotten'
    BY <1>15 DEF ExpireFail, SendCommandError
<1>16. ASSUME NEW h \in Handlers, NEW d \in Devices, NEW s \in DeviceStates, NEW retained \in BOOLEAN,
              Arrive(h, d, s, retained)
      PROVE  NeverForgotten'
    BY <1>16 DEF Arrive
<1>17. ASSUME NEW h \in Handlers, Check(h)
      PROVE  NeverForgotten'
    BY <1>17 DEF Check
<1>18. ASSUME NEW h \in Handlers, Match(h)
      PROVE  NeverForgotten'
    BY <1>18 DEF Match, stopped, matched, pendingOf
<1>19. ASSUME NEW h \in Handlers, Store(h)
      PROVE  NeverForgotten'
    BY <1>19 DEF Store
<1>20. ASSUME NEW c \in Commands, DeliverResponse(c)
      PROVE  NeverForgotten'
    BY <1>20 DEF DeliverResponse, Responded, RespondRefused
<1>21. ASSUME NEW c \in Commands, DeliverError(c)
      PROVE  NeverForgotten'
    BY <1>21 DEF DeliverError, SendCommandError
<1>22. CASE Shutdown
    BY <1>22 DEF Shutdown
<1>23. CASE Close
    BY <1>23 DEF Close, stopped
<1>24. CASE WatcherDone
    BY <1>24 DEF WatcherDone
<1>25. CASE MgwDisconnect
    BY <1>25 DEF MgwDisconnect
<1>26. CASE Exit
    BY <1>26 DEF Exit
<1>27. CASE UNCHANGED vars
    BY <1>27 DEF vars
<1> HIDE DEF KindsOK, LoopAtWork, OneAnswerer, NeverForgotten
<1>28. QED
    BY <1>1, <1>2, <1>3, <1>4, <1>5, <1>6, <1>7, <1>8, <1>9, <1>10, <1>11, <1>12,
       <1>13, <1>14, <1>15, <1>16, <1>17, <1>18, <1>19, <1>20, <1>21, <1>22, <1>23, <1>24,
       <1>25, <1>26, <1>27
       DEF Next, Loop, Handler, Timer, Deliver, Terminated

-------------------------------------------------------------------------------
\* The invariants hold from the start.
IInv ==
    KindsOK /\ LoopAtWork /\ OneAnswerer /\ CountInv /\ OpenInv /\ ExitInv
    /\ ConfirmableInv /\ NeverForgotten

LEMMA InitIInv == Init => IInv
<1> SUFFICES ASSUME Init
             PROVE  IInv
    OBVIOUS
<1>1. KindsOK /\ LoopAtWork
  <2>1. ControlTypeOK /\ RegistryTypeOK /\ LoopAtWork
    BY DEF Init, ControlTypeOK, RegistryTypeOK, LoopAtWork
  <2>2. LoopTypeOK
    BY DEF Init, LoopTypeOK
  <2>3. HandlerTypeOK
    BY DEF Init, HandlerTypeOK
  <2>4. AnswerTypeOK
    BY DEF Init, AnswerTypeOK
  <2>5. QED
    BY <2>1, <2>2, <2>3, <2>4 DEF KindsOK
<1>2. OneAnswerer
    BY DEF Init, OneAnswerer, FreshInv, BufferInv, LoopInv, RegistryInv, AnsweredOnce,
           Untouched, Unanswered, LoopHolds, DeliveryOwes, TimerOwes
<1>3. CountInv
  <2>1. Delivering = {}
    BY DEF Init, Delivering, DeliveryOwes
  <2>2. QED
    BY <2>1, FS_EmptySet DEF Init, CountInv, Others
<1>4. OpenInv
    BY DEF Init, OpenInv
<1>5. ExitInv /\ ConfirmableInv /\ NeverForgotten
    BY DEF Init, ExitInv, ConfirmableInv, NeverForgotten
<1>6. QED
    BY <1>1, <1>2, <1>3, <1>4, <1>5 DEF IInv

LEMMA IInvStep == IInv /\ [Next]_vars => IInv'
BY KindsStep, OneAnswererStep, CountStep, OpenStep, ExitStep, ConfirmableStep,
   NeverForgottenStep DEF IInv

\* The inductive invariant holds of the command handling.
THEOREM Invariance == Safety => []IInv
BY InitIInv, IInvStep, PTL DEF Safety

-------------------------------------------------------------------------------
\* With any number of commands and eventHandlers no command is answered twice,
\* nor after its answer was given up (handleSet, cancelAck, removeLocked).
THEOREM AnsweredOnceHolds == Safety => []AnsweredOnce
<1>1. IInv => AnsweredOnce
    BY DEF IInv, OneAnswerer
<1>2. QED
    BY <1>1, Invariance, PTL

\* Every variable keeps its kind; the WaitGroup's counter is never negative,
\* so wg.Done never panics.
THEOREM TypeCorrect == Safety => []TypeOK
<1>1. IInv => TypeOK
  <2>1. Cardinality(Delivering) \in Nat
    BY FS_Subset, FS_CardinalityType DEF Delivering
  <2>2. QED
    BY <2>1 DEF IInv, KindsOK, CountInv, Others, TypeOK
<1>2. QED
    BY <1>1, Invariance, PTL

\* An entry of the registry always has a timer that will end it, and no other
\* timer is left armed (Register, removeLocked, close).
THEOREM TimersFollowEntriesHolds == Safety => []TimersFollowEntries
<1>1. IInv => TimersFollowEntries
    BY DEF IInv, OneAnswerer, RegistryInv, TimersFollowEntries
<1>2. QED
    BY <1>1, Invariance, PTL

\* Every command of an own device has its answer or somebody who owes it, before
\* and after the registry is closed: nothing on the way from commandbuffer to the
\* mgw client drops a command, but close, and Register after it (handleCommand,
\* handleSet, Observe, expire).
THEOREM NeverForgottenHolds == Safety => []NeverForgotten
<1>1. IInv => NeverForgotten
    BY DEF IInv
<1>2. QED
    BY <1>1, Invariance, PTL

\* When main returns, every goroutine it counts has returned.
LEMMA AllReturned ==
    ASSUME IInv, exited
    PROVE  /\ cmd = "stopped" /\ ~connected /\ watcher = "done"
           /\ \A c \in Commands : ~DeliveryOwes(c)
<1>1. IsFiniteSet(Delivering) /\ Cardinality(Delivering) \in Nat
    BY FS_Subset, FS_CardinalityType DEF Delivering
<1>2. Cardinality(Delivering) = 0 /\ Others = 0
    BY <1>1 DEF IInv, ExitInv, CountInv, Others
<1>3. Delivering = {}
    BY <1>1, <1>2, FS_EmptySet
<1>4. QED
    BY <1>2, <1>3 DEF Others, Delivering

\* When main returns no matched command is still being answered.
THEOREM ExitAfterDeliveryHolds == Safety => []ExitAfterDelivery
<1>1. IInv => ExitAfterDelivery
    BY AllReturned DEF ExitAfterDelivery
<1>2. QED
    BY <1>1, Invariance, PTL

\* When main returns, the commands without an answer are those the loop never
\* took, those the closed registry dropped, and those whose timer has just fired:
\* expire is the one goroutine that answers and is not counted (main, expire).
THEOREM AnsweredAtExitHolds == Safety => []AnsweredAtExit
<1>1. IInv => AnsweredAtExit
  <2> SUFFICES ASSUME IInv, exited, NEW c \in Commands,
                      request[c] # NoRequest /\ request[c].own
               PROVE  Answered(c) \/ InBuffer(c) \/ Dropped(c) \/ TimerOwes(c)
      BY DEF AnsweredAtExit
  <2>1. ~LoopOwes(c) /\ ~DeliveryOwes(c)
    BY AllReturned DEF LoopOwes
  <2>2. c \notin pending
    BY AllReturned DEF IInv, OpenInv
  <2>3. QED
    BY <2>1, <2>2 DEF IInv, NeverForgotten, Owed
<1>2. QED
    BY <1>1, Invariance, PTL

\* The counter main waits for never leaves zero again (wg.Add in Observe).
THEOREM NoAddAtZeroHolds == Safety => NoAddAtZero
<1>1. IInv /\ [Next]_vars => [wg' > wg => wg > 0]_vars
  <2> SUFFICES ASSUME IInv, [Next]_vars, wg' > wg
               PROVE  wg > 0
    OBVIOUS
  <2>1. ~closed /\ pending # {}
    BY CountStep DEF IInv
  <2>2. watcher = "waiting"
    BY <2>1 DEF IInv, OpenInv
  <2>3. Cardinality(Delivering) \in Nat
    BY FS_Subset, FS_CardinalityType DEF Delivering
  <2>4. QED
    BY <2>2, <2>3 DEF IInv, CountInv, Others
<1>2. QED
    BY <1>1, Invariance, PTL DEF Safety, NoAddAtZero
===============================================================================
