----------------------- MODULE CommandAckPromiseProofs ------------------------
(***************************************************************************)
(* The safety half of the refinement: whatever the goroutines of           *)
(* CommandAck do, the platform sees steps of CommandAnswer.  And what the  *)
(* registry's cancel function tells the loop.                              *)
(***************************************************************************)
EXTENDS CommandAckProofs

USE RequestsAssumption, FlagsAssumption, CommandsAssumption, CommandBufferSizeAssumption

\* Only a command of an own device can get an answer, and the client of a
\* running process is connected.
OwnInv ==
    /\ \A c \in Commands :
          c \in pending \/ DeliveryOwes(c) \/ TimerOwes(c) => request[c].own
    /\ cmd \notin {"idle", "stopped"} => request[at].own
    /\ ~connected => ctxDone

\* No step lets a foreign command come as far as an answer.
LEMMA OwnStep == IInv /\ OwnInv /\ [Next]_vars => OwnInv'
<1> SUFFICES ASSUME IInv, OwnInv, [Next]_vars
             PROVE  OwnInv'
    OBVIOUS
<1> USE DEF OwnInv, DeliveryOwes, TimerOwes, controlVars, loopVars, ackVars, handlerVars,
            answerVars
<1>a. KindsOK /\ LoopAtWork /\ FreshInv
    BY DEF IInv, OneAnswerer
<1> USE <1>a DEF KindsOK, LoopAtWork, ControlTypeOK, LoopTypeOK, RegistryTypeOK, HandlerTypeOK,
            AnswerTypeOK, FreshInv, LoopHolds, Untouched
<1>1. ASSUME NEW c \in Commands, NEW r \in Requests, Command(c, r)
      PROVE  OwnInv'
    BY <1>1 DEF Command
<1>2. CASE TakeCommand
    BY <1>2 DEF TakeCommand, firstStep
<1>3. CASE Expect
    BY <1>3 DEF Expect
<1>4. CASE Register
    BY <1>4 DEF Register
<1>5. CASE SetPublished
    BY <1>5 DEF SetPublished, setCalled
<1>6. CASE SetSucceeds
    BY <1>6 DEF SetSucceeds, afterSet
<1>7. CASE SetFails
    BY <1>7 DEF SetFails
<1>8. CASE Cancel
    BY <1>8 DEF Cancel, afterCancel, stopped
<1>9. CASE Get
    BY <1>9 DEF Get
<1>10. CASE Respond
    BY <1>10 DEF Respond
<1>11. CASE Fail
    BY <1>11 DEF Fail
<1>12. CASE StopLoop
    BY <1>12 DEF StopLoop
<1>13. ASSUME NEW c \in Commands, Fire(c)
      PROVE  OwnInv'
    BY <1>13 DEF Fire
<1>14. ASSUME NEW c \in Commands, Expire(c)
      PROVE  OwnInv'
    BY <1>14 DEF Expire, expired
<1>15. ASSUME NEW c \in Commands, ExpireFail(c)
      PROVE  OwnInv'
    BY <1>15 DEF ExpireFail
<1>16. ASSUME NEW h \in Handlers, NEW d \in Devices, NEW s \in DeviceStates,
             NEW retained \in BOOLEAN, Arrive(h, d, s, retained)
      PROVE  OwnInv'
    BY <1>16 DEF Arrive
<1>17. ASSUME NEW h \in Handlers, Check(h)
      PROVE  OwnInv'
    BY <1>17 DEF Check
<1>18. ASSUME NEW h \in Handlers, Match(h)
      PROVE  OwnInv'
    BY <1>18 DEF Match, matched, pendingOf, stopped
<1>19. ASSUME NEW h \in Handlers, Store(h)
      PROVE  OwnInv'
    BY <1>19 DEF Store
<1>20. ASSUME NEW c \in Commands, DeliverResponse(c)
      PROVE  OwnInv'
    BY <1>20 DEF DeliverResponse
<1>21. ASSUME NEW c \in Commands, DeliverError(c)
      PROVE  OwnInv'
    BY <1>21 DEF DeliverError
<1>22. CASE Shutdown
    BY <1>22 DEF Shutdown
<1>23. CASE Close
    BY <1>23 DEF Close, stopped
<1>24. CASE WatcherDone
    BY <1>24 DEF WatcherDone
<1>25. CASE MgwDisconnect
    BY <1>25 DEF MgwDisconnect
<1>26. CASE Exit
    BY <1>26 DEF Exit
<1>27. CASE UNCHANGED vars
    BY <1>27 DEF vars
<1>28. QED
    BY <1>1, <1>2, <1>3, <1>4, <1>5, <1>6, <1>7, <1>8, <1>9, <1>10, <1>11, <1>12,
       <1>13, <1>14, <1>15, <1>16, <1>17, <1>18, <1>19, <1>20, <1>21, <1>22, <1>23,
       <1>24, <1>25, <1>26, <1>27
       DEF Next, Loop, Handler, Timer, Deliver, Terminated

-------------------------------------------------------------------------------
\* What the platform sees of one command.

\* It is open from the moment it was sent until its answer.
LEMMA OpenOutcome ==
    ASSUME NEW c, Unanswered(c)
    PROVE  outcomeOf(c) = IF request[c] # NoRequest /\ request[c].own THEN "open" ELSE "unknown"
<1>1. Len(<<>>) = 0
    OBVIOUS
<1>2. QED
    BY <1>1 DEF Unanswered, outcomeOf

\* The step that answers it answers or loses it for the platform, too.
LEMMA AnswerOutcome ==
    ASSUME KindsOK, OwnInv, NEW c \in Commands, Unanswered(c), request[c] # NoRequest,
           request[c].own, ~exited, UNCHANGED <<request, ctxDone, exited>>,
           Responded(c) \/ RespondRefused \/ SendCommandError(c)
    PROVE  [Promise!Next]_(Promise!vars)
<1> DEFINE seen == [x \in Commands |-> outcomeOf(x)]
<1>1. outcomeOf(c) = "open"
    BY OpenOutcome
<1>2. CASE UNCHANGED <<replies, lost>>
  <2>1. \A x \in Commands : outcomeOf(x)' = outcomeOf(x)
    BY <1>2 DEF outcomeOf
  <2>2. QED
    BY <2>1 DEF Promise!vars
<1>3. ASSUME NEW e \in {"response", "error"}, replies' = [replies EXCEPT ![c] = Append(@, e)],
             UNCHANGED lost
      PROVE  Promise!Answer(c)
  <2>1. replies'[c] = Append(<<>>, e) /\ \A x \in Commands \ {c} : replies'[x] = replies[x]
    BY <1>3 DEF KindsOK, AnswerTypeOK, Unanswered
  <2>2. Len(replies'[c]) = 1 /\ replies'[c][1] = e
    BY <2>1
  <2>3. outcomeOf(c)' = e
    BY <2>2 DEF outcomeOf
  <2>4. \A x \in Commands \ {c} : outcomeOf(x)' = outcomeOf(x)
    BY <2>1, <1>3 DEF outcomeOf
  <2>5. seen' = [seen EXCEPT ![c] = e]
    BY <2>3, <2>4
  <2>6. QED
    BY <1>1, <2>5 DEF Promise!Answer
<1>4. ASSUME ~connected \/ PublishErrors, lost' = lost \cup {c}, UNCHANGED replies
      PROVE  Promise!Lose(c)
  <2>1. Len(<<>>) = 0
    OBVIOUS
  <2>2. outcomeOf(c)' = "lost"
    BY <1>4, <2>1 DEF outcomeOf, Unanswered
  <2>3. \A x \in Commands \ {c} : outcomeOf(x)' = outcomeOf(x)
    BY <1>4 DEF outcomeOf
  <2>4. seen' = [seen EXCEPT ![c] = "lost"]
    BY <2>2, <2>3
  <2>5. QED
    BY <1>1, <1>4, <2>4 DEF Promise!Lose, OwnInv
<1>5. QED
    BY <1>2, <1>3, <1>4
       DEF Responded, RespondRefused, SendCommandError, answerVars, Promise!Next

\* A step that answers nothing changes nothing but the control variables.
LEMMA SameOutcome ==
    ASSUME UNCHANGED <<request, replies, lost>>
    PROVE  \A x \in Commands : outcomeOf(x)' = outcomeOf(x)
BY DEF outcomeOf

-------------------------------------------------------------------------------
\* Every step of the connector is a step or a stutter of its promise.
LEMMA PromiseStep == IInv /\ OwnInv /\ [Next]_vars => [Promise!Next]_(Promise!vars)
<1> SUFFICES ASSUME IInv, OwnInv, [Next]_vars
             PROVE  [Promise!Next]_(Promise!vars)
    OBVIOUS
<1> USE DEF controlVars, loopVars, ackVars, handlerVars, answerVars, Promise!vars
<1>a. KindsOK /\ LoopAtWork /\ FreshInv /\ LoopInv /\ RegistryInv
    BY DEF IInv, OneAnswerer
<1>1. ASSUME NEW c \in Commands, NEW r \in Requests, Command(c, r)
      PROVE  [Promise!Next]_(Promise!vars)
  <2>1. Unanswered(c)
    BY <1>a, <1>1 DEF Command, FreshInv, Untouched
  <2>2. request' = [request EXCEPT ![c] = r] /\ UNCHANGED <<replies, lost, ctxDone, exited>>
    BY <1>1 DEF Command
  <2>3. request'[c] = r /\ \A x \in Commands \ {c} : request'[x] = request[x]
    BY <2>2, <1>a DEF KindsOK, LoopTypeOK
  <2>4. \A x \in Commands \ {c} : outcomeOf(x)' = outcomeOf(x)
    BY <2>2, <2>3 DEF outcomeOf
  <2>5. outcomeOf(c) = "unknown"
    BY <1>1, <2>1, OpenOutcome DEF Command
  <2>6. outcomeOf(c)' = IF r.own THEN "open" ELSE "unknown"
    <3>1. Len(<<>>) = 0 /\ r # NoRequest
      OBVIOUS
    <3>2. QED
      BY <3>1, <2>1, <2>2, <2>3 DEF outcomeOf, Unanswered
  <2>7. CASE r.own
    BY <1>1, <2>2, <2>4, <2>5, <2>6, <2>7 DEF Promise!Next, Promise!Accept, Command
  <2>8. CASE ~r.own
    BY <2>2, <2>4, <2>5, <2>6, <2>8
  <2>9. QED
    BY <2>7, <2>8
<1>2. CASE TakeCommand
    BY <1>2, SameOutcome DEF TakeCommand
<1>3. CASE Expect
    BY <1>3, SameOutcome DEF Expect
<1>4. CASE Register
    BY <1>4, SameOutcome DEF Register
<1>5. CASE SetPublished
    BY <1>5, SameOutcome DEF SetPublished
<1>6. CASE SetSucceeds
    BY <1>6, SameOutcome DEF SetSucceeds
<1>7. CASE SetFails
    BY <1>7, SameOutcome DEF SetFails
<1>8. CASE Cancel
    BY <1>8, SameOutcome DEF Cancel
<1>9. CASE Get
    BY <1>9, SameOutcome DEF Get
<1>10. CASE Respond
  <2>1. /\ at \in Commands /\ ~exited /\ cmd = "responding"
        /\ Responded(at) \/ RespondRefused \/ SendCommandError(at)
        /\ UNCHANGED <<request, ctxDone, exited>>
    BY <1>a, <1>10 DEF Respond, LoopAtWork
  <2>2. Unanswered(at) /\ request[at] # NoRequest /\ request[at].own
    BY <1>a, <2>1 DEF OwnInv, FreshInv, LoopInv, Untouched, LoopHolds, DeliveryOwes, TimerOwes
  <2>3. QED
    BY <1>a, <2>1, <2>2, AnswerOutcome
<1>11. CASE Fail
  <2>1. /\ at \in Commands /\ ~exited /\ cmd = "failing"
        /\ Responded(at) \/ RespondRefused \/ SendCommandError(at)
        /\ UNCHANGED <<request, ctxDone, exited>>
    BY <1>a, <1>11 DEF Fail, LoopAtWork
  <2>2. Unanswered(at) /\ request[at] # NoRequest /\ request[at].own
    BY <1>a, <2>1 DEF OwnInv, FreshInv, LoopInv, Untouched, LoopHolds, DeliveryOwes, TimerOwes
  <2>3. QED
    BY <1>a, <2>1, <2>2, AnswerOutcome
<1>12. CASE StopLoop
    BY <1>12, SameOutcome DEF StopLoop
<1>13. ASSUME NEW c \in Commands, Fire(c)
      PROVE  [Promise!Next]_(Promise!vars)
    BY <1>13, SameOutcome DEF Fire
<1>14. ASSUME NEW c \in Commands, Expire(c)
      PROVE  [Promise!Next]_(Promise!vars)
    BY <1>14, SameOutcome DEF Expire
<1>15. ASSUME NEW c \in Commands, ExpireFail(c)
      PROVE  [Promise!Next]_(Promise!vars)
  <2>1. /\ c \in Commands /\ ~exited /\ timer[c] = "failing"
        /\ Responded(c) \/ RespondRefused \/ SendCommandError(c)
        /\ UNCHANGED <<request, ctxDone, exited>>
    BY <1>a, <1>15 DEF ExpireFail, LoopAtWork
  <2>2. Unanswered(c) /\ request[c] # NoRequest /\ request[c].own
    BY <1>a, <2>1 DEF OwnInv, FreshInv, RegistryInv, Untouched, LoopHolds, DeliveryOwes, TimerOwes
  <2>3. QED
    BY <1>a, <2>1, <2>2, AnswerOutcome
<1>16. ASSUME NEW h \in Handlers, NEW d \in Devices, NEW s \in DeviceStates,
             NEW retained \in BOOLEAN, Arrive(h, d, s, retained)
      PROVE  [Promise!Next]_(Promise!vars)
    BY <1>16, SameOutcome DEF Arrive
<1>17. ASSUME NEW h \in Handlers, Check(h)
      PROVE  [Promise!Next]_(Promise!vars)
    BY <1>17, SameOutcome DEF Check
<1>18. ASSUME NEW h \in Handlers, Match(h)
      PROVE  [Promise!Next]_(Promise!vars)
    BY <1>18, SameOutcome DEF Match
<1>19. ASSUME NEW h \in Handlers, Store(h)
      PROVE  [Promise!Next]_(Promise!vars)
    BY <1>19, SameOutcome DEF Store
<1>20. ASSUME NEW c \in Commands, DeliverResponse(c)
      PROVE  [Promise!Next]_(Promise!vars)
  <2>1. /\ c \in Commands /\ ~exited /\ delivering[c] = "responding"
        /\ Responded(c) \/ RespondRefused \/ SendCommandError(c)
        /\ UNCHANGED <<request, ctxDone, exited>>
    BY <1>a, <1>20 DEF DeliverResponse, LoopAtWork
  <2>2. Unanswered(c) /\ request[c] # NoRequest /\ request[c].own
    BY <1>a, <2>1 DEF OwnInv, FreshInv, RegistryInv, Untouched, LoopHolds, DeliveryOwes, TimerOwes
  <2>3. QED
    BY <1>a, <2>1, <2>2, AnswerOutcome
<1>21. ASSUME NEW c \in Commands, DeliverError(c)
      PROVE  [Promise!Next]_(Promise!vars)
  <2>1. /\ c \in Commands /\ ~exited /\ delivering[c] = "failing"
        /\ Responded(c) \/ RespondRefused \/ SendCommandError(c)
        /\ UNCHANGED <<request, ctxDone, exited>>
    BY <1>a, <1>21 DEF DeliverError, LoopAtWork
  <2>2. Unanswered(c) /\ request[c] # NoRequest /\ request[c].own
    BY <1>a, <2>1 DEF OwnInv, FreshInv, RegistryInv, Untouched, LoopHolds, DeliveryOwes, TimerOwes
  <2>3. QED
    BY <1>a, <2>1, <2>2, AnswerOutcome
<1>22. CASE Shutdown
    BY <1>22, SameOutcome DEF Shutdown, Promise!Next, Promise!Stop
<1>23. CASE Close
    BY <1>23, SameOutcome DEF Close
<1>24. CASE WatcherDone
    BY <1>24, SameOutcome DEF WatcherDone
<1>25. CASE MgwDisconnect
    BY <1>25, SameOutcome DEF MgwDisconnect
<1>26. CASE Exit
    BY <1>26, SameOutcome DEF Exit, Promise!Next, Promise!Exit
<1>27. CASE UNCHANGED vars
    BY <1>27, SameOutcome DEF vars
<1>28. QED
    BY <1>1, <1>2, <1>3, <1>4, <1>5, <1>6, <1>7, <1>8, <1>9, <1>10, <1>11, <1>12,
       <1>13, <1>14, <1>15, <1>16, <1>17, <1>18, <1>19, <1>20, <1>21, <1>22, <1>23,
       <1>24, <1>25, <1>26, <1>27
       DEF Next, Loop, Handler, Timer, Deliver, Terminated

\* Nothing was sent and nothing answered at the start.
LEMMA InitPromise == Init => OwnInv /\ Promise!Init
<1> SUFFICES ASSUME Init
             PROVE  OwnInv /\ Promise!Init
    OBVIOUS
<1>1. OwnInv
    BY DEF Init, OwnInv, DeliveryOwes, TimerOwes
<1>2. \A c \in Commands : outcomeOf(c) = "unknown"
    BY OpenOutcome DEF Init, Unanswered
<1>3. QED
    BY <1>1, <1>2 DEF Init, Promise!Init

\* The command handling implements what CommandAnswer promises of every
\* command: at most one answer, no answer to a foreign one, none after the
\* process has exited, and none lost but in a shutdown or a broken publish.
THEOREM PromiseKept == Safety => Promise!Safety
<1>1. Safety => [](IInv /\ OwnInv)
    BY InitIInv, IInvStep, InitPromise, OwnStep, PTL DEF Safety
<1>2. QED
    BY <1>1, InitPromise, PromiseStep, PTL DEF Safety, Promise!Safety

\* The function that Register returned reports FALSE, in an open registry, only
\* for a command that is answered or about to be (cancelAck in handleSet).
THEOREM CancelledUntilClosedHolds == Safety => CancelledUntilClosed
<1>1. IInv /\ OwnInv /\ [Next]_vars =>
          [cmd = "cancelling" /\ cmd' = "idle" /\ ~closed =>
              Answered(at) \/ DeliveryOwes(at) \/ TimerOwes(at)]_vars
  <2> SUFFICES ASSUME IInv, OwnInv, [Next]_vars, cmd = "cancelling", cmd' = "idle", ~closed
               PROVE  Answered(at) \/ DeliveryOwes(at) \/ TimerOwes(at)
    OBVIOUS
  <2> USE DEF controlVars, loopVars, ackVars, handlerVars, answerVars
  <2>1. Cancel
    BY DEF Next, Loop, Handler, Timer, Deliver, Terminated, vars, Command, TakeCommand,
           Expect, Register, SetPublished, SetSucceeds, SetFails, Get, Respond, Fail,
           StopLoop, Fire, Expire, ExpireFail, Arrive, Check, Match, Store, DeliverResponse,
           DeliverError, Shutdown, Close, WatcherDone, MgwDisconnect, Exit
  <2>2. at \in Commands /\ at \notin pending /\ cancelAck # "noop" /\ request[at].own
    BY <2>1 DEF IInv, LoopAtWork, OwnInv, Cancel, afterCancel
  <2>3. request[at] # NoRequest /\ ~InBuffer(at)
    BY <2>2 DEF IInv, OneAnswerer, FreshInv, BufferInv, LoopHolds, InBuffer
  <2>4. cancelAck = "entry"
    BY <2>2 DEF IInv, OneAnswerer, LoopInv, KindsOK, LoopTypeOK
  <2>5. QED
    BY <2>2, <2>3, <2>4 DEF IInv, NeverForgotten, Owed, LoopOwes, Dropped
<1>2. Safety => [](IInv /\ OwnInv)
    BY InitIInv, IInvStep, InitPromise, OwnStep, PTL DEF Safety
<1>3. QED
    BY <1>1, <1>2, PTL DEF Safety, CancelledUntilClosed

===============================================================================
