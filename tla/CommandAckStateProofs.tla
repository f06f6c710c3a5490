------------------------ MODULE CommandAckStateProofs -------------------------
(***************************************************************************)
(* What a device's state does to the commands that wait for it, for any    *)
(* number of commands, eventHandlers and devices: no state is missed, none *)
(* but a matching one makes an acknowledged set a success, and one that    *)
(* shows what was asked for does.                                          *)
(***************************************************************************)
EXTENDS CommandAckProofs

USE RequestsAssumption, FlagsAssumption, CommandsAssumption, CommandBufferSizeAssumption

\* A command that zigbee2mqtt has received has its place in the registry, if it
\* ever gets one: it can only lose it again.
PublishedInv ==
    /\ \A c \in published : request[c] # NoRequest
    /\ \A i \in DOMAIN commandbuffer : commandbuffer[i] \notin published
    /\ cmd \in {"expecting", "registering"} => at \notin published

\* Without the acknowledgement nothing is registered.
DisabledInv == ~AckEnabled => pending = {} /\ cmd \notin {"expecting", "registering"}

\* What an eventHandler owes on its way through Observe is confirmed by the
\* state it carries; behind Observe nothing of it is registered.
OwedInv ==
    \A h \in Handlers :
        /\ owed[h] \subseteq published
        /\ hAt[h] \in {"checking", "matching"} =>
              \A c \in owed[h] : /\ deviceOf(c) = hDevice[h]
                                 /\ isAcknowledgeable(expected[c])
                                 /\ ackMatches(expected[c], hState[h])
        /\ hAt[h] = "storing" /\ ~closed => \A c \in owed[h] : c \notin pending

StateInv == PublishedInv /\ DisabledInv /\ OwedInv

\* What the loop answers with success itself has nothing to be confirmed.
Unconfirmable(c) == ~isAcknowledgeable(expected[c])

Succeeded(c) == replies[c] = <<"response">>

SuccessInv ==
    /\ \A c \in Commands : request[c] = NoRequest => Unconfirmable(c)
    /\ \A i \in DOMAIN commandbuffer : Unconfirmable(commandbuffer[i])
    /\ cmd = "expecting" => Unconfirmable(at)
    /\ cmd \in {"publishing", "cancelling"} /\ cancelAck = "nil" => Unconfirmable(at)
    /\ cmd = "getting" => request[at].service = "get"
    /\ cmd = "responding" => request[at].service = "get" \/ Unconfirmable(at)
    /\ \A c \in Commands : Succeeded(c) => \/ request[c].service # "set"
                                           \/ Unconfirmable(c)
                                           \/ delivering[c] = "done"

-------------------------------------------------------------------------------
\* No step lets a state pass a command that waits for it.
LEMMA StateStep == IInv /\ StateInv /\ [Next]_vars => StateInv'
<1> SUFFICES ASSUME IInv, StateInv, [Next]_vars
             PROVE  StateInv'
    OBVIOUS
<1> USE DEF StateInv, PublishedInv, DisabledInv, OwedInv, deviceOf,
            controlVars, loopVars, ackVars, handlerVars, answerVars
<1>a. KindsOK /\ LoopAtWork /\ FreshInv /\ BufferInv
    BY DEF IInv, OneAnswerer
<1> USE <1>a DEF KindsOK, LoopAtWork, ControlTypeOK, LoopTypeOK, RegistryTypeOK, HandlerTypeOK,
            AnswerTypeOK, FreshInv, BufferInv, LoopHolds
<1>1. ASSUME NEW c \in Commands, NEW r \in Requests, Command(c, r)
      PROVE  StateInv'
    BY <1>1 DEF Command
<1>2. CASE TakeCommand
  <2>1. /\ commandbuffer # <<>> /\ cmd = "idle" /\ at' = Head(commandbuffer)
        /\ commandbuffer' = Tail(commandbuffer)
        /\ UNCHANGED <<request, published, pending, closed, owed, hAt, hDevice, hState, expected>>
    BY <1>2 DEF TakeCommand
  <2>2. at' \in Commands /\ at' \notin published
    BY <2>1
  <2>3. \A i \in DOMAIN commandbuffer' :
            i + 1 \in DOMAIN commandbuffer /\ commandbuffer'[i] = commandbuffer[i + 1]
    BY <2>1
  <2>4. PublishedInv'
    BY <2>1, <2>2, <2>3
  <2>5. DisabledInv'
    BY <1>2 DEF TakeCommand, firstStep
  <2>6. QED
    BY <2>1, <2>4, <2>5
<1>3. CASE Expect
  <2>1. /\ at \in Commands /\ at \notin published /\ cmd = "expecting"
        /\ cmd' \in {"registering", "publishing"}
        /\ UNCHANGED <<request, commandbuffer, at, published, pending, closed, owed, hAt,
                       hDevice, hState>>
    BY <1>3 DEF Expect
  <2>2. \A c \in published : expected'[c] = expected[c]
    BY <1>3, <2>1 DEF Expect
  <2>3. PublishedInv' /\ DisabledInv'
    BY <2>1
  <2>4. ASSUME NEW h \in Handlers
        PROVE  /\ owed'[h] \subseteq published'
               /\ hAt'[h] \in {"checking", "matching"} =>
                     \A c \in owed'[h] : /\ deviceOf(c)' = hDevice'[h]
                                         /\ isAcknowledgeable(expected'[c])
                                         /\ ackMatches(expected'[c], hState'[h])
               /\ hAt'[h] = "storing" /\ ~closed' => \A c \in owed'[h] : c \notin pending'
    BY <2>1, <2>2
  <2>5. QED
    BY <2>3, <2>4
<1>4. CASE Register
    BY <1>4 DEF Register
<1>5. CASE SetPublished
  <2>1. /\ at \in Commands /\ cmd = "publishing" /\ published' = published \cup {at}
        /\ UNCHANGED <<request, commandbuffer, at, cmd, pending, closed, owed, hAt, hDevice,
                       hState, expected>>
    BY <1>5 DEF SetPublished, setCalled
  <2>2. request[at] # NoRequest /\ \A i \in DOMAIN commandbuffer : commandbuffer[i] # at
    BY <2>1
  <2>3. QED
    BY <2>1, <2>2
<1>6. CASE SetSucceeds
    BY <1>6 DEF SetSucceeds, afterSet
<1>7. CASE SetFails
    BY <1>7 DEF SetFails
<1>8. CASE Cancel
    BY <1>8 DEF Cancel, afterCancel
<1>9. CASE Get
    BY <1>9 DEF Get
<1>10. CASE Respond
    BY <1>10 DEF Respond
<1>11. CASE Fail
    BY <1>11 DEF Fail
<1>12. CASE StopLoop
    BY <1>12 DEF StopLoop
<1>13. ASSUME NEW c \in Commands, Fire(c)
      PROVE  StateInv'
    BY <1>13 DEF Fire
<1>14. ASSUME NEW c \in Commands, Expire(c)
      PROVE  StateInv'
    BY <1>14 DEF Expire, expired
<1>15. ASSUME NEW c \in Commands, ExpireFail(c)
      PROVE  StateInv'
    BY <1>15 DEF ExpireFail
<1>16. ASSUME NEW h \in Handlers, NEW d \in Devices, NEW s \in DeviceStates,
             NEW retained \in BOOLEAN, Arrive(h, d, s, retained)
      PROVE  StateInv'
    BY <1>16 DEF Arrive, confirmedBy
<1>17. ASSUME NEW h \in Handlers, Check(h)
      PROVE  StateInv'
  <2>1. hAt[h] = "checking" /\ hAt'[h] \in {"matching", "storing"}
    BY <1>17 DEF Check
  <2>2. ASSUME hAt'[h] = "storing", NEW c \in owed[h]
        PROVE  c \notin pending
    <3>1. /\ deviceOf(c) = hDevice[h]
          /\ isAcknowledgeable(expected[c])
          /\ ackMatches(expected[c], hState[h])
      BY <2>1
    <3>2. DOMAIN hState[h] # {}
      BY <3>1 DEF isAcknowledgeable, ackMatches
    <3>3. ~hasPending(hDevice[h])
      BY <1>17, <2>2, <3>2 DEF Check
    <3>4. QED
      BY <3>1, <3>3 DEF hasPending, pendingOf
  <2>3. QED
    BY <1>17, <2>1, <2>2 DEF Check
<1>18. ASSUME NEW h \in Handlers, Match(h)
      PROVE  StateInv'
  <2>1. /\ hAt[h] = "matching" /\ hAt' = [hAt EXCEPT ![h] = "storing"]
        /\ pending' \subseteq pending
        /\ UNCHANGED <<request, commandbuffer, at, cmd, published, closed, owed, hDevice,
                       hState, expected>>
    BY <1>18 DEF Match
  <2>2. ASSUME ~closed, NEW c \in owed[h]
        PROVE  c \notin pending'
    <3>1. deviceOf(c) = hDevice[h] /\ ackMatches(expected[c], hState[h])
      BY <2>1
    <3>2. pending' = pending \ matched(hDevice[h], hState[h])
      BY <1>18, <2>2 DEF Match
    <3>3. QED
      BY <3>1, <3>2 DEF matched, pendingOf
  <2>3. QED
    BY <2>1, <2>2
<1>19. ASSUME NEW h \in Handlers, Store(h)
      PROVE  StateInv'
    BY <1>19 DEF Store
<1>20. ASSUME NEW c \in Commands, DeliverResponse(c)
      PROVE  StateInv'
    BY <1>20 DEF DeliverResponse
<1>21. ASSUME NEW c \in Commands, DeliverError(c)
      PROVE  StateInv'
    BY <1>21 DEF DeliverError
<1>22. CASE Shutdown
    BY <1>22 DEF Shutdown
<1>23. CASE Close
    BY <1>23 DEF Close
<1>24. CASE WatcherDone
    BY <1>24 DEF WatcherDone
<1>25. CASE MgwDisconnect
    BY <1>25 DEF MgwDisconnect
<1>26. CASE Exit
    BY <1>26 DEF Exit
<1>27. CASE UNCHANGED vars
    BY <1>27 DEF vars
<1>28. QED
    BY <1>1, <1>2, <1>3, <1>4, <1>5, <1>6, <1>7, <1>8, <1>9, <1>10, <1>11, <1>12,
       <1>13, <1>14, <1>15, <1>16, <1>17, <1>18, <1>19, <1>20, <1>21, <1>22, <1>23,
       <1>24, <1>25, <1>26, <1>27
       DEF Next, Loop, Handler, Timer, Deliver, Terminated

\* Nothing but a response makes a command succeed.
LEMMA NoneYet == ASSUME NEW c, Unanswered(c) PROVE ~Succeeded(c)
<1>1. Len(<<>>) = 0 /\ Len(<<"response">>) = 1
    OBVIOUS
<1>2. QED
    BY <1>1 DEF Unanswered, Succeeded

LEMMA ErrorsFail ==
    ASSUME AnswerTypeOK, NEW c \in Commands, Unanswered(c), SendCommandError(c)
    PROVE  \A x \in Commands : Succeeded(x)' => Succeeded(x)
<1>1. CASE UNCHANGED replies
    BY <1>1 DEF Succeeded
<1>2. CASE replies' = [replies EXCEPT ![c] = Append(@, "error")]
  <2>1. replies'[c] = Append(<<>>, "error") /\ \A x \in Commands \ {c} : replies'[x] = replies[x]
    BY <1>2 DEF AnswerTypeOK, Unanswered
  <2>2. Append(<<>>, "error")[1] = "error"
    OBVIOUS
  <2>3. replies'[c] # <<"response">>
    BY <2>1, <2>2
  <2>4. QED
    BY <2>1, <2>3 DEF Succeeded
<1>3. QED
    BY <1>1, <1>2 DEF SendCommandError

LEMMA ResponsesSucceed ==
    ASSUME AnswerTypeOK, NEW c \in Commands, Responded(c) \/ RespondRefused
    PROVE  /\ \A x \in Commands \ {c} : Succeeded(x)' => Succeeded(x)
           /\ RespondRefused => \A x \in Commands : Succeeded(x)' => Succeeded(x)
BY DEF AnswerTypeOK, Responded, RespondRefused, answerVars, Succeeded

\* No step makes an acknowledged set a success without a match.
LEMMA SuccessStep == IInv /\ SuccessInv /\ [Next]_vars => SuccessInv'
<1> SUFFICES ASSUME IInv, SuccessInv, [Next]_vars
             PROVE  SuccessInv'
    OBVIOUS
<1> USE DEF SuccessInv, Unconfirmable,
            controlVars, loopVars, ackVars, handlerVars, answerVars
<1>a. KindsOK /\ LoopAtWork /\ FreshInv /\ BufferInv /\ LoopInv /\ RegistryInv
    BY DEF IInv, OneAnswerer
<1> USE <1>a DEF KindsOK, LoopAtWork, ControlTypeOK, LoopTypeOK, RegistryTypeOK, HandlerTypeOK,
            AnswerTypeOK, FreshInv, BufferInv, LoopInv, RegistryInv, LoopHolds, Untouched,
            Unanswered, DeliveryOwes, TimerOwes
<1>1. ASSUME NEW c \in Commands, NEW r \in Requests, Command(c, r)
      PROVE  SuccessInv'
    BY <1>1 DEF Command, Succeeded
<1>2. CASE TakeCommand
  <2>1. /\ commandbuffer # <<>> /\ cmd = "idle" /\ at' = Head(commandbuffer)
        /\ commandbuffer' = Tail(commandbuffer)
        /\ UNCHANGED <<request, expected, delivering>>
        /\ \A c \in Commands : Succeeded(c)' = Succeeded(c)
    BY <1>2 DEF TakeCommand, Succeeded
  <2>2. at' \in Commands /\ Unconfirmable(at')
    BY <2>1
  <2>3. \A i \in DOMAIN commandbuffer' :
            i + 1 \in DOMAIN commandbuffer /\ commandbuffer'[i] = commandbuffer[i + 1]
    BY <2>1
  <2>4. /\ cmd' \in {"idle", "getting", "failing", "expecting", "publishing"}
        /\ cmd' = "getting" => request[at'].service = "get"
    BY <1>2 DEF TakeCommand, firstStep
  <2>5. QED
    BY <2>1, <2>2, <2>3, <2>4
<1>3. CASE Expect
  <2>1. /\ at \in Commands /\ ~Succeeded(at) /\ request[at] # NoRequest
        /\ \A i \in DOMAIN commandbuffer : commandbuffer[i] # at
        /\ cmd = "expecting" /\ Unconfirmable(at)
        /\ UNCHANGED <<request, commandbuffer, at, cancelAck, delivering>>
        /\ \A c \in Commands : Succeeded(c)' = Succeeded(c)
    BY <1>3, NoneYet DEF Expect, Succeeded
  <2>2. \/ cmd' = "registering" /\ \E e : expected' = [expected EXCEPT ![at] = e]
        \/ cmd' = "publishing" /\ UNCHANGED expected
    BY <1>3 DEF Expect
  <2>3. CASE cmd' = "publishing" /\ UNCHANGED expected
    BY <2>1, <2>3
  <2>4. CASE cmd' = "registering" /\ \E e : expected' = [expected EXCEPT ![at] = e]
    <3>1. \A c \in Commands : c # at => expected'[c] = expected[c]
      BY <2>4
    <3>2. /\ \A c \in Commands : request[c] = NoRequest => Unconfirmable(c)'
          /\ \A i \in DOMAIN commandbuffer : Unconfirmable(commandbuffer[i])'
      BY <2>1, <3>1
    <3>3. QED
      BY <2>1, <2>4, <3>1, <3>2
  <2>5. QED
    BY <2>2, <2>3, <2>4
<1>4. CASE Register
    BY <1>4 DEF Register, Succeeded
<1>5. CASE SetPublished
    BY <1>5 DEF SetPublished, setCalled, Succeeded
<1>6. CASE SetSucceeds
    BY <1>6 DEF SetSucceeds, afterSet, Succeeded
<1>7. CASE SetFails
    BY <1>7 DEF SetFails, Succeeded
<1>8. CASE Cancel
    BY <1>8 DEF Cancel, afterCancel, Succeeded
<1>9. CASE Get
    BY <1>9 DEF Get, Succeeded
<1>10. CASE Respond
  <2>1. /\ at \in Commands /\ cmd = "responding" /\ cmd' \in {"idle", "failing"}
        /\ Responded(at) \/ RespondRefused
        /\ UNCHANGED <<request, commandbuffer, at, cancelAck, expected, delivering>>
    BY <1>10 DEF Respond
  <2>2. \A c \in Commands \ {at} : Succeeded(c)' => Succeeded(c)
    BY <2>1, ResponsesSucceed
  <2>3. QED
    BY <2>1, <2>2
<1>11. CASE Fail
  <2>1. /\ at \in Commands /\ Unanswered(at) /\ SendCommandError(at)
        /\ UNCHANGED <<request, commandbuffer, at, cancelAck, expected>>
        /\ cmd' = "idle" /\ UNCHANGED delivering
    BY <1>11 DEF Fail
  <2>2. \A x \in Commands : Succeeded(x)' => Succeeded(x)
    BY <2>1, ErrorsFail
  <2>3. QED
    BY <2>1, <2>2
<1>12. CASE StopLoop
    BY <1>12 DEF StopLoop, Succeeded
<1>13. ASSUME NEW c \in Commands, Fire(c)
      PROVE  SuccessInv'
    BY <1>13 DEF Fire, Succeeded
<1>14. ASSUME NEW c \in Commands, Expire(c)
      PROVE  SuccessInv'
    BY <1>14 DEF Expire, expired, Succeeded
<1>15. ASSUME NEW c \in Commands, ExpireFail(c)
      PROVE  SuccessInv'
  <2>1. /\ c \in Commands /\ Unanswered(c) /\ SendCommandError(c)
        /\ UNCHANGED <<request, commandbuffer, at, cancelAck, expected>>
        /\ UNCHANGED <<cmd, delivering>>
    BY <1>15 DEF ExpireFail
  <2>2. \A x \in Commands : Succeeded(x)' => Succeeded(x)
    BY <2>1, ErrorsFail
  <2>3. QED
    BY <2>1, <2>2
<1>16. ASSUME NEW h \in Handlers, NEW d \in Devices, NEW s \in DeviceStates,
             NEW retained \in BOOLEAN, Arrive(h, d, s, retained)
      PROVE  SuccessInv'
    BY <1>16 DEF Arrive, Succeeded
<1>17. ASSUME NEW h \in Handlers, Check(h)
      PROVE  SuccessInv'
    BY <1>17 DEF Check, Succeeded
<1>18. ASSUME NEW h \in Handlers, Match(h)
      PROVE  SuccessInv'
  <2>1. /\ \A c \in Commands : delivering'[c] = delivering[c] \/ c \in pending
        /\ UNCHANGED <<request, commandbuffer, at, cmd, cancelAck, expected>>
        /\ \A c \in Commands : Succeeded(c)' = Succeeded(c)
    BY <1>18 DEF Match, matched, pendingOf, Succeeded
  <2>2. \A c \in pending : ~Succeeded(c)
    BY NoneYet
  <2>3. QED
    BY <2>1, <2>2
<1>19. ASSUME NEW h \in Handlers, Store(h)
      PROVE  SuccessInv'
    BY <1>19 DEF Store, Succeeded
<1>20. ASSUME NEW c \in Commands, DeliverResponse(c)
      PROVE  SuccessInv'
  <2>1. /\ Responded(c) \/ RespondRefused
        /\ delivering'[c] = "done" \/ RespondRefused
        /\ \A x \in Commands \ {c} : delivering'[x] = delivering[x]
        /\ delivering[c] = "responding"
        /\ UNCHANGED <<request, commandbuffer, at, cmd, cancelAck, expected>>
    BY <1>20 DEF DeliverResponse
  <2>2. \A x \in Commands : Succeeded(x)' => Succeeded(x) \/ delivering'[x] = "done"
    BY <2>1, ResponsesSucceed
  <2>3. \A x \in Commands : delivering[x] = "done" => delivering'[x] = "done"
    BY <2>1
  <2> HIDE DEF KindsOK, LoopAtWork, FreshInv, BufferInv, LoopInv, RegistryInv
  <2>4. QED
    BY <2>1, <2>2, <2>3
<1>21. ASSUME NEW c \in Commands, DeliverError(c)
      PROVE  SuccessInv'
  <2>1. /\ c \in Commands /\ Unanswered(c) /\ SendCommandError(c)
        /\ UNCHANGED <<request, commandbuffer, at, cancelAck, expected>>
        /\ UNCHANGED cmd /\ delivering' = [delivering EXCEPT ![c] = "done"]
    BY <1>21 DEF DeliverError
  <2>2. \A x \in Commands : Succeeded(x)' => Succeeded(x)
    BY <2>1, ErrorsFail
  <2>3. QED
    BY <2>1, <2>2
<1>22. CASE Shutdown
    BY <1>22 DEF Shutdown, Succeeded
<1>23. CASE Close
    BY <1>23 DEF Close, Succeeded
<1>24. CASE WatcherDone
    BY <1>24 DEF WatcherDone, Succeeded
<1>25. CASE MgwDisconnect
    BY <1>25 DEF MgwDisconnect, Succeeded
<1>26. CASE Exit
    BY <1>26 DEF Exit, Succeeded
<1>27. CASE UNCHANGED vars
    BY <1>27 DEF vars, Succeeded
<1>28. QED
    BY <1>1, <1>2, <1>3, <1>4, <1>5, <1>6, <1>7, <1>8, <1>9, <1>10, <1>11, <1>12,
       <1>13, <1>14, <1>15, <1>16, <1>17, <1>18, <1>19, <1>20, <1>21, <1>22, <1>23,
       <1>24, <1>25, <1>26, <1>27
       DEF Next, Loop, Handler, Timer, Deliver, Terminated

-------------------------------------------------------------------------------
\* What is expected is part of what was asked for.
PartOf(expectation, payload) ==
    \A key \in DOMAIN expectation :
        key \in DOMAIN payload \ {zigbeeSetTransitionKey} /\ expectation[key] = payload[key]

LEMMA ExpectationIsPart ==
    ASSUME NEW payload, NEW exposes, NEW lastState
    PROVE  PartOf(ackExpectation(payload, exposes, lastState), payload)
BY DEF PartOf, ackExpectation

LEMMA PartIsEchoed ==
    ASSUME NEW expectation, NEW payload, NEW state,
           PartOf(expectation, payload), echoes(state, payload)
    PROVE  ackMatches(expectation, state)
BY DEF PartOf, echoes, ackMatches, ackValueMatches

\* What the definition and the last state take out of an expectation only makes
\* it easier to confirm: no state that confirms the whole payload is refused
\* because a last state was stale or a definition was known (ackExpectation).
THEOREM ReductionWeakens ==
    ASSUME NEW payload, NEW exposes, NEW lastState, NEW state,
           ackMatches(ackExpectation(payload, {}, NoExpectation), state)
    PROVE  ackMatches(ackExpectation(payload, exposes, lastState), state)
<1> DEFINE whole == ackExpectation(payload, {}, NoExpectation)
           part  == ackExpectation(payload, exposes, lastState)
<1>1. \A key \in DOMAIN part : key \in DOMAIN payload \ {zigbeeSetTransitionKey}
    BY DEF ackExpectation
<1>2. DOMAIN whole = DOMAIN payload \ {zigbeeSetTransitionKey}
    BY DEF ackExpectation, NoExpectation
<1>3. \A key \in DOMAIN part : key \in DOMAIN whole /\ part[key] = whole[key]
    BY <1>1, <1>2 DEF ackExpectation
<1>4. QED
    BY <1>3 DEF ackMatches

\* The loop never expects of a device what the command did not ask for.
ExpectInv ==
    /\ \A c \in Commands : request[c] = NoRequest => DOMAIN expected[c] = {}
    /\ \A c \in Commands : PartOf(expected[c], payloadOf(c))

LEMMA ExpectStep == IInv /\ ExpectInv /\ [Next]_vars => ExpectInv'
<1> SUFFICES ASSUME IInv, ExpectInv, [Next]_vars
             PROVE  ExpectInv'
    OBVIOUS
<1>a. LoopTypeOK /\ LoopAtWork /\ FreshInv
    BY DEF IInv, KindsOK, OneAnswerer
<1> USE <1>a DEF ExpectInv, payloadOf, LoopTypeOK, LoopAtWork, FreshInv, LoopHolds,
            controlVars, loopVars, ackVars, handlerVars, answerVars
<1>1. ASSUME NEW c \in Commands, NEW r \in Requests, Command(c, r)
      PROVE  ExpectInv'
  <2>1. /\ request[c] = NoRequest /\ request' = [request EXCEPT ![c] = r]
        /\ UNCHANGED expected
    BY <1>1 DEF Command
  <2>2. ASSUME NEW x \in Commands
        PROVE  PartOf(expected'[x], request'[x].payload)
    <3>1. CASE x = c
      BY <2>1, <3>1 DEF PartOf
    <3>2. CASE x # c
      BY <2>1, <3>2
    <3>3. QED
      BY <3>1, <3>2
  <2>3. \A x \in Commands : request'[x] = NoRequest => DOMAIN expected'[x] = {}
    BY <2>1
  <2>4. QED
    BY <2>2, <2>3
<1>2. CASE Expect
  <2>1. at \in Commands /\ request[at] # NoRequest /\ UNCHANGED request
    BY <1>2 DEF Expect
  <2>2. CASE UNCHANGED expected
    BY <2>1, <2>2
  <2>3. CASE \E exposes, lastState :
                 expected' = [expected EXCEPT ![at] = ackExpectation(payloadOf(at), exposes, lastState)]
    <3>1. PICK exposes, lastState :
                 expected' = [expected EXCEPT ![at] = ackExpectation(payloadOf(at), exposes, lastState)]
      BY <2>3
    <3>2. /\ expected'[at] = ackExpectation(payloadOf(at), exposes, lastState)
          /\ \A c \in Commands \ {at} : expected'[c] = expected[c]
      BY <2>1, <3>1
    <3>3. PartOf(expected'[at], payloadOf(at))
      BY <3>2, ExpectationIsPart
    <3>4. QED
      BY <2>1, <3>2, <3>3
  <2>4. QED
    BY <1>2, <2>2, <2>3 DEF Expect
<1>3. CASE UNCHANGED <<request, expected>>
    BY <1>3
<1>4. QED
    BY <1>1, <1>2, <1>3
       DEF Next, Loop, Handler, Timer, Deliver, Terminated, vars, TakeCommand, Register,
           SetPublished, SetSucceeds, SetFails, Cancel, Get, Respond, Fail, StopLoop, Fire,
           Expire, ExpireFail, Arrive, Check, Match, Store, DeliverResponse, DeliverError,
           Shutdown, Close, WatcherDone, MgwDisconnect, Exit

-------------------------------------------------------------------------------
LEMMA InitState == Init => StateInv /\ SuccessInv
<1> SUFFICES ASSUME Init
             PROVE  StateInv /\ SuccessInv
    OBVIOUS
<1>1. StateInv
    BY DEF Init, StateInv, PublishedInv, DisabledInv, OwedInv
<1>2. \A c \in Commands : Unconfirmable(c)
    BY DEF Init, Unconfirmable, isAcknowledgeable, NoExpectation
<1>3. SuccessInv
    BY <1>2, NoneYet DEF Init, SuccessInv, Unanswered
<1>4. QED
    BY <1>1, <1>3

\* A state that arrives after the set is matched with it, whichever of the
\* registration, the publish and the eventHandler is slow (handleSet, Observe).
THEOREM NoMissedStateHolds == Safety => []NoMissedState
<1>1. Safety => [](IInv /\ StateInv)
    BY InitIInv, IInvStep, InitState, StateStep, PTL DEF Safety
<1>2. IInv /\ StateInv => NoMissedState
    BY DEF StateInv, PublishedInv, OwedInv, NoMissedState
<1>3. QED
    BY <1>1, <1>2, PTL

\* The loop never reports an acknowledged set as a success: only a match does
\* (handleSet, Observe, deliver).
THEOREM ConfirmedSuccessHolds == Safety => []ConfirmedSuccess
<1>1. Safety => [](IInv /\ SuccessInv)
    BY InitIInv, IInvStep, InitState, SuccessStep, PTL DEF Safety
<1>2. SuccessInv => ConfirmedSuccess
    BY DEF SuccessInv, Succeeded, Unconfirmable, ConfirmedSuccess
<1>3. QED
    BY <1>1, <1>2, PTL

\* A device that does what it was told confirms the command, whatever was left of
\* the expectation and whatever else the state shows (ackExpectation, ackMatches);
\* and an entry always expects something.
THEOREM EchoConfirmsHolds == Safety => []EchoConfirms
<1>1. Init => ExpectInv
    BY DEF Init, ExpectInv, PartOf, NoExpectation
<1>2. Safety => [](IInv /\ ExpectInv)
    BY <1>1, InitIInv, IInvStep, ExpectStep, PTL DEF Safety
<1>3. IInv /\ ExpectInv => EchoConfirms
  <2> SUFFICES ASSUME IInv, ExpectInv, NEW c \in pending
               PROVE  /\ isAcknowledgeable(expected[c])
                      /\ \A s \in DeviceStates :
                             echoes(s, payloadOf(c)) => ackMatches(expected[c], s)
    BY DEF EchoConfirms
  <2>1. isAcknowledgeable(expected[c]) /\ c \in Commands
    BY DEF IInv, ConfirmableInv, KindsOK, RegistryTypeOK
  <2>2. PartOf(expected[c], payloadOf(c))
    BY <2>1 DEF ExpectInv
  <2>3. QED
    BY <2>1, <2>2, PartIsEchoed
<1>4. QED
    BY <1>2, <1>3, PTL

===============================================================================
