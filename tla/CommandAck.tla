------------------------------ MODULE CommandAck ------------------------------
(***************************************************************************)
(* The life of a platform command in the connector, from the mgw client's  *)
(* handler to its answer (pkg/connector: connector.go, command.go, ack.go; *)
(* pkg/mgw: response.go, error.go; pkg/zigbee2mqtt: event.go).             *)
(*                                                                         *)
(* The goroutines, each atomic between two points where another may run:   *)
(*   - the mgw handlers that put commands into commandbuffer;              *)
(*   - the command loop, which works on the command `at` and is at `cmd`;  *)
(*   - the eventHandlers of zigbee2mqtt messages, in any number and order  *)
(*     (the mqtt client runs with SetOrderMatters(false));                 *)
(*   - one timer per pending command;                                      *)
(*   - one goroutine per matched command, which delivers its response;     *)
(*   - the watcher that closes the registry and the goroutine that         *)
(*     disconnects the mgw client, both woken by the cancelled context.    *)
(*                                                                         *)
(* A definition marked "mutant" is a faulty variant of the one after it    *)
(* that nothing uses; PROJECT.json names the property it would break.      *)
(***************************************************************************)
EXTENDS Integers, Sequences, FiniteSets, AckMatch

CONSTANTS
    Commands,           \* the commands the platform may send
    Handlers,           \* the eventHandlers that may run at once
    Devices,            \* ieee addresses
    Exposes,            \* the features of each device's definition
    Requests,           \* the contents a command may have
    DeviceStates,       \* the states a device may publish
    CommandBufferSize,  \* capacity of commandbuffer, 100 in the code
    AckEnabled,         \* CommandAckTimeout is set to a duration above 0
    PublishErrors,      \* the mgw broker may break a publish of a live client
    NoRequest,          \* the command has not been sent yet
    NoCommand,          \* the command loop works on no command
    NoState,            \* no state of the device was received since the start
    NoDevice            \* the eventHandler works on no message

ASSUME CommandBufferSizeAssumption == CommandBufferSize \in Nat \ {0}

ASSUME FlagsAssumption == AckEnabled \in BOOLEAN /\ PublishErrors \in BOOLEAN

ASSUME RequestsAssumption ==
    /\ NoRequest \notin Requests
    /\ \A r \in Requests : /\ r.service \in {"set", "get", "other"}
                           /\ r.own \in BOOLEAN
                           /\ r.device \in Devices

ASSUME CommandsAssumption == IsFiniteSet(Commands) /\ NoCommand \notin Commands

VARIABLES
    ctxDone,        \* the context is cancelled (a signal arrived)
    exited,         \* main has returned
    connected,      \* IsConnected() of the mgw client
    wg,             \* the counter of the WaitGroup main waits for
    request,        \* what the platform sent as each command
    commandbuffer,  \* the channel between the mgw handlers and the loop
    at,             \* the command the loop works on
    cmd,            \* where the loop is
    cancelAck,      \* the loop's cancel function: "nil", "entry" or "noop"
    expected,       \* the values the state of each command has to show
    published,      \* the set commands zigbee2mqtt has received
    pending,        \* the entries of the registry
    closed,         \* the registry is closed
    watcher,        \* where the registry's watcher goroutine is
    timer,          \* the timer of each command's entry
    delivering,     \* where the goroutine of each matched command is
    hAt,            \* where each eventHandler is
    hDevice,        \* the device its message is about
    hState,         \* the state its message carries
    values,         \* the last state of each device
    replies,        \* what was sent to the platform for each command
    lost,           \* commands whose error was dropped by the mgw client
    owed            \* history: commands the handler's state has to answer

controlVars == <<ctxDone, exited, connected, wg>>
loopVars    == <<request, commandbuffer, at, cmd, cancelAck, expected, published>>
ackVars     == <<pending, closed, watcher, timer, delivering>>
handlerVars == <<hAt, hDevice, hState, values, owed>>
answerVars  == <<replies, lost>>
vars == <<controlVars, loopVars, ackVars, handlerVars, answerVars>>

-------------------------------------------------------------------------------
\* The command's payload and device, once it was sent.
payloadOf(c) == request[c].payload
deviceOf(c)  == request[c].device

NoExpectation == [key \in {} |-> Toggle]

Init ==
    /\ ctxDone = FALSE
    /\ exited = FALSE
    /\ connected = TRUE
    \* the command loop, the mgw disconnect and, if enabled, the watcher
    /\ wg = IF AckEnabled THEN 3 ELSE 2
    /\ request = [c \in Commands |-> NoRequest]
    /\ commandbuffer = <<>>
    /\ at = NoCommand
    /\ cmd = "idle"
    /\ cancelAck = "nil"
    /\ expected = [c \in Commands |-> NoExpectation]
    /\ published = {}
    /\ pending = {}
    /\ closed = FALSE
    /\ watcher = IF AckEnabled THEN "waiting" ELSE "done"
    /\ timer = [c \in Commands |-> "off"]
    /\ delivering = [c \in Commands |-> "no"]
    /\ hAt = [h \in Handlers |-> "idle"]
    /\ hDevice = [h \in Handlers |-> NoDevice]
    /\ hState = [h \in Handlers |-> NoState]
    /\ values = [d \in Devices |-> NoState]
    /\ replies = [c \in Commands |-> <<>>]
    /\ lost = {}
    /\ owed = [h \in Handlers |-> {}]

-------------------------------------------------------------------------------
\* The answers of the mgw client.

\* Respond returned no error: the platform has the response.
Responded(c) ==
    /\ connected
    /\ replies' = [replies EXCEPT ![c] = Append(@, "response")]
    /\ UNCHANGED lost

\* Respond returned an error: for the connector nothing was sent.  (A response
\* whose token broke may have reached the platform all the same, and the error
\* sent in its place is then its second message; `replies` has the answers that
\* the connector knows to have been sent.)
RespondRefused ==
    /\ ~connected \/ PublishErrors
    /\ UNCHANGED answerVars

\* SendCommandError, which reports nothing to its caller.
SendCommandError(c) ==
    \/ /\ connected
       /\ replies' = [replies EXCEPT ![c] = Append(@, "error")]
       /\ UNCHANGED lost
    \/ /\ ~connected \/ PublishErrors
       /\ lost' = lost \cup {c}
       /\ UNCHANGED replies

-------------------------------------------------------------------------------
\* The mgw handler of commands and the command loop.

\* Blocks while the buffer is full.
Command(c, r) ==
    /\ ~exited
    /\ request[c] = NoRequest
    /\ Len(commandbuffer) < CommandBufferSize
    /\ request' = [request EXCEPT ![c] = r]
    /\ commandbuffer' = Append(commandbuffer, c)
    /\ UNCHANGED <<controlVars, at, cmd, cancelAck, expected, published,
                   ackVars, handlerVars, answerVars>>

\* Where the loop goes with a command; a foreign one is dropped silently.
firstStep(r) ==
    IF ~r.own THEN "idle"
    ELSE IF r.service = "get" THEN "getting"
    ELSE IF r.service = "other" THEN "failing"
    ELSE IF AckEnabled THEN "expecting" ELSE "publishing"

TakeCommand ==
    /\ ~exited
    /\ cmd = "idle"
    /\ commandbuffer # <<>>
    /\ at' = Head(commandbuffer)
    /\ commandbuffer' = Tail(commandbuffer)
    /\ cancelAck' = "nil"
    /\ cmd' = firstStep(request[at'])
    /\ UNCHANGED <<controlVars, request, expected, published, ackVars, handlerVars, answerVars>>

\* getExposes and getLastState, either of which may have nothing to offer.
Expect ==
    /\ ~exited
    /\ cmd = "expecting"
    /\ \E exposes \in {{}, Exposes[deviceOf(at)]},
          lastState \in {NoExpectation} \cup ({values[deviceOf(at)]} \ {NoState}) :
          LET e == ackExpectation(payloadOf(at), exposes, lastState)
          IN  IF isAcknowledgeable(e)
              THEN /\ expected' = [expected EXCEPT ![at] = e]
                   /\ cmd' = "registering"
              ELSE /\ cmd' = "publishing"
                   /\ UNCHANGED expected
    /\ UNCHANGED <<controlVars, request, commandbuffer, at, cancelAck, published,
                   ackVars, handlerVars, answerVars>>

\* A closed registry takes no entry; its cancel function always reports TRUE.
Register ==
    /\ ~exited
    /\ cmd = "registering"
    /\ cmd' = "publishing"
    /\ IF closed
       THEN /\ cancelAck' = "noop"
            /\ UNCHANGED <<pending, timer>>
       ELSE /\ cancelAck' = "entry"
            /\ pending' = pending \cup {at}
            /\ timer' = [timer EXCEPT ![at] = "armed"]
    /\ UNCHANGED <<controlVars, request, commandbuffer, at, expected, published,
                   closed, watcher, delivering, handlerVars, answerVars>>

\* The loop calls SetByIeee once it is past the registration.
setCalledEarly == cmd \in {"registering", "publishing"}    \* mutant
setCalled == cmd = "publishing"

\* SetByIeee: the broker has the message, the loop still waits for the token.
SetPublished ==
    /\ ~exited
    /\ setCalled
    /\ at \notin published
    /\ published' = published \cup {at}
    /\ UNCHANGED <<controlVars, request, commandbuffer, at, cmd, cancelAck, expected,
                   ackVars, handlerVars, answerVars>>

\* An acknowledged command needs no answer from the loop.
afterSetForgotten == "idle"                                 \* mutant
afterSetAlways == "responding"                              \* mutant
afterSet == IF cancelAck = "nil" THEN "responding" ELSE "idle"

\* SetByIeee returned no error.
SetSucceeds ==
    /\ ~exited
    /\ cmd = "publishing"
    /\ at \in published
    /\ cmd' = afterSet
    /\ UNCHANGED <<controlVars, request, commandbuffer, at, cancelAck, expected, published,
                   ackVars, handlerVars, answerVars>>

\* SetByIeee failed: unknown device, no connection, or a broken publish whose
\* message may nevertheless have reached the broker.
SetFails ==
    /\ ~exited
    /\ cmd = "publishing"
    /\ cmd' = IF cancelAck = "nil" THEN "failing" ELSE "cancelling"
    /\ UNCHANGED <<controlVars, request, commandbuffer, at, cancelAck, expected, published,
                   ackVars, handlerVars, answerVars>>

afterCancelNoop == IF at \in pending THEN "failing" ELSE "idle"    \* mutant
\* A command that is no longer pending is someone else's to answer.
afterCancel == IF cancelAck = "noop" \/ at \in pending THEN "failing" ELSE "idle"

\* timer.Stop() of the entries of m; it stops no timer that has fired.
stoppedNone(m) == timer                                     \* mutant
stopped(m) ==
    [c \in Commands |-> IF c \in m /\ timer[c] = "armed" THEN "stopped" ELSE timer[c]]

\* The function Register returned.
Cancel ==
    /\ ~exited
    /\ cmd = "cancelling"
    /\ cmd' = afterCancel
    /\ pending' = pending \ {at}
    /\ timer' = stopped({at} \cap pending)
    /\ UNCHANGED <<controlVars, request, commandbuffer, at, cancelAck, expected, published,
                   closed, watcher, delivering, handlerVars, answerVars>>

\* The service "get": no value, or an unknown device, is an error.
Get ==
    /\ ~exited
    /\ cmd = "getting"
    /\ cmd' \in {"failing"} \cup (IF values[deviceOf(at)] # NoState THEN {"responding"} ELSE {})
    /\ UNCHANGED <<controlVars, request, commandbuffer, at, cancelAck, expected, published,
                   ackVars, handlerVars, answerVars>>

\* The response the loop sends itself, empty for a set.
Respond ==
    /\ ~exited
    /\ cmd = "responding"
    /\ \/ Responded(at) /\ cmd' = "idle"
       \/ RespondRefused /\ cmd' = "failing"
    /\ UNCHANGED <<controlVars, request, commandbuffer, at, cancelAck, expected, published,
                   ackVars, handlerVars>>

Fail ==
    /\ ~exited
    /\ cmd = "failing"
    /\ SendCommandError(at)
    /\ cmd' = "idle"
    /\ UNCHANGED <<controlVars, request, commandbuffer, at, cancelAck, expected, published,
                   ackVars, handlerVars>>

\* A select between a cancelled context and a filled buffer takes either.
StopLoop ==
    /\ ~exited
    /\ cmd = "idle"
    /\ ctxDone
    /\ cmd' = "stopped"
    /\ wg' = wg - 1
    /\ UNCHANGED <<ctxDone, exited, connected, request, commandbuffer, at, cancelAck,
                   expected, published, ackVars, handlerVars, answerVars>>

-------------------------------------------------------------------------------
\* The registry's timers.

\* The runtime starts the entry's expire in a goroutine of its own.
Fire(c) ==
    /\ ~exited
    /\ timer[c] = "armed"
    /\ timer' = [timer EXCEPT ![c] = "fired"]
    /\ UNCHANGED <<controlVars, loopVars, pending, closed, watcher, delivering,
                   handlerVars, answerVars>>

\* Only an entry that is still there is answered by its timeout.
expiredUnchecked(c) == "failing"                            \* mutant
expiredSilently(c) == "done"                                \* mutant
expired(c) == IF c \in pending THEN "failing" ELSE "done"

\* expire takes the entry out.
Expire(c) ==
    /\ ~exited
    /\ timer[c] = "fired"
    /\ timer' = [timer EXCEPT ![c] = expired(c)]
    /\ pending' = pending \ {c}
    /\ UNCHANGED <<controlVars, loopVars, closed, watcher, delivering, handlerVars, answerVars>>

ExpireFail(c) ==
    /\ ~exited
    /\ timer[c] = "failing"
    /\ timer' = [timer EXCEPT ![c] = "done"]
    /\ SendCommandError(c)
    /\ UNCHANGED <<controlVars, loopVars, pending, closed, watcher, delivering, handlerVars>>

-------------------------------------------------------------------------------
\* The eventHandlers, and the registry's Observe that they call.

pendingOf(d)  == { c \in pending : deviceOf(c) = d }
hasPending(d) == pendingOf(d) # {}
matched(d, s) == { c \in pendingOf(d) : ackMatches(expected[c], s) }

\* History: the set commands that reached zigbee2mqtt, wait for a confirmation
\* and are confirmed by state s of device d.
confirmedBy(d, s) ==
    { c \in published : /\ deviceOf(c) = d
                        /\ isAcknowledgeable(expected[c])
                        /\ ackMatches(expected[c], s) }

\* A message of a known device; a retained one is not shown to the registry.
Arrive(h, d, s, retained) ==
    /\ ~exited
    /\ hAt[h] = "idle"
    /\ hAt' = [hAt EXCEPT ![h] = IF retained \/ ~AckEnabled THEN "storing" ELSE "checking"]
    /\ hDevice' = [hDevice EXCEPT ![h] = d]
    /\ hState' = [hState EXCEPT ![h] = s]
    /\ owed' = [owed EXCEPT ![h] = IF retained THEN {} ELSE confirmedBy(d, s)]
    /\ UNCHANGED <<controlVars, loopVars, ackVars, values, answerVars>>

\* hasPending takes and releases the lock; an unreadable state ends Observe.
Check(h) ==
    /\ ~exited
    /\ hAt[h] = "checking"
    /\ hAt' = [hAt EXCEPT ![h] = IF hasPending(hDevice[h]) /\ DOMAIN hState[h] # {}
                                 THEN "matching" ELSE "storing"]
    /\ UNCHANGED <<controlVars, loopVars, ackVars, hDevice, hState, values, owed, answerVars>>

\* wg.Add(len(matched)).
wgAddedNone(m) == wg                                        \* mutant
wgAdded(m) == wg + Cardinality(m)

\* The locked part of Observe: matched entries leave the registry, and the
\* goroutines that answer them are counted before the lock is released.
Match(h) ==
    /\ ~exited
    /\ hAt[h] = "matching"
    /\ hAt' = [hAt EXCEPT ![h] = "storing"]
    /\ LET m == IF closed THEN {} ELSE matched(hDevice[h], hState[h])
       IN  /\ pending' = pending \ m
           /\ timer' = stopped(m)
           /\ delivering' = [c \in Commands |-> IF c \in m THEN "responding" ELSE delivering[c]]
           /\ wg' = wgAdded(m)
    /\ UNCHANGED <<ctxDone, exited, connected, loopVars, closed, watcher,
                   hDevice, hState, values, owed, answerVars>>

\* The value becomes the device's last one and goes to the event loop.
Store(h) ==
    /\ ~exited
    /\ hAt[h] = "storing"
    /\ hAt' = [hAt EXCEPT ![h] = "idle"]
    /\ owed' = [owed EXCEPT ![h] = {}]
    /\ values' = [values EXCEPT ![hDevice[h]] = hState[h]]
    /\ hDevice' = [hDevice EXCEPT ![h] = NoDevice]
    /\ hState' = [hState EXCEPT ![h] = NoState]
    /\ UNCHANGED <<controlVars, loopVars, ackVars, answerVars>>

\* deliver: the response, and an error if the response was refused.
DeliverResponse(c) ==
    /\ ~exited
    /\ delivering[c] = "responding"
    /\ \/ /\ Responded(c)
          /\ delivering' = [delivering EXCEPT ![c] = "done"]
          /\ wg' = wg - 1
       \/ /\ RespondRefused
          /\ delivering' = [delivering EXCEPT ![c] = "failing"]
          /\ UNCHANGED wg
    /\ UNCHANGED <<ctxDone, exited, connected, loopVars, pending, closed, watcher, timer,
                   handlerVars>>


DeliverError(c) ==
    /\ ~exited
    /\ delivering[c] = "failing"
    /\ SendCommandError(c)
    /\ delivering' = [delivering EXCEPT ![c] = "done"]
    /\ wg' = wg - 1
    /\ UNCHANGED <<ctxDone, exited, connected, loopVars, pending, closed, watcher, timer,
                   handlerVars>>

-------------------------------------------------------------------------------
\* The end of the process.

Shutdown ==
    /\ ~ctxDone
    /\ ctxDone' = TRUE
    /\ UNCHANGED <<exited, connected, wg, loopVars, ackVars, handlerVars, answerVars>>

CloseOnlyWatcher ==                                         \* mutant
    /\ ~exited
    /\ ctxDone
    /\ watcher = "waiting"
    /\ watcher' = "closing"
    /\ UNCHANGED <<controlVars, loopVars, pending, closed, timer, delivering,
                   handlerVars, answerVars>>

Close ==
    /\ ~exited
    /\ ctxDone
    /\ watcher = "waiting"
    /\ watcher' = "closing"
    /\ closed' = TRUE
    /\ timer' = stopped(pending)
    /\ pending' = {}
    /\ UNCHANGED <<controlVars, loopVars, delivering, handlerVars, answerVars>>

WatcherDone ==
    /\ ~exited
    /\ watcher = "closing"
    /\ watcher' = "done"
    /\ wg' = wg - 1
    /\ UNCHANGED <<ctxDone, exited, connected, loopVars, pending, closed, timer, delivering,
                   handlerVars, answerVars>>

MgwDisconnect ==
    /\ ~exited
    /\ ctxDone
    /\ connected
    /\ connected' = FALSE
    /\ wg' = wg - 1
    /\ UNCHANGED <<ctxDone, exited, loopVars, ackVars, handlerVars, answerVars>>

Exit ==
    /\ ctxDone
    /\ wg = 0
    /\ ~exited
    /\ exited' = TRUE
    /\ UNCHANGED <<ctxDone, connected, wg, loopVars, ackVars, handlerVars, answerVars>>

Terminated == exited /\ UNCHANGED vars

-------------------------------------------------------------------------------
Loop ==
    \/ TakeCommand \/ Expect \/ Register \/ SetSucceeds \/ SetFails
    \/ Cancel \/ Get \/ Respond \/ Fail \/ StopLoop

Handler(h) == Check(h) \/ Match(h) \/ Store(h)

Timer(c) == Fire(c) \/ Expire(c) \/ ExpireFail(c)

Deliver(c) == DeliverResponse(c) \/ DeliverError(c)

Next ==
    \/ \E c \in Commands, r \in Requests : Command(c, r)
    \/ Loop
    \/ SetPublished
    \/ \E c \in Commands : Timer(c) \/ Deliver(c)
    \/ \E h \in Handlers, d \in Devices, s \in DeviceStates, retained \in BOOLEAN :
          Arrive(h, d, s, retained)
    \/ \E h \in Handlers : Handler(h)
    \/ Shutdown \/ Close \/ WatcherDone \/ MgwDisconnect \/ Exit
    \/ Terminated

Safety == Init /\ [][Next]_vars

\* The loop reads the last state of a device, under the valueMux of the client.
ReadsValue == cmd \in {"expecting", "getting"}

\* A publish waits for its token, without a timeout: while the mqtt client is
\* reconnecting the token stays open, and a disconnect then leaves it so.
LoopAwaits == cmd \in {"publishing", "responding", "failing"}

\* Every goroutine that can run does, but for those that wait for a token; the
\* platform, the devices and the signal owe nothing.  valueMux is free in the
\* end while the event loop runs, but perhaps not after the shutdown
\* (ZigbeeClient).
Fairness ==
    /\ WF_vars(Loop /\ ~LoopAwaits /\ ~(ctxDone /\ ReadsValue))
    /\ \A c \in Commands : WF_vars(Fire(c) \/ Expire(c))
    /\ \A h \in Handlers : WF_vars(Handler(h))
    /\ WF_vars(Close \/ WatcherDone)
    /\ WF_vars(MgwDisconnect)
    /\ WF_vars(Exit)

Spec == Safety /\ Fairness

-------------------------------------------------------------------------------
\* Who still owes the answer to a command.

InBuffer(c) == \E i \in DOMAIN commandbuffer : commandbuffer[i] = c

\* The loop hands the answer over to the registry when it registers an entry.
LoopOwes(c) ==
    /\ at = c
    /\ \/ cmd \in {"expecting", "registering", "getting", "responding", "failing"}
       \/ cmd \in {"publishing", "cancelling"} /\ cancelAck # "entry"

DeliveryOwes(c) == delivering[c] \in {"responding", "failing"}

TimerOwes(c) == timer[c] = "failing"

Owed(c) ==
    InBuffer(c) \/ LoopOwes(c) \/ c \in pending \/ DeliveryOwes(c) \/ TimerOwes(c)

Answered(c) == replies[c] # <<>> \/ c \in lost

\* The closed registry left the command without an answer: it dropped its entry,
\* or took none although the set it would have confirmed was published.
Dropped(c) ==
    /\ closed
    /\ delivering[c] = "no"
    /\ \/ timer[c] # "off"
       \/ c \in published /\ isAcknowledgeable(expected[c])

-------------------------------------------------------------------------------
\* Properties.

ControlTypeOK ==
    ctxDone \in BOOLEAN /\ exited \in BOOLEAN /\ connected \in BOOLEAN

LoopTypeOK ==
    /\ request \in [Commands -> Requests \cup {NoRequest}]
    /\ commandbuffer \in Seq(Commands)
    /\ at \in Commands \cup {NoCommand}
    /\ cmd \in {"idle", "expecting", "registering", "publishing", "cancelling",
                "getting", "responding", "failing", "stopped"}
    /\ cancelAck \in {"nil", "entry", "noop"}
    /\ DOMAIN expected = Commands
    /\ published \subseteq Commands

RegistryTypeOK ==
    /\ pending \subseteq Commands
    /\ closed \in BOOLEAN
    /\ watcher \in {"waiting", "closing", "done"}
    /\ timer \in [Commands -> {"off", "armed", "stopped", "fired", "failing", "done"}]
    /\ delivering \in [Commands -> {"no", "responding", "failing", "done"}]

HandlerTypeOK ==
    /\ hAt \in [Handlers -> {"idle", "checking", "matching", "storing"}]
    /\ hDevice \in [Handlers -> Devices \cup {NoDevice}]
    /\ hState \in [Handlers -> DeviceStates \cup {NoState}]
    /\ values \in [Devices -> DeviceStates \cup {NoState}]
    /\ owed \in [Handlers -> SUBSET Commands]

AnswerTypeOK ==
    /\ replies \in [Commands -> Seq({"response", "error"})]
    /\ lost \subseteq Commands

\* Every variable holds a value of its kind.  For wg this says something: a
\* negative counter is a Done without its Add, and the WaitGroup panics.
TypeOK ==
    /\ ControlTypeOK /\ LoopTypeOK /\ RegistryTypeOK /\ HandlerTypeOK /\ AnswerTypeOK
    /\ wg \in Nat

\* A command gets one answer: whatever order a matching state, the timeout, a
\* failed publish, a refused response and the shutdown come in, the platform
\* never receives two answers, nor one after an answer was given up
\* (handleSet, cancelAck, removeLocked).
AnsweredOnce ==
    \A c \in Commands : /\ Len(replies[c]) <= 1
                        /\ c \in lost => replies[c] = <<>>

\* No command of an own device is forgotten: it has its answer, or some
\* goroutine, timer or buffer still owes it.  Only a set that waits for its
\* confirmation when the registry is closed, or would then, is dropped.
NeverForgotten ==
    \A c \in Commands :
        request[c] # NoRequest /\ request[c].own =>
            Answered(c) \/ Owed(c) \/ Dropped(c)

\* "registered before publishing, so that a fast state can not be missed": once
\* the handler of a state that arrived after the set is past Observe, no command
\* the state confirms waits any longer, neither in the registry nor on its way.
NoMissedState ==
    \A h \in Handlers : hAt[h] = "storing" /\ ~closed =>
        \A c \in owed[h] :
            /\ c \notin pending
            /\ ~(at = c /\ cmd = "registering")

\* A device that does what it was told confirms the command, whatever its
\* definition and its last state left of the expectation and whatever fade was
\* asked for; and no entry expects nothing, which any state would confirm.
EchoConfirms ==
    \A c \in pending :
        /\ isAcknowledgeable(expected[c])
        /\ \A s \in DeviceStates : echoes(s, payloadOf(c)) => ackMatches(expected[c], s)

\* An entry's timer runs as long as the entry and no longer: an entry without
\* one would wait for ever, and no removed entry leaves a timer behind.
TimersFollowEntries ==
    \A c \in Commands : /\ c \in pending => timer[c] \in {"armed", "fired"}
                        /\ timer[c] = "armed" => c \in pending

\* An acknowledged set is a success only if the registry matched a state with
\* it; the loop itself answers only what no state could confirm.
ConfirmedSuccess ==
    \A c \in Commands :
        /\ replies[c] = <<"response">>
        /\ request[c].service = "set"
        /\ isAcknowledgeable(expected[c])
        => delivering[c] = "done"

\* wg.Wait() lets main return only when no matched command is still being
\* answered (wg.Add under the lock of Observe, wg.Done in deliver's goroutine).
ExitAfterDelivery == exited => \A c \in Commands : ~DeliveryOwes(c)

\* The last messages main waits for: when it returns, no command of an own
\* device lacks an answer but those still in the buffer, those the registry
\* dropped, and those whose timer fires into the exit.
AnsweredAtExit ==
    exited =>
        \A c \in Commands : request[c] # NoRequest /\ request[c].own =>
            Answered(c) \/ InBuffer(c) \/ Dropped(c) \/ TimerOwes(c)

\* The counter main waits for never grows again after it has reached zero: the
\* comment on wg.Add in Observe relies on the watcher's count for this.
NoAddAtZero == [][wg' > wg => wg > 0]_vars


\* What the platform sees of a command; a second answer is no outcome.
outcomeOf(c) ==
    CASE Len(replies[c]) = 1                       -> replies[c][1]
      [] Len(replies[c]) > 1                       -> "twice"
      [] replies[c] = <<>> /\ c \in lost           -> "lost"
      [] replies[c] = <<>> /\ c \notin lost        ->
            IF request[c] # NoRequest /\ request[c].own THEN "open" ELSE "unknown"

\* Whose answer waits for the token of a publish: its own, or the loop's.
Blocked ==
    { c \in Commands : \/ DeliveryOwes(c)
                       \/ TimerOwes(c)
                       \/ LoopAwaits /\ (InBuffer(c) \/ LoopOwes(c)) }

Promise == INSTANCE CommandAnswer
    WITH outcome <- [c \in Commands |-> outcomeOf(c)], blocked <- Blocked,
         stopping <- ctxDone, down <- exited, MayLose <- PublishErrors

\* The handling of commands keeps the promise of CommandAnswer: one answer at
\* most, none given up on before the shutdown, each given in the end unless a
\* publish waits for its token for ever.
KeepsPromise == Promise!Spec

\* "false means it was already answered (match or timeout)": when cancelAck
\* reports FALSE, a response or a timeout error was or will be sent.
CancelledMeansAnswered ==
    [][cmd = "cancelling" /\ cmd' = "idle" =>
          Answered(at) \/ DeliveryOwes(at) \/ TimerOwes(at)]_vars

\* The same while the registry is open: a command whose publish failed and whose
\* entry is gone is answered by whoever took the entry out.
CancelledUntilClosed ==
    [][cmd = "cancelling" /\ cmd' = "idle" /\ ~closed =>
          Answered(at) \/ DeliveryOwes(at) \/ TimerOwes(at)]_vars

\* "give go routines time for cleanup and last messages": the response of every
\* matched command has left when main returns.
LastMessagesSent ==
    exited => \A c \in Commands : delivering[c] # "no" => replies[c] # <<>>

===============================================================================
