------------------------------ MODULE AuthProofs ------------------------------
(***************************************************************************)
(* What holds of Auth for any callers, lifetimes, buffer and durations of   *)
(* the requests.                                                           *)
(***************************************************************************)
EXTENDS Auth, TLAPS

USE TimesAssumption

Local == {"stamping", "returning"}

\* A request waits for an answer that is issued while it waits, and the shared
\* token is fresh while a caller that has replaced it goes on.
FlightInv ==
    \A c \in Callers :
        /\ pc[c] = "decoding" => issued[c] \in Int
        /\ pc[c] \in Local => AccessToken \in Int
        /\ pc[c] \in Local /\ ~doubtful => ~late(AccessToken)

\* A RequestTime may be too late for the token, but only by the buffer; one that
\* was torn was read while the token was fresh.
StampInv ==
    ~doubtful /\ AccessToken \in Int =>
        /\ RequestTime \in Int => RequestTime <= AccessToken + AuthExpirationTimeBuffer
        /\ \A c \in Callers : pc[c] = "choosing" =>
              /\ read[c] \in Int => read[c] <= AccessToken + AuthExpirationTimeBuffer
              /\ read[c] = Future => now < AccessToken + ExpiresIn

IInv == TypeOK /\ FlightInv /\ StampInv /\ TokenUnexpired

-------------------------------------------------------------------------------
\* Every variable keeps its kind.
LEMMA TypeStep == TypeOK /\ FlightInv /\ [Next]_vars => TypeOK'
<1> SUFFICES ASSUME TypeOK, FlightInv, [Next]_vars
             PROVE  TypeOK'
    OBVIOUS
<1> USE DEF TypeOK, Times, FlightInv, sharedVars, callVars
<1>1. ASSUME NEW c \in Callers, EnsureAccess(c)
      PROVE  TypeOK'
    BY <1>1 DEF EnsureAccess, To, RequestTimes
<1>2. ASSUME NEW c \in Callers, Choose(c)
      PROVE  TypeOK'
    <2>1. read' \in [Callers -> Times \cup {Never, Future}]
        BY <1>2 DEF Choose
    <2>2. CASE \E t \in AccessTokens(c) : Return(c, t)
        BY <1>2, <2>1, <2>2 DEF Choose, To, Return, AccessTokens
    <2>3. CASE Request(c, "refreshing") \/ Request(c, "getting")
        BY <1>2, <2>1, <2>3 DEF Choose, To, Request
    <2>4. QED
        BY <1>2, <2>2, <2>3 DEF Choose
<1>3. ASSUME NEW c \in Callers, Issue(c)
      PROVE  TypeOK'
    BY <1>3 DEF Issue, To
<1>4. ASSUME NEW c \in Callers, Refuse(c)
      PROVE  TypeOK'
    <2>1. CASE Request(c, "getting")
        BY <1>4, <2>1 DEF Refuse, To, Request
    <2>2. CASE Return(c, None)
        BY <1>4, <2>2 DEF Refuse, To, Return
    <2>3. QED
        BY <1>4, <2>1, <2>2 DEF Refuse, NextTry
<1>5. ASSUME NEW c \in Callers, Undecodable(c)
      PROVE  TypeOK'
    <2>1. /\ RequestTime' \in Times /\ doubtful' = TRUE
          /\ UNCHANGED <<now, AccessToken, read, issued>>
        BY <1>5 DEF Undecodable
    <2>2. CASE pc[c] = "refreshing"
        <3>1. /\ pc' = [pc EXCEPT ![c] = "getting"] /\ UNCHANGED answer
              /\ requesttime' = [requesttime EXCEPT ![c] = now]
            BY <1>5, <2>2 DEF Undecodable, NextTry, To, Request
        <3>2. requesttime' \in [Callers -> Times] /\ now \in Times
            BY <3>1
        <3>3. QED
            BY <2>1, <3>1, <3>2
    <2>3. CASE pc[c] = "getting"
        <3>1. /\ pc' = [pc EXCEPT ![c] = "idle"]
              /\ requesttime' = [requesttime EXCEPT ![c] = 0]
              /\ answer' = [answer EXCEPT ![c] =
                               [token |-> None, at |-> now, doubt |-> doubtful]]
            BY <1>5, <2>3 DEF Undecodable, NextTry, To, Return
        <3>2. [token |-> None, at |-> now, doubt |-> doubtful]
                  \in [token : Times \cup {None, Torn}, at : Times, doubt : BOOLEAN]
            OBVIOUS
        <3>3. answer' \in [Callers -> [token : Times \cup {None, Torn}, at : Times,
                                      doubt : BOOLEAN]]
            BY <3>1, <3>2
        <3>4. requesttime' \in [Callers -> Times]
            BY <3>1
        <3>5. QED
            BY <2>1, <3>1, <3>3, <3>4
    <2>4. QED
        BY <1>5, <2>2, <2>3 DEF Undecodable
<1>6. ASSUME NEW c \in Callers, Decode(c)
      PROVE  TypeOK'
    BY <1>6 DEF Decode, To, late
<1>7. ASSUME NEW c \in Callers, Stamp(c)
      PROVE  TypeOK'
    BY <1>7 DEF Stamp, To, stamp
<1>8. ASSUME NEW c \in Callers, ReturnNew(c)
      PROVE  TypeOK'
    BY <1>8 DEF ReturnNew, To, Return, AccessTokens
<1>9. CASE Tick
    BY <1>9 DEF Tick
<1>10. CASE UNCHANGED vars
    BY <1>10 DEF vars
<1>11. QED
    BY <1>1, <1>2, <1>3, <1>4, <1>5, <1>6, <1>7, <1>8, <1>9, <1>10
       DEF Next

\* An answer replaces the token by a fresh one or raises a doubt.
LEMMA FlightStep == IInv /\ [Next]_vars => FlightInv'
<1> SUFFICES ASSUME IInv, [Next]_vars
             PROVE  FlightInv'
    OBVIOUS
<1> USE DEF IInv, TypeOK, Times, FlightInv, Local, StampInv, TokenUnexpired, late,
            sharedVars, callVars
<1>1. ASSUME NEW c \in Callers, EnsureAccess(c)
      PROVE  FlightInv'
    BY <1>1 DEF EnsureAccess, To, RequestTimes
<1>2. ASSUME NEW c \in Callers, Choose(c)
      PROVE  FlightInv'
    BY <1>2 DEF Choose, To, Return, Request, AccessTokens, young
<1>3. ASSUME NEW c \in Callers, Issue(c)
      PROVE  FlightInv'
    BY <1>3 DEF Issue, To
<1>4. ASSUME NEW c \in Callers, Refuse(c)
      PROVE  FlightInv'
    BY <1>4 DEF Refuse, NextTry, To, Return, Request
<1>5. ASSUME NEW c \in Callers, Undecodable(c)
      PROVE  FlightInv'
    BY <1>5 DEF Undecodable, NextTry, To, Return, Request
<1>6. ASSUME NEW c \in Callers, Decode(c)
      PROVE  FlightInv'
    BY <1>6 DEF Decode, To, late
<1>7. ASSUME NEW c \in Callers, Stamp(c)
      PROVE  FlightInv'
    BY <1>7 DEF Stamp, To, stamp
<1>8. ASSUME NEW c \in Callers, ReturnNew(c)
      PROVE  FlightInv'
    BY <1>8 DEF ReturnNew, To, Return, AccessTokens
<1>9. CASE Tick
    BY <1>9 DEF Tick
<1>10. CASE UNCHANGED vars
    BY <1>10 DEF vars
<1>11. QED
    BY <1>1, <1>2, <1>3, <1>4, <1>5, <1>6, <1>7, <1>8, <1>9, <1>10
       DEF Next

\* No write makes the token younger by more than the buffer, unless in doubt.
LEMMA StampStep == IInv /\ [Next]_vars => StampInv'
<1> SUFFICES ASSUME IInv, [Next]_vars
             PROVE  StampInv'
    OBVIOUS
<1> USE DEF IInv, TypeOK, Times, FlightInv, Local, StampInv, TokenUnexpired, late,
            sharedVars, callVars
<1>1. ASSUME NEW c \in Callers, EnsureAccess(c)
      PROVE  StampInv'
    BY <1>1 DEF EnsureAccess, To, RequestTimes
<1>2. ASSUME NEW c \in Callers, Choose(c)
      PROVE  StampInv'
    BY <1>2 DEF Choose, To, Return, Request, AccessTokens, young
<1>3. ASSUME NEW c \in Callers, Issue(c)
      PROVE  StampInv'
    BY <1>3 DEF Issue, To
<1>4. ASSUME NEW c \in Callers, Refuse(c)
      PROVE  StampInv'
    BY <1>4 DEF Refuse, NextTry, To, Return, Request
<1>5. ASSUME NEW c \in Callers, Undecodable(c)
      PROVE  StampInv'
    BY <1>5 DEF Undecodable, NextTry, To, Return, Request
<1>6. ASSUME NEW c \in Callers, Decode(c)
      PROVE  StampInv'
    <2>1. /\ AccessToken' = issued[c] /\ doubtful' = late(issued[c])
          /\ pc' = [pc EXCEPT ![c] = "stamping"]
          /\ UNCHANGED <<now, RequestTime, read>>
        BY <1>6 DEF Decode, To
    <2>2. \A t \in Int : (t \in Times \cup {Never, Future}) => t <= now
        OBVIOUS
    <2>3. CASE ~late(issued[c])
        <3>1. /\ issued[c] \in Int
              /\ now <= issued[c] + AuthExpirationTimeBuffer
              /\ now < issued[c] + ExpiresIn
            BY <1>6, <2>3 DEF Decode
        <3>2. RequestTime \in Int => RequestTime <= issued[c] + AuthExpirationTimeBuffer
            BY <2>2, <3>1
        <3>3. \A o \in Callers :
                 read[o] \in Int => read[o] <= issued[c] + AuthExpirationTimeBuffer
            BY <2>2, <3>1
        <3>4. QED
            BY <2>1, <3>1, <3>2, <3>3
    <2>4. CASE late(issued[c])
        BY <2>1, <2>4
    <2>5. QED
        BY <2>3, <2>4
<1>7. ASSUME NEW c \in Callers, Stamp(c)
      PROVE  StampInv'
    BY <1>7 DEF Stamp, To, stamp
<1>8. ASSUME NEW c \in Callers, ReturnNew(c)
      PROVE  StampInv'
    BY <1>8 DEF ReturnNew, To, Return, AccessTokens
<1>9. CASE Tick
    BY <1>9 DEF Tick
<1>10. CASE UNCHANGED vars
    BY <1>10 DEF vars
<1>11. QED
    BY <1>1, <1>2, <1>3, <1>4, <1>5, <1>6, <1>7, <1>8, <1>9, <1>10
       DEF Next

\* The buffer is larger than what the RequestTime may be off.
LEMMA ExpiryStep == IInv /\ [Next]_vars => TokenUnexpired'
<1> SUFFICES ASSUME IInv, [Next]_vars
             PROVE  TokenUnexpired'
    OBVIOUS
<1> USE DEF IInv, TypeOK, Times, FlightInv, Local, StampInv, TokenUnexpired, late,
            sharedVars, callVars
<1>1. ASSUME NEW c \in Callers, EnsureAccess(c)
      PROVE  TokenUnexpired'
    BY <1>1 DEF EnsureAccess, To, RequestTimes
<1>2. ASSUME NEW c \in Callers, Choose(c)
      PROVE  TokenUnexpired'
    BY <1>2 DEF Choose, To, Return, Request, AccessTokens, young
<1>3. ASSUME NEW c \in Callers, Issue(c)
      PROVE  TokenUnexpired'
    BY <1>3 DEF Issue, To
<1>4. ASSUME NEW c \in Callers, Refuse(c)
      PROVE  TokenUnexpired'
    BY <1>4 DEF Refuse, NextTry, To, Return, Request
<1>5. ASSUME NEW c \in Callers, Undecodable(c)
      PROVE  TokenUnexpired'
    BY <1>5 DEF Undecodable, NextTry, To, Return, Request
<1>6. ASSUME NEW c \in Callers, Decode(c)
      PROVE  TokenUnexpired'
    BY <1>6 DEF Decode, To, late
<1>7. ASSUME NEW c \in Callers, Stamp(c)
      PROVE  TokenUnexpired'
    BY <1>7 DEF Stamp, To, stamp
<1>8. ASSUME NEW c \in Callers, ReturnNew(c)
      PROVE  TokenUnexpired'
    BY <1>8 DEF ReturnNew, To, Return, AccessTokens
<1>9. CASE Tick
    BY <1>9 DEF Tick
<1>10. CASE UNCHANGED vars
    BY <1>10 DEF vars
<1>11. QED
    BY <1>1, <1>2, <1>3, <1>4, <1>5, <1>6, <1>7, <1>8, <1>9, <1>10
       DEF Next

-------------------------------------------------------------------------------
LEMMA InitInv == Init => IInv
<1> SUFFICES ASSUME Init PROVE IInv
    OBVIOUS
<1>1. TypeOK
    <2>1. now = 0 /\ now \in Times /\ now \in 0 .. MaxTime
        BY DEF Init, Times
    <2>2. NoAnswer \in [token : Times \cup {None, Torn}, at : Times, doubt : BOOLEAN]
        BY <2>1 DEF NoAnswer
    <2>3. QED
        BY <2>1, <2>2 DEF Init, TypeOK
<1>2. FlightInv /\ StampInv /\ TokenUnexpired
    BY DEF Init, FlightInv, Local, StampInv, TokenUnexpired, late, NoAnswer
<1>3. QED
    BY <1>1, <1>2 DEF IInv

LEMMA Invariance == Safety => []IInv
<1>1. IInv /\ [Next]_vars => IInv'
    BY TypeStep, FlightStep, StampStep, ExpiryStep DEF IInv
<1>2. QED
    BY <1>1, InitInv, PTL DEF Safety

\* Every variable keeps its kind (EnsureAccess).
THEOREM TypeCorrect == Safety => []TypeOK
BY Invariance, PTL DEF IInv

\* However many goroutines read and replace the token without a lock, none gets
\* an expired one, unless the last answer was unreadable or took longer than the
\* buffer (EnsureAccess, getOpenidToken, refreshOpenidToken).
THEOREM TokenUnexpiredHolds == Safety => []TokenUnexpired
BY Invariance, PTL DEF IInv

===============================================================================
