--------------------------------- MODULE Auth ---------------------------------
(***************************************************************************)
(* The access token of the device repository client (pkg/devicerepo/auth), *)
(* which the device loop and the event loop read and replace without a     *)
(* lock.                                                                   *)
(*                                                                         *)
(* A token is known by the time the authorization server issued it.  Its   *)
(* lifetimes are those of the server, the same for every token.  A request *)
(* takes any time, for http.PostForm has no timeout; between the requests  *)
(* the clock stands still.                                                 *)
(*                                                                         *)
(* Races: a field that is read while another goroutine writes it may be    *)
(* torn.  A torn RequestTime is the old one, the new one, one of long ago  *)
(* or one still to come; a torn AccessToken is a string the repository     *)
(* refuses (that it may also be one whose use ends the process is left     *)
(* out).                                                                   *)
(*                                                                         *)
(* A definition marked "mutant" is a faulty variant of the one after it    *)
(* that nothing uses; PROJECT.json names the property it would break.      *)
(***************************************************************************)
EXTENDS Integers

CONSTANTS
    Callers,                    \* the goroutines that call EnsureAccess
    ExpiresIn,                  \* how long an access token lasts
    RefreshExpiresIn,           \* how long a refresh token lasts
    AuthExpirationTimeBuffer,   \* the config value
    MaxTime,                    \* bound on the clock
    Never,                      \* the zero time
    Future,                     \* a torn time later than the clock
    None,                       \* no token
    Torn                        \* what a racing read made of two tokens

ASSUME TimesAssumption ==
    /\ ExpiresIn \in Nat /\ RefreshExpiresIn \in Nat
    /\ AuthExpirationTimeBuffer \in Nat
    /\ MaxTime \in Nat
    /\ Never \notin Int /\ Future \notin Int /\ Never # Future
    /\ None \notin Int /\ Torn \notin Int /\ None # Torn

VARIABLES
    now,            \* the clock
    AccessToken,    \* the shared token
    RequestTime,    \* when it was requested, as far as the code knows
    pc,             \* where each caller is in EnsureAccess
    read,           \* the RequestTime it has read
    requesttime,    \* when it sent its request
    issued,         \* the token the server answers with
    answer,         \* what it returned last
    doubtful        \* history: the server's last answer was unreadable or late

sharedVars == <<AccessToken, RequestTime>>
callVars   == <<pc, read, requesttime, issued, answer>>
vars == <<now, sharedVars, callVars, doubtful>>

NoAnswer == [token |-> None, at |-> 0, doubt |-> FALSE]

Init ==
    /\ now = 0
    /\ AccessToken = None
    /\ RequestTime = Never
    /\ pc = [c \in Callers |-> "idle"]
    /\ read = [c \in Callers |-> Never]
    /\ requesttime = [c \in Callers |-> 0]
    /\ issued = [c \in Callers |-> None]
    /\ answer = [c \in Callers |-> NoAnswer]
    /\ doubtful = FALSE

-------------------------------------------------------------------------------
To(c, p) == pc' = [pc EXCEPT ![c] = p]

others(c, p) == { o \in Callers \ {c} : pc[o] = p }

\* A race-free read, or a torn one.
RequestTimes(c) == {RequestTime} \cup IF others(c, "stamping") = {} THEN {} ELSE {Never, Future}
AccessTokens(c) == {AccessToken} \cup IF others(c, "decoding") = {} THEN {} ELSE {Torn}

youngIgnoringBuffer(r, lifetime) == r # Never /\ (r # Future => now - r < lifetime)   \* mutant
young(r, lifetime) ==
    /\ r # Never
    /\ r # Future => now - r < lifetime - AuthExpirationTimeBuffer

\* The locals of a call end with it.
Return(c, t) ==
    /\ To(c, "idle")
    /\ requesttime' = [requesttime EXCEPT ![c] = 0]
    /\ answer' = [answer EXCEPT ![c] = [token |-> t, at |-> now, doubt |-> doubtful]]

Request(c, p) ==
    /\ To(c, p)
    /\ requesttime' = [requesttime EXCEPT ![c] = now]
    /\ UNCHANGED answer

-------------------------------------------------------------------------------
EnsureAccess(c) ==
    /\ pc[c] = "idle"
    /\ To(c, "choosing")
    /\ \E r \in RequestTimes(c) : read' = [read EXCEPT ![c] = r]
    /\ UNCHANGED <<now, sharedVars, requesttime, issued, answer, doubtful>>

\* The access token, or a request for one with the refresh token or with the
\* password.
Choose(c) ==
    /\ pc[c] = "choosing"
    /\ \/ /\ AccessToken # None
          /\ young(read[c], ExpiresIn)
          /\ \E t \in AccessTokens(c) : Return(c, t)
       \/ /\ AccessToken # None
          /\ ~young(read[c], ExpiresIn)
          /\ young(read[c], RefreshExpiresIn)
          /\ Request(c, "refreshing")
       \/ /\ \/ AccessToken = None
             \/ ~young(read[c], ExpiresIn) /\ ~young(read[c], RefreshExpiresIn)
          /\ Request(c, "getting")
    /\ read' = [read EXCEPT ![c] = Never]
    /\ UNCHANGED <<now, sharedVars, issued, doubtful>>

\* The server issues a token; its answer is on the way.
Issue(c) ==
    /\ pc[c] \in {"refreshing", "getting"}
    /\ To(c, "decoding")
    /\ issued' = [issued EXCEPT ![c] = now]
    /\ UNCHANGED <<now, sharedVars, read, requesttime, answer, doubtful>>

\* After a failed refresh the password; after that no token but an error, and
\* the shared token stays.
NextTry(c) ==
    IF pc[c] = "refreshing"
    THEN Request(c, "getting")
    ELSE Return(c, None)

Refuse(c) ==
    /\ pc[c] \in {"refreshing", "getting"}
    /\ NextTry(c)
    /\ UNCHANGED <<now, sharedVars, read, issued, doubtful>>

\* An answer that cannot be decoded replaces nothing but the RequestTime.
Undecodable(c) ==
    /\ pc[c] \in {"refreshing", "getting"}
    /\ RequestTime' = requesttime[c]
    /\ doubtful' = TRUE
    /\ NextTry(c)
    /\ UNCHANGED <<now, AccessToken, read, issued>>

\* An answer that took longer than the buffer provides for, or than its token
\* lasts.
late(token) == now - token > AuthExpirationTimeBuffer \/ now - token >= ExpiresIn

\* The answer replaces the token first, its RequestTime afterwards.
Decode(c) ==
    /\ pc[c] = "decoding"
    /\ To(c, "stamping")
    /\ AccessToken' = issued[c]
    /\ doubtful' = late(issued[c])
    /\ issued' = [issued EXCEPT ![c] = None]
    /\ UNCHANGED <<now, RequestTime, read, requesttime, answer>>

stampForgotten(c) == RequestTime                            \* mutant
stamp(c) == requesttime[c]

Stamp(c) ==
    /\ pc[c] = "stamping"
    /\ To(c, "returning")
    /\ RequestTime' = stamp(c)
    /\ UNCHANGED <<now, AccessToken, read, requesttime, issued, answer, doubtful>>

ReturnNew(c) ==
    /\ pc[c] = "returning"
    /\ \E t \in AccessTokens(c) : Return(c, t)
    /\ UNCHANGED <<now, sharedVars, read, issued, doubtful>>

Tick ==
    /\ now < MaxTime
    /\ \A c \in Callers : pc[c] \in {"idle", "refreshing", "getting", "decoding"}
    /\ now' = now + 1
    /\ UNCHANGED <<sharedVars, callVars, doubtful>>

-------------------------------------------------------------------------------
Next ==
    \/ \E c \in Callers :
          \/ EnsureAccess(c) \/ Choose(c)
          \/ Issue(c) \/ Refuse(c) \/ Undecodable(c)
          \/ Decode(c) \/ Stamp(c) \/ ReturnNew(c)
    \/ Tick

Safety == Init /\ [][Next]_vars

-------------------------------------------------------------------------------
\* Properties.

Times == 0 .. now

\* Every variable holds a value of its kind, nothing lies in the future, and
\* only the goroutine that replaced it leaves a token without a RequestTime.
TypeOK ==
    /\ now \in 0 .. MaxTime
    /\ AccessToken \in Times \cup {None}
    /\ RequestTime \in Times \cup {Never}
    /\ pc \in [Callers -> {"idle", "choosing", "refreshing", "getting", "decoding", "stamping",
                           "returning"}]
    /\ read \in [Callers -> Times \cup {Never, Future}]
    /\ requesttime \in [Callers -> Times]
    /\ issued \in [Callers -> Times \cup {None}]
    /\ answer \in [Callers -> [token : Times \cup {None, Torn}, at : Times, doubt : BOOLEAN]]
    /\ doubtful \in BOOLEAN
    /\ AccessToken # None /\ RequestTime = Never => \E c \in Callers : pc[c] = "stamping"

\* The buffer makes up for the missing lock: whatever the two loops overwrite
\* of each other, no caller gets a token that has expired, unless the server's
\* last answer was unreadable, and prolonged the token before it, or took longer
\* than the buffer: then the stamp of the other loop may outlast the token.
TokenUnexpired ==
    \A c \in Callers :
        answer[c].token \in Int /\ ~answer[c].doubt
            => answer[c].at < answer[c].token + ExpiresIn

===============================================================================
