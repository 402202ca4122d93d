------------------------------ MODULE Sessions ------------------------------
(* One phone number behind the rate limiter: one-time codes (OTPService and   *)
(* OTPHandler), the login that uses a code, and refresh tokens (TokenService  *)
(* with the routes of routers/auth_otp.py).  Every Redis command and every    *)
(* database commit of a handler is a step; handlers of several calls          *)
(* interleave, and a replica may die between two steps.                       *)
EXTENDS RateLimiter

CONSTANTS Devices,
          CodeLife,           \* OTP_TTL
          AskWindow, MaxAsks  \* RATE_LIMIT_WINDOW and RATE_LIMIT_MAX_ATTEMPTS

ASSUME LivesPositive == CodeLife \in Nat \ {0} /\ AskWindow \in Nat \ {0} /\ MaxAsks \in Nat
ASSUME NilIsNil == Nil \notin Calls /\ Nil \notin Devices /\ Nil \notin Nat

VARIABLES otp,        \* the stored code, named after the call that made it, and its expiry
          asked,      \* the sorted set of requests for a code
          registered, \* whether the worker's row exists
          session,    \* session[d]: the stored refresh token, or Nil
          handlers,   \* handlers[q]: how far the handler of call q is, and its arguments
          issued,     \* issued[d]: refresh tokens handed out, with the call that did
          consumed,   \* history: codes deleted after they matched, with the call that did
          rotated,    \* history: tokens replaced, with the call that did
          ended,      \* history: calls that logged device d out since its last login
          overlapped, \* history: pairs of calls that were in flight together
          made,       \* history: codes stored, with their times
          latest      \* history: the code stored last, and its expiry

histories == <<consumed, rotated, ended, overlapped, made, latest>>
sessionVars == <<otp, asked, registered, session, handlers, issued, histories>>
loginVars == <<limiterVars, sessionVars>>

NoCode == [code |-> Nil, until |-> 0]
Codes == [code : Calls \cup {Nil}, until : Nat]
\* A refresh token is a function of worker, device and the second it is made in.
Tokens == 0..MaxTime
Steps == {"idle", "store", "record", "delete", "lookup", "register", "issue", "reread", "drop", "put", "done", "failed"}

LoginTypeOK ==
    /\ LimiterTypeOK
    /\ otp \in Codes
    /\ asked \subseteq [call : Calls, at : Nat]
    /\ registered \in BOOLEAN
    /\ session \in [Devices -> Tokens \cup {Nil}]
    /\ handlers \in [Calls -> [at : Steps, code : Calls \cup {Nil}, device : Devices \cup {Nil},
                               token : Tokens \cup {Nil}]]
    /\ issued \in [Devices -> SUBSET [call : Calls \cup {Nil}, token : Tokens]]
    /\ consumed \subseteq [call : Calls, code : Calls]
    /\ rotated \subseteq [call : Calls, device : Devices, token : Tokens]
    /\ ended \in [Devices -> SUBSET Calls]
    /\ overlapped \subseteq SUBSET Calls
    /\ made \subseteq [call : Calls, at : Nat]
    /\ latest \in Codes

AtEase == [at |-> "idle", code |-> Nil, device |-> Nil, token |-> Nil]
At(q, step) == handlers[q].at = step
\* A handler that has ended forgets its arguments.
Step(handler, step) == IF step \in {"done", "failed"} THEN [AtEase EXCEPT !.at = step]
                                                       ELSE [handler EXCEPT !.at = step]
Move(q, step) == handlers' = [handlers EXCEPT ![q] = Step(@, step)]
InFlight == {q \in Calls : handlers[q].at \notin {"idle", "done", "failed"}}

\* The handler of an admitted call starts.
Start(q, handler, step) ==
    /\ calls[q].at = "admitted"
    /\ At(q, "idle")
    /\ handlers' = [handlers EXCEPT ![q] = Step(handler, step)]
    /\ overlapped' = overlapped \cup {{q, p} : p \in InFlight}

\* POST /otp/request: what has left the window is dropped and the rest counted.
Recent(q) == {m \in asked : m.at > Clock(q) - AskWindow}
Ask(q) ==
    /\ Start(q, AtEase, IF Cardinality(Recent(q)) >= MaxAsks THEN "done" ELSE "store")
    /\ asked' = Recent(q)
    /\ UNCHANGED <<limiterVars, otp, registered, session, issued, consumed, rotated, ended, made, latest>>

StoreCode(q) ==
    /\ At(q, "store")
    /\ otp' = [code |-> q, until |-> time + CodeLife]
    /\ latest' = otp'
    /\ made' = made \cup {[call |-> q, at |-> time]}
    /\ Move(q, "record")
    /\ UNCHANGED <<limiterVars, asked, registered, session, issued, consumed, rotated, ended, overlapped>>

\* Faulty variant: the request for a code is not written down.
RecordNothing(q) ==
    /\ At(q, "record")
    /\ Move(q, "done")
    /\ UNCHANGED <<limiterVars, otp, asked, registered, session, issued, histories>>

\* The SMS is sent afterwards; a failure to send it changes nothing.
RecordAsk(q) ==
    /\ At(q, "record")
    /\ asked' = asked \cup {[call |-> q, at |-> Clock(q)]}
    /\ Move(q, "done")
    /\ UNCHANGED <<limiterVars, otp, registered, session, issued, histories>>

\* POST /otp/verify compares a code that was sent with the stored one.
Verify(q, code, d) ==
    /\ Start(q, [AtEase EXCEPT !.code = code, !.device = d],
             IF otp.code = code /\ time < otp.until THEN "delete" ELSE "done")
    /\ UNCHANGED <<limiterVars, otp, asked, registered, session, issued, consumed, rotated, ended, made, latest>>

\* Faulty variant: the code stays until it expires.
KeepCode(q) ==
    /\ At(q, "delete")
    /\ consumed' = consumed \cup {[call |-> q, code |-> handlers[q].code]}
    /\ Move(q, "lookup")
    /\ UNCHANGED <<limiterVars, otp, asked, registered, session, issued, rotated, ended, overlapped, made, latest>>

\* The key is deleted, whatever code it holds by now.
DeleteCode(q) ==
    /\ At(q, "delete")
    /\ otp' = NoCode
    /\ consumed' = consumed \cup {[call |-> q, code |-> handlers[q].code]}
    /\ Move(q, "lookup")
    /\ UNCHANGED <<limiterVars, asked, registered, session, issued, rotated, ended, overlapped, made, latest>>

LookUpWorker(q) ==
    /\ At(q, "lookup")
    /\ Move(q, IF registered THEN "issue" ELSE "register")
    /\ UNCHANGED <<limiterVars, otp, asked, registered, session, issued, histories>>

\* The phone number is unique: a second insert raises and the code is lost.
Register(q) ==
    /\ At(q, "register")
    /\ registered' = TRUE
    /\ Move(q, IF registered THEN "done" ELSE "issue")
    /\ UNCHANGED <<limiterVars, otp, asked, session, issued, histories>>

Stored(q, d, token) ==
    /\ session' = [session EXCEPT ![d] = token]
    /\ issued' = [issued EXCEPT ![d] = @ \cup {[call |-> q, token |-> token]}]

IssueTokens(q) ==
    /\ At(q, "issue")
    /\ Stored(q, handlers[q].device, time)
    /\ ended' = [ended EXCEPT ![handlers[q].device] = {}]
    /\ Move(q, "done")
    /\ UNCHANGED <<limiterVars, otp, asked, registered, consumed, rotated, overlapped, made, latest>>

\* POST /token/refresh: the route compares the token with the stored one, and
\* so does rotate_refresh_token, before it drops it and stores a new one.
Refresh(q, d, token) ==
    /\ Start(q, [AtEase EXCEPT !.device = d, !.token = token],
             IF session[d] = token THEN "reread" ELSE "done")
    /\ UNCHANGED <<limiterVars, otp, asked, registered, session, issued, consumed, rotated, ended, made, latest>>

Reread(q) ==
    /\ At(q, "reread")
    /\ Move(q, IF session[handlers[q].device] = handlers[q].token THEN "drop" ELSE "done")
    /\ UNCHANGED <<limiterVars, otp, asked, registered, session, issued, histories>>

DropToken(q) ==
    /\ At(q, "drop")
    /\ session' = [session EXCEPT ![handlers[q].device] = Nil]
    /\ Move(q, "put")
    /\ UNCHANGED <<limiterVars, otp, asked, registered, issued, histories>>

\* Faulty variant: the hash that is stored is the old token's.
PutOldToken(q) ==
    /\ At(q, "put")
    /\ session' = [session EXCEPT ![handlers[q].device] = handlers[q].token]
    /\ issued' = [issued EXCEPT ![handlers[q].device] = @ \cup {[call |-> q, token |-> time]}]
    /\ rotated' = rotated \cup {[call |-> q, device |-> handlers[q].device, token |-> handlers[q].token]}
    /\ Move(q, "done")
    /\ UNCHANGED <<limiterVars, otp, asked, registered, consumed, ended, overlapped, made, latest>>

PutToken(q) ==
    /\ At(q, "put")
    /\ Stored(q, handlers[q].device, time)
    /\ rotated' = rotated \cup {[call |-> q, device |-> handlers[q].device, token |-> handlers[q].token]}
    /\ Move(q, "done")
    /\ UNCHANGED <<limiterVars, otp, asked, registered, consumed, ended, overlapped, made, latest>>

\* Faulty variant: only the current token can end the session.
LogoutCurrent(q, d, token) ==
    /\ Start(q, AtEase, "done")
    /\ session' = [session EXCEPT ![d] = IF @ = token THEN Nil ELSE @]
    /\ ended' = [ended EXCEPT ![d] = @ \cup {q}]
    /\ UNCHANGED <<limiterVars, otp, asked, registered, issued, consumed, rotated, made, latest>>

\* POST /logout: any token of the device that was signed ends its session.
Logout(q, d, token) ==
    /\ Start(q, AtEase, "done")
    /\ session' = [session EXCEPT ![d] = Nil]
    /\ ended' = [ended EXCEPT ![d] = @ \cup {q}]
    /\ UNCHANGED <<limiterVars, otp, asked, registered, issued, consumed, rotated, made, latest>>

\* Redis or the database refuses a command, or the replica dies.
HandlerFails(q) ==
    /\ q \in InFlight
    /\ Move(q, "failed")
    /\ UNCHANGED <<limiterVars, otp, asked, registered, session, issued, histories>>

\* A worker may have logged in before.
LoginInit ==
    /\ LimiterInit
    /\ otp = NoCode /\ latest = NoCode
    /\ asked = {}
    /\ registered \in BOOLEAN
    /\ session \in [Devices -> IF registered THEN {0, Nil} ELSE {Nil}]
    /\ issued = [d \in Devices |-> {[call |-> Nil, token |-> t] : t \in {session[d]} \ {Nil}}]
    /\ handlers = [q \in Calls |-> AtEase]
    /\ consumed = {} /\ rotated = {} /\ overlapped = {} /\ made = {}
    /\ ended = [d \in Devices |-> {}]

Handle(q) ==
    \/ Ask(q) \/ StoreCode(q) \/ RecordAsk(q)
    \/ \E code \in Calls, d \in Devices : code \in {m.call : m \in made} /\ Verify(q, code, d)
    \/ DeleteCode(q) \/ LookUpWorker(q) \/ Register(q) \/ IssueTokens(q)
    \/ \E d \in Devices : \E token \in {i.token : i \in issued[d]} : Refresh(q, d, token) \/ Logout(q, d, token)
    \/ Reread(q) \/ DropToken(q) \/ PutToken(q)
    \/ HandlerFails(q)

LoginNext ==
    \/ LimiterNext /\ UNCHANGED sessionVars
    \/ \E q \in Calls : Handle(q)

LoginSpec == LoginInit /\ [][LoginNext]_loginVars
-----------------------------------------------------------------------------
\* A code logs in once, unless two verifications of it ran at the same time: it
\* is read in one command and deleted in another.  The code sent last can be
\* used until it expires, unless it was used, or an earlier code was being
\* verified when it was stored.
CodeUsedOnce ==
    /\ \A x, y \in consumed : x.code = y.code /\ x # y => {x.call, y.call} \in overlapped
    /\ (time < latest.until /\ otp.code # latest.code) =>
          \E x \in consumed : x.code = latest.code \/ {x.call, latest.code} \in overlapped

\* A phone number gets no more codes in a window than the limit, unless two
\* requests for one overlapped, each counting before the other is recorded, or
\* one failed between storing its code and recording itself.
AsksBounded ==
    \A t \in 0..MaxTime :
        LET batch == {m.call : m \in {n \in made : n.at > t - AskWindow + Spread /\ n.at <= t}} IN
        \/ Cardinality(batch) <= MaxAsks
        \/ \E p, q \in batch : p # q /\ {p, q} \in overlapped
        \/ \E p \in batch : At(p, "failed")

\* A refresh token is exchanged once, unless two exchanges of it overlapped or
\* it was handed out twice, within one second.
TokenRotatedOnce ==
    \A x, y \in rotated :
        (x.device = y.device /\ x.token = y.token /\ x # y) =>
            \/ {x.call, y.call} \in overlapped
            \/ \E i, j \in issued[x.device] : i # j /\ i.token = x.token /\ j.token = x.token

\* After a logout the device has no session until the next login, unless an
\* exchange of its token was under way.
LoggedOutStays ==
    \A d \in Devices : (ended[d] # {} /\ session[d] # Nil) =>
        \E p \in ended[d], q \in Calls : p # q /\ {p, q} \in overlapped
=============================================================================
