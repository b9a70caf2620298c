-------------------------------- MODULE Session --------------------------------
(***************************************************************************)
(* A user's session: the tabs of a browser with HttpInstance, AuthProvider *)
(* and the session store of the web client, and the handlers of            *)
(* auth-service behind the gateway.                                        *)
(*                                                                         *)
(* A tab keeps its access token in memory; all tabs share the cookie with  *)
(* the refresh token.  The first request that is answered 401 refreshes    *)
(* the token, and the others wait in failedRequests until it has.  A page  *)
(* that is loaded refreshes before it shows anything.                      *)
(*                                                                         *)
(* Tokens are issued in pairs and known by the number of their issue, so   *)
(* that access tokens expire in order.  A refresh token outlives the       *)
(* cookie that holds it.                                                   *)
(***************************************************************************)
EXTENDS Naturals, Functions

CONSTANTS
    Tabs,
    Requests,  \* requests of the pages to guarded endpoints, one after the other in each
    TabOf,     \* the tab of each
    NoToken,
    MaxLogins,   \* bounds the logins
    MaxExpired,  \* bounds the access tokens that expire
    MaxMishaps   \* bounds the other things that may happen, in all

VARIABLES
    refreshToken,  \* the column of the user's row: a hash of this token
    issued,        \* pairs of tokens so far
    expired,       \* the last access token that has expired
    cookie,        \* the cookie refreshToken
    token,         \* of each tab: the access token in its session store
    isReady,       \* of each tab: AuthProvider shows the page
    isTokenRefreshing,
    request,       \* of each request: its stage, and the token it carries
    call,          \* of each tab and kind: its call of auth-service
    ended,         \* history: the session was ended, and nobody has logged in since
    faults         \* what happened so far, by kind

server == <<refreshToken, issued>>
pages == <<token, isReady, isTokenRefreshing, request>>
vars == <<server, expired, cookie, pages, call, ended, faults>>

Kinds == {"login", "reload", "leave", "end", "lose", "timeout", "repeat", "fail"}
\* AuthProvider's refresh, HttpInstance's, and the login page.
Calls == {"boot", "refresh", "login"}
Tokens == Nat \ {0}

ASSUME TabOfAssumption == TabOf \in [Requests -> Tabs]
ASSUME NoTokenAssumption == NoToken \notin Nat
ASSUME LimitsAssumption == MaxLogins \in Nat /\ MaxExpired \in Nat /\ MaxMishaps \in Nat

RequestStages == {"idle", "sent", "refused", "first", "waiting"}
CallStages == {"idle", "find", "update", "done", "failed"}

\* The cookie a call carries, the token issued for it, and whether the page
\* that made it still waits for it.
Calling == [at : CallStages, cookie : Tokens \union {NoToken}, issue : Nat, heard : BOOLEAN]
Silent == [at |-> "idle", cookie |-> NoToken, issue |-> 0, heard |-> FALSE]

TypeOK ==
    /\ refreshToken \in Tokens \union {NoToken}
    /\ issued \in Nat
    /\ expired \in Nat
    /\ cookie \in Tokens \union {NoToken}
    /\ token \in [Tabs -> Tokens \union {NoToken}]
    /\ isReady \in [Tabs -> BOOLEAN]
    /\ isTokenRefreshing \in [Tabs -> BOOLEAN]
    /\ request \in [Requests -> [at : RequestStages, with : Nat]]
    /\ call \in [Tabs -> [Calls -> Calling]]
    /\ ended \in BOOLEAN
    /\ faults \in [Kinds -> Nat]

\* The tabs are open, and nobody has signed in.
Init ==
    /\ refreshToken = NoToken
    /\ issued = 0
    /\ expired = 0
    /\ cookie = NoToken
    /\ token = [t \in Tabs |-> NoToken]
    /\ isReady = [t \in Tabs |-> FALSE]
    /\ isTokenRefreshing = [t \in Tabs |-> FALSE]
    /\ request = [r \in Requests |-> [at |-> "idle", with |-> 0]]
    /\ call = [t \in Tabs |-> [k \in Calls |-> Silent]]
    /\ ended = FALSE
    /\ faults = [k \in Kinds |-> 0]

Happens(k) ==
    /\ IF k = "login" THEN faults[k] < MaxLogins
       ELSE FoldFunctionOnSet(+, 0, faults, Kinds \ {"login"}) < MaxMishaps
    /\ faults' = [faults EXCEPT ![k] = @ + 1]
Never(kinds) == \A k \in kinds : faults[k] = 0

\* The browser sends the cookie it has along with the call.
Posted == [at |-> "find", cookie |-> cookie, issue |-> 0, heard |-> TRUE]
InTab(t) == {r \in Requests : TabOf[r] = t}
Pending(t) == {r \in InTab(t) : request[r].at \in {"first", "waiting"}}
Idle == [at |-> "idle", with |-> 0]

-----------------------------------------------------------------------------
(* auth-service.                                                           *)

\* bcryptjs hashes the first 72 bytes, which end in the e-mail of the payload,
\* before anything in which two tokens of a user differ.
\* Mutant: it hashes all of them.
HashedEntirely(t) == t
Hashed(t) == "user"

\* Mutant: the handler does not ask for the hash in the row.
AdmitsAnyToken(t, k) == k = "login" \/ call[t][k].cookie # NoToken

\* verifyAsync, the hash in the row, and compare; the login's password is right.
Admits(t, k) ==
    \/ k = "login"
    \/ /\ call[t][k].cookie # NoToken
       /\ refreshToken # NoToken
       /\ Hashed(call[t][k].cookie) = Hashed(refreshToken)

\* findById or findByEmail up to generateTokens, or 401.
FindUser(t, k) ==
    /\ call[t][k].at = "find"
    /\ \/ /\ Admits(t, k)
          /\ issued' = issued + 1
          /\ call' = [call EXCEPT ![t][k].at = "update", ![t][k].issue = issued + 1]
          /\ ended' = (ended /\ k # "login")
       \/ /\ ~Admits(t, k)
          /\ call' = [call EXCEPT ![t][k].at = "failed"]
          /\ UNCHANGED <<issued, ended>>
    /\ UNCHANGED <<refreshToken, expired, cookie, pages, faults>>

\* The hash of the new token replaces what is there by now.
UpdateRefreshToken(t, k) ==
    /\ call[t][k].at = "update"
    /\ refreshToken' = call[t][k].issue
    /\ call' = [call EXCEPT ![t][k].at = "done"]
    /\ UNCHANGED <<issued, expired, cookie, pages, ended, faults>>

\* POST /auth/logout by some client with an access token.
EndSession ==
    /\ issued > expired
    /\ Happens("end")
    /\ refreshToken' = NoToken
    /\ ended' = (\A t \in Tabs, k \in Calls : call[t][k].at # "update")
    /\ UNCHANGED <<issued, expired, cookie, pages, call>>

-----------------------------------------------------------------------------
(* The gateway between them.                                               *)

\* No route, rate or circuit for the call, or no answer from the service.
FailCall(t, k) ==
    /\ call[t][k].at \in {"find", "update", "done"}
    /\ Happens("fail")
    /\ call' = [call EXCEPT ![t][k].at = "failed"]
    /\ UNCHANGED <<server, expired, cookie, pages, ended>>

\* makeRequestWithRetry after a 401 or an answer that is late.
RepeatCall(t, k) ==
    /\ call[t][k].at \in {"done", "failed"}
    /\ Happens("repeat")
    /\ call' = [call EXCEPT ![t][k].at = "find"]
    /\ UNCHANGED <<server, expired, cookie, pages, ended>>

-----------------------------------------------------------------------------
(* HttpInstance.                                                           *)

\* onRequest; the pages that make requests are shown to a tab with a token.
Send(r) ==
    /\ request[r].at = "idle"
    /\ isReady[TabOf[r]]
    /\ token[TabOf[r]] # NoToken
    /\ request' = [request EXCEPT ![r] = [at |-> "sent", with |-> token[TabOf[r]]]]
    /\ UNCHANGED <<server, expired, cookie, token, isReady, isTokenRefreshing, call, ended, faults>>

\* JwtAuthGuard.
Serve(r) ==
    /\ request[r].at = "sent"
    /\ request' = [request EXCEPT ![r] =
           IF request[r].with > expired THEN Idle ELSE [@ EXCEPT !.at = "refused"]]
    /\ UNCHANGED <<server, expired, cookie, token, isReady, isTokenRefreshing, call, ended, faults>>

\* Any other error goes to the caller.
FailRequest(r) ==
    /\ request[r].at = "sent"
    /\ Happens("fail")
    /\ request' = [request EXCEPT ![r] = Idle]
    /\ UNCHANGED <<server, expired, cookie, token, isReady, isTokenRefreshing, call, ended>>

\* Mutant: nobody is told that a refresh is under way.
OnResponseErrorUntold(r) ==
    LET t == TabOf[r] IN
    /\ request[r].at = "refused"
    /\ call[t]["refresh"].at = "idle"
    /\ request' = [request EXCEPT ![r].at = "first"]
    /\ call' = [call EXCEPT ![t]["refresh"] = Posted]
    /\ UNCHANGED <<server, expired, cookie, token, isReady, isTokenRefreshing, ended, faults>>

\* onResponseError up to the refresh, which is made without the instance.
OnResponseError(r) ==
    LET t == TabOf[r] IN
    /\ request[r].at = "refused"
    /\ \/ /\ isTokenRefreshing[t]
          /\ request' = [request EXCEPT ![r].at = "waiting"]
          /\ UNCHANGED <<isTokenRefreshing, call>>
       \/ /\ ~isTokenRefreshing[t]
          /\ call[t]["refresh"].at = "idle"
          /\ request' = [request EXCEPT ![r].at = "first"]
          /\ isTokenRefreshing' = [isTokenRefreshing EXCEPT ![t] = TRUE]
          /\ call' = [call EXCEPT ![t]["refresh"] = Posted]
    /\ UNCHANGED <<server, expired, cookie, token, isReady, ended, faults>>

Heard(t, k) == call[t][k].heard
Done(t, k) == call[t][k].at = "done"
Answered(t, k) ==
    /\ call[t][k].at \in {"done", "failed"}
    /\ call' = [call EXCEPT ![t][k] = Silent]
    /\ cookie' = IF Done(t, k) /\ Heard(t, k) THEN call[t][k].issue ELSE cookie
Fresh(t, k) == IF Done(t, k) THEN call[t][k].issue ELSE NoToken

\* Mutant: only the request that refreshed is told that it could not.
RefreshedHalf(t) ==
    /\ Answered(t, "refresh")
    /\ Heard(t, "refresh")
    /\ token' = [token EXCEPT ![t] = Fresh(t, "refresh")]
    /\ request' = [r \in Requests |->
           IF r \in Pending(t) /\ Done(t, "refresh")
           THEN [at |-> "sent", with |-> call[t]["refresh"].issue]
           ELSE IF r \in Pending(t) /\ request[r].at = "first" THEN Idle ELSE request[r]]
    /\ isTokenRefreshing' = [isTokenRefreshing EXCEPT ![t] = FALSE]
    /\ UNCHANGED <<server, expired, isReady, ended, faults>>

\* onResponseError after the refresh: all requests are made again with the
\* new token, or rejected.
Refreshed(t) ==
    /\ Answered(t, "refresh")
    /\ Heard(t, "refresh")
    /\ token' = [token EXCEPT ![t] = Fresh(t, "refresh")]
    /\ request' = [r \in Requests |->
           IF r \notin Pending(t) THEN request[r]
           ELSE IF Done(t, "refresh") THEN [at |-> "sent", with |-> call[t]["refresh"].issue]
           ELSE Idle]
    /\ isTokenRefreshing' = [isTokenRefreshing EXCEPT ![t] = FALSE]
    /\ UNCHANGED <<server, expired, isReady, ended, faults>>

-----------------------------------------------------------------------------
(* The pages.                                                              *)

\* AuthProvider.
Boot(t) ==
    /\ ~isReady[t] /\ call[t]["boot"].at = "idle"
    /\ call' = [call EXCEPT ![t]["boot"] = Posted]
    /\ UNCHANGED <<server, expired, cookie, pages, ended, faults>>

Booted(t) ==
    /\ Answered(t, "boot")
    /\ Heard(t, "boot")
    /\ token' = [token EXCEPT ![t] = Fresh(t, "boot")]
    /\ isReady' = [isReady EXCEPT ![t] = TRUE]
    /\ UNCHANGED <<server, expired, isTokenRefreshing, request, ended, faults>>

LogIn(t) ==
    /\ isReady[t] /\ call[t]["login"].at = "idle"
    /\ Happens("login")
    /\ call' = [call EXCEPT ![t]["login"] = Posted]
    /\ UNCHANGED <<server, expired, cookie, pages, ended>>

LoggedIn(t) ==
    /\ Answered(t, "login")
    /\ Heard(t, "login")
    /\ token' = [token EXCEPT ![t] = IF Done(t, "login") THEN call[t]["login"].issue ELSE @]
    /\ UNCHANGED <<server, expired, isReady, isTokenRefreshing, request, ended, faults>>

\* An answer for a page that is gone, or that has stopped waiting.
Unheard(t, k) ==
    /\ Answered(t, k)
    /\ ~Heard(t, k)
    /\ UNCHANGED <<server, expired, pages, ended, faults>>

\* The instance waits ten seconds; the refresh of HttpInstance has no limit.
TimeOut(t, k) ==
    /\ k \in {"boot", "login"}
    /\ call[t][k].at # "idle" /\ Heard(t, k)
    /\ Happens("timeout")
    /\ call' = [call EXCEPT ![t][k].heard = FALSE]
    /\ isReady' = [isReady EXCEPT ![t] = TRUE]
    /\ token' = IF k = "boot" THEN [token EXCEPT ![t] = NoToken] ELSE token
    /\ UNCHANGED <<server, expired, cookie, isTokenRefreshing, request, ended>>

\* Header.handleLogout.  JwtAuthGuard refuses its fetch, which carries no
\* access token, so that the row and the cookie stay.
HandleLogout(t) ==
    /\ token[t] # NoToken
    /\ Happens("leave")
    /\ token' = [token EXCEPT ![t] = NoToken]
    /\ UNCHANGED <<server, expired, cookie, isReady, isTokenRefreshing, request, call, ended>>

\* Only the cookie survives; the services go on with what they were asked.
Reload(t) ==
    /\ call[t]["boot"].at = "idle" /\ isReady[t]
    /\ Happens("reload")
    /\ token' = [token EXCEPT ![t] = NoToken]
    /\ isReady' = [isReady EXCEPT ![t] = FALSE]
    /\ isTokenRefreshing' = [isTokenRefreshing EXCEPT ![t] = FALSE]
    /\ request' = [r \in Requests |-> IF r \in InTab(t) THEN Idle ELSE request[r]]
    /\ call' = [call EXCEPT ![t] = [k \in Calls |-> [@[k] EXCEPT !.heard = FALSE]]]
    /\ UNCHANGED <<server, expired, cookie, ended>>

-----------------------------------------------------------------------------
(* Time.                                                                   *)

Expire ==
    /\ expired < issued /\ expired < MaxExpired
    /\ expired' = expired + 1
    /\ UNCHANGED <<server, cookie, pages, call, ended, faults>>

\* The cookie lives for a day.
LoseCookie ==
    /\ cookie # NoToken
    /\ Happens("lose")
    /\ cookie' = NoToken
    /\ UNCHANGED <<server, expired, pages, call, ended>>

-----------------------------------------------------------------------------
AuthStep(t, k) == FindUser(t, k) \/ UpdateRefreshToken(t, k) \/ Unheard(t, k)
PageStep(t) == Boot(t) \/ Booted(t) \/ LoggedIn(t) \/ Refreshed(t)
RequestStep(r) == Serve(r) \/ OnResponseError(r)

Next ==
    \/ \E t \in Tabs, k \in Calls :
           AuthStep(t, k) \/ FailCall(t, k) \/ RepeatCall(t, k) \/ TimeOut(t, k)
    \/ \E t \in Tabs : PageStep(t) \/ LogIn(t) \/ HandleLogout(t) \/ Reload(t)
    \/ \E r \in Requests : RequestStep(r) \/ Send(r) \/ FailRequest(r)
    \/ EndSession \/ Expire \/ LoseCookie

Spec == Init /\ [][Next]_vars

\* Calls and requests are answered: by a service, by the gateway, which waits
\* for a target ten seconds at a time, or by the browser.
FairSpec ==
    /\ Spec
    /\ \A t \in Tabs : WF_vars(PageStep(t) \/ \E k \in Calls : AuthStep(t, k))
    /\ \A r \in Requests : WF_vars(RequestStep(r))

-----------------------------------------------------------------------------
(* A request that waits for a new token is waited for: there is a refresh  *)
(* under way in its tab, whose answer the page will hear, so that none is  *)
(* left in failedRequests when that is emptied.                            *)
NobodyIsStranded == \A t \in Tabs :
    /\ Pending(t) # {} => isTokenRefreshing[t]
    /\ isTokenRefreshing[t] => call[t]["refresh"].at # "idle" /\ Heard(t, "refresh")

(* Every request is answered or rejected in the end, and every page is     *)
(* shown, whatever fails.                                                  *)
NothingHangs ==
    /\ \A r \in Requests : request[r].at # "idle" ~> request[r].at = "idle"
    /\ \A t \in Tabs : ~isReady[t] ~> isReady[t]

(* A tab stays signed in until its user leaves: tabs that refresh at the   *)
(* same time with the same cookie do not sign each other out, nor does the *)
(* gateway by repeating a refresh, a page that is loaded meanwhile or one  *)
(* that stops waiting.  Unless the session is ended, its cookie lost, or a *)
(* call fails, which signs a tab out although its session goes on.         *)
SignedInUntilLeft == [][
    Never({"fail", "end", "lose"})' =>
        \A t \in Tabs : token[t] # NoToken /\ token'[t] = NoToken =>
            HandleLogout(t) \/ Reload(t) ]_vars

(* A session that was ended stays ended until the next login, whatever     *)
(* refreshes come late, except one that was already between its reading    *)
(* and its writing of the row.                                             *)
EndedStaysEnded == ended => refreshToken = NoToken

-----------------------------------------------------------------------------
(* The invariant behind these.                                             *)

\* While a page is loaded nothing of its tab is under way but its refresh.
Loading == \A t \in Tabs :
    /\ Heard(t, "boot") => ~isReady[t]
    /\ ~isReady[t] => /\ token[t] = NoToken
                      /\ ~Heard(t, "refresh") /\ ~Heard(t, "login")
                      /\ \A r \in InTab(t) : request[r].at = "idle"

\* No call is about to write the row of a session that was ended.
NoneIsLate == ended => \A t \in Tabs, k \in Calls : call[t][k].at # "update"

\* Whoever was signed in has a cookie that a refresh succeeds with.
Renewable == Never({"fail", "end", "lose"}) =>
    /\ cookie # NoToken => refreshToken # NoToken
    /\ \A t \in Tabs : token[t] # NoToken => cookie # NoToken
    /\ \A r \in Requests : request[r].at # "idle" => cookie # NoToken
    /\ \A t \in Tabs, k \in Calls : call[t][k].cookie # NoToken => cookie # NoToken
    /\ \A t \in Tabs, k \in Calls : Done(t, k) => refreshToken # NoToken
    /\ \A t \in Tabs : call[t]["refresh"].at # "idle" =>
           call[t]["refresh"].at # "failed" /\ call[t]["refresh"].cookie # NoToken

\* An answer carries the token that was issued for it.
IssuedFirst == \A t \in Tabs, k \in Calls :
    call[t][k].at \in {"update", "done"} => call[t][k].issue \in Tokens

IInv ==
    /\ TypeOK /\ IssuedFirst
    /\ NobodyIsStranded /\ Loading
    /\ EndedStaysEnded /\ NoneIsLate
    /\ Renewable
=============================================================================
