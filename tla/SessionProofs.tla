----------------------------- MODULE SessionProofs -----------------------------
(***************************************************************************)
(* The invariant of Session, and what it says of requests that wait, of    *)
(* sessions that were ended and of tabs that stay signed in: for any tabs, *)
(* requests and bounds.                                                    *)
(***************************************************************************)
EXTENDS Session, TLAPS

LEMMA InitInv == Init => IInv
  <1>. SUFFICES ASSUME Init PROVE IInv
    OBVIOUS
  <1>1. TypeOK
    BY DEF Init, TypeOK, Silent, Calling, CallStages, RequestStages
  <1>2. IssuedFirst /\ NoneIsLate /\ EndedStaysEnded
    BY DEF Init, Silent, IssuedFirst, NoneIsLate, EndedStaysEnded
  <1>3. NobodyIsStranded /\ Loading
    BY DEF Init, Silent, NobodyIsStranded, Loading, Pending, InTab, Heard, Calls
  <1>4. Renewable
    BY DEF Init, Silent, Renewable, Done, Calls
  <1>. QED
    BY <1>1, <1>2, <1>3, <1>4 DEF IInv

-----------------------------------------------------------------------------
(* What the steps make of a call, of a request and of the mishaps so far.  *)

\* A call that is replaced.
LEMMA CallReplaced ==
    ASSUME TypeOK, NEW t \in Tabs, NEW k \in Calls, NEW c \in Calling,
           call' = [call EXCEPT ![t][k] = c]
    PROVE  /\ call' \in [Tabs -> [Calls -> Calling]]
           /\ call'[t][k] = c
           /\ \A u \in Tabs, j \in Calls : u # t \/ j # k => call'[u][j] = call[u][j]
  <1>1. call[t] \in [Calls -> Calling]
    BY DEF TypeOK
  <1>2. [call[t] EXCEPT ![k] = c] \in [Calls -> Calling]
    BY <1>1
  <1>3. call' = [call EXCEPT ![t] = [call[t] EXCEPT ![k] = c]]
    BY DEF TypeOK
  <1>. QED
    BY <1>1, <1>2, <1>3 DEF TypeOK

\* The fields of a call of which some are replaced.
LEMMA Fields ==
    ASSUME NEW c \in Calling, NEW s \in CallStages
    PROVE  /\ [c EXCEPT !.at = s] \in Calling
           /\ [c EXCEPT !.at = s].at = s /\ [c EXCEPT !.at = s].issue = c.issue
           /\ [c EXCEPT !.at = s].cookie = c.cookie /\ [c EXCEPT !.at = s].heard = c.heard
  BY DEF Calling

LEMMA IssuedFields ==
    ASSUME NEW c \in Calling, NEW i \in Nat
    PROVE  \E d \in Calling :
               /\ d = [c EXCEPT !.at = "update", !.issue = i]
               /\ d.at = "update" /\ d.issue = i /\ d.cookie = c.cookie /\ d.heard = c.heard
  <1>1. [c EXCEPT !.at = "update", !.issue = i] \in Calling
    BY DEF Calling, CallStages
  <1>2. PICK d \in Calling : d = [c EXCEPT !.at = "update", !.issue = i]
    BY <1>1
  <1>3. d.at = "update" /\ d.issue = i /\ d.cookie = c.cookie /\ d.heard = c.heard
    BY <1>2 DEF Calling
  <1>. QED
    BY <1>2, <1>3

LEMMA UnheardFields ==
    ASSUME NEW c \in Calling
    PROVE  /\ [c EXCEPT !.heard = FALSE] \in Calling
           /\ [c EXCEPT !.heard = FALSE].at = c.at
           /\ [c EXCEPT !.heard = FALSE].issue = c.issue
           /\ [c EXCEPT !.heard = FALSE].cookie = c.cookie
           /\ ~[c EXCEPT !.heard = FALSE].heard
  BY DEF Calling

LEMMA NewCalls ==
    ASSUME TypeOK
    PROVE  /\ Posted \in Calling /\ Posted.at = "find" /\ Posted.heard
           /\ Posted.cookie = cookie
           /\ Silent \in Calling /\ Silent.at = "idle" /\ ~Silent.heard
           /\ Silent.cookie = NoToken
  BY DEF TypeOK, Posted, Silent, Calling, CallStages

\* A call that moves on.
LEMMA CallMoves ==
    ASSUME TypeOK, NEW t \in Tabs, NEW k \in Calls, NEW s \in CallStages
    PROVE  call' = [call EXCEPT ![t][k].at = s] =>
           /\ call' \in [Tabs -> [Calls -> Calling]]
           /\ \A u \in Tabs, j \in Calls :
                /\ call'[u][j].at = IF u = t /\ j = k THEN s ELSE call[u][j].at
                /\ call'[u][j].cookie = call[u][j].cookie
                /\ call'[u][j].issue = call[u][j].issue
                /\ call'[u][j].heard = call[u][j].heard
  <1>1. call[t][k] \in Calling
    BY DEF TypeOK
  <1>2. PICK c \in Calling : c = [call[t][k] EXCEPT !.at = s]
    BY <1>1, Fields
  <1>3. /\ c.at = s /\ c.issue = call[t][k].issue
        /\ c.cookie = call[t][k].cookie /\ c.heard = call[t][k].heard
    BY <1>1, <1>2, Fields
  <1>4. ASSUME call' = [call EXCEPT ![t][k].at = s]
        PROVE  call' = [call EXCEPT ![t][k] = c]
    BY <1>2, <1>4 DEF TypeOK
  <1>5. ASSUME call' = [call EXCEPT ![t][k] = c]
        PROVE  /\ call' \in [Tabs -> [Calls -> Calling]]
               /\ call'[t][k] = c
               /\ \A u \in Tabs, j \in Calls : u # t \/ j # k => call'[u][j] = call[u][j]
    BY ZenonT(60), <1>5, CallReplaced
  <1>. QED
    BY <1>3, <1>4, <1>5

\* What a mishap adds to faults.
LEMMA FaultsGrow ==
    ASSUME TypeOK, NEW k \in Kinds, Happens(k)
    PROVE  /\ faults' \in [Kinds -> Nat]
           /\ faults'[k] # 0
           /\ \A j \in Kinds : faults'[j] = 0 => faults[j] = 0
  <1>1. faults' = [faults EXCEPT ![k] = @ + 1]
    BY DEF Happens
  <1>. QED
    BY <1>1 DEF TypeOK

\* What did not happen until after a step had not happened before it.
LEMMA NeverBefore ==
    ASSUME TypeOK, NEW kinds \in SUBSET Kinds,
           (\E k \in Kinds : Happens(k)) \/ UNCHANGED faults
    PROVE  /\ Never(kinds)' => Never(kinds)
           /\ faults' \in [Kinds -> Nat]
           /\ \A k \in kinds : Happens(k) => ~Never(kinds)'
  BY FaultsGrow DEF Never, TypeOK

\* What the answers bring.
LEMMA AnswerTypes ==
    ASSUME TypeOK, IssuedFirst, NEW t \in Tabs, NEW k \in Calls, Answered(t, k)
    PROVE  /\ call' \in [Tabs -> [Calls -> Calling]]
           /\ call'[t][k] = Silent
           /\ \A u \in Tabs, j \in Calls : u # t \/ j # k => call'[u][j] = call[u][j]
           /\ cookie' \in Tokens \union {NoToken}
           /\ Fresh(t, k) \in Tokens \union {NoToken}
           /\ Done(t, k) => call[t][k].issue \in Tokens /\ Fresh(t, k) \in Tokens
           /\ Done(t, k) /\ Heard(t, k) => cookie' \in Tokens
           /\ ~(Done(t, k) /\ Heard(t, k)) => cookie' = cookie
           /\ call[t][k].at \in {"done", "failed"}
  BY CallReplaced, NewCalls DEF Answered, Fresh, Done, IssuedFirst, TypeOK

\* What the services make of a call they begin with.
LEMMA FoundCall ==
    ASSUME TypeOK, NEW t \in Tabs, NEW k \in Calls
    PROVE  FindUser(t, k) =>
           /\ call' \in [Tabs -> [Calls -> Calling]]
           /\ \A u \in Tabs, j \in Calls : u # t \/ j # k => call'[u][j] = call[u][j]
           /\ call[t][k].at = "find"
           /\ call'[t][k].cookie = call[t][k].cookie
           /\ call'[t][k].heard = call[t][k].heard
           /\ \/ /\ Admits(t, k)
                 /\ call'[t][k].at = "update" /\ call'[t][k].issue = issued + 1
              \/ ~Admits(t, k) /\ call'[t][k].at = "failed"
  <1>1. /\ call[t][k] \in Calling /\ issued + 1 \in Nat
        /\ "update" \in CallStages /\ "failed" \in CallStages
    BY DEF TypeOK, CallStages
  <1>i. PICK i \in Nat : i = issued + 1
    BY <1>1
  <1>b. PICK b \in Calling : b = call[t][k]
    BY <1>1
  <1>2. PICK c \in Calling :
           /\ c = [b EXCEPT !.at = "update", !.issue = i]
           /\ c.at = "update" /\ c.issue = i /\ c.cookie = b.cookie /\ c.heard = b.heard
    BY IssuedFields
  <1>3. /\ c.at = "update" /\ c.issue = issued + 1
        /\ c.cookie = call[t][k].cookie /\ c.heard = call[t][k].heard
    BY <1>2, <1>b, <1>i
  <1>4. PICK d \in Calling : d = [call[t][k] EXCEPT !.at = "failed"]
    BY <1>1, Fields
  <1>5. d.at = "failed" /\ d.cookie = call[t][k].cookie /\ d.heard = call[t][k].heard
    BY <1>1, <1>4, Fields
  <1>6. ASSUME FindUser(t, k)
        PROVE  /\ call[t][k].at = "find"
               /\ \/ Admits(t, k) /\ call' = [call EXCEPT ![t][k] = c]
                  \/ ~Admits(t, k) /\ call' = [call EXCEPT ![t][k] = d]
    BY <1>2, <1>4, <1>6, <1>b, <1>i DEF FindUser, TypeOK
  <1>7. ASSUME NEW e \in Calling, call' = [call EXCEPT ![t][k] = e]
        PROVE  /\ call' \in [Tabs -> [Calls -> Calling]]
               /\ call'[t][k] = e
               /\ \A u \in Tabs, j \in Calls : u # t \/ j # k => call'[u][j] = call[u][j]
    BY ZenonT(60), <1>7, CallReplaced
  <1>. QED
    BY <1>3, <1>5, <1>6, <1>7

\* A page that stops waiting for one call.
LEMMA CallUnheard ==
    ASSUME TypeOK, NEW t \in Tabs, NEW k \in Calls
    PROVE  TimeOut(t, k) =>
           /\ call' \in [Tabs -> [Calls -> Calling]]
           /\ \A u \in Tabs, j \in Calls :
                /\ call'[u][j].at = call[u][j].at
                /\ call'[u][j].cookie = call[u][j].cookie
                /\ call'[u][j].issue = call[u][j].issue
                /\ call'[u][j].heard <=> call[u][j].heard /\ (u # t \/ j # k)
  <1>1. call[t][k] \in Calling
    BY DEF TypeOK
  <1>2. PICK c \in Calling : c = [call[t][k] EXCEPT !.heard = FALSE]
    BY <1>1, UnheardFields
  <1>3. /\ c.at = call[t][k].at /\ c.issue = call[t][k].issue
        /\ c.cookie = call[t][k].cookie /\ ~c.heard
    BY <1>1, <1>2, UnheardFields
  <1>4. ASSUME TimeOut(t, k)
        PROVE  call' = [call EXCEPT ![t][k] = c]
    BY <1>2, <1>4 DEF TimeOut, TypeOK
  <1>5. ASSUME call' = [call EXCEPT ![t][k] = c]
        PROVE  /\ call' \in [Tabs -> [Calls -> Calling]]
               /\ call'[t][k] = c
               /\ \A u \in Tabs, j \in Calls : u # t \/ j # k => call'[u][j] = call[u][j]
    BY ZenonT(60), <1>5, CallReplaced
  <1>. QED
    BY <1>3, <1>4, <1>5

\* A page that is gone.
LEMMA CallsUnheard ==
    ASSUME TypeOK, NEW t \in Tabs
    PROVE  Reload(t) =>
           /\ call' \in [Tabs -> [Calls -> Calling]]
           /\ \A u \in Tabs, j \in Calls :
                /\ call'[u][j].at = call[u][j].at
                /\ call'[u][j].cookie = call[u][j].cookie
                /\ call'[u][j].issue = call[u][j].issue
                /\ call'[u][j].heard <=> call[u][j].heard /\ u # t
  <1>. SUFFICES ASSUME Reload(t)
                PROVE  /\ call' \in [Tabs -> [Calls -> Calling]]
                       /\ \A u \in Tabs, j \in Calls :
                            /\ call'[u][j].at = call[u][j].at
                            /\ call'[u][j].cookie = call[u][j].cookie
                            /\ call'[u][j].issue = call[u][j].issue
                            /\ call'[u][j].heard <=> call[u][j].heard /\ u # t
    OBVIOUS
  <1>1. \A j \in Calls :
           /\ [call[t][j] EXCEPT !.heard = FALSE] \in Calling
           /\ [call[t][j] EXCEPT !.heard = FALSE].at = call[t][j].at
           /\ [call[t][j] EXCEPT !.heard = FALSE].issue = call[t][j].issue
           /\ [call[t][j] EXCEPT !.heard = FALSE].cookie = call[t][j].cookie
           /\ ~[call[t][j] EXCEPT !.heard = FALSE].heard
    <2>1. ASSUME NEW j \in Calls PROVE call[t][j] \in Calling
      BY DEF TypeOK
    <2>. QED
      BY <2>1, UnheardFields
  <1>2. call' = [call EXCEPT ![t] = [j \in Calls |-> [call[t][j] EXCEPT !.heard = FALSE]]]
    BY DEF Reload, TypeOK
  <1>3. \A u \in Tabs : call'[u] = IF u = t THEN [j \in Calls |-> [call[t][j] EXCEPT !.heard = FALSE]]
                                   ELSE call[u]
    BY <1>2 DEF TypeOK
  <1>4. \A j \in Calls : call'[t][j] = [call[t][j] EXCEPT !.heard = FALSE]
    BY <1>3
  <1>5. [j \in Calls |-> [call[t][j] EXCEPT !.heard = FALSE]] \in [Calls -> Calling]
    BY <1>1
  <1>6. call' \in [Tabs -> [Calls -> Calling]]
    BY <1>2, <1>5 DEF TypeOK
  <1>7. ASSUME NEW u \in Tabs, NEW j \in Calls
        PROVE  /\ call'[u][j].at = call[u][j].at
               /\ call'[u][j].cookie = call[u][j].cookie
               /\ call'[u][j].issue = call[u][j].issue
               /\ call'[u][j].heard <=> call[u][j].heard /\ u # t
    <2>1. CASE u = t
      <3>1. call'[u][j] = [call[t][j] EXCEPT !.heard = FALSE]
        BY <1>4, <2>1
      <3>. QED
        BY <1>1, <2>1, <3>1
    <2>2. CASE u # t
      BY <1>3, <2>2
    <2>. QED
      BY <2>1, <2>2
  <1>. QED
    BY <1>6, <1>7

-----------------------------------------------------------------------------
(* Types.                                                                  *)

RequestType == [at : RequestStages, with : Nat]

\* What the steps make of a request.
LEMMA RequestTypes ==
    ASSUME TypeOK, NEW r \in Requests
    PROVE  /\ TabOf[r] \in Tabs
           /\ Idle \in RequestType
           /\ \A s \in RequestStages :
                  request' = [request EXCEPT ![r].at = s]
                  => request' \in [Requests -> RequestType]
           /\ \A q \in RequestType :
                  request' = [request EXCEPT ![r] = q]
                  => request' \in [Requests -> RequestType]
  <1>1. Idle \in RequestType
    BY DEF Idle, RequestType, RequestStages
  <1>2. request \in [Requests -> RequestType] /\ request[r] \in RequestType
    BY DEF TypeOK, RequestType
  <1>3. ASSUME NEW s \in RequestStages, request' = [request EXCEPT ![r].at = s]
        PROVE  request' \in [Requests -> RequestType]
    <2>1. [request[r] EXCEPT !.at = s] \in RequestType
      BY <1>2 DEF RequestType
    <2>. QED
      BY <1>2, <1>3, <2>1
  <1>4. ASSUME NEW q \in RequestType, request' = [request EXCEPT ![r] = q]
        PROVE  request' \in [Requests -> RequestType]
    BY <1>2, <1>4
  <1>. QED
    BY <1>1, <1>3, <1>4, TabOfAssumption

LEMMA TypesKept == ASSUME TypeOK, IssuedFirst, [Next]_vars PROVE TypeOK'
  <1>n. Tokens \subseteq Nat /\ "login" \in Calls /\ "boot" \in Calls /\ "refresh" \in Calls
    BY DEF Tokens, Calls
  <1>f. ASSUME NEW k \in Kinds, Happens(k) PROVE faults' \in [Kinds -> Nat]
    BY <1>f, FaultsGrow
  <1>1. ASSUME NEW t \in Tabs, NEW k \in Calls, FindUser(t, k)
        PROVE  TypeOK'
    <2>1. issued' \in Nat /\ ended' \in BOOLEAN
      <3>1. issued' = issued + 1 \/ issued' = issued
        BY <1>1 DEF FindUser
      <3>2. ended' = (ended /\ k # "login") \/ ended' = ended
        BY <1>1 DEF FindUser
      <3>3. issued' \in Nat
        BY <3>1 DEF TypeOK
      <3>4. ended' \in BOOLEAN
        BY <3>2 DEF TypeOK
      <3>. QED
        BY <3>3, <3>4
    <2>2. call' \in [Tabs -> [Calls -> Calling]]
      BY <1>1, FoundCall
    <2>. QED
      BY <1>1, <2>1, <2>2 DEF FindUser, TypeOK, pages
  <1>2. ASSUME NEW t \in Tabs, NEW k \in Calls, UpdateRefreshToken(t, k)
        PROVE  TypeOK'
    <2>1. call' \in [Tabs -> [Calls -> Calling]]
      BY <1>2, CallMoves DEF UpdateRefreshToken, CallStages
    <2>2. refreshToken' \in Tokens
      BY <1>2 DEF UpdateRefreshToken, IssuedFirst
    <2>. QED
      BY <1>2, <2>1, <2>2 DEF UpdateRefreshToken, TypeOK, pages
  <1>3. ASSUME NEW t \in Tabs, NEW k \in Calls, FailCall(t, k)
        PROVE  TypeOK'
    <2>1. call' \in [Tabs -> [Calls -> Calling]]
      BY <1>3, CallMoves DEF FailCall, CallStages
    <2>2. faults' \in [Kinds -> Nat]
      BY <1>3, <1>f DEF FailCall, Kinds
    <2>. QED
      BY <1>3, <2>1, <2>2 DEF FailCall, TypeOK, pages, server
  <1>4. ASSUME NEW t \in Tabs, NEW k \in Calls, RepeatCall(t, k)
        PROVE  TypeOK'
    <2>1. call' \in [Tabs -> [Calls -> Calling]]
      BY <1>4, CallMoves DEF RepeatCall, CallStages
    <2>2. faults' \in [Kinds -> Nat]
      BY <1>4, <1>f DEF RepeatCall, Kinds
    <2>. QED
      BY <1>4, <2>1, <2>2 DEF RepeatCall, TypeOK, pages, server
  <1>5. ASSUME NEW t \in Tabs, NEW k \in Calls, TimeOut(t, k)
        PROVE  TypeOK'
    <2>1. call' \in [Tabs -> [Calls -> Calling]]
      BY <1>5, CallUnheard
    <2>2. faults' \in [Kinds -> Nat]
      BY <1>5, <1>f DEF TimeOut, Kinds
    <2>. QED
      BY <1>5, <2>1, <2>2 DEF TimeOut, TypeOK, server
  <1>6. ASSUME NEW t \in Tabs, NEW k \in Calls, Unheard(t, k)
        PROVE  TypeOK'
    BY <1>6, AnswerTypes DEF Unheard, TypeOK, pages, server
  <1>7. ASSUME NEW t \in Tabs, Boot(t)
        PROVE  TypeOK'
    <2>1. call' \in [Tabs -> [Calls -> Calling]]
      BY <1>7, <1>n, CallReplaced, NewCalls DEF Boot
    <2>. QED
      BY <1>7, <2>1 DEF Boot, TypeOK, pages, server
  <1>8. ASSUME NEW t \in Tabs, Booted(t)
        PROVE  TypeOK'
    BY <1>8, <1>n, AnswerTypes DEF Booted, TypeOK, server
  <1>9. ASSUME NEW t \in Tabs, LoggedIn(t)
        PROVE  TypeOK'
    BY <1>9, <1>n, AnswerTypes DEF LoggedIn, TypeOK, server
  <1>10. ASSUME NEW t \in Tabs, Refreshed(t)
         PROVE  TypeOK'
    <2>1. request' \in [Requests -> RequestType]
      <3>1. Done(t, "refresh") => [at |-> "sent", with |-> call[t]["refresh"].issue] \in RequestType
        BY <1>10, <1>n, AnswerTypes DEF Refreshed, RequestType, RequestStages
      <3>2. Idle \in RequestType
        BY DEF Idle, RequestType, RequestStages
      <3>. QED
        BY <1>10, <3>1, <3>2 DEF Refreshed, TypeOK, RequestType
    <2>. QED
      BY <1>10, <1>n, <2>1, AnswerTypes DEF Refreshed, TypeOK, server, RequestType
  <1>11. ASSUME NEW t \in Tabs, LogIn(t)
         PROVE  TypeOK'
    <2>1. call' \in [Tabs -> [Calls -> Calling]]
      BY <1>11, <1>n, CallReplaced, NewCalls DEF LogIn
    <2>2. faults' \in [Kinds -> Nat]
      BY <1>11, <1>f DEF LogIn, Kinds
    <2>. QED
      BY <1>11, <2>1, <2>2 DEF LogIn, TypeOK, pages, server
  <1>12. ASSUME NEW t \in Tabs, HandleLogout(t)
         PROVE  TypeOK'
    <2>1. faults' \in [Kinds -> Nat]
      BY <1>12, <1>f DEF HandleLogout, Kinds
    <2>. QED
      BY <1>12, <2>1 DEF HandleLogout, TypeOK, server
  <1>13. ASSUME NEW t \in Tabs, Reload(t)
         PROVE  TypeOK'
    <2>1. request' \in [Requests -> RequestType]
      BY <1>13 DEF Reload, TypeOK, Idle, RequestStages, RequestType
    <2>2. faults' \in [Kinds -> Nat]
      BY <1>13, <1>f DEF Reload, Kinds
    <2>. QED
      BY <1>13, <2>1, <2>2, CallsUnheard DEF Reload, TypeOK, server, RequestType
  <1>14. ASSUME NEW r \in Requests, Serve(r)
         PROVE  TypeOK'
    <2>1. request' \in [Requests -> RequestType]
      <3>1. [request[r] EXCEPT !.at = "refused"] \in RequestType
        BY DEF TypeOK, RequestType, RequestStages
      <3>. QED
        BY <1>14, <3>1, RequestTypes DEF Serve, TypeOK, RequestType
    <2>. QED
      BY <1>14, <2>1 DEF Serve, TypeOK, server, RequestType
  <1>15. ASSUME NEW r \in Requests, Send(r)
         PROVE  TypeOK'
    <2>1. token[TabOf[r]] \in Tokens
      BY <1>15, RequestTypes DEF Send, TypeOK
    <2>2. request' \in [Requests -> RequestType]
      BY <1>15, <1>n, <2>1, RequestTypes DEF Send, RequestType, RequestStages
    <2>. QED
      BY <1>15, <2>2 DEF Send, TypeOK, server, RequestType
  <1>16. ASSUME NEW r \in Requests, FailRequest(r)
         PROVE  TypeOK'
    <2>1. request' \in [Requests -> RequestType]
      BY <1>16, RequestTypes DEF FailRequest
    <2>2. faults' \in [Kinds -> Nat]
      BY <1>16, <1>f DEF FailRequest, Kinds
    <2>. QED
      BY <1>16, <2>1, <2>2 DEF FailRequest, TypeOK, server, RequestType
  <1>17. ASSUME NEW r \in Requests, OnResponseError(r)
         PROVE  TypeOK'
    <2>1. request' \in [Requests -> RequestType]
      BY <1>17, RequestTypes DEF OnResponseError, RequestStages
    <2>2. call' \in [Tabs -> [Calls -> Calling]]
      <3>1. TabOf[r] \in Tabs
        BY RequestTypes
      <3>2. call' = call \/ call' = [call EXCEPT ![TabOf[r]]["refresh"] = Posted]
        BY <1>17 DEF OnResponseError
      <3>3. PICK c \in Calling : c = Posted
        BY NewCalls
      <3>. QED
        BY <1>n, <3>1, <3>2, <3>3, CallReplaced DEF TypeOK
    <2>3. isTokenRefreshing' \in [Tabs -> BOOLEAN]
      BY <1>17 DEF OnResponseError, TypeOK
    <2>. QED
      BY <1>17, <2>1, <2>2, <2>3 DEF OnResponseError, TypeOK, server, RequestType
  <1>18. ASSUME EndSession
         PROVE  TypeOK'
    <2>1. faults' \in [Kinds -> Nat]
      BY <1>18, <1>f DEF EndSession, Kinds
    <2>2. ended' \in BOOLEAN
      BY <1>18 DEF EndSession
    <2>. QED
      BY <1>18, <2>1, <2>2 DEF EndSession, TypeOK, pages
  <1>19. ASSUME Expire
         PROVE  TypeOK'
    BY <1>19 DEF Expire, TypeOK, pages, server
  <1>20. ASSUME LoseCookie
         PROVE  TypeOK'
    <2>1. faults' \in [Kinds -> Nat]
      BY <1>20, <1>f DEF LoseCookie, Kinds
    <2>. QED
      BY <1>20, <2>1 DEF LoseCookie, TypeOK, pages, server
  <1>21. CASE UNCHANGED vars
    BY <1>21 DEF vars, server, pages, TypeOK
  <1>. QED
    BY <1>1, <1>2, <1>3, <1>4, <1>5, <1>6, <1>7, <1>8, <1>9, <1>10, <1>11, <1>12, <1>13, <1>14,
       <1>15, <1>16, <1>17, <1>18, <1>19, <1>20, <1>21 DEF Next, AuthStep, PageStep, RequestStep

-----------------------------------------------------------------------------
(* What was issued, and sessions that were ended.                          *)

\* Only FindUser makes a call one that is about to write the row, and only
\* UpdateRefreshToken one that has; both with the token that was issued.
LEMMA CallSteps ==
    ASSUME TypeOK, IssuedFirst, [Next]_vars, NEW t \in Tabs, NEW k \in Calls
    PROVE  \/ call'[t][k].at \in {"idle", "find", "failed"}
           \/ /\ call'[t][k].at = call[t][k].at
              /\ call'[t][k].issue = call[t][k].issue
           \/ /\ FindUser(t, k) /\ Admits(t, k)
              /\ call'[t][k].issue = issued + 1
           \/ /\ UpdateRefreshToken(t, k) /\ call'[t][k].at = "done"
              /\ call'[t][k].issue = call[t][k].issue
  <1>. DEFINE Goal == \/ call'[t][k].at \in {"idle", "find", "failed"}
                      \/ /\ call'[t][k].at = call[t][k].at
                         /\ call'[t][k].issue = call[t][k].issue
                      \/ /\ FindUser(t, k) /\ Admits(t, k)
                         /\ call'[t][k].issue = issued + 1
                      \/ /\ UpdateRefreshToken(t, k) /\ call'[t][k].at = "done"
                         /\ call'[t][k].issue = call[t][k].issue
  <1>n. "login" \in Calls /\ "boot" \in Calls /\ "refresh" \in Calls
    BY DEF Calls
  <1>1. ASSUME NEW u \in Tabs, NEW j \in Calls, FindUser(u, j)
        PROVE  Goal
    BY <1>1, FoundCall
  <1>2. ASSUME NEW u \in Tabs, NEW j \in Calls, UpdateRefreshToken(u, j)
        PROVE  Goal
    <2>1. "done" \in CallStages /\ call' = [call EXCEPT ![u][j].at = "done"]
      BY <1>2 DEF UpdateRefreshToken, CallStages
    <2>. QED
      BY <1>2, <2>1, CallMoves
  <1>3. ASSUME NEW u \in Tabs, NEW j \in Calls, FailCall(u, j)
        PROVE  Goal
    <2>1. "failed" \in CallStages /\ call' = [call EXCEPT ![u][j].at = "failed"]
      BY <1>3 DEF FailCall, CallStages
    <2>. QED
      BY <1>3, <2>1, CallMoves
  <1>4. ASSUME NEW u \in Tabs, NEW j \in Calls, RepeatCall(u, j)
        PROVE  Goal
    <2>1. "find" \in CallStages /\ call' = [call EXCEPT ![u][j].at = "find"]
      BY <1>4 DEF RepeatCall, CallStages
    <2>. QED
      BY <1>4, <2>1, CallMoves
  <1>5. ASSUME NEW u \in Tabs, NEW j \in Calls, TimeOut(u, j)
        PROVE  Goal
    BY <1>5, CallUnheard
  <1>6. ASSUME NEW u \in Tabs, NEW j \in Calls, Answered(u, j)
        PROVE  Goal
    BY <1>6, AnswerTypes, NewCalls
  <1>7. ASSUME NEW u \in Tabs, NEW j \in Calls, call' = [call EXCEPT ![u][j] = Posted]
        PROVE  Goal
    <2>1. PICK c \in Calling : c = Posted
      BY NewCalls
    <2>. QED
      BY <1>7, <2>1, CallReplaced, NewCalls
  <1>8. ASSUME NEW u \in Tabs, Reload(u)
        PROVE  Goal
    BY <1>8, CallsUnheard
  <1>9. ASSUME call' = call
        PROVE  Goal
    BY <1>9
  <1>10. ASSUME NEW u \in Tabs, PageStep(u) \/ LogIn(u) \/ HandleLogout(u)
         PROVE  Goal
    BY <1>10, <1>n, <1>6, <1>7, <1>9 DEF PageStep, Boot, Booted, LoggedIn, Refreshed, LogIn, HandleLogout
  <1>11. ASSUME NEW r \in Requests, RequestStep(r) \/ Send(r) \/ FailRequest(r)
         PROVE  Goal
    <2>1. TabOf[r] \in Tabs
      BY RequestTypes
    <2>. QED
      BY <1>11, <1>n, <2>1, <1>7, <1>9 DEF RequestStep, Serve, OnResponseError, Send, FailRequest
  <1>12. ASSUME EndSession \/ Expire \/ LoseCookie \/ UNCHANGED vars
         PROVE  Goal
    BY <1>12, <1>9 DEF EndSession, Expire, LoseCookie, vars
  <1>13. ASSUME NEW u \in Tabs, NEW j \in Calls, Unheard(u, j)
         PROVE  Goal
    BY <1>13, <1>6 DEF Unheard
  <1>. HIDE DEF Goal
  <1>14. Goal
    BY <1>1, <1>2, <1>3, <1>4, <1>5, <1>8, <1>10, <1>11, <1>12, <1>13 DEF Next, AuthStep
  <1>. QED
    BY <1>14 DEF Goal

LEMMA IssuedKept == ASSUME TypeOK, IssuedFirst, [Next]_vars PROVE IssuedFirst'
  <1>1. ASSUME NEW t \in Tabs, NEW k \in Calls, call'[t][k].at \in {"update", "done"}
        PROVE  call'[t][k].issue \in Tokens
    <2>1. issued + 1 \in Tokens
      BY DEF TypeOK, Tokens
    <2>2. call[t][k].at \in {"update", "done"} => call[t][k].issue \in Tokens
      BY DEF IssuedFirst
    <2>. QED
      BY <1>1, <2>1, <2>2, CallSteps DEF UpdateRefreshToken
  <1>. QED
    BY <1>1 DEF IssuedFirst

\* Who writes the row, and ends the session or begins one.
LEMMA RowSteps ==
    ASSUME [Next]_vars
    PROVE  \/ \E t \in Tabs, k \in Calls : FindUser(t, k) \/ UpdateRefreshToken(t, k)
           \/ EndSession
           \/ UNCHANGED <<refreshToken, ended>>
  BY DEF Next, AuthStep, PageStep, RequestStep, Unheard, FailCall, RepeatCall, TimeOut, Boot,
         Booted, LoggedIn, Refreshed, LogIn, HandleLogout, Reload, Serve, OnResponseError, Send,
         FailRequest, Expire, LoseCookie, vars, server

LEMMA EndedKept ==
    ASSUME TypeOK, IssuedFirst, EndedStaysEnded, NoneIsLate, [Next]_vars
    PROVE  EndedStaysEnded' /\ NoneIsLate'
  <1>1. ASSUME NEW t \in Tabs, NEW k \in Calls, FindUser(t, k)
        PROVE  /\ ended' => ended /\ refreshToken' = NoToken
               /\ ended' => ~Admits(t, k)
    <2>1. refreshToken' = refreshToken
      BY <1>1 DEF FindUser
    <2>2. ended' => ended
      BY <1>1 DEF FindUser
    <2>3. Admits(t, k) => (ended' => k # "login")
      BY <1>1 DEF FindUser
    <2>. QED
      BY <2>1, <2>2, <2>3 DEF Admits, EndedStaysEnded
  <1>2. ASSUME NEW t \in Tabs, NEW k \in Calls, UpdateRefreshToken(t, k)
        PROVE  ~ended'
    BY <1>2 DEF UpdateRefreshToken, NoneIsLate
  <1>3. EndedStaysEnded'
    BY <1>1, <1>2, RowSteps DEF EndedStaysEnded, EndSession
  <1>4. ASSUME ended', NEW t \in Tabs, NEW k \in Calls
        PROVE  call'[t][k].at # "update"
    <2>1. CASE EndSession
      BY <1>4, <2>1 DEF EndSession
    <2>2. CASE ~EndSession
      <3>1. ended
        BY <1>1, <1>2, <1>4, <2>2, RowSteps
      <3>2. call[t][k].at # "update"
        BY <3>1 DEF NoneIsLate
      <3>. QED
        BY <1>1, <1>4, <3>2, CallSteps
    <2>. QED
      BY <2>1, <2>2
  <1>. QED
    BY <1>3, <1>4 DEF NoneIsLate

-----------------------------------------------------------------------------
(* Requests that wait, and pages that are loaded.                          *)

\* Steps that change no page, and no call a page waits for but by making one.
LEMMA PagesKept ==
    ASSUME NobodyIsStranded, Loading, UNCHANGED pages,
           \A t \in Tabs, k \in Calls : call'[t][k].heard =>
               \/ call[t][k].heard
               \/ k = "boot" /\ ~isReady[t]
               \/ k = "login" /\ isReady[t],
           \A t \in Tabs : isTokenRefreshing[t] =>
               call'[t]["refresh"].at # "idle" /\ call'[t]["refresh"].heard
    PROVE  NobodyIsStranded' /\ Loading'
  <1>n. "login" \in Calls /\ "boot" \in Calls /\ "refresh" \in Calls
    BY DEF Calls
  <1>1. NobodyIsStranded'
    BY DEF NobodyIsStranded, pages, Pending, InTab, Heard
  <1>2. Loading'
    BY <1>n DEF Loading, pages, InTab, Heard
  <1>. QED
    BY <1>1, <1>2

LEMMA WaitersKept ==
    ASSUME TypeOK, IssuedFirst, NobodyIsStranded, Loading, [Next]_vars
    PROVE  NobodyIsStranded' /\ Loading'
  <1>. DEFINE Goal == NobodyIsStranded' /\ Loading'
  <1>n. "login" \in Calls /\ "boot" \in Calls /\ "refresh" \in Calls
    BY DEF Calls
  <1>w. \A t \in Tabs : isTokenRefreshing[t] =>
           call[t]["refresh"].at # "idle" /\ call[t]["refresh"].heard
    BY DEF NobodyIsStranded, Heard
  <1>1. ASSUME NEW t \in Tabs, NEW k \in Calls, FindUser(t, k)
        PROVE  Goal
    <2>1. \A u \in Tabs, j \in Calls :
             /\ call'[u][j].heard = call[u][j].heard
             /\ call[u][j].at # "idle" => call'[u][j].at # "idle"
      BY <1>1, FoundCall
    <2>2. UNCHANGED pages
      BY <1>1 DEF FindUser
    <2>. QED
      BY <1>n, <1>w, <2>1, <2>2, PagesKept
  <1>2. ASSUME NEW t \in Tabs, NEW k \in Calls, NEW s \in CallStages, s # "idle",
               call' = [call EXCEPT ![t][k].at = s], UNCHANGED pages
        PROVE  Goal
    <2>1. \A u \in Tabs, j \in Calls :
             /\ call'[u][j].heard = call[u][j].heard
             /\ call[u][j].at # "idle" => call'[u][j].at # "idle"
      BY <1>2, CallMoves
    <2>. QED
      BY <1>2, <1>n, <1>w, <2>1, PagesKept
  <1>3. ASSUME NEW t \in Tabs, NEW k \in Calls,
               UpdateRefreshToken(t, k) \/ FailCall(t, k) \/ RepeatCall(t, k)
        PROVE  Goal
    <2>1. PICK s \in CallStages : s # "idle" /\ call' = [call EXCEPT ![t][k].at = s]
      BY <1>3 DEF UpdateRefreshToken, FailCall, RepeatCall, CallStages
    <2>2. UNCHANGED pages
      BY <1>3 DEF UpdateRefreshToken, FailCall, RepeatCall
    <2>. QED
      BY <1>2, <2>1, <2>2
  <1>4. ASSUME NEW t \in Tabs, NEW k \in Calls, Unheard(t, k)
        PROVE  Goal
    <2>1. /\ ~call[t][k].heard /\ ~call'[t][k].heard /\ UNCHANGED pages
          /\ \A u \in Tabs, j \in Calls : u # t \/ j # k => call'[u][j] = call[u][j]
      BY <1>4, AnswerTypes, NewCalls DEF Unheard, Heard
    <2>. QED
      BY <1>n, <1>w, <2>1, PagesKept
  <1>5. ASSUME NEW t \in Tabs, Boot(t) \/ LogIn(t)
        PROVE  Goal
    <2>1. PICK k \in Calls :
             /\ call' = [call EXCEPT ![t][k] = Posted]
             /\ \/ k = "boot" /\ ~isReady[t]
                \/ k = "login" /\ isReady[t]
      <3>1. CASE Boot(t)
        BY <1>n, <3>1 DEF Boot
      <3>2. CASE LogIn(t)
        BY <1>n, <3>2 DEF LogIn
      <3>. QED
        BY <1>5, <3>1, <3>2
    <2>2. PICK c \in Calling : c = Posted
      BY NewCalls
    <2>3. \A u \in Tabs, j \in Calls : u # t \/ j # k => call'[u][j] = call[u][j]
      BY <2>1, <2>2, CallReplaced
    <2>4. UNCHANGED pages
      BY <1>5 DEF Boot, LogIn
    <2>. QED
      BY <1>n, <1>w, <2>1, <2>3, <2>4, PagesKept
  <1>6. ASSUME EndSession \/ Expire \/ LoseCookie \/ UNCHANGED vars
        PROVE  Goal
    <2>1. UNCHANGED <<call, pages>>
      BY <1>6 DEF EndSession, Expire, LoseCookie, vars
    <2>. QED
      BY <1>n, <1>w, <2>1, PagesKept
  <1>7. ASSUME NEW t \in Tabs, Booted(t)
        PROVE  Goal
    <2>1. /\ ~call'[t]["boot"].heard
          /\ \A u \in Tabs, j \in Calls : u # t \/ j # "boot" => call'[u][j] = call[u][j]
      BY <1>7, <1>n, AnswerTypes, NewCalls DEF Booted
    <2>2. /\ UNCHANGED <<isTokenRefreshing, request>> /\ isReady'[t]
          /\ \A u \in Tabs : u # t => isReady'[u] = isReady[u] /\ token'[u] = token[u]
      BY <1>7 DEF Booted, TypeOK
    <2>3. NobodyIsStranded'
      BY <1>n, <2>1, <2>2 DEF NobodyIsStranded, Pending, InTab, Heard
    <2>4. Loading'
      BY <1>n, <2>1, <2>2 DEF Loading, InTab, Heard
    <2>. QED
      BY <2>3, <2>4
  <1>8. ASSUME NEW t \in Tabs, LoggedIn(t)
        PROVE  Goal
    <2>1. /\ ~call'[t]["login"].heard /\ call[t]["login"].heard
          /\ \A u \in Tabs, j \in Calls : u # t \/ j # "login" => call'[u][j] = call[u][j]
      BY <1>8, <1>n, AnswerTypes, NewCalls DEF LoggedIn, Heard
    <2>2. isReady[t]
      BY <2>1 DEF Loading, Heard
    <2>3. /\ UNCHANGED <<isReady, isTokenRefreshing, request>>
          /\ \A u \in Tabs : u # t => token'[u] = token[u]
      BY <1>8 DEF LoggedIn, TypeOK
    <2>4. NobodyIsStranded'
      BY <1>n, <2>1, <2>3 DEF NobodyIsStranded, Pending, InTab, Heard
    <2>5. Loading'
      BY <1>n, <2>1, <2>2, <2>3 DEF Loading, InTab, Heard
    <2>. QED
      BY <2>4, <2>5
  <1>9. ASSUME NEW t \in Tabs, Refreshed(t)
        PROVE  Goal
    <2>1. /\ ~call'[t]["refresh"].heard /\ call[t]["refresh"].heard
          /\ \A u \in Tabs, j \in Calls : u # t \/ j # "refresh" => call'[u][j] = call[u][j]
      BY <1>9, <1>n, AnswerTypes, NewCalls DEF Refreshed, Heard
    <2>2. isReady[t]
      BY <2>1 DEF Loading, Heard
    <2>3. /\ isReady' = isReady /\ ~isTokenRefreshing'[t]
          /\ \A u \in Tabs : u # t => /\ token'[u] = token[u]
                                      /\ isTokenRefreshing'[u] = isTokenRefreshing[u]
      BY <1>9 DEF Refreshed, TypeOK
    <2>4. \A r \in Requests :
             /\ r \notin Pending(t) => request'[r] = request[r]
             /\ r \in Pending(t) => request'[r].at \notin {"first", "waiting"}
      BY <1>9 DEF Refreshed, Idle
    <2>5. ASSUME NEW u \in Tabs, NEW r \in Requests, TabOf[r] = u, u # t
          PROVE  request'[r] = request[r]
      BY <2>4, <2>5 DEF Pending, InTab
    <2>6. ASSUME NEW r \in Requests, TabOf[r] = t
          PROVE  request'[r].at \notin {"first", "waiting"}
      BY <2>4, <2>6 DEF Pending, InTab
    <2>7. NobodyIsStranded'
      BY <1>n, <2>1, <2>3, <2>5, <2>6 DEF NobodyIsStranded, Pending, InTab, Heard
    <2>8. Loading'
      BY <1>n, <2>1, <2>2, <2>3, <2>5 DEF Loading, InTab, Heard
    <2>. QED
      BY <2>7, <2>8
  <1>10. ASSUME NEW t \in Tabs, NEW k \in Calls, TimeOut(t, k)
         PROVE  Goal
    <2>1. \A u \in Tabs, j \in Calls :
             /\ call'[u][j].at = call[u][j].at
             /\ call'[u][j].heard <=> call[u][j].heard /\ (u # t \/ j # k)
      BY <1>10, CallUnheard
    <2>2. k # "refresh" /\ call[t][k].heard /\ k \in {"boot", "login"}
      BY <1>10 DEF TimeOut, Heard
    <2>3. /\ UNCHANGED <<isTokenRefreshing, request>> /\ isReady'[t]
          /\ \A u \in Tabs : u # t => isReady'[u] = isReady[u] /\ token'[u] = token[u]
      BY <1>10 DEF TimeOut, TypeOK
    <2>4. ~call'[t]["boot"].heard
      BY <1>n, <2>1, <2>2 DEF Loading, Heard
    <2>5. NobodyIsStranded'
      BY <1>n, <2>1, <2>2, <2>3 DEF NobodyIsStranded, Pending, InTab, Heard
    <2>6. Loading'
      BY <1>n, <2>1, <2>3, <2>4 DEF Loading, InTab, Heard
    <2>. QED
      BY <2>5, <2>6
  <1>11. ASSUME NEW t \in Tabs, HandleLogout(t)
         PROVE  Goal
    <2>1. /\ UNCHANGED <<isReady, isTokenRefreshing, request, call>>
          /\ \A u \in Tabs : token'[u] = token[u] \/ token'[u] = NoToken
      BY <1>11 DEF HandleLogout, TypeOK
    <2>. QED
      BY <2>1 DEF NobodyIsStranded, Loading, Pending, InTab, Heard
  <1>12. ASSUME NEW t \in Tabs, Reload(t)
         PROVE  Goal
    <2>1. \A u \in Tabs, j \in Calls :
             /\ call'[u][j].at = call[u][j].at
             /\ call'[u][j].heard <=> call[u][j].heard /\ u # t
      BY <1>12, CallsUnheard
    <2>2. /\ ~isReady'[t] /\ ~isTokenRefreshing'[t] /\ token'[t] = NoToken
          /\ \A u \in Tabs : u # t => /\ isReady'[u] = isReady[u] /\ token'[u] = token[u]
                                      /\ isTokenRefreshing'[u] = isTokenRefreshing[u]
      BY <1>12 DEF Reload, TypeOK
    <2>3. \A r \in Requests : IF TabOf[r] = t THEN request'[r].at = "idle"
                              ELSE request'[r] = request[r]
      BY <1>12 DEF Reload, InTab, Idle
    <2>4. NobodyIsStranded'
      BY <1>n, <2>1, <2>2, <2>3 DEF NobodyIsStranded, Pending, InTab, Heard
    <2>5. Loading'
      BY <1>n, <2>1, <2>2, <2>3 DEF Loading, InTab, Heard
    <2>. QED
      BY <2>4, <2>5
  <1>13. ASSUME NEW r \in Requests, Serve(r) \/ Send(r) \/ FailRequest(r)
         PROVE  Goal
    <2>1. /\ UNCHANGED <<token, isReady, isTokenRefreshing, call>>
          /\ request'[r].at \notin {"first", "waiting"}
          /\ \A q \in Requests : q # r => request'[q] = request[q]
          /\ request[r].at # "idle" \/ isReady[TabOf[r]]
      <3>1. request[r] \in [at : RequestStages, with : Nat]
        BY DEF TypeOK
      <3>. QED
        BY <1>13, <3>1 DEF Serve, Send, FailRequest, TypeOK, Idle
    <2>2. NobodyIsStranded'
      BY <2>1 DEF NobodyIsStranded, Pending, InTab, Heard
    <2>3. Loading'
      BY <2>1 DEF Loading, InTab, Heard
    <2>. QED
      BY <2>2, <2>3
  <1>14. ASSUME NEW r \in Requests, OnResponseError(r)
         PROVE  Goal
    <2>. DEFINE t == TabOf[r]
    <2>1. t \in Tabs
      BY RequestTypes
    <2>2. /\ UNCHANGED <<token, isReady>> /\ isTokenRefreshing'[t]
          /\ \A u \in Tabs : u # t => isTokenRefreshing'[u] = isTokenRefreshing[u]
      BY <1>14, <2>1 DEF OnResponseError, TypeOK
    <2>3. /\ \A q \in Requests : q # r => request'[q] = request[q]
          /\ request[r].at # "idle"
      BY <1>14 DEF OnResponseError, TypeOK
    <2>4. isReady[t]
      BY <2>1, <2>3 DEF Loading, InTab
    <2>5. \/ call' = call /\ isTokenRefreshing[t]
          \/ call' = [call EXCEPT ![t]["refresh"] = Posted]
      BY <1>14 DEF OnResponseError
    <2>6. /\ call'[t]["refresh"].at # "idle" /\ call'[t]["refresh"].heard
          /\ \A u \in Tabs, j \in Calls : u # t \/ j # "refresh" => call'[u][j] = call[u][j]
      <3>1. PICK c \in Calling : c = Posted
        BY NewCalls
      <3>. QED
        BY <1>n, <1>w, <2>1, <2>5, <3>1, CallReplaced, NewCalls
    <2>. HIDE DEF t
    <2>7. \A q \in Requests : TabOf[q] # t => request'[q] = request[q]
      BY <2>3 DEF t
    <2>8. NobodyIsStranded'
      BY <1>n, <2>1, <2>2, <2>6, <2>7 DEF NobodyIsStranded, Pending, InTab, Heard
    <2>9. Loading'
      BY <1>n, <2>1, <2>2, <2>4, <2>6, <2>7 DEF Loading, InTab, Heard
    <2>. QED
      BY <2>8, <2>9
  <1>. HIDE DEF Goal
  <1>15. Goal
    BY <1>1, <1>3, <1>4, <1>5, <1>6, <1>7, <1>8, <1>9, <1>10, <1>11, <1>12, <1>13, <1>14
       DEF Next, AuthStep, PageStep, RequestStep
  <1>. QED
    BY <1>15 DEF Goal

-----------------------------------------------------------------------------
(* Tabs that stay signed in.                                               *)

Disturbances == {"fail", "end", "lose"}

LEMMA Undisturbed ==
    ASSUME TypeOK, [Next]_vars, Never(Disturbances)'
    PROVE  /\ Never(Disturbances)
           /\ ~EndSession /\ ~LoseCookie
           /\ \A t \in Tabs, k \in Calls : ~FailCall(t, k)
  <1>k. /\ Disturbances \in SUBSET Kinds
        /\ "fail" \in Disturbances /\ "end" \in Disturbances /\ "lose" \in Disturbances
    BY DEF Disturbances, Kinds
  <1>1. (\E k \in Kinds : Happens(k)) \/ UNCHANGED faults
    BY DEF Next, AuthStep, PageStep, RequestStep, FindUser, UpdateRefreshToken, Unheard, FailCall,
           RepeatCall, TimeOut, Boot, Booted, LoggedIn, Refreshed, LogIn, HandleLogout, Reload,
           Serve, OnResponseError, Send, FailRequest, EndSession, Expire, LoseCookie, vars, Kinds
  <1>2. Never(Disturbances) /\ \A k \in Disturbances : ~Happens(k)
    BY <1>k, <1>1, NeverBefore
  <1>. QED
    BY <1>k, <1>2 DEF EndSession, LoseCookie, FailCall

\* Who writes the cookie.
LEMMA CookieSteps ==
    ASSUME [Next]_vars
    PROVE  \/ LoseCookie
           \/ UNCHANGED cookie
           \/ \E t \in Tabs, k \in Calls :
                  Done(t, k) /\ Heard(t, k) /\ cookie' = call[t][k].issue
  <1>n. "login" \in Calls /\ "boot" \in Calls /\ "refresh" \in Calls
    BY DEF Calls
  <1>1. ASSUME NEW t \in Tabs, NEW k \in Calls, Answered(t, k)
        PROVE  cookie' = cookie \/ (Done(t, k) /\ Heard(t, k) /\ cookie' = call[t][k].issue)
    BY <1>1 DEF Answered
  <1>2. \/ LoseCookie
        \/ UNCHANGED cookie
        \/ \E t \in Tabs, k \in Calls : Answered(t, k)
    BY <1>n DEF Next, AuthStep, PageStep, RequestStep, FindUser, UpdateRefreshToken, Unheard,
           FailCall, RepeatCall, TimeOut, Boot, Booted, LoggedIn, Refreshed, LogIn, HandleLogout,
           Reload, Serve, OnResponseError, Send, FailRequest, EndSession, Expire, vars
  <1>. QED
    BY <1>1, <1>2

\* Who signs a tab in or out.
LEMMA TokenSteps ==
    ASSUME TypeOK, [Next]_vars, NEW t \in Tabs
    PROVE  \/ token'[t] = token[t]
           \/ \E k \in Calls :
                  /\ Answered(t, k) /\ Heard(t, k)
                  /\ k = "login" => Done(t, k)
                  /\ token'[t] = Fresh(t, k)
           \/ token'[t] = NoToken /\ (TimeOut(t, "boot") \/ HandleLogout(t) \/ Reload(t))
  <1>n. "login" \in Calls /\ "boot" \in Calls /\ "refresh" \in Calls
    BY DEF Calls
  <1>1. ASSUME NEW u \in Tabs, Booted(u) \/ Refreshed(u) \/ LoggedIn(u)
        PROVE  \/ token'[t] = token[t]
               \/ \E k \in Calls :
                      /\ Answered(t, k) /\ Heard(t, k)
                      /\ k = "login" => Done(t, k)
                      /\ token'[t] = Fresh(t, k)
    <2>1. CASE u # t
      BY <1>1, <2>1 DEF Booted, Refreshed, LoggedIn, TypeOK
    <2>2. CASE u = t /\ Booted(u)
      BY <1>n, <2>2 DEF Booted, TypeOK
    <2>3. CASE u = t /\ Refreshed(u)
      BY <1>n, <2>3 DEF Refreshed, TypeOK
    <2>4. CASE u = t /\ LoggedIn(u)
      BY <1>n, <2>4 DEF LoggedIn, TypeOK, Fresh
    <2>. QED
      BY <1>1, <2>1, <2>2, <2>3, <2>4
  <1>2. ASSUME NEW u \in Tabs, HandleLogout(u) \/ Reload(u)
        PROVE  \/ token'[t] = token[t]
               \/ token'[t] = NoToken /\ (HandleLogout(t) \/ Reload(t))
    <2>1. token' = [token EXCEPT ![u] = NoToken]
      BY <1>2 DEF HandleLogout, Reload
    <2>. QED
      BY <1>2, <2>1 DEF TypeOK
  <1>3. ASSUME NEW u \in Tabs, NEW k \in Calls, TimeOut(u, k)
        PROVE  \/ token'[t] = token[t]
               \/ token'[t] = NoToken /\ TimeOut(t, "boot")
    <2>1. token' = IF k = "boot" THEN [token EXCEPT ![u] = NoToken] ELSE token
      BY <1>3 DEF TimeOut
    <2>. QED
      BY <1>3, <2>1 DEF TypeOK
  <1>4. \/ \E u \in Tabs : Booted(u) \/ Refreshed(u) \/ LoggedIn(u) \/ HandleLogout(u) \/ Reload(u)
        \/ \E u \in Tabs, k \in Calls : TimeOut(u, k)
        \/ UNCHANGED token
    BY DEF Next, AuthStep, PageStep, RequestStep, FindUser, UpdateRefreshToken, Unheard, FailCall,
           RepeatCall, Boot, LogIn, Serve, OnResponseError, Send, FailRequest, EndSession, Expire,
           LoseCookie, vars, pages
  <1>. QED
    BY <1>1, <1>2, <1>3, <1>4

\* Who begins a request.
LEMMA RequestSteps ==
    ASSUME TypeOK, [Next]_vars, NEW r \in Requests, request'[r].at # "idle"
    PROVE  request[r].at # "idle" \/ Send(r)
  <1>1. ASSUME NEW q \in Requests, RequestStep(q) \/ Send(q) \/ FailRequest(q)
        PROVE  request[r].at # "idle" \/ Send(r)
    <2>1. CASE q = r
      BY <1>1, <2>1 DEF RequestStep, Serve, OnResponseError, FailRequest
    <2>2. CASE q # r
      <3>1. request'[r] = request[r]
        BY <1>1, <2>2 DEF RequestStep, Serve, OnResponseError, Send, FailRequest, TypeOK
      <3>. QED
        BY <3>1
    <2>. QED
      BY <2>1, <2>2
  <1>2. ASSUME NEW t \in Tabs, Refreshed(t)
        PROVE  request[r].at # "idle"
    BY <1>2 DEF Refreshed, Pending
  <1>3. ASSUME NEW t \in Tabs, Reload(t)
        PROVE  request[r].at # "idle"
    BY <1>3 DEF Reload, Idle
  <1>4. \/ \E q \in Requests : RequestStep(q) \/ Send(q) \/ FailRequest(q)
        \/ \E t \in Tabs : Refreshed(t) \/ Reload(t)
        \/ UNCHANGED request
    BY DEF Next, AuthStep, PageStep, FindUser, UpdateRefreshToken, Unheard, FailCall, RepeatCall,
           TimeOut, Boot, Booted, LoggedIn, LogIn, HandleLogout, EndSession, Expire, LoseCookie,
           vars, pages
  <1>. QED
    BY <1>1, <1>2, <1>3, <1>4

\* What becomes of the cookies of calls, and of the refreshes of HttpInstance.
LEMMA RefreshSteps ==
    ASSUME TypeOK, IssuedFirst, [Next]_vars, NEW t \in Tabs, NEW k \in Calls
    PROVE  /\ call'[t][k].cookie \in {call[t][k].cookie, cookie, NoToken}
           /\ k = "refresh" /\ call'[t][k].at # "idle" =>
                \/ /\ call[t][k].at # "idle"
                   /\ call'[t][k].cookie = call[t][k].cookie
                   /\ \/ call'[t][k].at # "failed" \/ call[t][k].at = "failed"
                      \/ FailCall(t, k)
                      \/ call[t][k].cookie = NoToken \/ refreshToken = NoToken
                \/ /\ call'[t][k].at # "failed" /\ call'[t][k].cookie = cookie
                   /\ \E r \in Requests : request[r].at # "idle"
  <1>. DEFINE Goal ==
           /\ call'[t][k].cookie \in {call[t][k].cookie, cookie, NoToken}
           /\ k = "refresh" /\ call'[t][k].at # "idle" =>
                \/ /\ call[t][k].at # "idle"
                   /\ call'[t][k].cookie = call[t][k].cookie
                   /\ \/ call'[t][k].at # "failed" \/ call[t][k].at = "failed"
                      \/ FailCall(t, k)
                      \/ call[t][k].cookie = NoToken \/ refreshToken = NoToken
                \/ /\ call'[t][k].at # "failed" /\ call'[t][k].cookie = cookie
                   /\ \E r \in Requests : request[r].at # "idle"
  <1>n. "login" \in Calls /\ "boot" \in Calls /\ "refresh" \in Calls
    BY DEF Calls
  <1>1. ASSUME NEW u \in Tabs, NEW j \in Calls, FindUser(u, j)
        PROVE  Goal
    <2>1. j = "refresh" /\ ~Admits(u, j) => call[u][j].cookie = NoToken \/ refreshToken = NoToken
      BY DEF Admits, Hashed
    <2>. QED
      BY <1>1, <2>1, FoundCall
  <1>2. ASSUME NEW u \in Tabs, NEW j \in Calls, UpdateRefreshToken(u, j) \/ RepeatCall(u, j)
        PROVE  Goal
    <2>1. PICK s \in CallStages : s # "failed" /\ call' = [call EXCEPT ![u][j].at = s]
      BY <1>2 DEF UpdateRefreshToken, RepeatCall, CallStages
    <2>2. call[u][j].at # "idle"
      BY <1>2 DEF UpdateRefreshToken, RepeatCall
    <2>. QED
      BY <2>1, <2>2, CallMoves
  <1>3. ASSUME NEW u \in Tabs, NEW j \in Calls, FailCall(u, j)
        PROVE  Goal
    <2>1. "failed" \in CallStages /\ call' = [call EXCEPT ![u][j].at = "failed"]
      BY <1>3 DEF FailCall, CallStages
    <2>2. call[u][j].at # "idle"
      BY <1>3 DEF FailCall
    <2>. QED
      BY <1>3, <2>1, <2>2, CallMoves
  <1>4. ASSUME NEW u \in Tabs, NEW j \in Calls, TimeOut(u, j)
        PROVE  Goal
    BY <1>4, CallUnheard
  <1>5. ASSUME NEW u \in Tabs, NEW j \in Calls, Answered(u, j)
        PROVE  Goal
    BY <1>5, AnswerTypes, NewCalls
  <1>6. ASSUME NEW u \in Tabs, NEW j \in Calls, call' = [call EXCEPT ![u][j] = Posted],
               j # "refresh" \/ \E r \in Requests : request[r].at # "idle"
        PROVE  Goal
    <2>1. PICK c \in Calling : c = Posted
      BY NewCalls
    <2>. QED
      BY <1>6, <2>1, CallReplaced, NewCalls
  <1>7. ASSUME NEW u \in Tabs, Reload(u)
        PROVE  Goal
    BY <1>7, CallsUnheard
  <1>8. ASSUME call' = call
        PROVE  Goal
    BY <1>8
  <1>9. ASSUME NEW u \in Tabs, PageStep(u) \/ LogIn(u) \/ HandleLogout(u)
        PROVE  Goal
    BY <1>9, <1>n, <1>5, <1>6, <1>8 DEF PageStep, Boot, Booted, LoggedIn, Refreshed, LogIn, HandleLogout
  <1>10. ASSUME NEW r \in Requests, OnResponseError(r)
         PROVE  Goal
    <2>1. TabOf[r] \in Tabs
      BY RequestTypes
    <2>2. request[r].at # "idle"
      BY <1>10 DEF OnResponseError
    <2>3. call' = call \/ call' = [call EXCEPT ![TabOf[r]]["refresh"] = Posted]
      BY <1>10 DEF OnResponseError
    <2>. QED
      BY <1>n, <2>1, <2>2, <2>3, <1>6, <1>8
  <1>11. ASSUME \/ EndSession \/ Expire \/ LoseCookie \/ UNCHANGED vars
                \/ \E r \in Requests : Serve(r) \/ Send(r) \/ FailRequest(r)
         PROVE  Goal
    BY <1>11, <1>8 DEF EndSession, Expire, LoseCookie, Serve, Send, FailRequest, vars
  <1>12. ASSUME NEW u \in Tabs, NEW j \in Calls, Unheard(u, j)
         PROVE  Goal
    BY <1>12, <1>5 DEF Unheard
  <1>. HIDE DEF Goal
  <1>13. Goal
    BY <1>1, <1>2, <1>3, <1>4, <1>7, <1>9, <1>10, <1>11, <1>12 DEF Next, AuthStep, RequestStep
  <1>. QED
    BY <1>13 DEF Goal

LEMMA RenewableKept == ASSUME IInv, [Next]_vars PROVE Renewable'
  <1>. SUFFICES ASSUME Never(Disturbances)' PROVE Renewable'
    BY DEF Renewable, Disturbances
  <1>i. TypeOK /\ IssuedFirst /\ Renewable /\ Loading
    BY DEF IInv
  <1>n. "login" \in Calls /\ "boot" \in Calls /\ "refresh" \in Calls
    BY DEF Calls
  <1>u. /\ Never(Disturbances) /\ ~EndSession /\ ~LoseCookie
        /\ \A t \in Tabs, k \in Calls : ~FailCall(t, k)
    BY <1>i, Undisturbed
  <1>t. NoToken \notin Tokens
    BY NoTokenAssumption DEF Tokens
  <1>r. /\ cookie # NoToken => refreshToken # NoToken
        /\ \A t \in Tabs : token[t] # NoToken => cookie # NoToken
        /\ \A r \in Requests : request[r].at # "idle" => cookie # NoToken
        /\ \A t \in Tabs, k \in Calls : call[t][k].cookie # NoToken => cookie # NoToken
        /\ \A t \in Tabs, k \in Calls : Done(t, k) => refreshToken # NoToken
        /\ \A t \in Tabs : call[t]["refresh"].at # "idle" =>
               call[t]["refresh"].at # "failed" /\ call[t]["refresh"].cookie # NoToken
    BY <1>i, <1>u DEF Renewable, Disturbances
  <1>d. ASSUME NEW t \in Tabs, NEW k \in Calls, Done(t, k)
        PROVE  call[t][k].issue # NoToken
    BY <1>i, <1>t, <1>d DEF IssuedFirst, Done
  <1>1. refreshToken # NoToken => refreshToken' # NoToken
    <2>1. ASSUME NEW t \in Tabs, NEW k \in Calls, FindUser(t, k) \/ UpdateRefreshToken(t, k)
          PROVE  refreshToken' = refreshToken \/ refreshToken' \in Tokens
      BY <1>i, <2>1 DEF FindUser, UpdateRefreshToken, IssuedFirst
    <2>. QED
      BY <1>u, <1>t, <2>1, RowSteps
  <1>2. cookie # NoToken => cookie' # NoToken
    BY <1>u, <1>d, CookieSteps
  <1>3. cookie' # NoToken => refreshToken' # NoToken
    BY <1>u, <1>r, <1>1, CookieSteps
  <1>4. ASSUME NEW t \in Tabs, token'[t] # NoToken
        PROVE  cookie' # NoToken
    <2>1. ASSUME NEW k \in Calls, Answered(t, k), Heard(t, k), token'[t] = Fresh(t, k)
          PROVE  cookie' # NoToken
      <3>1. Done(t, k)
        BY <1>4, <2>1 DEF Fresh
      <3>. QED
        BY <1>i, <1>t, <2>1, <3>1, AnswerTypes
    <2>. QED
      BY <1>i, <1>4, <1>r, <1>2, <2>1, TokenSteps
  <1>5. ASSUME NEW r \in Requests, request'[r].at # "idle"
        PROVE  cookie' # NoToken
    <2>1. Send(r) => token[TabOf[r]] # NoToken
      BY DEF Send
    <2>. QED
      BY <1>i, <1>5, <1>r, <1>2, <2>1, RequestSteps, RequestTypes
  <1>6. ASSUME NEW t \in Tabs, NEW k \in Calls, call'[t][k].cookie # NoToken
        PROVE  cookie' # NoToken
    BY <1>i, <1>6, <1>r, <1>2, RefreshSteps
  <1>7. ASSUME NEW t \in Tabs, NEW k \in Calls, Done(t, k)'
        PROVE  refreshToken' # NoToken
    <2>1. Done(t, k) \/ UpdateRefreshToken(t, k)
      BY <1>i, <1>7, FoundCall, CallSteps DEF Done
    <2>2. UpdateRefreshToken(t, k) => refreshToken' \in Tokens
      BY <1>i DEF UpdateRefreshToken, IssuedFirst
    <2>. QED
      BY <1>t, <1>r, <1>1, <2>1, <2>2
  <1>8. ASSUME NEW t \in Tabs, call'[t]["refresh"].at # "idle"
        PROVE  call'[t]["refresh"].at # "failed" /\ call'[t]["refresh"].cookie # NoToken
    BY <1>i, <1>n, <1>8, <1>r, <1>u, RefreshSteps
  <1>. QED
    BY <1>3, <1>4, <1>5, <1>6, <1>7, <1>8 DEF Renewable

-----------------------------------------------------------------------------
(* The theorems.                                                           *)

LEMMA InvKept == IInv /\ [Next]_vars => IInv'
  BY TypesKept, IssuedKept, WaitersKept, EndedKept, RenewableKept DEF IInv

(* Requests that wait are waited for, no late call writes the row of an    *)
(* ended session, and who is signed in can renew its token: in every state *)
(* of HttpInstance, AuthProvider and AuthService.                          *)
THEOREM Invariance == Spec => []IInv
  BY InitInv, InvKept, PTL DEF Spec

(* Tokens, cookie, requests and calls keep their types.                    *)
THEOREM TypeCorrect == Spec => []TypeOK
  <1>1. IInv => TypeOK
    BY DEF IInv
  <1>. QED
    BY <1>1, Invariance, PTL

(* No request is left in failedRequests (onResponseError), for any number  *)
(* of tabs and requests, however answers, failures and loads interleave.   *)
THEOREM AllAreWaitedFor == Spec => []NobodyIsStranded
  <1>1. IInv => NobodyIsStranded
    BY DEF IInv
  <1>. QED
    BY <1>1, Invariance, PTL

(* A refresh does not revive a session that was ended before it read the   *)
(* row (refreshTokens), for any number of tabs and repeated calls.         *)
THEOREM EndsForGood == Spec => []EndedStaysEnded
  <1>1. IInv => EndedStaysEnded
    BY DEF IInv
  <1>. QED
    BY <1>1, Invariance, PTL

(* Tabs that refresh at the same time do not sign each other out           *)
(* (refreshTokens, onResponseError), for any number of tabs and requests.  *)
THEOREM TabsStaySignedIn == Spec => SignedInUntilLeft
  <1>1. ASSUME IInv, [Next]_vars, Never(Disturbances)',
               NEW t \in Tabs, token[t] # NoToken, token'[t] = NoToken
        PROVE  HandleLogout(t) \/ Reload(t)
    <2>i. TypeOK /\ IssuedFirst /\ Renewable /\ Loading
      BY <1>1 DEF IInv
    <2>n. "login" \in Calls /\ "boot" \in Calls /\ "refresh" \in Calls /\ NoToken \notin Tokens
      BY NoTokenAssumption DEF Calls, Tokens
    <2>1. ASSUME NEW k \in Calls, Answered(t, k), Heard(t, k),
                 k = "login" => Done(t, k), token'[t] = Fresh(t, k)
          PROVE  FALSE
      <3>1. ~Done(t, k)
        BY <1>1, <2>i, <2>n, <2>1, AnswerTypes
      <3>2. CASE k = "boot"
        BY <1>1, <2>i, <2>1, <3>2 DEF Loading
      <3>3. CASE k = "refresh"
        <4>1. Never(Disturbances)
          BY <1>1, <2>i, Undisturbed
        <4>2. call[t]["refresh"].at # "idle" => call[t]["refresh"].at # "failed"
          BY <2>i, <4>1 DEF Renewable, Disturbances
        <4>. QED
          BY <2>i, <2>1, <3>1, <3>3, <4>2, AnswerTypes DEF Done
      <3>. QED
        BY <2>1, <3>1, <3>2, <3>3 DEF Calls
    <2>2. ASSUME TimeOut(t, "boot")
          PROVE  FALSE
      BY <1>1, <2>i, <2>2 DEF TimeOut, Loading
    <2>. QED
      BY <1>1, <2>i, <2>1, <2>2, TokenSteps
  <1>2. IInv /\ [Next]_vars =>
           [Never({"fail", "end", "lose"})' =>
               \A t \in Tabs : token[t] # NoToken /\ token'[t] = NoToken =>
                   HandleLogout(t) \/ Reload(t)]_vars
    BY <1>1 DEF Disturbances
  <1>. QED
    BY <1>2, Invariance, PTL DEF Spec, SignedInUntilLeft
=============================================================================
