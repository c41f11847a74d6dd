----------------------------- MODULE SessionProofs -----------------------------
(* Proofs about the session of a browser, for any number of tabs, of users, of *)
(* calls and refreshes at a time, and for any faults.                          *)
EXTENDS Session, TLAPS

LEMMA UnusedTyped ==
    /\ UnusedCall \in ApiState /\ UnusedCall.pc = "unused"
    /\ UnusedRefresh \in RefreshState
    /\ UnusedRefresh.pc = "unused" /\ UnusedRefresh.token = NoToken
    /\ NoToken \in Token /\ NoToken.owner = NoUser /\ NoToken.life = "none"
BY SessionAssumption
   DEF SessionAssumption, UnusedCall, UnusedRefresh, ApiState, RefreshState, Token,
       NoToken

LEMMA NewTyped ==
    ASSUME NEW u \in Users
    PROVE  /\ New(u) \in Token /\ New(u) # NoToken
           /\ New(u).owner = u /\ New(u).life = "good"
BY SessionAssumption DEF SessionAssumption, New, Token, NoToken, Life

LEMMA TokenCases ==
    ASSUME NEW n \in Token
    PROVE  /\ n.owner \in Users \cup {NoUser} /\ n.life \in Life \cup {"none"}
           /\ n # NoToken => n.owner \in Users /\ n.life \in Life
           /\ n.owner = NoUser => n = NoToken
BY SessionAssumption DEF SessionAssumption, Token, NoToken

LEMMA SlotTyped ==
    ASSUME NEW r \in Refreshes
    PROVE  r \in 0 .. MaxRefreshes /\ r # 0
BY SessionAssumption DEF SessionAssumption, Refreshes

LEMMA ZeroTyped == 0 \in 0 .. MaxRefreshes /\ 0 \in 0 .. MaxMishaps
BY SessionAssumption DEF SessionAssumption

LEMMA AskedTyped ==
    ASSUME NEW x \in RefreshState
    PROVE  [x EXCEPT !.pc = "asked"] = [pc |-> "asked", token |-> x.token]
BY DEF RefreshState

LEMMA CallTyped ==
    ASSUME NEW p \in {"renewing", "first", "refused", "second"}, NEW t \in Tabs,
           NEW r \in 0 .. MaxRefreshes, NEW s \in Life \cup {"none"}
    PROVE  [pc |-> p, tab |-> t, on |-> r, sent |-> s] \in ApiState
BY DEF ApiState

LEMMA CallChanged ==
    ASSUME NEW x \in ApiState, x.pc # "unused",
           NEW p \in {"renewing", "first", "refused", "second"},
           NEW r \in 0 .. MaxRefreshes, NEW s \in Life \cup {"none"}
    PROVE  LET y == [x EXCEPT !.pc = p, !.on = r, !.sent = s]
           IN  y \in ApiState /\ y.pc = p /\ y.tab = x.tab /\ y.on = r /\ y.sent = s
<1>1. x \in [pc : {"renewing", "first", "refused", "second"}, tab : Tabs,
             on : 0 .. MaxRefreshes, sent : Life \cup {"none"}]
  BY UnusedTyped DEF ApiState
<1> QED BY <1>1 DEF ApiState

LEMMA CallFields ==
    ASSUME NEW x \in ApiState
    PROVE  /\ x.pc # "unused" => x.tab \in Tabs
           /\ x.on \in 0 .. MaxRefreshes /\ x.sent \in Life \cup {"none"}
BY ZeroTyped DEF ApiState, UnusedCall

(* What the helpers of the actions leave. *)
LEMMA AwaitTyped ==
    ASSUME SessionTypeOK, NEW tab \in Tabs, NEW r \in Refreshes, AwaitRefresh(tab, r)
    PROVE  /\ refresh' \in [Tabs -> [Refreshes -> RefreshState]]
           /\ inFlight' \in [Tabs -> 0 .. MaxRefreshes]
<1> USE DEF SessionTypeOK
<1>1. CASE refresh[tab][r].pc = "unused"
  <2> DEFINE x == refresh[tab][r]
  <2>1. [x EXCEPT !.pc = "asked"] \in RefreshState
    <3>1. x \in RefreshState
      OBVIOUS
    <3>2. [pc |-> "asked", token |-> x.token] \in RefreshState
      BY <3>1 DEF RefreshState
    <3> QED BY <3>1, <3>2, AskedTyped
  <2>2. [refresh[tab] EXCEPT ![r] = [refresh[tab][r] EXCEPT !.pc = "asked"]]
          \in [Refreshes -> RefreshState]
    BY <2>1
  <2>3. r \in 0 .. MaxRefreshes
    BY SlotTyped
  <2>4. /\ refresh' = [refresh EXCEPT ![tab] =
                          [refresh[tab] EXCEPT ![r] =
                             [refresh[tab][r] EXCEPT !.pc = "asked"]]]
        /\ inFlight' = [inFlight EXCEPT ![tab] = r]
    BY <1>1 DEF AwaitRefresh
  <2> QED BY <2>2, <2>3, <2>4
<1>2. CASE refresh[tab][r].pc # "unused"
  BY <1>2 DEF AwaitRefresh
<1> QED BY <1>1, <1>2

LEMMA AnswerTyped ==
    ASSUME SessionTypeOK, NEW tab \in Tabs, NEW r \in Refreshes, NEW n \in Token,
           AnswerRefresh(tab, r, n)
    PROVE  refresh' \in [Tabs -> [Refreshes -> RefreshState]]
<1>1. [pc |-> "answered", token |-> n] \in RefreshState
  BY DEF RefreshState
<1> QED BY <1>1 DEF SessionTypeOK, AnswerRefresh

LEMMA OverTyped ==
    ASSUME SessionTypeOK, NEW tab \in Tabs, NEW r \in Refreshes, RefreshOver(tab, r)
    PROVE  /\ refresh' \in [Tabs -> [Refreshes -> RefreshState]]
           /\ inFlight' \in [Tabs -> 0 .. MaxRefreshes]
BY UnusedTyped, ZeroTyped DEF SessionTypeOK, RefreshOver

LEMMA GoesOnTyped ==
    ASSUME SessionTypeOK, NEW c \in ApiCalls, Open(c), NEW p \in {"first", "second"},
           NEW s \in Life \cup {"none"}
    PROVE  /\ GoesOn(c, p, s) \in ApiState
           /\ GoesOn(c, p, s).pc = p /\ GoesOn(c, p, s).sent = s
           /\ GoesOn(c, p, s).tab = api[c].tab
<1> DEFINE x == api[c]
<1>1. x \in [pc : {"renewing", "first", "refused", "second"}, tab : Tabs,
             on : 0 .. MaxRefreshes, sent : Life \cup {"none"}]
  BY UnusedTyped DEF SessionTypeOK, ApiState, Open
<1> HIDE DEF x
<1>2. LET y == [x EXCEPT !.pc = p, !.on = 0, !.sent = s]
      IN  y \in ApiState /\ y.pc = p /\ y.tab = x.tab /\ y.on = 0 /\ y.sent = s
  BY <1>1, ZeroTyped DEF ApiState
<1> QED BY <1>2 DEF GoesOn, x

LEMMA ResumedTyped ==
    ASSUME SessionTypeOK, NEW c \in ApiCalls, Open(c), NEW n \in Token
    PROVE  Resumed(c, n) \in ApiState
<1>1. api[c] \in ApiState /\ n.life \in Life \cup {"none"}
  BY TokenCases DEF SessionTypeOK
<1>2. CASE api[c].pc = "renewing"
  <2> DEFINE sent == IF n = NoToken THEN api[c].sent ELSE n.life
  <2>1. sent \in Life \cup {"none"}
    BY <1>1, CallFields
  <2>2. Resumed(c, n) = GoesOn(c, "first", sent)
    BY <1>2 DEF Resumed
  <2> HIDE DEF sent
  <2> QED BY <2>1, <2>2, GoesOnTyped
<1>3. CASE api[c].pc # "renewing" /\ n # NoToken
  <2>1. Resumed(c, n) = GoesOn(c, "second", n.life)
    BY <1>3 DEF Resumed
  <2> QED BY <1>1, <1>3, <2>1, GoesOnTyped
<1>4. CASE api[c].pc # "renewing" /\ n = NoToken
  BY <1>4, UnusedTyped DEF Resumed
<1> QED BY <1>2, <1>3, <1>4

LEMMA MishapTyped ==
    ASSUME SessionTypeOK, NEW kind, Mishap(kind)
    PROVE  mishaps' \in 0 .. MaxMishaps
BY SessionAssumption DEF SessionAssumption, SessionTypeOK, Mishap

LEMMA SessionStartsTyped == SessionInit => SessionTypeOK
<1> SUFFICES ASSUME SessionInit PROVE SessionTypeOK
  OBVIOUS
<1> USE DEF SessionInit
<1>1. refresh \in [Tabs -> [Refreshes -> RefreshState]] /\ api \in [ApiCalls -> ApiState]
  BY UnusedTyped
<1>2. inFlight \in [Tabs -> 0 .. MaxRefreshes] /\ mishaps \in 0 .. MaxMishaps
  BY ZeroTyped
<1>3. stored \in Token
  BY UnusedTyped
<1> QED BY <1>1, <1>2, <1>3 DEF SessionTypeOK

LEMMA SessionStepTyped ==
    ASSUME SessionTypeOK, [SessionNext]_sessionVars
    PROVE  SessionTypeOK'
<1> USE UnusedTyped
<1> USE DEF SessionTypeOK
<1>1. CASE UNCHANGED sessionVars
  BY <1>1 DEF sessionVars
<1>2. ASSUME NEW tab \in Tabs, NEW r \in Refreshes, ServeRefresh(tab, r)
      PROVE  SessionTypeOK'
  <2>1. PICK n \in Token : AnswerRefresh(tab, r, n)
    BY <1>2, NewTyped DEF ServeRefresh
  <2>2. refresh' \in [Tabs -> [Refreshes -> RefreshState]]
    BY <2>1, AnswerTyped
  <2>3. mishaps' \in 0 .. MaxMishaps
    BY <1>2, MishapTyped DEF ServeRefresh
  <2> QED BY <1>2, <2>2, <2>3 DEF ServeRefresh
<1>3. ASSUME NEW tab \in Tabs, NEW r \in Refreshes, SettleRefresh(tab, r)
      PROVE  SessionTypeOK'
  <2>1. refresh[tab][r].token \in Token
    BY DEF RefreshState
  <2>2. /\ refresh' \in [Tabs -> [Refreshes -> RefreshState]]
        /\ inFlight' \in [Tabs -> 0 .. MaxRefreshes]
    BY <1>3, OverTyped DEF SettleRefresh
  <2>3. api' \in [ApiCalls -> ApiState]
    BY <1>3, <2>1, ResumedTyped DEF SettleRefresh, Waiting, Open
  <2>4. /\ stored' \in Token /\ told' \subseteq Tabs
        /\ place' \in [Tabs -> {"app", "routing", "leaving", "login"}]
    BY <1>3, <2>1 DEF SettleRefresh, TokenRemoved
  <2> QED BY <1>3, <2>2, <2>3, <2>4 DEF SettleRefresh
<1>4. ASSUME NEW c \in ApiCalls, CallAnswered(c)
      PROVE  SessionTypeOK'
  BY <1>4, MishapTyped DEF CallAnswered
<1>5. ASSUME NEW c \in ApiCalls, FirstRefusal(c)
      PROVE  SessionTypeOK'
  <2>1. PICK r \in Refreshes :
          /\ AwaitRefresh(api[c].tab, r)
          /\ api' = [api EXCEPT ![c].pc = "refused", ![c].on = r, ![c].sent = "none"]
    BY <1>5 DEF FirstRefusal
  <2>2. api[c].tab \in Tabs /\ api[c].pc # "unused"
    BY <1>5, CallFields DEF FirstRefusal
  <2>3. api' \in [ApiCalls -> ApiState]
    <3>1. api[c] \in ApiState
      OBVIOUS
    <3>2. [api[c] EXCEPT !.pc = "refused", !.on = r, !.sent = "none"] \in ApiState
      BY ZenonT(30), <2>2, <3>1, CallChanged, SlotTyped
    <3> QED BY <2>1, <3>2
  <2> QED BY <1>5, <2>1, <2>2, <2>3, AwaitTyped DEF FirstRefusal
<1>6. ASSUME NEW c \in ApiCalls, SecondRefusal(c)
      PROVE  SessionTypeOK'
  <2>1. api[c].tab \in Tabs
    BY <1>6, CallFields DEF SecondRefusal
  <2> QED BY <1>6, <2>1, MishapTyped DEF SecondRefusal, TokenRemoved
<1>7. ASSUME NEW c \in ApiCalls, NEW tab \in Tabs, CallApi(c, tab)
      PROVE  SessionTypeOK'
  <2>1. stored.life \in Life \cup {"none"}
    BY TokenCases
  <2>2. /\ refresh' \in [Tabs -> [Refreshes -> RefreshState]]
        /\ inFlight' \in [Tabs -> 0 .. MaxRefreshes]
    BY <1>7, AwaitTyped DEF CallApi
  <2>3. api' \in [ApiCalls -> ApiState]
    <3>1. CASE stored.life = "old"
      <4>1. PICK r \in Refreshes :
              api' = [api EXCEPT ![c] = [pc |-> "renewing", tab |-> tab, on |-> r,
                                         sent |-> stored.life]]
        BY <1>7, <3>1 DEF CallApi
      <4>2. [pc |-> "renewing", tab |-> tab, on |-> r, sent |-> stored.life] \in ApiState
        BY <2>1, CallTyped, SlotTyped
      <4> QED BY <4>1, <4>2
    <3>2. CASE stored.life # "old"
      <4>1. [pc |-> "first", tab |-> tab, on |-> 0, sent |-> stored.life] \in ApiState
        BY <2>1, CallTyped, ZeroTyped
      <4> QED BY <1>7, <3>2, <4>1 DEF CallApi
    <3> QED BY <3>1, <3>2
  <2> QED BY <1>7, <2>2, <2>3 DEF CallApi
<1>8. ASSUME NEW tab \in Tabs, NEW u \in Users, SignIn(tab, u)
      PROVE  SessionTypeOK'
  BY <1>8, NewTyped DEF SignIn, Issued
<1>9. ASSUME NEW tab \in Tabs, SignOut(tab)
      PROVE  SessionTypeOK'
  BY <1>9 DEF SignOut, TokenRemoved
<1>10. ASSUME NEW tab \in Tabs, OnStorage(tab)
       PROVE  SessionTypeOK'
  BY <1>10 DEF OnStorage
<1>11. ASSUME NEW tab \in Tabs, OpenLogin(tab)
       PROVE  SessionTypeOK'
  <2>1. place' \in [Tabs -> {"app", "routing", "leaving", "login"}]
    BY <1>11 DEF OpenLogin
  <2>2. /\ refresh' \in [Tabs -> [Refreshes -> RefreshState]]
        /\ inFlight' \in [Tabs -> 0 .. MaxRefreshes]
        /\ api' \in [ApiCalls -> ApiState]
    <3>1. [q \in Refreshes |-> UnusedRefresh] \in [Refreshes -> RefreshState]
      OBVIOUS
    <3>2. [d \in ApiCalls |-> IF api[d].tab = tab THEN UnusedCall ELSE api[d]]
            \in [ApiCalls -> ApiState]
      OBVIOUS
    <3> QED BY <1>11, <3>1, <3>2, ZeroTyped DEF OpenLogin
  <2> QED BY <1>11, <2>1, <2>2 DEF OpenLogin
<1>12. ASSUME NEW tab \in Tabs, OpenPage(tab)
       PROVE  SessionTypeOK'
  BY <1>12 DEF OpenPage
<1>13. CASE ClearCookie
  BY <1>13, MishapTyped DEF ClearCookie
<1>14. CASE TokenAges
  <2>1. stored' \in Token
    BY <1>14 DEF TokenAges, Token, NoToken, Life
  <2> QED BY <1>14, <2>1 DEF TokenAges
<1> QED BY <1>1, <1>2, <1>3, <1>4, <1>5, <1>6, <1>7, <1>8, <1>9, <1>10, <1>11,
           <1>12, <1>13, <1>14 DEF SessionNext

(* Type correctness of the session. *)
THEOREM SessionTyped == SessionSpec => []SessionTypeOK
BY SessionStartsTyped, SessionStepTyped, PTL DEF SessionSpec

-----------------------------------------------------------------------------
(* The steps that change a refresh, or the promise a tab keeps of it. *)
LEMMA RefreshSteps ==
    ASSUME SessionTypeOK, [SessionNext]_sessionVars
    PROVE  \/ UNCHANGED <<refresh, inFlight>>
           \/ \E tab \in Tabs, r \in Refreshes :
                AwaitRefresh(tab, r) \/ ServeRefresh(tab, r) \/ SettleRefresh(tab, r)
           \/ \E tab \in Tabs : OpenLogin(tab) /\ place[tab] = "leaving"
<1>1. CASE UNCHANGED sessionVars
  BY <1>1 DEF sessionVars
<1>2. ASSUME NEW c \in ApiCalls, FirstRefusal(c)
      PROVE  \E tab \in Tabs, r \in Refreshes : AwaitRefresh(tab, r)
  <2>1. api[c].tab \in Tabs
    BY <1>2, CallFields DEF SessionTypeOK, FirstRefusal
  <2> QED BY <1>2, <2>1 DEF FirstRefusal
<1>3. ASSUME NEW c \in ApiCalls, NEW tab \in Tabs, CallApi(c, tab)
      PROVE  \/ UNCHANGED <<refresh, inFlight>>
             \/ \E r \in Refreshes : AwaitRefresh(tab, r)
  BY <1>3 DEF CallApi
<1>4. ASSUME NEW c \in ApiCalls, CallAnswered(c) \/ SecondRefusal(c)
      PROVE  UNCHANGED <<refresh, inFlight>>
  BY <1>4 DEF CallAnswered, SecondRefusal
<1>5. ASSUME NEW tab \in Tabs,
             \/ SignOut(tab) \/ OnStorage(tab) \/ OpenPage(tab)
             \/ \E u \in Users : SignIn(tab, u)
      PROVE  UNCHANGED <<refresh, inFlight>>
  BY <1>5 DEF SignOut, OnStorage, OpenPage, SignIn
<1>6. ASSUME NEW tab \in Tabs, OpenLogin(tab), place[tab] # "leaving"
      PROVE  UNCHANGED <<refresh, inFlight>>
  BY <1>6 DEF OpenLogin
<1>7. CASE ClearCookie \/ TokenAges
  BY <1>7 DEF ClearCookie, TokenAges
<1> QED BY <1>1, <1>2, <1>3, <1>4, <1>5, <1>6, <1>7 DEF SessionNext

(* What each of them does to every refresh of every tab. *)
LEMMA AwaitEffect ==
    ASSUME SessionTypeOK, NEW tab \in Tabs, NEW r \in Refreshes, AwaitRefresh(tab, r),
           NEW t \in Tabs, NEW q \in Refreshes
    PROVE  /\ refresh'[t][q].token = refresh[t][q].token
           /\ \/ refresh'[t][q].pc = refresh[t][q].pc
              \/ /\ t = tab /\ q = r
                 /\ refresh[t][q].pc = "unused" /\ refresh'[t][q].pc = "asked"
<1> USE DEF SessionTypeOK
<1>1. CASE refresh[tab][r].pc = "unused"
  <2>1. refresh' = [refresh EXCEPT ![tab] =
                      [refresh[tab] EXCEPT ![r] = [refresh[tab][r] EXCEPT !.pc = "asked"]]]
    BY <1>1 DEF AwaitRefresh
  <2>2. refresh[tab][r] \in RefreshState
    OBVIOUS
  <2>3. CASE t = tab /\ q = r
    <3>1. refresh'[t][q] = [pc |-> "asked", token |-> refresh[t][q].token]
      BY <2>1, <2>2, <2>3, AskedTyped
    <3> QED BY <1>1, <2>3, <3>1
  <2>4. CASE ~ (t = tab /\ q = r)
    BY <2>1, <2>4
  <2> QED BY <2>3, <2>4
<1>2. CASE refresh[tab][r].pc # "unused"
  BY <1>2 DEF AwaitRefresh
<1> QED BY <1>1, <1>2

LEMMA AnswerEffect ==
    ASSUME SessionTypeOK, NEW tab \in Tabs, NEW r \in Refreshes, NEW n,
           AnswerRefresh(tab, r, n), NEW t \in Tabs, NEW q \in Refreshes
    PROVE  /\ t = tab /\ q = r => /\ refresh'[t][q].pc = "answered"
                                 /\ refresh'[t][q].token = n
           /\ ~ (t = tab /\ q = r) => refresh'[t][q] = refresh[t][q]
BY DEF SessionTypeOK, AnswerRefresh

LEMMA ServeAnswers ==
    ASSUME SessionTypeOK, NEW tab \in Tabs, NEW r \in Refreshes, ServeRefresh(tab, r)
    PROVE  \E n \in {NoToken} \cup {New(u) : u \in Users} : AnswerRefresh(tab, r, n)
<1>1. CASE cookie = NoUser
  <2>1. AnswerRefresh(tab, r, NoToken)
    BY <1>1 DEF ServeRefresh
  <2> QED BY <2>1
<1>2. CASE cookie # NoUser
  <2>1. AnswerRefresh(tab, r, NoToken) \/ AnswerRefresh(tab, r, New(cookie))
    BY <1>2 DEF ServeRefresh
  <2>2. cookie \in Users
    BY <1>2 DEF SessionTypeOK
  <2> QED BY <2>1, <2>2
<1> QED BY <1>1, <1>2

LEMMA OverEffect ==
    ASSUME SessionTypeOK, NEW tab \in Tabs, NEW r \in Refreshes, RefreshOver(tab, r),
           NEW t \in Tabs, NEW q \in Refreshes
    PROVE  /\ refresh'[t][q] = IF t = tab /\ q = r THEN UnusedRefresh ELSE refresh[t][q]
           /\ inFlight'[t] = IF t = tab THEN 0 ELSE inFlight[t]
BY DEF SessionTypeOK, RefreshOver

LEMMA LeavingEffect ==
    ASSUME SessionTypeOK, NEW tab \in Tabs, OpenLogin(tab), place[tab] = "leaving",
           NEW t \in Tabs, NEW q \in Refreshes
    PROVE  /\ refresh'[t][q] = IF t = tab THEN UnusedRefresh ELSE refresh[t][q]
           /\ inFlight'[t] = IF t = tab THEN 0 ELSE inFlight[t]
BY DEF SessionTypeOK, OpenLogin

(* The promise a tab keeps is the one refresh of its own that is not over. *)
LEMMA FlightStep ==
    ASSUME SessionTypeOK, FlightIsPending, [SessionNext]_sessionVars
    PROVE  FlightIsPending'
<1> SUFFICES ASSUME NEW t \in Tabs, NEW q \in Refreshes
             PROVE  (refresh'[t][q].pc # "unused") <=> (inFlight'[t] = q)
  BY DEF FlightIsPending, Pending
<1>0. /\ (refresh[t][q].pc # "unused") <=> (inFlight[t] = q)
      /\ q # 0
  BY SlotTyped DEF FlightIsPending, Pending
<1>1. CASE UNCHANGED <<refresh, inFlight>>
  BY <1>0, <1>1
<1>2. ASSUME NEW tab \in Tabs, NEW r \in Refreshes, AwaitRefresh(tab, r)
      PROVE  (refresh'[t][q].pc # "unused") <=> (inFlight'[t] = q)
  <2>1. (refresh[tab][r].pc # "unused") <=> (inFlight[tab] = r)
    BY DEF FlightIsPending, Pending
  <2>2. CASE refresh[tab][r].pc = "unused"
    <3>1. inFlight[tab] = 0
      BY <1>2, <2>1, <2>2 DEF AwaitRefresh, JoinRefresh
    <3>2. inFlight' = [inFlight EXCEPT ![tab] = r]
      BY <1>2, <2>2 DEF AwaitRefresh
    <3>3. inFlight'[t] = IF t = tab THEN r ELSE inFlight[t]
      BY <3>2 DEF SessionTypeOK
    <3>4. refresh'[tab][r].pc = "asked"
      <4>1. refresh' = [refresh EXCEPT ![tab][r].pc = "asked"]
        BY <1>2, <2>2 DEF AwaitRefresh
      <4> QED BY <4>1, AskedTyped DEF SessionTypeOK, RefreshState
    <3> QED BY <1>0, <1>2, <2>2, <3>1, <3>3, <3>4, AwaitEffect
  <2>3. CASE refresh[tab][r].pc # "unused"
    BY <1>0, <1>2, <2>3 DEF AwaitRefresh
  <2> QED BY <2>2, <2>3
<1>3. ASSUME NEW tab \in Tabs, NEW r \in Refreshes, ServeRefresh(tab, r)
      PROVE  (refresh'[t][q].pc # "unused") <=> (inFlight'[t] = q)
  <2>1. PICK n : AnswerRefresh(tab, r, n)
    BY <1>3 DEF ServeRefresh
  <2>2. refresh[tab][r].pc = "asked" /\ UNCHANGED inFlight
    BY <1>3 DEF ServeRefresh
  <2>3. (refresh'[t][q].pc # "unused") <=> (refresh[t][q].pc # "unused")
    BY <2>1, <2>2, AnswerEffect
  <2> QED BY <1>0, <2>2, <2>3
<1>4. ASSUME NEW tab \in Tabs, NEW r \in Refreshes, SettleRefresh(tab, r)
      PROVE  (refresh'[t][q].pc # "unused") <=> (inFlight'[t] = q)
  <2>1. RefreshOver(tab, r) /\ refresh[tab][r].pc = "answered"
    BY <1>4 DEF SettleRefresh, RefreshOver
  <2>2. inFlight[tab] = r
    BY <2>1 DEF FlightIsPending, Pending
  <2> QED BY <1>0, <2>1, <2>2, OverEffect, UnusedTyped
<1>5. ASSUME NEW tab \in Tabs, OpenLogin(tab), place[tab] = "leaving"
      PROVE  (refresh'[t][q].pc # "unused") <=> (inFlight'[t] = q)
  BY <1>0, <1>5, LeavingEffect, UnusedTyped
<1> QED BY <1>1, <1>2, <1>3, <1>4, <1>5, RefreshSteps

(* A refresh holds a token only once it is answered, and then a new one. *)
LEMMA TokensStep ==
    ASSUME SessionTypeOK, TokensAreNew, [SessionNext]_sessionVars
    PROVE  TokensAreNew'
<1> DEFINE Fresh(x) ==
             /\ x.token \in {NoToken} \cup {New(u) : u \in Users}
             /\ x.pc # "answered" => x.token = NoToken
<1> SUFFICES ASSUME NEW t \in Tabs, NEW q \in Refreshes
             PROVE  Fresh(refresh'[t][q])
  BY DEF TokensAreNew, NoToken, New
<1>0. Fresh(refresh[t][q])
  BY DEF TokensAreNew
<1>1. CASE UNCHANGED <<refresh, inFlight>>
  BY <1>0, <1>1
<1>2. ASSUME NEW tab \in Tabs, NEW r \in Refreshes, AwaitRefresh(tab, r)
      PROVE  Fresh(refresh'[t][q])
  BY <1>0, <1>2, AwaitEffect
<1>3. ASSUME NEW tab \in Tabs, NEW r \in Refreshes, ServeRefresh(tab, r)
      PROVE  Fresh(refresh'[t][q])
  <2>1. PICK n \in {NoToken} \cup {New(u) : u \in Users} : AnswerRefresh(tab, r, n)
    BY <1>3, ServeAnswers
  <2>2. CASE t = tab /\ q = r
    BY <2>1, <2>2, AnswerEffect
  <2>3. CASE ~ (t = tab /\ q = r)
    BY <1>0, <2>1, <2>3, AnswerEffect
  <2> QED BY <2>2, <2>3
<1>4. ASSUME NEW tab \in Tabs, NEW r \in Refreshes, SettleRefresh(tab, r)
      PROVE  Fresh(refresh'[t][q])
  <2>1. RefreshOver(tab, r)
    BY <1>4 DEF SettleRefresh
  <2> QED BY <1>0, <2>1, OverEffect, UnusedTyped
<1>5. ASSUME NEW tab \in Tabs, OpenLogin(tab), place[tab] = "leaving"
      PROVE  Fresh(refresh'[t][q])
  BY <1>0, <1>5, LeavingEffect, UnusedTyped
<1> QED BY <1>1, <1>2, <1>3, <1>4, <1>5, RefreshSteps

(* A retry carries a token that was just issued. *)
LEMMA RetryStep ==
    ASSUME SessionTypeOK, TokensAreNew, RetryIsFresh, [SessionNext]_sessionVars
    PROVE  RetryIsFresh'
<1> SUFFICES ASSUME NEW d \in ApiCalls, api'[d].pc = "second"
             PROVE  api'[d].sent = "good"
  BY DEF RetryIsFresh
<1>0. api[d].pc = "second" => api[d].sent = "good"
  BY DEF RetryIsFresh
<1>1. CASE UNCHANGED api
  BY <1>0, <1>1
<1>2. ASSUME NEW tab \in Tabs, NEW r \in Refreshes, SettleRefresh(tab, r)
      PROVE  api'[d].sent = "good"
  <2> DEFINE n == refresh[tab][r].token
  <2>1. n \in Token /\ (n # NoToken => n.life = "good")
    BY NewTyped DEF SessionTypeOK, RefreshState, TokensAreNew
  <2>2. api'[d] = IF Waiting(d, tab, r) THEN Resumed(d, n) ELSE api[d]
    BY <1>2 DEF SettleRefresh, SessionTypeOK
  <2> HIDE DEF n
  <2>3. n.life \in Life \cup {"none"} /\ api[d].sent \in Life \cup {"none"}
    BY <2>1, TokenCases, CallFields DEF SessionTypeOK
  <2>4. CASE Waiting(d, tab, r) /\ api[d].pc = "renewing"
    <3>1. Resumed(d, n) = GoesOn(d, "first", IF n = NoToken THEN api[d].sent ELSE n.life)
      BY <2>4 DEF Resumed
    <3>2. Resumed(d, n).pc = "first"
      BY <2>3, <2>4, <3>1, GoesOnTyped DEF Open, Waiting
    <3> QED BY <2>2, <2>4, <3>2
  <2>5. CASE Waiting(d, tab, r) /\ api[d].pc # "renewing" /\ n # NoToken
    <3>1. Resumed(d, n) = GoesOn(d, "second", n.life)
      BY <2>5 DEF Resumed
    <3>2. Resumed(d, n).sent = n.life
      BY <2>3, <2>5, <3>1, GoesOnTyped DEF Open, Waiting
    <3> QED BY <2>1, <2>2, <2>5, <3>2
  <2>6. CASE Waiting(d, tab, r) /\ api[d].pc # "renewing" /\ n = NoToken
    <3>1. Resumed(d, n) = UnusedCall
      BY <2>6 DEF Resumed
    <3> QED BY <2>2, <2>6, <3>1, UnusedTyped
  <2>7. CASE ~ Waiting(d, tab, r)
    BY <1>0, <2>2, <2>7
  <2> QED BY <2>4, <2>5, <2>6, <2>7
<1>3. ASSUME NEW c \in ApiCalls, CallAnswered(c) \/ SecondRefusal(c)
      PROVE  api'[d].sent = "good"
  <2>1. api' = [api EXCEPT ![c] = UnusedCall]
    BY <1>3 DEF CallAnswered, SecondRefusal
  <2> QED BY <1>0, <2>1, UnusedTyped DEF SessionTypeOK
<1>4. ASSUME NEW c \in ApiCalls, FirstRefusal(c)
      PROVE  api'[d].sent = "good"
  <2>1. PICK r \in Refreshes :
          api' = [api EXCEPT ![c].pc = "refused", ![c].on = r, ![c].sent = "none"]
    BY <1>4 DEF FirstRefusal
  <2>2. c = d => api'[d].pc = "refused"
    <3>1. api[c] \in ApiState
      BY DEF SessionTypeOK
    <3>2. [api[c] EXCEPT !.pc = "refused", !.on = r, !.sent = "none"].pc = "refused"
      BY <3>1, SlotTyped DEF ApiState
    <3>3. api'[c] = [api[c] EXCEPT !.pc = "refused", !.on = r, !.sent = "none"]
      BY <2>1 DEF SessionTypeOK
    <3> QED BY <3>2, <3>3
  <2>3. c # d => api'[d] = api[d]
    BY <2>1 DEF SessionTypeOK
  <2> QED BY <1>0, <2>2, <2>3
<1>5. ASSUME NEW c \in ApiCalls, NEW tab \in Tabs, CallApi(c, tab)
      PROVE  api'[d].sent = "good"
  <2>1. PICK x : /\ api' = [api EXCEPT ![c] = x]
                 /\ x.pc # "second"
    <3>1. CASE stored.life = "old"
      <4>1. PICK r \in Refreshes :
              api' = [api EXCEPT ![c] = [pc |-> "renewing", tab |-> tab, on |-> r,
                                         sent |-> stored.life]]
        BY <1>5, <3>1 DEF CallApi
      <4> DEFINE x == [pc |-> "renewing", tab |-> tab, on |-> r, sent |-> stored.life]
      <4>2. x.pc # "second"
        OBVIOUS
      <4>3. api' = [api EXCEPT ![c] = x]
        BY <4>1
      <4> HIDE DEF x
      <4> QED BY <4>2, <4>3
    <3>2. CASE stored.life # "old"
      <4>1. api' = [api EXCEPT ![c] = [pc |-> "first", tab |-> tab, on |-> 0,
                                       sent |-> stored.life]]
        BY <1>5, <3>2 DEF CallApi
      <4> DEFINE x == [pc |-> "first", tab |-> tab, on |-> 0, sent |-> stored.life]
      <4>2. x.pc # "second"
        OBVIOUS
      <4>3. api' = [api EXCEPT ![c] = x]
        BY <4>1
      <4> HIDE DEF x
      <4> QED BY <4>2, <4>3
    <3> QED BY <3>1, <3>2
  <2> QED BY <1>0, <2>1 DEF SessionTypeOK
<1>6. ASSUME NEW tab \in Tabs, OpenLogin(tab)
      PROVE  api'[d].sent = "good"
  <2>1. api'[d] = api[d] \/ api'[d] = UnusedCall
    BY <1>6 DEF OpenLogin, SessionTypeOK
  <2> QED BY <1>0, <2>1, UnusedTyped
<1>7. \/ UNCHANGED api
      \/ \E c \in ApiCalls : CallAnswered(c) \/ SecondRefusal(c) \/ FirstRefusal(c)
      \/ \E c \in ApiCalls, tab \in Tabs : CallApi(c, tab)
      \/ \E tab \in Tabs : OpenLogin(tab)
      \/ \E tab \in Tabs, r \in Refreshes : SettleRefresh(tab, r)
  <2>1. \/ UNCHANGED sessionVars \/ ClearCookie \/ TokenAges
        \/ \E tab \in Tabs, r \in Refreshes : ServeRefresh(tab, r)
        \/ \E tab \in Tabs, u \in Users : SignIn(tab, u)
        \/ \E tab \in Tabs : SignOut(tab) \/ OnStorage(tab) \/ OpenPage(tab)
        => UNCHANGED api
    BY DEF sessionVars, ClearCookie, TokenAges, ServeRefresh, SignIn, SignOut, OnStorage,
           OpenPage
  <2> QED BY <2>1 DEF SessionNext
<1> QED BY <1>1, <1>2, <1>3, <1>4, <1>5, <1>6, <1>7

(* Only a refresh that is answered, a sign in and the clock put a token somewhere; the
   other steps leave the tokens where they are, or drop them. *)
LEMMA NothingComes ==
    ASSUME SessionTypeOK, NoTokenLeft, [SessionNext]_sessionVars,
           ~ \E tab \in Tabs, u \in Users : SignIn(tab, u),
           ~ \E tab \in Tabs, r \in Refreshes : ServeRefresh(tab, r)
    PROVE  NoTokenLeft'
<1>a. NoToken.life = "none" /\ UnusedRefresh.token = NoToken
  BY UnusedTyped
<1>1. stored' = NoToken
  <2>1. ASSUME NEW tab \in Tabs, NEW r \in Refreshes, SettleRefresh(tab, r)
        PROVE  stored' = NoToken
    BY <2>1 DEF SettleRefresh, TokenRemoved, NoTokenLeft
  <2> QED BY <1>a, <2>1 DEF SessionNext, sessionVars, NoTokenLeft, CallAnswered, FirstRefusal,
             SecondRefusal, CallApi, SignOut, TokenRemoved, OnStorage, OpenLogin, OpenPage,
             ClearCookie, TokenAges
<1>2. ASSUME NEW t \in Tabs, NEW q \in Refreshes
      PROVE  refresh'[t][q].token = NoToken
  <2>0. refresh[t][q].token = NoToken
    BY DEF NoTokenLeft
  <2>1. CASE UNCHANGED refresh
    BY <2>0, <2>1
  <2>2. ASSUME NEW tab \in Tabs, NEW r \in Refreshes, SettleRefresh(tab, r)
        PROVE  refresh'[t][q].token = NoToken
    <3>1. RefreshOver(tab, r)
      BY <2>2 DEF SettleRefresh
    <3> QED BY <1>a, <2>0, <3>1, OverEffect
  <2>3. ASSUME NEW tab \in Tabs, NEW r \in Refreshes, AwaitRefresh(tab, r)
        PROVE  refresh'[t][q].token = NoToken
    BY <2>0, <2>3, AwaitEffect
  <2>4. ASSUME NEW c \in ApiCalls, FirstRefusal(c)
        PROVE  refresh'[t][q].token = NoToken
    <3>1. \E tab \in Tabs, r \in Refreshes : AwaitRefresh(tab, r)
      BY <2>4, CallFields DEF FirstRefusal, SessionTypeOK
    <3> QED BY <2>3, <3>1
  <2>5. ASSUME NEW c \in ApiCalls, NEW tab \in Tabs, CallApi(c, tab)
        PROVE  refresh'[t][q].token = NoToken
    <3>1. UNCHANGED refresh \/ \E r \in Refreshes : AwaitRefresh(tab, r)
      BY <2>5 DEF CallApi
    <3> QED BY <2>1, <2>3, <3>1
  <2>6. ASSUME NEW tab \in Tabs, OpenLogin(tab)
        PROVE  refresh'[t][q].token = NoToken
    <3>1. CASE place[tab] = "leaving"
      BY <1>a, <2>0, <2>6, <3>1, LeavingEffect
    <3>2. CASE place[tab] # "leaving"
      BY <2>1, <2>6, <3>2 DEF OpenLogin
    <3> QED BY <3>1, <3>2
  <2>7. \/ UNCHANGED sessionVars \/ ClearCookie \/ TokenAges
        \/ \E c \in ApiCalls : CallAnswered(c) \/ SecondRefusal(c)
        \/ \E tab \in Tabs : SignOut(tab) \/ OnStorage(tab) \/ OpenPage(tab)
        => UNCHANGED refresh
    BY DEF sessionVars, ClearCookie, TokenAges, CallAnswered, SecondRefusal, SignOut,
           OnStorage, OpenPage
  <2> QED BY <2>1, <2>2, <2>4, <2>5, <2>6, <2>7 DEF SessionNext
<1> QED BY <1>1, <1>2 DEF NoTokenLeft

(* Without a cookie no refresh brings a token; with none left nobody gets one back. *)
LEMMA NobodyStep ==
    ASSUME SessionTypeOK, HeldByHolder, [SessionNext]_sessionVars, holder' = NoUser
    PROVE  NoTokenLeft' /\ cookie' = NoUser
<1>a. NoUser \notin Users /\ Unknown # NoUser
  BY SessionAssumption DEF SessionAssumption
<1>1. ASSUME NEW tab \in Tabs, NEW u \in Users, SignIn(tab, u)
      PROVE  FALSE
  BY <1>1, <1>a DEF SignIn
<1>2. ASSUME NEW tab \in Tabs, SignOut(tab)
      PROVE  FALSE
  BY <1>2, <1>a DEF SignOut
<1>3. CASE ClearCookie /\ UNCHANGED holder
  <2>1. NoTokenLeft /\ cookie = NoUser
    BY <1>3 DEF HeldByHolder
  <2> QED BY <1>3, <2>1 DEF ClearCookie, NoTokenLeft
<1>4. CASE ClearCookie /\ holder' # holder
  <2>1. NoTokenLeft /\ cookie' = NoUser
    BY <1>4, <1>a DEF ClearCookie
  <2> QED BY <1>4, <2>1 DEF ClearCookie, NoTokenLeft
<1>5. CASE ~ ClearCookie
  <2>1. UNCHANGED holder
    BY <1>1, <1>2, <1>5 DEF SessionNext, sessionVars, ServeRefresh, SettleRefresh, CallAnswered,
       FirstRefusal, SecondRefusal, CallApi, OnStorage, OpenLogin, OpenPage, TokenAges
  <2>2. NoTokenLeft /\ cookie = NoUser
    BY <2>1 DEF HeldByHolder
  <2>3. ASSUME NEW tab \in Tabs, NEW r \in Refreshes, ServeRefresh(tab, r)
        PROVE  NoTokenLeft' /\ cookie' = NoUser
    <3>1. AnswerRefresh(tab, r, NoToken) /\ cookie' = NoUser /\ UNCHANGED stored
      BY <2>2, <2>3 DEF ServeRefresh
    <3>2. \A t \in Tabs, q \in Refreshes : refresh'[t][q].token = NoToken
      BY <2>2, <3>1, AnswerEffect DEF NoTokenLeft
    <3> QED BY <2>2, <3>1, <3>2 DEF NoTokenLeft
  <2>4. CASE ~ \E tab \in Tabs, r \in Refreshes : ServeRefresh(tab, r)
    <3>1. cookie' = NoUser
      BY <1>1, <1>5, <2>2, <2>4 DEF SessionNext, sessionVars, SettleRefresh, CallAnswered,
         FirstRefusal, SecondRefusal, CallApi, SignOut, OnStorage, OpenLogin, OpenPage, TokenAges
    <3>2. NoTokenLeft'
      BY <1>1, <2>2, <2>4, NothingComes
    <3> QED BY <3>1, <3>2
  <2> QED BY <2>3, <2>4
<1> QED BY <1>3, <1>4, <1>5

LEMMA SomebodyStep ==
    ASSUME SessionTypeOK, TokensAreNew, HeldByHolder, [SessionNext]_sessionVars,
           NEW u \in Users, holder' = u
    PROVE  Theirs(u)'
<1>a. u # NoUser /\ u # Unknown
  BY SessionAssumption DEF SessionAssumption
<1>b. holder = u => Theirs(u)
  BY DEF HeldByHolder
<1>c. UnusedRefresh.token.owner = NoUser /\ NoToken.owner = NoUser
  BY UnusedTyped
<1>1. CASE UNCHANGED sessionVars
  BY <1>1, <1>b DEF sessionVars, Theirs
<1>2. ASSUME NEW tab \in Tabs, NEW v \in Users, SignIn(tab, v)
      PROVE  Theirs(u)'
  <2>1. v = u /\ Idle /\ ~ clearing
    BY <1>2, <1>a DEF SignIn
  <2>2. \A t \in Tabs, q \in Refreshes : refresh[t][q].token = NoToken
    BY <2>1 DEF Idle, Pending, TokensAreNew
  <2>3. stored'.owner = u /\ cookie' = u
    BY <1>2, <2>1, NewTyped DEF SignIn, Issued
  <2>4. UNCHANGED <<refresh, clearing>>
    BY <1>2 DEF SignIn
  <2>5. \A t \in Tabs, q \in Refreshes : refresh'[t][q].token.owner = NoUser
    BY <1>c, <2>2, <2>4
  <2> QED BY <2>1, <2>3, <2>4, <2>5 DEF Theirs
<1>3. ASSUME NEW tab \in Tabs, SignOut(tab)
      PROVE  FALSE
  BY <1>3, <1>a DEF SignOut
<1>4. ASSUME NEW c \in ApiCalls, NEW tab \in Tabs, CallApi(c, tab)
      PROVE  Theirs(u)'
  <2>1. Theirs(u) /\ UNCHANGED <<stored, cookie, clearing>>
    BY <1>4, <1>a, <1>b DEF CallApi
  <2>2. UNCHANGED refresh \/ \E r \in Refreshes : AwaitRefresh(tab, r)
    BY <1>4 DEF CallApi
  <2>3. \A t \in Tabs, q \in Refreshes : refresh'[t][q].token = refresh[t][q].token
    BY <2>2, AwaitEffect
  <2> QED BY <2>1, <2>3 DEF Theirs
<1>5. ASSUME NEW c \in ApiCalls, FirstRefusal(c)
      PROVE  Theirs(u)'
  <2>1. Theirs(u) /\ UNCHANGED <<stored, cookie, clearing>>
    BY <1>5, <1>b DEF FirstRefusal
  <2>2. \E tab \in Tabs, r \in Refreshes : AwaitRefresh(tab, r)
    BY <1>5, CallFields DEF FirstRefusal, SessionTypeOK
  <2>3. \A t \in Tabs, q \in Refreshes : refresh'[t][q].token = refresh[t][q].token
    BY <2>2, AwaitEffect
  <2> QED BY <2>1, <2>3 DEF Theirs
<1>6. ASSUME NEW tab \in Tabs, NEW r \in Refreshes, ServeRefresh(tab, r)
      PROVE  Theirs(u)'
  <2>1. Theirs(u) /\ UNCHANGED <<stored, clearing>>
    BY <1>6, <1>b DEF ServeRefresh
  <2>2. cookie' \in {u, NoUser}
    BY <1>6, <2>1 DEF ServeRefresh, Theirs
  <2>3. PICK n : AnswerRefresh(tab, r, n) /\ n.owner \in {u, NoUser}
    <3>1. CASE cookie = NoUser
      BY <1>6, <1>c, <3>1 DEF ServeRefresh
    <3>2. CASE cookie = u
      BY <1>6, <1>a, <1>c, <3>2, NewTyped DEF ServeRefresh
    <3> QED BY <2>1, <3>1, <3>2 DEF Theirs
  <2>4. ASSUME NEW t \in Tabs, NEW q \in Refreshes
        PROVE  refresh'[t][q].token.owner \in {u, NoUser}
    <3>1. CASE t = tab /\ q = r
      BY <2>3, <3>1, AnswerEffect
    <3>2. CASE ~ (t = tab /\ q = r)
      BY <2>1, <2>3, <3>2, AnswerEffect DEF Theirs
    <3> QED BY <3>1, <3>2
  <2> QED BY <2>1, <2>2, <2>4 DEF Theirs
<1>7. ASSUME NEW tab \in Tabs, NEW r \in Refreshes, SettleRefresh(tab, r)
      PROVE  Theirs(u)'
  <2>1. Theirs(u) /\ UNCHANGED <<cookie, clearing>>
    BY <1>7, <1>b DEF SettleRefresh
  <2>2. stored' \in {NoToken, stored, refresh[tab][r].token}
    BY <1>7 DEF SettleRefresh, TokenRemoved
  <2>3. RefreshOver(tab, r)
    BY <1>7 DEF SettleRefresh
  <2>4. ASSUME NEW t \in Tabs, NEW q \in Refreshes
        PROVE  refresh'[t][q].token.owner \in {u, NoUser}
    BY <1>c, <2>1, <2>3, OverEffect DEF Theirs
  <2> QED BY <1>c, <2>1, <2>2, <2>4 DEF Theirs
<1>8. ASSUME NEW tab \in Tabs, OpenLogin(tab)
      PROVE  Theirs(u)'
  <2>1. Theirs(u) /\ UNCHANGED <<stored, cookie, clearing>>
    BY <1>8, <1>b DEF OpenLogin
  <2>2. ASSUME NEW t \in Tabs, NEW q \in Refreshes
        PROVE  refresh'[t][q].token.owner \in {u, NoUser}
    <3>1. CASE place[tab] = "leaving"
      BY <1>8, <1>c, <2>1, <3>1, LeavingEffect DEF Theirs
    <3>2. CASE place[tab] # "leaving"
      BY <1>8, <2>1, <3>2 DEF OpenLogin, Theirs
    <3> QED BY <3>1, <3>2
  <2> QED BY <2>1, <2>2 DEF Theirs
<1>9. ASSUME \/ \E c \in ApiCalls : CallAnswered(c) \/ SecondRefusal(c)
             \/ \E tab \in Tabs : OnStorage(tab) \/ OpenPage(tab)
      PROVE  Theirs(u)'
  <2>1. Theirs(u)
    BY <1>9, <1>b DEF CallAnswered, SecondRefusal, OnStorage, OpenPage
  <2>2. UNCHANGED <<cookie, clearing, refresh>> /\ stored' \in {stored, NoToken}
    BY <1>9 DEF CallAnswered, SecondRefusal, OnStorage, OpenPage, TokenRemoved
  <2> QED BY <1>c, <2>1, <2>2 DEF Theirs
<1>10. CASE ClearCookie
  <2>1. holder = u
    BY <1>10, <1>a DEF ClearCookie
  <2> QED BY <1>10, <1>b, <2>1 DEF ClearCookie, Theirs
<1>11. CASE TokenAges
  <2>1. Theirs(u) /\ UNCHANGED <<cookie, clearing, refresh>>
    BY <1>11, <1>b DEF TokenAges
  <2>2. stored'.owner = stored.owner
    BY <1>11 DEF TokenAges, SessionTypeOK, Token, NoToken
  <2> QED BY <2>1, <2>2 DEF Theirs
<1> QED BY <1>1, <1>2, <1>3, <1>4, <1>5, <1>6, <1>7, <1>8, <1>9, <1>10, <1>11
        DEF SessionNext

LEMMA HeldStep ==
    ASSUME SessionTypeOK, TokensAreNew, HeldByHolder, [SessionNext]_sessionVars
    PROVE  HeldByHolder'
BY NobodyStep, SomebodyStep DEF HeldByHolder

(* Without faults the cookie of the holder lives, and every refresh brings a token. *)
LEMMA CookieStep ==
    ASSUME SessionTypeOK, TokensAreNew, HeldByHolder, CookieLives, [SessionNext]_sessionVars
    PROVE  CookieLives'
<1> SUFFICES ASSUME mishaps' = 0, NEW u \in Users, holder' = u
             PROVE  /\ cookie' = u
                    /\ \A t \in Tabs, q \in Refreshes :
                         refresh'[t][q].pc = "answered" => refresh'[t][q].token # NoToken
  BY DEF CookieLives
<1>a. u # NoUser /\ u # Unknown
  BY SessionAssumption DEF SessionAssumption
<1>b. mishaps = 0 /\ ~ \E kind : Mishap(kind)
  <2>1. mishaps \in Nat
    BY SessionAssumption DEF SessionTypeOK, SessionAssumption
  <2>2. ASSUME NEW kind, Mishap(kind)
        PROVE  FALSE
    BY <2>1, <2>2 DEF Mishap
  <2>3. mishaps' = mishaps \/ \E kind : Mishap(kind)
    BY DEF SessionNext, sessionVars, ServeRefresh, SettleRefresh, CallAnswered, FirstRefusal,
           SecondRefusal, CallApi, SignIn, SignOut, OnStorage, OpenLogin, OpenPage,
           ClearCookie, TokenAges
  <2> QED BY <2>2, <2>3
<1> DEFINE Brings(x) == x.pc = "answered" => x.token # NoToken
<1>c. holder = u => /\ cookie = u /\ ~ clearing
                    /\ \A t \in Tabs, q \in Refreshes : Brings(refresh[t][q])
  BY <1>b DEF CookieLives, HeldByHolder, Theirs
<1>1. CASE \E tab \in Tabs, v \in Users : SignIn(tab, v)
  <2>1. PICK tab \in Tabs : SignIn(tab, u)
    BY <1>1, <1>a DEF SignIn
  <2>2. Idle /\ UNCHANGED refresh /\ cookie' = u
    BY <2>1, <1>a DEF SignIn, Issued
  <2> QED BY <2>2 DEF Idle, Pending
<1>2. CASE ~ \E tab \in Tabs, v \in Users : SignIn(tab, v)
  <2>1. holder = u
    BY <1>2, <1>a DEF SessionNext, sessionVars, ServeRefresh, SettleRefresh, CallAnswered,
       FirstRefusal, SecondRefusal, CallApi, SignOut, OnStorage, OpenLogin, OpenPage,
       ClearCookie, TokenAges
  <2>2. cookie' = cookie
    BY <1>b, <1>c, <1>2, <2>1 DEF SessionNext, sessionVars, ServeRefresh, SettleRefresh,
       CallAnswered, FirstRefusal, SecondRefusal, CallApi, SignOut, OnStorage, OpenLogin,
       OpenPage, ClearCookie, TokenAges
  <2>3. ASSUME NEW t \in Tabs, NEW q \in Refreshes
        PROVE  Brings(refresh'[t][q])
    <3>0. Brings(refresh[t][q])
      BY <1>c, <2>1
    <3>1. ASSUME NEW tab \in Tabs, NEW r \in Refreshes, AwaitRefresh(tab, r)
          PROVE  Brings(refresh'[t][q])
      BY <3>0, <3>1, AwaitEffect
    <3>2. ASSUME NEW tab \in Tabs, NEW r \in Refreshes, ServeRefresh(tab, r)
          PROVE  Brings(refresh'[t][q])
      <4>1. AnswerRefresh(tab, r, New(u)) /\ New(u) # NoToken
        BY <1>a, <1>b, <1>c, <2>1, <3>2, NewTyped DEF ServeRefresh
      <4> QED BY <3>0, <4>1, AnswerEffect
    <3>3. ASSUME NEW tab \in Tabs, NEW r \in Refreshes, SettleRefresh(tab, r)
          PROVE  Brings(refresh'[t][q])
      BY <3>0, <3>3, OverEffect, UnusedTyped DEF SettleRefresh
    <3>4. ASSUME NEW tab \in Tabs, OpenLogin(tab), place[tab] = "leaving"
          PROVE  Brings(refresh'[t][q])
      BY <3>0, <3>4, LeavingEffect, UnusedTyped
    <3> QED BY <3>0, <3>1, <3>2, <3>3, <3>4, RefreshSteps
  <2> QED BY <1>c, <2>1, <2>2, <2>3
<1> QED BY <1>1, <1>2

-----------------------------------------------------------------------------
LEMMA SessionStarts == SessionInit => SessionInv
<1> SUFFICES ASSUME SessionInit PROVE SessionInv
  OBVIOUS
<1>1. \A t \in Tabs, q \in Refreshes : /\ refresh[t][q] = UnusedRefresh
                                        /\ inFlight[t] = 0
  BY DEF SessionInit
<1>2. \A c \in ApiCalls : api[c] = UnusedCall
  BY DEF SessionInit
<1>3. FlightIsPending
  BY <1>1, UnusedTyped, SlotTyped DEF FlightIsPending, Pending
<1>4. TokensAreNew
  BY <1>1, UnusedTyped DEF TokensAreNew
<1>5. RetryIsFresh
  BY <1>2, UnusedTyped DEF RetryIsFresh
<1>6. holder = NoUser /\ stored = NoToken /\ NoUser \notin Users
  BY SessionAssumption DEF SessionInit, SessionAssumption
<1>7. HeldByHolder
  <2>1. NoTokenLeft /\ cookie = NoUser
    BY <1>6, UnusedTyped DEF SessionInit, NoTokenLeft
  <2> QED BY <1>6, <2>1 DEF HeldByHolder
<1>8. CookieLives
  BY <1>6 DEF CookieLives
<1> QED BY <1>3, <1>4, <1>5, <1>7, <1>8, SessionStartsTyped DEF SessionInv

LEMMA SessionStep == SessionInv /\ [SessionNext]_sessionVars => SessionInv'
BY SessionStepTyped, FlightStep, TokensStep, RetryStep, HeldStep, CookieStep
DEF SessionInv

(* The inductive invariant. *)
THEOREM SessionHolds == SessionSpec => []SessionInv
BY SessionStarts, SessionStep, PTL DEF SessionSpec

(* Concurrent callers share one request in flight, in every tab (auth.ts:117). *)
THEOREM OneRefresh == SessionSpec => []SingleFlight
<1>1. SessionInv => SingleFlight
  BY DEF SessionInv, FlightIsPending, SingleFlight
<1> QED BY <1>1, SessionHolds, PTL

(* A retry carries a token that was just issued (api.ts:230-234). *)
THEOREM RetriesFresh == SessionSpec => []RetryIsFresh
<1>1. SessionInv => RetryIsFresh
  BY DEF SessionInv
<1> QED BY <1>1, SessionHolds, PTL

(* Once the cookie of a sign out is cleared and no token is left or on its way, none is
   stored until somebody signs in, whatever the tabs call, renew and retry; and then it
   is that user's (auth.ts:37-49 and 119-138, signout/route.ts). *)
THEOREM SignedOut == SessionSpec => []SignedOutStays
<1>1. SessionInv => SignedOutStays
  <2> SUFFICES ASSUME SessionInv, stored # NoToken, holder # Unknown
               PROVE  stored.owner = holder
    BY DEF SignedOutStays
  <2>1. holder \in Users
    BY DEF SessionInv, SessionTypeOK, HeldByHolder, NoTokenLeft
  <2>2. stored.owner \in {holder, NoUser}
    BY <2>1 DEF SessionInv, HeldByHolder, Theirs
  <2>3. stored.owner # NoUser
    BY TokenCases DEF SessionInv, SessionTypeOK
  <2> QED BY <2>2, <2>3
<1> QED BY <1>1, SessionHolds, PTL

(* Without faults the token goes away only when the user signs out
   (api.ts:229-243, refresh/route.ts:41). *)
THEOREM SessionKept == SessionSpec => KeepsSession
<1>1. ASSUME SessionInv, SessionInv', [SessionNext]_sessionVars,
             stored # NoToken, stored' = NoToken, mishaps' = 0
      PROVE  holder' \in {NoUser, Unknown}
  <2> SUFFICES ASSUME holder' \notin {NoUser, Unknown}
               PROVE  FALSE
    OBVIOUS
  <2>1. holder' \in Users
    BY <1>1 DEF SessionInv, SessionTypeOK
  <2>2. mishaps \in Nat
    BY <1>1, SessionAssumption DEF SessionInv, SessionTypeOK, SessionAssumption
  <2>3. ASSUME NEW tab \in Tabs, NEW r \in Refreshes, SettleRefresh(tab, r)
        PROVE  FALSE
    <3>1. mishaps = 0 /\ holder \in Users
      BY <1>1, <2>1, <2>3 DEF SettleRefresh
    <3>2. refresh[tab][r].pc = "answered"
      BY <2>3 DEF SettleRefresh, RefreshOver
    <3>3. refresh[tab][r].token # NoToken
      BY <1>1, <3>1, <3>2 DEF SessionInv, CookieLives
    <3> QED BY <1>1, <2>3, <3>3 DEF SettleRefresh
  <2>4. ASSUME NEW c \in ApiCalls, SecondRefusal(c)
        PROVE  FALSE
    BY <1>1, <2>2, <2>4 DEF SecondRefusal, Mishap
  <2>5. ASSUME NEW tab \in Tabs, NEW u \in Users, SignIn(tab, u)
        PROVE  FALSE
    BY <1>1, <2>5, NewTyped DEF SignIn, Issued
  <2>6. ASSUME NEW tab \in Tabs, SignOut(tab)
        PROVE  FALSE
    BY <2>1, <2>6, SessionAssumption DEF SignOut, SessionAssumption
  <2>7. CASE TokenAges
    <3>1. stored'.life = "old"
      BY <1>1, <2>7 DEF TokenAges, SessionInv, SessionTypeOK, Token, NoToken
    <3> QED BY <1>1, <3>1, UnusedTyped
  <2>8. ASSUME \/ UNCHANGED sessionVars \/ ClearCookie
               \/ \E tab \in Tabs, r \in Refreshes : ServeRefresh(tab, r)
               \/ \E c \in ApiCalls : CallAnswered(c) \/ FirstRefusal(c)
               \/ \E c \in ApiCalls, tab \in Tabs : CallApi(c, tab)
               \/ \E tab \in Tabs : OnStorage(tab) \/ OpenLogin(tab) \/ OpenPage(tab)
        PROVE  FALSE
    <3>1. UNCHANGED stored
      BY <2>8 DEF sessionVars, ServeRefresh, CallAnswered, FirstRefusal, CallApi, OnStorage,
         OpenLogin, OpenPage, ClearCookie
    <3> QED BY <1>1, <3>1
  <2>9. SessionNext \/ UNCHANGED sessionVars
    BY <1>1
  <2> QED BY <2>3, <2>4, <2>5, <2>6, <2>7, <2>8, <2>9 DEF SessionNext
<1>2. SessionInv /\ SessionInv' /\ [SessionNext]_sessionVars
        => [stored # NoToken /\ stored' = NoToken /\ mishaps' = 0
              => holder' \in {NoUser, Unknown}]_sessionVars
  BY <1>1
<1> QED BY <1>2, SessionHolds, PTL DEF SessionSpec, KeepsSession
=============================================================================
