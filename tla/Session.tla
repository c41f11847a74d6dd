-------------------------------- MODULE Session --------------------------------
(***************************************************************************)
(* The session of a browser: the ID token in localStorage, shared by the   *)
(* tabs, the refresh token in an httpOnly cookie, and in every tab the API *)
(* calls (apiFetch), the single-flight refresh (refreshToken), sign in,    *)
(* sign out and the storage listener (AuthSync).                           *)
(*                                                                         *)
(* A token is its owner and its age: "good", or "old", within two minutes   *)
(* of its expiry or past it.  The API may refuse a good one too, as clocks  *)
(* differ.  A refresh is one POST /api/auth/refresh; inFlight is the       *)
(* promise a tab keeps in refreshInFlight, 0 for none.  The slots of calls *)
(* and refreshes that are over are used again.  A tab that replaces its    *)
(* location ("leaving") runs its callbacks until the next document loads;   *)
(* a tab that is routed ("routing") keeps them.                             *)
(*                                                                         *)
(* External: Cognito, which does not rotate refresh tokens.                *)
(* Faults: "refresh" fails a refresh, "signout" loses the request that     *)
(* clears the cookie, "revoked" ends the refresh token, "network" loses    *)
(* the answer of a call, "rejected" refuses a token just issued.           *)
(***************************************************************************)
EXTENDS Naturals

CONSTANTS
    Tabs,
    NoTab,         \* the tab of a call that is not made
    Users,
    NoUser,
    Unknown,       \* see holder
    MaxRefreshes,  \* bound: refresh requests of a tab at a time
    MaxCalls,      \* bound: API calls at a time
    SessionFaults, \* the faults this instance admits
    MaxMishaps     \* bound: faults

ASSUME SessionAssumption ==
    /\ NoUser \notin Users /\ Unknown \notin Users \cup {NoUser}
    /\ MaxRefreshes \in Nat /\ MaxCalls \in Nat
    /\ MaxMishaps \in Nat

VARIABLES
    stored,    \* the token in localStorage
    cookie,    \* whose refresh token the cookie holds
    place,     \* where each tab is
    told,      \* tabs with a pending storage event, the token removed
    refresh,   \* the refresh requests of each tab
    inFlight,  \* refreshInFlight of each tab
    api,       \* the API calls
    clearing,  \* a request that clears the cookie is under way
    mishaps,   \* how many faults occurred
    holder     \* history: who signed in last, nobody once the cookie of a sign out
               \* is cleared, unknown in between, after a sign in that overlapped
               \* something, and when a token was there as the cookie was cleared

sessionVars == <<stored, cookie, place, told, refresh, inFlight, api,
                 clearing, mishaps, holder>>

Refreshes == 1 .. MaxRefreshes
ApiCalls == 1 .. MaxCalls

Life == {"good", "old"}
NoToken == [owner |-> NoUser, life |-> "none"]
Token == [owner : Users, life : Life] \cup {NoToken}
New(u) == [owner |-> u, life |-> "good"]

RefreshState == [pc : {"unused", "asked", "answered"}, token : Token]
UnusedCall == [pc |-> "unused", tab |-> NoTab, on |-> 0, sent |-> "none"]
ApiState == [pc : {"renewing", "first", "refused", "second"},
             tab : Tabs, on : 0 .. MaxRefreshes, sent : Life \cup {"none"}]
            \cup {UnusedCall}

SessionTypeOK ==
    /\ stored \in Token
    /\ cookie \in Users \cup {NoUser}
    /\ place \in [Tabs -> {"app", "routing", "leaving", "login"}]
    /\ told \subseteq Tabs
    /\ refresh \in [Tabs -> [Refreshes -> RefreshState]]
    /\ inFlight \in [Tabs -> 0 .. MaxRefreshes]
    /\ api \in [ApiCalls -> ApiState]
    /\ clearing \in BOOLEAN
    /\ mishaps \in 0 .. MaxMishaps
    /\ holder \in Users \cup {NoUser, Unknown}

UnusedRefresh == [pc |-> "unused", token |-> NoToken]

SessionInit ==
    /\ stored = NoToken
    /\ cookie = NoUser
    /\ place = [t \in Tabs |-> "login"]
    /\ told = {}
    /\ refresh = [t \in Tabs |-> [r \in Refreshes |-> UnusedRefresh]]
    /\ inFlight = [t \in Tabs |-> 0]
    /\ api = [c \in ApiCalls |-> UnusedCall]
    /\ clearing = FALSE
    /\ mishaps = 0
    /\ holder = NoUser

Mishap(kind) ==
    /\ kind \in SessionFaults
    /\ mishaps < MaxMishaps
    /\ mishaps' = mishaps + 1

(* The bounds: the first slot that is free. *)
NextRefresh(tab, r) ==
    refresh[tab][r].pc = "unused" /\ \A q \in 1 .. r - 1 : refresh[tab][q].pc # "unused"
NextCall(c) == api[c].pc = "unused" /\ \A d \in 1 .. c - 1 : api[d].pc # "unused"

(* Removing the token: the other tabs get a storage event if there was one. *)
TokenRemoved(tab) ==
    /\ stored' = NoToken
    /\ told' = IF stored = NoToken THEN told ELSE told \cup (Tabs \ {tab})

Open(c) == api[c].pc # "unused"
Pending(tab, r) == refresh[tab][r].pc # "unused"
Idle ==
    /\ \A c \in ApiCalls : ~ Open(c)
    /\ \A tab \in Tabs, r \in Refreshes : ~ Pending(tab, r)

-----------------------------------------------------------------------------
(* refreshToken and POST /api/auth/refresh.                                  *)

(* The promise a caller awaits: the one in flight, or that of a new request. *)
OwnRefresh(tab, r) == NextRefresh(tab, r)                                \* mutant
JoinRefresh(tab, r) == IF inFlight[tab] # 0 THEN r = inFlight[tab]
                                            ELSE NextRefresh(tab, r)

AwaitRefresh(tab, r) ==
    /\ JoinRefresh(tab, r)
    /\ IF refresh[tab][r].pc = "unused"
       THEN /\ refresh' = [refresh EXCEPT ![tab][r].pc = "asked"]
            /\ inFlight' = [inFlight EXCEPT ![tab] = r]
       ELSE UNCHANGED <<refresh, inFlight>>

AnswerRefresh(tab, r, n) ==
    refresh' = [refresh EXCEPT ![tab][r] = [pc |-> "answered", token |-> n]]

RotateRefresh(tab, r) ==                                            \* mutant
    /\ refresh[tab][r].pc = "asked"
    /\ AnswerRefresh(tab, r, IF cookie = NoUser THEN NoToken ELSE New(cookie))
    /\ cookie' = IF \E t \in Tabs \ {tab}, q \in Refreshes : refresh[t][q].pc = "asked"
                 THEN NoUser ELSE cookie
    /\ UNCHANGED <<stored, place, told, inFlight, api, clearing, mishaps, holder>>
(* The route reads the cookie of the request and asks Cognito; a revoked refresh
   token makes it drop the cookie. *)
ServeRefresh(tab, r) ==
    /\ refresh[tab][r].pc = "asked"
    /\ \/ /\ AnswerRefresh(tab, r, IF cookie = NoUser THEN NoToken ELSE New(cookie))
          /\ UNCHANGED <<cookie, mishaps>>
       \/ /\ cookie # NoUser
          /\ Mishap("revoked")
          /\ cookie' = NoUser
          /\ AnswerRefresh(tab, r, NoToken)
       \/ /\ Mishap("refresh")
          /\ AnswerRefresh(tab, r, NoToken)
          /\ UNCHANGED cookie
    /\ UNCHANGED <<stored, place, told, inFlight, api, clearing, holder>>

(* The promise settles: the token is stored and every caller that awaited it goes
   on.  A caller that renewed in advance keeps the token it has read if there is
   no new one; a caller that had a 401 gives the session up. *)
Waiting(c, tab, r) ==
    api[c].pc \in {"renewing", "refused"} /\ api[c].tab = tab /\ api[c].on = r

GoesOn(c, pc, life) == [api[c] EXCEPT !.pc = pc, !.on = 0, !.sent = life]
Resumed(c, n) ==
    CASE api[c].pc = "renewing" ->
           GoesOn(c, "first", IF n = NoToken THEN api[c].sent ELSE n.life)
      [] api[c].pc # "renewing" /\ n # NoToken -> GoesOn(c, "second", n.life)
      [] OTHER -> UnusedCall

RefreshOver(tab, r) ==
    /\ refresh[tab][r].pc = "answered"
    /\ refresh' = [refresh EXCEPT ![tab][r] = UnusedRefresh]
    /\ inFlight' = [inFlight EXCEPT ![tab] = 0]

ForgetRefusal(tab, r) ==                                            \* mutant
    LET n == refresh[tab][r].token IN
    /\ RefreshOver(tab, r)
    /\ api' = [c \in ApiCalls |-> IF Waiting(c, tab, r) /\ n # NoToken
                                   THEN Resumed(c, n) ELSE api[c]]
    /\ stored' = IF n = NoToken THEN stored ELSE n
    /\ UNCHANGED <<cookie, place, told, clearing, mishaps, holder>>
SettleRefresh(tab, r) ==
    LET n == refresh[tab][r].token
        giveUp == /\ n = NoToken
                  /\ \E c \in ApiCalls : Waiting(c, tab, r) /\ api[c].pc = "refused"
    IN  /\ RefreshOver(tab, r)
        /\ api' = [c \in ApiCalls |-> IF Waiting(c, tab, r) THEN Resumed(c, n) ELSE api[c]]
        /\ IF giveUp
           THEN TokenRemoved(tab) /\ place' = [place EXCEPT ![tab] = "leaving"]
           ELSE stored' = (IF n = NoToken THEN stored ELSE n) /\ UNCHANGED <<told, place>>
        /\ UNCHANGED <<cookie, clearing, mishaps, holder>>

-----------------------------------------------------------------------------
(* apiFetch.  The pages call it in any order, several at a time.             *)

CallApi(c, tab) ==
    /\ NextCall(c)
    /\ place[tab] = "app"
    /\ IF stored.life = "old"
       THEN \E r \in Refreshes :
              /\ AwaitRefresh(tab, r)
              /\ api' = [api EXCEPT ![c] = [pc |-> "renewing", tab |-> tab, on |-> r,
                                            sent |-> stored.life]]
       ELSE /\ api' = [api EXCEPT ![c] = [pc |-> "first", tab |-> tab, on |-> 0,
                                          sent |-> stored.life]]
            /\ UNCHANGED <<refresh, inFlight>>
    /\ UNCHANGED <<stored, cookie, place, told, clearing, mishaps, holder>>

(* The JWT middleware of the API takes the token, or it does not. *)
CallAnswered(c) ==
    /\ api[c].pc \in {"first", "second"}
    /\ \/ api[c].sent # "none" /\ UNCHANGED mishaps
       \/ Mishap("network")
    /\ api' = [api EXCEPT ![c] = UnusedCall]
    /\ UNCHANGED <<stored, cookie, place, told, refresh, inFlight, clearing, holder>>

ResendStored(c) ==                                                  \* mutant
    /\ api[c].pc = "first"
    /\ api' = [api EXCEPT ![c].pc = "second", ![c].sent = stored.life]
    /\ UNCHANGED <<stored, cookie, place, told, refresh, inFlight, clearing, mishaps,
                   holder>>
(* The first 401: one refresh, one retry with the new token. *)
FirstRefusal(c) ==
    /\ api[c].pc = "first"
    /\ \E r \in Refreshes :
         /\ AwaitRefresh(api[c].tab, r)
         /\ api' = [api EXCEPT ![c].pc = "refused", ![c].on = r,
                                  ![c].sent = "none"]
    /\ UNCHANGED <<stored, cookie, place, told, clearing, mishaps, holder>>

(* The retry came back 401 too: the API does not take new tokens either. *)
SecondRefusal(c) ==
    /\ api[c].pc = "second"
    /\ Mishap("rejected")
    /\ api' = [api EXCEPT ![c] = UnusedCall]
    /\ TokenRemoved(api[c].tab)
    /\ place' = [place EXCEPT ![api[c].tab] = "leaving"]
    /\ UNCHANGED <<cookie, refresh, inFlight, clearing, holder>>

-----------------------------------------------------------------------------
(* Sign in, sign out, and the other tabs.                                    *)

(* Cognito takes the password, or the new one after its challenge: the route answers
   with the token and puts the refresh token in the cookie. *)
Issued(u) == stored' = New(u) /\ cookie' = u

(* signIn, or completeNewPassword. *)
SignIn(tab, u) ==
    /\ place[tab] = "login"
    /\ Issued(u)
    /\ holder' = IF Idle /\ ~ clearing THEN u ELSE Unknown
    /\ place' = [place EXCEPT ![tab] = "app"]
    /\ UNCHANGED <<told, refresh, inFlight, api, clearing, mishaps>>

(* The button of the taskbar; the cookie is cleared by a request nobody awaits. *)
SignOut(tab) ==
    /\ place[tab] = "app"
    /\ TokenRemoved(tab)
    /\ holder' = Unknown
    /\ clearing' = TRUE
    /\ place' = [place EXCEPT ![tab] = "routing"]
    /\ UNCHANGED <<cookie, refresh, inFlight, api, mishaps>>

(* No token is stored, and none is on its way to be. *)
NoTokenLeft ==
    stored = NoToken /\ \A tab \in Tabs, r \in Refreshes : refresh[tab][r].token = NoToken

WrongPath ==                                                        \* mutant
    /\ clearing
    /\ clearing' = FALSE
    /\ holder' = IF NoTokenLeft THEN NoUser ELSE Unknown
    /\ UNCHANGED <<stored, cookie, place, told, refresh, inFlight, api, mishaps>>
ClearCookie ==
    /\ clearing
    /\ clearing' = FALSE
    /\ \/ /\ cookie' = NoUser
          /\ holder' = IF NoTokenLeft THEN NoUser ELSE Unknown
          /\ UNCHANGED mishaps
       \/ Mishap("signout") /\ UNCHANGED <<cookie, holder>>
    /\ UNCHANGED <<stored, place, told, refresh, inFlight, api>>

(* The listener redirects, except on public paths. *)
ToldIgnored(tab) ==                                                 \* mutant
    /\ tab \in told
    /\ told' = told \ {tab}
    /\ UNCHANGED <<stored, cookie, place, refresh, inFlight, api, clearing,
                   mishaps, holder>>
OnStorage(tab) ==
    /\ tab \in told
    /\ told' = told \ {tab}
    /\ place' = IF place[tab] = "login" THEN place
                ELSE [place EXCEPT ![tab] = "leaving"]
    /\ UNCHANGED <<stored, cookie, refresh, inFlight, api, clearing, mishaps,
                   holder>>

(* The login page opens; it goes on to the dashboard if there is a token.  After a
   change of location nothing of the old document is left. *)
OpenLogin(tab) ==
    /\ place[tab] \in {"routing", "leaving"}
    /\ place' = [place EXCEPT ![tab] = IF stored = NoToken THEN "login" ELSE "app"]
    /\ IF place[tab] = "leaving"
       THEN /\ api' = [c \in ApiCalls |-> IF api[c].tab = tab THEN UnusedCall ELSE api[c]]
            /\ refresh' = [refresh EXCEPT ![tab] = [r \in Refreshes |-> UnusedRefresh]]
            /\ inFlight' = [inFlight EXCEPT ![tab] = 0]
       ELSE UNCHANGED <<api, refresh, inFlight>>
    /\ UNCHANGED <<stored, cookie, told, clearing, mishaps, holder>>

(* Every page asks isLoggedIn when it mounts; the login page of a second tab goes
   on to the dashboard when it is opened with a token. *)
OpenPage(tab) ==
    /\ \/ /\ place[tab] = "app" /\ stored = NoToken
          /\ place' = [place EXCEPT ![tab] = "routing"]
       \/ /\ place[tab] = "login" /\ stored # NoToken
          /\ place' = [place EXCEPT ![tab] = "app"]
    /\ UNCHANGED <<stored, cookie, told, refresh, inFlight, api, clearing,
                   mishaps, holder>>

(* Time passes. *)
TokenAges ==
    /\ stored.life = "good"
    /\ stored' = [stored EXCEPT !.life = "old"]
    /\ UNCHANGED <<cookie, place, told, refresh, inFlight, api, clearing, mishaps, holder>>

-----------------------------------------------------------------------------
SessionNext ==
    \/ \E tab \in Tabs, r \in Refreshes : ServeRefresh(tab, r) \/ SettleRefresh(tab, r)
    \/ \E c \in ApiCalls : CallAnswered(c) \/ FirstRefusal(c) \/ SecondRefusal(c)
    \/ \E c \in ApiCalls, tab \in Tabs : CallApi(c, tab)
    \/ \E tab \in Tabs, u \in Users : SignIn(tab, u)
    \/ \E tab \in Tabs : SignOut(tab) \/ OnStorage(tab) \/ OpenLogin(tab) \/ OpenPage(tab)
    \/ ClearCookie
    \/ TokenAges

SessionSpec == SessionInit /\ [][SessionNext]_sessionVars

(* The server answers, promises settle, events are delivered and documents load;
   users sign in and out, call and let time pass as they like. *)
SessionFairness ==
    /\ \A tab \in Tabs, r \in Refreshes :
         WF_sessionVars(ServeRefresh(tab, r)) /\ WF_sessionVars(SettleRefresh(tab, r))
    /\ \A c \in ApiCalls :
         WF_sessionVars(CallAnswered(c) \/ FirstRefusal(c) \/ SecondRefusal(c))
    /\ \A tab \in Tabs :
         WF_sessionVars(OnStorage(tab)) /\ WF_sessionVars(OpenLogin(tab))

-----------------------------------------------------------------------------
(* "Single-flight: concurrent callers share one in-flight request so parallel
   401s trigger exactly one refresh" (auth.ts:117), in every tab. *)
SingleFlight ==
    \A tab \in Tabs, q, r \in Refreshes : Pending(tab, q) /\ Pending(tab, r) => q = r

(* Once the cookie of a sign out is cleared and no token is left or on its way, none
   is stored until somebody signs in, whatever calls, 401s and refreshes the tabs
   had under way or start then; and when somebody did, it is that user's
   (auth.ts:37-49 and 119-138, signout/route.ts). *)
SignedOutStays == stored # NoToken /\ holder # Unknown => stored.owner = holder

(* A retry carries a token that was just issued, whatever happened to the stored
   one meanwhile (api.ts:230-234). *)
RetryIsFresh ==
    \A c \in ApiCalls : api[c].pc = "second" => api[c].sent = "good"

(* Without faults the token goes away only when the user signs out: expiry, in
   however many tabs and calls at a time, never ends a session whose refresh
   token lives (api.ts:229-243, refresh/route.ts:41). *)
KeepsSession ==
    [][stored # NoToken /\ stored' = NoToken /\ mishaps' = 0
          => holder' \in {NoUser, Unknown}]_sessionVars

(* The invariants those rest on.  The promise a tab keeps is the one refresh of its
   own that is not over (auth.ts:120-142). *)
FlightIsPending ==
    \A tab \in Tabs, r \in Refreshes : Pending(tab, r) <=> inFlight[tab] = r

(* A refresh holds a token only once it is answered, and then a new one. *)
TokensAreNew ==
    \A tab \in Tabs, r \in Refreshes :
      /\ refresh[tab][r].token \in {NoToken} \cup {New(u) : u \in Users}
      /\ refresh[tab][r].pc # "answered" => refresh[tab][r].token = NoToken

(* While nobody is signed in no refresh can bring a token, for want of a cookie;
   while somebody is, every token and the cookie are theirs, or gone. *)
Theirs(u) ==
    /\ ~ clearing
    /\ cookie \in {u, NoUser}
    /\ stored.owner \in {u, NoUser}
    /\ \A tab \in Tabs, r \in Refreshes : refresh[tab][r].token.owner \in {u, NoUser}

HeldByHolder ==
    /\ holder = NoUser => NoTokenLeft /\ cookie = NoUser
    /\ holder \in Users => Theirs(holder)

(* Without faults the cookie of the holder lives, and every refresh brings a token. *)
CookieLives ==
    mishaps = 0 /\ holder \in Users =>
      /\ cookie = holder
      /\ \A tab \in Tabs, r \in Refreshes :
           refresh[tab][r].pc = "answered" => refresh[tab][r].token # NoToken

SessionInv ==
    /\ SessionTypeOK /\ FlightIsPending /\ TokensAreNew /\ RetryIsFresh
    /\ HeldByHolder /\ CookieLives

(* When the token is gone every tab comes to the login page, unless somebody
   signs in or a refresh brings a token back (AuthSync.tsx:15-20). *)
TabsFollow ==
    \A tab \in Tabs : stored = NoToken ~> (place[tab] = "login" \/ stored # NoToken)

(* Every API call ends: with its answer, an error, or the page (api.ts:207-254). *)
CallsEnd == \A c \in ApiCalls : Open(c) ~> ~ Open(c)
=============================================================================
