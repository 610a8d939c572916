----------------------------- MODULE AuthSessions -----------------------------
(***************************************************************************)
(* Sessions: refresh tokens that are rotated on every use, the cookie the  *)
(* tabs of one browser share, and the client in each tab.  A page that is  *)
(* loaded has no access token and asks for one before its first call, /me; *)
(* later ones are asked for when a call is answered 401, one request at a  *)
(* time for all the calls of a page.                                       *)
(*                                                                         *)
(* The server's rotation is a read, an update and an insert; any of them   *)
(* may fail, and an answer may be lost on its way, or meet a page that has *)
(* been loaded again.  Logging in is one step, with its call of /me.  One  *)
(* user; a session is the login its tokens descend from.                   *)
(***************************************************************************)
EXTENDS Naturals, FiniteSets

CONSTANTS
  Tokens,        \* refresh tokens
  Tabs, Calls, TabOf,  \* tabs of the browser and the API calls each can have
  None,
  MaxLoads, MaxFaults, MaxEnds  \* bounds; MaxEnds is on logouts and password resets

ASSUME SessionAssumption ==
  /\ TabOf \in [Calls -> Tabs] /\ None \notin Tokens \cup Calls
  /\ {MaxLoads, MaxFaults, MaxEnds} \subseteq Nat

VARIABLES
  token,     \* RefreshToken rows: their state and their session
  cookie,    \* tl_refresh
  access,    \* accessToken of each tab
  page,      \* what a tab shows; "away": the application is being replaced by
             \* the login page
  inFlight,  \* refreshInFlight: the call whose refresh a tab waits for
  call,
  refresh,   \* the refresh request a call has started
  leaving,   \* logout of each tab
  loads, faults, ends,
  forked,    \* history: sessions two rotations read at once
  broken,    \* history: sessions with a rotation that failed between its writes
  lost,      \* history: sessions with a new token that no cookie ever named
  caught,    \* history: sessions ended while a rotation was under way
  ended      \* history: sessions ended by logout or password reset

client  == <<access, page, inFlight, call>>
history == <<forked, broken, lost, caught, ended>>
limits  == <<loads, faults, ends>>
vars    == <<token, cookie, client, refresh, leaving, limits, history>>

TokenRows == [state : {"none", "live", "revoked", "expired"},
              session : Tokens \cup {None}]
\* me: the call of /me, whose answer says whether somebody is logged in;
\* with: "fresh" while the token it carries is good.
CallStates == [pc : {"idle", "need", "sent", "again", "retry"}, me : BOOLEAN,
               with : {"none", "fresh"}, on : Calls \cup {None}]
\* crossed: a login, a logout or another refresh replaced the cookie meanwhile;
\* left: the page that asked is gone.
RefreshStates ==
  [pc : {"none", "read", "revoke", "create", "ok", "refused", "failed"},
   old : Tokens \cup {None}, new : Tokens \cup {None}, crossed : BOOLEAN,
   left : BOOLEAN]

IdleCall  == [pc |-> "idle", me |-> FALSE, with |-> "none", on |-> None]
NoRefresh == [pc |-> "none", old |-> None, new |-> None, crossed |-> FALSE, left |-> FALSE]

Init ==
  /\ token = [k \in Tokens |-> [state |-> "none", session |-> None]]
  /\ cookie = None
  /\ access = [t \in Tabs |-> "none"] /\ page = [t \in Tabs |-> "login"]
  /\ inFlight = [t \in Tabs |-> None]
  /\ call = [c \in Calls |-> IdleCall] /\ refresh = [c \in Calls |-> NoRefresh]
  /\ leaving = [t \in Tabs |-> "no"]
  /\ loads = 0 /\ faults = 0 /\ ends = 0
  /\ forked = {} /\ broken = {} /\ lost = {} /\ caught = {} /\ ended = {}

Live(k)     == k # None /\ token[k].state = "live"
Session(k)  == IF k = None THEN None ELSE token[k].session
Unused      == {k \in Tokens : token[k].state = "none"}
Rotating(s) == {c \in Calls : /\ refresh[c].pc \in {"revoke", "create", "ok"}
                              /\ Session(refresh[c].old) = s}
InTab(t)    == {c \in Calls : TabOf[c] = t}
InApp(t)    == page[t] \in {"loading", "app"}

\* Set-Cookie: the refreshes of pages that wait for them were sent with an older
\* cookie.  Those of done, the one it answers, end as outcome says.
SetCookie(k, done, outcome) ==
  /\ cookie' = k
  /\ refresh' = [c \in Calls |-> IF c \in done THEN outcome ELSE
                   [refresh[c] EXCEPT !.crossed = refresh[c].pc # "none" /\ ~refresh[c].left]]

\* An answer without a token, which is of no use to a page that is gone.
Denial(c, pc) == IF refresh[c].left THEN NoRefresh
                 ELSE [NoRefresh EXCEPT !.pc = pc, !.crossed = refresh[c].crossed]

-----------------------------------------------------------------------------
(* The client: apiFetch and ensureAccessToken. *)

Ask == [NoRefresh EXCEPT !.pc = "read", !.old = cookie]

\* Wait for the refresh in flight, or start one with the cookie as it is.
Ensure(c) ==
  LET t == TabOf[c]
      leader == IF inFlight[t] = None THEN c ELSE inFlight[t]
  IN
  /\ call' = [call EXCEPT ![c].pc = "again", ![c].on = leader]
  /\ inFlight' = [inFlight EXCEPT ![t] = leader]
  /\ refresh' = IF leader # c THEN refresh ELSE [refresh EXCEPT ![c] = Ask]

\* A page is loaded, for the first time or again: its memory is empty, its calls
\* are gone, the refreshes it sent go on without it, and before it calls /me it
\* asks for a token.
Load(c, path) ==
  LET t == TabOf[c]
      Leave(r) == IF r.pc \in {"read", "revoke", "create", "ok"}
                    THEN [r EXCEPT !.left = TRUE, !.crossed = FALSE] ELSE NoRefresh
  IN
  /\ refresh[c].pc = "none" /\ leaving[t] = "no" /\ loads < MaxLoads
  /\ path = "loading" \/ ~InApp(t)
  /\ loads' = loads + 1
  /\ page' = [page EXCEPT ![t] = path] /\ access' = [access EXCEPT ![t] = "none"]
  /\ inFlight' = [inFlight EXCEPT ![t] = c]
  /\ call' = [d \in Calls |->
       CASE d = c -> [IdleCall EXCEPT !.pc = "need", !.me = TRUE, !.on = c]
         [] d # c /\ d \in InTab(t) -> IdleCall
         [] OTHER -> call[d]]
  /\ refresh' = [d \in Calls |-> CASE d = c -> Ask
                                   [] d # c /\ d \in InTab(t) -> Leave(refresh[d])
                                   [] OTHER -> refresh[d]]
  /\ UNCHANGED <<token, cookie, leaving, faults, ends, history>>

\* The application makes a call.  One whose token is good changes nothing here:
\* only those whose token has run out are followed.
StartCall(c) ==
  LET t == TabOf[c] IN
  /\ call[c].pc = "idle" /\ refresh[c].pc = "none"
  /\ page[t] = "app" /\ access[t] = "stale"
  /\ call' = [call EXCEPT ![c].pc = "sent"]
  /\ UNCHANGED <<token, cookie, access, page, inFlight, refresh, leaving, limits, history>>

\* refreshMe and AppLayout: without an answer from /me the application gives way
\* to the login page.
Told(c, ok) ==
  page' = IF ~call[c].me THEN page
          ELSE [page EXCEPT ![TabOf[c]] = CASE ok /\ @ = "loading" -> "app"
                                            [] ~ok /\ @ \in {"loading", "app"} -> "login"
                                            [] OTHER -> @]

\* requireAuth accepts the access token or answers 401.
AnswerCall(c) ==
  /\ call[c].pc = "sent"
  /\ IF call[c].with = "fresh"
       THEN /\ call' = [call EXCEPT ![c] = IdleCall] /\ Told(c, TRUE)
            /\ UNCHANGED <<inFlight, refresh>>
       ELSE Ensure(c) /\ UNCHANGED page
  /\ UNCHANGED <<token, cookie, access, leaving, limits, history>>

\* The second answer is returned whatever it is.
AnswerRetry(c) ==
  /\ call[c].pc = "retry"
  /\ call' = [call EXCEPT ![c] = IdleCall] /\ Told(c, call[c].with = "fresh")
  /\ UNCHANGED <<token, cookie, access, inFlight, refresh, leaving, limits, history>>

CallFails(c) ==
  /\ call[c].pc \in {"sent", "retry"} /\ faults < MaxFaults
  /\ faults' = faults + 1
  /\ call' = [call EXCEPT ![c] = IdleCall] /\ Told(c, FALSE)
  /\ UNCHANGED <<token, cookie, access, inFlight, refresh, leaving, loads, ends, history>>

WakeOne(l) == {l}   \* mutant: only the call that asked goes on

Waiting(l) == {c \in Calls : call[c].on = l}

\* The outcome reaches the page.  A call that had no token goes out, without one
\* if need be; one that was refused is sent again, or gives up.  On 401 the
\* application and its calls give way to the login page; the login page stays.
Resume(l, outcome) ==
  LET t == TabOf[l]
      given == IF outcome = "ok" THEN "fresh" ELSE "none"
      thrown == outcome = "refused" /\ InApp(t)
      After(c) == CASE call[c].pc = "need" ->
                         [IdleCall EXCEPT !.pc = "sent", !.me = TRUE, !.with = given]
                    [] call[c].pc # "need" /\ call[c].me /\ outcome = "ok" ->
                         [IdleCall EXCEPT !.pc = "retry", !.me = TRUE, !.with = given]
                    [] OTHER -> IdleCall
      untold == outcome = "failed" /\ \E c \in Waiting(l) : call[c].me /\ call[c].pc = "again"
  IN
  /\ call' = [c \in Calls |-> CASE thrown /\ c \in InTab(t) -> IdleCall
                                [] ~thrown /\ c \in Waiting(l) -> After(c)
                                [] OTHER -> call[c]]
  /\ inFlight' = [inFlight EXCEPT ![t] = None]
  /\ access' = [access EXCEPT ![t] = CASE outcome = "ok" -> "fresh"
                                       [] outcome = "refused" -> "none"
                                       [] OTHER -> @]
  /\ page' = [page EXCEPT ![t] = CASE thrown -> "away"
                                   [] untold /\ InApp(t) -> "login"
                                   [] OTHER -> @]

CookieUnset(l) ==   \* mutant: the answer does not set the cookie
  /\ refresh[l].pc = "ok"
  /\ IF refresh[l].left THEN UNCHANGED client ELSE Resume(l, "ok")
  /\ refresh' = [refresh EXCEPT ![l] = NoRefresh]
  /\ UNCHANGED <<token, cookie, leaving, limits, history>>

RefreshOk(l) ==
  /\ refresh[l].pc = "ok"
  /\ IF refresh[l].left THEN UNCHANGED client ELSE Resume(l, "ok")
  /\ SetCookie(refresh[l].new, {l}, NoRefresh)
  /\ UNCHANGED <<token, leaving, limits, history>>

DenyAnyFailure(l) ==   \* mutant: a refresh that failed is taken for a 401
  /\ refresh[l].pc \in {"refused", "failed"}
  /\ Resume(l, "refused")
  /\ refresh' = [refresh EXCEPT ![l] = NoRefresh]
  /\ UNCHANGED <<token, cookie, leaving, limits, history>>

RefreshDenied(l) ==
  /\ refresh[l].pc \in {"refused", "failed"}
  /\ Resume(l, refresh[l].pc)
  /\ refresh' = [refresh EXCEPT ![l] = NoRefresh]
  /\ UNCHANGED <<token, cookie, leaving, limits, history>>

\* The browser drops the answer to a page that is gone.
RefreshUnread(l) ==
  /\ refresh[l].pc = "ok" /\ refresh[l].left
  /\ refresh' = [refresh EXCEPT ![l] = NoRefresh]
  /\ lost' = lost \cup {Session(refresh[l].old)}
  /\ UNCHANGED <<token, cookie, client, leaving, limits, forked, broken, caught, ended>>

-----------------------------------------------------------------------------
(* The server: rotateRefreshToken. *)

Step(c, pc) == refresh' = [refresh EXCEPT ![c].pc = pc]
Deny(c, pc) == refresh' = [refresh EXCEPT ![c] = Denial(c, pc)]

RotateReadAny(c) ==   \* mutant: revokedAt is not looked at
  /\ refresh[c].pc = "read"
  /\ IF refresh[c].old = None THEN Deny(c, "refused") ELSE Step(c, "revoke")
  /\ UNCHANGED <<token, cookie, client, leaving, limits, history>>

RotateRead(c) ==
  LET s == Session(refresh[c].old) IN
  /\ refresh[c].pc = "read"
  /\ IF Live(refresh[c].old) THEN Step(c, "revoke") ELSE Deny(c, "refused")
  /\ forked' = IF \E d \in Calls \ {c} : /\ refresh[d].pc \in {"revoke", "create"}
                                         /\ refresh[d].old = refresh[c].old
                 THEN forked \cup {s} ELSE forked
  /\ UNCHANGED <<token, cookie, client, leaving, limits, broken, lost, caught, ended>>

RotateRevoke(c) ==
  /\ refresh[c].pc = "revoke"
  /\ token' = [token EXCEPT ![refresh[c].old].state = "revoked"]
  /\ Step(c, "create")
  /\ UNCHANGED <<cookie, client, leaving, limits, history>>

RotateCreate(c) ==
  /\ refresh[c].pc = "create"
  /\ \E k \in Unused :
       /\ token' = [token EXCEPT ![k] =
                      [state |-> "live", session |-> Session(refresh[c].old)]]
       /\ refresh' = [refresh EXCEPT ![c].pc = "ok", ![c].new = k]
  /\ UNCHANGED <<cookie, client, leaving, limits, history>>

\* A database call throws or the answer is lost; once the cookie is set the error
\* carries it.
RefreshFails(c) ==
  LET s == Session(refresh[c].old) IN
  /\ faults < MaxFaults
  /\ faults' = faults + 1
  /\ \/ /\ refresh[c].pc \in {"read", "revoke", "create"} /\ Deny(c, "failed")
        /\ broken' = IF refresh[c].pc = "create" THEN broken \cup {s} ELSE broken
        /\ UNCHANGED <<cookie, lost>>
     \/ /\ refresh[c].pc = "ok" /\ Deny(c, "failed")
        /\ lost' = lost \cup {s}
        /\ UNCHANGED <<cookie, broken>>
     \/ /\ refresh[c].pc = "ok"
        /\ SetCookie(refresh[c].new, {c}, Denial(c, "failed"))
        /\ UNCHANGED <<broken, lost>>
  /\ UNCHANGED <<token, client, leaving, loads, ends, forked, caught, ended>>

-----------------------------------------------------------------------------
(* Logging in and out, resets, and tokens that run out. *)

LoginUnsaved(t) ==   \* mutant: the answer does not wait for the row
  /\ page[t] = "login" /\ leaving[t] = "no"
  /\ \E k \in Unused : SetCookie(k, {}, NoRefresh)
  /\ access' = [access EXCEPT ![t] = "fresh"]
  /\ page' = [page EXCEPT ![t] = "app"]
  /\ UNCHANGED <<token, inFlight, call, leaving, limits, history>>

Login(t) ==
  /\ page[t] = "login" /\ leaving[t] = "no"
  /\ \E k \in Unused :
       /\ token' = [token EXCEPT ![k] = [state |-> "live", session |-> k]]
       /\ SetCookie(k, {}, NoRefresh)
  /\ access' = [access EXCEPT ![t] = "fresh"]
  /\ page' = [page EXCEPT ![t] = "app"]
  /\ UNCHANGED <<inFlight, call, leaving, limits, history>>

End(sessions) ==
  /\ ended' = ended \cup sessions
  /\ caught' = caught \cup {s \in Tokens : Rotating(s) # {} /\ s \in sessions}

LogoutNothing(t) ==   \* mutant: only the cookie is cleared
  /\ page[t] = "app" /\ leaving[t] = "no" /\ ends < MaxEnds
  /\ ends' = ends + 1
  /\ leaving' = [leaving EXCEPT ![t] = "revoked"]
  /\ End(IF cookie = None THEN {} ELSE {Session(cookie)})
  /\ UNCHANGED <<token, cookie, client, refresh, loads, faults, forked, broken, lost>>

\* logoutRefreshToken, with the cookie as it is now.
Logout(t) ==
  /\ page[t] = "app" /\ leaving[t] = "no" /\ ends < MaxEnds
  /\ ends' = ends + 1
  /\ leaving' = [leaving EXCEPT ![t] = "revoked"]
  /\ token' = IF Live(cookie) THEN [token EXCEPT ![cookie].state = "revoked"] ELSE token
  /\ End(IF cookie = None THEN {} ELSE {Session(cookie)})
  /\ UNCHANGED <<cookie, client, refresh, loads, faults, forked, broken, lost>>

LogoutAnswered(t) ==
  /\ leaving[t] = "revoked"
  /\ leaving' = [leaving EXCEPT ![t] = "no"]
  /\ SetCookie(None, {}, NoRefresh)
  /\ access' = [access EXCEPT ![t] = "none"]
  /\ page' = [page EXCEPT ![t] = "login"]
  /\ UNCHANGED <<token, inFlight, call, limits, history>>

\* The request does not arrive or throws, or its answer is lost: to the client it
\* is all the same.
LogoutFails(t) ==
  /\ faults < MaxFaults
  /\ faults' = faults + 1
  /\ \/ page[t] = "app" /\ leaving[t] = "no" /\ ends < MaxEnds /\ ends' = ends + 1
     \/ leaving[t] = "revoked" /\ UNCHANGED ends
  /\ leaving' = [leaving EXCEPT ![t] = "no"]
  /\ access' = [access EXCEPT ![t] = "none"]
  /\ page' = [page EXCEPT ![t] = "login"]
  /\ UNCHANGED <<token, cookie, inFlight, call, refresh, loads, history>>

Revoked(k) == IF token[k].state = "live" THEN [token[k] EXCEPT !.state = "revoked"]
              ELSE token[k]

\* The transaction of resetPassword.
ResetPassword ==
  /\ ends < MaxEnds
  /\ ends' = ends + 1
  /\ token' = [k \in Tokens |-> Revoked(k)]
  /\ End({Session(k) : k \in Tokens} \ {None})
  /\ UNCHANGED <<cookie, client, refresh, leaving, loads, faults, forked, broken, lost>>

ExpireAccess(t) ==
  /\ access[t] = "fresh"
  /\ access' = [access EXCEPT ![t] = "stale"]
  /\ call' = [c \in Calls |-> IF TabOf[c] = t /\ call[c].with = "fresh"
                              THEN [call[c] EXCEPT !.with = "none"] ELSE call[c]]
  /\ UNCHANGED <<token, cookie, page, inFlight, refresh, leaving, limits, history>>

ExpireRefresh(k) ==
  /\ Live(k) /\ faults < MaxFaults
  /\ faults' = faults + 1
  /\ token' = [token EXCEPT ![k].state = "expired"]
  /\ UNCHANGED <<cookie, client, refresh, leaving, loads, ends, history>>

Serve(c) ==
  \/ AnswerCall(c) \/ AnswerRetry(c) \/ RefreshOk(c) \/ RefreshDenied(c)
  \/ RefreshUnread(c)
  \/ RotateRead(c) \/ RotateRevoke(c) \/ RotateCreate(c)

Next ==
  \/ \E c \in Calls : \/ \E path \in {"loading", "login"} : Load(c, path)
                      \/ StartCall(c) \/ Serve(c) \/ RefreshFails(c) \/ CallFails(c)
  \/ \E t \in Tabs : \/ Login(t) \/ Logout(t) \/ LogoutFails(t) \/ LogoutAnswered(t)
                     \/ ExpireAccess(t)
  \/ \E k \in Tokens : ExpireRefresh(k)
  \/ ResetPassword

Spec == Init /\ [][Next]_vars

-----------------------------------------------------------------------------
TypeOK ==
  /\ token \in [Tokens -> TokenRows]
  /\ cookie \in Tokens \cup {None} /\ cookie \notin Unused
  /\ access \in [Tabs -> {"none", "fresh", "stale"}]
  /\ page \in [Tabs -> {"loading", "app", "away", "login"}]
  /\ inFlight \in [Tabs -> Calls \cup {None}]
  /\ call \in [Calls -> CallStates]
  /\ refresh \in [Calls -> RefreshStates]
  /\ leaving \in [Tabs -> {"no", "revoked"}]
  /\ loads \in 0..MaxLoads /\ faults \in 0..MaxFaults /\ ends \in 0..MaxEnds
  /\ forked \cup broken \cup lost \cup caught \cup ended \subseteq Tokens \cup {None}

\* A session has one live refresh token, unless two rotations read the same one.
OneLiveToken ==
  \A j, k \in Tokens :
    (Live(j) /\ Live(k) /\ Session(j) = Session(k) /\ Session(j) \notin forked) => j = k

\* Its call of /me comes to nothing: it fails or its refresh does, or the new
\* token has run out by the time it arrives.
MeLost(c) ==
  /\ call[c].me
  /\ \/ call[c].pc = "again" /\ refresh[call[c].on].pc = "failed"
     \/ call[c].pc \in {"sent", "retry"} /\ faults' # faults
     \/ call[c].pc = "retry" /\ call[c].with = "none"

\* The application is replaced by the login page while the browser's session is
\* alive only if the cookie was replaced while its tab was refreshing.  It gives
\* way to it only if the user logs out, or nobody could be told who is logged in.
NotSentToLogin ==
  [][\A t \in Tabs : (InApp(t) /\ Live(cookie)) =>
       /\ page'[t] = "away" =>
            \E c \in InTab(t) : refresh[c].pc = "refused" /\ refresh[c].crossed
       /\ page'[t] = "login" =>
            \/ leaving[t] = "revoked" \/ ends' # ends
            \/ \E c \in InTab(t) : MeLost(c)]_vars

\* When nothing is under way the cookie is the live token of its session, or one
\* that has run out, unless the session was ended, two rotations read the same
\* token, or one was cut short or its answer lost.
CookieIsCurrent ==
  (/\ cookie # None /\ Session(cookie) \notin broken \cup lost \cup ended \cup forked
   /\ \A c \in Calls : refresh[c].pc = "none") => token[cookie].state \in {"live", "expired"}

\* A session that was ended has no live token, unless a rotation of it was under
\* way at that moment, two had read the same token, or the answer with its latest
\* token had been lost, so that nobody could name it.
EndedStaysEnded ==
  \A k \in Tokens : Live(k) /\ Session(k) \in ended => Session(k) \in caught \cup forked \cup lost

\* A page has one refresh under way at most, and nobody waits for one that is
\* over: a call that waits does so for the one its page has in flight.
WaitersAreWoken ==
  /\ \A c \in Calls :
       LET leader == call[c].on IN
       leader # None => /\ call[c].pc \in {"need", "again"}
                        /\ inFlight[TabOf[c]] = leader /\ TabOf[leader] = TabOf[c]
                        /\ refresh[leader].pc # "none" /\ ~refresh[leader].left
  /\ \A c, d \in Calls :
       (/\ TabOf[c] = TabOf[d] /\ refresh[c].pc # "none" /\ refresh[d].pc # "none"
        /\ ~refresh[c].left /\ ~refresh[d].left) => c = d

=============================================================================
