-------------------------- MODULE AuthSessionsProofs --------------------------
(***************************************************************************)
(* Proofs about AuthSessions, for any number of tabs, calls and tokens and *)
(* every bound.                                                            *)
(***************************************************************************)
EXTENDS AuthSessions, TLAPS

USE SessionAssumption

-----------------------------------------------------------------------------
(* Types, and where the tokens of a refresh come from. *)

Used(k) == token[k].state # "none"

\* A session is the first of its tokens.
Rooted ==
  \A k \in Tokens :
    IF Used(k) THEN token[k].session \in Tokens /\ Used(token[k].session)
    ELSE token[k].session = None

\* The tokens a refresh holds exist, and the new one is of the same session.
Holds(c) ==
  /\ refresh[c].old # None => Used(refresh[c].old)
  /\ refresh[c].pc \in {"revoke", "create", "ok"} => refresh[c].old # None
  /\ refresh[c].pc = "ok" => /\ refresh[c].new # None /\ Used(refresh[c].new)
                             /\ Session(refresh[c].new) = Session(refresh[c].old)

TInv == /\ TypeOK /\ Rooted /\ \A c \in Calls : Holds(c)
        /\ \A s \in ended : s \in Tokens /\ Used(s)

RType == refresh \in [Calls -> RefreshStates]

LEMMA NoRefreshType == /\ NoRefresh \in RefreshStates /\ NoRefresh.pc = "none"
                       /\ NoRefresh.old = None /\ NoRefresh.left = FALSE
  BY DEF NoRefresh, RefreshStates

LEMMA IdleCallType == /\ IdleCall \in CallStates /\ IdleCall.on = None
                      /\ IdleCall.pc = "idle"
  BY DEF IdleCall, CallStates

Others(c) == \A d \in Calls : d # c => refresh'[d] = refresh[d]

Moves(c, pc) == /\ Others(c) /\ refresh'[c].pc = pc
                /\ refresh'[c].old = refresh[c].old /\ refresh'[c].new = refresh[c].new
                /\ refresh'[c].crossed = refresh[c].crossed
                /\ refresh'[c].left = refresh[c].left

\* A step of the server moves one refresh.
LEMMA StepEffect ==
  ASSUME RType, NEW c \in Calls, NEW pc \in {"revoke", "create"}, Step(c, pc)
  PROVE  RType' /\ Moves(c, pc)
  BY DEF RType, Step, Others, Moves, RefreshStates

\* What is left of a refresh that gets no token.
Ended(c, pc) ==
  \/ refresh[c].left /\ refresh'[c] = NoRefresh
  \/ /\ ~refresh[c].left
     /\ refresh'[c].pc = pc /\ refresh'[c].old = None /\ refresh'[c].new = None
     /\ refresh'[c].crossed = refresh[c].crossed /\ refresh'[c].left = FALSE

LEMMA DenialType ==
  ASSUME RType, NEW c \in Calls, NEW pc \in {"refused", "failed"},
         refresh'[c] = Denial(c, pc)
  PROVE  Denial(c, pc) \in RefreshStates /\ Ended(c, pc)
<1>1. refresh[c] \in RefreshStates
  BY DEF RType
<1>2. CASE refresh[c].left
  BY <1>2, NoRefreshType DEF Denial, Ended
<1>3. CASE ~refresh[c].left
  <2> DEFINE r == [NoRefresh EXCEPT !.pc = pc, !.crossed = refresh[c].crossed]
  <2>1. r \in RefreshStates
    BY <1>1 DEF NoRefresh, RefreshStates
  <2>2. /\ r.pc = pc /\ r.old = None /\ r.new = None /\ r.crossed = refresh[c].crossed
        /\ r.left = FALSE
    BY DEF NoRefresh
  <2>3. refresh'[c] = r /\ Denial(c, pc) = r
    BY <1>3 DEF Denial
  <2> HIDE DEF r
  <2>4. QED
    BY <1>3, <2>1, <2>2, <2>3 DEF Ended
<1>4. QED
  BY <1>2, <1>3

LEMMA DenyEffect ==
  ASSUME RType, NEW c \in Calls, NEW pc \in {"refused", "failed"}, Deny(c, pc)
  PROVE  RType' /\ Others(c) /\ Ended(c, pc)
<1>1. refresh' = [refresh EXCEPT ![c] = Denial(c, pc)]
  BY DEF Deny
<1>2. refresh'[c] = Denial(c, pc) /\ Others(c)
  BY <1>1 DEF RType, Others
<1>3. Denial(c, pc) \in RefreshStates /\ Ended(c, pc)
  BY <1>2, DenialType
<1>4. QED
  BY <1>1, <1>2, <1>3 DEF RType

\* What a new cookie does to the refreshes it does not answer.
Crosses(done) ==
  \A c \in Calls \ done :
    /\ refresh'[c].pc = refresh[c].pc /\ refresh'[c].old = refresh[c].old
    /\ refresh'[c].new = refresh[c].new /\ refresh'[c].left = refresh[c].left
    /\ refresh[c].pc # "none" /\ ~refresh[c].left => refresh'[c].crossed

LEMMA SetCookieEffect ==
  ASSUME RType, NEW k, NEW done, NEW outcome \in RefreshStates, SetCookie(k, done, outcome)
  PROVE  /\ RType' /\ cookie' = k /\ Crosses(done)
         /\ \A c \in Calls \cap done : refresh'[c] = outcome
<1> DEFINE R(c) == [refresh[c] EXCEPT !.crossed = refresh[c].pc # "none" /\ ~refresh[c].left]
<1>1. cookie' = k /\ refresh' = [c \in Calls |-> IF c \in done THEN outcome ELSE R(c)]
  BY DEF SetCookie
<1>2. ASSUME NEW c \in Calls
      PROVE  /\ R(c) \in RefreshStates
             /\ R(c).pc = refresh[c].pc /\ R(c).old = refresh[c].old
             /\ R(c).new = refresh[c].new /\ R(c).left = refresh[c].left
             /\ R(c).crossed = (refresh[c].pc # "none" /\ ~refresh[c].left)
  <2>1. refresh[c] \in RefreshStates
    BY DEF RType
  <2>2. QED
    BY <2>1 DEF RefreshStates
<1> HIDE DEF R
<1>3. QED
  BY <1>1, <1>2 DEF RType, Crosses

\* A refresh starts, with the cookie as it is; others may be left by their page.
Goes(d) ==
  \/ refresh'[d] = refresh[d]
  \/ /\ refresh'[d].pc = refresh[d].pc /\ refresh'[d].old = refresh[d].old
     /\ refresh'[d].new = refresh[d].new /\ refresh'[d].left
  \/ refresh[d].pc \in {"none", "refused", "failed"} /\ refresh'[d] = NoRefresh

Asked(c) == /\ refresh'[c].pc = "read" /\ refresh'[c].old = cookie
            /\ refresh'[c].new = None /\ refresh'[c].crossed = FALSE
            /\ refresh'[c].left = FALSE

Asks(c) == Asked(c) /\ \A d \in Calls \ {c} : Goes(d)

LEMMA AskType ==
  ASSUME cookie \in Tokens \cup {None}
  PROVE  /\ Ask \in RefreshStates /\ Ask.pc = "read" /\ Ask.old = cookie
         /\ Ask.new = None /\ Ask.crossed = FALSE /\ Ask.left = FALSE
  BY DEF Ask, NoRefresh, RefreshStates

\* A call joins the refresh of its tab, or starts it with the cookie.
LEMMA EnsureEffect ==
  ASSUME RType, call \in [Calls -> CallStates], inFlight \in [Tabs -> Calls \cup {None}],
         cookie \in Tokens \cup {None}, NEW c \in Calls, Ensure(c)
  PROVE  /\ RType' /\ call' \in [Calls -> CallStates]
         /\ inFlight' \in [Tabs -> Calls \cup {None}]
         /\ \A d \in Calls : d # c => call'[d] = call[d]
         /\ call'[c].pc = "again" /\ call'[c].on = inFlight'[TabOf[c]]
         /\ \A t \in Tabs : t # TabOf[c] => inFlight'[t] = inFlight[t]
         /\ \/ /\ inFlight[TabOf[c]] \notin {None, c}
               /\ UNCHANGED <<inFlight, refresh>>
            \/ /\ inFlight[TabOf[c]] \in {None, c} /\ inFlight'[TabOf[c]] = c
               /\ Others(c) /\ Asked(c)
<1> DEFINE t == TabOf[c]
           leader == IF inFlight[t] = None THEN c ELSE inFlight[t]
           p == [call[c] EXCEPT !.pc = "again", !.on = leader]
<1>1. t \in Tabs /\ leader \in Calls /\ leader # None
  OBVIOUS
<1>2. p \in CallStates /\ p.pc = "again" /\ p.on = leader
  <2>1. call[c] \in CallStates
    OBVIOUS
  <2>2. QED
    BY <1>1, <2>1 DEF CallStates
<1>3. call' = [call EXCEPT ![c] = p]
  BY DEF Ensure
<1>4. /\ inFlight' = [inFlight EXCEPT ![t] = leader]
      /\ refresh' = IF leader # c THEN refresh ELSE [refresh EXCEPT ![c] = Ask]
  BY DEF Ensure
<1> HIDE DEF p
<1>5. CASE leader # c
  BY <1>1, <1>2, <1>3, <1>4, <1>5 DEF RType
<1>6. CASE leader = c
  BY <1>1, <1>2, <1>3, <1>4, <1>6, AskType DEF RType, Others, Asked
<1>7. QED
  BY <1>5, <1>6

-----------------------------------------------------------------------------
(* One refresh per page, and everybody waits for it. *)

\* A refresh its page waits for.
Going(c) == refresh[c].pc # "none" /\ ~refresh[c].left

\* A call that waits does so for the refresh its tab has in flight.
Waits ==
  \A c \in Calls :
    LET leader == call[c].on IN
    leader # None => /\ call[c].pc \in {"need", "again"}
                     /\ inFlight[TabOf[c]] = leader /\ TabOf[leader] = TabOf[c]
                     /\ Going(leader)

\* A refresh its page has left goes on for nobody.
Left ==
  \A c \in Calls : refresh[c].left => /\ refresh[c].pc \in {"read", "revoke", "create", "ok"}
                                      /\ call[c].pc = "idle"

Leads ==
  /\ Waits /\ Left
  /\ \A c \in Calls : Going(c) => inFlight[TabOf[c]] = c /\ call[c].on = c
  /\ \A t \in Tabs : inFlight[t] # None => TabOf[inFlight[t]] = t /\ Going(inFlight[t])

-----------------------------------------------------------------------------
(* What each step does to tokens, the cookie and refreshes. *)

\* The tokens of K are not live any more; nothing else happens to any.
Ends(K) == \A j \in Tokens :
  /\ token'[j].session = token[j].session
  /\ (token'[j].state = "none") = (token[j].state = "none")
  /\ (token'[j].state = "live") = (token[j].state = "live" /\ j \notin K)
  /\ j \notin K => token'[j].state = token[j].state

\* k is made, in session s.
Makes(k, s) == /\ token[k].state = "none"
               /\ token'[k].state = "live" /\ token'[k].session = s
               /\ \A j \in Tokens : j # k => token'[j] = token[j]

LEMMA EndsOne ==
  ASSUME token \in [Tokens -> TokenRows], NEW k \in Tokens, token[k].state # "none",
         NEW state \in {"revoked", "expired"}, token' = [token EXCEPT ![k].state = state]
  PROVE  token' \in [Tokens -> TokenRows] /\ Ends({k}) /\ token'[k].state = state
  BY DEF TokenRows, Ends

LEMMA EndsAll ==
  ASSUME token \in [Tokens -> TokenRows], token' = [k \in Tokens |-> Revoked(k)]
  PROVE  token' \in [Tokens -> TokenRows] /\ Ends(Tokens)
  BY DEF TokenRows, Ends, Revoked

LEMMA EndsNone ==
  ASSUME UNCHANGED token
  PROVE  Ends({})
  BY DEF Ends

LEMMA MakesOne ==
  ASSUME token \in [Tokens -> TokenRows], NEW k \in Unused, NEW s \in Tokens,
         token' = [token EXCEPT ![k] = [state |-> "live", session |-> s]]
  PROVE  token' \in [Tokens -> TokenRows] /\ Makes(k, s)
  BY DEF TokenRows, Makes, Unused

\* Everything a step does on the server's side.
Reads(c) ==
  /\ refresh[c].pc = "read"
  /\ \/ Live(refresh[c].old) /\ Moves(c, "revoke")
     \/ ~Live(refresh[c].old) /\ Others(c) /\ Ended(c, "refused")
  /\ forked \subseteq forked'
  /\ (\E d \in Calls \ {c} : /\ refresh[d].pc \in {"revoke", "create"}
                            /\ refresh[d].old = refresh[c].old) =>
       Session(refresh[c].old) \in forked'
  /\ UNCHANGED <<token, cookie, broken, lost, caught, ended>>

Revokes(c) == /\ refresh[c].pc = "revoke" /\ Moves(c, "create")
              /\ Ends({refresh[c].old})
              /\ UNCHANGED <<cookie, history>>

Creates(c) == /\ refresh[c].pc = "create" /\ Others(c)
              /\ refresh'[c].pc = "ok" /\ refresh'[c].old = refresh[c].old
              /\ refresh'[c].crossed = refresh[c].crossed
              /\ refresh'[c].left = refresh[c].left
              /\ refresh'[c].new \in Tokens
              /\ Makes(refresh'[c].new, Session(refresh[c].old))
              /\ UNCHANGED <<cookie, history>>

Breaks(c) == /\ refresh[c].pc \in {"read", "revoke", "create"}
             /\ Others(c) /\ Ended(c, "failed")
             /\ broken \subseteq broken'
             /\ refresh[c].pc = "create" => Session(refresh[c].old) \in broken'
             /\ UNCHANGED <<token, cookie, forked, lost, caught, ended>>

Loses(c) == /\ refresh[c].pc = "ok"
            /\ Others(c) /\ (Ended(c, "failed") \/ refresh'[c] = NoRefresh)
            /\ lost' = lost \cup {Session(refresh[c].old)}
            /\ UNCHANGED <<token, cookie, forked, broken, caught, ended>>

Succeeds(l) == /\ refresh[l].pc = "ok" /\ cookie' = refresh[l].new
               /\ Crosses({l}) /\ (Ended(l, "failed") \/ refresh'[l] = NoRefresh)
               /\ UNCHANGED <<token, history>>

Denies(l) == /\ refresh[l].pc \in {"refused", "failed"}
             /\ Others(l) /\ refresh'[l] = NoRefresh
             /\ UNCHANGED <<token, cookie, history>>

LogsIn == /\ cookie' \in Tokens /\ Makes(cookie', cookie') /\ Crosses({})
          /\ UNCHANGED history

Catches == /\ caught \subseteq caught'
           /\ \A s \in ended' \cap Tokens : s \in ended \/ Rotating(s) = {} \/ s \in caught'

LogsOut == /\ Ends(IF Live(cookie) THEN {cookie} ELSE {})
           /\ ended' = ended \cup (IF cookie = None THEN {} ELSE {Session(cookie)})
           /\ Catches
           /\ UNCHANGED <<cookie, refresh, forked, broken, lost>>

Clears == cookie' = None /\ Crosses({}) /\ UNCHANGED <<token, history>>

Resets == /\ Ends(Tokens)
          /\ ended' = ended \cup ({Session(k) : k \in Tokens} \ {None})
          /\ Catches
          /\ UNCHANGED <<cookie, refresh, forked, broken, lost>>

RunsOut(k) == /\ Live(k) /\ Ends({k}) /\ token'[k].state = "expired"
              /\ UNCHANGED <<cookie, refresh, history>>

Quiet == UNCHANGED <<token, cookie, refresh, history>>

ServerStep ==
  \/ \E c \in Calls : \/ refresh[c].pc = "none" /\ Asks(c) /\ UNCHANGED <<token, cookie, history>>
                      \/ Reads(c) \/ Revokes(c) \/ Creates(c) \/ Breaks(c) \/ Loses(c)
                      \/ Succeeds(c) \/ Denies(c)
  \/ \E k \in Tokens : RunsOut(k)
  \/ LogsIn \/ LogsOut \/ Clears \/ Resets \/ Quiet

LEMMA Rotated ==
  ASSUME TInv, NEW c \in Calls, refresh[c].pc \in {"revoke", "create", "ok"}
  PROVE  /\ refresh[c].old \in Tokens /\ Used(refresh[c].old)
         /\ Session(refresh[c].old) \in Tokens
<1>1. refresh[c].old \in Tokens \cup {None}
  BY DEF TInv, TypeOK, RefreshStates
<1>2. QED
  BY <1>1 DEF TInv, Holds, Rooted, Session

\* The refreshes of a page that is loaded again.
LEMMA LoadEffect ==
  ASSUME RType, cookie \in Tokens \cup {None}, NEW c \in Calls,
         NEW path \in {"loading", "login"}, Load(c, path)
  PROVE  /\ RType' /\ Asks(c)
         /\ \A d \in Calls \ {c} :
              IF TabOf[d] = TabOf[c]
                THEN refresh'[d].pc # "none" => refresh'[d].left
                ELSE refresh'[d] = refresh[d]
         /\ \A d \in Calls \ {c} :
              refresh'[d].left => \/ refresh'[d] = refresh[d]
                                  \/ refresh'[d].pc \in {"read", "revoke", "create", "ok"}
<1> DEFINE Leave(r) == IF r.pc \in {"read", "revoke", "create", "ok"}
                         THEN [r EXCEPT !.left = TRUE, !.crossed = FALSE] ELSE NoRefresh
           R(d) == CASE d = c -> Ask
                     [] d # c /\ d \in InTab(TabOf[c]) -> Leave(refresh[d])
                     [] OTHER -> refresh[d]
<1>1. refresh' = [d \in Calls |-> R(d)]
  BY DEF Load
<1>2. ASSUME NEW d \in Calls
      PROVE  /\ Leave(refresh[d]) \in RefreshStates
             /\ \/ /\ Leave(refresh[d]).pc = refresh[d].pc
                   /\ Leave(refresh[d]).pc \in {"read", "revoke", "create", "ok"}
                   /\ Leave(refresh[d]).old = refresh[d].old
                   /\ Leave(refresh[d]).new = refresh[d].new /\ Leave(refresh[d]).left
                \/ /\ refresh[d].pc \in {"none", "refused", "failed"}
                   /\ Leave(refresh[d]) = NoRefresh
  <2>1. refresh[d] \in RefreshStates
    BY DEF RType
  <2>2. CASE refresh[d].pc \in {"read", "revoke", "create", "ok"}
    BY <2>1, <2>2 DEF RefreshStates
  <2>3. CASE refresh[d].pc \notin {"read", "revoke", "create", "ok"}
    BY <2>1, <2>3, NoRefreshType DEF RefreshStates
  <2>4. QED
    BY <2>2, <2>3
<1> HIDE DEF Leave
<1>3. \A d \in Calls \ {c} : IF TabOf[d] = TabOf[c] THEN R(d) = Leave(refresh[d])
                             ELSE R(d) = refresh[d]
  BY DEF InTab
<1>4. R(c) = Ask
  OBVIOUS
<1> HIDE DEF R
<1>5. ASSUME NEW d \in Calls PROVE R(d) \in RefreshStates
  <2>1. Leave(refresh[d]) \in RefreshStates /\ refresh[d] \in RefreshStates
    BY <1>2 DEF RType
  <2>2. CASE d = c
    BY <2>2, <1>4, AskType
  <2>3. CASE d # c
    BY <2>1, <2>3, <1>3
  <2>4. QED
    BY <2>2, <2>3
<1>6. RType'
  BY <1>1, <1>5 DEF RType
<1>7. Asked(c)
  BY <1>1, <1>4, AskType DEF Asked
<1>8. \A d \in Calls \ {c} : Goes(d)
  BY <1>1, <1>2, <1>3 DEF Goes
<1>9. \A d \in Calls \ {c} :
        IF TabOf[d] = TabOf[c] THEN refresh'[d].pc # "none" => refresh'[d].left
        ELSE refresh'[d] = refresh[d]
  BY <1>1, <1>2, <1>3, NoRefreshType
<1>10. \A d \in Calls \ {c} :
         refresh'[d].left => \/ refresh'[d] = refresh[d]
                             \/ refresh'[d].pc \in {"read", "revoke", "create", "ok"}
  BY <1>1, <1>2, <1>3, NoRefreshType
<1>11. QED
  BY <1>6, <1>7, <1>8, <1>9, <1>10 DEF Asks

LEMMA ServerSteps ==
  ASSUME TInv, Leads, Next
  PROVE  /\ RType' /\ token' \in [Tokens -> TokenRows] /\ cookie' \in Tokens \cup {None}
         /\ ServerStep
<1>t. /\ RType /\ token \in [Tokens -> TokenRows] /\ cookie \in Tokens \cup {None}
      /\ call \in [Calls -> CallStates] /\ inFlight \in [Tabs -> Calls \cup {None}]
      /\ cookie # None => Used(cookie)
  BY DEF TInv, TypeOK, RType, Unused, Used
<1> DEFINE Typed == /\ RType' /\ token' \in [Tokens -> TokenRows]
                    /\ cookie' \in Tokens \cup {None}
<1>q. CASE Quiet
  BY <1>q, <1>t DEF Quiet, ServerStep, RType
<1>0. ASSUME NEW c \in Calls, NEW path \in {"loading", "login"}, Load(c, path)
      PROVE  Typed /\ ServerStep
  <2>1. RType' /\ Asks(c)
    BY <1>0, <1>t, LoadEffect
  <2>2. refresh[c].pc = "none" /\ UNCHANGED <<token, cookie, history>>
    BY <1>0 DEF Load
  <2>3. QED
    BY <1>t, <2>1, <2>2 DEF ServerStep
<1>1. ASSUME NEW c \in Calls, StartCall(c) \/ AnswerRetry(c) \/ CallFails(c) PROVE Quiet
  BY <1>1 DEF StartCall, AnswerRetry, CallFails, Quiet
<1>2. ASSUME NEW c \in Calls, AnswerCall(c) PROVE Typed /\ ServerStep
  <2>0. UNCHANGED <<token, cookie, history>> /\ call[c].pc = "sent"
    BY <1>2 DEF AnswerCall
  <2>1. CASE UNCHANGED refresh
    BY <1>q, <2>0, <2>1 DEF Quiet
  <2>2. CASE Ensure(c)
    <3>1. call[c].on = None
      BY <2>0, <1>t DEF Leads, Waits, CallStates
    <3>2. refresh[c].pc = "none"
      BY <2>0, <3>1 DEF Leads, Left, Going
    <3>3. RType' /\ (UNCHANGED refresh \/ (Others(c) /\ Asked(c)))
      BY <2>2, <1>t, EnsureEffect
    <3>4. Others(c) /\ Asked(c) => Asks(c)
      BY DEF Others, Asks, Goes
    <3>5. QED
      BY <1>t, <2>0, <2>1, <3>2, <3>3, <3>4 DEF ServerStep
  <2>3. QED
    BY <1>2, <2>1, <2>2 DEF AnswerCall
<1>4. ASSUME NEW l \in Calls, RefreshOk(l) PROVE Typed /\ Succeeds(l)
  <2>1. /\ RType' /\ cookie' = refresh[l].new /\ Crosses({l}) /\ refresh'[l] = NoRefresh
    BY <1>4, <1>t, SetCookieEffect, NoRefreshType DEF RefreshOk
  <2>2. refresh[l].new \in Tokens \cup {None}
    BY <1>t DEF RType, RefreshStates
  <2>3. QED
    BY <1>4, <1>t, <2>1, <2>2 DEF RefreshOk, Succeeds
<1>5. ASSUME NEW l \in Calls, RefreshDenied(l) PROVE Typed /\ Denies(l)
  BY <1>5, <1>t, NoRefreshType DEF RefreshDenied, Denies, RType, Others
<1>51. ASSUME NEW l \in Calls, RefreshUnread(l) PROVE Typed /\ Loses(l)
  BY <1>51, <1>t, NoRefreshType DEF RefreshUnread, Loses, RType, Others
<1>6. ASSUME NEW c \in Calls, RotateRead(c) PROVE Typed /\ Reads(c)
  <2>1. CASE Live(refresh[c].old)
    <3>1. Step(c, "revoke")
      BY <1>6, <2>1 DEF RotateRead
    <3>2. RType' /\ Moves(c, "revoke")
      BY <3>1, <1>t, StepEffect
    <3>3. QED
      BY <1>6, <1>t, <2>1, <3>2 DEF RotateRead, Reads
  <2>2. CASE ~Live(refresh[c].old)
    <3>1. Deny(c, "refused")
      BY <1>6, <2>2 DEF RotateRead
    <3>2. RType' /\ Others(c) /\ Ended(c, "refused")
      BY <3>1, <1>t, DenyEffect
    <3>3. QED
      BY <1>6, <1>t, <2>2, <3>2 DEF RotateRead, Reads
  <2>3. QED
    BY <2>1, <2>2
<1>7. ASSUME NEW c \in Calls, RotateRevoke(c) PROVE Typed /\ Revokes(c)
  <2>1. RType' /\ Moves(c, "create")
    BY <1>7, <1>t, StepEffect DEF RotateRevoke
  <2>2. /\ token' \in [Tokens -> TokenRows] /\ Ends({refresh[c].old})
    BY <1>7, <1>t, Rotated, EndsOne DEF RotateRevoke, Used
  <2>3. QED
    BY <1>7, <1>t, <2>1, <2>2 DEF RotateRevoke, Revokes
<1>8. ASSUME NEW c \in Calls, RotateCreate(c) PROVE Typed /\ Creates(c)
  <2>1. PICK k \in Unused :
          /\ token' = [token EXCEPT ![k] =
                         [state |-> "live", session |-> Session(refresh[c].old)]]
          /\ refresh' = [refresh EXCEPT ![c].pc = "ok", ![c].new = k]
    BY <1>8 DEF RotateCreate
  <2>2. /\ token' \in [Tokens -> TokenRows] /\ Makes(k, Session(refresh[c].old))
    BY <1>8, <1>t, <2>1, Rotated, MakesOne DEF RotateCreate
  <2>3. /\ RType' /\ Others(c) /\ refresh'[c].pc = "ok"
        /\ refresh'[c].old = refresh[c].old /\ refresh'[c].new = k
        /\ refresh'[c].crossed = refresh[c].crossed
        /\ refresh'[c].left = refresh[c].left
    <3> DEFINE p == [refresh[c] EXCEPT !.pc = "ok", !.new = k]
    <3>1. k \in Tokens /\ refresh[c] \in RefreshStates
      BY <1>t DEF RType, Unused
    <3>2. /\ p \in RefreshStates /\ p.pc = "ok" /\ p.new = k
          /\ p.old = refresh[c].old /\ p.crossed = refresh[c].crossed
          /\ p.left = refresh[c].left
      BY <3>1 DEF RefreshStates
    <3>3. refresh' = [refresh EXCEPT ![c] = p]
      BY <1>t, <2>1 DEF RType
    <3> HIDE DEF p
    <3>4. QED
      BY <1>t, <3>2, <3>3 DEF RType, Others
  <2>4. QED
    BY <1>8, <1>t, <2>2, <2>3 DEF RotateCreate, Creates, Unused
<1>9. ASSUME NEW c \in Calls, RefreshFails(c)
      PROVE  Typed /\ (Breaks(c) \/ Loses(c) \/ Succeeds(c))
  <2>0. UNCHANGED <<token, forked, caught, ended>>
    BY <1>9 DEF RefreshFails
  <2>1. CASE /\ refresh[c].pc \in {"read", "revoke", "create"} /\ Deny(c, "failed")
             /\ broken' = IF refresh[c].pc = "create"
                            THEN broken \cup {Session(refresh[c].old)} ELSE broken
             /\ UNCHANGED <<cookie, lost>>
    <3>1. RType' /\ Others(c) /\ Ended(c, "failed")
      BY <2>1, <1>t, DenyEffect
    <3>2. QED
      BY <1>t, <2>0, <2>1, <3>1 DEF Breaks
  <2>2. CASE /\ refresh[c].pc = "ok" /\ Deny(c, "failed")
             /\ lost' = lost \cup {Session(refresh[c].old)}
             /\ UNCHANGED <<cookie, broken>>
    <3>1. RType' /\ Others(c) /\ Ended(c, "failed")
      BY <2>2, <1>t, DenyEffect
    <3>2. QED
      BY <1>t, <2>0, <2>2, <3>1 DEF Loses
  <2>3. CASE /\ refresh[c].pc = "ok"
             /\ SetCookie(refresh[c].new, {c}, Denial(c, "failed"))
             /\ UNCHANGED <<broken, lost>>
    <3>1. refresh'[c] = Denial(c, "failed")
      BY <2>3 DEF SetCookie
    <3>2. Denial(c, "failed") \in RefreshStates /\ Ended(c, "failed")
      BY <3>1, <1>t, DenialType
    <3>3. RType' /\ cookie' = refresh[c].new /\ Crosses({c})
      BY <2>3, <3>2, <1>t, SetCookieEffect
    <3>4. refresh[c].new \in Tokens \cup {None}
      BY <1>t DEF RType, RefreshStates
    <3>5. QED
      BY <1>t, <2>0, <2>3, <3>2, <3>3, <3>4 DEF Succeeds, history
  <2>4. QED
    BY <1>9, <2>1, <2>2, <2>3 DEF RefreshFails
<1>10. ASSUME NEW t \in Tabs, Login(t) PROVE Typed /\ LogsIn
  <2>1. PICK k \in Unused : /\ token' = [token EXCEPT ![k] = [state |-> "live", session |-> k]]
                            /\ SetCookie(k, {}, NoRefresh)
    BY <1>10 DEF Login
  <2>2. k \in Tokens
    BY DEF Unused
  <2>3. token' \in [Tokens -> TokenRows] /\ Makes(k, k)
    BY <1>t, <2>1, <2>2, MakesOne
  <2>4. RType' /\ cookie' = k /\ Crosses({})
    BY <1>t, <2>1, SetCookieEffect, NoRefreshType
  <2>5. QED
    BY <1>10, <2>2, <2>3, <2>4 DEF Login, LogsIn
<1>c. ASSUME NEW sessions, End(sessions) PROVE Catches
  BY <1>c DEF End, Catches
<1>11. ASSUME NEW t \in Tabs, Logout(t) PROVE Typed /\ LogsOut
  <2>1. /\ token' \in [Tokens -> TokenRows]
        /\ Ends(IF Live(cookie) THEN {cookie} ELSE {})
    <3>1. CASE Live(cookie)
      BY <1>11, <1>t, <3>1, EndsOne DEF Logout, Live
    <3>2. CASE ~Live(cookie)
      BY <1>11, <1>t, <3>2, EndsNone DEF Logout
    <3>3. QED
      BY <3>1, <3>2
  <2>2. /\ ended' = ended \cup (IF cookie = None THEN {} ELSE {Session(cookie)})
        /\ UNCHANGED <<cookie, refresh, forked, broken, lost>>
    BY <1>11 DEF Logout, End
  <2>3. Catches
    BY <1>11, <1>c DEF Logout
  <2>4. QED
    BY <1>t, <2>1, <2>2, <2>3 DEF LogsOut, RType
<1>12. ASSUME NEW t \in Tabs, LogoutAnswered(t) PROVE Typed /\ Clears
  <2>1. RType' /\ cookie' = None /\ Crosses({})
    BY <1>12, <1>t, SetCookieEffect, NoRefreshType DEF LogoutAnswered
  <2>2. QED
    BY <1>12, <1>t, <2>1 DEF LogoutAnswered, Clears
<1>13. ASSUME NEW t \in Tabs, ExpireAccess(t) \/ LogoutFails(t) PROVE Quiet
  BY <1>13 DEF ExpireAccess, LogoutFails, Quiet
<1>14. ASSUME NEW k \in Tokens, ExpireRefresh(k) PROVE Typed /\ RunsOut(k)
  <2>1. token' \in [Tokens -> TokenRows] /\ Ends({k}) /\ token'[k].state = "expired"
    BY <1>14, <1>t, EndsOne DEF ExpireRefresh, Live
  <2>2. QED
    BY <1>14, <1>t, <2>1 DEF ExpireRefresh, RunsOut, RType
<1>15. ASSUME ResetPassword PROVE Typed /\ Resets
  <2>1. token' \in [Tokens -> TokenRows] /\ Ends(Tokens)
    BY <1>15, <1>t, EndsAll DEF ResetPassword
  <2>2. Catches
    BY <1>15, <1>c DEF ResetPassword
  <2>3. QED
    BY <1>15, <1>t, <2>1, <2>2 DEF ResetPassword, Resets, End, RType, client
<1>16. \/ \E c \in Calls : \/ \E path \in {"loading", "login"} : Load(c, path)
                           \/ StartCall(c) \/ AnswerCall(c) \/ AnswerRetry(c) \/ CallFails(c)
                           \/ RefreshOk(c) \/ RefreshDenied(c) \/ RefreshUnread(c)
                           \/ RotateRead(c) \/ RotateRevoke(c) \/ RotateCreate(c)
                           \/ RefreshFails(c)
       \/ \E t \in Tabs : \/ Login(t) \/ Logout(t) \/ LogoutAnswered(t) \/ ExpireAccess(t)
                          \/ LogoutFails(t)
       \/ \E k \in Tokens : ExpireRefresh(k)
       \/ ResetPassword
  BY DEF Next, Serve
<1>s. /\ \A c \in Calls : (\/ Reads(c) \/ Revokes(c) \/ Creates(c) \/ Breaks(c)
                           \/ Loses(c) \/ Succeeds(c) \/ Denies(c)) => ServerStep
      /\ \A k \in Tokens : RunsOut(k) => ServerStep
      /\ LogsIn \/ LogsOut \/ Clears \/ Resets => ServerStep
  BY DEF ServerStep
<1> DEFINE Goal == Typed /\ ServerStep
<1>17. Quiet => Goal
  BY <1>q
<1>18. ASSUME NEW c \in Calls,
              \/ \E path \in {"loading", "login"} : Load(c, path)
              \/ StartCall(c) \/ AnswerCall(c) \/ AnswerRetry(c) \/ CallFails(c)
              \/ RefreshOk(c) \/ RefreshDenied(c) \/ RefreshUnread(c)
              \/ RotateRead(c) \/ RotateRevoke(c) \/ RotateCreate(c) \/ RefreshFails(c)
       PROVE  Goal
  <2> HIDE DEF Goal
  <2>1. AnswerCall(c) => Goal
    BY <1>2 DEF Goal
  <2>2. StartCall(c) \/ AnswerRetry(c) \/ CallFails(c) => Goal
    BY <1>1, <1>17
  <2>3. /\ RefreshOk(c) => Goal
        /\ RefreshDenied(c) => Goal
        /\ RefreshUnread(c) => Goal
    <3>1. /\ RefreshOk(c) => Typed /\ Succeeds(c)
          /\ RefreshDenied(c) => Typed /\ Denies(c)
          /\ RefreshUnread(c) => Typed /\ Loses(c)
      BY <1>4, <1>5, <1>51
    <3> HIDE DEF Typed
    <3>2. QED
      BY <3>1, <1>s DEF Goal
  <2>4. /\ RotateRead(c) => Goal
        /\ RotateRevoke(c) => Goal
        /\ RotateCreate(c) => Goal
        /\ RefreshFails(c) => Goal
    <3>1. /\ RotateRead(c) => Typed /\ Reads(c)
          /\ RotateRevoke(c) => Typed /\ Revokes(c)
          /\ RotateCreate(c) => Typed /\ Creates(c)
          /\ RefreshFails(c) => Typed /\ (Breaks(c) \/ Loses(c) \/ Succeeds(c))
      BY <1>6, <1>7, <1>8, <1>9
    <3> HIDE DEF Typed
    <3>2. QED
      BY <3>1, <1>s DEF Goal
  <2>5. \A path \in {"loading", "login"} : Load(c, path) => Goal
    BY <1>0 DEF Goal
  <2>6. QED
    BY <1>18, <2>1, <2>2, <2>3, <2>4, <2>5
<1>19. ASSUME NEW t \in Tabs, \/ Login(t) \/ Logout(t) \/ LogoutAnswered(t) \/ ExpireAccess(t)
                              \/ LogoutFails(t)
       PROVE  Goal
  BY <1>10, <1>11, <1>12, <1>13, <1>17, <1>19, <1>s
<1>20. ASSUME NEW k \in Tokens, ExpireRefresh(k) PROVE Goal
  BY <1>14, <1>20, <1>s
<1>21. ResetPassword => Goal
  BY <1>15, <1>s
<1>22. Goal
  <2> HIDE DEF Goal
  <2>1. QED
    BY <1>16, <1>18, <1>19, <1>20, <1>21
<1>23. QED
  BY <1>22

\* The same of the next state, for a token that is named in this one.
UsedNext(k)    == token'[k].state # "none"
LiveNext(k)    == k # None /\ token'[k].state = "live"
SessionNext(k) == IF k = None THEN None ELSE token'[k].session

LEMMA RowsStay ==
  ASSUME ServerStep, NEW j \in Tokens, Used(j)
  PROVE  /\ UsedNext(j) /\ token'[j].session = token[j].session
         /\ token'[j].state = "live" => token[j].state = "live"
  BY DEF ServerStep, Used, UsedNext, Ends, Makes, Reads, Revokes, Creates, Breaks, Loses,
         Succeeds, Denies, RunsOut, LogsIn, LogsOut, Clears, Resets, Quiet

LEMMA SessionStays ==
  ASSUME ServerStep, NEW k, k = None \/ (k \in Tokens /\ Used(k))
  PROVE  /\ SessionNext(k) = Session(k) /\ (LiveNext(k) => Live(k))
         /\ k # None => UsedNext(k)
  BY RowsStay DEF Session, Live, SessionNext, LiveNext, UsedNext

LEMMA RowsMade ==
  ASSUME ServerStep, NEW j \in Tokens, UsedNext(j), ~Used(j)
  PROVE  \/ LogsIn /\ j = cookie'
         \/ \E c \in Calls : Creates(c) /\ j = refresh'[c].new
  BY DEF ServerStep, Used, UsedNext, Ends, Makes, Reads, Revokes, Creates, Breaks, Loses,
         Succeeds, Denies, RunsOut, LogsIn, LogsOut, Clears, Resets, Quiet

\* What becomes of one refresh.
LEMMA RefreshNext ==
  ASSUME ServerStep, NEW c \in Calls
  PROVE  \/ /\ refresh'[c].old = refresh[c].old /\ refresh'[c].new = refresh[c].new
            /\ refresh'[c].pc = refresh[c].pc
         \/ Reads(c) /\ Live(refresh[c].old) /\ Moves(c, "revoke")
         \/ Revokes(c) /\ Moves(c, "create")
         \/ Creates(c)
         \/ refresh'[c].old = None /\ refresh'[c].pc \in {"none", "refused", "failed"}
         \/ refresh[c].pc = "none" /\ Asked(c) /\ UNCHANGED <<token, cookie, history>>
<1> DEFINE Goal ==
         \/ /\ refresh'[c].old = refresh[c].old /\ refresh'[c].new = refresh[c].new
            /\ refresh'[c].pc = refresh[c].pc
         \/ Reads(c) /\ Live(refresh[c].old) /\ Moves(c, "revoke")
         \/ Revokes(c) /\ Moves(c, "create")
         \/ Creates(c)
         \/ refresh'[c].old = None /\ refresh'[c].pc \in {"none", "refused", "failed"}
         \/ refresh[c].pc = "none" /\ Asked(c) /\ UNCHANGED <<token, cookie, history>>
<1>s. refresh'[c] = refresh[c] => Goal
  OBVIOUS
<1>n. refresh'[c] = NoRefresh => Goal
  BY NoRefreshType
<1>e. Ended(c, "refused") \/ Ended(c, "failed") => Goal
  BY <1>n DEF Ended
<1>x. ASSUME NEW done, c \notin done, Crosses(done) PROVE Goal
  BY <1>x DEF Crosses
<1>1. ASSUME NEW d \in Calls, refresh[d].pc = "none", Asks(d), UNCHANGED <<token, cookie, history>>
      PROVE  Goal
  <2>1. CASE d = c
    BY <1>1, <2>1 DEF Asks
  <2>2. CASE d # c
    <3>1. Goes(c)
      BY <1>1, <2>2 DEF Asks
    <3>2. QED
      BY <3>1, <1>s, <1>n DEF Goes
  <2>3. QED
    BY <2>1, <2>2
<1>2. ASSUME NEW d \in Calls, \/ Reads(d) \/ Revokes(d) \/ Creates(d) \/ Breaks(d) \/ Loses(d)
                              \/ Denies(d)
      PROVE  Goal
  <2>1. CASE d # c
    BY <1>2, <1>s, <2>1 DEF Reads, Revokes, Creates, Breaks, Loses, Denies, Moves, Others
  <2>2. CASE d = c
    <3>1. Reads(c) => Goal
      BY <1>e DEF Reads
    <3>2. Revokes(c) \/ Creates(c) => Goal
      BY DEF Revokes
    <3>3. Breaks(c) \/ Loses(c) \/ Denies(c) => Goal
      BY <1>n, <1>e DEF Breaks, Loses, Denies
    <3>4. QED
      BY <1>2, <2>2, <3>1, <3>2, <3>3
  <2>3. QED
    BY <2>1, <2>2
<1>3. ASSUME NEW d \in Calls, Succeeds(d) PROVE Goal
  BY <1>3, <1>n, <1>e, <1>x DEF Succeeds
<1>4. ASSUME LogsIn \/ Clears PROVE Goal
  BY <1>4, <1>x DEF LogsIn, Clears
<1>5. ASSUME (\E k \in Tokens : RunsOut(k)) \/ LogsOut \/ Resets \/ Quiet PROVE Goal
  BY <1>5 DEF RunsOut, LogsOut, Resets, Quiet
<1>6. Goal
  <2> HIDE DEF Goal
  <2>1. QED
    BY <1>1, <1>2, <1>3, <1>4, <1>5 DEF ServerStep
<1>7. QED
  BY <1>6

\* The tokens that are held somewhere.
LEMMA HeldTokens ==
  ASSUME TInv
  PROVE  /\ cookie = None \/ (cookie \in Tokens /\ Used(cookie))
         /\ \A c \in Calls :
              /\ refresh[c].old = None \/ (refresh[c].old \in Tokens /\ Used(refresh[c].old))
              /\ refresh[c].pc = "ok" =>
                   /\ refresh[c].new \in Tokens /\ Used(refresh[c].new)
                   /\ Session(refresh[c].new) = Session(refresh[c].old)
  BY DEF TInv, Holds, TypeOK, RefreshStates, Unused, Used

LEMMA HoldsNext ==
  ASSUME TInv, ServerStep, RType', NEW c \in Calls
  PROVE  Holds(c)'
<1>o. refresh[c].old = None \/ (refresh[c].old \in Tokens /\ Used(refresh[c].old))
  BY HeldTokens
<1>n. refresh[c].pc = "ok" => refresh[c].new \in Tokens /\ Used(refresh[c].new)
  BY HeldTokens
<1>1. CASE /\ refresh'[c].old = refresh[c].old /\ refresh'[c].new = refresh[c].new
           /\ \/ refresh'[c].pc = refresh[c].pc
              \/ refresh'[c].pc = "revoke" /\ Live(refresh[c].old)
              \/ refresh'[c].pc = "create" /\ refresh[c].pc = "revoke"
  BY <1>1, <1>o, <1>n, SessionStays DEF TInv, Holds, Live, Used, Session, UsedNext, SessionNext
<1>2. CASE refresh'[c].old = None /\ refresh'[c].pc \in {"none", "refused", "failed"}
  BY <1>2 DEF Holds
<1>3. CASE refresh'[c].pc = "read" /\ refresh'[c].old = cookie
  <2>1. cookie = None \/ (cookie \in Tokens /\ Used(cookie))
    BY HeldTokens
  <2>2. QED
    BY <1>3, <2>1, SessionStays DEF Holds, Used, UsedNext
<1>4. CASE Creates(c)
  <2>1. /\ refresh[c].old \in Tokens /\ Used(refresh[c].old)
        /\ Session(refresh[c].old) \in Tokens
    BY <1>4, Rotated DEF Creates
  <2>2. /\ refresh'[c].new \in Tokens /\ UsedNext(refresh'[c].new)
        /\ token'[refresh'[c].new].session = Session(refresh[c].old)
    BY <1>4 DEF Creates, Makes, UsedNext
  <2>3. SessionNext(refresh[c].old) = Session(refresh[c].old) /\ UsedNext(refresh[c].old)
    BY <2>1, SessionStays
  <2>4. refresh'[c].old = refresh[c].old
    BY <1>4 DEF Creates
  <2>5. QED
    BY <2>1, <2>2, <2>3, <2>4 DEF Holds, Session, SessionNext, Used, UsedNext
<1>5. QED
  BY <1>1, <1>2, <1>3, <1>4, RefreshNext DEF Moves, Revokes, Asked

LEMMA RowsUnmade ==
  ASSUME ServerStep, NEW j \in Tokens, ~UsedNext(j)
  PROVE  ~Used(j) /\ token'[j].session = token[j].session
  BY DEF ServerStep, Used, UsedNext, Ends, Makes, Reads, Revokes, Creates, Breaks, Loses,
         Succeeds, Denies, RunsOut, LogsIn, LogsOut, Clears, Resets, Quiet

\* Who ends a session.
LEMMA EndedNext ==
  ASSUME ServerStep, NEW s \in ended', s \notin ended
  PROVE  \/ LogsOut /\ cookie # None /\ s = Session(cookie)
         \/ Resets /\ \E k \in Tokens : s = Session(k) /\ s # None
  BY DEF ServerStep, Reads, Revokes, Creates, Breaks, Loses, Succeeds, Denies,
         RunsOut, LogsIn, LogsOut, Clears, Resets, Quiet, history

LEMMA RootedNext ==
  ASSUME TInv, ServerStep
  PROVE  Rooted' /\ \A s \in ended' : s \in Tokens /\ UsedNext(s)
<1>1. ASSUME NEW j \in Tokens, UsedNext(j)
      PROVE  token'[j].session \in Tokens /\ UsedNext(token'[j].session)
  <2>1. CASE Used(j)
    BY <2>1, RowsStay DEF TInv, Rooted
  <2>2. CASE LogsIn /\ j = cookie'
    BY <1>1, <2>2 DEF LogsIn, Makes, UsedNext
  <2>3. ASSUME NEW c \in Calls, Creates(c), j = refresh'[c].new
        PROVE  token'[j].session \in Tokens /\ UsedNext(token'[j].session)
    <3>1. /\ refresh[c].old \in Tokens /\ Used(refresh[c].old)
          /\ Session(refresh[c].old) \in Tokens
      BY <2>3, Rotated DEF Creates
    <3>2. token'[j].session = Session(refresh[c].old)
      BY <2>3 DEF Creates, Makes
    <3>3. Used(Session(refresh[c].old))
      BY <3>1 DEF TInv, Rooted, Session
    <3>4. QED
      BY <3>1, <3>2, <3>3, RowsStay
  <2>4. QED
    BY <1>1, <2>1, <2>2, <2>3, RowsMade
<1>2. ASSUME NEW j \in Tokens, ~UsedNext(j) PROVE token'[j].session = None
  BY <1>2, RowsUnmade DEF TInv, Rooted
<1>3. ASSUME NEW s \in ended', s \notin ended PROVE s \in Tokens /\ Used(s)
  <2>1. ASSUME NEW k \in Tokens, s = Session(k), s # None PROVE s \in Tokens /\ Used(s)
    BY <2>1 DEF TInv, Rooted, Session
  <2>2. CASE LogsOut /\ cookie # None /\ s = Session(cookie)
    <3>1. cookie \in Tokens /\ Used(cookie)
      BY <2>2, HeldTokens
    <3>2. QED
      BY <2>2, <3>1 DEF TInv, Rooted, Session
  <2>3. QED
    BY <1>3, <2>1, <2>2, EndedNext
<1>4. ASSUME NEW s \in ended' PROVE s \in Tokens /\ UsedNext(s)
  BY <1>3, <1>4, RowsStay DEF TInv
<1>5. QED
  BY <1>1, <1>2, <1>4 DEF Rooted, Used, UsedNext

-----------------------------------------------------------------------------
(* A refresh that nobody crossed was sent with the cookie as it is, and one *)
(* that was refused had no live token.                                      *)

Uncrossed ==
  \A c \in Calls :
    refresh[c].pc # "none" /\ ~refresh[c].crossed /\ ~refresh[c].left =>
      /\ refresh[c].pc \notin {"refused", "failed"} => cookie = refresh[c].old
      /\ refresh[c].pc = "refused" => ~Live(cookie)

FitsNext(c) ==
  refresh'[c].pc # "none" /\ ~refresh'[c].crossed /\ ~refresh'[c].left =>
    /\ refresh'[c].pc \notin {"refused", "failed"} => cookie' = refresh'[c].old
    /\ refresh'[c].pc = "refused" => ~LiveNext(cookie')

LEMMA UncrossedNext ==
  ASSUME TInv, Uncrossed, ServerStep PROVE Uncrossed'
<1> SUFFICES ASSUME NEW c \in Calls PROVE FitsNext(c)
  BY DEF Uncrossed, Live, LiveNext, FitsNext
<1> DEFINE Fits == FitsNext(c)
<1>s. UNCHANGED cookie => (LiveNext(cookie') => Live(cookie))
  BY HeldTokens, SessionStays
<1>u. ASSUME UNCHANGED cookie, refresh'[c] = refresh[c] PROVE Fits
  BY <1>s, <1>u DEF Uncrossed, FitsNext
<1>n. refresh'[c] = NoRefresh => Fits
  BY NoRefreshType DEF FitsNext
<1>x. ASSUME NEW done, c \notin done, Crosses(done) PROVE Fits
  BY <1>x DEF Crosses, FitsNext
<1>f. Ended(c, "failed") => Fits
  BY <1>n DEF Ended, FitsNext
<1>1. ASSUME NEW d \in Calls, Asks(d), UNCHANGED <<token, cookie, history>> PROVE Fits
  <2>1. CASE d = c
    BY <1>1, <2>1 DEF Asks, Asked, FitsNext
  <2>2. CASE d # c
    <3>1. Goes(c)
      BY <1>1, <2>2 DEF Asks
    <3>2. QED
      BY <1>1, <1>u, <1>n, <3>1 DEF Goes, FitsNext
  <2>3. QED
    BY <2>1, <2>2
<1>2. ASSUME NEW d \in Calls, \/ Reads(d) \/ Revokes(d) \/ Creates(d) \/ Breaks(d) \/ Loses(d)
                              \/ Denies(d)
      PROVE  Fits
  <2>0. UNCHANGED cookie
    BY <1>2 DEF Reads, Revokes, Creates, Breaks, Loses, Denies, history
  <2>1. CASE d # c
    BY <1>2, <1>u, <2>0, <2>1 DEF Reads, Revokes, Creates, Breaks, Loses, Denies, Moves, Others
  <2>2. Reads(c) => Fits
    <3>1. CASE Reads(c) /\ Moves(c, "revoke")
      BY <2>0, <3>1 DEF Moves, Reads, Uncrossed, FitsNext
    <3>2. CASE Reads(c) /\ ~Live(refresh[c].old) /\ Ended(c, "refused")
      BY <1>n, <1>s, <2>0, <3>2 DEF Reads, Ended, Uncrossed, FitsNext
    <3>3. QED
      BY <3>1, <3>2 DEF Reads
  <2>3. Revokes(c) \/ Creates(c) => Fits
    BY <2>0 DEF Revokes, Creates, Moves, Uncrossed, FitsNext
  <2>4. Breaks(c) \/ Loses(c) \/ Denies(c) => Fits
    BY <1>n, <1>f DEF Breaks, Loses, Denies
  <2>5. QED
    BY <1>2, <2>1, <2>2, <2>3, <2>4
<1>3. ASSUME NEW d \in Calls, Succeeds(d) PROVE Fits
  BY <1>3, <1>n, <1>f, <1>x DEF Succeeds
<1>4. ASSUME LogsIn \/ Clears PROVE Fits
  BY <1>4, <1>x DEF LogsIn, Clears
<1>5. ASSUME (\E k \in Tokens : RunsOut(k)) \/ LogsOut \/ Resets \/ Quiet PROVE Fits
  BY <1>5, <1>u DEF RunsOut, LogsOut, Resets, Quiet
<1>6. ASSUME NEW d \in Calls,
             \/ refresh[d].pc = "none" /\ Asks(d) /\ UNCHANGED <<token, cookie, history>>
             \/ Reads(d) \/ Revokes(d) \/ Creates(d) \/ Breaks(d) \/ Loses(d)
             \/ Succeeds(d) \/ Denies(d)
      PROVE  Fits
  <2> HIDE DEF Fits
  <2>1. QED
    BY <1>1, <1>2, <1>3, <1>6
<1>7. QED
  BY <1>4, <1>5, <1>6 DEF ServerStep

-----------------------------------------------------------------------------
(* A session whose tokens were never read twice at once. *)

Rotates(c, s) == /\ refresh[c].pc \in {"revoke", "create"}
                 /\ Session(refresh[c].old) = s

Single ==
  \A s \in Tokens \ forked :
    /\ \A j, k \in Tokens : Live(j) /\ Live(k) /\ Session(j) = s /\ Session(k) = s => j = k
    /\ \A c, d \in Calls : Rotates(c, s) /\ Rotates(d, s) => c = d
    /\ \A c \in Calls, k \in Tokens :
         Rotates(c, s) /\ Live(k) /\ Session(k) = s =>
           refresh[c].pc = "revoke" /\ k = refresh[c].old

RotatesNext(c, s) == /\ refresh'[c].pc \in {"revoke", "create"}
                     /\ SessionNext(refresh'[c].old) = s

\* A live token was live, or has been made for its session.
LEMMA LiveBefore ==
  ASSUME TInv, ServerStep, NEW k \in Tokens, LiveNext(k)
  PROVE  \/ Used(k) /\ Live(k) /\ SessionNext(k) = Session(k)
         \/ LogsIn /\ ~Used(k) /\ SessionNext(k) = k
         \/ /\ ~Used(k)
            /\ \E c \in Calls : /\ Creates(c) /\ k = refresh'[c].new
                                /\ SessionNext(k) = Session(refresh[c].old)
<1>1. CASE Used(k)
  BY <1>1, RowsStay DEF Live, LiveNext, Session, SessionNext
<1>2. CASE ~Used(k)
  <2>1. UsedNext(k)
    BY DEF LiveNext, UsedNext
  <2>2. QED
    BY <1>2, <2>1, RowsMade DEF LogsIn, Creates, Makes, SessionNext, Used, UsedNext
<1>3. QED
  BY <1>1, <1>2

\* Whoever rotates did so, or has just read a live token.
LEMMA RotatedBefore ==
  ASSUME TInv, ServerStep, NEW s \in Tokens, NEW c \in Calls, RotatesNext(c, s)
  PROVE  /\ refresh'[c].old = refresh[c].old /\ Session(refresh[c].old) = s
         /\ refresh[c].old \in Tokens /\ Used(refresh[c].old)
         /\ \/ Rotates(c, s) /\ refresh'[c].pc = refresh[c].pc /\ ~Revokes(c) /\ ~Creates(c)
            \/ Rotates(c, s) /\ Revokes(c) /\ refresh'[c].pc = "create"
            \/ Reads(c) /\ Live(refresh[c].old) /\ refresh'[c].pc = "revoke"
<1>1. /\ refresh'[c].old = refresh[c].old
      /\ \/ /\ refresh'[c].pc = refresh[c].pc /\ ~Revokes(c) /\ ~Creates(c)
         \/ /\ Revokes(c) /\ refresh[c].pc = "revoke" /\ refresh'[c].pc = "create"
         \/ /\ Reads(c) /\ Live(refresh[c].old) /\ refresh'[c].pc = "revoke"
  <2>1. refresh'[c].pc \in {"revoke", "create"}
    BY DEF RotatesNext
  <2>2. ~Creates(c)
    BY <2>1 DEF Creates
  <2>3. Revokes(c) => refresh[c].pc = "revoke" /\ Moves(c, "create")
    BY DEF Revokes
  <2>4. QED
    BY <2>1, <2>2, <2>3, RefreshNext DEF Moves, Asked
<1>2. refresh[c].old = None \/ (refresh[c].old \in Tokens /\ Used(refresh[c].old))
  BY DEF TInv, Holds, TypeOK, RefreshStates
<1>3. Session(refresh[c].old) = s
  BY <1>1, <1>2, SessionStays DEF RotatesNext
<1>4. refresh[c].old # None
  BY <1>3 DEF Session
<1>5. QED
  BY <1>1, <1>2, <1>3, <1>4 DEF Rotates, RotatesNext

\* A new token is the only one of its session, and nobody else rotates it.
LEMMA CreatedAlone ==
  ASSUME TInv, Single, ServerStep, NEW c \in Calls, Creates(c),
         NEW s \in Tokens \ forked, Session(refresh[c].old) = s
  PROVE  /\ \A k \in Tokens : LiveNext(k) /\ SessionNext(k) = s => k = refresh'[c].new
         /\ \A d \in Calls : ~RotatesNext(d, s)
<1>1. Rotates(c, s) /\ refresh[c].pc = "create" /\ refresh'[c].pc = "ok"
  BY DEF Creates, Rotates
<1>2. /\ \A k \in Tokens : Live(k) => Session(k) # s
      /\ \A d \in Calls : Rotates(d, s) => d = c
  BY <1>1 DEF Single
<1>3. ASSUME NEW d \in Calls, d # c PROVE ~Reads(d) /\ ~Revokes(d) /\ ~Creates(d)
  BY <1>1, <1>3 DEF Creates, Reads, Revokes, Moves, Others
<1>4. ~LogsIn
  BY <1>1 DEF LogsIn, Crosses
<1>5. \A k \in Tokens : LiveNext(k) /\ SessionNext(k) = s => k = refresh'[c].new
  BY <1>2, <1>3, <1>4, LiveBefore
<1>6. \A d \in Calls : ~RotatesNext(d, s)
  BY <1>1, <1>2, <1>3, RotatedBefore DEF RotatesNext
<1>7. QED
  BY <1>5, <1>6

LEMMA SingleNext ==
  ASSUME TInv, Single, ServerStep PROVE Single'
<1> DEFINE LiveOf(k, s) == LiveNext(k) /\ SessionNext(k) = s
<1> SUFFICES ASSUME NEW s \in Tokens \ forked'
             PROVE  /\ \A j, k \in Tokens : LiveOf(j, s) /\ LiveOf(k, s) => j = k
                    /\ \A c, d \in Calls : RotatesNext(c, s) /\ RotatesNext(d, s) => c = d
                    /\ \A c \in Calls, k \in Tokens :
                         RotatesNext(c, s) /\ LiveOf(k, s) =>
                           refresh'[c].pc = "revoke" /\ k = refresh'[c].old
  BY DEF Single, Live, Session, Rotates, LiveNext, SessionNext, RotatesNext
<1>f. s \notin forked
  BY DEF ServerStep, Reads, Revokes, Creates, Breaks, Loses, Succeeds, Denies, RunsOut, LogsIn,
         LogsOut, Clears, Resets, Quiet, history
<1>h. /\ \A j, k \in Tokens : Live(j) /\ Live(k) /\ Session(j) = s /\ Session(k) = s => j = k
      /\ \A c, d \in Calls : Rotates(c, s) /\ Rotates(d, s) => c = d
      /\ \A c \in Calls, k \in Tokens :
           Rotates(c, s) /\ Live(k) /\ Session(k) = s =>
             refresh[c].pc = "revoke" /\ k = refresh[c].old
  BY <1>f DEF Single
<1>u. ASSUME ~Used(s)
      PROVE  /\ \A k \in Tokens : Used(k) => Session(k) # s
             /\ \A c \in Calls : ~Rotates(c, s)
  <2>1. \A k \in Tokens : Used(k) => Session(k) # s
    BY <1>u DEF TInv, Rooted, Session
  <2>2. QED
    BY <2>1, Rotated DEF Rotates
<1>1. CASE LogsIn /\ ~Used(s)
  <2>1. \A k \in Tokens : LiveOf(k, s) => k = s
    BY <1>1, <1>u, LiveBefore DEF Creates, Rotates
  <2>2. \A c \in Calls : ~RotatesNext(c, s)
    BY <1>1, <1>u, RotatedBefore
  <2>3. QED
    BY <2>1, <2>2
<1>2. ASSUME NEW c \in Calls, Creates(c), Session(refresh[c].old) = s
      PROVE  /\ \A k \in Tokens : LiveOf(k, s) => k = refresh'[c].new
             /\ \A d \in Calls : ~RotatesNext(d, s)
  BY <1>2, <1>f, CreatedAlone
<1>3. ASSUME NEW c \in Calls, Reads(c), Live(refresh[c].old), Session(refresh[c].old) = s,
             refresh'[c].pc = "revoke"
      PROVE  /\ \A k \in Tokens : LiveOf(k, s) => k = refresh[c].old
             /\ \A d \in Calls : RotatesNext(d, s) => d = c
  <2>0. refresh[c].old \in Tokens /\ refresh[c].pc = "read" /\ UNCHANGED token
    BY <1>3 DEF TInv, TypeOK, RefreshStates, Live, Reads
  <2>1. \A k \in Tokens : LiveOf(k, s) => k = refresh[c].old
    BY <1>3, <1>h, <2>0 DEF LiveNext, SessionNext, Live, Session
  <2>2. ASSUME NEW d \in Calls, d # c, Rotates(d, s) PROVE FALSE
    <3>1. refresh[d].pc = "revoke" /\ refresh[c].old = refresh[d].old
      BY <1>3, <1>h, <2>0, <2>2
    <3>2. s \in forked'
      BY <1>3, <2>2, <3>1 DEF Reads
    <3>3. QED
      BY <3>2
  <2>3. ASSUME NEW d \in Calls, d # c PROVE ~Reads(d)
    BY <1>3, <2>0, <2>3 DEF Reads, Moves, Others
  <2>4. QED
    BY <2>1, <2>2, <2>3, RotatedBefore
<1>4. ASSUME NEW c \in Calls, Revokes(c), Session(refresh[c].old) = s
      PROVE  \A k \in Tokens : ~LiveOf(k, s)
  <2>1. Rotates(c, s) /\ UNCHANGED cookie /\ refresh[c].pc = "revoke" /\ refresh'[c].pc = "create"
    BY <1>4 DEF Revokes, Rotates, Moves
  <2>2. ASSUME NEW k \in Tokens, LiveOf(k, s) PROVE FALSE
    <3>1. Live(k) /\ Session(k) = s /\ k # refresh[c].old
      BY <1>4, <2>2 DEF Revokes, Ends, Live, Session, LiveNext, SessionNext
    <3>2. QED
      BY <1>h, <2>1, <3>1
  <2>3. QED
    BY <2>2
<1>5. CASE /\ ~(LogsIn /\ ~Used(s))
           /\ \A c \in Calls : ~(Creates(c) /\ Session(refresh[c].old) = s)
  <2>1. \A k \in Tokens : LiveOf(k, s) => Live(k) /\ Session(k) = s
    BY <1>5, LiveBefore
  <2>2. \A j, k \in Tokens : LiveOf(j, s) /\ LiveOf(k, s) => j = k
    BY <1>h, <2>1
  <2>3. \A c, d \in Calls : RotatesNext(c, s) /\ RotatesNext(d, s) => c = d
    BY <1>h, <1>3, RotatedBefore
  <2>4. ASSUME NEW c \in Calls, NEW k \in Tokens, RotatesNext(c, s), LiveOf(k, s)
        PROVE  refresh'[c].pc = "revoke" /\ k = refresh'[c].old
    BY <1>h, <1>3, <1>4, <2>1, <2>4, RotatedBefore
  <2>5. QED
    BY <2>2, <2>3, <2>4
<1>6. QED
  BY <1>1, <1>2, <1>5

-----------------------------------------------------------------------------
(* The cookie, and the answers that will set it. *)

\* Nobody has a new token before its answer sets the cookie.
Unseen ==
  \A c \in Calls :
    refresh[c].pc = "ok" =>
      /\ refresh[c].new # cookie
      /\ \A d \in Calls : /\ refresh[d].old # refresh[c].new
                          /\ d # c /\ refresh[d].pc = "ok" => refresh[d].new # refresh[c].new

LEMMA OldNext ==
  ASSUME ServerStep, NEW c \in Calls
  PROVE  refresh'[c].old \in {refresh[c].old, cookie, None}
  BY RefreshNext DEF Moves, Creates, Asked

LEMMA OkNext ==
  ASSUME ServerStep, NEW c \in Calls, refresh'[c].pc = "ok"
  PROVE  \/ Creates(c)
         \/ /\ refresh[c].pc = "ok" /\ refresh'[c].new = refresh[c].new
            /\ refresh'[c].old = refresh[c].old /\ ~Succeeds(c)
<1>1. ~Succeeds(c)
  BY NoRefreshType DEF Succeeds, Ended
<1>2. QED
  BY <1>1, RefreshNext DEF Moves, Asked

LEMMA CookieNext ==
  ASSUME ServerStep
  PROVE  \/ cookie' = cookie
         \/ cookie' = None /\ Clears
         \/ LogsIn /\ ~Used(cookie')
         \/ \E l \in Calls : Succeeds(l) /\ cookie' = refresh[l].new
  BY DEF ServerStep, Reads, Revokes, Creates, Breaks, Loses, Succeeds, Denies, RunsOut, LogsIn,
     LogsOut, Clears, Resets, Quiet, Makes, Used

LEMMA UnseenNext ==
  ASSUME TInv, Unseen, ServerStep PROVE Unseen'
<1> SUFFICES ASSUME NEW c \in Calls, refresh'[c].pc = "ok"
             PROVE  /\ refresh'[c].new # cookie'
                    /\ \A d \in Calls :
                         /\ refresh'[d].old # refresh'[c].new
                         /\ d # c /\ refresh'[d].pc = "ok" => refresh'[d].new # refresh'[c].new
  BY DEF Unseen
<1>1. CASE Creates(c)
  <2>1. /\ refresh'[c].new \in Tokens /\ ~Used(refresh'[c].new) /\ cookie' = cookie
        /\ \A d \in Calls : d # c => refresh'[d] = refresh[d]
        /\ refresh'[c].old = refresh[c].old
    BY <1>1 DEF Creates, Makes, Used, Others
  <2>2. QED
    BY <2>1, HeldTokens
<1>2. CASE /\ refresh[c].pc = "ok" /\ refresh'[c].new = refresh[c].new /\ ~Succeeds(c)
  <2>1. /\ refresh[c].new # cookie /\ refresh[c].new # None /\ Used(refresh[c].new)
        /\ \A d \in Calls : /\ refresh[d].old # refresh[c].new
                            /\ d # c /\ refresh[d].pc = "ok" => refresh[d].new # refresh[c].new
    BY <1>2, HeldTokens DEF Unseen
  <2>2. refresh'[c].new # cookie'
    BY <1>2, <2>1, CookieNext DEF Succeeds
  <2>3. ASSUME NEW d \in Calls PROVE refresh'[d].old # refresh'[c].new
    BY <1>2, <2>1, OldNext
  <2>4. ASSUME NEW d \in Calls, d # c, refresh'[d].pc = "ok"
        PROVE  refresh'[d].new # refresh'[c].new
    <3>1. CASE Creates(d)
      BY <1>2, <2>1, <3>1 DEF Creates, Makes, Used
    <3>2. QED
      BY <1>2, <2>1, <2>4, <3>1, OkNext
  <2>5. QED
    BY <2>2, <2>3, <2>4
<1>3. QED
  BY <1>1, <1>2, OkNext

-----------------------------------------------------------------------------
(* The newest token of a session. *)

Gets(c, s) == refresh[c].pc = "ok" /\ Session(refresh[c].old) = s

\* An answer on its way has the only token of its session, and otherwise the
\* cookie is the only one that can be live, unless an answer was lost.
Latest ==
  \A s \in Tokens \ forked :
    /\ \A c \in Calls : Gets(c, s) =>
         /\ \A k \in Tokens : Live(k) /\ Session(k) = s => k = refresh[c].new
         /\ \A d \in Calls : ~Rotates(d, s) /\ (Gets(d, s) => d = c)
    /\ (/\ s \notin lost /\ cookie # None /\ Session(cookie) = s
        /\ \A c \in Calls : ~Gets(c, s)) =>
         \A k \in Tokens : Live(k) /\ Session(k) = s => k = cookie

GetsNext(c, s) == refresh'[c].pc = "ok" /\ SessionNext(refresh'[c].old) = s

LEMMA GetsBefore ==
  ASSUME TInv, ServerStep, NEW c \in Calls, NEW s \in Tokens, GetsNext(c, s)
  PROVE  \/ Creates(c) /\ Rotates(c, s)
         \/ Gets(c, s) /\ refresh'[c].new = refresh[c].new
<1>1. /\ refresh'[c].old = refresh[c].old
      /\ \/ Creates(c)
         \/ refresh[c].pc = "ok" /\ refresh'[c].new = refresh[c].new
  BY OkNext DEF GetsNext, Creates
<1>2. Session(refresh[c].old) = s
  BY <1>1, HeldTokens, SessionStays DEF GetsNext
<1>3. QED
  BY <1>1, <1>2 DEF Gets, Rotates, Creates

\* An answer on its way, or one still to be made, comes unless it fails.
LEMMA PendingGoes ==
  ASSUME ServerStep, NEW c \in Calls, refresh[c].pc \in {"create", "ok"}
  PROVE  \/ /\ refresh'[c].old = refresh[c].old
            /\ \/ refresh'[c].pc = refresh[c].pc
               \/ Creates(c) /\ refresh'[c].pc = "ok"
         \/ refresh[c].pc = "create" /\ Breaks(c)
         \/ Loses(c) \/ Succeeds(c)
<1> DEFINE Goal ==
         \/ /\ refresh'[c].old = refresh[c].old
            /\ \/ refresh'[c].pc = refresh[c].pc
               \/ Creates(c) /\ refresh'[c].pc = "ok"
         \/ refresh[c].pc = "create" /\ Breaks(c)
         \/ Loses(c) \/ Succeeds(c)
<1>s. refresh'[c] = refresh[c] => Goal
  OBVIOUS
<1>x. ASSUME NEW done, c \notin done, Crosses(done) PROVE Goal
  BY <1>x DEF Crosses
<1>1. ASSUME NEW d \in Calls, refresh[d].pc = "none", Asks(d) PROVE Goal
  BY <1>1 DEF Asks, Goes
<1>2. ASSUME NEW d \in Calls, \/ Reads(d) \/ Revokes(d) \/ Creates(d) \/ Breaks(d) \/ Loses(d)
                              \/ Denies(d)
      PROVE  Goal
  <2>1. CASE d # c
    BY <1>2, <1>s, <2>1 DEF Reads, Revokes, Creates, Breaks, Loses, Denies, Moves, Others
  <2>2. CASE d = c
    <3>1. ~Reads(c) /\ ~Revokes(c) /\ ~Denies(c)
      BY DEF Reads, Revokes, Denies
    <3>2. Creates(c) => Goal
      BY DEF Creates
    <3>3. Breaks(c) \/ Loses(c) => Goal
      BY DEF Breaks
    <3>4. QED
      BY <1>2, <2>2, <3>1, <3>2, <3>3
  <2>3. QED
    BY <2>1, <2>2
<1>3. ASSUME NEW d \in Calls, Succeeds(d) PROVE Goal
  BY <1>3, <1>x DEF Succeeds
<1>4. ASSUME LogsIn \/ Clears PROVE Goal
  BY <1>4, <1>x DEF LogsIn, Clears
<1>5. ASSUME (\E k \in Tokens : RunsOut(k)) \/ LogsOut \/ Resets \/ Quiet PROVE Goal
  BY <1>5, <1>s DEF RunsOut, LogsOut, Resets, Quiet
<1>6. ASSUME NEW d \in Calls,
             \/ refresh[d].pc = "none" /\ Asks(d) /\ UNCHANGED <<token, cookie, history>>
             \/ Reads(d) \/ Revokes(d) \/ Creates(d) \/ Breaks(d) \/ Loses(d)
             \/ Succeeds(d) \/ Denies(d)
      PROVE  Goal
  <2> HIDE DEF Goal
  <2>1. QED
    BY <1>1, <1>2, <1>3, <1>6
<1>7. Goal
  <2> HIDE DEF Goal
  <2>1. QED
    BY <1>4, <1>5, <1>6 DEF ServerStep
<1>8. QED
  BY <1>7

LEMMA HistoryGrows ==
  ASSUME ServerStep
  PROVE  /\ forked \subseteq forked' /\ broken \subseteq broken' /\ lost \subseteq lost'
         /\ caught \subseteq caught' /\ ended \subseteq ended'
  BY DEF ServerStep, Reads, Revokes, Creates, Breaks, Loses, Succeeds, Denies, RunsOut, LogsIn,
         LogsOut, Clears, Resets, Catches, Quiet, history

LEMMA LatestNext ==
  ASSUME TInv, Single, Unseen, Latest, ServerStep PROVE Latest'
<1> DEFINE LiveOf(k, s) == LiveNext(k) /\ SessionNext(k) = s
<1> SUFFICES ASSUME NEW s \in Tokens \ forked'
             PROVE  /\ \A c \in Calls : GetsNext(c, s) =>
                         /\ \A k \in Tokens : LiveOf(k, s) => k = refresh'[c].new
                         /\ \A d \in Calls : ~RotatesNext(d, s) /\ (GetsNext(d, s) => d = c)
                    /\ (/\ s \notin lost' /\ cookie' # None /\ SessionNext(cookie') = s
                        /\ \A c \in Calls : ~GetsNext(c, s)) =>
                         \A k \in Tokens : LiveOf(k, s) => k = cookie'
  BY DEF Latest, Live, Session, Rotates, Gets, LiveNext, SessionNext, RotatesNext, GetsNext
<1>f. s \in Tokens \ forked
  BY HistoryGrows
<1>l. \A c \in Calls : Gets(c, s) =>
        /\ \A k \in Tokens : Live(k) /\ Session(k) = s => k = refresh[c].new
        /\ \A d \in Calls : ~Rotates(d, s) /\ (Gets(d, s) => d = c)
  BY <1>f DEF Latest
<1>u. ASSUME NEW k \in Tokens, Used(k), Session(k) = s PROVE Used(s)
  BY <1>u DEF TInv, Rooted, Session
<1>1. ASSUME NEW c \in Calls, Creates(c), Rotates(c, s), GetsNext(c, s)
      PROVE  /\ \A k \in Tokens : LiveOf(k, s) => k = refresh'[c].new
             /\ \A d \in Calls : ~RotatesNext(d, s) /\ (GetsNext(d, s) => d = c)
  <2>1. /\ \A k \in Tokens : LiveOf(k, s) => k = refresh'[c].new
        /\ \A d \in Calls : ~RotatesNext(d, s)
    BY <1>1, <1>f, CreatedAlone DEF Rotates
  <2>2. ASSUME NEW d \in Calls, d # c PROVE ~GetsNext(d, s)
    <3>1. ~Creates(d)
      BY <1>1, <2>2 DEF Creates, Others
    <3>2. ~Gets(d, s)
      BY <1>1, <1>l
    <3>3. QED
      BY <3>1, <3>2, GetsBefore
  <2>3. QED
    BY <2>1, <2>2
<1>2. ASSUME NEW c \in Calls, Gets(c, s), refresh'[c].new = refresh[c].new
      PROVE  /\ \A k \in Tokens : LiveOf(k, s) => k = refresh'[c].new
             /\ \A d \in Calls : ~RotatesNext(d, s) /\ (GetsNext(d, s) => d = c)
  <2>1. /\ refresh[c].new \in Tokens /\ Used(refresh[c].new) /\ Session(refresh[c].new) = s
        /\ \A d \in Calls : refresh[d].old # refresh[c].new
    BY <1>2, HeldTokens DEF Gets, Unseen
  <2>2. Used(s)
    BY <1>u, <2>1
  <2>3. ASSUME NEW d \in Calls, Session(refresh[d].old) = s PROVE ~Creates(d)
    BY <1>2, <1>l, <2>3 DEF Creates, Rotates
  <2>4. \A k \in Tokens : LiveOf(k, s) => k = refresh'[c].new
    BY <1>2, <1>l, <2>2, <2>3, LiveBefore
  <2>5. ASSUME NEW d \in Calls PROVE ~RotatesNext(d, s)
    <3>1. ~Rotates(d, s)
      BY <1>2, <1>l
    <3>2. ASSUME Live(refresh[d].old), Session(refresh[d].old) = s, refresh[d].old \in Tokens
          PROVE  FALSE
      BY <1>2, <1>l, <2>1, <3>2
    <3>3. QED
      BY <3>1, <3>2, RotatedBefore
  <2>6. ASSUME NEW d \in Calls, GetsNext(d, s) PROVE d = c
    BY <1>2, <1>l, <2>6, GetsBefore
  <2>7. QED
    BY <2>4, <2>5, <2>6
<1>3. ASSUME s \notin lost', cookie' # None, SessionNext(cookie') = s,
             \A c \in Calls : ~GetsNext(c, s), NEW k \in Tokens, LiveOf(k, s)
      PROVE  k = cookie'
  <2>c. ASSUME NEW c \in Calls, Creates(c), Session(refresh[c].old) = s PROVE FALSE
    <3>1. refresh'[c].old = refresh[c].old /\ refresh'[c].pc = "ok" /\ refresh[c].pc = "create"
      BY <2>c DEF Creates
    <3>2. refresh[c].old = None \/ (refresh[c].old \in Tokens /\ Used(refresh[c].old))
      BY HeldTokens
    <3>3. GetsNext(c, s)
      BY <2>c, <3>1, <3>2, SessionStays DEF GetsNext
    <3>4. QED
      BY <1>3, <3>3
  <2>1. ASSUME NEW l \in Calls, Succeeds(l), cookie' = refresh[l].new PROVE k = cookie'
    <3>1. refresh[l].pc = "ok" /\ UNCHANGED token
      BY <2>1 DEF Succeeds
    <3>2. Session(refresh[l].new) = s /\ Live(k) /\ Session(k) = s
      BY <1>3, <2>1, <3>1 DEF Session, SessionNext, Live, LiveNext
    <3>3. Gets(l, s)
      BY <3>1, <3>2, HeldTokens DEF Gets
    <3>4. QED
      BY <1>l, <2>1, <3>2, <3>3
  <2>2. CASE LogsIn /\ ~Used(cookie')
    <3>1. s = cookie' /\ ~Used(s)
      BY <1>3, <2>2 DEF LogsIn, Makes, SessionNext
    <3>2. ~(Used(k) /\ Session(k) = s)
      BY <1>u, <3>1
    <3>3. QED
      BY <1>3, <2>c, <3>1, <3>2, LiveBefore
  <2>3. CASE cookie' = cookie
    <3>1. cookie \in Tokens /\ Used(cookie) /\ Session(cookie) = s
      BY <1>3, <2>3, HeldTokens, SessionStays
    <3>2. Used(s)
      BY <1>u, <3>1
    <3>3. ASSUME NEW c \in Calls, Gets(c, s) PROVE FALSE
      <4>1. refresh[c].pc = "ok" /\ Session(refresh[c].old) = s
        BY <3>3 DEF Gets
      <4>2. ~Loses(c)
        BY <1>3, <4>1 DEF Loses
      <4>3. ~Succeeds(c)
        BY <2>3, <4>1 DEF Succeeds, Unseen
      <4>4. refresh'[c].old = refresh[c].old /\ refresh'[c].pc = "ok"
        BY <4>1, <4>2, <4>3, PendingGoes DEF Creates
      <4>5. GetsNext(c, s)
        BY <4>1, <4>4, HeldTokens, SessionStays DEF GetsNext
      <4>6. QED
        BY <1>3, <4>5
    <3>4. s \notin lost
      BY <1>3, HistoryGrows
    <3>5. \A j \in Tokens : Live(j) /\ Session(j) = s => j = cookie
      BY <1>f, <3>1, <3>3, <3>4 DEF Latest
    <3>6. QED
      BY <1>3, <2>c, <2>3, <3>2, <3>5, LiveBefore
  <2>4. QED
    BY <1>3, <2>1, <2>2, <2>3, CookieNext
<1>4. QED
  BY <1>1, <1>2, <1>3, GetsBefore

-----------------------------------------------------------------------------
(* A session that nothing happened to. *)

Undisturbed(s) == s \notin broken \cup lost \cup ended \cup forked

\* Live, or run out by itself.
Sound(k) == k # None /\ token[k].state \in {"live", "expired"}

Current ==
  /\ \A c \in Calls :
       refresh[c].pc = "ok" /\ Undisturbed(Session(refresh[c].new)) => Sound(refresh[c].new)
  /\ cookie # None /\ Undisturbed(Session(cookie)) =>
       \/ Sound(cookie)
       \/ \E c \in Calls : /\ refresh[c].pc \in {"create", "ok"}
                           /\ Session(refresh[c].old) = Session(cookie)

UndisturbedNext(s) == s \notin broken' \cup lost' \cup ended' \cup forked'
SoundNext(k) == k # None /\ token'[k].state \in {"live", "expired"}

\* What revokes a token.
LEMMA SoundEnds ==
  ASSUME ServerStep, NEW k \in Tokens, Sound(k), ~SoundNext(k)
  PROVE  \/ \E c \in Calls : Revokes(c) /\ refresh[c].old = k
         \/ LogsOut /\ k = cookie
         \/ Resets
<1>1. \A j \in Tokens : RunsOut(j) => j # k
  BY DEF RunsOut, Sound, SoundNext
<1>2. ASSUME NEW K, Ends(K) PROVE k \in K
  BY <1>2 DEF Ends, Sound, SoundNext
<1>3. ASSUME NEW j, NEW s, Makes(j, s) PROVE FALSE
  BY <1>3 DEF Makes, Sound, SoundNext
<1>4. ~UNCHANGED token
  BY DEF Sound, SoundNext
<1>5. LogsOut => k = cookie
  BY <1>2 DEF LogsOut
<1>6. \A j \in Tokens : ~RunsOut(j)
  BY <1>1, <1>2 DEF RunsOut
<1>7. \A c \in Calls : /\ Revokes(c) => refresh[c].old = k
                       /\ ~Creates(c)
  BY <1>2, <1>3 DEF Revokes, Creates
<1>8. ~LogsIn
  BY <1>3 DEF LogsIn
<1>9. QED
  BY <1>4, <1>5, <1>6, <1>7, <1>8
     DEF ServerStep, Reads, Breaks, Loses, Succeeds, Denies, Clears, Quiet

LEMMA CurrentNext ==
  ASSUME TInv, Unseen, Current, ServerStep PROVE Current'
<1>1. ASSUME NEW c \in Calls, refresh'[c].pc = "ok",
             UndisturbedNext(SessionNext(refresh'[c].new))
      PROVE  SoundNext(refresh'[c].new)
  <2>1. CASE Creates(c)
    BY <2>1 DEF Creates, Makes, SoundNext
  <2>2. CASE refresh[c].pc = "ok" /\ refresh'[c].new = refresh[c].new
    <3> DEFINE k == refresh[c].new
    <3>1. k \in Tokens /\ Used(k) /\ SessionNext(k) = Session(k)
      BY <2>2, HeldTokens, SessionStays
    <3>2. Sound(k)
      BY <1>1, <2>2, <3>1, HistoryGrows DEF Current, Undisturbed, UndisturbedNext
    <3>3. k # cookie /\ \A d \in Calls : refresh[d].old # k
      BY <2>2 DEF Unseen
    <3>4. ~Resets
      BY <1>1, <2>2, <3>1 DEF Resets, UndisturbedNext, TInv, Rooted, Session
    <3>5. QED
      BY <2>2, <3>1, <3>2, <3>3, <3>4, SoundEnds
  <2>3. QED
    BY <1>1, <2>1, <2>2, OkNext
<1>2. ASSUME cookie' # None, UndisturbedNext(SessionNext(cookie'))
      PROVE  \/ SoundNext(cookie')
             \/ \E c \in Calls : /\ refresh'[c].pc \in {"create", "ok"}
                                 /\ SessionNext(refresh'[c].old) = SessionNext(cookie')
  <2>1. CASE LogsIn
    BY <1>2, <2>1 DEF LogsIn, Makes, SoundNext
  <2>2. ASSUME NEW l \in Calls, Succeeds(l), cookie' = refresh[l].new PROVE SoundNext(cookie')
    <3>1. refresh[l].pc = "ok" /\ UNCHANGED <<token, history>>
      BY <2>2 DEF Succeeds
    <3>2. QED
      BY <1>2, <2>2, <3>1 DEF Current, Undisturbed, UndisturbedNext, history, Session,
         SessionNext, Sound, SoundNext
  <2>3. CASE cookie' = cookie
    <3>1. cookie \in Tokens /\ Used(cookie) /\ SessionNext(cookie) = Session(cookie)
      BY <1>2, <2>3, HeldTokens, SessionStays
    <3>2. Undisturbed(Session(cookie))
      BY <1>2, <2>3, <3>1, HistoryGrows DEF Undisturbed, UndisturbedNext
    <3>3. CASE Sound(cookie)
      <4>1. ~LogsOut /\ ~Resets
        BY <1>2, <2>3, <3>1 DEF LogsOut, Resets, UndisturbedNext, TInv, Rooted, Session
      <4>2. ASSUME NEW c \in Calls, Revokes(c), refresh[c].old = cookie
            PROVE  /\ refresh'[c].pc = "create"
                   /\ SessionNext(refresh'[c].old) = SessionNext(cookie')
        BY <2>3, <4>2 DEF Revokes, Moves
      <4>3. QED
        BY <2>3, <3>1, <3>3, <4>1, <4>2, SoundEnds
    <3>4. ASSUME NEW c \in Calls, refresh[c].pc \in {"create", "ok"},
                 Session(refresh[c].old) = Session(cookie)
          PROVE  /\ refresh'[c].pc \in {"create", "ok"}
                 /\ SessionNext(refresh'[c].old) = SessionNext(cookie')
      <4>1. refresh[c].old \in Tokens /\ Used(refresh[c].old)
        BY <3>4, Rotated
      <4>2. SessionNext(refresh[c].old) = SessionNext(cookie)
        BY <3>1, <3>4, <4>1, SessionStays
      <4>3. ~Loses(c) /\ ~(refresh[c].pc = "create" /\ Breaks(c))
        BY <1>2, <2>3, <3>1, <3>4 DEF Loses, Breaks, UndisturbedNext
      <4>4. ~Succeeds(c)
        BY <2>3 DEF Succeeds, Unseen
      <4>5. refresh'[c].pc \in {"create", "ok"} /\ refresh'[c].old = refresh[c].old
        BY <3>4, <4>3, <4>4, PendingGoes
      <4>6. QED
        BY <2>3, <4>2, <4>5
    <3>5. QED
      BY <3>1, <3>2, <3>3, <3>4 DEF Current
  <2>4. QED
    BY <1>2, <2>1, <2>2, <2>3, CookieNext
<1>3. QED
  BY <1>1, <1>2 DEF Current, Undisturbed, UndisturbedNext, Session, SessionNext, Sound, SoundNext

-----------------------------------------------------------------------------
(* A session that is over. *)

Over ==
  \A s \in ended \ (caught \cup forked \cup lost) :
    /\ \A k \in Tokens : Live(k) => Session(k) # s
    /\ \A c \in Calls : ~Rotates(c, s)

LEMMA OverNext ==
  ASSUME TInv, Latest, Over, ServerStep PROVE Over'
<1> SUFFICES ASSUME NEW s \in ended', s \notin caught', s \notin forked', s \notin lost'
             PROVE  /\ \A k \in Tokens : LiveNext(k) => SessionNext(k) # s
                    /\ \A c \in Calls : ~RotatesNext(c, s)
  BY DEF Over, Live, Session, Rotates, LiveNext, SessionNext, RotatesNext
<1>s. s \in Tokens /\ s \notin caught /\ s \notin forked /\ s \notin lost
  BY RootedNext, HistoryGrows
<1>1. CASE s \in ended
  <2>0. Used(s)
    BY <1>1 DEF TInv
  <2>1. /\ \A k \in Tokens : Live(k) => Session(k) # s
        /\ \A c \in Calls : ~Rotates(c, s)
    BY <1>1, <1>s DEF Over
  <2>2. ASSUME NEW k \in Tokens, LiveNext(k), SessionNext(k) = s PROVE FALSE
    BY <2>0, <2>1, <2>2, LiveBefore DEF Creates, Rotates
  <2>3. ASSUME NEW c \in Calls, RotatesNext(c, s) PROVE FALSE
    BY <1>s, <2>1, <2>3, RotatedBefore
  <2>4. QED
    BY <2>2, <2>3
<1>2. CASE s \notin ended
  <2>0. \/ LogsOut /\ cookie # None /\ s = Session(cookie)
        \/ Resets
    BY <1>2, EndedNext
  <2>1. Rotating(s) = {} /\ UNCHANGED refresh
    BY <1>2, <1>s, <2>0 DEF LogsOut, Resets, Catches
  <2>2. ASSUME NEW c \in Calls, RotatesNext(c, s) PROVE FALSE
    <3>1. refresh[c].pc \in {"revoke", "create"} /\ Session(refresh[c].old) = s
      BY <1>s, <2>1, <2>2, RotatedBefore DEF RotatesNext
    <3>2. QED
      BY <2>1, <3>1 DEF Rotating
  <2>3. ASSUME NEW k \in Tokens, LiveNext(k), SessionNext(k) = s PROVE FALSE
    <3>1. CASE Resets
      BY <2>3, <3>1 DEF Resets, Ends, LiveNext
    <3>2. CASE LogsOut /\ cookie # None /\ s = Session(cookie)
      <4>1. k # cookie \/ ~Live(cookie)
        BY <2>3, <3>2 DEF LogsOut, Ends, LiveNext
      <4>2. Live(k) /\ Session(k) = s
        BY <2>3, <3>2 DEF LogsOut, Ends, LiveNext, Live, Session, SessionNext
      <4>3. \A c \in Calls : ~Gets(c, s)
        BY <2>1 DEF Gets, Rotating
      <4>4. k = cookie
        BY <1>s, <3>2, <4>2, <4>3 DEF Latest
      <4>5. QED
        BY <4>1, <4>2, <4>4
    <3>3. QED
      BY <2>0, <3>1, <3>2
  <2>4. QED
    BY <2>2, <2>3
<1>3. QED
  BY <1>1, <1>2

-----------------------------------------------------------------------------
(* The client, and everything together. *)

Pages == {"loading", "app", "away", "login"}

\* The outcome of a refresh: all its calls go on, and nobody else.
LEMMA ResumeEffect ==
  ASSUME TInv, Waits, NEW l \in Calls, NEW outcome \in {"ok", "refused", "failed"},
         Resume(l, outcome)
  PROVE  /\ call' \in [Calls -> CallStates]
         /\ inFlight' \in [Tabs -> Calls \cup {None}]
         /\ access' \in [Tabs -> {"none", "fresh", "stale"}]
         /\ page' \in [Tabs -> Pages]
         /\ inFlight'[TabOf[l]] = None
         /\ \A t \in Tabs : t # TabOf[l] => /\ inFlight'[t] = inFlight[t]
                                            /\ page'[t] = page[t]
         /\ InApp(TabOf[l]) =>
              /\ page'[TabOf[l]] = "away" => outcome = "refused"
              /\ page'[TabOf[l]] = "login" =>
                   outcome = "failed" /\ \E c \in Waiting(l) : call[c].me /\ call[c].pc = "again"
         /\ \A c \in Calls :
              \/ call[c].on # l /\ call'[c] = call[c]
              \/ call[c].on = l /\ call'[c].on = None
              \/ TabOf[c] = TabOf[l] /\ call'[c] = IdleCall
<1> DEFINE t == TabOf[l]
           given == IF outcome = "ok" THEN "fresh" ELSE "none"
           thrown == outcome = "refused" /\ InApp(t)
           After(c) == CASE call[c].pc = "need" ->
                              [IdleCall EXCEPT !.pc = "sent", !.me = TRUE, !.with = given]
                         [] call[c].pc # "need" /\ call[c].me /\ outcome = "ok" ->
                              [IdleCall EXCEPT !.pc = "retry", !.me = TRUE, !.with = given]
                         [] OTHER -> IdleCall
           untold == outcome = "failed" /\ \E c \in Waiting(l) : call[c].me /\ call[c].pc = "again"
           to == CASE thrown -> "away" [] untold /\ InApp(t) -> "login" [] OTHER -> page[t]
           C(c) == CASE thrown /\ c \in InTab(t) -> IdleCall
                     [] ~thrown /\ c \in Waiting(l) -> After(c)
                     [] OTHER -> call[c]
<1>1. t \in Tabs
  OBVIOUS
<1>2. \A c \in Calls : After(c) \in CallStates /\ After(c).on = None
  BY DEF CallStates, IdleCall
<1>3. /\ call' = [c \in Calls |-> C(c)]
      /\ inFlight' = [inFlight EXCEPT ![t] = None]
      /\ access' = [access EXCEPT ![t] = CASE outcome = "ok" -> "fresh"
                                           [] outcome = "refused" -> "none"
                                           [] OTHER -> access[t]]
      /\ page' = [page EXCEPT ![t] = to]
  BY <1>1 DEF Resume
<1>6. /\ call \in [Calls -> CallStates] /\ inFlight \in [Tabs -> Calls \cup {None}]
      /\ access \in [Tabs -> {"none", "fresh", "stale"}] /\ page \in [Tabs -> Pages]
  BY DEF TInv, TypeOK, Pages
<1>7. /\ to \in Pages
      /\ InApp(t) => /\ to = "away" => outcome = "refused"
                     /\ to = "login" => untold
  BY <1>1, <1>6 DEF Pages, InApp
<1> HIDE DEF After
<1>8. \A c \in Calls :
        /\ C(c) \in CallStates
        /\ \/ call[c].on # l /\ C(c) = call[c]
           \/ call[c].on = l /\ C(c).on = None
           \/ TabOf[c] = t /\ C(c) = IdleCall
  <2> SUFFICES ASSUME NEW c \in Calls
               PROVE  /\ C(c) \in CallStates
                      /\ \/ call[c].on # l /\ C(c) = call[c]
                         \/ call[c].on = l /\ C(c).on = None
                         \/ TabOf[c] = t /\ C(c) = IdleCall
    OBVIOUS
  <2>1. CASE thrown /\ c \in InTab(t)
    BY <2>1, IdleCallType DEF InTab
  <2>2. CASE ~thrown /\ c \in Waiting(l)
    BY <2>2, <1>2 DEF Waiting
  <2>3. CASE ~thrown /\ c \notin Waiting(l)
    BY <2>3, <1>6 DEF Waiting
  <2>4. CASE thrown /\ c \notin InTab(t) /\ call[c].on # l
    BY <2>4, <1>6
  <2>5. CASE thrown /\ c \notin InTab(t) /\ call[c].on = l
    BY <2>5 DEF Waits, InTab
  <2>6. QED
    BY <2>1, <2>2, <2>3, <2>4, <2>5
<1> HIDE DEF C, to
<1>9. call' \in [Calls -> CallStates]
  BY <1>3, <1>8
<1>10. /\ inFlight' \in [Tabs -> Calls \cup {None}]
       /\ access' \in [Tabs -> {"none", "fresh", "stale"}]
       /\ page' \in [Tabs -> Pages] /\ page'[t] = to
  BY <1>1, <1>3, <1>6, <1>7
<1>11. QED
  BY <1>1, <1>3, <1>6, <1>7, <1>8, <1>9, <1>10

\* Most steps change nothing about who waits for whom.
Steady == /\ UNCHANGED inFlight
          /\ \A c \in Calls : /\ call'[c].on = call[c].on
                              /\ call[c].on # None => call'[c].pc = call[c].pc

\* No refresh starts or is over.
Keeps == \A c \in Calls :
  /\ (refresh'[c].pc # "none" /\ ~refresh'[c].left) = Going(c)
  /\ refresh'[c].left => /\ refresh'[c].pc \in {"read", "revoke", "create", "ok"}
                         /\ call'[c].pc = "idle"

LEMMA SteadyLeads ==
  ASSUME TInv, Leads, Steady, Keeps PROVE Leads'
<1>1. call \in [Calls -> CallStates] /\ inFlight \in [Tabs -> Calls \cup {None}]
  BY DEF TInv, TypeOK
<1>2. \A c \in Calls : call[c].on \in Calls \cup {None}
  BY <1>1 DEF CallStates
<1>g. \A c \in Calls : Going(c)' = Going(c)
  BY DEF Keeps, Going
<1>3. Waits'
  BY <1>1, <1>2, <1>g DEF Leads, Steady, Waits
<1>4. Left'
  BY DEF Left, Keeps
<1>5. \A c \in Calls : Going(c)' => inFlight'[TabOf[c]] = c /\ call'[c].on = c
  BY <1>g DEF Leads, Steady
<1>6. ASSUME NEW t \in Tabs, inFlight'[t] # None
      PROVE  TabOf[inFlight'[t]] = t /\ Going(inFlight[t])'
  BY <1>1, <1>6, <1>g DEF Leads, Steady
<1>7. QED
  BY <1>3, <1>4, <1>5, <1>6 DEF Leads, Steady

\* The server's side alone.
LEMMA ServerKeeps ==
  ASSUME TInv, Leads, UNCHANGED client,
         \/ UNCHANGED refresh
         \/ Crosses({})
         \/ \E c \in Calls : /\ refresh[c].pc # "none" /\ Others(c)
                             /\ \/ Moves(c, "revoke") /\ refresh[c].pc = "read"
                                \/ Moves(c, "create") /\ refresh[c].pc = "revoke"
                                \/ refresh'[c].pc = "ok" /\ refresh'[c].left = refresh[c].left
                                \/ Ended(c, "refused") \/ Ended(c, "failed")
                                \/ refresh[c].left /\ refresh'[c] = NoRefresh
         \/ \E c \in Calls : /\ refresh[c].pc = "ok" /\ Crosses({c})
                             /\ \/ Ended(c, "failed")
                                \/ refresh[c].left /\ refresh'[c] = NoRefresh
  PROVE  call' \in [Calls -> CallStates] /\ Steady /\ Keeps
<1>1. call' \in [Calls -> CallStates] /\ Steady
  BY DEF TInv, TypeOK, client, Steady
<1>l. \A c \in Calls : refresh[c].left => /\ refresh[c].pc \in {"read", "revoke", "create", "ok"}
                                          /\ call'[c].pc = "idle"
  BY DEF Leads, Left, client
<1> DEFINE K(c) == /\ (refresh'[c].pc # "none" /\ ~refresh'[c].left) = Going(c)
                   /\ refresh'[c].left => /\ refresh'[c].pc \in {"read", "revoke", "create", "ok"}
                                          /\ call'[c].pc = "idle"
<1>s. \A c \in Calls : refresh'[c] = refresh[c] => K(c)
  BY <1>l DEF Going
<1>x. \A c \in Calls : refresh'[c].pc = refresh[c].pc /\ refresh'[c].left = refresh[c].left => K(c)
  BY <1>l DEF Going
<1>e. ASSUME NEW c \in Calls, refresh[c].pc # "none",
             \/ Ended(c, "refused") \/ Ended(c, "failed")
             \/ refresh[c].left /\ refresh'[c] = NoRefresh
      PROVE  K(c)
  BY <1>e, NoRefreshType DEF Going, Ended
<1>2. CASE UNCHANGED refresh
  <2>1. \A c \in Calls : refresh'[c] = refresh[c]
    BY <1>2
  <2>2. QED
    BY <1>1, <1>s, <2>1 DEF Keeps
<1>3. CASE Crosses({})
  <2>1. \A c \in Calls : refresh'[c].pc = refresh[c].pc /\ refresh'[c].left = refresh[c].left
    BY <1>3 DEF Crosses
  <2>2. QED
    BY <1>1, <1>x, <2>1 DEF Keeps
<1>4. ASSUME NEW c \in Calls, refresh[c].pc # "none", Others(c),
             \/ Moves(c, "revoke") /\ refresh[c].pc = "read"
             \/ Moves(c, "create") /\ refresh[c].pc = "revoke"
             \/ refresh'[c].pc = "ok" /\ refresh'[c].left = refresh[c].left
             \/ Ended(c, "refused") \/ Ended(c, "failed")
             \/ refresh[c].left /\ refresh'[c] = NoRefresh
      PROVE  Keeps
  <2>1. \A d \in Calls : d # c => K(d)
    BY <1>4, <1>s DEF Others
  <2>2. K(c)
    <3>1. CASE \/ Moves(c, "revoke") \/ Moves(c, "create")
               \/ refresh'[c].pc = "ok" /\ refresh'[c].left = refresh[c].left
      BY <1>4, <1>l, <3>1 DEF Moves, Going
    <3>2. QED
      BY <1>4, <1>e, <3>1
  <2>3. QED
    BY <2>1, <2>2 DEF Keeps
<1>5. ASSUME NEW c \in Calls, refresh[c].pc = "ok", Crosses({c}),
             Ended(c, "failed") \/ (refresh[c].left /\ refresh'[c] = NoRefresh)
      PROVE  Keeps
  <2>1. \A d \in Calls : d # c => K(d)
    BY <1>5, <1>x DEF Crosses
  <2>2. K(c)
    BY <1>5, <1>e
  <2>3. QED
    BY <2>1, <2>2 DEF Keeps
<1>6. QED
  BY <1>1, <1>2, <1>3, <1>4, <1>5

LEMMA ServerSteady ==
  ASSUME TInv, Leads,
         \/ \E c \in Calls : \/ RotateRead(c) \/ RotateRevoke(c) \/ RotateCreate(c)
                             \/ RefreshFails(c) \/ RefreshUnread(c)
                             \/ RefreshOk(c) /\ refresh[c].left
         \/ \E t \in Tabs : Logout(t)
         \/ \E k \in Tokens : ExpireRefresh(k)
         \/ ResetPassword
  PROVE  call' \in [Calls -> CallStates] /\ Steady /\ Keeps
<1> DEFINE Goal == call' \in [Calls -> CallStates] /\ Steady /\ Keeps
<1>t. RType
  BY DEF TInv, TypeOK, RType
<1>1. ASSUME NEW c \in Calls, RotateRead(c) PROVE Goal
  <2>1. \/ Moves(c, "revoke")
        \/ Others(c) /\ Ended(c, "refused")
    BY <1>1, <1>t, StepEffect, DenyEffect DEF RotateRead
  <2>2. refresh[c].pc = "read" /\ UNCHANGED client
    BY <1>1 DEF RotateRead
  <2>3. QED
    BY <2>1, <2>2, ServerKeeps DEF Moves
<1>2. ASSUME NEW c \in Calls, RotateRevoke(c) PROVE Goal
  <2>1. Moves(c, "create") /\ refresh[c].pc = "revoke" /\ UNCHANGED client
    BY <1>2, <1>t, StepEffect DEF RotateRevoke
  <2>2. QED
    BY <2>1, ServerKeeps DEF Moves
<1>3. ASSUME NEW c \in Calls, RotateCreate(c) PROVE Goal
  <2>1. PICK k \in Unused : refresh' = [refresh EXCEPT ![c].pc = "ok", ![c].new = k]
    BY <1>3 DEF RotateCreate
  <2>2. Others(c) /\ refresh'[c].pc = "ok" /\ refresh'[c].left = refresh[c].left
    BY <1>t, <2>1 DEF RType, Others, RefreshStates
  <2>3. refresh[c].pc = "create" /\ UNCHANGED client
    BY <1>3 DEF RotateCreate
  <2>4. QED
    BY <2>2, <2>3, ServerKeeps
<1>4. ASSUME NEW c \in Calls, RefreshFails(c) PROVE Goal
  <2>1. UNCHANGED client
    BY <1>4 DEF RefreshFails
  <2>2. CASE refresh[c].pc \in {"read", "revoke", "create", "ok"} /\ Deny(c, "failed")
    <3>1. Others(c) /\ Ended(c, "failed")
      BY <2>2, <1>t, DenyEffect
    <3>2. QED
      BY <2>1, <2>2, <3>1, ServerKeeps
  <2>3. CASE refresh[c].pc = "ok" /\ SetCookie(refresh[c].new, {c}, Denial(c, "failed"))
    <3>1. refresh'[c] = Denial(c, "failed")
      BY <2>3 DEF SetCookie
    <3>2. Denial(c, "failed") \in RefreshStates /\ Ended(c, "failed")
      BY <3>1, <1>t, DenialType
    <3>3. Crosses({c})
      BY <2>3, <3>2, <1>t, SetCookieEffect
    <3>4. QED
      BY <2>1, <2>3, <3>2, <3>3, ServerKeeps
  <2>4. QED
    BY <1>4, <2>2, <2>3 DEF RefreshFails
<1>5. ASSUME NEW c \in Calls, RefreshUnread(c) PROVE Goal
  <2>1. /\ Others(c) /\ refresh'[c] = NoRefresh /\ refresh[c].left /\ refresh[c].pc = "ok"
        /\ UNCHANGED client
    BY <1>5, <1>t DEF RefreshUnread, RType, Others
  <2>2. QED
    BY <2>1, ServerKeeps
<1>6. ASSUME NEW c \in Calls, RefreshOk(c), refresh[c].left PROVE Goal
  <2>1. /\ Crosses({c}) /\ refresh'[c] = NoRefresh /\ refresh[c].pc = "ok"
        /\ UNCHANGED client
    BY <1>6, <1>t, SetCookieEffect, NoRefreshType DEF RefreshOk
  <2>2. QED
    BY <1>6, <2>1, ServerKeeps
<1>7. CASE \/ \E t \in Tabs : Logout(t)
           \/ \E k \in Tokens : ExpireRefresh(k)
           \/ ResetPassword
  BY <1>7, ServerKeeps DEF Logout, ExpireRefresh, ResetPassword
<1>8. QED
  BY <1>1, <1>2, <1>3, <1>4, <1>5, <1>6, <1>7

\* A call that waits for nobody changes, and no refresh does.
LEMMA CallSteady ==
  ASSUME TInv, Leads, UNCHANGED <<inFlight, refresh>>, NEW c \in Calls,
         NEW p \in CallStates, p.on = None, call' = [call EXCEPT ![c] = p],
         call[c].pc \notin {"need", "again"}, call[c].pc # "idle" \/ refresh[c].pc = "none"
  PROVE  call' \in [Calls -> CallStates] /\ Steady /\ Keeps
<1>1. call \in [Calls -> CallStates]
  BY DEF TInv, TypeOK
<1>2. call[c].on = None
  BY <1>1 DEF Leads, Waits, CallStates
<1>3. ~refresh[c].left
  BY DEF Leads, Left
<1>4. Steady
  BY <1>1, <1>2 DEF Steady
<1>5. Keeps
  BY <1>1, <1>3 DEF Leads, Left, Keeps, Going
<1>6. QED
  BY <1>1, <1>4, <1>5

LEMMA ToldPage ==
  ASSUME page \in [Tabs -> Pages], NEW c \in Calls, NEW ok \in BOOLEAN, Told(c, ok)
  PROVE  /\ page' \in [Tabs -> Pages]
         /\ \A t \in Tabs :
              \/ page'[t] = page[t]
              \/ TabOf[c] = t /\ call[c].me /\ ok /\ page'[t] = "app"
              \/ TabOf[c] = t /\ call[c].me /\ ~ok /\ page'[t] = "login"
  BY DEF Told, Pages

LEMMA ClientSteady ==
  ASSUME TInv, Leads,
         \/ \E c \in Calls : \/ StartCall(c) \/ AnswerRetry(c) \/ CallFails(c)
                             \/ AnswerCall(c) /\ call[c].with = "fresh"
         \/ \E t \in Tabs : Login(t) \/ LogoutAnswered(t) \/ LogoutFails(t) \/ ExpireAccess(t)
  PROVE  call' \in [Calls -> CallStates] /\ Steady /\ Keeps
<1> DEFINE Goal == call' \in [Calls -> CallStates] /\ Steady /\ Keeps
<1>t. call \in [Calls -> CallStates] /\ RType
  BY DEF TInv, TypeOK, RType
<1>1. ASSUME NEW c \in Calls, StartCall(c) PROVE Goal
  <2> DEFINE p == [call[c] EXCEPT !.pc = "sent"]
  <2>1. call[c] \in CallStates /\ call[c].pc = "idle" /\ refresh[c].pc = "none"
    BY <1>1, <1>t DEF StartCall
  <2>2. call[c].on = None
    BY <2>1 DEF Leads, Waits, CallStates
  <2>3. p \in CallStates /\ p.on = None
    BY <2>1, <2>2 DEF CallStates
  <2>4. call' = [call EXCEPT ![c] = p] /\ UNCHANGED <<inFlight, refresh>>
    BY <1>1, <1>t DEF StartCall
  <2> HIDE DEF p
  <2>5. QED
    BY <2>1, <2>3, <2>4, CallSteady
<1>2. ASSUME NEW c \in Calls, \/ AnswerRetry(c) \/ CallFails(c)
                              \/ AnswerCall(c) /\ call[c].with = "fresh"
      PROVE  Goal
  <2>1. /\ call' = [call EXCEPT ![c] = IdleCall] /\ UNCHANGED <<inFlight, refresh>>
        /\ call[c].pc \in {"sent", "retry"}
    BY <1>2 DEF AnswerRetry, CallFails, AnswerCall
  <2>2. QED
    BY <2>1, CallSteady, IdleCallType
<1>3. ASSUME NEW t \in Tabs, Login(t) \/ LogoutAnswered(t) PROVE Goal
  <2>1. Crosses({})
    BY <1>3, <1>t, SetCookieEffect, NoRefreshType DEF Login, LogoutAnswered
  <2>2. UNCHANGED <<inFlight, call>>
    BY <1>3 DEF Login, LogoutAnswered
  <2>3. Steady
    BY <2>2 DEF Steady
  <2>4. Keeps
    BY <2>1, <2>2 DEF Keeps, Crosses, Going, Leads, Left
  <2>5. QED
    BY <1>t, <2>2, <2>3, <2>4
<1>4. ASSUME NEW t \in Tabs, LogoutFails(t) PROVE Goal
  <2>1. UNCHANGED <<inFlight, call, refresh>>
    BY <1>4 DEF LogoutFails
  <2>2. QED
    BY <1>t, <2>1 DEF Keeps, Steady, Going, Leads, Left
<1>5. ASSUME NEW t \in Tabs, ExpireAccess(t) PROVE Goal
  <2>1. \A d \in Calls :
          LET p == [call[d] EXCEPT !.with = "none"] IN
          p \in CallStates /\ p.on = call[d].on /\ p.pc = call[d].pc
    BY <1>t DEF CallStates
  <2>2. /\ call' = [d \in Calls |-> IF TabOf[d] = t /\ call[d].with = "fresh"
                                      THEN [call[d] EXCEPT !.with = "none"] ELSE call[d]]
        /\ UNCHANGED <<inFlight, refresh>>
    BY <1>5 DEF ExpireAccess
  <2>3. \A d \in Calls : /\ call'[d] \in CallStates
                         /\ call'[d].on = call[d].on /\ call'[d].pc = call[d].pc
    BY <1>t, <2>1, <2>2
  <2>4. call' \in [Calls -> CallStates]
    BY <2>2, <2>3
  <2>5. Steady /\ Keeps
    BY <2>2, <2>3 DEF Steady, Keeps, Going, Leads, Left
  <2>6. QED
    BY <2>4, <2>5
<1>6. QED
  BY <1>1, <1>2, <1>3, <1>4, <1>5

LEMMA EnsureLeads ==
  ASSUME TInv, Leads, NEW c \in Calls, Ensure(c), call[c].pc = "sent"
  PROVE  /\ call' \in [Calls -> CallStates] /\ inFlight' \in [Tabs -> Calls \cup {None}]
         /\ Leads'
<1>t. /\ RType /\ cookie \in Tokens \cup {None}
      /\ call \in [Calls -> CallStates] /\ inFlight \in [Tabs -> Calls \cup {None}]
  BY DEF TInv, TypeOK, RType
<1>1. call[c].on = None /\ ~refresh[c].left /\ ~Going(c) /\ inFlight[TabOf[c]] # c
  BY <1>t DEF Leads, Left, Waits, CallStates
<1>2. /\ call' \in [Calls -> CallStates]
      /\ inFlight' \in [Tabs -> Calls \cup {None}]
      /\ \A d \in Calls : d # c => call'[d] = call[d]
      /\ call'[c].pc = "again" /\ call'[c].on = inFlight'[TabOf[c]]
      /\ \A t \in Tabs : t # TabOf[c] => inFlight'[t] = inFlight[t]
      /\ \/ /\ inFlight[TabOf[c]] \notin {None, c}
            /\ UNCHANGED <<inFlight, refresh>>
         \/ /\ inFlight[TabOf[c]] \in {None, c} /\ inFlight'[TabOf[c]] = c
            /\ Others(c) /\ Asked(c)
  BY <1>t, EnsureEffect
<1>3. CASE inFlight[TabOf[c]] \notin {None, c} /\ UNCHANGED <<inFlight, refresh>>
  <2>1. \A d \in Calls : Going(d)' = Going(d)
    BY <1>3 DEF Going
  <2>2. Waits'
    BY <1>1, <1>2, <1>3, <1>t, <2>1 DEF Leads, Waits, CallStates
  <2>3. Left'
    BY <1>1, <1>2, <1>3 DEF Leads, Left
  <2>4. \A d \in Calls : Going(d) => inFlight[TabOf[d]] = d /\ call'[d].on = d
    BY <1>1, <1>2 DEF Leads
  <2>5. QED
    BY <1>2, <1>3, <1>t, <2>1, <2>2, <2>3, <2>4 DEF Leads
<1>4. CASE /\ inFlight[TabOf[c]] = None /\ inFlight'[TabOf[c]] = c
           /\ Others(c) /\ refresh'[c].pc = "read" /\ refresh'[c].left = FALSE
  <2>0. Going(c)'
    BY <1>4 DEF Going
  <2>1. \A d \in Calls : TabOf[d] = TabOf[c] /\ d # c => call'[d].on = None /\ ~Going(d)'
    BY <1>2, <1>4 DEF Leads, Waits, Others, Going
  <2>2. \A d \in Calls : TabOf[d] # TabOf[c] =>
          call'[d] = call[d] /\ Going(d)' = Going(d) /\ inFlight'[TabOf[d]] = inFlight[TabOf[d]]
    BY <1>2, <1>4 DEF Others, Going
  <2>3. Waits'
    <3> SUFFICES ASSUME NEW d \in Calls, call'[d].on # None
                 PROVE  /\ call'[d].pc \in {"need", "again"}
                        /\ inFlight'[TabOf[d]] = call'[d].on
                        /\ TabOf[call'[d].on] = TabOf[d]
                        /\ Going(call[d].on)'
      BY DEF Waits
    <3>1. CASE d = c
      <4>1. call'[d].on = c
        BY <1>2, <1>4, <3>1
      <4>2. QED
        BY <1>2, <1>4, <2>0, <3>1, <4>1 DEF Going
    <3>2. CASE d # c
      <4>1. TabOf[d] # TabOf[c] /\ call'[d] = call[d]
        BY <2>1, <2>2, <3>2
      <4>2. /\ call[d].pc \in {"need", "again"} /\ inFlight[TabOf[d]] = call[d].on
            /\ TabOf[call[d].on] = TabOf[d] /\ Going(call[d].on)
            /\ call[d].on \in Calls
        BY <1>t, <4>1 DEF Leads, Waits, CallStates
      <4>3. PICK l \in Calls : l = call[d].on
        BY <4>2
      <4>4. Going(l)' /\ call'[d].on = l
        BY <2>2, <4>1, <4>2, <4>3
      <4>5. QED
        BY <2>2, <4>1, <4>2, <4>3, <4>4 DEF Going
    <3>3. QED
      BY <3>1, <3>2
  <2>4. \A d \in Calls : Going(d)' => inFlight'[TabOf[d]] = d /\ call'[d].on = d
    BY <1>2, <1>4, <2>1, <2>2 DEF Leads
  <2>5. ASSUME NEW t \in Tabs, inFlight'[t] # None
        PROVE  TabOf[inFlight'[t]] = t /\ Going(inFlight[t])'
    <3>1. CASE t = TabOf[c]
      BY <1>4, <3>1 DEF Going
    <3>2. CASE t # TabOf[c]
      <4>1. PICK l \in Calls : l = inFlight[t]
        BY <1>t, <1>2, <2>5, <3>2
      <4>2. TabOf[l] = t /\ Going(l) /\ inFlight'[t] = l
        BY <1>2, <2>5, <3>2, <4>1 DEF Leads
      <4>3. QED
        BY <2>2, <3>2, <4>2 DEF Going
    <3>3. QED
      BY <3>1, <3>2
  <2>6. Left'
    BY <1>2, <1>4 DEF Leads, Left, Others
  <2>7. QED
    BY <1>2, <2>3, <2>4, <2>5, <2>6 DEF Leads
<1>5. QED
  BY <1>1, <1>2, <1>3, <1>4 DEF Asked

LEMMA LoadLeads ==
  ASSUME TInv, Leads, NEW c \in Calls, NEW path \in {"loading", "login"}, Load(c, path)
  PROVE  /\ call' \in [Calls -> CallStates] /\ inFlight' \in [Tabs -> Calls \cup {None}]
         /\ Leads'
<1>t. /\ RType /\ cookie \in Tokens \cup {None}
      /\ call \in [Calls -> CallStates] /\ inFlight \in [Tabs -> Calls \cup {None}]
  BY DEF TInv, TypeOK, RType
<1> DEFINE t == TabOf[c]
           first == [IdleCall EXCEPT !.pc = "need", !.me = TRUE, !.on = c]
           C(d) == CASE d = c -> first
                     [] d # c /\ d \in InTab(t) -> IdleCall
                     [] OTHER -> call[d]
<1>0. t \in Tabs
  OBVIOUS
<1>1. first \in CallStates /\ first.pc = "need" /\ first.on = c
  BY DEF IdleCall, CallStates
<1>2. call' = [d \in Calls |-> C(d)] /\ inFlight' = [inFlight EXCEPT ![t] = c]
  BY DEF Load
<1> HIDE DEF first
<1>3. \A d \in Calls :
        /\ C(d) \in CallStates
        /\ d = c => C(d) = first
        /\ d # c /\ TabOf[d] = t => C(d) = IdleCall
        /\ TabOf[d] # t => C(d) = call[d]
  BY <1>t, <1>1, IdleCallType DEF InTab
<1> HIDE DEF C
<1>4. /\ call' \in [Calls -> CallStates] /\ inFlight' \in [Tabs -> Calls \cup {None}]
      /\ inFlight'[t] = c /\ \A u \in Tabs : u # t => inFlight'[u] = inFlight[u]
      /\ call'[c].pc = "need" /\ call'[c].on = c
      /\ \A d \in Calls : /\ d # c /\ TabOf[d] = t => call'[d].on = None /\ call'[d].pc = "idle"
                          /\ TabOf[d] # t => call'[d] = call[d]
  BY <1>t, <1>0, <1>1, <1>2, <1>3, IdleCallType
<1>5. /\ Asked(c)
      /\ \A d \in Calls \ {c} :
           IF TabOf[d] = t THEN refresh'[d].pc # "none" => refresh'[d].left
           ELSE refresh'[d] = refresh[d]
      /\ \A d \in Calls \ {c} :
           refresh'[d].left => \/ refresh'[d] = refresh[d]
                               \/ refresh'[d].pc \in {"read", "revoke", "create", "ok"}
  BY <1>t, LoadEffect DEF Asks
<1>6. /\ refresh'[c].pc # "none" /\ ~refresh'[c].left /\ Going(c)'
      /\ \A d \in Calls : /\ d # c /\ TabOf[d] = t => ~Going(d)'
                          /\ TabOf[d] # t => Going(d)' = Going(d)
  BY <1>5 DEF Asked, Going
<1>7. Waits'
  <2> SUFFICES ASSUME NEW d \in Calls, call'[d].on # None
               PROVE  /\ call'[d].pc \in {"need", "again"}
                      /\ inFlight'[TabOf[d]] = call'[d].on
                      /\ TabOf[call'[d].on] = TabOf[d]
                      /\ Going(call[d].on)'
    BY DEF Waits
  <2>1. CASE d = c
    BY <1>4, <1>6, <2>1 DEF Going
  <2>2. CASE d # c
    <3>1. TabOf[d] # t /\ call'[d] = call[d]
      BY <1>4, <2>2
    <3>2. /\ call[d].pc \in {"need", "again"} /\ inFlight[TabOf[d]] = call[d].on
          /\ TabOf[call[d].on] = TabOf[d] /\ Going(call[d].on)
          /\ call[d].on \in Calls
      BY <1>t, <3>1 DEF Leads, Waits, CallStates
    <3>3. PICK l \in Calls : l = call[d].on
      BY <3>2
    <3>4. Going(l)' /\ call'[d].on = l /\ inFlight'[TabOf[d]] = l
      BY <1>4, <1>6, <3>1, <3>2, <3>3
    <3>5. QED
      BY <3>1, <3>2, <3>3, <3>4 DEF Going
  <2>3. QED
    BY <2>1, <2>2
<1>8. Left'
  <2> SUFFICES ASSUME NEW d \in Calls, refresh'[d].left
               PROVE  /\ refresh'[d].pc \in {"read", "revoke", "create", "ok"}
                      /\ call'[d].pc = "idle"
    BY DEF Left
  <2>1. d # c
    BY <1>6
  <2>2. refresh'[d].pc \in {"read", "revoke", "create", "ok"}
    BY <1>5, <2>1 DEF Leads, Left
  <2>3. TabOf[d] # t => call'[d].pc = "idle"
    BY <1>4, <1>5, <2>1 DEF Leads, Left
  <2>4. QED
    BY <1>4, <2>1, <2>2, <2>3
<1>9. \A d \in Calls : Going(d)' => inFlight'[TabOf[d]] = d /\ call'[d].on = d
  BY <1>4, <1>6 DEF Leads
<1>10. ASSUME NEW u \in Tabs, inFlight'[u] # None
       PROVE  TabOf[inFlight'[u]] = u /\ Going(inFlight[u])'
  <2>1. CASE u = t
    BY <1>4, <1>6, <2>1 DEF Going
  <2>2. CASE u # t
    <3>1. PICK l \in Calls : l = inFlight[u]
      BY <1>t, <1>4, <1>10, <2>2
    <3>2. TabOf[l] = u /\ Going(l) /\ inFlight'[u] = l
      BY <1>4, <1>10, <2>2, <3>1 DEF Leads
    <3>3. QED
      BY <1>6, <2>2, <3>2 DEF Going
  <2>3. QED
    BY <2>1, <2>2
<1>11. QED
  BY <1>4, <1>7, <1>8, <1>9, <1>10 DEF Leads

LEMMA ResumeLeads ==
  ASSUME TInv, Leads, NEW l \in Calls, Going(l),
         NEW outcome \in {"ok", "refused", "failed"}, Resume(l, outcome),
         refresh'[l].pc = "none", refresh'[l].left = FALSE,
         \A c \in Calls : c # l => /\ refresh'[c].pc = refresh[c].pc
                                   /\ refresh'[c].left = refresh[c].left
  PROVE  Leads'
<1>t. /\ call \in [Calls -> CallStates] /\ inFlight \in [Tabs -> Calls \cup {None}]
  BY DEF TInv, TypeOK
<1>e. /\ inFlight'[TabOf[l]] = None
      /\ \A t \in Tabs : t # TabOf[l] => inFlight'[t] = inFlight[t]
      /\ \A c \in Calls : \/ call[c].on # l /\ call'[c] = call[c]
                          \/ call[c].on = l /\ call'[c].on = None
                          \/ TabOf[c] = TabOf[l] /\ call'[c] = IdleCall
  BY ResumeEffect DEF Leads
<1>g. ~Going(l)' /\ \A c \in Calls : c # l => Going(c)' = Going(c)
  BY DEF Going
<1>l. inFlight[TabOf[l]] = l
  BY DEF Leads
<1>1. ASSUME NEW c \in Calls, call'[c].on # None
      PROVE  TabOf[c] # TabOf[l] /\ call'[c] = call[c] /\ call[c].on # l
  BY <1>1, <1>e, <1>l, IdleCallType DEF Leads, Waits
<1>2. Waits'
  <2> SUFFICES ASSUME NEW c \in Calls, call'[c].on # None
               PROVE  /\ call'[c].pc \in {"need", "again"}
                      /\ inFlight'[TabOf[c]] = call'[c].on
                      /\ TabOf[call'[c].on] = TabOf[c]
                      /\ Going(call[c].on)'
    BY DEF Waits
  <2>0. TabOf[c] # TabOf[l] /\ call'[c] = call[c] /\ call[c].on # l
    BY <1>1
  <2>1. /\ call[c].pc \in {"need", "again"} /\ inFlight[TabOf[c]] = call[c].on
        /\ TabOf[call[c].on] = TabOf[c] /\ Going(call[c].on)
        /\ call[c].on \in Calls
    BY <1>t, <2>0 DEF Leads, Waits, CallStates
  <2>2. PICK k \in Calls : k = call[c].on
    BY <2>1
  <2>3. Going(k)' /\ call'[c].on = k
    BY <1>g, <2>0, <2>1, <2>2
  <2>4. QED
    BY <1>e, <2>0, <2>1, <2>2, <2>3 DEF Going
<1>3. ASSUME NEW c \in Calls, Going(c)'
      PROVE  inFlight'[TabOf[c]] = c /\ call'[c].on = c
  <2>1. c # l /\ inFlight[TabOf[c]] = c /\ call[c].on = c
    BY <1>3, <1>g DEF Leads
  <2>2. TabOf[c] # TabOf[l]
    BY <1>l, <2>1
  <2>3. QED
    BY <1>e, <2>1, <2>2
<1>4. ASSUME NEW t \in Tabs, inFlight'[t] # None
      PROVE  TabOf[inFlight'[t]] = t /\ Going(inFlight[t])'
  <2>1. t # TabOf[l] /\ inFlight'[t] = inFlight[t]
    BY <1>e, <1>4
  <2>2. PICK k \in Calls : k = inFlight[t]
    BY <1>t, <1>4, <2>1
  <2>3. TabOf[k] = t /\ Going(k) /\ k # l
    BY <1>4, <2>1, <2>2 DEF Leads
  <2>4. QED
    BY <1>g, <2>1, <2>2, <2>3 DEF Going
<1>5. Left'
  <2> SUFFICES ASSUME NEW c \in Calls, refresh'[c].left
               PROVE  /\ refresh'[c].pc \in {"read", "revoke", "create", "ok"}
                      /\ call'[c].pc = "idle"
    BY DEF Left
  <2>1. c # l
    OBVIOUS
  <2>2. /\ refresh[c].pc \in {"read", "revoke", "create", "ok"}
        /\ call[c].pc = "idle" /\ refresh'[c].pc = refresh[c].pc
    BY <2>1 DEF Leads, Left
  <2>3. call[c].on # l
    BY <2>2 DEF Leads, Waits
  <2>4. QED
    BY <1>e, <2>2, <2>3, IdleCallType
<1>6. QED
  BY <1>2, <1>3, <1>4, <1>5 DEF Leads

LEMMA SessionType ==
  ASSUME TInv, NEW k \in Tokens \cup {None}
  PROVE  Session(k) \in Tokens \cup {None}
  BY DEF TInv, TypeOK, TokenRows, Session

Counted == /\ access \in [Tabs -> {"none", "fresh", "stale"}] /\ page \in [Tabs -> Pages]
           /\ leaving \in [Tabs -> {"no", "revoked"}]
           /\ loads \in 0..MaxLoads /\ faults \in 0..MaxFaults /\ ends \in 0..MaxEnds

Sessions == forked \cup broken \cup lost \cup caught \cup ended \subseteq Tokens \cup {None}

LEMMA CountedNext ==
  ASSUME TInv, Leads, Next PROVE Counted'
<1>t. Counted
  BY DEF TInv, TypeOK, Counted, Pages
<1>1. ASSUME NEW c \in Calls, NEW path \in {"loading", "login"}, Load(c, path) PROVE Counted'
  <2>1. page' \in [Tabs -> Pages] /\ access' \in [Tabs -> {"none", "fresh", "stale"}]
    BY <1>1, <1>t DEF Load, Counted, Pages
  <2>2. /\ loads \in Nat /\ loads < MaxLoads /\ loads' = loads + 1 /\ MaxLoads \in Nat
        /\ UNCHANGED <<leaving, faults, ends>>
    <3>1. loads \in Nat /\ MaxLoads \in Nat
      BY <1>t DEF Counted
    <3>2. loads < MaxLoads /\ loads' = loads + 1 /\ UNCHANGED <<leaving, faults, ends>>
      BY <1>1 DEF Load
    <3>3. QED
      BY <3>1, <3>2
  <2>3. loads' \in 0..MaxLoads
    BY <2>2
  <2>4. QED
    BY <1>t, <2>1, <2>2, <2>3 DEF Counted
<1>2. ASSUME NEW c \in Calls, AnswerCall(c) PROVE Counted'
  <2>1. page' \in [Tabs -> Pages]
    BY <1>2, <1>t, ToldPage DEF AnswerCall, Counted
  <2>2. QED
    BY <1>2, <1>t, <2>1 DEF AnswerCall, Counted, limits
<1>3. ASSUME NEW c \in Calls, AnswerRetry(c) PROVE Counted'
  <2>1. Told(c, TRUE) \/ Told(c, FALSE)
    BY <1>3 DEF AnswerRetry, Told
  <2>2. page' \in [Tabs -> Pages]
    BY <1>t, <2>1, ToldPage DEF Counted
  <2>3. QED
    BY <1>3, <1>t, <2>2 DEF AnswerRetry, Counted, limits
<1>4. ASSUME NEW c \in Calls, CallFails(c) PROVE Counted'
  <2>1. page' \in [Tabs -> Pages]
    BY <1>4, <1>t, ToldPage DEF CallFails, Counted
  <2>2. QED
    BY <1>4, <1>t, <2>1 DEF CallFails, Counted
<1>5. ASSUME NEW l \in Calls, NEW outcome \in {"ok", "refused", "failed"}, Resume(l, outcome),
             UNCHANGED <<leaving, limits>>
      PROVE  Counted'
  <2>1. access' \in [Tabs -> {"none", "fresh", "stale"}] /\ page' \in [Tabs -> Pages]
    BY <1>5, ResumeEffect DEF Leads
  <2>2. QED
    BY <1>5, <1>t, <2>1 DEF Counted, limits
<1>6. ASSUME NEW l \in Calls, RefreshOk(l) PROVE Counted'
  <2>1. CASE refresh[l].left
    BY <1>6, <1>t, <2>1 DEF RefreshOk, client, Counted, limits
  <2>2. CASE ~refresh[l].left
    BY <1>5, <1>6, <2>2 DEF RefreshOk
  <2>3. QED
    BY <2>1, <2>2
<1>7. ASSUME NEW l \in Calls, RefreshDenied(l) PROVE Counted'
  BY <1>5, <1>7 DEF RefreshDenied
<1>8. ASSUME NEW c \in Calls, \/ StartCall(c) \/ RefreshUnread(c) \/ RotateRead(c)
                              \/ RotateRevoke(c) \/ RotateCreate(c)
      PROVE  Counted'
  BY <1>8, <1>t DEF StartCall, RefreshUnread, RotateRead, RotateRevoke, RotateCreate, Counted,
     client, limits
<1>9. ASSUME NEW c \in Calls, RefreshFails(c) PROVE Counted'
  BY <1>9, <1>t DEF RefreshFails, Counted, client
<1>10. ASSUME NEW t \in Tabs, Login(t) \/ LogoutAnswered(t) \/ ExpireAccess(t) PROVE Counted'
  BY <1>10, <1>t DEF Login, LogoutAnswered, ExpireAccess, Counted, Pages, limits
<1>11. ASSUME NEW t \in Tabs, Logout(t) PROVE Counted'
  BY <1>11, <1>t DEF Logout, Counted, client
<1>12. ASSUME NEW t \in Tabs, LogoutFails(t) PROVE Counted'
  BY <1>12, <1>t DEF LogoutFails, Counted, Pages
<1>13. ASSUME NEW k \in Tokens, ExpireRefresh(k) PROVE Counted'
  BY <1>13, <1>t DEF ExpireRefresh, Counted, client
<1>14. ASSUME ResetPassword PROVE Counted'
  BY <1>14, <1>t DEF ResetPassword, Counted, client
<1>15. QED
  BY <1>1, <1>2, <1>3, <1>4, <1>6, <1>7, <1>8, <1>9, <1>10, <1>11, <1>12, <1>13, <1>14
     DEF Next, Serve

LEMMA SessionsNext ==
  ASSUME TInv, Next PROVE Sessions'
<1>t. Sessions /\ cookie \in Tokens \cup {None}
  BY DEF TInv, TypeOK, Sessions
<1>o. \A c \in Calls : Session(refresh[c].old) \in Tokens \cup {None}
  <2>1. \A c \in Calls : refresh[c].old \in Tokens \cup {None}
    BY DEF TInv, TypeOK, RefreshStates
  <2>2. QED
    BY <2>1, SessionType
<1>u. UNCHANGED history => Sessions'
  BY <1>t DEF history, Sessions
<1>1. ASSUME NEW c \in Calls, RotateRead(c) PROVE Sessions'
  BY <1>1, <1>t, <1>o DEF RotateRead, Sessions
<1>2. ASSUME NEW c \in Calls, RefreshFails(c) PROVE Sessions'
  BY <1>2, <1>t, <1>o DEF RefreshFails, Sessions
<1>3. ASSUME NEW c \in Calls, RefreshUnread(c) PROVE Sessions'
  BY <1>3, <1>t, <1>o DEF RefreshUnread, Sessions
<1>e. ASSUME NEW some, some \subseteq Tokens \cup {None}, End(some),
             UNCHANGED <<forked, broken, lost>>
      PROVE  Sessions'
  BY <1>e, <1>t DEF End, Sessions
<1>4. ASSUME NEW t \in Tabs, Logout(t) PROVE Sessions'
  <2> DEFINE some == IF cookie = None THEN {} ELSE {Session(cookie)}
  <2>1. some \subseteq Tokens \cup {None}
    BY <1>t, SessionType
  <2>2. End(some) /\ UNCHANGED <<forked, broken, lost>>
    BY <1>4 DEF Logout
  <2> HIDE DEF some
  <2>3. QED
    BY <1>e, <2>1, <2>2
<1>5. ASSUME ResetPassword PROVE Sessions'
  <2> DEFINE some == {Session(k) : k \in Tokens} \ {None}
  <2>1. some \subseteq Tokens \cup {None}
    BY SessionType
  <2>2. End(some) /\ UNCHANGED <<forked, broken, lost>>
    BY <1>5 DEF ResetPassword
  <2> HIDE DEF some
  <2>3. QED
    BY <1>e, <2>1, <2>2
<1>6. \/ UNCHANGED history
      \/ \E c \in Calls : RotateRead(c) \/ RefreshFails(c) \/ RefreshUnread(c)
      \/ \E t \in Tabs : Logout(t)
      \/ ResetPassword
  BY DEF Next, Serve, Load, StartCall, AnswerCall, AnswerRetry, CallFails, RefreshOk,
     RefreshDenied, RotateRevoke, RotateCreate, Login, LogoutAnswered, LogoutFails,
     ExpireAccess, ExpireRefresh
<1>7. QED
  BY <1>u, <1>1, <1>2, <1>3, <1>4, <1>5, <1>6

LEMMA ClientNext ==
  ASSUME TInv, Leads, Next
  PROVE  /\ call' \in [Calls -> CallStates] /\ inFlight' \in [Tabs -> Calls \cup {None}]
         /\ Leads'
<1> DEFINE Goal == /\ call' \in [Calls -> CallStates]
                   /\ inFlight' \in [Tabs -> Calls \cup {None}] /\ Leads'
<1>t. /\ call \in [Calls -> CallStates] /\ inFlight \in [Tabs -> Calls \cup {None}]
      /\ RType
  BY DEF TInv, TypeOK, RType
<1>s. call' \in [Calls -> CallStates] /\ Steady /\ Keeps => Goal
  BY <1>t, SteadyLeads DEF Steady
<1>1. ASSUME \/ \E c \in Calls : \/ RotateRead(c) \/ RotateRevoke(c) \/ RotateCreate(c)
                                 \/ RefreshFails(c) \/ RefreshUnread(c)
                                 \/ RefreshOk(c) /\ refresh[c].left
             \/ \E t \in Tabs : Logout(t)
             \/ \E k \in Tokens : ExpireRefresh(k)
             \/ ResetPassword
      PROVE  Goal
  BY <1>1, <1>s, ServerSteady
<1>2. ASSUME \/ \E c \in Calls : \/ StartCall(c) \/ AnswerRetry(c) \/ CallFails(c)
                                 \/ AnswerCall(c) /\ call[c].with = "fresh"
             \/ \E t \in Tabs : Login(t) \/ LogoutAnswered(t) \/ LogoutFails(t) \/ ExpireAccess(t)
      PROVE  Goal
  BY <1>2, <1>s, ClientSteady
<1>3. ASSUME NEW c \in Calls, AnswerCall(c), call[c].with # "fresh" PROVE Goal
  BY <1>3, EnsureLeads DEF AnswerCall
<1>4. ASSUME NEW c \in Calls, NEW path \in {"loading", "login"}, Load(c, path) PROVE Goal
  BY <1>4, LoadLeads
<1>5. ASSUME NEW l \in Calls, Going(l), NEW outcome \in {"ok", "refused", "failed"},
             Resume(l, outcome), refresh'[l].pc = "none", refresh'[l].left = FALSE,
             \A c \in Calls : c # l => /\ refresh'[c].pc = refresh[c].pc
                                       /\ refresh'[c].left = refresh[c].left
      PROVE  Goal
  <2>1. Leads'
    BY <1>5, ResumeLeads
  <2>2. /\ call' \in [Calls -> CallStates]
        /\ inFlight' \in [Tabs -> Calls \cup {None}]
    BY <1>5, ResumeEffect DEF Leads
  <2>3. QED
    BY <2>1, <2>2
<1>6. ASSUME NEW l \in Calls, RefreshOk(l), ~refresh[l].left PROVE Goal
  <2>1. Crosses({l}) /\ refresh'[l] = NoRefresh
    BY <1>6, <1>t, SetCookieEffect, NoRefreshType DEF RefreshOk
  <2>2. /\ Going(l) /\ refresh'[l].pc = "none" /\ refresh'[l].left = FALSE
        /\ \A c \in Calls : c # l => /\ refresh'[c].pc = refresh[c].pc
                                     /\ refresh'[c].left = refresh[c].left
    BY <1>6, <2>1, NoRefreshType DEF RefreshOk, Going, Crosses
  <2>3. Resume(l, "ok")
    BY <1>6 DEF RefreshOk
  <2>4. QED
    BY <1>5, <2>2, <2>3
<1>7. ASSUME NEW l \in Calls, RefreshDenied(l) PROVE Goal
  <2>1. refresh[l].pc \in {"refused", "failed"} /\ Resume(l, refresh[l].pc)
    BY <1>7 DEF RefreshDenied
  <2>2. Going(l)
    BY <2>1 DEF Going, Leads, Left
  <2>3. /\ refresh'[l] = NoRefresh /\ \A c \in Calls : c # l => refresh'[c] = refresh[c]
    BY <1>7, <1>t DEF RefreshDenied, RType
  <2>4. QED
    BY <1>5, <2>1, <2>2, <2>3, NoRefreshType
<1>8. QED
  <2> HIDE DEF Goal
  <2>1. Goal
    BY <1>1, <1>2, <1>3, <1>4, <1>6, <1>7 DEF Next, Serve
  <2>2. QED
    BY <2>1 DEF Goal

LEMMA TypeNext ==
  ASSUME TInv, Leads, Next PROVE TInv'
<1>1. /\ RType' /\ token' \in [Tokens -> TokenRows] /\ cookie' \in Tokens \cup {None}
      /\ ServerStep
  BY ServerSteps
<1>2. /\ call' \in [Calls -> CallStates] /\ inFlight' \in [Tabs -> Calls \cup {None}]
      /\ Counted' /\ Sessions'
  BY ClientNext, CountedNext, SessionsNext
<1>3. cookie' \notin Unused'
  <2>1. CASE cookie' \in Tokens
    <3>1. UsedNext(cookie')
      <4>1. CASE LogsIn
        BY <4>1 DEF LogsIn, Makes, UsedNext
      <4>2. ASSUME NEW k \in Tokens, Used(k), cookie' = k PROVE UsedNext(cookie')
        BY <1>1, <4>2, RowsStay
      <4>3. cookie \in Tokens => Used(cookie)
        BY HeldTokens
      <4>4. \A l \in Calls : Succeeds(l) => refresh[l].new \in Tokens /\ Used(refresh[l].new)
        BY HeldTokens DEF Succeeds
      <4>5. QED
        BY <1>1, <2>1, <4>1, <4>2, <4>3, <4>4, CookieNext
    <3>2. QED
      BY <3>1 DEF Unused, UsedNext
  <2>2. QED
    BY <2>1 DEF Unused
<1>4. TypeOK'
  BY <1>1, <1>2, <1>3 DEF TypeOK, RType, Counted, Sessions, Pages
<1>5. Rooted' /\ \A s \in ended' : s \in Tokens /\ UsedNext(s)
  BY <1>1, RootedNext
<1>6. \A c \in Calls : Holds(c)'
  BY <1>1, HoldsNext
<1>7. QED
  BY <1>4, <1>5, <1>6 DEF TInv, Used, UsedNext

-----------------------------------------------------------------------------
Inv == TInv /\ Leads /\ Uncrossed /\ Single /\ Unseen /\ Latest /\ Current /\ Over

LEMMA InvInit == Init => Inv
<1> SUFFICES ASSUME Init PROVE Inv
  OBVIOUS
<1>1. /\ \A c \in Calls : refresh[c] = NoRefresh /\ call[c] = IdleCall
      /\ \A k \in Tokens : ~Used(k) /\ ~Live(k) /\ token[k].session = None
      /\ cookie = None /\ ended = {}
  BY DEF Init, Used, Live
<1>2. /\ TypeOK
  BY <1>1, NoRefreshType, IdleCallType DEF Init, TypeOK, TokenRows, Unused
<1>3. TInv
  BY <1>1, <1>2, NoRefreshType DEF TInv, Rooted, Holds
<1>4. Leads /\ Uncrossed
  BY <1>1, NoRefreshType, IdleCallType DEF Init, Leads, Waits, Left, Going, Uncrossed
<1>5. Single /\ Unseen /\ Latest /\ Current /\ Over
  BY <1>1, NoRefreshType DEF Single, Unseen, Latest, Gets, Current, Over, Rotates
<1>6. QED
  BY <1>3, <1>4, <1>5 DEF Inv

LEMMA InvNext == Inv /\ [Next]_vars => Inv'
<1>1. ASSUME Inv, Next PROVE Inv'
  <2>1. TInv' /\ Leads'
    BY <1>1, TypeNext, ClientNext DEF Inv
  <2>2. ServerStep
    BY <1>1, ServerSteps DEF Inv
  <2>3. Uncrossed' /\ Single' /\ Unseen' /\ Latest' /\ Current' /\ Over'
    BY <1>1, <2>2, UncrossedNext, SingleNext, UnseenNext, LatestNext, CurrentNext, OverNext
       DEF Inv
  <2>4. QED
    BY <2>1, <2>3 DEF Inv
<1>2. ASSUME Inv, UNCHANGED vars PROVE Inv'
  BY <1>2 DEF Inv, vars, client, history, TInv, TypeOK, Rooted, Holds, Used, Session, Live, Unused,
     limits, Leads, Waits, Left, Going, Uncrossed, Single, Rotates, Unseen, Latest, Gets, Current,
     Sound, Undisturbed, Over
<1>3. QED
  BY <1>1, <1>2

LEMMA Invariant == Spec => []Inv
  BY InvInit, InvNext, PTL DEF Spec

\* Every variable keeps its type.
THEOREM TypeCorrect == Spec => []TypeOK
<1>1. Inv => TypeOK
  BY DEF Inv, TInv
<1>2. QED
  BY <1>1, Invariant, PTL

\* However many calls are answered 401 at once, or wait for the first token of a
\* page that was just loaded, their page sends one refresh at a time, and no call
\* waits for one that is over.
THEOREM WaitersHaveALeader == Spec => []WaitersAreWoken
<1>1. Inv => WaitersAreWoken
  BY DEF Inv, Leads, Waits, Going, WaitersAreWoken
<1>2. QED
  BY <1>1, Invariant, PTL

\* A session has one live refresh token, unless two rotations read one at once.
THEOREM OneTokenPerSession == Spec => []OneLiveToken
<1>1. Inv => OneLiveToken
  <2> SUFFICES ASSUME Inv, NEW j \in Tokens, NEW k \in Tokens, Live(j), Live(k),
                      Session(j) = Session(k), Session(j) \notin forked
               PROVE  j = k
    BY DEF OneLiveToken
  <2>1. Session(j) \in Tokens
    BY DEF Inv, TInv, Rooted, Used, Live, Session
  <2>2. QED
    BY <2>1 DEF Inv, Single
<1>2. QED
  BY <1>1, Invariant, PTL

\* At rest the browser holds the live token of its session, or one that has run out.
THEOREM BrowserHoldsLiveToken == Spec => []CookieIsCurrent
<1>1. Inv => CookieIsCurrent
  BY DEF Inv, Current, CookieIsCurrent, Undisturbed, Sound
<1>2. QED
  BY <1>1, Invariant, PTL

\* A session that was ended stays ended, unless a rotation was under way when it
\* was, two had read the same token, or the answer with its latest token was lost.
THEOREM EndedForGood == Spec => []EndedStaysEnded
<1>1. Inv => EndedStaysEnded
  <2> SUFFICES ASSUME Inv, NEW k \in Tokens, Live(k), Session(k) \in ended,
                      Session(k) \notin caught \cup forked \cup lost
               PROVE  FALSE
    BY DEF EndedStaysEnded
  <2>1. QED
    BY DEF Inv, Over
<1>2. QED
  BY <1>1, Invariant, PTL

\* Under a live session the application is replaced by the login page only if the
\* cookie was replaced under a refresh of its tab, and gives way to it only if the
\* user logs out or its call of /me comes to nothing.
THEOREM LoginOnlyWhenReplaced == Spec => NotSentToLogin
<1> DEFINE Shown ==
      \A t \in Tabs : (InApp(t) /\ Live(cookie)) =>
         /\ page'[t] = "away" =>
              \E c \in InTab(t) : refresh[c].pc = "refused" /\ refresh[c].crossed
         /\ page'[t] = "login" =>
              \/ leaving[t] = "revoked" \/ ends' # ends
              \/ \E c \in InTab(t) : MeLost(c)
<1>1. ASSUME Inv, Next, NEW t \in Tabs, InApp(t), Live(cookie)
      PROVE  /\ page'[t] = "away" =>
                  \E c \in InTab(t) : refresh[c].pc = "refused" /\ refresh[c].crossed
             /\ page'[t] = "login" =>
                  \/ leaving[t] = "revoked" \/ ends' # ends
                  \/ \E c \in InTab(t) : MeLost(c)
  <2> DEFINE Away == \E c \in InTab(t) : refresh[c].pc = "refused" /\ refresh[c].crossed
             Lost == \E c \in InTab(t) : MeLost(c)
             Goal == /\ page'[t] = "away" => Away
                     /\ page'[t] = "login" => leaving[t] = "revoked" \/ ends' # ends \/ Lost
  <2>t. /\ page \in [Tabs -> Pages] /\ page[t] \in {"loading", "app"}
        /\ faults \in 0..MaxFaults /\ ends \in 0..MaxEnds
        /\ call \in [Calls -> CallStates]
    BY <1>1 DEF Inv, TInv, TypeOK, Pages, InApp
  <2>i. TInv /\ Waits /\ Leads
    BY <1>1 DEF Inv, Leads
  <2>k. page'[t] = page[t] \/ page'[t] = "app" => Goal
    BY <2>t
  <2>1. ASSUME NEW c \in Calls, NEW path \in {"loading", "login"}, Load(c, path) PROVE Goal
    <3>1. CASE TabOf[c] = t
      BY <1>1, <2>1, <2>t, <3>1 DEF Load
    <3>2. CASE TabOf[c] # t
      BY <2>1, <2>k, <2>t, <3>2 DEF Load
    <3>3. QED
      BY <3>1, <3>2
  <2>2. ASSUME NEW c \in Calls, AnswerCall(c) PROVE Goal
    <3>1. UNCHANGED page \/ Told(c, TRUE)
      BY <2>2 DEF AnswerCall
    <3>2. page'[t] = page[t] \/ page'[t] = "app"
      BY <2>t, <3>1, ToldPage
    <3>3. QED
      BY <2>k, <3>2
  <2>3. ASSUME NEW c \in Calls, AnswerRetry(c) PROVE Goal
    <3>1. CASE call[c].with = "fresh"
      <4>1. Told(c, TRUE)
        BY <2>3, <3>1 DEF AnswerRetry, Told
      <4>2. page'[t] = page[t] \/ page'[t] = "app"
        BY <2>t, <4>1, ToldPage
      <4>3. QED
        BY <2>k, <4>2
    <3>2. CASE call[c].with # "fresh"
      <4>1. Told(c, FALSE) /\ call[c].pc = "retry" /\ call[c].with = "none"
        BY <2>3, <2>t, <3>2 DEF AnswerRetry, Told, CallStates
      <4>2. \/ page'[t] = page[t]
            \/ TabOf[c] = t /\ call[c].me /\ page'[t] = "login"
        BY <2>t, <4>1, ToldPage
      <4>3. TabOf[c] = t /\ call[c].me => Lost
        BY <4>1 DEF MeLost, InTab
      <4>4. QED
        BY <2>k, <4>2, <4>3
    <3>3. QED
      BY <3>1, <3>2
  <2>4. ASSUME NEW c \in Calls, CallFails(c) PROVE Goal
    <3>1. Told(c, FALSE) /\ call[c].pc \in {"sent", "retry"} /\ faults' = faults + 1
      BY <2>4 DEF CallFails
    <3>2. \/ page'[t] = page[t]
          \/ TabOf[c] = t /\ call[c].me /\ page'[t] = "login"
      BY <2>t, <3>1, ToldPage
    <3>3. faults' # faults
      BY <2>t, <3>1
    <3>4. TabOf[c] = t /\ call[c].me => Lost
      BY <3>1, <3>3 DEF MeLost, InTab
    <3>5. QED
      BY <2>k, <3>2, <3>4
  <2>5. ASSUME NEW l \in Calls, RefreshOk(l) PROVE Goal
    <3>1. CASE refresh[l].left
      BY <2>5, <2>k, <3>1 DEF RefreshOk, client
    <3>2. CASE ~refresh[l].left
      <4>1. Resume(l, "ok")
        BY <2>5, <3>2 DEF RefreshOk
      <4>2. /\ TabOf[l] # t => page'[t] = page[t]
            /\ TabOf[l] = t => page'[t] # "away" /\ page'[t] # "login"
        BY <1>1, <2>i, <4>1, ResumeEffect
      <4>3. QED
        BY <2>k, <4>2
    <3>3. QED
      BY <3>1, <3>2
  <2>6. ASSUME NEW l \in Calls, RefreshDenied(l) PROVE Goal
    <3>1. refresh[l].pc \in {"refused", "failed"} /\ Resume(l, refresh[l].pc)
      BY <2>6 DEF RefreshDenied
    <3>2. CASE TabOf[l] # t
      <4>1. page'[t] = page[t]
        BY <2>i, <3>1, <3>2, ResumeEffect
      <4>2. QED
        BY <2>k, <4>1
    <3>3. CASE TabOf[l] = t
      <4>1. /\ page'[t] = "away" => refresh[l].pc = "refused"
            /\ page'[t] = "login" =>
                 /\ refresh[l].pc = "failed"
                 /\ \E c \in Waiting(l) : call[c].me /\ call[c].pc = "again"
        BY <1>1, <2>i, <3>1, <3>3, ResumeEffect
      <4>2. refresh[l].pc = "refused" => refresh[l].crossed
        BY <1>1, <2>i, <3>1 DEF Inv, Uncrossed, Leads, Left
      <4>3. page'[t] = "away" => Away
        BY <3>3, <4>1, <4>2 DEF InTab
      <4>4. ASSUME page'[t] = "login" PROVE Lost
        <5>1. PICK c \in Calls : call[c].on = l /\ call[c].me /\ call[c].pc = "again"
          BY <4>1, <4>4 DEF Waiting
        <5>2. c \in InTab(t)
          BY <2>i, <3>3, <5>1 DEF Waits, InTab
        <5>3. MeLost(c)
          BY <4>1, <4>4, <5>1 DEF MeLost
        <5>4. QED
          BY <5>2, <5>3
      <4>5. QED
        BY <4>3, <4>4
    <3>4. QED
      BY <3>2, <3>3
  <2>7. ASSUME NEW u \in Tabs, Login(u) PROVE Goal
    BY <2>7, <2>t, <2>k DEF Login
  <2>8. ASSUME NEW u \in Tabs, LogoutAnswered(u) PROVE Goal
    BY <2>8, <2>t, <2>k DEF LogoutAnswered
  <2>9. ASSUME NEW u \in Tabs, LogoutFails(u) PROVE Goal
    <3>1. page' = [page EXCEPT ![u] = "login"]
      BY <2>9 DEF LogoutFails
    <3>2. CASE u # t
      BY <2>k, <2>t, <3>1, <3>2
    <3>3. CASE u = t
      <4>1. leaving[t] = "revoked" \/ ends' = ends + 1
        BY <2>9, <3>3 DEF LogoutFails
      <4>2. leaving[t] = "revoked" \/ ends' # ends
        BY <2>t, <4>1
      <4>3. page'[t] = "login"
        BY <2>t, <3>1, <3>3
      <4>4. QED
        BY <4>2, <4>3
    <3>4. QED
      BY <3>2, <3>3
  <2>10. ASSUME UNCHANGED page PROVE Goal
    BY <2>10, <2>k
  <2>11. \/ \E c \in Calls : \/ \E path \in {"loading", "login"} : Load(c, path)
                             \/ AnswerCall(c) \/ AnswerRetry(c) \/ CallFails(c)
                             \/ RefreshOk(c) \/ RefreshDenied(c)
         \/ \E u \in Tabs : Login(u) \/ LogoutAnswered(u) \/ LogoutFails(u)
         \/ UNCHANGED page
    BY <1>1 DEF Next, Serve, StartCall, RefreshUnread, RotateRead, RotateRevoke, RotateCreate,
       RefreshFails, Logout, ExpireAccess, ExpireRefresh, ResetPassword, client
  <2>12. Goal
    <3> HIDE DEF Goal
    <3>1. QED
      BY <2>1, <2>2, <2>3, <2>4, <2>5, <2>6, <2>7, <2>8, <2>9, <2>10, <2>11
  <2>13. QED
    BY <2>12
<1>2. ASSUME Inv, Next PROVE Shown
  BY <1>1, <1>2
<1>3. UNCHANGED vars => Shown
  BY DEF vars, client, InApp
<1>4. Inv /\ [Next]_vars => [Shown]_vars
  BY <1>2
<1>5. QED
  BY <1>4, Invariant, PTL DEF Spec, NotSentToLogin

=============================================================================
