------------------------- MODULE OrgMembershipProofs -------------------------
(***************************************************************************)
(* Proofs about OrgMembership, for every finite set of users, any          *)
(* invitations, any number of requests at once, and every bound.           *)
(***************************************************************************)
EXTENDS OrgMembership, FiniteSetTheorems, TLAPS

USE MembershipAssumption

-----------------------------------------------------------------------------
(* What a step does to a request. *)

Pcs == {"idle", "pending", "member", "read", "expire", "count", "seats", "create",
        "existing", "join", "consume", "mark", "recount", "reseat", "delete", "update"}

\* The request is still the same one.
Same(q) == /\ request'[q].kind = request[q].kind
           /\ request'[q].target = request[q].target
           /\ request'[q].invite = request[q].invite
           /\ request'[q].asRole = request[q].asRole

Alone(q) == /\ request' \in [Requests -> RequestStates]
            /\ \A p \in Requests \ {q} : request'[p] = request[p]

RInv == request \in [Requests -> RequestStates]

LEMMA IdleType == Idle \in RequestStates /\ Idle.pc = "idle" /\ Idle.counted = 0
  BY DEF Idle, RequestStates, Roles, Kinds

LEMMA GotoEffect ==
  ASSUME RInv, NEW q \in Requests, NEW pc \in Pcs, Goto(q, pc)
  PROVE  /\ Alone(q) /\ Same(q) /\ request'[q].pc = pc
         /\ request'[q].counted = request[q].counted
  BY DEF RInv, Goto, Alone, Same, Pcs, RequestStates

LEMMA EndEffect ==
  ASSUME RInv, NEW q \in Requests, End(q)
  PROVE  Alone(q) /\ request'[q].pc = "idle" /\ request'[q].counted = 0
  BY IdleType DEF RInv, End, Alone

LEMMA CountEffect ==
  ASSUME RInv, NEW q \in Requests, NEW pc \in Pcs, NEW n \in Nat,
         request' = [request EXCEPT ![q].pc = pc, ![q].counted = n]
  PROVE  Alone(q) /\ Same(q) /\ request'[q].pc = pc /\ request'[q].counted = n
<1> DEFINE p == [request[q] EXCEPT !.pc = pc, !.counted = n]
<1>1. request[q] \in RequestStates
  BY DEF RInv
<1>2. /\ p \in RequestStates /\ p.pc = pc /\ p.counted = n
      /\ p.kind = request[q].kind /\ p.target = request[q].target
      /\ p.invite = request[q].invite /\ p.asRole = request[q].asRole
  BY <1>1 DEF Pcs, RequestStates
<1>3. request' = [request EXCEPT ![q] = p]
  OBVIOUS
<1> HIDE DEF p
<1>4. QED
  BY <1>2, <1>3 DEF RInv, Alone, Same

LEMMA BeginEffect ==
  ASSUME RInv, NEW q \in Requests, NEW kind \in Kinds, NEW pc \in Pcs,
         NEW u \in Users, NEW r \in Roles, Begin(q, kind, pc, u, r)
  PROVE  /\ Alone(q) /\ At(q, "idle")
         /\ request'[q].kind = kind /\ request'[q].pc = pc
         /\ request'[q].target = u /\ request'[q].asRole = r
         /\ request'[q].counted = 0
  BY IdleType DEF RInv, Begin, Arrive, Alone, Pcs, RequestStates, Idle

LEMMA MemberCount ==
  /\ IsFiniteSet(Members) /\ Cardinality(Members) \in Nat
  /\ Cardinality(Users) \in Nat /\ Cardinality(Members) <= Cardinality(Users)
<1>1. Members \subseteq Users
  BY DEF Members
<1>2. QED
  BY <1>1, FS_Subset, FS_CardinalityType

\* Where a request that arrives comes in.
Arrived(q) ==
  /\ request'[q].counted = 0
  /\ \/ request'[q].pc = "pending" /\ request'[q].kind = "invite"
     \/ request'[q].pc = "count" /\ request'[q].kind = "add"
     \/ request'[q].pc = "delete" /\ request'[q].kind = "remove"
     \/ request'[q].pc = "update" /\ request'[q].kind = "role"
     \/ request'[q].pc = "read" /\ request'[q].kind = "billing"
     \/ /\ request'[q].pc = "read" /\ request'[q].kind \in {"accept", "anonymous"}
        /\ request'[q].invite \in Invites
        /\ invite[request'[q].invite].status # "NONE"
        /\ request'[q].target = invite[request'[q].invite].email

LEMMA StartEffect ==
  ASSUME TypeOK, NEW q \in Requests, Start(q)
  PROVE  /\ Alone(q) /\ At(q, "idle") /\ Arrived(q)
         /\ UNCHANGED <<now, db, faults, history>>
         /\ started' \in 0..MaxStarted
<1>r. RInv /\ GivenRoles \subseteq Roles /\ "MEMBER" \in Roles
  BY DEF TypeOK, RInv, Roles
<1>s. ASSUME Arrive(q) PROVE started' \in 0..MaxStarted
  BY <1>s DEF TypeOK, Arrive
<1>1. ASSUME NEW u \in Users, NEW r \in GivenRoles,
             StartInvite(q, u, r) \/ StartAdd(q, u, r) \/ StartRole(q, u, r)
      PROVE  Alone(q) /\ At(q, "idle") /\ Arrived(q)
  <2>1. PICK kind \in {"invite", "add", "role"} :
          Begin(q, kind, CASE kind = "invite" -> "pending" [] kind = "add" -> "count"
                           [] kind = "role" -> "update", u, r)
    BY <1>1 DEF StartInvite, StartAdd, StartRole
  <2>2. QED
    BY <2>1, <1>r, BeginEffect DEF Pcs, Kinds, Arrived
<1>2. ASSUME NEW u \in Users, StartRemove(q, u) \/ StartBilling(q, u)
      PROVE  Alone(q) /\ At(q, "idle") /\ Arrived(q)
  <2>1. PICK kind \in {"remove", "billing"} :
          Begin(q, kind, CASE kind = "remove" -> "delete" [] kind = "billing" -> "read",
                u, "MEMBER")
    BY <1>2 DEF StartRemove, StartBilling
  <2>2. QED
    BY <2>1, <1>r, BeginEffect DEF Pcs, Kinds, Arrived
<1>3. ASSUME NEW i \in Invites, NEW kind \in {"accept", "anonymous"}, StartAccept(q, i, kind)
      PROVE  Alone(q) /\ At(q, "idle") /\ Arrived(q)
  <2>1. invite[i].email \in Users /\ invite[i].role \in Roles /\ invite[i].status # "NONE"
    BY <1>3 DEF TypeOK, InviteRows, StartAccept
  <2> DEFINE p == [Idle EXCEPT !.kind = kind, !.pc = "read", !.invite = i,
                       !.target = invite[i].email, !.asRole = invite[i].role]
  <2>2. /\ p \in RequestStates /\ p.kind = kind /\ p.pc = "read" /\ p.invite = i
        /\ p.target = invite[i].email /\ p.counted = 0
    BY <2>1 DEF Idle, RequestStates, Kinds, Roles
  <2>3. request' = [request EXCEPT ![q] = p] /\ At(q, "idle")
    BY <1>3 DEF StartAccept, Arrive
  <2> HIDE DEF p
  <2>4. QED
    BY <2>1, <2>2, <2>3, <1>r DEF RInv, Alone, Arrived
<1>4. UNCHANGED <<now, db, faults, history>> /\ Arrive(q)
  BY DEF Start, StartInvite, StartAdd, StartRole, StartRemove, StartBilling, StartAccept, Begin
<1>5. QED
  BY <1>1, <1>2, <1>3, <1>4, <1>s DEF Start

\* Which kind of request is where.
Kinded ==
  \A q \in Requests :
    /\ request[q].pc \in {"pending", "member", "create"} => Is(q, "invite")
    /\ request[q].pc \in {"count", "seats"} =>
         request[q].kind \in {"invite", "accept", "anonymous", "add"}
    /\ At(q, "existing") => request[q].kind \in {"accept", "anonymous", "add"}
    /\ request[q].pc \in {"consume", "mark"} => request[q].kind \in {"accept", "anonymous"}

\* Where a request that goes on comes to.
Served(q) ==
  LET pc  == request[q].pc
      new == request'[q].pc IN
  \/ pc = "pending" /\ new = "member" /\ FindPending(q)
  \/ pc = "member" /\ new = "count"
  \/ pc = "count" /\ new = "seats"
  \/ /\ pc = "seats" /\ ~Full(request[q].counted)
     /\ new = AfterSeats[request[q].kind]
  \/ pc = "read" /\ new = "count" /\ Is(q, "accept")
  \/ pc = "read" /\ new = "existing" /\ Is(q, "anonymous")
  \/ pc = "read" /\ new = "expire"
  \/ pc = "existing" /\ new = "mark" /\ Target(q) \in Members /\ ~Is(q, "add")
  \/ pc = "existing" /\ new = "count" /\ Is(q, "anonymous")
  \/ pc = "existing" /\ new = "join" /\ ~Is(q, "anonymous")
  \/ pc = "join" /\ new = "consume" /\ Is(q, "accept") /\ Join(q) /\ Target(q) \in joined'
  \/ pc = "join" /\ new = "recount"
  \/ pc = "consume" /\ new = "recount"
  \/ pc = "delete" /\ new = "recount"
  \/ pc = "recount" /\ new = "reseat"
  \/ pc = "read" /\ new = "update" /\ Is(q, "billing")

\* What a request remembers of the count of members.
Counts(q) ==
  \/ request'[q].counted = request[q].counted
  \/ request'[q].pc = "idle" /\ request'[q].counted = 0
  \/ request'[q].pc \in {"seats", "reseat"} /\ request'[q].counted = Cardinality(Members)

LEMMA ServeEffect ==
  ASSUME TypeOK, Kinded, NEW q \in Requests, Serve(q)
  PROVE  /\ Alone(q) /\ Counts(q)
         /\ request'[q].pc = "idle" \/ (Same(q) /\ Served(q))
<1>r. RInv
  BY DEF TypeOK, RInv
<1> USE DEF At, Is, Pcs
<1>1. CASE FindPending(q)
  BY <1>1, <1>r, EndEffect, GotoEffect DEF FindPending, Served, Counts
<1>2. CASE RefuseMember(q)
  BY <1>2, <1>r, EndEffect, GotoEffect DEF RefuseMember, Served, Counts
<1>3. CASE CreateInvite(q)
  BY <1>3, <1>r, EndEffect DEF CreateInvite, Counts
<1>4. CASE CountMembers(q)
  BY <1>4, <1>r, MemberCount, CountEffect DEF CountMembers, Served, Counts
<1>5. CASE EnforceMemberLimit(q)
  <2>1. At(q, "seats") /\ AfterSeats[request[q].kind] \in Pcs
    BY <1>5 DEF EnforceMemberLimit, Kinded, AfterSeats
  <2>2. \/ End(q)
        \/ ~Full(request[q].counted) /\ Goto(q, AfterSeats[request[q].kind])
    BY <1>5 DEF EnforceMemberLimit
  <2>3. QED
    BY <2>1, <2>2, <1>r, EndEffect, GotoEffect DEF Served, Counts
<1>6. CASE Recount(q)
  BY <1>6, <1>r, MemberCount, CountEffect DEF Recount, Served, Counts
<1>7. CASE Reseat(q)
  BY <1>7, <1>r, EndEffect DEF Reseat, Counts
<1>8. CASE ReadInvite(q)
  <2>1. \/ End(q)
        \/ At(q, "read") /\ Is(q, "accept") /\ Goto(q, "count")
        \/ At(q, "read") /\ Is(q, "anonymous") /\ Goto(q, "existing")
        \/ At(q, "read") /\ Goto(q, "expire")
    <3>1. CASE request[q].pc = "read" /\ invite[Token(q)].status = "PENDING"
      <4>1. /\ request[q].kind \in {"accept", "anonymous"}
            /\ Goto(q, IF now > invite[Token(q)].expiresAt THEN "expire"
                       ELSE IF Is(q, "accept") THEN "count" ELSE "existing")
        BY <1>8, <3>1 DEF ReadInvite, At
      <4>2. CASE now > invite[Token(q)].expiresAt
        BY <3>1, <4>1, <4>2
      <4>3. CASE ~(now > invite[Token(q)].expiresAt) /\ request[q].kind = "accept"
        BY <3>1, <4>1, <4>3
      <4>4. CASE ~(now > invite[Token(q)].expiresAt) /\ request[q].kind = "anonymous"
        BY <3>1, <4>1, <4>4
      <4>5. QED
        BY <4>1, <4>2, <4>3, <4>4
    <3>2. CASE ~(request[q].pc = "read" /\ invite[Token(q)].status = "PENDING")
      BY <1>8, <3>2 DEF ReadInvite, At
    <3>3. QED
      BY <3>1, <3>2
  <2>2. QED
    BY <2>1, <1>r, EndEffect, GotoEffect DEF Served, Counts
<1>9. CASE FindMember(q)
  <2>1. PICK pc \in {"idle", "mark", "count", "join"} :
          /\ request' = [request EXCEPT ![q].known = Target(q) \in account, ![q].pc = pc]
          /\ pc = "mark" => Target(q) \in Members /\ ~Is(q, "add")
          /\ pc = "count" => Is(q, "anonymous")
          /\ pc = "join" => ~Is(q, "anonymous")
    BY <1>9 DEF FindMember
  <2>2. /\ Alone(q) /\ Same(q) /\ request'[q].pc = pc
        /\ request'[q].counted = request[q].counted
    <3> DEFINE k == Target(q) \in account
               p == [request[q] EXCEPT !.known = k, !.pc = pc]
    <3>1. k \in BOOLEAN /\ request[q] \in RequestStates
      BY <1>r DEF RInv
    <3>2. request' = [request EXCEPT ![q] = p]
      BY <2>1, <1>r DEF RInv, RequestStates
    <3> HIDE DEF k
    <3>3. /\ p \in RequestStates /\ p.pc = pc /\ p.kind = request[q].kind
          /\ p.target = request[q].target /\ p.invite = request[q].invite
          /\ p.asRole = request[q].asRole /\ p.counted = request[q].counted
      BY <3>1 DEF RequestStates
    <3> HIDE DEF p
    <3>4. QED
      BY <3>2, <3>3, <1>r DEF RInv, Alone, Same
  <2>3. At(q, "existing")
    BY <1>9 DEF FindMember
  <2>4. QED
    BY <2>1, <2>2, <2>3 DEF Served, Counts
<1>10. CASE Join(q)
  <2>1. /\ At(q, "join")
        /\ \/ End(q)
           \/ Is(q, "accept") /\ Goto(q, "consume") /\ Target(q) \in joined'
           \/ Goto(q, "recount")
    BY <1>10 DEF Join, NewMember
  <2>2. QED
    BY <1>10, <2>1, <1>r, EndEffect, GotoEffect DEF Served, Counts
<1>11. CASE JoinInOne(q)
  BY <1>11, <1>r, EndEffect, GotoEffect DEF JoinInOne, Served, Counts
<1>12. CASE Consume(q)
  BY <1>12, <1>r, EndEffect, GotoEffect DEF Consume, Served, Counts
<1>13. CASE RemoveMember(q)
  BY <1>13, <1>r, EndEffect, GotoEffect DEF RemoveMember, Served, Counts
<1>14. CASE UpdateRole(q)
  BY <1>14, <1>r, EndEffect DEF UpdateRole, Counts
<1>15. CASE ReadBilling(q)
  <2>1. PICK pc \in {"update", "idle"} :
          request' = [request EXCEPT ![q].seen = role[Target(q)], ![q].pc = pc]
    BY <1>15 DEF ReadBilling
  <2>2. role[Target(q)] \in Roles \cup {"NONE"}
    BY DEF TypeOK, Target, RequestStates
  <2>3. /\ Alone(q) /\ Same(q) /\ request'[q].pc = pc
        /\ request'[q].counted = request[q].counted
    <3> DEFINE p == [request[q] EXCEPT !.seen = role[Target(q)], !.pc = pc]
    <3>1. request[q] \in RequestStates
      BY <1>r DEF RInv
    <3>2. /\ p \in RequestStates /\ p.pc = pc /\ p.counted = request[q].counted
          /\ p.kind = request[q].kind /\ p.target = request[q].target
          /\ p.invite = request[q].invite /\ p.asRole = request[q].asRole
      BY <2>2, <3>1 DEF RequestStates
    <3>3. request' = [request EXCEPT ![q] = p]
      BY <2>1
    <3> HIDE DEF p
    <3>4. QED
      BY <3>2, <3>3, <1>r DEF RInv, Alone, Same
  <2>4. At(q, "read") /\ Is(q, "billing")
    BY <1>15 DEF ReadBilling
  <2>5. QED
    BY <2>1, <2>3, <2>4 DEF Served, Counts
<1>16. ASSUME NEW admin \in BOOLEAN, UpdateBilling(q, admin)
       PROVE  Alone(q) /\ Counts(q) /\ request'[q].pc = "idle"
  BY <1>16, <1>r, EndEffect DEF UpdateBilling, Counts
<1>17. QED
  BY <1>1, <1>2, <1>3, <1>4, <1>5, <1>6, <1>7, <1>8, <1>9, <1>10, <1>11, <1>12, <1>13,
     <1>14, <1>15, <1>16 DEF Serve

-----------------------------------------------------------------------------
(* Types. *)

Counted == \A q \in Requests : request[q].counted <= Cardinality(Users)

TInv == TypeOK /\ Kinded /\ Counted

\* What a step does to the members.
LEMMA MembersStep ==
  ASSUME TInv, Next
  PROVE  \/ Members' = Members /\ joined \subseteq joined' /\ (crowded => crowded')
         \/ \E q \in Requests :
              /\ At(q, "join") /\ Target(q) \in Users \ Members
              /\ Members' = Members \cup {Target(q)}
              /\ joined' = joined \cup {Target(q)}
              /\ crowded' = (crowded \/ Cardinality(Members) # request[q].counted)
              /\ UNCHANGED <<seatsUsed, drift>>
              /\ request'[q].pc \in {"consume", "recount"}
         \/ \E q \in Requests :
              /\ RemoveMember(q) /\ Members' = Members \ {Target(q)}
              /\ UNCHANGED <<joined, crowded, seatsUsed, drift>>
              /\ request'[q].pc = "recount"
<1>t. /\ role \in [Users -> Roles \cup {"NONE"}] /\ RInv
      /\ \A q \in Requests : Target(q) \in Users /\ request[q].asRole \in Roles
  BY DEF TInv, TypeOK, RInv, RequestStates, Target
<1>1. ASSUME NEW q \in Requests, Join(q) \/ JoinInOne(q), Target(q) \notin Members,
             role' # role
      PROVE  /\ At(q, "join") /\ Target(q) \in Users \ Members
             /\ Members' = Members \cup {Target(q)}
             /\ joined' = joined \cup {Target(q)}
             /\ crowded' = (crowded \/ Cardinality(Members) # request[q].counted)
             /\ UNCHANGED <<seatsUsed, drift>>
             /\ request'[q].pc \in {"consume", "recount"}
  <2>1. /\ NewMember(q) /\ UNCHANGED <<seatsUsed, drift>> /\ At(q, "join")
        /\ Goto(q, "consume") \/ Goto(q, "recount")
    BY <1>1 DEF Join, JoinInOne
  <2>2. Members' = Members \cup {Target(q)}
    BY <1>t, <2>1 DEF NewMember, Members, Roles
  <2>3. request'[q].pc \in {"consume", "recount"}
    BY <1>t, <2>1, GotoEffect DEF Pcs
  <2>4. QED
    BY <1>t, <1>1, <2>1, <2>2, <2>3 DEF NewMember
<1>2. ASSUME NEW q \in Requests, Join(q) \/ JoinInOne(q), Target(q) \in Members \/ role' = role
      PROVE  Members' = Members /\ joined \subseteq joined' /\ (crowded => crowded')
  BY <1>2 DEF Join, JoinInOne, NewMember, Members
<1>3. ASSUME NEW q \in Requests, RemoveMember(q)
      PROVE  /\ Members' = Members \ {Target(q)} /\ UNCHANGED <<joined, crowded, seatsUsed, drift>>
             /\ request'[q].pc = "recount" \/ Members' = Members
  <2>1. Members' = Members \ {Target(q)}
    BY <1>3, <1>t DEF RemoveMember, Members
  <2>2. CASE Target(q) \in Members
    BY <1>3, <1>t, <2>1, <2>2, GotoEffect DEF RemoveMember, Pcs, history
  <2>3. CASE Target(q) \notin Members
    BY <1>3, <2>1, <2>3 DEF RemoveMember, history
  <2>4. QED
    BY <2>2, <2>3
<1>4. ASSUME NEW q \in Requests, UpdateRole(q)
      PROVE  Members' = Members /\ UNCHANGED <<joined, crowded>>
  BY <1>4, <1>t DEF UpdateRole, Members, Roles, history
<1>5. \/ \E q \in Requests : Join(q) \/ JoinInOne(q) \/ RemoveMember(q) \/ UpdateRole(q)
      \/ UNCHANGED <<role, joined, crowded>>
  <2>1. ASSUME NEW q \in Requests, Start(q) PROVE UNCHANGED <<role, joined, crowded>>
    BY <2>1, StartEffect DEF TInv, db, history
  <2>2. ASSUME NEW q \in Requests, Serve(q)
        PROVE  \/ Join(q) \/ JoinInOne(q) \/ RemoveMember(q) \/ UpdateRole(q)
               \/ UNCHANGED <<role, joined, crowded>>
    BY <2>2 DEF Serve, FindPending, RefuseMember, CreateInvite, CountMembers,
       EnforceMemberLimit, Recount, Reseat, ReadInvite, FindMember, Consume, ReadBilling,
       UpdateBilling, db, history
  <2>3. ASSUME Tick \/ \E q \in Requests : Stop(q) PROVE UNCHANGED <<role, joined, crowded>>
    BY <2>3 DEF Stop, Tick, db, history
  <2>4. QED
    BY <2>1, <2>2, <2>3 DEF Next
<1>6. UNCHANGED <<role, joined, crowded>> => Members' = Members
  BY DEF Members
<1>7. QED
  BY <1>1, <1>2, <1>3, <1>4, <1>5, <1>6

\* What a step does to an invitation.
LEMMA InviteStep ==
  ASSUME TypeOK, Next, NEW i \in Invites
  PROVE  \/ invite'[i] = invite[i]
         \/ /\ invite[i].status = "NONE" /\ invite'[i].status = "PENDING"
            /\ \E q \in Requests : CreateInvite(q) /\ invite'[i].email = Target(q)
         \/ invite'[i].email = invite[i].email /\ invite'[i].status = "EXPIRED"
         \/ /\ invite'[i].email = invite[i].email /\ invite'[i].status = "ACCEPTED"
            /\ \E q \in Requests : /\ i = Token(q) /\ (Consume(q) \/ JoinInOne(q))
                                   /\ JoinInOne(q) => Target(q) \in joined'
<1>t. invite \in [Invites -> InviteRows]
  BY DEF TypeOK
<1>1. ASSUME NEW q \in Requests, CreateInvite(q)
      PROVE  \/ invite'[i] = invite[i]
             \/ /\ invite[i].status = "NONE" /\ invite'[i].status = "PENDING"
                /\ invite'[i].email = Target(q)
  BY <1>1, <1>t DEF CreateInvite
<1>2. ASSUME NEW q \in Requests, ReadInvite(q)
      PROVE  \/ invite'[i] = invite[i]
             \/ invite'[i].email = invite[i].email /\ invite'[i].status = "EXPIRED"
  BY <1>2, <1>t DEF ReadInvite, InviteRows
<1>3. ASSUME NEW q \in Requests, JoinInOne(q) \/ Consume(q)
      PROVE  \/ invite'[i] = invite[i]
             \/ /\ invite'[i].email = invite[i].email /\ invite'[i].status = "ACCEPTED"
                /\ i = Token(q) /\ (JoinInOne(q) => Target(q) \in joined')
  BY <1>3, <1>t DEF JoinInOne, NewMember, Consume, Accepted, InviteRows
<1>4. \/ \E q \in Requests : CreateInvite(q) \/ ReadInvite(q) \/ JoinInOne(q) \/ Consume(q)
      \/ UNCHANGED invite
  <2>1. ASSUME NEW q \in Requests, Start(q) PROVE UNCHANGED invite
    BY <2>1, StartEffect DEF db
  <2>2. QED
    BY <2>1 DEF Next, Serve, FindPending, RefuseMember, CountMembers,
       EnforceMemberLimit, Recount, Reseat, FindMember, Join, RemoveMember, UpdateRole,
       ReadBilling, UpdateBilling, Stop, Tick, db
<1>5. QED
  BY <1>1, <1>2, <1>3, <1>4

\* What a step does to the cached count.
LEMMA SeatsStep ==
  ASSUME TInv, Next
  PROVE  \/ UNCHANGED <<seatsUsed, drift>>
         \/ \E q \in Requests :
              /\ request[q].pc \in {"seats", "reseat"} /\ seatsUsed' = request[q].counted
              /\ drift' = (drift \/ request[q].counted # Cardinality(Members))
              /\ Members' = Members
         \/ \E q \in Requests :
              /\ Stop(q) /\ UNCHANGED <<seatsUsed, role>>
              /\ drift' = (drift \/ request[q].pc \in {"consume", "recount", "reseat"})
<1>1. ASSUME NEW q \in Requests, EnforceMemberLimit(q) \/ Reseat(q)
      PROVE  /\ request[q].pc \in {"seats", "reseat"} /\ seatsUsed' = request[q].counted
             /\ drift' = (drift \/ request[q].counted # Cardinality(Members))
             /\ Members' = Members
  BY <1>1 DEF EnforceMemberLimit, Reseat, WriteSeats, At, Members
<1>2. ASSUME NEW q \in Requests, Stop(q)
      PROVE  /\ UNCHANGED <<seatsUsed, role>>
             /\ drift' = (drift \/ request[q].pc \in {"consume", "recount", "reseat"})
  BY <1>2 DEF Stop, db
<1>3. \/ \E q \in Requests : EnforceMemberLimit(q) \/ Reseat(q) \/ Stop(q)
      \/ UNCHANGED <<seatsUsed, drift>>
  <2>1. ASSUME NEW q \in Requests, Start(q) PROVE UNCHANGED <<seatsUsed, drift>>
    BY <2>1, StartEffect DEF TInv, db, history
  <2>2. ASSUME NEW q \in Requests, Serve(q)
        PROVE  EnforceMemberLimit(q) \/ Reseat(q) \/ UNCHANGED <<seatsUsed, drift>>
    BY <2>2 DEF Serve, FindPending, RefuseMember, CreateInvite, CountMembers,
       Recount, ReadInvite, FindMember, Join, JoinInOne, Consume, RemoveMember, UpdateRole,
       ReadBilling, UpdateBilling, db, history
  <2>3. Tick => UNCHANGED <<seatsUsed, drift>>
    BY DEF Tick, db, history
  <2>4. QED
    BY <2>1, <2>2, <2>3 DEF Next
<1>4. QED
  BY <1>1, <1>2, <1>3

\* What a step does to the requests.
LEMMA RequestStep ==
  ASSUME TInv, Next
  PROVE  \/ UNCHANGED request
         \/ \E q \in Requests :
              /\ Alone(q)
              /\ \/ request'[q].pc = "idle" /\ Counts(q)
                 \/ Start(q) /\ Arrived(q) /\ At(q, "idle")
                 \/ Serve(q) /\ Same(q) /\ Served(q) /\ Counts(q)
<1>1. ASSUME NEW q \in Requests, Stop(q)
      PROVE  Alone(q) /\ request'[q].pc = "idle" /\ Counts(q)
  BY <1>1, EndEffect DEF Stop, TInv, TypeOK, RInv, Counts
<1>2. QED
  BY <1>1, StartEffect, ServeEffect DEF Next, TInv, Tick

LEMMA KindedNext == ASSUME TInv, Next PROVE Kinded'
<1>1. CASE UNCHANGED request
  BY <1>1 DEF TInv, Kinded, At, Is
<1>2. ASSUME NEW q \in Requests, Alone(q), Arrived(q) PROVE Kinded'
  BY <1>2 DEF TInv, Kinded, Alone, Arrived, At, Is
<1>3. ASSUME NEW q \in Requests, Alone(q), request'[q].pc = "idle" PROVE Kinded'
  BY <1>3 DEF TInv, Kinded, Alone, At, Is
<1>4. ASSUME NEW q \in Requests, Alone(q), Same(q), Served(q) PROVE Kinded'
  BY <1>4 DEF TInv, Kinded, Alone, Same, Served, AfterSeats, At, Is
<1>5. QED
  BY <1>1, <1>2, <1>3, <1>4, RequestStep

LEMMA CountedNext == ASSUME TInv, Next PROVE Counted'
<1>1. CASE UNCHANGED request
  BY <1>1 DEF TInv, Counted
<1>2. ASSUME NEW q \in Requests, Alone(q), request'[q].counted <= Cardinality(Users)
      PROVE  Counted'
  BY <1>2 DEF TInv, Counted, Alone
<1>3. ASSUME NEW q \in Requests, Counts(q) \/ request'[q].counted = 0
      PROVE  request'[q].counted <= Cardinality(Users)
  BY <1>3, MemberCount DEF Counts, TInv, Counted
<1>4. QED
  BY <1>1, <1>2, <1>3, RequestStep DEF Arrived

LEMMA TypeNext == ASSUME TInv, Next PROVE TInv'
<1>1. /\ now' \in 0..MaxNow /\ faults' \in 0..MaxFaults /\ started' \in 0..MaxStarted
  <2>t. now \in 0..MaxNow /\ faults \in 0..MaxFaults /\ started \in 0..MaxStarted
    BY DEF TInv, TypeOK
  <2>1. ASSUME NEW q \in Requests, Start(q)
        PROVE  UNCHANGED <<now, faults>> /\ started' \in 0..MaxStarted
    BY <2>1, StartEffect DEF TInv
  <2>2. ASSUME NEW q \in Requests, Serve(q) PROVE UNCHANGED <<now, faults, started>>
    BY <2>2 DEF Serve, FindPending, RefuseMember, CreateInvite, CountMembers,
       EnforceMemberLimit, Recount, Reseat, ReadInvite, FindMember, Join, JoinInOne, Consume,
       RemoveMember, UpdateRole, ReadBilling, UpdateBilling
  <2>3. ASSUME NEW q \in Requests, Stop(q)
        PROVE  UNCHANGED <<now, started>> /\ faults < MaxFaults /\ faults' = faults + 1
    BY <2>3 DEF Stop
  <2>4. Tick => UNCHANGED <<faults, started>> /\ now < MaxNow /\ now' = now + 1
    BY DEF Tick
  <2>5. QED
    BY <2>t, <2>1, <2>2, <2>3, <2>4 DEF Next
<1>2. /\ account' \subseteq Users /\ role' \in [Users -> Roles \cup {"NONE"}]
      /\ joined' \subseteq Users /\ crowded' \in BOOLEAN /\ drift' \in BOOLEAN
      /\ twice' \subseteq Users
  <2>t. /\ account \subseteq Users /\ role \in [Users -> Roles \cup {"NONE"}]
        /\ joined \subseteq Users /\ crowded \in BOOLEAN /\ drift \in BOOLEAN
        /\ twice \subseteq Users
        /\ \A q \in Requests : Target(q) \in Users /\ request[q].asRole \in Roles
    BY DEF TInv, TypeOK, RequestStates, Target
  <2>1. ASSUME NEW q \in Requests, Start(q) PROVE UNCHANGED <<db, history>>
    BY <2>1, StartEffect DEF TInv, db, history
  <2>2. ASSUME NEW q \in Requests,
               \/ FindPending(q) \/ RefuseMember(q) \/ CreateInvite(q) \/ CountMembers(q)
               \/ EnforceMemberLimit(q) \/ Recount(q) \/ Reseat(q) \/ ReadInvite(q)
               \/ FindMember(q) \/ Consume(q) \/ ReadBilling(q) \/ Stop(q)
               \/ \E admin \in BOOLEAN : UpdateBilling(q, admin)
        PROVE  /\ UNCHANGED <<account, role, joined, crowded>>
               /\ drift' \in BOOLEAN
               /\ twice' \in {twice, twice \cup {Target(q)}}
    BY <2>2, <2>t DEF FindPending, RefuseMember, CreateInvite, CountMembers,
       EnforceMemberLimit, Recount, Reseat, WriteSeats, ReadInvite, FindMember, Consume,
       ReadBilling, Stop, UpdateBilling, db, history
  <2>3. ASSUME NEW q \in Requests,
               Join(q) \/ JoinInOne(q) \/ RemoveMember(q) \/ UpdateRole(q)
        PROVE  /\ account' \in {account, account \cup {Target(q)}}
               /\ role' \in [Users -> Roles \cup {"NONE"}]
               /\ joined' \in {joined, joined \cup {Target(q)}} /\ crowded' \in BOOLEAN
               /\ UNCHANGED <<drift, twice>>
    BY <2>3, <2>t DEF Join, JoinInOne, NewMember, RemoveMember, UpdateRole, history
  <2>4. Tick => UNCHANGED <<db, history>>
    BY DEF Tick
  <2>5. QED
    BY <2>t, <2>1, <2>2, <2>3, <2>4 DEF Next, Serve, db, history
<1>3. billing' \subseteq Members'
  <2>t. billing \subseteq Members /\ Members \subseteq Users
    BY DEF TInv, TypeOK, Members
  <2>1. ASSUME NEW q \in Requests, RemoveMember(q) PROVE billing' \subseteq Members'
    <3>1. Members' = Members \ {Target(q)}
      BY <2>1 DEF RemoveMember, Members, TInv, TypeOK
    <3>2. QED
      BY <2>1, <2>t, <3>1 DEF RemoveMember
  <2>2. ASSUME NEW q \in Requests, NEW admin \in BOOLEAN, UpdateBilling(q, admin)
        PROVE  billing' \subseteq Members'
    BY <2>2, <2>t DEF UpdateBilling, Members
  <2>3. \/ UNCHANGED billing
        \/ \E q \in Requests : \/ RemoveMember(q)
                               \/ \E admin \in BOOLEAN : UpdateBilling(q, admin)
    <3>1. ASSUME NEW q \in Requests, Start(q) PROVE UNCHANGED billing
      BY <3>1, StartEffect DEF TInv, db
    <3>2. QED
      BY <3>1 DEF Next, Serve, FindPending, RefuseMember, CreateInvite, CountMembers,
         EnforceMemberLimit, Recount, Reseat, ReadInvite, FindMember, Join, JoinInOne,
         Consume, UpdateRole, ReadBilling, Stop, Tick, db
  <2>4. QED
    BY <2>t, <2>1, <2>2, <2>3, MembersStep
<1>4. invite' \in [Invites -> InviteRows]
  <2>t. /\ invite \in [Invites -> InviteRows] /\ now \in Nat
        /\ \A q \in Requests : /\ Target(q) \in Users /\ request[q].asRole \in Roles
                               /\ Token(q) \in Invites
    BY DEF TInv, TypeOK, RequestStates, Target, Token
  <2>1. ASSUME NEW q \in Requests, CreateInvite(q) PROVE invite' \in [Invites -> InviteRows]
    BY <2>1, <2>t DEF CreateInvite, InviteRows
  <2>2. ASSUME NEW q \in Requests, ReadInvite(q) \/ JoinInOne(q) \/ Consume(q)
        PROVE  invite' \in [Invites -> InviteRows]
    BY <2>2, <2>t DEF ReadInvite, JoinInOne, Consume, Accepted, InviteRows
  <2>3. \/ \E q \in Requests : CreateInvite(q) \/ ReadInvite(q) \/ JoinInOne(q) \/ Consume(q)
        \/ UNCHANGED invite
    <3>1. ASSUME NEW q \in Requests, Start(q) PROVE UNCHANGED invite
      BY <3>1, StartEffect DEF TInv, db
    <3>2. QED
      BY <3>1 DEF Next, Serve, FindPending, RefuseMember, CountMembers,
         EnforceMemberLimit, Recount, Reseat, FindMember, Join, RemoveMember, UpdateRole,
         ReadBilling, UpdateBilling, Stop, Tick, db
  <2>4. QED
    BY <2>t, <2>1, <2>2, <2>3
<1>5. seatsUsed' \in 0..Cardinality(Users)
  <2>1. /\ seatsUsed \in 0..Cardinality(Users)
        /\ \A q \in Requests : request[q].counted \in 0..Cardinality(Users)
    BY MemberCount DEF TInv, TypeOK, RequestStates, Counted
  <2>2. QED
    BY <2>1, SeatsStep
<1>6. request' \in [Requests -> RequestStates]
  BY RequestStep DEF Alone, TInv, TypeOK
<1>7. QED
  BY <1>1, <1>2, <1>3, <1>4, <1>5, <1>6, KindedNext, CountedNext DEF TInv, TypeOK

LEMMA OneMember == ASSUME Init PROVE Members = {Owner} /\ Cardinality(Members) = 1
<1>1. Members = {Owner}
  BY DEF Init, Members
<1>2. QED
  BY <1>1, FS_Singleton

LEMMA TypeInit == Init => TInv
<1> SUFFICES ASSUME Init PROVE TInv
  OBVIOUS
<1>1. role \in [Users -> Roles \cup {"NONE"}] /\ invite \in [Invites -> InviteRows]
  BY DEF Init, Roles, InviteRows
<1>2. request \in [Requests -> RequestStates] /\ \A q \in Requests : request[q].pc = "idle"
  BY IdleType DEF Init
<1>3. Kinded
  BY <1>2 DEF Kinded, At
<1>4. 1 \in 0..Cardinality(Users)
  BY OneMember, MemberCount
<1>5. Counted
  BY <1>4, IdleType, MemberCount DEF Init, Counted
<1>6. billing \subseteq Members
  BY DEF Init
<1>7. /\ now \in 0..MaxNow /\ seatsUsed \in 0..Cardinality(Users)
      /\ faults \in 0..MaxFaults /\ started \in 0..MaxStarted
  BY <1>4 DEF Init
<1>8. QED
  BY <1>1, <1>2, <1>3, <1>5, <1>6, <1>7 DEF Init, TInv, TypeOK

LEMMA TypeStutter == ASSUME TInv, UNCHANGED vars PROVE TInv'
  BY DEF TInv, TypeOK, Kinded, Counted, At, Is, Members, vars, db, history

\* Every reachable state is well typed: billing admins are members, through any
\* interleaving of removals and changes of role, and the count is of members.
THEOREM TypeCorrect == Spec => []TypeOK
<1>1. TInv /\ [Next]_vars => TInv'
  BY TypeNext, TypeStutter
<1>2. TInv => TypeOK
  BY DEF TInv
<1>3. QED
  BY TypeInit, <1>1, <1>2, PTL DEF Spec

-----------------------------------------------------------------------------
(* Invitations: only who joined has accepted, and one is pending at a time. *)

\* The address of a request to accept is that of its invitation; everyone who
\* is a member has joined, and so has whoever's invitation is about to be used.
Accepts ==
  /\ AcceptedHasJoined
  /\ Members \subseteq joined
  /\ \A q \in Requests :
       /\ (~At(q, "idle") /\ request[q].kind \in {"accept", "anonymous"}) =>
            invite[Token(q)].status # "NONE" /\ invite[Token(q)].email = Target(q)
       /\ request[q].pc \in {"consume", "mark"} => Target(q) \in joined

LEMMA JoinedGrows == ASSUME TInv, Next PROVE joined \subseteq joined'
  BY MembersStep

LEMMA AcceptsNext == ASSUME TInv, Accepts, Next PROVE Accepts'
<1>j. joined \subseteq joined'
  BY JoinedGrows
<1>t. /\ \A q \in Requests : Token(q) \in Invites
      /\ \A i \in Invites : invite[i].status \in {"NONE", "PENDING", "ACCEPTED", "EXPIRED"}
  BY DEF TInv, TypeOK, RequestStates, InviteRows, Token
<1>1. Members' \subseteq joined'
  BY <1>j, MembersStep DEF Accepts
<1>2. ASSUME NEW i \in Invites, invite'[i].status = "ACCEPTED"
      PROVE  invite'[i].email \in joined'
  <2>1. CASE invite'[i] = invite[i]
    BY <1>2, <1>j, <2>1 DEF Accepts, AcceptedHasJoined
  <2>2. ASSUME invite'[i].email = invite[i].email, NEW q \in Requests, i = Token(q),
               Consume(q)
        PROVE  invite'[i].email \in joined'
    <3>1. request[q].pc \in {"consume", "mark"} /\ request[q].kind \in {"accept", "anonymous"}
      BY <2>2 DEF Consume, TInv, Kinded
    <3>2. invite[i].email = Target(q) /\ Target(q) \in joined
      BY <2>2, <3>1 DEF Accepts, At
    <3>3. QED
      BY <1>j, <2>2, <3>2
  <2>3. ASSUME invite'[i].email = invite[i].email, NEW q \in Requests, i = Token(q),
               JoinInOne(q), Target(q) \in joined'
        PROVE  invite'[i].email \in joined'
    BY <2>3 DEF JoinInOne, Accepts, At, Is
  <2>4. QED
    BY <1>2, <2>1, <2>2, <2>3, InviteStep DEF TInv
<1>3. ASSUME NEW i \in Invites, invite[i].status # "NONE"
      PROVE  invite'[i].status # "NONE" /\ invite'[i].email = invite[i].email
  BY <1>3, InviteStep DEF TInv
<1>4. ASSUME NEW q \in Requests, request'[q].pc # "idle",
             request'[q].kind \in {"accept", "anonymous"}
      PROVE  /\ invite'[request'[q].invite].status # "NONE"
             /\ invite'[request'[q].invite].email = request'[q].target
  <2>1. CASE request'[q] = request[q] \/ (Same(q) /\ ~At(q, "idle"))
    <3>1. /\ ~At(q, "idle") /\ request[q].kind \in {"accept", "anonymous"}
          /\ request'[q].invite = Token(q) /\ request'[q].target = Target(q)
      BY <1>4, <2>1 DEF Same, Token, Target, At
    <3>2. QED
      BY <1>3, <1>t, <3>1 DEF Accepts
  <2>2. CASE Arrived(q)
    BY <1>3, <1>4, <2>2 DEF Arrived
  <2>3. Served(q) => ~At(q, "idle")
    BY DEF Served, At
  <2>4. QED
    BY <1>4, <2>1, <2>2, <2>3, RequestStep DEF Alone
<1>5. ASSUME NEW q \in Requests, request'[q].pc \in {"consume", "mark"}
      PROVE  request'[q].target \in joined'
  <2>1. CASE request'[q] = request[q]
    BY <1>5, <1>j, <2>1 DEF Accepts, Target
  <2>2. CASE Same(q) /\ Served(q)
    <3>1. Target(q) \in Members \/ Target(q) \in joined'
      BY <1>5, <2>2 DEF Served, AfterSeats, TInv, Kinded
    <3>2. QED
      BY <1>j, <2>2, <3>1 DEF Same, Target, Accepts
  <2>3. QED
    BY <1>5, <2>1, <2>2, RequestStep DEF Alone, Arrived
<1>6. QED
  BY <1>1, <1>2, <1>4, <1>5 DEF Accepts, AcceptedHasJoined, At, Token, Target

\* A request that found no pending invitation for u and will create one.
Creates(q, u) == /\ request[q].pc \in {"member", "count", "seats", "create"}
                 /\ Is(q, "invite") /\ Target(q) = u

NoPending(u) == \A i \in Invites : invite[i].status = "PENDING" => invite[i].email # u

Inviting ==
  /\ OnePending
  /\ \A u \in Users \ twice, p, q \in Requests :
       Creates(q, u) => NoPending(u) /\ (Creates(p, u) => p = q)

LEMMA InvitingNext == ASSUME TInv, Inviting, Next PROVE Inviting'
<1> DEFINE CreatesNext(q, u) == /\ request'[q].pc \in {"member", "count", "seats", "create"}
                                /\ request'[q].kind = "invite" /\ request'[q].target = u
           PendingNext(i, u) == invite'[i].status = "PENDING" /\ invite'[i].email = u
<1>t. \A q \in Requests : Target(q) \in Users
  BY DEF TInv, TypeOK, RequestStates, Target
<1>1. twice \subseteq twice'
  <2>1. ASSUME NEW q \in Requests, Start(q) PROVE UNCHANGED twice
    BY <2>1, StartEffect DEF TInv, history
  <2>2. QED
    BY <2>1 DEF Next, Serve, FindPending, RefuseMember, CreateInvite, CountMembers,
       EnforceMemberLimit, Recount, Reseat, ReadInvite, FindMember, Join, JoinInOne,
       Consume, RemoveMember, UpdateRole, ReadBilling, UpdateBilling, Stop, Tick, history
<1>2. ASSUME NEW q \in Requests, NEW u \in Users, CreatesNext(q, u)
      PROVE  \/ Creates(q, u)
             \/ /\ FindPending(q) /\ Target(q) = u /\ Is(q, "invite") /\ NoPending(u)
                /\ u \notin twice' => \A p \in Requests : Creates(p, u) => p = q
  <2>1. CASE request'[q] = request[q]
    BY <1>2, <2>1 DEF Creates, Is, Target
  <2>2. CASE Same(q) /\ Served(q)
    <3>1. Is(q, "invite") /\ Target(q) = u
      BY <1>2, <2>2 DEF Same, Is, Target
    <3>2. CASE FindPending(q)
      <4>1. NoPending(u)
        BY <1>2, <2>2, <3>1, <3>2, EndEffect DEF FindPending, NoPending, TInv, TypeOK, RInv
      <4>2. u \notin twice' => \A p \in Requests : Creates(p, u) => p = q
        BY <3>1, <3>2, <4>1 DEF FindPending, NoPending, Creates, At, Is
      <4>3. QED
        BY <3>1, <3>2, <4>1, <4>2
    <3>3. CASE ~FindPending(q)
      <4>1. request[q].pc \in {"member", "count", "seats"}
        BY <1>2, <2>2, <3>1, <3>3 DEF Served, Is, AfterSeats, TInv, Kinded
      <4>2. QED
        BY <3>1, <4>1 DEF Creates
    <3>4. QED
      BY <3>2, <3>3
  <2>3. QED
    BY <1>2, <2>1, <2>2, RequestStep DEF Alone, Arrived
<1>3. ASSUME NEW i \in Invites, NEW u \in Users, PendingNext(i, u)
      PROVE  \/ invite[i].status = "PENDING" /\ invite[i].email = u
             \/ \E q \in Requests : CreateInvite(q) /\ Creates(q, u)
  <2>1. ASSUME NEW q \in Requests, CreateInvite(q) PROVE Creates(q, Target(q))
    BY <2>1 DEF CreateInvite, Creates, TInv, Kinded, At
  <2>2. QED
    BY <1>3, <2>1, InviteStep DEF TInv
<1>4. ASSUME NEW q \in Requests, CreateInvite(q)
      PROVE  /\ Alone(q) /\ request'[q].pc = "idle"
             /\ \E i \in Invites : \A j \in Invites \ {i} : invite'[j] = invite[j]
  BY <1>4, EndEffect DEF CreateInvite, TInv, TypeOK, RInv
<1>5. ASSUME NEW q \in Requests, FindPending(q) PROVE Alone(q) /\ At(q, "pending")
  BY <1>5, EndEffect, GotoEffect DEF FindPending, TInv, TypeOK, RInv, Pcs
<1>6. ASSUME NEW u \in Users \ twice', NEW i \in Invites, NEW j \in Invites,
             PendingNext(i, u), PendingNext(j, u)
      PROVE  i = j
  <2>1. CASE \E q \in Requests : CreateInvite(q) /\ Creates(q, u)
    <3>1. NoPending(u)
      BY <1>1, <2>1 DEF Inviting
    <3>2. invite'[i] # invite[i] /\ invite'[j] # invite[j]
      BY <1>6, <3>1 DEF NoPending
    <3>3. QED
      BY <1>4, <2>1, <3>2
  <2>2. CASE /\ invite[i].status = "PENDING" /\ invite[i].email = u
             /\ invite[j].status = "PENDING" /\ invite[j].email = u
    BY <1>1, <2>2 DEF Inviting, OnePending
  <2>3. QED
    BY <1>3, <1>6, <2>1, <2>2
<1>7. ASSUME NEW u \in Users \ twice', NEW q \in Requests, CreatesNext(q, u),
             NEW i \in Invites, PendingNext(i, u)
      PROVE  FALSE
  <2>1. NoPending(u)
    BY <1>1, <1>2, <1>7 DEF Inviting
  <2>2. PICK r \in Requests : CreateInvite(r) /\ Creates(r, u)
    BY <1>3, <1>7, <2>1 DEF NoPending
  <2>3. q # r /\ request'[q] = request[q]
    BY <1>4, <1>7, <2>2 DEF Alone
  <2>4. Creates(q, u)
    BY <1>7, <2>3 DEF Creates, Is, Target
  <2>5. QED
    BY <1>1, <2>2, <2>3, <2>4 DEF Inviting
<1>8. ASSUME NEW u \in Users \ twice', NEW p \in Requests, NEW q \in Requests,
             CreatesNext(p, u), CreatesNext(q, u)
      PROVE  p = q
  <2>1. ASSUME NEW r \in Requests, FindPending(r), NEW s \in Requests, FindPending(s),
               CreatesNext(r, u), CreatesNext(s, u)
        PROVE  r = s
    BY <1>5, <2>1 DEF Alone, At
  <2>2. QED
    BY <1>1, <1>2, <1>8, <2>1 DEF Inviting
<1>9. OnePending'
  <2>1. \A i \in Invites : invite'[i].email \in Users
    BY TypeNext DEF TInv, TypeOK, InviteRows
  <2>2. QED
    BY <1>6, <2>1 DEF OnePending
<1>10. QED
  BY <1>7, <1>8, <1>9 DEF Inviting, Creates, NoPending, Is, Target

-----------------------------------------------------------------------------
(* The limit on members, and the cached number of seats. *)

\* Whoever is about to join has counted a free seat.
Seated ==
  /\ ~crowded => Cardinality(Members) <= MaxMembers
  /\ \A q \in Requests :
       (At(q, "join") \/ (At(q, "existing") /\ ~Is(q, "anonymous"))) =>
         request[q].counted < MaxMembers

LEMMA SeatedNext == ASSUME TInv, Seated, Next PROVE Seated'
<1>1. ASSUME NEW q \in Requests,
             \/ request'[q].pc = "join"
             \/ request'[q].pc = "existing" /\ request'[q].kind # "anonymous"
      PROVE  request'[q].counted < MaxMembers
  <2>1. CASE request'[q] = request[q]
    BY <1>1, <2>1 DEF Seated, At, Is
  <2>2. CASE Same(q) /\ Served(q) /\ Counts(q)
    <3>1. request'[q].counted = request[q].counted /\ request[q].counted \in Nat
      BY <1>1, <2>2 DEF Counts, TInv, TypeOK, RequestStates
    <3>2. CASE At(q, "seats")
      <4>1. ~Full(request[q].counted)
        BY <2>2, <3>2 DEF Served, At
      <4>2. QED
        BY <3>1, <4>1 DEF Full
    <3>3. CASE ~At(q, "seats")
      <4>1. At(q, "existing") /\ ~Is(q, "anonymous")
        BY <1>1, <2>2, <3>3 DEF Served, Same, At, Is
      <4>2. QED
        BY <3>1, <4>1 DEF Seated
    <3>4. QED
      BY <3>2, <3>3
  <2>3. QED
    BY <1>1, <2>1, <2>2, RequestStep DEF Alone, Arrived
<1> DEFINE FitsNext == ~crowded' => Cardinality(Members') <= MaxMembers
<1>2. FitsNext
  <2>c. Cardinality(Members) \in Nat /\ IsFiniteSet(Members)
    BY MemberCount
  <2>1. CASE Members' = Members /\ (crowded => crowded')
    BY <2>1 DEF Seated
  <2>2. ASSUME NEW q \in Requests, At(q, "join"), Target(q) \in Users \ Members,
               Members' = Members \cup {Target(q)},
               crowded' = (crowded \/ Cardinality(Members) # request[q].counted)
        PROVE  FitsNext
    <3>1. Cardinality(Members') = Cardinality(Members) + 1
      BY <2>2, <2>c, FS_AddElement
    <3>2. request[q].counted < MaxMembers /\ request[q].counted \in Nat
      BY <2>2 DEF Seated, TInv, TypeOK, RequestStates
    <3>3. ~crowded' => Cardinality(Members) = request[q].counted
      BY <2>2
    <3>4. ~crowded' => Cardinality(Members) + 1 <= MaxMembers
      BY <3>2, <3>3, <2>c, MembershipAssumption
    <3>5. QED
      BY <3>1, <3>4
  <2>3. ASSUME NEW q \in Requests, Members' = Members \ {Target(q)}, UNCHANGED crowded
        PROVE  FitsNext
    <3>1. /\ Cardinality(Members') <= Cardinality(Members)
          /\ Cardinality(Members') \in Nat
      BY <2>3, <2>c, FS_Subset, FS_CardinalityType
    <3>2. QED
      BY <2>3, <2>c, <3>1 DEF Seated
  <2>4. QED
    BY <2>1, <2>2, <2>3, MembersStep
<1>3. QED
  BY <1>1, <1>2 DEF Seated, At, Is

\* The requests that have found a free seat and may still take it.
Promised ==
  {q \in Requests : \/ At(q, "join")
                    \/ At(q, "existing") /\ ~Is(q, "anonymous")
                    \/ At(q, "seats") /\ ~Full(request[q].counted)}

\* When the last of them found its seat, it was free, and all others can only have
\* been promised one: a seat is promised once for each request at most.
Booked ==
  Cardinality(Members) + Cardinality(Promised) < MaxMembers + Cardinality(Requests)

LEMMA PromisedFinite ==
  ASSUME NEW P, P \subseteq Requests
  PROVE  /\ IsFiniteSet(P) /\ Cardinality(P) \in Nat /\ Cardinality(Requests) \in Nat
         /\ Cardinality(P) <= Cardinality(Requests)
  BY FS_Subset, FS_CardinalityType

LEMMA OneLess ==
  ASSUME NEW S, NEW T, NEW x, IsFiniteSet(S), x \in S, x \notin T, T \subseteq S
  PROVE  Cardinality(T) + 1 <= Cardinality(S)
<1>1. IsFiniteSet(S \ {x}) /\ Cardinality(S \ {x}) = Cardinality(S) - 1
  BY FS_RemoveElement
<1>2. T \in SUBSET (S \ {x})
  OBVIOUS
<1>3. IsFiniteSet(T) /\ Cardinality(T) <= Cardinality(S \ {x})
  BY <1>1, <1>2, FS_Subset
<1>4. QED
  BY <1>1, <1>3, FS_CardinalityType

\* A seat is promised only by a count that finds one free.
LEMMA PromisedStep ==
  ASSUME TInv, Next, NEW q \in Promised', q \notin Promised
  PROVE  Members' = Members /\ Cardinality(Members) < MaxMembers
<1>q. /\ q \in Requests
      /\ \/ request'[q].pc = "join"
         \/ request'[q].pc = "existing" /\ request'[q].kind # "anonymous"
         \/ request'[q].pc = "seats" /\ ~Full(request'[q].counted)
  BY DEF Promised, At, Is
<1>1. Serve(q) /\ Alone(q) /\ Same(q) /\ Served(q)
  <2>1. request'[q] # request[q]
    BY <1>q DEF Promised, At, Is
  <2>2. QED
    BY <1>q, <2>1, RequestStep DEF Alone, Arrived
<1>2. At(q, "count") /\ request'[q].pc = "seats"
  <2>1. CASE At(q, "seats")
    BY <1>q, <1>1, <2>1 DEF Served, Promised, At, Is
  <2>2. CASE ~At(q, "seats")
    BY <1>q, <1>1, <2>2 DEF Served, Same, Promised, At, Is
  <2>3. QED
    BY <2>1, <2>2
<1>3. Cardinality(Members) < MaxMembers
  <2>1. CountMembers(q)
    BY <1>1, <1>2 DEF Serve, FindPending, RefuseMember, CreateInvite, EnforceMemberLimit,
       Recount, Reseat, ReadInvite, FindMember, Join, JoinInOne, Consume, RemoveMember,
       UpdateRole, ReadBilling, UpdateBilling, At
  <2>2. request'[q].counted = Cardinality(Members)
    <3>1. /\ request' = [request EXCEPT ![q].pc = "seats",
                                        ![q].counted = Cardinality(Members)]
          /\ "seats" \in Pcs /\ Cardinality(Members) \in Nat
      BY <2>1, MemberCount DEF CountMembers, Pcs
    <3>2. RInv /\ q \in Requests
      BY <1>q DEF TInv, TypeOK, RInv
    <3>3. QED
      BY <3>1, <3>2, CountEffect
  <2>3. QED
    BY <1>q, <1>2, <2>2, MemberCount DEF Full
<1>4. Members' = Members
  <2>1. ASSUME NEW p \in Requests, request[p].pc \in {"join", "delete"},
               request'[p].pc \in {"consume", "recount"}
        PROVE  FALSE
    BY <1>1, <1>2, <2>1 DEF Alone, At
  <2>2. QED
    BY <2>1, MembersStep DEF At, RemoveMember
<1>5. QED
  BY <1>3, <1>4

LEMMA BookedNext == ASSUME TInv, Booked, Next PROVE Booked'
<1>f. /\ Promised \subseteq Requests /\ Promised' \subseteq Requests
      /\ IsFiniteSet(Members) /\ Cardinality(Members) \in Nat /\ MaxMembers \in Nat
  BY MemberCount DEF Promised
<1>c. /\ IsFiniteSet(Promised) /\ Cardinality(Promised) \in Nat
      /\ Cardinality(Promised') \in Nat /\ Cardinality(Requests) \in Nat
      /\ Cardinality(Promised') <= Cardinality(Requests)
  BY <1>f, PromisedFinite
<1>1. CASE ~(Promised' \subseteq Promised)
  BY <1>1, <1>f, <1>c, PromisedStep DEF Booked
<1>2. CASE Promised' \subseteq Promised
  <2>1. Cardinality(Promised') <= Cardinality(Promised)
    BY <1>2, <1>c, FS_Subset
  <2>2. CASE Members' = Members
    BY <1>f, <1>c, <2>1, <2>2 DEF Booked
  <2>3. ASSUME NEW q \in Requests, At(q, "join"), Target(q) \in Users \ Members,
               Members' = Members \cup {Target(q)}, request'[q].pc \in {"consume", "recount"}
        PROVE  Booked'
    <3>1. q \in Promised /\ q \notin Promised'
      BY <2>3 DEF Promised, At
    <3>2. Cardinality(Promised') + 1 <= Cardinality(Promised)
      BY <1>2, <1>c, <3>1, OneLess
    <3>3. Cardinality(Members') = Cardinality(Members) + 1
      BY <2>3, <1>f, FS_AddElement
    <3>4. QED
      BY <1>f, <1>c, <3>2, <3>3 DEF Booked
  <2>4. ASSUME NEW q \in Requests, Members' = Members \ {Target(q)} PROVE Booked'
    <3>1. Cardinality(Members') <= Cardinality(Members) /\ Cardinality(Members') \in Nat
      BY <2>4, <1>f, FS_Subset, FS_CardinalityType
    <3>2. QED
      BY <1>f, <1>c, <2>1, <3>1 DEF Booked
  <2>5. QED
    BY <2>2, <2>3, <2>4, MembersStep
<1>3. QED
  BY <1>1, <1>2

\* The cached number is right, or a request is about to count again.
Seats ==
  ~drift => \/ seatsUsed = Cardinality(Members)
            \/ \E q \in Requests : request[q].pc \in {"consume", "recount", "reseat"}

LEMMA SeatsNext == ASSUME TInv, Seats, Next PROVE Seats'
<1> DEFINE Pending(q) == request[q].pc \in {"consume", "recount", "reseat"}
           PendingNext(q) == request'[q].pc \in {"consume", "recount", "reseat"}
<1> SUFFICES ASSUME ~drift'
             PROVE  \/ seatsUsed' = Cardinality(Members')
                    \/ \E q \in Requests : PendingNext(q)
  BY DEF Seats
<1>1. CASE \E q \in Requests :
             /\ request[q].pc \in {"seats", "reseat"} /\ seatsUsed' = request[q].counted
             /\ drift' = (drift \/ request[q].counted # Cardinality(Members))
             /\ Members' = Members
  BY <1>1
<1>2. CASE Members' # Members
  BY <1>2, MembersStep
<1>3. CASE /\ Members' = Members /\ UNCHANGED seatsUsed /\ ~drift
           /\ \A q \in Requests : Stop(q) => ~Pending(q)
  <2>1. CASE seatsUsed = Cardinality(Members)
    BY <1>3, <2>1
  <2>2. ASSUME NEW q \in Requests, Pending(q),
               ~Stop(q), \A admin \in BOOLEAN : ~UpdateBilling(q, admin)
        PROVE  PendingNext(q) \/ Reseat(q)
    <3>1. CASE request'[q] = request[q]
      BY <2>2, <3>1
    <3>2. CASE Serve(q)
      <4>1. Consume(q) \/ Recount(q) \/ Reseat(q)
        BY <2>2, <3>2 DEF Serve, FindPending, RefuseMember, CreateInvite, CountMembers,
           EnforceMemberLimit, ReadInvite, FindMember, Join, JoinInOne, RemoveMember,
           UpdateRole, ReadBilling, At
      <4>2. QED
        <5>r. RInv
          BY DEF TInv, TypeOK, RInv
        <5>1. CASE Consume(q)
          <6>1. At(q, "consume")
            BY <2>2, <5>1 DEF Consume, At
          <6>2. Goto(q, "recount") /\ "recount" \in Pcs
            BY <5>1, <6>1 DEF Consume, Pcs
          <6>3. request'[q].pc = "recount"
            BY <5>r, <6>2, GotoEffect
          <6>4. QED
            BY <6>3
        <5>2. CASE Recount(q)
          <6>1. /\ request' = [request EXCEPT ![q].pc = "reseat",
                                              ![q].counted = Cardinality(Members)]
                /\ "reseat" \in Pcs /\ Cardinality(Members) \in Nat
            BY <5>2, MemberCount DEF Recount, Pcs
          <6>2. request'[q].pc = "reseat"
            BY <5>r, <6>1, CountEffect
          <6>3. QED
            BY <6>2
        <5>3. QED
          BY <4>1, <5>1, <5>2
    <3>3. QED
      <4>1. ASSUME NEW r \in Requests, r # q, Alone(r) PROVE request'[q] = request[q]
        BY <4>1 DEF Alone
      <4>2. ASSUME NEW r \in Requests, Start(r) \/ Serve(r) \/ Stop(r) PROVE Alone(r)
        BY <4>2, StartEffect, ServeEffect, EndEffect DEF TInv, TypeOK, RInv, Stop
      <4>3. ~Start(q)
        BY <2>2, StartEffect DEF At, TInv
      <4>4. QED
        BY <2>2, <3>1, <3>2, <4>1, <4>2, <4>3 DEF Next, Tick
  <2>3. ASSUME NEW q \in Requests, Reseat(q) PROVE seatsUsed' = Cardinality(Members')
    BY <1>3, <2>3 DEF Reseat, WriteSeats
  <2>4. \A q \in Requests, admin \in BOOLEAN : Pending(q) => ~UpdateBilling(q, admin)
    BY DEF UpdateBilling, At
  <2>5. QED
    BY <1>3, <2>1, <2>2, <2>3, <2>4 DEF Seats
<1>4. QED
  <2>1. ASSUME NEW q \in Requests, Stop(q), Pending(q) PROVE drift'
    BY <2>1 DEF Stop
  <2>2. CASE UNCHANGED <<seatsUsed, drift>>
    BY <1>2, <1>3, <2>1, <2>2
  <2>3. ASSUME NEW q \in Requests, Stop(q), UNCHANGED <<seatsUsed, role>>,
               drift' = (drift \/ request[q].pc \in {"consume", "recount", "reseat"})
        PROVE  \/ seatsUsed' = Cardinality(Members')
               \/ \E p \in Requests : PendingNext(p)
    BY <1>2, <1>3, <2>1, <2>3
  <2>4. QED
    BY <1>1, <2>2, <2>3, SeatsStep

Inv == TInv /\ Accepts /\ Inviting /\ Seated /\ Booked /\ Seats

LEMMA InvInit == Init => Inv
<1> SUFFICES ASSUME Init PROVE Inv
  OBVIOUS
<1>1. TInv /\ Members = {Owner} /\ Cardinality(Members) = 1
  BY TypeInit, OneMember
<1>2. /\ \A q \in Requests : request[q].pc = "idle"
      /\ \A i \in Invites : invite[i].status = "NONE"
      /\ joined = {Owner} /\ seatsUsed = 1 /\ twice = {}
  BY IdleType DEF Init
<1>3. Accepts
  BY <1>1, <1>2 DEF Accepts, AcceptedHasJoined, At
<1>4. Inviting
  BY <1>2 DEF Inviting, OnePending, Creates
<1>5. Seated
  BY <1>1, <1>2 DEF Seated, At
<1>6. Seats
  BY <1>1, <1>2 DEF Seats
<1>7. Booked
  <2>1. Promised = {}
    BY <1>2 DEF Promised, At
  <2>2. Cardinality(Promised) = 0 /\ Cardinality(Requests) \in Nat \ {0}
    BY <2>1, FS_EmptySet, FS_CardinalityType
  <2>3. QED
    BY <1>1, <2>2 DEF Booked
<1>8. QED
  BY <1>1, <1>3, <1>4, <1>5, <1>6, <1>7 DEF Inv

LEMMA InvNext == ASSUME Inv, [Next]_vars PROVE Inv'
<1>1. CASE Next
  BY <1>1, TypeNext, AcceptsNext, InvitingNext, SeatedNext, BookedNext, SeatsNext DEF Inv
<1>2. CASE UNCHANGED vars
  <2>1. /\ UNCHANGED <<role, invite, request, seatsUsed, joined, crowded, drift, twice>>
        /\ Members' = Members
    BY <1>2 DEF vars, db, history, Members
  <2>2. TInv'
    BY <1>2, TypeStutter DEF Inv
  <2>3. Accepts' /\ Inviting' /\ Seated' /\ Seats'
    BY <2>1 DEF Inv, Accepts, AcceptedHasJoined, Inviting, OnePending, Creates, NoPending,
       Seated, Seats, At, Is, Target, Token
  <2>b. Booked'
    <3>1. Promised' = Promised
      BY <2>1 DEF Promised, At, Is
    <3>2. QED
      BY <2>1, <3>1 DEF Inv, Booked
  <2>4. QED
    BY <2>2, <2>3, <2>b DEF Inv
<1>3. QED
  BY <1>1, <1>2

LEMMA Invariant == Spec => []Inv
  BY InvInit, InvNext, PTL DEF Spec

\* No failure between the calls marks an invitation ACCEPTED whose address never
\* became a member.
THEOREM AcceptedInvitationsJoined == Spec => []AcceptedHasJoined
<1>1. Inv => AcceptedHasJoined
  BY DEF Inv, Accepts
<1>2. QED
  BY <1>1, Invariant, PTL

\* Two pending invitations of one address come only of two requests at once.
THEOREM OnePendingInvitation == Spec => []OnePending
<1>1. Inv => OnePending
  BY DEF Inv, Inviting
<1>2. QED
  BY <1>1, Invariant, PTL

\* The plan's limit is passed only by members created on an outdated count, and
\* by fewer of them than there can be requests in flight, however long it goes on.
THEOREM MembersWithinLimit == Spec => []WithinLimit
<1>1. Booked => Cardinality(Members) < MaxMembers + Cardinality(Requests)
  BY MemberCount, PromisedFinite DEF Booked, Promised
<1>2. Inv => WithinLimit
  BY <1>1 DEF Inv, Seated, WithinLimit
<1>3. QED
  BY <1>2, Invariant, PTL

\* Served one at a time, requests keep to the limit with no exception: every seat
\* too many is the work of two requests in flight at once.
THEOREM OneAtATimeWithinLimit ==
  ASSUME Cardinality(Requests) = 1
  PROVE  Spec => [](Cardinality(Members) <= MaxMembers)
<1>1. Inv => Cardinality(Members) <= MaxMembers
  <2>1. Booked => Cardinality(Members) < MaxMembers + Cardinality(Requests)
    BY MemberCount, PromisedFinite DEF Booked, Promised
  <2>2. QED
    BY <2>1, MemberCount DEF Inv
<1>2. QED
  BY <1>1, Invariant, PTL

\* At rest the cached seats are the members, unless an outdated count was
\* written or a request stopped before it counted again.
THEOREM SeatsAreMembers == Spec => []SeatsAgree
<1>1. Inv => SeatsAgree
  BY DEF Inv, Seats, SeatsAgree, At
<1>2. QED
  BY <1>1, Invariant, PTL

\* An owner loses billing access only by leaving, or to a request that read the
\* role before the user became owner.
THEOREM OwnersKeepBilling == Spec => OwnerKeepsBilling
<1> DEFINE Keeps ==
      \A u \in Users :
       (role[u] = "OWNER" /\ u \in billing /\ u \notin billing') =>
         \/ role'[u] = "NONE"
         \/ \E q \in Requests : /\ Is(q, "billing") /\ Target(q) = u
                                /\ request[q].seen # "OWNER"
<1>1. ASSUME Inv, Next PROVE Keeps
  <2>1. ASSUME NEW q \in Requests, RemoveMember(q), NEW u \in Users, u \in billing,
               u \notin billing'
        PROVE  role'[u] = "NONE"
    BY <1>1, <2>1 DEF RemoveMember, Inv, TInv, TypeOK
  <2>2. ASSUME NEW q \in Requests, NEW admin \in BOOLEAN, UpdateBilling(q, admin),
               NEW u \in Users, u \in billing, u \notin billing'
        PROVE  Is(q, "billing") /\ Target(q) = u /\ request[q].seen # "OWNER"
    BY <2>2 DEF UpdateBilling, OwnerKeeps
  <2>3. \/ UNCHANGED billing
        \/ \E q \in Requests : \/ RemoveMember(q)
                               \/ \E admin \in BOOLEAN : UpdateBilling(q, admin)
    <3>1. ASSUME NEW q \in Requests, Start(q) PROVE UNCHANGED billing
      BY <1>1, <3>1, StartEffect DEF Inv, TInv, db
    <3>2. QED
      BY <1>1, <3>1 DEF Next, Serve, FindPending, RefuseMember, CreateInvite, CountMembers,
         EnforceMemberLimit, Recount, Reseat, ReadInvite, FindMember, Join, JoinInOne,
         Consume, UpdateRole, ReadBilling, Stop, Tick, db
  <2>4. QED
    BY <2>1, <2>2, <2>3
<1>2. UNCHANGED vars => Keeps
  BY DEF vars, db
<1>3. Inv /\ [Next]_vars => [Keeps]_vars
  BY <1>1, <1>2
<1>4. QED
  BY <1>3, Invariant, PTL DEF Spec, OwnerKeepsBilling

=============================================================================
