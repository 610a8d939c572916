---------------------------- MODULE OrgMembership ----------------------------
(***************************************************************************)
(* Who belongs to an organisation: invitations, joining by invitation with *)
(* and without an account, adding, removing, roles and billing admins, and *)
(* the seat limit of the plan.                                             *)
(*                                                                         *)
(* The requests run at once; each database call is one step, except that a *)
(* lookup which only decides between 404 and the call after it is part of  *)
(* that call.  A request can stop after any call.  Roles are read once, by *)
(* the middleware, when a request starts.                                  *)
(*                                                                         *)
(* One organisation with a plan that limits its members; a user stands for *)
(* an e-mail address, and a membership made again for the row it replaces. *)
(***************************************************************************)
EXTENDS Integers, FiniteSets

CONSTANTS
  Users, Owner,   \* e-mail addresses, and who created the organisation
  Invites,        \* invitation tokens
  Requests,       \* requests that can be in flight at once
  MaxMembers,     \* the plan's limit
  GivenRoles,     \* roles that requests give
  Life,           \* how long an invitation is valid, in ticks
  MaxNow, MaxFaults, MaxStarted  \* bounds; MaxStarted is on the requests

ASSUME MembershipAssumption ==
  /\ Owner \in Users /\ IsFiniteSet(Users)
  /\ Invites # {} /\ Requests # {} /\ IsFiniteSet(Requests)
  /\ GivenRoles \subseteq {"VIEWER", "MEMBER", "ADMIN", "OWNER"}
  /\ MaxMembers \in Nat \ {0} /\ Life \in Nat
  /\ MaxNow \in Nat /\ MaxFaults \in Nat /\ MaxStarted \in Nat

VARIABLES
  now,
  account,    \* users with a User row
  role,       \* Membership rows; NONE is no row
  billing,    \* members with isBillingAdmin
  invite,     \* OrgInvite rows
  seatsUsed,  \* OrgSubscription.seatsUsed
  request,
  started,    \* requests so far
  faults,
  joined,     \* history: users that were members at some time
  crowded,    \* history: a member was created after a count that had changed
  drift,      \* history: a stale count was written, or a recount was left out
  twice       \* history: addresses invited by two requests at once

db      == <<account, role, billing, invite, seatsUsed>>
history == <<joined, crowded, drift, twice>>
vars    == <<now, db, request, started, faults, history>>

Roles == {"VIEWER", "MEMBER", "ADMIN", "OWNER"}
Rank  == [r \in Roles \cup {"NONE"} |->
            CASE r = "NONE" -> 0 [] r = "VIEWER" -> 1 [] r = "MEMBER" -> 2
              [] r = "ADMIN" -> 3 [] r = "OWNER" -> 4]

InviteRows == [status : {"NONE", "PENDING", "ACCEPTED", "EXPIRED"},
               email : Users, role : Roles, expiresAt : Nat]

Kinds == {"invite", "accept", "anonymous", "add", "remove", "role", "billing"}

\* counted: what membership.count returned; seen: a role or account as read.
RequestStates ==
  [kind : Kinds, pc : {"idle", "pending", "member", "read", "expire", "count", "seats",
     "create", "existing", "join", "consume", "mark", "recount", "reseat", "delete",
     "update"},
   target : Users, invite : Invites, asRole : Roles, counted : Nat,
   seen : Roles \cup {"NONE"}, known : BOOLEAN]

Idle == [kind |-> "invite", pc |-> "idle", target |-> Owner,
         invite |-> CHOOSE i \in Invites : TRUE, asRole |-> "MEMBER",
         counted |-> 0, seen |-> "NONE", known |-> FALSE]

Init ==
  /\ now = 0
  /\ account \in {A \in SUBSET Users : Owner \in A}
  /\ role = [u \in Users |-> IF u = Owner THEN "OWNER" ELSE "NONE"]
  /\ billing = {}
  /\ invite = [i \in Invites |-> [status |-> "NONE", email |-> Owner,
                                  role |-> "MEMBER", expiresAt |-> 0]]
  /\ seatsUsed = 1
  /\ request = [q \in Requests |-> Idle]
  /\ faults = 0 /\ started = 0
  /\ joined = {Owner} /\ crowded = FALSE /\ drift = FALSE
  /\ twice = {}

Members     == {u \in Users : role[u] # "NONE"}
At(q, pc)   == request[q].pc = pc
Is(q, kind) == request[q].kind = kind
Target(q)   == request[q].target
Token(q)    == request[q].invite
Goto(q, pc) == request' = [request EXCEPT ![q].pc = pc]
End(q)      == request' = [request EXCEPT ![q] = Idle]

-----------------------------------------------------------------------------
(* Starting a request: requireOrgMembership and requireRole. *)

MayAct(kind) == \E a \in Members :
  Rank[role[a]] >= Rank[IF kind = "role" THEN "OWNER" ELSE "ADMIN"]

Arrive(q) == At(q, "idle") /\ started < MaxStarted /\ started' = started + 1

Begin(q, kind, pc, target, asRole) ==
  /\ Arrive(q)
  /\ MayAct(kind)
  /\ request' = [request EXCEPT ![q] =
       [Idle EXCEPT !.kind = kind, !.pc = pc, !.target = target,
                    !.asRole = asRole]]
  /\ UNCHANGED <<now, db, faults, history>>

StartInvite(q, u, r)   == Begin(q, "invite", "pending", u, r)
StartAdd(q, u, r)      == u \in account /\ Begin(q, "add", "count", u, r)
StartRemove(q, u)      == u \in Members /\ Begin(q, "remove", "delete", u, "MEMBER")
StartRole(q, u, r)     == u \in Members /\ Begin(q, "role", "update", u, r)
StartBilling(q, u)     == Begin(q, "billing", "read", u, "MEMBER")

\* Whoever holds the token: the invited address, or anybody, without login.
StartAccept(q, i, kind) ==
  /\ Arrive(q)
  /\ invite[i].status # "NONE"
  /\ kind = "accept" => invite[i].email \in account
  /\ request' = [request EXCEPT ![q] =
       [Idle EXCEPT !.kind = kind, !.pc = "read", !.invite = i,
                    !.target = invite[i].email, !.asRole = invite[i].role]]
  /\ UNCHANGED <<now, db, faults, history>>

-----------------------------------------------------------------------------
(* POST /me/invites. *)

FindPending(q) ==
  LET Same(p) == p # q /\ Is(p, "invite") /\ Target(p) = Target(q)
                       /\ ~At(p, "pending") /\ ~At(p, "idle")
  IN
  /\ At(q, "pending")
  /\ IF \E i \in Invites : invite[i].status = "PENDING"
                           /\ invite[i].email = Target(q)
       THEN End(q) /\ UNCHANGED twice
       ELSE /\ Goto(q, "member")
            /\ twice' = IF \E p \in Requests : Same(p)
                          THEN twice \cup {Target(q)} ELSE twice
  /\ UNCHANGED <<now, db, started, faults, joined, crowded, drift>>

RefuseMember(q) ==
  /\ At(q, "member")
  /\ IF Target(q) \in Members THEN End(q) ELSE Goto(q, "count")
  /\ UNCHANGED <<now, db, started, faults, history>>

CreateInvite(q) ==
  /\ At(q, "create")
  /\ \E i \in Invites :
       /\ invite[i].status = "NONE"
       /\ invite' = [invite EXCEPT ![i] =
            [status |-> "PENDING", email |-> Target(q),
             role |-> request[q].asRole, expiresAt |-> now + Life]]
  /\ End(q)
  /\ UNCHANGED <<now, account, role, billing, seatsUsed, started, faults, history>>

-----------------------------------------------------------------------------
(* enforceMemberLimit and refreshSeatsUsed. *)

CountMembers(q) ==
  /\ At(q, "count")
  /\ request' = [request EXCEPT ![q].pc = "seats",
                                ![q].counted = Cardinality(Members)]
  /\ UNCHANGED <<now, db, started, faults, history>>

FullPlusOne(n) == n > MaxMembers   \* mutant: the last seat is given twice

Full(n) == n >= MaxMembers

AfterSeats == [invite |-> "create", accept |-> "existing",
               anonymous |-> "join", add |-> "existing"]

WriteSeats(q) ==
  /\ seatsUsed' = request[q].counted
  /\ drift' = (drift \/ request[q].counted # Cardinality(Members))

EnforceMemberLimit(q) ==
  /\ At(q, "seats")
  /\ WriteSeats(q)
  /\ IF Full(request[q].counted)
       THEN End(q) ELSE Goto(q, AfterSeats[request[q].kind])
  /\ UNCHANGED <<now, account, role, billing, invite, started, faults, joined, crowded,
                 twice>>

Recount(q) ==
  /\ At(q, "recount")
  /\ request' = [request EXCEPT ![q].pc = "reseat",
                                ![q].counted = Cardinality(Members)]
  /\ UNCHANGED <<now, db, started, faults, history>>

Reseat(q) ==
  /\ At(q, "reseat")
  /\ WriteSeats(q)
  /\ End(q)
  /\ UNCHANGED <<now, account, role, billing, invite, started, faults, joined, crowded,
                 twice>>

-----------------------------------------------------------------------------
(* Accepting an invitation and adding a member. *)

\* getInviteOrThrow: the invitation is read, and one that has run out is marked
\* EXPIRED, whatever has become of it meanwhile.
ReadInvite(q) ==
  LET i == Token(q) IN
  /\ request[q].kind \in {"accept", "anonymous"}
  /\ \/ At(q, "read") /\ invite[i].status # "PENDING" /\ End(q) /\ UNCHANGED invite
     \/ /\ At(q, "read") /\ invite[i].status = "PENDING"
        /\ Goto(q, IF now > invite[i].expiresAt THEN "expire"
                   ELSE IF Is(q, "accept") THEN "count" ELSE "existing")
        /\ UNCHANGED invite
     \/ /\ At(q, "expire") /\ End(q)
        /\ invite' = [invite EXCEPT ![i].status = "EXPIRED"]
  /\ UNCHANGED <<now, account, role, billing, seatsUsed, started, faults, history>>

FindMember(q) ==
  /\ At(q, "existing")
  /\ request' = [request EXCEPT
       ![q].known = Target(q) \in account,
       ![q].pc = CASE Target(q) \in Members /\ Is(q, "add") -> "idle"
                   [] Target(q) \in Members /\ ~Is(q, "add") -> "mark"
                   [] Target(q) \notin Members /\ Is(q, "anonymous") -> "count"
                   [] OTHER -> "join"]
  /\ UNCHANGED <<now, db, started, faults, history>>

NewMember(q) ==
  /\ role' = [role EXCEPT ![Target(q)] = request[q].asRole]
  /\ joined' = joined \cup {Target(q)}
  /\ crowded' = (crowded \/ Cardinality(Members) # request[q].counted)

\* membership.create; the unique index refuses a second row.
Join(q) ==
  /\ At(q, "join") /\ request[q].kind \in {"accept", "add"}
  /\ IF Target(q) \in Members
       THEN End(q) /\ UNCHANGED <<role, joined, crowded>>
       ELSE /\ NewMember(q)
            /\ Goto(q, IF Is(q, "accept") THEN "consume" ELSE "recount")
  /\ UNCHANGED <<now, account, billing, invite, seatsUsed, started, faults, drift, twice>>

Accepted(q) == [invite EXCEPT ![Token(q)].status = "ACCEPTED"]

\* The transaction of accept-anonymous: user, membership and invitation.
JoinInOne(q) ==
  LET u == Target(q) IN
  /\ At(q, "join") /\ Is(q, "anonymous")
  /\ IF u \in Members \/ (~request[q].known /\ u \in account)
       THEN End(q) /\ UNCHANGED <<account, role, invite, joined, crowded>>
       ELSE /\ account' = account \cup {u}
            /\ NewMember(q)
            /\ invite' = Accepted(q)
            /\ Goto(q, "recount")
  /\ UNCHANGED <<now, billing, seatsUsed, started, faults, drift, twice>>

ConsumeAnyway(q) ==   \* mutant: the invitation is accepted before the member is
  /\ request[q].pc \in {"consume", "mark"} \/ (At(q, "count") /\ Is(q, "accept"))
  /\ invite' = Accepted(q)
  /\ Goto(q, IF At(q, "consume") THEN "recount"
             ELSE IF At(q, "mark") THEN "idle" ELSE "count")
  /\ UNCHANGED <<now, account, role, billing, seatsUsed, started, faults, history>>

\* The seats are counted again only when a member joined.
Consume(q) ==
  /\ request[q].pc \in {"consume", "mark"}
  /\ invite' = Accepted(q)
  /\ IF At(q, "consume") THEN Goto(q, "recount") ELSE End(q)
  /\ UNCHANGED <<now, account, role, billing, seatsUsed, started, faults, history>>

-----------------------------------------------------------------------------
(* removeMember, updateMemberRole, and PATCH /me/members/:userId. *)

RemoveQuietly(q) ==   \* mutant: no recount after a member left
  /\ At(q, "delete")
  /\ role' = [role EXCEPT ![Target(q)] = "NONE"]
  /\ billing' = billing \ {Target(q)}
  /\ End(q)
  /\ UNCHANGED <<now, account, invite, seatsUsed, started, faults, history>>

RemoveMember(q) ==
  /\ At(q, "delete")
  /\ role' = [role EXCEPT ![Target(q)] = "NONE"]
  /\ billing' = billing \ {Target(q)}
  /\ IF Target(q) \in Members THEN Goto(q, "recount") ELSE End(q)
  /\ UNCHANGED <<now, account, invite, seatsUsed, started, faults, history>>

UpdateRole(q) ==
  /\ At(q, "update") /\ Is(q, "role")
  /\ role' = IF Target(q) \in Members
              THEN [role EXCEPT ![Target(q)] = request[q].asRole] ELSE role
  /\ End(q)
  /\ UNCHANGED <<now, account, billing, invite, seatsUsed, started, faults, history>>

OwnerKeepsAnything(seen, admin) == TRUE   \* mutant: owners are not spared

OwnerKeeps(seen, admin) == seen = "OWNER" => admin

ReadBilling(q) ==
  /\ At(q, "read") /\ Is(q, "billing")
  /\ request' = [request EXCEPT
       ![q].seen = role[Target(q)],
       ![q].pc = IF Target(q) \in Members THEN "update" ELSE "idle"]
  /\ UNCHANGED <<now, db, started, faults, history>>

UpdateBillingAnyway(q, admin) ==   \* mutant: the row is made if it is gone
  /\ At(q, "update") /\ Is(q, "billing")
  /\ billing' = IF admin THEN billing \cup {Target(q)} ELSE billing \ {Target(q)}
  /\ End(q)
  /\ UNCHANGED <<now, account, role, invite, seatsUsed, started, faults, history>>

UpdateBilling(q, admin) ==
  /\ At(q, "update") /\ Is(q, "billing")
  /\ billing' = IF Target(q) \in Members /\ OwnerKeeps(request[q].seen, admin)
       THEN IF admin THEN billing \cup {Target(q)} ELSE billing \ {Target(q)}
       ELSE billing
  /\ End(q)
  /\ UNCHANGED <<now, account, role, invite, seatsUsed, started, faults, history>>

-----------------------------------------------------------------------------
\* A call throws, or the process dies.
Stop(q) ==
  /\ ~At(q, "idle")
  /\ faults < MaxFaults
  /\ faults' = faults + 1
  /\ drift' = (drift \/ request[q].pc \in {"consume", "recount", "reseat"})
  /\ End(q)
  /\ UNCHANGED <<now, db, started, joined, crowded, twice>>

Tick ==
  /\ now < MaxNow
  /\ now' = now + 1
  /\ UNCHANGED <<db, request, started, faults, history>>

Start(q) ==
  \/ \E u \in Users, r \in GivenRoles :
       StartInvite(q, u, r) \/ StartAdd(q, u, r) \/ StartRole(q, u, r)
  \/ \E u \in Users : StartRemove(q, u) \/ StartBilling(q, u)
  \/ \E i \in Invites : StartAccept(q, i, "accept") \/ StartAccept(q, i, "anonymous")

Serve(q) ==
  \/ FindPending(q) \/ RefuseMember(q) \/ CreateInvite(q)
  \/ CountMembers(q) \/ EnforceMemberLimit(q) \/ Recount(q) \/ Reseat(q)
  \/ ReadInvite(q) \/ FindMember(q) \/ Join(q) \/ JoinInOne(q) \/ Consume(q)
  \/ RemoveMember(q) \/ UpdateRole(q) \/ ReadBilling(q)
  \/ \E admin \in BOOLEAN : UpdateBilling(q, admin)

Next == (\E q \in Requests : Start(q) \/ Serve(q) \/ Stop(q)) \/ Tick

Spec == Init /\ [][Next]_vars

-----------------------------------------------------------------------------
TypeOK ==
  /\ now \in 0..MaxNow
  /\ account \subseteq Users
  /\ role \in [Users -> Roles \cup {"NONE"}]
  /\ billing \subseteq Members
  /\ invite \in [Invites -> InviteRows]
  /\ seatsUsed \in 0..Cardinality(Users)
  /\ request \in [Requests -> RequestStates]
  /\ faults \in 0..MaxFaults /\ started \in 0..MaxStarted
  /\ joined \subseteq Users /\ crowded \in BOOLEAN /\ drift \in BOOLEAN
  /\ twice \subseteq Users

\* The organisation never has more members than its plan allows, unless a
\* member joined on a count that another request had already made wrong; and
\* then, through any sequence of requests, there is never more than one too many
\* for each but one of the requests that can be in flight at once.
WithinLimit ==
  /\ ~crowded => Cardinality(Members) <= MaxMembers
  /\ Cardinality(Members) < MaxMembers + Cardinality(Requests)

\* The cached number of seats is the number of members whenever nothing is in
\* flight, unless a stale count was written or a recount never ran.
SeatsAgree ==
  (~drift /\ \A q \in Requests : At(q, "idle")) =>
    seatsUsed = Cardinality(Members)

\* Only an address that did join is shown as having accepted: no failure
\* between the calls can burn an invitation.
AcceptedHasJoined ==
  \A i \in Invites : invite[i].status = "ACCEPTED" => invite[i].email \in joined

\* An address has one pending invitation, unless two requests invited it at
\* once.
OnePending ==
  \A i, j \in Invites :
    (/\ invite[i].status = "PENDING" /\ invite[j].status = "PENDING"
     /\ invite[i].email = invite[j].email /\ invite[i].email \notin twice) => i = j

\* "Owner billing access cannot be removed": an owner loses it only to a
\* request that read the role before it was given, or by leaving.
OwnerKeepsBilling ==
  [][\A u \in Users :
       (role[u] = "OWNER" /\ u \in billing /\ u \notin billing') =>
         \/ role'[u] = "NONE"
         \/ \E q \in Requests : /\ Is(q, "billing") /\ Target(q) = u
                                /\ request[q].seen # "OWNER"]_vars

=============================================================================
