-------------------------------- MODULE Access --------------------------------
(***************************************************************************)
(* What a request of a browser has to pass: the session checked against    *)
(* the account as stored now, the rules that keep an administrator in the  *)
(* panel, and, for a console command, the sliding window of the control    *)
(* agent.  Requests of several browsers are served by several threads, and *)
(* nothing holds an account between the check and the UPDATE, nor a        *)
(* command between its time stamp and the agent's lock.                    *)
(***************************************************************************)
EXTENDS Naturals, FiniteSets

CONSTANTS
  Users,         \* user names that differ in more than case
  Bootstrap,     \* APP_USER
  Browsers,      \* each with one session and one request at a time
  ActiveValues,  \* what a PATCH may carry as "active"; None if nothing
  None,
  Zero,          \* the JSON number 0
  Window,        \* _RATE_LIMIT_WINDOW, in ticks of the agent's clock
  MaxHits,       \* _RATE_LIMIT_MAX
  MaxNow,        \* bound on the clock
  MaxCommands    \* bound on commands

Roles == {"admin", "operator"}
Account == [role : Roles, active : BOOLEAN]

ASSUME AccessAssumption ==
  /\ Bootstrap \in Users
  /\ ActiveValues \subseteq BOOLEAN \cup {None, Zero}
  /\ None \notin BOOLEAN /\ None \notin Roles /\ None \notin Users /\ None \notin Account
  /\ Window \in Nat \ {0} /\ MaxHits \in Nat \ {0}
  /\ MaxNow \in Nat /\ MaxCommands \in Nat

VARIABLES
  users,      \* the table: role and active of each account, None before it exists
  session,    \* the cookie of each browser: the user, and the role at login
  pc, req,    \* the step of each browser's request, and what it asks for
  slipped,    \* history: an update was written that the rules should have stopped: its
              \* sender has lost the rights meanwhile, or takes its own with the number 0
  now, hits,  \* the agent's clock and _rate_hits
  accepted,   \* history: all commands this agent has let pass
  latest,     \* history: the newest stamp that has come to the lock
  overtaken,  \* history: a command came to the lock after one with a newer stamp
  commands

storeVars == <<users, slipped>>
agentVars == <<hits, accepted, latest, overtaken>>
vars == <<storeVars, session, pc, req, now, agentVars, commands>>

Session == [user : Users, role : Roles]
Hit == [id : 1..MaxCommands, at : 0..MaxNow]

Creation == [user : Users, role : Roles]
Change == [user : Users, role : Roles \cup {None}, active : ActiveValues \cup {None}]

TypeOK ==
  /\ users \in [Users -> Account \cup {None}]
  /\ session \in [Browsers -> Session \cup {None}]
  /\ pc \in [Browsers -> {"idle", "create", "update", "stamp", "count"}]
  /\ req \in [Browsers -> Creation \cup Change \cup Hit \cup {None}]
  /\ \A b \in Browsers :
       /\ pc[b] = "create" => req[b] \in Creation
       /\ pc[b] = "update" => req[b] \in Change
       /\ pc[b] = "count" => req[b] \in Hit
  /\ slipped \in BOOLEAN
  /\ now \in 0..MaxNow /\ latest \in 0..MaxNow /\ commands \in 0..MaxCommands
  /\ hits \subseteq Hit /\ accepted \subseteq Hit
  /\ overtaken \in BOOLEAN

\* The first start creates APP_USER; nothing removes an account.
Init ==
  /\ users = [u \in Users |-> IF u = Bootstrap THEN [role |-> "admin", active |-> TRUE] ELSE None]
  /\ session = [b \in Browsers |-> None]
  /\ pc = [b \in Browsers |-> "idle"]
  /\ req = [b \in Browsers |-> None]
  /\ slipped = FALSE
  /\ now = 0 /\ hits = {} /\ accepted = {} /\ latest = 0 /\ overtaken = FALSE
  /\ commands = 0

Active(u) == users[u] # None /\ users[u].active
IsAdmin(u) == Active(u) /\ users[u].role = "admin"

-----------------------------------------------------------------------------
(* Sessions. *)

\* Mutant of Login: the session of any name.
LoginUnchecked(b) ==
  /\ pc[b] = "idle"
  /\ \E u \in Users : session' = [session EXCEPT ![b] = [user |-> u, role |-> None]]
  /\ UNCHANGED <<storeVars, pc, req, now, agentVars, commands>>

\* With the right password.
Login(b) ==
  /\ pc[b] = "idle"
  /\ \E u \in Users :
       /\ Active(u)
       /\ session' = [session EXCEPT ![b] = [user |-> u, role |-> users[u].role]]
  /\ UNCHANGED <<storeVars, pc, req, now, agentVars, commands>>

Logout(b) ==
  /\ pc[b] = "idle"
  /\ session' = [session EXCEPT ![b] = None]
  /\ UNCHANGED <<storeVars, pc, req, now, agentVars, commands>>

\* The account is read again at each request; a change of role ends the session.
Authenticated(b) ==
  /\ session[b] # None
  /\ Active(session[b].user)
  /\ users[session[b].user].role = session[b].role

AdminRequired(b) == Authenticated(b) /\ session[b].role = "admin"

-----------------------------------------------------------------------------
(* Accounts. *)

Begin(b, step, request) ==
  /\ pc[b] = "idle"
  /\ pc' = [pc EXCEPT ![b] = step] /\ req' = [req EXCEPT ![b] = request]
  /\ UNCHANGED <<storeVars, session, now, agentVars>>

End(b) == pc' = [pc EXCEPT ![b] = "idle"] /\ req' = [req EXCEPT ![b] = None]

BeginCreate(b) ==
  /\ AdminRequired(b)
  /\ \E r \in Creation : Begin(b, "create", r)
  /\ UNCHANGED commands

\* INSERT, or IntegrityError for a name that is taken.
Insert(b) ==
  LET u == req[b].user
  IN  /\ pc[b] = "create" /\ End(b)
      /\ users' = IF users[u] = None
                  THEN [users EXCEPT ![u] = [role |-> req[b].role, active |-> TRUE]] ELSE users
      /\ UNCHANGED <<slipped, session, now, agentVars, commands>>

\* Administrators may not take their own rights: "active" is False, or role is operator.
OwnRights(b, c) == c.user = session[b].user /\ (c.active = FALSE \/ c.role = "operator")

\* Mutant of BeginUpdate: one may do to oneself what one may do to others.
BeginUpdateOfAnyone(b) ==
  /\ AdminRequired(b)
  /\ \E c \in Change : Begin(b, "update", c)
  /\ UNCHANGED commands

BeginUpdate(b) ==
  /\ AdminRequired(b)
  /\ \E c \in Change : ~OwnRights(b, c) /\ Begin(b, "update", c)
  /\ UNCHANGED commands

\* int(active): 0 deactivates like False.
Updated(account, c) ==
  [role   |-> IF c.role = None THEN account.role ELSE c.role,
   active |-> IF c.active = None THEN account.active ELSE c.active \notin {FALSE, Zero}]

\* An account that does not exist is a ValueError; existence never ends, so that
\* the look and the UPDATE are one step.
Update(b) ==
  LET u == req[b].user
  IN  /\ pc[b] = "update" /\ End(b)
      /\ users' = IF users[u] = None THEN users
                  ELSE [users EXCEPT ![u] = Updated(@, req[b])]
      /\ slipped' = \/ slipped \/ ~IsAdmin(session[b].user)
                    \/ u = session[b].user /\ req[b].active = Zero
      /\ UNCHANGED <<session, now, agentVars, commands>>

-----------------------------------------------------------------------------
(* Console commands and the agent's window. *)

BeginCommand(b) ==
  /\ Authenticated(b)
  /\ Begin(b, "stamp", None)
  /\ UNCHANGED commands

\* now = time.monotonic(), before the lock.
Stamp(b) ==
  /\ pc[b] = "stamp"
  /\ pc' = [pc EXCEPT ![b] = "count"]
  /\ commands < MaxCommands /\ commands' = commands + 1
  /\ req' = [req EXCEPT ![b] = [id |-> commands + 1, at |-> now]]
  /\ UNCHANGED <<storeVars, session, now, agentVars>>

\* The hits that are younger than the window, seen from a stamp; a stamp that
\* came late sees newer ones too.
Recent(at) == {h \in hits : at < h.at + Window}

\* Mutant of Count: one more than the maximum.
CountOneMore(b) ==
  LET h == req[b]
      recent == Recent(h.at)
      passes == Cardinality(recent) <= MaxHits
  IN  /\ pc[b] = "count" /\ End(b)
      /\ hits' = recent \cup (IF passes THEN {h} ELSE {})
      /\ accepted' = accepted \cup (IF passes THEN {h} ELSE {})
      /\ latest' = IF h.at > latest THEN h.at ELSE latest
      /\ overtaken' = (overtaken \/ h.at < latest)
      /\ UNCHANGED <<storeVars, session, now, commands>>

\* Inside the lock: forget the old hits, and take this one if there is room.
Count(b) ==
  LET h == req[b]
      recent == Recent(h.at)
      passes == Cardinality(recent) < MaxHits
  IN  /\ pc[b] = "count" /\ End(b)
      /\ hits' = recent \cup (IF passes THEN {h} ELSE {})
      /\ accepted' = accepted \cup (IF passes THEN {h} ELSE {})
      /\ latest' = IF h.at > latest THEN h.at ELSE latest
      /\ overtaken' = (overtaken \/ h.at < latest)
      /\ UNCHANGED <<storeVars, session, now, commands>>

Tick ==
  /\ now < MaxNow /\ now' = now + 1
  /\ UNCHANGED <<storeVars, session, pc, req, agentVars, commands>>

\* A new agent has counted nothing; commands under way are lost.
AgentRestarts ==
  /\ pc' = [b \in Browsers |-> IF pc[b] \in {"stamp", "count"} THEN "idle" ELSE pc[b]]
  /\ req' = [b \in Browsers |-> IF pc[b] \in {"stamp", "count"} THEN None ELSE req[b]]
  /\ hits' = {} /\ accepted' = {} /\ latest' = 0 /\ overtaken' = FALSE
  /\ UNCHANGED <<storeVars, session, now, commands>>

-----------------------------------------------------------------------------
\* The dashboard restarts: APP_USER exists, so nothing is created; cookies stay valid.
DashboardRestarts ==
  /\ pc' = [b \in Browsers |-> IF pc[b] \in {"create", "update"} THEN "idle" ELSE pc[b]]
  /\ req' = [b \in Browsers |-> IF pc[b] \in {"create", "update"} THEN None ELSE req[b]]
  /\ UNCHANGED <<storeVars, session, now, agentVars, commands>>

Next ==
  \/ \E b \in Browsers :
       \/ Login(b) \/ Logout(b)
       \/ BeginCreate(b) \/ Insert(b) \/ BeginUpdate(b) \/ Update(b)
       \/ BeginCommand(b) \/ Stamp(b) \/ Count(b)
  \/ Tick \/ AgentRestarts \/ DashboardRestarts

Spec == Init /\ [][Next]_vars

-----------------------------------------------------------------------------
\* However administrators create, promote, demote and deactivate each other, one
\* who can log in and administer is left, as long as no update is written whose
\* sender has been demoted or deactivated since its check, or deactivates its own
\* account with the number 0, which is not False.
AdminsRemain == ~slipped => \E u \in Users : IsAdmin(u)

\* In whatever window of that length one looks, the agent has let pass no more
\* commands than the maximum, as long as stamps come to the lock in their order.
PassedFrom(w) == {h \in accepted : w <= h.at /\ h.at < w + Window}
RateIsBounded == ~overtaken => \A w \in 0..MaxNow : Cardinality(PassedFrom(w)) <= MaxHits
=============================================================================
