---------------------------- MODULE AccessProofs ----------------------------
(***************************************************************************)
(* Theorems about Access.                                                  *)
(***************************************************************************)
EXTENDS Access, FiniteSetTheorems, TLAPS

\* An update under way was asked for by an administrator's session, which the
\* browser keeps until it ends, and does not take the own rights.
Asked ==
  \A b \in Browsers :
    pc[b] = "update" =>
      /\ session[b] # None /\ session[b].role = "admin"
      /\ ~OwnRights(b, req[b])

\* The agent remembers what it has let pass, back to a window before the newest stamp.
Remembered ==
  /\ IsFiniteSet(hits) /\ IsFiniteSet(accepted)
  /\ hits \subseteq accepted
  /\ \A h \in accepted : h.at <= latest
  /\ ~overtaken => \A h \in accepted : latest < h.at + Window => h \in hits

RateInv == TypeOK /\ Remembered /\ RateIsBounded
AccountsInv == TypeOK /\ Asked /\ AdminsRemain

-----------------------------------------------------------------------------
(* Typing. *)

\* The steps of requests, and what they carry.
Steps == {"idle", "create", "update", "stamp", "count"}
Carried == Creation \cup Change \cup Hit \cup {None}

RequestsTyped ==
  /\ pc \in [Browsers -> Steps] /\ req \in [Browsers -> Carried]
  /\ \A b \in Browsers :
       /\ pc[b] = "create" => req[b] \in Creation
       /\ pc[b] = "update" => req[b] \in Change
       /\ pc[b] = "count" => req[b] \in Hit

StoreTyped ==
  /\ users \in [Users -> Account \cup {None}]
  /\ session \in [Browsers -> Session \cup {None}]
  /\ slipped \in BOOLEAN

AgentTyped ==
  /\ now \in 0..MaxNow /\ latest \in 0..MaxNow /\ commands \in 0..MaxCommands
  /\ hits \subseteq Hit /\ accepted \subseteq Hit
  /\ overtaken \in BOOLEAN

\* The parts of the type invariant.
LEMMA TypeParts == TypeOK <=> RequestsTyped /\ StoreTyped /\ AgentTyped
BY Zenon DEF TypeOK, RequestsTyped, StoreTyped, AgentTyped, Steps, Carried

\* What a step must put in a request for the types to be kept.
LEMMA StepTyped ==
  ASSUME RequestsTyped, NEW b \in Browsers, NEW step \in Steps, NEW r \in Carried,
         pc' = [pc EXCEPT ![b] = step], req' = [req EXCEPT ![b] = r],
         step = "create" => r \in Creation,
         step = "update" => r \in Change,
         step = "count" => r \in Hit
  PROVE  RequestsTyped'
<1>1. pc' \in [Browsers -> Steps] /\ req' \in [Browsers -> Carried]
  BY DEF RequestsTyped
<1>2. /\ pc'[b] = step /\ req'[b] = r
      /\ \A c \in Browsers \ {b} : pc'[c] = pc[c] /\ req'[c] = req[c]
  BY DEF RequestsTyped
<1>3. ASSUME NEW c \in Browsers
      PROVE  /\ pc'[c] = "create" => req'[c] \in Creation
             /\ pc'[c] = "update" => req'[c] \in Change
             /\ pc'[c] = "count" => req'[c] \in Hit
  <2>1. CASE c = b
    BY <2>1, <1>2
  <2>2. CASE c # b
    BY <2>2, <1>2 DEF RequestsTyped
  <2> QED
    BY <2>1, <2>2
<1> QED
  BY <1>1, <1>3 DEF RequestsTyped

\* Ending a request keeps the types.
LEMMA EndTyped ==
  ASSUME RequestsTyped, NEW b \in Browsers, End(b)
  PROVE  RequestsTyped'
<1>1. "idle" \in Steps /\ None \in Carried
  BY DEF Steps, Carried
<1> QED
  BY <1>1, StepTyped DEF End

\* An account, changed, is an account.
LEMMA UpdatedTyped ==
  ASSUME NEW a \in Account, NEW c \in Change
  PROVE  Updated(a, c) \in Account
<1>1. (c.active \notin {FALSE, Zero}) \in BOOLEAN /\ a.active \in BOOLEAN /\ a.role \in Roles
  BY DEF Account
<1>2. c.role # None => c.role \in Roles
  BY DEF Change
<1> QED
  BY <1>1, <1>2 DEF Updated, Account

\* Every step keeps the types.
LEMMA TypeStep ==
  ASSUME TypeOK, [Next]_vars
  PROVE  TypeOK'
<1> USE AccessAssumption
<1> SUFFICES RequestsTyped' /\ StoreTyped' /\ AgentTyped'
  BY Zenon DEF TypeOK, RequestsTyped, StoreTyped, AgentTyped, Steps, Carried
<1>0. RequestsTyped /\ StoreTyped /\ AgentTyped
  BY TypeParts
<1>a. UNCHANGED <<pc, req>> => RequestsTyped'
  BY <1>0 DEF RequestsTyped
<1>b. UNCHANGED <<storeVars, session>> => StoreTyped'
  BY <1>0 DEF StoreTyped, storeVars
<1>c. UNCHANGED <<now, agentVars, commands>> => AgentTyped'
  BY <1>0 DEF AgentTyped, agentVars
<1>1. ASSUME NEW b \in Browsers, Login(b) PROVE StoreTyped' /\ RequestsTyped' /\ AgentTyped'
  <2>1. PICK u \in Users : Active(u) /\ session' = [session EXCEPT ![b] = [user |-> u, role |-> users[u].role]]
    BY <1>1 DEF Login
  <2>2. users[u] \in Account
    BY <2>1, <1>0 DEF Active, StoreTyped
  <2>3. [user |-> u, role |-> users[u].role] \in Session
    BY <2>2 DEF Account, Session
  <2>4. session' \in [Browsers -> Session \cup {None}]
    BY <2>1, <2>3, <1>0 DEF StoreTyped
  <2>5. StoreTyped'
    BY <2>4, <1>0, <1>1 DEF StoreTyped, Login, storeVars
  <2> QED
    BY <2>5, <1>1, <1>a, <1>c DEF Login
<1>2. ASSUME NEW b \in Browsers, Logout(b) PROVE StoreTyped' /\ RequestsTyped' /\ AgentTyped'
  <2>1. session' \in [Browsers -> Session \cup {None}]
    BY <1>2, <1>0 DEF StoreTyped, Logout
  <2>2. StoreTyped'
    BY <2>1, <1>0, <1>2 DEF StoreTyped, Logout, storeVars
  <2> QED
    BY <2>2, <1>2, <1>a, <1>c DEF Logout
<1>3. ASSUME NEW b \in Browsers, BeginCreate(b) PROVE StoreTyped' /\ RequestsTyped' /\ AgentTyped'
  <2>1. PICK r \in Creation : Begin(b, "create", r)
    BY <1>3 DEF BeginCreate
  <2>2. RequestsTyped'
    <3>1. "create" \in Steps /\ r \in Carried
      BY DEF Steps, Carried
    <3> QED
      BY <2>1, <3>1, <1>0, StepTyped DEF Begin
  <2> QED
    BY <2>1, <2>2, <1>3, <1>b, <1>c DEF Begin, BeginCreate
<1>4. ASSUME NEW b \in Browsers, Insert(b) PROVE StoreTyped' /\ RequestsTyped' /\ AgentTyped'
  <2>1. req[b] \in Creation
    BY <1>4, <1>0 DEF Insert, RequestsTyped
  <2>2. [role |-> req[b].role, active |-> TRUE] \in Account
    BY <2>1 DEF Creation, Account
  <2>3. users' \in [Users -> Account \cup {None}]
    BY <2>2, <1>0, <1>4 DEF Insert, StoreTyped
  <2>4. StoreTyped'
    BY <2>3, <1>0, <1>4 DEF Insert, StoreTyped
  <2> QED
    BY <2>4, <1>4, <1>0, <1>c, EndTyped DEF Insert
<1>5. ASSUME NEW b \in Browsers, BeginUpdate(b) PROVE StoreTyped' /\ RequestsTyped' /\ AgentTyped'
  <2>1. PICK c \in Change : Begin(b, "update", c)
    BY <1>5 DEF BeginUpdate
  <2>2. RequestsTyped'
    <3>1. "update" \in Steps /\ c \in Carried
      BY DEF Steps, Carried
    <3> QED
      BY <2>1, <3>1, <1>0, StepTyped DEF Begin
  <2> QED
    BY <2>1, <2>2, <1>5, <1>b, <1>c DEF Begin, BeginUpdate
<1>6. ASSUME NEW b \in Browsers, Update(b) PROVE StoreTyped' /\ RequestsTyped' /\ AgentTyped'
  <2> DEFINE u == req[b].user
  <2>1. req[b] \in Change /\ u \in Users
    BY <1>6, <1>0 DEF Update, RequestsTyped, Change
  <2>2. users[u] # None => Updated(users[u], req[b]) \in Account
    BY <2>1, <1>0, UpdatedTyped DEF StoreTyped
  <2>3. users' \in [Users -> Account \cup {None}]
    BY <2>1, <2>2, <1>0, <1>6 DEF Update, StoreTyped
  <2>4. slipped' \in BOOLEAN /\ session' \in [Browsers -> Session \cup {None}]
    BY <1>0, <1>6 DEF Update, StoreTyped
  <2>5. StoreTyped'
    BY <2>3, <2>4 DEF StoreTyped
  <2> QED
    BY <2>5, <1>6, <1>0, <1>c, EndTyped DEF Update
<1>7. ASSUME NEW b \in Browsers, BeginCommand(b) PROVE StoreTyped' /\ RequestsTyped' /\ AgentTyped'
  <2>1. "stamp" \in Steps /\ None \in Carried
    BY DEF Steps, Carried
  <2>2. RequestsTyped'
    BY <2>1, <1>7, <1>0, StepTyped DEF BeginCommand, Begin
  <2> QED
    BY <2>2, <1>7, <1>b, <1>c DEF Begin, BeginCommand
<1>8. ASSUME NEW b \in Browsers, Stamp(b) PROVE StoreTyped' /\ RequestsTyped' /\ AgentTyped'
  <2>1. commands + 1 \in 1..MaxCommands /\ now \in 0..MaxNow /\ commands' = commands + 1
    BY <1>8, <1>0 DEF Stamp, AgentTyped
  <2>2. [id |-> commands + 1, at |-> now] \in Hit
    BY <2>1 DEF Hit
  <2>3. "count" \in Steps /\ [id |-> commands + 1, at |-> now] \in Carried
    BY <2>2 DEF Steps, Carried
  <2>4. RequestsTyped'
    BY <2>2, <2>3, <1>8, <1>0, StepTyped DEF Stamp
  <2>5. AgentTyped'
    BY <2>1, <1>8, <1>0 DEF Stamp, AgentTyped, agentVars
  <2> QED
    BY <2>4, <2>5, <1>8, <1>b DEF Stamp
<1>9. ASSUME NEW b \in Browsers, Count(b) PROVE StoreTyped' /\ RequestsTyped' /\ AgentTyped'
  <2>1. req[b] \in Hit /\ req[b].at \in 0..MaxNow
    BY <1>9, <1>0 DEF Count, RequestsTyped, Hit
  <2>2. hits' \subseteq Hit /\ accepted' \subseteq Hit
    BY <2>1, <1>9, <1>0 DEF Count, Recent, AgentTyped
  <2>3. overtaken' \in BOOLEAN
    BY <1>9 DEF Count
  <2>4. latest' \in 0..MaxNow
    <3>1. latest' = IF req[b].at > latest THEN req[b].at ELSE latest
      BY <1>9 DEF Count
    <3> QED
      BY <3>1, <2>1, <1>0 DEF AgentTyped
  <2>5. AgentTyped'
    <3>1. UNCHANGED <<now, commands>>
      BY <1>9 DEF Count
    <3> QED
      BY <2>2, <2>3, <2>4, <3>1, <1>0 DEF AgentTyped
  <2> QED
    BY <2>5, <1>9, <1>0, <1>b, EndTyped DEF Count
<1>10. CASE Tick
  <2>1. AgentTyped'
    BY <1>10, <1>0 DEF Tick, AgentTyped, agentVars
  <2> QED
    BY <2>1, <1>10, <1>a, <1>b DEF Tick
<1>11. CASE AgentRestarts
  <2>1. RequestsTyped'
    <3>1. pc' \in [Browsers -> Steps] /\ req' \in [Browsers -> Carried]
      BY <1>11, <1>0 DEF AgentRestarts, RequestsTyped, Steps, Carried
    <3> QED
      BY <3>1, <1>11, <1>0 DEF AgentRestarts, RequestsTyped
  <2>2. AgentTyped'
    <3>1. hits' \subseteq Hit /\ accepted' \subseteq Hit
      BY <1>11 DEF AgentRestarts
    <3>2. overtaken' \in BOOLEAN
      BY <1>11 DEF AgentRestarts
    <3>3. latest' \in 0..MaxNow /\ UNCHANGED <<now, commands>>
      BY <1>11 DEF AgentRestarts
    <3> QED
      BY <3>1, <3>2, <3>3, <1>0 DEF AgentTyped
  <2> QED
    BY <2>1, <2>2, <1>11, <1>b DEF AgentRestarts
<1>12. CASE DashboardRestarts
  <2>1. RequestsTyped'
    <3>1. pc' \in [Browsers -> Steps] /\ req' \in [Browsers -> Carried]
      BY <1>12, <1>0 DEF DashboardRestarts, RequestsTyped, Steps, Carried
    <3> QED
      BY <3>1, <1>12, <1>0 DEF DashboardRestarts, RequestsTyped
  <2> QED
    BY <2>1, <1>12, <1>b, <1>c DEF DashboardRestarts
<1>13. CASE UNCHANGED vars
  BY <1>13, <1>a, <1>b, <1>c DEF vars
<1> QED
  BY <1>1, <1>2, <1>3, <1>4, <1>5, <1>6, <1>7, <1>8, <1>9, <1>10, <1>11, <1>12, <1>13 DEF Next

-----------------------------------------------------------------------------
(* The accounts. *)

\* A step that leaves the table, the sessions and the updates under way alone, or
\* only ends some of these, keeps what they have asked.
LEMMA AskedFrame ==
  ASSUME Asked, UNCHANGED session,
         \A c \in Browsers : pc'[c] = "update" => pc[c] = "update" /\ req'[c] = req[c]
  PROVE  Asked'
BY DEF Asked, OwnRights

\* Every step keeps it: a session changes between requests only.
LEMMA AskedStep ==
  ASSUME TypeOK, Asked, [Next]_vars
  PROVE  Asked'
<1>1. ASSUME NEW b \in Browsers, Login(b) \/ Logout(b) PROVE Asked'
  <2>1. /\ pc[b] = "idle" /\ UNCHANGED <<pc, req>>
        /\ \A c \in Browsers \ {b} : session'[c] = session[c]
    BY <1>1 DEF Login, Logout, TypeOK
  <2>2. ASSUME NEW c \in Browsers, pc'[c] = "update"
        PROVE  session'[c] # None /\ session'[c].role = "admin" /\ ~OwnRights(c, req[c])'
    <3>1. c # b /\ pc[c] = "update" /\ session'[c] = session[c] /\ req'[c] = req[c]
      BY <2>1, <2>2
    <3> QED
      BY <3>1 DEF Asked, OwnRights
  <2> QED
    BY <2>2 DEF Asked, OwnRights
<1>2. ASSUME NEW b \in Browsers, BeginUpdate(b) PROVE Asked'
  <2>1. PICK r \in Change : ~OwnRights(b, r) /\ Begin(b, "update", r)
    BY <1>2 DEF BeginUpdate
  <2>2. session[b] # None /\ session[b].role = "admin"
    BY <1>2 DEF BeginUpdate, AdminRequired, Authenticated
  <2>3. /\ req'[b] = r /\ UNCHANGED session
        /\ \A c \in Browsers \ {b} : pc'[c] = pc[c] /\ req'[c] = req[c]
    BY <2>1 DEF Begin, TypeOK
  <2> QED
    BY <2>1, <2>2, <2>3 DEF Asked, OwnRights
<1>3. ASSUME NEW b \in Browsers, BeginCreate(b) \/ BeginCommand(b) PROVE Asked'
  <2>1. PICK step \in {"create", "stamp"} : \E r \in Carried : Begin(b, step, r)
    BY <1>3 DEF BeginCreate, BeginCommand, Carried
  <2>2. /\ UNCHANGED session /\ pc'[b] # "update"
        /\ \A c \in Browsers \ {b} : pc'[c] = pc[c] /\ req'[c] = req[c]
    BY <2>1 DEF Begin, TypeOK
  <2> QED
    BY <2>2, AskedFrame
<1>4. ASSUME NEW b \in Browsers, Insert(b) \/ Update(b) \/ Stamp(b) \/ Count(b) PROVE Asked'
  <2>1. /\ UNCHANGED session /\ pc'[b] # "update"
        /\ \A c \in Browsers \ {b} : pc'[c] = pc[c] /\ req'[c] = req[c]
    BY <1>4 DEF Insert, Update, Stamp, Count, End, TypeOK
  <2> QED
    BY <2>1, AskedFrame
<1>5. CASE Tick \/ UNCHANGED vars
  BY <1>5, AskedFrame DEF Tick, vars
<1>6. CASE AgentRestarts
  BY <1>6, AskedFrame DEF AgentRestarts
<1>7. CASE DashboardRestarts
  BY <1>7, AskedFrame DEF DashboardRestarts
<1> QED
  BY <1>1, <1>2, <1>3, <1>4, <1>5, <1>6, <1>7 DEF Next

\* An update that is written while its sender is still an administrator leaves it one.
LEMMA SenderStays ==
  ASSUME TypeOK, Asked, NEW b \in Browsers, Update(b), ~slipped'
  PROVE  \E u \in Users : IsAdmin(u)'
<1> DEFINE s == session[b].user
           u == req[b].user
           c == req[b]
<1>1. c \in Change /\ u \in Users /\ session[b] \in Session
  <2>1. pc[b] = "update"
    BY DEF Update
  <2>2. c \in Change
    BY <2>1 DEF TypeOK
  <2>3. session[b] \in Session
    BY <2>1 DEF Asked, TypeOK
  <2> QED
    BY <2>2, <2>3 DEF Change
<1>2. s \in Users /\ IsAdmin(s)
  BY <1>1 DEF Update, Session
<1>a. (users'[s] # None /\ users'[s].active /\ users'[s].role = "admin") => \E a \in Users : IsAdmin(a)'
  BY <1>2 DEF IsAdmin, Active
<1>3. CASE u # s
  <2>1. users'[s] = users[s]
    BY <1>2, <1>3 DEF Update, TypeOK
  <2> QED
    BY <1>2, <2>1, <1>a DEF IsAdmin, Active
<1>4. CASE u = s
  <2>1. c.active # FALSE /\ c.role # "operator"
    BY <1>4 DEF Asked, Update, OwnRights
  <2>2. c.role \in {"admin", None} /\ c.active \in ActiveValues \cup {None}
    BY <1>1, <2>1 DEF Change, Roles
  <2>3. users[s] # None /\ users[s].active /\ users[s].role = "admin"
    BY <1>2 DEF IsAdmin, Active
  <2>4. users'[s] = Updated(users[s], c)
    BY <1>1, <1>4, <2>3 DEF Update, TypeOK
  <2>5. Updated(users[s], c).role = "admin"
    BY <2>2, <2>3 DEF Updated
  <2>6. c.active \notin {FALSE, Zero}
    BY <1>4, <2>1 DEF Update
  <2>7. Updated(users[s], c).active
    BY <2>3, <2>6 DEF Updated
  <2>8. Updated(users[s], c) # None
    <3>1. users[s] \in Account
      BY <1>2, <2>3 DEF TypeOK
    <3>2. Updated(users[s], c) \in Account
      BY <1>1, <3>1, UpdatedTyped
    <3> QED
      BY <3>2, AccessAssumption
  <2>9. users'[s] # None /\ users'[s].active /\ users'[s].role = "admin"
    BY Zenon, <2>4, <2>5, <2>7, <2>8
  <2> QED
    BY <2>9, <1>a
<1> QED
  BY <1>2, <1>3, <1>4

\* No step takes an administrator's rights but an update.
LEMMA AdminFrame ==
  ASSUME TypeOK, [Next]_vars, NEW s \in Users, IsAdmin(s),
         \A b \in Browsers : ~Update(b)
  PROVE  IsAdmin(s)' /\ slipped' = slipped
<1>1. ASSUME NEW b \in Browsers, Insert(b) PROVE IsAdmin(s)' /\ slipped' = slipped
  <2>1. users[s] # None
    BY DEF IsAdmin, Active
  <2>2. users'[s] = users[s] /\ slipped' = slipped
    BY <1>1, <2>1 DEF Insert, TypeOK
  <2> QED
    BY <2>2 DEF IsAdmin, Active
<1>2. CASE UNCHANGED storeVars
  BY <1>2 DEF storeVars, IsAdmin, Active
<1>3. ASSUME NEW b \in Browsers,
             Login(b) \/ Logout(b) \/ BeginCreate(b) \/ BeginUpdate(b)
               \/ BeginCommand(b) \/ Stamp(b) \/ Count(b)
      PROVE  UNCHANGED storeVars
  BY <1>3 DEF Login, Logout, BeginCreate, BeginUpdate, BeginCommand, Begin, Stamp, Count
<1>4. ASSUME Tick \/ AgentRestarts \/ DashboardRestarts \/ UNCHANGED vars
      PROVE  UNCHANGED storeVars
  BY <1>4 DEF Tick, AgentRestarts, DashboardRestarts, vars
<1> QED
  BY <1>1, <1>2, <1>3, <1>4 DEF Next

-----------------------------------------------------------------------------
(* The window. *)

\* A command that comes to the lock keeps the memory, and the bound for each window.
LEMMA CountKeepsBound ==
  ASSUME TypeOK, Remembered, RateIsBounded, NEW b \in Browsers, Count(b)
  PROVE  Remembered' /\ RateIsBounded'
<1> DEFINE h == req[b]
           recent == Recent(h.at)
           passes == Cardinality(recent) < MaxHits
<1> USE AccessAssumption
<1>1. h \in Hit /\ h.at \in 0..MaxNow
  BY DEF Count, TypeOK, Hit
<1>2. /\ hits' = recent \cup (IF passes THEN {h} ELSE {})
      /\ accepted' = accepted \cup (IF passes THEN {h} ELSE {})
      /\ latest' = IF h.at > latest THEN h.at ELSE latest
      /\ overtaken' = (overtaken \/ h.at < latest)
  BY DEF Count
<1>3. latest \in 0..MaxNow /\ \A g \in accepted : g.at \in 0..MaxNow
  BY DEF TypeOK, Hit
<1>4. recent \subseteq hits /\ \A g \in hits : h.at < g.at + Window => g \in recent
  BY DEF Recent
<1>5. IsFiniteSet(recent) /\ Cardinality(recent) \in Nat
  <2>1. IsFiniteSet(recent)
    BY <1>4, FS_Subset DEF Remembered
  <2> QED
    BY <2>1, FS_CardinalityType
<1> HIDE DEF h, recent
<1>6. IsFiniteSet(recent \cup {h}) /\ Cardinality(recent \cup {h}) <= Cardinality(recent) + 1
  <2>1. /\ IsFiniteSet(recent \cup {h})
        /\ Cardinality(recent \cup {h}) = IF h \in recent THEN Cardinality(recent) ELSE Cardinality(recent) + 1
    BY <1>5, FS_AddElement
  <2> QED
    BY <2>1, <1>5
<1>7. IsFiniteSet(accepted \cup {h})
  BY FS_AddElement DEF Remembered
<1>8. IsFiniteSet(hits') /\ IsFiniteSet(accepted')
  <2>1. CASE passes
    <3>1. hits' = recent \cup {h} /\ accepted' = accepted \cup {h}
      BY <1>2, <2>1
    <3> QED
      BY <3>1, <1>6, <1>7
  <2>2. CASE ~passes
    <3>1. hits' = recent /\ accepted' = accepted
      BY <1>2, <2>2
    <3> QED
      BY <3>1, <1>5 DEF Remembered
  <2> QED
    BY <2>1, <2>2
<1>9. hits' \subseteq accepted'
  BY <1>2, <1>4 DEF Remembered
<1>10. latest <= latest' /\ h.at <= latest' /\ latest' \in 0..MaxNow
  BY <1>1, <1>2, <1>3
<1>11. \A g \in accepted' : g.at <= latest'
  BY <1>1, <1>2, <1>3, <1>10 DEF Remembered
<1>12. ASSUME ~overtaken' PROVE ~overtaken /\ latest <= h.at /\ latest' = h.at
  <2>1. ~overtaken /\ ~(h.at < latest)
    BY Zenon, <1>12, <1>2
  <2>2. latest <= h.at
    BY <2>1, <1>1, <1>3
  <2>3. latest' = h.at
    BY <2>2, <1>1, <1>2, <1>3
  <2> QED
    BY <2>1, <2>2, <2>3
<1>13. ASSUME ~overtaken', NEW g \in accepted, h.at < g.at + Window PROVE g \in recent
  <2>1. latest < g.at + Window
    BY <1>1, <1>3, <1>12, <1>13
  <2>2. g \in hits
    BY <2>1, <1>12, <1>13 DEF Remembered
  <2> QED
    BY <2>2, <1>4, <1>13
<1>14. ASSUME ~overtaken' PROVE \A g \in accepted' : latest' < g.at + Window => g \in hits'
  BY <1>2, <1>12, <1>13, <1>14
<1>15. Remembered'
  BY <1>8, <1>9, <1>11, <1>14 DEF Remembered
<1>16. ASSUME ~overtaken', NEW w \in 0..MaxNow PROVE Cardinality(PassedFrom(w)') <= MaxHits
  <2>1. ~overtaken /\ Cardinality(PassedFrom(w)) <= MaxHits
    BY <1>12, <1>16 DEF RateIsBounded
  <2>2. CASE ~passes \/ ~(w <= h.at /\ h.at < w + Window)
    <3>1. PassedFrom(w)' = PassedFrom(w)
      BY <2>2, <1>2 DEF PassedFrom
    <3> QED
      BY <2>1, <3>1
  <2>3. CASE passes /\ w <= h.at /\ h.at < w + Window
    <3>1. \A g \in accepted : w <= g.at => h.at < g.at + Window
      BY <2>3, <1>1, <1>3, <1>16
    <3>2. PassedFrom(w)' \subseteq recent \cup {h}
      BY <3>1, <1>2, <1>13, <1>16 DEF PassedFrom
    <3>3. Cardinality(PassedFrom(w)') <= Cardinality(recent \cup {h})
      BY <3>2, <1>6, FS_Subset
    <3>4. IsFiniteSet(PassedFrom(w)')
      BY <3>2, <1>6, FS_Subset
    <3>5. Cardinality(PassedFrom(w)') \in Nat /\ Cardinality(recent \cup {h}) \in Nat
      BY <3>4, <1>6, FS_CardinalityType
    <3> QED
      BY <3>3, <3>5, <2>3, <1>5, <1>6
  <2> QED
    BY <2>2, <2>3
<1> QED
  BY <1>15, <1>16 DEF RateIsBounded

\* Every step keeps the memory and the bound.
LEMMA BoundStep ==
  ASSUME TypeOK, Remembered, RateIsBounded, [Next]_vars
  PROVE  Remembered' /\ RateIsBounded'
<1>1. CASE UNCHANGED agentVars
  BY <1>1 DEF agentVars, Remembered, RateIsBounded, PassedFrom
<1>2. ASSUME NEW b \in Browsers, Count(b) PROVE Remembered' /\ RateIsBounded'
  BY <1>2, CountKeepsBound
<1>3. CASE AgentRestarts
  <2>1. hits' = {} /\ accepted' = {}
    BY <1>3 DEF AgentRestarts
  <2>2. \A w \in 0..MaxNow : PassedFrom(w)' = {}
    BY <2>1 DEF PassedFrom
  <2>3. IsFiniteSet({}) /\ Cardinality({}) = 0
    BY FS_EmptySet
  <2>4. Remembered'
    BY <2>1, <2>3 DEF Remembered
  <2>5. RateIsBounded'
    BY <2>2, <2>3, AccessAssumption DEF RateIsBounded
  <2> QED
    BY <2>4, <2>5
<1>4. ASSUME NEW b \in Browsers,
             Login(b) \/ Logout(b) \/ BeginCreate(b) \/ Insert(b) \/ BeginUpdate(b)
               \/ Update(b) \/ BeginCommand(b) \/ Stamp(b)
      PROVE  UNCHANGED agentVars
  BY <1>4 DEF Login, Logout, BeginCreate, Insert, BeginUpdate, Update, BeginCommand, Begin, Stamp
<1>5. ASSUME Tick \/ DashboardRestarts \/ UNCHANGED vars
      PROVE  UNCHANGED agentVars
  BY <1>5 DEF Tick, DashboardRestarts, vars
<1> QED
  BY <1>1, <1>2, <1>3, <1>4, <1>5 DEF Next

-----------------------------------------------------------------------------
\* At the start there is one administrator, and nobody has asked for anything.
LEMMA InitHolds == Init => TypeOK /\ Asked /\ AdminsRemain /\ Remembered /\ RateIsBounded
<1> SUFFICES ASSUME Init PROVE TypeOK /\ Asked /\ AdminsRemain /\ Remembered /\ RateIsBounded
  OBVIOUS
<1> USE AccessAssumption
<1>1. RequestsTyped
  BY DEF Init, RequestsTyped, Steps, Carried
<1>2. StoreTyped
  <2>1. [role |-> "admin", active |-> TRUE] \in Account
    BY DEF Account, Roles
  <2>2. users \in [Users -> Account \cup {None}]
    BY <2>1 DEF Init
  <2>3. session \in [Browsers -> Session \cup {None}] /\ slipped \in BOOLEAN
    BY DEF Init
  <2> QED
    BY <2>2, <2>3 DEF StoreTyped
<1>3. AgentTyped
  <2>1. overtaken \in BOOLEAN
    BY DEF Init
  <2>2. hits \subseteq Hit /\ accepted \subseteq Hit
    BY DEF Init
  <2>3. now \in 0..MaxNow /\ latest \in 0..MaxNow /\ commands \in 0..MaxCommands
    BY DEF Init
  <2> QED
    BY <2>1, <2>2, <2>3 DEF AgentTyped
<1>4. TypeOK
  BY <1>1, <1>2, <1>3, TypeParts
<1>5. Asked
  BY DEF Init, Asked
<1>6. AdminsRemain
  <2>1. users[Bootstrap] = [role |-> "admin", active |-> TRUE]
    BY DEF Init
  <2>2. users[Bootstrap] \in Account
    BY <2>1 DEF Account, Roles
  <2>3. users[Bootstrap] # None
    BY <2>2
  <2>4. IsAdmin(Bootstrap)
    BY <2>1, <2>3 DEF IsAdmin, Active
  <2> QED
    BY <2>4 DEF AdminsRemain
<1>7. hits = {} /\ accepted = {} /\ IsFiniteSet({}) /\ Cardinality({}) = 0
  BY FS_EmptySet DEF Init
<1>8. Remembered
  BY <1>7 DEF Remembered
<1>9. \A w \in 0..MaxNow : PassedFrom(w) = {}
  BY <1>7 DEF PassedFrom
<1>10. RateIsBounded
  BY <1>7, <1>9 DEF RateIsBounded
<1> QED
  BY <1>4, <1>5, <1>6, <1>8, <1>10

\* Every variable keeps its type, for any accounts, browsers, window and maximum.
THEOREM TypeCorrect == Spec => []TypeOK
<1>1. Init => TypeOK
  BY InitHolds
<1>2. TypeOK /\ [Next]_vars => TypeOK'
  BY TypeStep
<1> QED
  BY <1>1, <1>2, PTL DEF Spec

\* check_rate_limit() lets no more than the maximum pass in any window of its length,
\* as long as the stamps come to the lock in their order.
THEOREM RateBounded == Spec => []RateIsBounded
<1>1. Init => RateInv
  BY InitHolds DEF RateInv
<1>2. RateInv /\ [Next]_vars => RateInv'
  BY TypeStep, BoundStep DEF RateInv
<1>3. RateInv => RateIsBounded
  BY DEF RateInv
<1> QED
  BY <1>1, <1>2, <1>3, PTL DEF Spec

\* update_user() leaves an administrator who can log in, whatever administrators do
\* to each other, unless an update crosses the loss of its sender's rights or takes
\* its own with the number 0, which the comparison with False lets pass.
THEOREM AdministratorLeft == Spec => []AdminsRemain
<1>1. Init => AccountsInv
  BY InitHolds DEF AccountsInv
<1>2. AccountsInv /\ [Next]_vars => AccountsInv'
  <2> SUFFICES ASSUME AccountsInv, [Next]_vars PROVE AccountsInv'
    OBVIOUS
  <2>1. TypeOK /\ Asked /\ AdminsRemain
    BY DEF AccountsInv
  <2>2. TypeOK' /\ Asked'
    BY <2>1, TypeStep, AskedStep
  <2>3. AdminsRemain'
    <3>1. ASSUME NEW b \in Browsers, Update(b), ~slipped' PROVE \E u \in Users : IsAdmin(u)'
      BY <2>1, <3>1, SenderStays
    <3>2. ASSUME \A b \in Browsers : ~Update(b), ~slipped PROVE \E u \in Users : IsAdmin(u)'
      <4>1. PICK u \in Users : IsAdmin(u)
        BY <2>1, <3>2 DEF AdminsRemain
      <4> QED
        BY <2>1, <3>2, <4>1, AdminFrame
    <3>3. ~slipped' => ~slipped
      <4>1. ASSUME NEW b \in Browsers, Insert(b) PROVE slipped' = slipped
        BY <4>1 DEF Insert
      <4>2. ASSUME NEW b \in Browsers, Update(b) PROVE ~slipped' => ~slipped
        BY <4>2 DEF Update
      <4>3. ASSUME NEW b \in Browsers,
                   Login(b) \/ Logout(b) \/ BeginCreate(b) \/ BeginUpdate(b)
                     \/ BeginCommand(b) \/ Stamp(b) \/ Count(b)
            PROVE  slipped' = slipped
        BY <4>3 DEF Login, Logout, BeginCreate, BeginUpdate, BeginCommand, Begin, Stamp, Count, storeVars
      <4>4. ASSUME Tick \/ AgentRestarts \/ DashboardRestarts \/ UNCHANGED vars
            PROVE  slipped' = slipped
        BY <4>4 DEF Tick, AgentRestarts, DashboardRestarts, vars, storeVars
      <4> QED
        BY <4>1, <4>2, <4>3, <4>4 DEF Next
    <3> QED
      BY <3>1, <3>2, <3>3 DEF AdminsRemain
  <2> QED
    BY <2>2, <2>3 DEF AccountsInv
<1>3. AccountsInv => AdminsRemain
  BY DEF AccountsInv
<1> QED
  BY <1>1, <1>2, <1>3, PTL DEF Spec
=============================================================================
