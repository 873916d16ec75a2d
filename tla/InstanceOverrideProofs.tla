------------------------ MODULE InstanceOverrideProofs ------------------------
(***************************************************************************)
(* Proofs about InstanceOverride, for any admins, editions, settings and   *)
(* values, any adapters that keep what ConstantsAssumption says of them,   *)
(* and any .env that the instance boots from as it comes, whatever other   *)
(* games make of it.                                                       *)
(***************************************************************************)
EXTENDS InstanceOverride, TLAPS

\* A universal setting never has a value that validate() refuses.
UniversalOK(file) == \A k \in Universal : file.settings[k] \in Maybe(Allowed[k])

\* The gameplay settings are right for the game that is installed, whether or not
\* the rest of .env is.
GameplayOK(file) ==
  \A k \in Gameplay :
    Effective(file).settings[k] \in Maybe(Accepts[Effective(file).edition][k])

\* What a request is about to write is right for the edition it began with or,
\* in a change of game, for the new one.
Saves(a)    == updates[a].edition = None
Upgrades(a) == updates[a].edition = was[a]

UpdatesInv(a) ==
  /\ pc[a] \in {"idle", "save", "install"} => updates[a] = Empty
  /\ pc[a] # "idle" => was[a] \in Editions
  /\ pc[a] \in {"strip_read", "strip"} => Reprovisions(a)
  /\ pc[a] \in {"merge", "replace"} /\ Saves(a) =>
       \A k \in Gameplay : updates[a].settings[k] \in Maybe(Accepts[was[a]][k])
  /\ pc[a] \in {"merge", "replace"} /\ Upgrades(a) =>
       \A k \in Settings : updates[a].settings[k] = None
  /\ Reprovisions(a) =>
       \A k \in Gameplay : updates[a].settings[k] = Defaults[updates[a].edition][k]

\* A request that is not stale knows the instance, and is about to
\* write what is there with its own values on top.
FreshInv(a) ==
  pc[a] # "idle" /\ a \notin stale =>
    /\ was[a] = Effective(override).edition
    /\ pc[a] = "strip" => copy[a] = Strip(override)
    /\ pc[a] = "replace" => copy[a] = Merge(override, updates[a])

\* What a change of game writes holds its defaults, overtaken or not.
ReplaceInv(a) ==
  pc[a] = "replace" /\ Reprovisions(a) =>
    /\ copy[a].edition = updates[a].edition
    /\ \A k \in Gameplay : Defaults[updates[a].edition][k] # None =>
         copy[a].settings[k] = Defaults[updates[a].edition][k]

\* The inductive invariant: BootsUnlessCrossed alone says nothing of the values
\* that are on their way into the file, nor of the settings of a game that is
\* refused for another reason.
IInv ==
  /\ TypeOK
  /\ UniversalOK(override)
  /\ \A a \in Admins : UniversalOK(updates[a]) /\ UniversalOK(copy[a])
  /\ \A a \in Admins : UpdatesInv(a) /\ FreshInv(a) /\ ReplaceInv(a)
  /\ ~crossed /\ ~halfway => GameplayOK(override)

USE ConstantsAssumption

-----------------------------------------------------------------------------
(* The operators on files. *)

LEMMA EmptyType == Empty \in Override /\ UniversalOK(Empty)
BY DEF Empty, Override, UniversalOK, Maybe, Settings

LEMMA FieldTypes ==
  ASSUME NEW f \in Override, NEW v \in [Settings -> Maybe(Values)]
  PROVE  [f EXCEPT !.settings = v] \in Override
BY DEF Override

LEMMA IdentityType ==
  ASSUME NEW e \in Editions, NEW c \in Channels
  PROVE  /\ Identity(e, c) \in Override /\ Identity(e, c).edition = e
         /\ Identity(e, c).settings = Empty.settings
BY DEF Identity, Empty, Override, Maybe

LEMMA ProvisionType ==
  ASSUME NEW e \in Editions, NEW c \in Channels
  PROVE  /\ Provision(e, c) \in Override /\ Provision(e, c).edition = e
         /\ \A k \in Gameplay : Provision(e, c).settings[k] = Defaults[e][k]
         /\ \A k \in Universal : Provision(e, c).settings[k] = None
<1>1. [k \in Settings |-> IF k \in Gameplay THEN Defaults[e][k] ELSE None]
        \in [Settings -> Maybe(Values)]
  BY DEF Maybe, Settings
<1>2. QED
  BY <1>1, IdentityType DEF Provision, Identity, Empty, Override, Maybe, Settings

LEMMA MergeType ==
  ASSUME NEW f \in Override, NEW g \in Override
  PROVE  /\ Merge(f, g) \in Override
         /\ UniversalOK(f) /\ UniversalOK(g) => UniversalOK(Merge(f, g))
BY DEF Merge, Or, Override, UniversalOK, Maybe, Settings

LEMMA StripType ==
  ASSUME NEW f \in Override
  PROVE  /\ Strip(f) \in Override /\ Strip(f).edition = f.edition
         /\ UniversalOK(f) => UniversalOK(Strip(f))
BY DEF Strip, Override, UniversalOK, Maybe, Settings

LEMMA BaseOK == Base \in Override /\ UniversalOK(Base)
BY DEF Override, UniversalOK, Maybe, Settings

LEMMA EffectiveType ==
  ASSUME NEW f \in Override
  PROVE  /\ Effective(f) \in Override /\ Effective(f).edition \in Editions
         /\ UniversalOK(f) => UniversalOK(Effective(f))
<1>1. Effective(f).edition \in Editions
  BY DEF Effective, Merge, Or, Override, Maybe
<1>2. QED
  BY <1>1, BaseOK, MergeType DEF Effective

\* From a file with settings that are right the container boots, if no more is
\* wrong with what is installed.
LEMMA SettingsBoot ==
  ASSUME NEW f \in Override, UniversalOK(f), GameplayOK(f), Suits(Effective(f))
  PROVE  Boots(f)
BY EffectiveType DEF Boots, Contract, Extra, Suits, UniversalOK, GameplayOK

\* Values an edition takes, on top of a file with settings that are right, leave
\* such a file.
LEMMA MergeSuits ==
  ASSUME NEW f \in Override, NEW u \in Override, GameplayOK(f),
         u.edition \in {None, Effective(f).edition},
         \A k \in Gameplay : u.settings[k] \in Maybe(Accepts[Effective(f).edition][k])
  PROVE  GameplayOK(Merge(f, u))
<1>1. Effective(Merge(f, u)).edition = Effective(f).edition
  BY DEF Effective, Merge, Or, Override, Maybe
<1>2. ASSUME NEW k \in Gameplay
      PROVE  Effective(Merge(f, u)).settings[k] \in {u.settings[k], Effective(f).settings[k]}
  BY DEF Effective, Merge, Or, Override, Maybe, Settings
<1>3. QED
  BY <1>1, <1>2 DEF GameplayOK

\* So do the defaults of an edition, on top of any values of settings they leave out.
LEMMA DefaultsSuit ==
  ASSUME NEW f \in Override, f.edition \in Editions,
         \A k \in Gameplay : Defaults[f.edition][k] # None =>
           f.settings[k] = Defaults[f.edition][k]
  PROVE  GameplayOK(f)
<1>1. Effective(f).edition = f.edition
  BY DEF Effective, Merge, Or
<1>2. ASSUME NEW k \in Gameplay
      PROVE  Effective(f).settings[k] \in Maybe(Accepts[f.edition][k])
  <2>1. Effective(f).settings[k] = Or(f.settings[k], Base.settings[k])
    BY DEF Effective, Merge, Settings
  <2>2. CASE Defaults[f.edition][k] = None
    <3>1. Accepts[f.edition][k] = Values
      BY <2>2
    <3>2. f.settings[k] \in Maybe(Values) /\ Base.settings[k] \in Maybe(Values)
      BY DEF Override, Settings
    <3>3. QED
      BY <2>1, <3>1, <3>2 DEF Or
  <2>3. CASE Defaults[f.edition][k] # None
    BY <2>1, <2>3 DEF Or, Maybe
  <2>4. QED
    BY <2>2, <2>3
<1>3. QED
  BY <1>1, <1>2 DEF GameplayOK

-----------------------------------------------------------------------------
LEMMA InitInv == Init => IInv
<1> SUFFICES ASSUME Init PROVE IInv
  OBVIOUS
<1>1. TypeOK
  <2>1. updates \in [Admins -> Override] /\ copy \in [Admins -> Override]
    BY EmptyType DEF Init
  <2>2. was \in [Admins -> Maybe(Editions)] /\ pc \in [Admins -> Stages]
    BY DEF Init, Maybe, Stages
  <2>3. requests \in 0 .. MaxRequests /\ faults \in 0 .. MaxFaults
    BY DEF Init
  <2>4. stale \in SUBSET Admins /\ crossed \in BOOLEAN /\ halfway \in BOOLEAN
    BY DEF Init
  <2>5. override \in Override /\ booted \in Maybe(Editions)
    BY EmptyType DEF Init, Maybe
  <2>6. QED
    BY <2>1, <2>2, <2>3, <2>4, <2>5 DEF TypeOK
<1>2. Effective(override).edition = Base.edition
      /\ \A k \in Settings : Effective(override).settings[k] = Base.settings[k]
  BY DEF Init, Effective, Merge, Or, Empty
<1>3. GameplayOK(override)
  BY <1>2 DEF GameplayOK, Settings
<1>4. \A a \in Admins : UpdatesInv(a) /\ FreshInv(a) /\ ReplaceInv(a)
  BY DEF Init, UpdatesInv, FreshInv, ReplaceInv, Reprovisions, Saves, Upgrades, Empty
<1>5. QED
  BY <1>1, <1>3, <1>4, EmptyType DEF Init, IInv

-----------------------------------------------------------------------------
(* The steps, request by request. *)

\* A step of a request that does not touch the file leaves to prove what it does
\* to that request.
LEMMA LocalStep ==
  ASSUME IInv, TypeOK', NEW a \in Admins,
         UNCHANGED <<override, booted>>, crossed' = crossed, halfway' = halfway,
         stale \ {a} \subseteq stale',
         \A b \in Admins \ {a} : /\ pc'[b] = pc[b] /\ was'[b] = was[b]
                                 /\ updates'[b] = updates[b] /\ copy'[b] = copy[b],
         UniversalOK(updates'[a]), UniversalOK(copy'[a]),
         UpdatesInv(a)', FreshInv(a)', ReplaceInv(a)'
  PROVE  IInv'
<1>1. UniversalOK(override)' /\ (~crossed' /\ ~halfway' => GameplayOK(override)')
  BY DEF IInv, UniversalOK, GameplayOK, Effective
<1>2. ASSUME NEW b \in Admins
      PROVE  UniversalOK(updates[b])' /\ UniversalOK(copy[b])'
  BY DEF IInv, UniversalOK
<1>3. ASSUME NEW b \in Admins
      PROVE  UpdatesInv(b)' /\ FreshInv(b)' /\ ReplaceInv(b)'
  <2>1. CASE b = a
    BY <2>1
  <2>2. CASE b # a
    <3>1. UpdatesInv(b) /\ FreshInv(b) /\ ReplaceInv(b)
      BY DEF IInv
    <3>2. UpdatesInv(b)'
      BY <2>2, <3>1 DEF UpdatesInv, Saves, Upgrades, Reprovisions
    <3>3. FreshInv(b)'
      BY <2>2, <3>1 DEF FreshInv
    <3>4. ReplaceInv(b)'
      BY <2>2, <3>1 DEF ReplaceInv, Reprovisions
    <3>5. QED
      BY <3>2, <3>3, <3>4
  <2>3. QED
    BY <2>1, <2>2
<1>4. QED
  BY <1>1, <1>2, <1>3 DEF IInv

\* The end of a request without a write.
LEMMA EndStep ==
  ASSUME IInv, TypeOK', NEW a \in Admins, End(a), pc' = [pc EXCEPT ![a] = "idle"],
         UNCHANGED <<override, booted, history>>
  PROVE  IInv'
<1>1. updates'[a] = Empty /\ copy'[a] = Empty /\ pc'[a] = "idle" /\ was'[a] = None
  BY DEF IInv, TypeOK, End
<1>2. UpdatesInv(a)' /\ FreshInv(a)' /\ ReplaceInv(a)'
  BY <1>1 DEF UpdatesInv, FreshInv, ReplaceInv, Reprovisions, Empty
<1>3. QED
  BY <1>1, <1>2, LocalStep, EmptyType DEF IInv, TypeOK, End, history
\* Type correctness, by itself inductive.
LEMMA TypeStep == TypeOK /\ [Next]_vars => TypeOK'
<1> SUFFICES ASSUME TypeOK, [Next]_vars PROVE TypeOK'
  OBVIOUS
<1> USE EmptyType
<1>1. ASSUME NEW a \in Admins, NEW s \in {"save", "install"}, Begin(a, s) PROVE TypeOK'
  <2>1. Current \in Maybe(Editions)
    BY EffectiveType DEF TypeOK, Current, Maybe
  <2>2. was' \in [Admins -> Maybe(Editions)] /\ pc' \in [Admins -> Stages]
    BY <1>1, <2>1 DEF TypeOK, Begin, Goto, Maybe, Stages
  <2>3. requests' \in 0 .. MaxRequests
    BY <1>1 DEF TypeOK, Begin
  <2>4. stale' \in SUBSET Admins
    BY <1>1 DEF TypeOK, Begin
  <2>5. QED
    BY <1>1, <2>2, <2>3, <2>4 DEF TypeOK, Begin
<1>2. ASSUME NEW a \in Admins, Validate(a) PROVE TypeOK'
  <2>1. updates' \in [Admins -> Override]
    <3>1. PICK new \in [Editable[was[a]] -> Maybe(Values)] :
            updates' = [updates EXCEPT ![a].settings =
                          [k \in Settings |-> IF k \in DOMAIN new THEN new[k] ELSE None]]
      BY <1>2 DEF Validate
    <3>2. [k \in Settings |-> IF k \in DOMAIN new THEN new[k] ELSE None]
            \in [Settings -> Maybe(Values)]
      BY DEF Maybe
    <3>3. updates[a] \in Override
      BY DEF TypeOK
    <3>4. ASSUME NEW f \in [Settings -> Maybe(Values)]
          PROVE  [updates EXCEPT ![a].settings = f] \in [Admins -> Override]
      BY <3>3, FieldTypes DEF TypeOK
    <3>5. QED
      BY <3>1, <3>2, <3>4
  <2>2. QED
    BY <1>2, <2>1 DEF TypeOK, Validate, Goto, Stages, bounds, history
<1>3. ASSUME NEW a \in Admins, Installed(a) PROVE TypeOK'
  <2>3. updates' \in [Admins -> Override]
    <3>1. ASSUME NEW x \in Override
          PROVE  [updates EXCEPT ![a] = x] \in [Admins -> Override]
      BY DEF TypeOK
    <3>2. PICK goal \in Editions, channel \in Channels :
            \/ updates' = [updates EXCEPT ![a] = Identity(goal, channel)]
            \/ updates' = [updates EXCEPT ![a] = Provision(goal, channel)]
      BY <1>3 DEF Installed
    <3>3. Identity(goal, channel) \in Override /\ Provision(goal, channel) \in Override
      BY IdentityType, ProvisionType
    <3>4. CASE updates' = [updates EXCEPT ![a] = Identity(goal, channel)]
      BY <3>1, <3>3, <3>4
    <3>5. CASE updates' = [updates EXCEPT ![a] = Provision(goal, channel)]
      BY <3>1, <3>3, <3>5
    <3>6. QED
      BY <3>2, <3>4, <3>5
  <2>4. pc' \in [Admins -> Stages]
    BY <1>3 DEF TypeOK, Installed, Goto, Stages
  <2>5. QED
    BY <1>3, <2>3, <2>4 DEF TypeOK, Installed, bounds, history
<1>4. ASSUME NEW a \in Admins, Refuse(a) \/ InstallFails(a) \/ WriteFails(a) PROVE TypeOK'
  <2>1. /\ was' \in [Admins -> Maybe(Editions)]
        /\ updates' \in [Admins -> Override] /\ copy' \in [Admins -> Override]
    <3>1. End(a)
      BY <1>4 DEF Refuse, InstallFails, WriteFails
    <3>2. QED
      BY <3>1 DEF TypeOK, End, Maybe
  <2>2. pc' \in [Admins -> Stages]
    BY <1>4 DEF TypeOK, Refuse, InstallFails, WriteFails, Goto, Stages
  <2>3. requests' \in 0 .. MaxRequests /\ faults' \in 0 .. MaxFaults
    BY <1>4 DEF TypeOK, Refuse, InstallFails, WriteFails, Fault, bounds
  <2>4. QED
    BY <1>4, <2>1, <2>2, <2>3 DEF TypeOK, Refuse, InstallFails, WriteFails, history
<1>5. ASSUME NEW a \in Admins, StripRead(a) PROVE TypeOK'
  <2>1. copy' \in [Admins -> Override]
    BY <1>5, StripType DEF TypeOK, StripRead
  <2>2. QED
    BY <1>5, <2>1 DEF TypeOK, StripRead, Goto, Stages, bounds, history
<1>6. ASSUME NEW a \in Admins, StripWrite(a) PROVE TypeOK'
  <2>1. override' \in Override /\ stale' \in SUBSET Admins /\ crossed' \in BOOLEAN
    BY <1>6 DEF TypeOK, StripWrite, Write
  <2>2. QED
    BY <1>6, <2>1 DEF TypeOK, StripWrite, Write, Goto, Stages, bounds, locals
<1>7. ASSUME NEW a \in Admins, MergeRead(a) PROVE TypeOK'
  <2>1. copy' \in [Admins -> Override]
    BY <1>7, MergeType DEF TypeOK, MergeRead
  <2>2. QED
    BY <1>7, <2>1 DEF TypeOK, MergeRead, Goto, Stages, bounds, history
<1>8. ASSUME NEW a \in Admins, Replace(a) PROVE TypeOK'
  <2>1. override' \in Override /\ stale' \in SUBSET Admins /\ crossed' \in BOOLEAN
    BY <1>8 DEF TypeOK, Replace, Write
  <2>2. halfway' \in BOOLEAN
    BY <1>8 DEF TypeOK, Replace
  <2>3. /\ was' \in [Admins -> Maybe(Editions)]
        /\ updates' \in [Admins -> Override] /\ copy' \in [Admins -> Override]
    BY <1>8 DEF TypeOK, Replace, End, Maybe
  <2>4. QED
    BY <1>8, <2>1, <2>2, <2>3 DEF TypeOK, Replace, Write, Goto, Stages, bounds
<1>9. CASE DashboardRestarts
  <2>1. /\ was' \in [Admins -> Maybe(Editions)]
        /\ updates' \in [Admins -> Override] /\ copy' \in [Admins -> Override]
        /\ pc' \in [Admins -> Stages]
    BY <1>9 DEF DashboardRestarts, Maybe, Stages
  <2>2. requests' \in 0 .. MaxRequests /\ faults' \in 0 .. MaxFaults
    BY <1>9 DEF TypeOK, DashboardRestarts, Fault
  <2>3. booted' \in Maybe(Editions)
    BY <1>9, EffectiveType DEF TypeOK, DashboardRestarts, Maybe
  <2>4. QED
    BY <1>9, <2>1, <2>2, <2>3 DEF TypeOK, DashboardRestarts, history
<1>10. CASE UNCHANGED vars
  BY <1>10 DEF TypeOK, vars, locals, bounds, history
<1>11. QED
  BY <1>1, <1>2, <1>3, <1>4, <1>5, <1>6, <1>7, <1>8, <1>9, <1>10 DEF Next, Step
LEMMA BeginStep ==
  ASSUME IInv, TypeOK', NEW a \in Admins, NEW s \in {"save", "install"}, Begin(a, s)
  PROVE  IInv'
<1>1. /\ pc[a] = "idle" /\ pc'[a] = s /\ was'[a] = Current /\ booted # None
      /\ updates'[a] = Empty /\ copy'[a] = copy[a]
  BY DEF IInv, TypeOK, Begin, Goto, UpdatesInv
<1>2. was'[a] \in Editions
  BY <1>1, EffectiveType DEF IInv, TypeOK, Current, Maybe
<1>3. UpdatesInv(a)' /\ ReplaceInv(a)'
  BY <1>1, <1>2 DEF UpdatesInv, ReplaceInv, Reprovisions, Empty
<1>4. FreshInv(a)'
  <2>1. a \notin stale' => Current = Effective(override).edition
    BY DEF Begin
  <2>2. QED
    BY <1>1, <2>1 DEF FreshInv, Begin, Effective
<1>5. UniversalOK(updates'[a]) /\ UniversalOK(copy'[a])
  BY <1>1, EmptyType DEF IInv
<1>6. QED
  BY <1>3, <1>4, <1>5, LocalStep DEF IInv, TypeOK, Begin, Goto

LEMMA ValidateStep ==
  ASSUME IInv, TypeOK', NEW a \in Admins, Validate(a)
  PROVE  IInv'
<1>1. /\ pc[a] = "save" /\ pc'[a] = "merge" /\ updates[a] = Empty
      /\ was'[a] = was[a] /\ was[a] \in Editions /\ copy'[a] = copy[a]
  BY DEF IInv, TypeOK, Validate, Goto, UpdatesInv
<1>2. updates'[a].edition = None
  BY <1>1 DEF IInv, TypeOK, Validate, Empty
<1>3. \A k \in Gameplay : updates'[a].settings[k] \in Maybe(Accepts[was[a]][k])
  <2>1. ASSUME NEW k \in Gameplay
        PROVE  Or(updates'[a].settings[k], Effective(override).settings[k])
                 \in Maybe(Accepts[was[a]][k])
    BY DEF Validate, Extra, Merge, Settings
  <2>2. QED
    BY <2>1 DEF Or, Maybe
<1>4. UniversalOK(updates'[a])
  <2>1. ASSUME NEW k \in Universal
        PROVE  Or(updates'[a].settings[k], Effective(override).settings[k]) \in Maybe(Allowed[k])
    BY DEF Validate, Contract, Merge, Settings
  <2>2. QED
    BY <2>1 DEF UniversalOK, Or, Maybe
<1>5. UpdatesInv(a)' /\ ReplaceInv(a)'
  BY <1>1, <1>2, <1>3 DEF UpdatesInv, ReplaceInv, Reprovisions, Saves, Upgrades
<1>6. FreshInv(a)'
  BY <1>1 DEF IInv, FreshInv, Validate, history
<1>7. UniversalOK(copy'[a])
  BY <1>1 DEF IInv
<1>8. QED
  BY <1>4, <1>5, <1>6, <1>7, LocalStep DEF IInv, TypeOK, Validate, Goto, history

LEMMA InstalledStep ==
  ASSUME IInv, TypeOK', NEW a \in Admins, Installed(a)
  PROVE  IInv'
<1>1. /\ pc[a] = "install" /\ updates[a] = Empty /\ was[a] \in Editions
      /\ was'[a] = was[a] /\ copy'[a] = copy[a] /\ override' = override /\ stale' = stale
  BY DEF IInv, Installed, Goto, UpdatesInv, history
<1>2. PICK goal \in Editions, channel \in Channels :
        IF goal = was[a]
        THEN /\ Goto(a, "install", "merge")
             /\ updates' = [updates EXCEPT ![a] = Identity(goal, channel)]
        ELSE /\ Goto(a, "install", "strip_read")
             /\ updates' = [updates EXCEPT ![a] = Provision(goal, channel)]
  BY DEF Installed
<1>3. UniversalOK(updates'[a]) /\ UpdatesInv(a)'
  <2>1. CASE goal = was[a]
    <3>1. /\ updates'[a].edition = was[a] /\ pc'[a] = "merge"
          /\ \A k \in Settings : updates'[a].settings[k] = None
      <4>1. updates'[a] = Identity(goal, channel) /\ pc'[a] = "merge"
        BY <1>1, <1>2, <2>1 DEF IInv, TypeOK, Goto
      <4>2. QED
        BY <4>1, <2>1, IdentityType DEF Empty
    <3>2. QED
      BY <1>1, <3>1 DEF UniversalOK, UpdatesInv, Reprovisions, Saves, Upgrades, Settings, Maybe
  <2>2. CASE goal # was[a]
    <3>1. /\ updates'[a].edition = goal /\ pc'[a] = "strip_read"
          /\ \A k \in Gameplay : updates'[a].settings[k] = Defaults[goal][k]
          /\ \A k \in Universal : updates'[a].settings[k] = None
      <4>1. updates'[a] = Provision(goal, channel) /\ pc'[a] = "strip_read"
        BY <1>1, <1>2, <2>2 DEF IInv, TypeOK, Goto
      <4>2. QED
        BY <4>1, ProvisionType
    <3>2. QED
      BY <1>1, <2>2, <3>1 DEF UniversalOK, UpdatesInv, Reprovisions, Saves, Upgrades, Maybe
  <2>3. QED
    BY <2>1, <2>2
<1>4. pc'[a] \in {"merge", "strip_read"}
  BY <1>2 DEF IInv, TypeOK, Goto
<1>5. FreshInv(a)' /\ ReplaceInv(a)'
  BY <1>1, <1>4 DEF IInv, FreshInv, ReplaceInv
<1>6. UniversalOK(copy'[a])
  BY <1>1 DEF IInv
<1>7. \A b \in Admins \ {a} : pc'[b] = pc[b] /\ updates'[b] = updates[b]
  BY <1>2 DEF IInv, TypeOK, Goto
<1>8. QED
  BY <1>3, <1>5, <1>6, <1>7, LocalStep DEF IInv, TypeOK, Installed, history

LEMMA StripReadStep ==
  ASSUME IInv, TypeOK', NEW a \in Admins, StripRead(a)
  PROVE  IInv'
<1>1. /\ pc[a] = "strip_read" /\ pc'[a] \in {"strip", "merge"} /\ Reprovisions(a)
      /\ was'[a] = was[a] /\ updates'[a] = updates[a] /\ was[a] \in Editions
      /\ override' = override /\ stale' = stale
  BY DEF IInv, TypeOK, StripRead, Goto, UpdatesInv, history
<1>2. UniversalOK(copy'[a])
  BY StripType DEF IInv, TypeOK, StripRead
<1>3. UpdatesInv(a)' /\ ReplaceInv(a)'
  BY <1>1 DEF IInv, UpdatesInv, ReplaceInv, Reprovisions, Saves, Upgrades
<1>4. pc'[a] = "strip" => copy'[a] = Strip(override)
  BY DEF IInv, TypeOK, StripRead, Goto
<1>5. FreshInv(a)'
  BY <1>1, <1>4 DEF IInv, FreshInv
<1>6. UniversalOK(updates'[a])
  BY <1>1 DEF IInv
<1>7. \A b \in Admins \ {a} : pc'[b] = pc[b] /\ copy'[b] = copy[b]
  BY DEF IInv, TypeOK, StripRead, Goto
<1>8. QED
  BY <1>2, <1>3, <1>5, <1>6, <1>7, LocalStep DEF StripRead, history

LEMMA MergeReadStep ==
  ASSUME IInv, TypeOK', NEW a \in Admins, MergeRead(a)
  PROVE  IInv'
<1>1. /\ pc[a] = "merge" /\ pc'[a] = "replace" /\ copy'[a] = Merge(override, updates[a])
      /\ was'[a] = was[a] /\ updates'[a] = updates[a] /\ was[a] \in Editions
      /\ override' = override /\ stale' = stale
  BY DEF IInv, TypeOK, MergeRead, Goto, UpdatesInv, history
<1>2. UniversalOK(updates'[a]) /\ UniversalOK(copy'[a])
  BY <1>1, MergeType DEF IInv, TypeOK
<1>3. UpdatesInv(a)'
  BY <1>1 DEF IInv, UpdatesInv, Reprovisions, Saves, Upgrades
<1>4. FreshInv(a)'
  BY <1>1 DEF IInv, FreshInv
<1>5. ReplaceInv(a)'
  <2>1. ASSUME Reprovisions(a)
        PROVE  /\ copy'[a].edition = updates[a].edition
               /\ \A k \in Gameplay : Defaults[updates[a].edition][k] # None =>
                    copy'[a].settings[k] = Defaults[updates[a].edition][k]
    <3>1. \A k \in Gameplay : updates[a].settings[k] = Defaults[updates[a].edition][k]
      BY <2>1 DEF IInv, UpdatesInv
    <3>2. QED
      BY <1>1, <2>1, <3>1 DEF Merge, Or, Reprovisions, Settings
  <2>2. QED
    BY <1>1, <2>1 DEF ReplaceInv, Reprovisions
<1>6. \A b \in Admins \ {a} : pc'[b] = pc[b] /\ copy'[b] = copy[b]
  BY DEF IInv, TypeOK, MergeRead, Goto
<1>7. QED
  BY <1>2, <1>3, <1>4, <1>5, <1>6, LocalStep DEF MergeRead, history
\* What the write of a request means for the others: each of them has now been
\* overtaken.
LEMMA OthersOvertaken ==
  ASSUME IInv, TypeOK', NEW a \in Admins, Write(a), NEW b \in Admins \ {a},
         pc'[b] = pc[b], was'[b] = was[b], updates'[b] = updates[b], copy'[b] = copy[b]
  PROVE  /\ UniversalOK(updates[b])' /\ UniversalOK(copy[b])'
         /\ UpdatesInv(b)' /\ FreshInv(b)' /\ ReplaceInv(b)'
<1>1. UniversalOK(updates[b])' /\ UniversalOK(copy[b])'
  BY DEF IInv, UniversalOK
<1>2. UpdatesInv(b)'
  BY DEF IInv, UpdatesInv, Saves, Upgrades, Reprovisions
<1>3. FreshInv(b)'
  BY DEF FreshInv, Write
<1>4. ReplaceInv(b)'
  <2>1. ReplaceInv(b)
    BY DEF IInv
  <2>2. QED
    BY <2>1 DEF ReplaceInv, Reprovisions
<1>5. QED
  BY <1>1, <1>2, <1>3, <1>4

LEMMA StripWriteStep ==
  ASSUME IInv, TypeOK', NEW a \in Admins, StripWrite(a)
  PROVE  IInv'
<1>1. /\ pc[a] = "strip" /\ pc'[a] = "merge" /\ Reprovisions(a) /\ was[a] \in Editions
      /\ was' = was /\ updates' = updates /\ copy' = copy /\ override' = copy[a]
  BY DEF IInv, TypeOK, StripWrite, Write, Goto, UpdatesInv, locals
<1>2. UpdatesInv(a)' /\ ReplaceInv(a)'
  BY <1>1 DEF IInv, UpdatesInv, ReplaceInv, Reprovisions, Saves, Upgrades
<1>3. FreshInv(a)'
  <2>1. ASSUME a \notin stale PROVE was[a] = Effective(copy[a]).edition
    <3>1. copy[a] = Strip(override) /\ was[a] = Effective(override).edition
      BY <1>1, <2>1 DEF IInv, FreshInv
    <3>2. QED
      BY <3>1, StripType DEF IInv, TypeOK, Effective, Merge
  <2>2. QED
    BY <1>1, <2>1 DEF FreshInv, StripWrite, Write
<1>4. UniversalOK(updates[a])' /\ UniversalOK(copy[a])' /\ UniversalOK(override)'
  BY <1>1 DEF IInv
<1>5. \A b \in Admins : /\ UniversalOK(updates[b])' /\ UniversalOK(copy[b])'
                        /\ UpdatesInv(b)' /\ FreshInv(b)' /\ ReplaceInv(b)'
  <2>1. \A b \in Admins \ {a} : pc'[b] = pc[b]
    BY DEF IInv, TypeOK, StripWrite, Goto
  <2>2. QED
    BY <1>1, <1>2, <1>3, <1>4, <2>1, OthersOvertaken DEF StripWrite
<1>6. halfway'
  BY DEF StripWrite
<1>7. QED
  BY <1>4, <1>5, <1>6 DEF IInv

LEMMA ReplaceStep ==
  ASSUME IInv, TypeOK', NEW a \in Admins, Replace(a)
  PROVE  IInv'
<1>1. /\ pc[a] = "replace" /\ pc'[a] = "idle" /\ was[a] \in Editions
      /\ updates'[a] = Empty /\ copy'[a] = Empty /\ was'[a] = None /\ override' = copy[a]
  BY DEF IInv, TypeOK, Replace, Write, End, Goto, UpdatesInv
<1>2. UpdatesInv(a)' /\ FreshInv(a)' /\ ReplaceInv(a)'
  BY <1>1 DEF UpdatesInv, FreshInv, ReplaceInv, Reprovisions, Empty
<1>3. UniversalOK(updates[a])' /\ UniversalOK(copy[a])' /\ UniversalOK(override)'
  BY <1>1, EmptyType DEF IInv
<1>4. \A b \in Admins : /\ UniversalOK(updates[b])' /\ UniversalOK(copy[b])'
                        /\ UpdatesInv(b)' /\ FreshInv(b)' /\ ReplaceInv(b)'
  <2>1. \A b \in Admins \ {a} : /\ pc'[b] = pc[b] /\ was'[b] = was[b]
                                /\ updates'[b] = updates[b] /\ copy'[b] = copy[b]
    BY DEF IInv, TypeOK, Replace, End, Goto
  <2>2. QED
    BY <1>2, <1>3, <2>1, OthersOvertaken DEF Replace
<1>5. ASSUME ~crossed', ~halfway' PROVE GameplayOK(copy[a])
  <2>1. CASE Reprovisions(a)
    <3>1. /\ copy[a] \in Override /\ copy[a].edition = updates[a].edition
          /\ \A k \in Gameplay : Defaults[updates[a].edition][k] # None =>
               copy[a].settings[k] = Defaults[updates[a].edition][k]
      BY <1>1, <2>1 DEF IInv, TypeOK, ReplaceInv
    <3>2. updates[a].edition \in Editions
      BY <2>1 DEF IInv, TypeOK, Override, Maybe, Reprovisions
    <3>3. QED
      BY <3>1, <3>2, DefaultsSuit
  <2>2. CASE ~Reprovisions(a)
    <3>1. a \notin stale /\ GameplayOK(override)
      BY <1>5, <2>2 DEF IInv, Replace, Write
    <3>2. was[a] = Effective(override).edition /\ copy[a] = Merge(override, updates[a])
      BY <1>1, <3>1 DEF IInv, FreshInv
    <3>3. \A k \in Gameplay : updates[a].settings[k] \in Maybe(Accepts[was[a]][k])
      BY <1>1, <2>2 DEF IInv, UpdatesInv, Saves, Upgrades, Reprovisions, Maybe, Settings
    <3>4. updates[a].edition \in {None, was[a]}
      BY <2>2 DEF Reprovisions
    <3>5. QED
      BY <3>1, <3>2, <3>3, <3>4, MergeSuits DEF IInv, TypeOK
  <2>3. QED
    BY <2>1, <2>2
<1>6. ~crossed' /\ ~halfway' => GameplayOK(override)'
  BY <1>1, <1>5 DEF GameplayOK, Effective
<1>7. QED
  BY <1>3, <1>4, <1>6 DEF IInv

LEMMA RestartStep == ASSUME IInv, TypeOK', DashboardRestarts PROVE IInv'
<1>1. \A a \in Admins : /\ updates'[a] = Empty /\ copy'[a] = Empty
                        /\ was'[a] = None /\ pc'[a] = "idle"
  BY DEF DashboardRestarts
<1>2. \A a \in Admins : UpdatesInv(a)' /\ FreshInv(a)' /\ ReplaceInv(a)'
  BY <1>1 DEF UpdatesInv, FreshInv, ReplaceInv, Reprovisions, Empty
<1>3. \A a \in Admins : UniversalOK(updates[a])' /\ UniversalOK(copy[a])'
  BY <1>1, EmptyType
<1>4. UniversalOK(override)' /\ (~crossed' /\ ~halfway' => GameplayOK(override)')
  BY DEF IInv, DashboardRestarts, history, UniversalOK, GameplayOK, Effective
<1>5. QED
  BY <1>2, <1>3, <1>4 DEF IInv

LEMMA StepInv == IInv /\ [Next]_vars => IInv'
<1> SUFFICES ASSUME IInv, [Next]_vars PROVE IInv'
  OBVIOUS
<1>1. TypeOK'
  BY TypeStep DEF IInv
<1>2. ASSUME NEW a \in Admins, Step(a) PROVE IInv'
  <2>1. ASSUME Refuse(a) \/ InstallFails(a) \/ WriteFails(a) PROVE IInv'
    BY <1>1, <2>1, EndStep DEF Refuse, InstallFails, WriteFails, Goto
  <2>2. QED
    BY <1>1, <1>2, <2>1, BeginStep, ValidateStep, InstalledStep, StripReadStep, StripWriteStep,
       MergeReadStep, ReplaceStep DEF Step
<1>3. CASE UNCHANGED vars
  BY <1>3 DEF vars, locals, bounds, history, IInv, TypeOK, UniversalOK, UpdatesInv, FreshInv,
     ReplaceInv, Saves, Upgrades, Reprovisions, GameplayOK, Effective
<1>4. QED
  BY <1>1, <1>2, <1>3, RestartStep DEF Next

-----------------------------------------------------------------------------
\* What the file, the requests and the history hold is what they should.
THEOREM TypeCorrect == Spec => []TypeOK
<1>1. Init => TypeOK
  BY InitInv DEF IInv
<1>2. QED
  BY <1>1, TypeStep, PTL DEF Spec

THEOREM Invariance == Spec => []IInv
BY InitInv, StepInv, PTL DEF Spec

\* The game container boots from the file, unless one request has written over
\* another's changes or has taken the instance for the one the dashboard started
\* with, an install's channel or its game's demands on .env are refused, or a change
\* of game was cut off between its two writes.
THEOREM FileBoots == Spec => []BootsUnlessCrossed
<1>1. IInv => BootsUnlessCrossed
  BY SettingsBoot DEF IInv, TypeOK, BootsUnlessCrossed
<1>2. QED
  BY <1>1, Invariance, PTL

\* A write by a request that has not been overtaken.
LEMMA OwnStep ==
  ASSUME IInv, Next, NEW a \in Admins, a \notin stale,
         pc[a] \in {"strip", "replace"}, pc'[a] # pc[a]
  PROVE  ChangesOwn(a)
<1>1. CASE override' = override
  BY <1>1 DEF ChangesOwn
<1>2. CASE StripWrite(a)
  <2>1. override' = Strip(override) /\ Reprovisions(a)
    BY <1>2 DEF IInv, FreshInv, UpdatesInv, StripWrite, Write, Goto
  <2>2. \A k \in Settings \ Gameplay : override'.settings[k] = override.settings[k]
    BY <2>1 DEF Strip, IInv, TypeOK, Override
  <2>3. override'.edition = override.edition /\ override'.channel = override.channel
    BY <2>1 DEF Strip, IInv, TypeOK, Override
  <2>4. QED
    BY <2>1, <2>2, <2>3 DEF ChangesOwn
<1>3. CASE Replace(a)
  <2>1. override' = Merge(override, updates[a])
    BY <1>3 DEF IInv, FreshInv, Replace, Write, Goto
  <2>2. QED
    BY <2>1 DEF ChangesOwn, Merge, Or
<1>4. ASSUME NEW b \in Admins, b # a, Step(b) PROVE pc'[a] = pc[a]
  BY <1>4 DEF IInv, TypeOK, Step, Begin, Validate, Refuse, Installed, InstallFails, StripRead,
     StripWrite, MergeRead, Replace, WriteFails, Goto
<1>5. CASE Step(a)
  BY <1>1, <1>2, <1>3, <1>5 DEF Step, Begin, Validate, Refuse, Installed, InstallFails, StripRead,
     MergeRead, WriteFails, Goto
<1>6. CASE DashboardRestarts
  BY <1>1, <1>6 DEF DashboardRestarts
<1>7. QED
  BY <1>4, <1>5, <1>6 DEF Next

\* A request that has not been overtaken changes its own fields only.
THEOREM OwnFields == Spec => OwnFieldsOnly
<1>1. ASSUME IInv, [Next]_vars
      PROVE  [ \A a \in Admins : pc[a] \in {"strip", "replace"} /\ pc'[a] # pc[a] /\ a \notin stale =>
                 ChangesOwn(a) ]_vars
  BY <1>1, OwnStep
<1>2. QED
  BY <1>1, Invariance, PTL DEF Spec, OwnFieldsOnly
=============================================================================
