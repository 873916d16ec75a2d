--------------------------- MODULE InstanceOverride ---------------------------
(***************************************************************************)
(* instance_override.json: the file in which the dashboard keeps what the  *)
(* instance is (game, edition, software, ...) and its gameplay settings,   *)
(* and from which every boot of the game container takes them, on top of   *)
(* the process environment (config/instance_state.py).  The Settings tab   *)
(* (blueprints/settings.py) and the end of an install (blueprints/         *)
(* catalog.py) change it by reading, merging and replacing it; no lock is  *)
(* taken.  A replacement is one rename, so that nobody reads a part of it. *)
(*                                                                         *)
(* The keys of the identity are only ever written together, by installs;   *)
(* of them the game with its edition and the channel matter here.  A key   *)
(* that is not set is None.                                                *)
(***************************************************************************)
EXTENDS Naturals

CONSTANTS
  Admins,       \* gunicorn threads with a request
  Editions,     \* what an instance can be
  Channels,     \* what an install can be asked for
  Known,        \* those of _CHANNELS
  Gameplay,     \* the settings whose values depend on the edition
  Universal,    \* the others
  Values,       \* values of settings
  None,
  Editable,     \* _applicable_keys(): the settings an edition lets one change
  Accepts,      \* the values of gameplay settings that validate_extra() passes
  Allowed,      \* the values of the others that validate() passes
  Defaults,     \* default_gameplay_settings()
  Base,         \* the process environment: .env
  Permits,      \* editions with which validate() passes the rest of .env: RCON_PASSWORD
  Supports,     \* editions whose validate_extra() passes it: JAVA_VERSION
  MaxRequests,  \* bound on requests
  MaxFaults     \* bound on failed writes and restarts of the dashboard

Settings == Gameplay \cup Universal
Maybe(S) == S \cup {None}
Override == [edition : Maybe(Editions), channel : Maybe(Channels),
             settings : [Settings -> Maybe(Values)]]

\* An adapter has a default for each setting it checks.  The instance boots from
\* .env as it comes: what other editions make of it is left open.
ASSUME ConstantsAssumption ==
  /\ None \notin Editions /\ None \notin Channels /\ None \notin Values
  /\ Known \subseteq Channels /\ Permits \subseteq Editions /\ Supports \subseteq Editions
  /\ Gameplay \cap Universal = {}
  /\ MaxRequests \in Nat /\ MaxFaults \in Nat
  /\ Editable \in [Editions -> SUBSET Settings]
  /\ Accepts \in [Editions -> [Gameplay -> SUBSET Values]]
  /\ Allowed \in [Universal -> SUBSET Values]
  /\ Defaults \in [Editions -> [Gameplay -> Maybe(Values)]]
  /\ \A e \in Editions : \A k \in Gameplay :
       IF Defaults[e][k] = None THEN Accepts[e][k] = Values
                                ELSE Defaults[e][k] \in Accepts[e][k]
  /\ Base \in [edition : Permits \cap Supports, channel : Known,
               settings : [Settings -> Maybe(Values)]]
  /\ \A k \in Gameplay : Base.settings[k] \in Maybe(Accepts[Base.edition][k])
  /\ \A k \in Universal : Base.settings[k] \in Maybe(Allowed[k])

VARIABLES
  override,  \* the file
  booted,    \* _BOOT_INSTANCE: the edition the dashboard found as it started, if it did
  pc,        \* where each request is
  was,       \* g.config and g.adapter of each request
  updates,   \* the values it is to write
  copy,      \* what it is about to put in the place of the file
  requests, faults,
  stale,     \* history: requests that took the instance for another than it is, or
             \* since whose begin another one has written
  crossed,   \* history: one of those has then written
  halfway    \* history: a reprovision has removed the old settings and not
             \* written its own

locals  == <<was, updates, copy>>
bounds  == <<requests, faults>>
history == <<stale, crossed, halfway>>
vars == <<override, booted, pc, locals, bounds, history>>

Empty == [edition |-> None, channel |-> None, settings |-> [k \in Settings |-> None]]

Stages == {"idle", "save", "install", "strip_read", "strip", "merge", "replace"}

TypeOK ==
  /\ override \in Override /\ booted \in Maybe(Editions)
  /\ pc \in [Admins -> Stages]
  /\ was \in [Admins -> Maybe(Editions)]
  /\ updates \in [Admins -> Override]
  /\ copy \in [Admins -> Override]
  /\ requests \in 0 .. MaxRequests /\ faults \in 0 .. MaxFaults
  /\ stale \in SUBSET Admins /\ crossed \in BOOLEAN /\ halfway \in BOOLEAN

Init ==
  /\ override = Empty /\ booted = Base.edition
  /\ pc = [a \in Admins |-> "idle"] /\ was = [a \in Admins |-> None]
  /\ updates = [a \in Admins |-> Empty] /\ copy = [a \in Admins |-> Empty]
  /\ requests = 0 /\ faults = 0
  /\ stale = {} /\ crossed = FALSE /\ halfway = FALSE

-----------------------------------------------------------------------------
(* dict.update(), and what follows from the file. *)

Or(new, old) == IF new = None THEN old ELSE new

Merge(old, new) ==
  [edition |-> Or(new.edition, old.edition), channel |-> Or(new.channel, old.channel),
   settings |-> [k \in Settings |-> Or(new.settings[k], old.settings[k])]]

\* effective_environ()
Effective(file) == Merge(Base, file)

\* validate()
Contract(env) ==
  /\ env.edition \in Permits /\ env.channel \in Known
  /\ \A k \in Universal : env.settings[k] \in Maybe(Allowed[k])

\* validate_extra() of an edition's adapter.
Extra(env, edition) ==
  /\ edition \in Supports
  /\ \A k \in Gameplay : env.settings[k] \in Maybe(Accepts[edition][k])

\* entrypoint.sh and the agent will take this file.
Boots(file) == Contract(Effective(file)) /\ Extra(Effective(file), Effective(file).edition)

\* load_current_instance(): with a file that validate() refuses, what the
\* dashboard found as it started.
Current == IF Contract(Effective(override)) THEN Effective(override).edition ELSE booted

-----------------------------------------------------------------------------
Goto(a, from, to) == pc[a] = from /\ pc' = [pc EXCEPT ![a] = to]

Fault == faults < MaxFaults /\ faults' = faults + 1 /\ UNCHANGED requests

\* _refresh_instance_state(), before every request.
Begin(a, stage) ==
  /\ booted # None /\ Goto(a, "idle", stage)
  /\ requests < MaxRequests /\ requests' = requests + 1
  /\ was' = [was EXCEPT ![a] = Current]
  /\ stale' = IF Current = Effective(override).edition THEN stale \ {a} ELSE stale \cup {a}
  /\ UNCHANGED <<override, booted, updates, copy, faults, crossed, halfway>>

\* A request ends, and its locals with it.
End(a) ==
  /\ was' = [was EXCEPT ![a] = None]
  /\ updates' = [updates EXCEPT ![a] = Empty] /\ copy' = [copy EXCEPT ![a] = Empty]

-----------------------------------------------------------------------------
(* POST /api/settings *)

\* The proposed values, on top of the file as it is now, pass validate() and the
\* checks of the adapter the request began with.
Validate(a) ==
  /\ Goto(a, "save", "merge")
  /\ \E new \in [Editable[was[a]] -> Maybe(Values)] :
       updates' = [updates EXCEPT ![a].settings =
                     [k \in Settings |-> IF k \in DOMAIN new THEN new[k] ELSE None]]
  /\ LET env == Merge(Effective(override), updates'[a]) IN Contract(env) /\ Extra(env, was[a])
  /\ UNCHANGED <<override, booted, was, copy, bounds, history>>

Refuse(a) ==
  /\ Goto(a, "save", "idle") /\ End(a)
  /\ UNCHANGED <<override, booted, bounds, history>>

-----------------------------------------------------------------------------
(* The end of POST /api/catalog/install, after the install lock is released. *)

\* What an install writes of the identity.  The channel is the request's, as it came.
Identity(edition, channel) == [Empty EXCEPT !.edition = edition, !.channel = channel]

\* One of another game writes that game's defaults besides.
Provision(edition, channel) ==
  [Identity(edition, channel) EXCEPT
     !.settings = [k \in Settings |-> IF k \in Gameplay THEN Defaults[edition][k] ELSE None]]

\* Mutant of Installed: the old settings are removed, and no others written.
InstalledBare(a) ==
  /\ \E goal \in Editions, channel \in Channels :
       /\ updates' = [updates EXCEPT ![a] = Identity(goal, channel)]
       /\ Goto(a, "install", IF goal = was[a] THEN "merge" ELSE "strip_read")
  /\ UNCHANGED <<override, booted, was, copy, bounds, history>>

\* An install that leaves game and edition as they are leaves the settings too.
Installed(a) ==
  /\ \E goal \in Editions, channel \in Channels :
       IF goal = was[a]
       THEN /\ Goto(a, "install", "merge")
            /\ updates' = [updates EXCEPT ![a] = Identity(goal, channel)]
       ELSE /\ Goto(a, "install", "strip_read")
            /\ updates' = [updates EXCEPT ![a] = Provision(goal, channel)]
  /\ UNCHANGED <<override, booted, was, copy, bounds, history>>

InstallFails(a) ==
  /\ Goto(a, "install", "idle") /\ End(a)
  /\ UNCHANGED <<override, booted, bounds, history>>

Reprovisions(a) == updates[a].edition \notin {None, was[a]}

\* Mutant of Strip: the keys are gone from the schema.
StripAway(file) ==
  [file EXCEPT !.settings = [k \in Universal |-> file.settings[k]]]

Strip(file) ==
  [file EXCEPT !.settings = [k \in Settings |-> IF k \in Gameplay THEN None
                                                 ELSE file.settings[k]]]

\* remove_override_keys(): without such a key nothing is written.
StripRead(a) ==
  /\ \/ Strip(override) = override /\ Goto(a, "strip_read", "merge") /\ UNCHANGED copy
     \/ /\ Strip(override) # override /\ Goto(a, "strip_read", "strip")
        /\ copy' = [copy EXCEPT ![a] = Strip(override)]
  /\ UNCHANGED <<override, booted, was, updates, bounds, history>>

-----------------------------------------------------------------------------
(* write_override() *)

\* os.replace(), and what it means for the other requests.
Write(a) ==
  /\ override' = copy[a]
  /\ stale' = stale \cup {b \in Admins \ {a} : pc[b] # "idle"}
  /\ crossed' = (crossed \/ a \in stale)
  /\ UNCHANGED <<booted, bounds>>

StripWrite(a) ==
  /\ Goto(a, "strip", "merge") /\ Write(a) /\ halfway' = TRUE
  /\ UNCHANGED locals

\* Mutant of MergeRead: merge=False.
MergeReadNothing(a) ==
  /\ Goto(a, "merge", "replace")
  /\ copy' = [copy EXCEPT ![a] = updates[a]]
  /\ UNCHANGED <<override, booted, was, updates, bounds, history>>

MergeRead(a) ==
  /\ Goto(a, "merge", "replace")
  /\ copy' = [copy EXCEPT ![a] = Merge(override, updates[a])]
  /\ UNCHANGED <<override, booted, was, updates, bounds, history>>

Replace(a) ==
  /\ Goto(a, "replace", "idle") /\ Write(a) /\ End(a)
  /\ halfway' = (halfway /\ ~Reprovisions(a))

WriteFails(a) ==
  /\ Goto(a, "strip", "idle") \/ Goto(a, "replace", "idle")
  /\ End(a) /\ Fault
  /\ UNCHANGED <<override, booted, history>>

\* create_app() raises if validate() refuses the file.
DashboardRestarts ==
  /\ Fault
  /\ booted' = IF Contract(Effective(override)) THEN Effective(override).edition ELSE None
  /\ pc' = [a \in Admins |-> "idle"] /\ was' = [a \in Admins |-> None]
  /\ updates' = [a \in Admins |-> Empty] /\ copy' = [a \in Admins |-> Empty]
  /\ UNCHANGED <<override, history>>

-----------------------------------------------------------------------------
Step(a) ==
  \/ Begin(a, "save") \/ Validate(a) \/ Refuse(a)
  \/ Begin(a, "install") \/ Installed(a) \/ InstallFails(a)
  \/ StripRead(a) \/ StripWrite(a)
  \/ MergeRead(a) \/ Replace(a) \/ WriteFails(a)

Next == (\E a \in Admins : Step(a)) \/ DashboardRestarts

Spec == Init /\ [][Next]_vars

-----------------------------------------------------------------------------
(* Safety. *)

\* What has been installed, and the rest of .env with it, is not refused in itself.
Suits(env) == env.edition \in Permits \cap Supports /\ env.channel \in Known

\* As long as no request has written over another's changes or has taken the
\* instance for the one the dashboard started with, and unless an install's channel
\* or an installed game's demands on .env are refused, the container boots from the
\* file at every moment - whatever was saved, installed, refused or lost - but for
\* the middle of a change of game, where the old settings are gone and those of
\* .env, meant for another game, show.
BootsUnlessCrossed ==
  ~crossed /\ ~halfway /\ Suits(Effective(override)) => Boots(override)

\* A request that has not been overtaken changes its own fields only: a save the
\* settings that were sent, an install the identity, and a change of game the
\* gameplay settings besides.
ChangesOwn(a) ==
  /\ override'.edition = override.edition \/ updates[a].edition # None
  /\ override'.channel = override.channel \/ updates[a].channel # None
  /\ \A k \in Settings : override'.settings[k] # override.settings[k] =>
       updates[a].settings[k] # None \/ (k \in Gameplay /\ Reprovisions(a))

OwnFieldsOnly ==
  [][ \A a \in Admins : pc[a] \in {"strip", "replace"} /\ pc'[a] # pc[a] /\ a \notin stale =>
        ChangesOwn(a) ]_vars

(* What comments say, and the code does not do. *)

\* "a save that succeeds here is guaranteed to also boot cleanly"
SavedBoots ==
  [][ \A a \in Admins :
        pc[a] = "replace" /\ updates[a].edition = None /\ override' # override => Boots(override') ]_vars
=============================================================================
