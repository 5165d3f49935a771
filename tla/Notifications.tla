----------------------------- MODULE Notifications -----------------------------
(***************************************************************************)
(* Notifications (services/notification_service.py, routers/                *)
(* notifications.py, migrations 0015 and 0016): processes of the system     *)
(* dispatch events of approved kinds, an owner sets preferences.            *)
(*                                                                          *)
(* notify() reads the clock, then the preferences (which it creates if      *)
(* there are none), then takes pg_advisory_xact_lock(42), looks for the     *)
(* same fingerprint among the delivered events of the window, sends, and    *)
(* records what it did.  The lock ends with the transaction.                *)
(***************************************************************************)
EXTENDS Integers, Sequences, FiniteSets

CONSTANTS
  Dispatchers,  \* processes that notify at a time
  Nobody,       \* stands for no dispatcher
  Fingerprints, \* what a fingerprint tells apart: household, source, event type, severity, entity
  Source,       \* the source of a fingerprint
  Severity,     \* the severity of a fingerprint
  Outcomes,     \* what becomes of a delivery: "delivered", "failed", "unavailable" (no adapter)
  Choices,      \* bound: the preferences an owner may arrive at
  DayLength,    \* ticks of a day
  Window,       \* DEDUP_WINDOW_HOURS, in ticks
  LastTick,     \* bound: the last instant of the clock
  MaxEvents     \* bound: events recorded or about to be

ASSUME NobodyAssumption == Nobody \notin Dispatchers
ASSUME FingerprintsAssumption ==
  Severity \in [Fingerprints -> {"info", "warning", "critical"}] /\ DOMAIN Source = Fingerprints
ASSUME NotifyBoundsAssumption ==
  DayLength \in Nat \ {0} /\ {Window, LastTick, MaxEvents} \subseteq Nat
ASSUME OutcomesAssumption == Outcomes \subseteq {"delivered", "failed", "unavailable"}

VARIABLES
  now,            \* the clock
  prefs,          \* the row of notification_preferences, or NoPrefs
  notifications,  \* committed rows of notification_events, in the order of their commits
  lock,           \* who holds the advisory lock
  dispatch        \* where each dispatcher is in notify()

notifyVars == <<now, prefs, notifications, lock, dispatch>>

-------------------------------------------------------------------------------
Sources    == {Source[k] : k \in Fingerprints}
Severities == {"info", "warning", "critical"}
Ticks      == 0..LastTick

\* Quiet hours start and end at ticks of the day, and may pass midnight.
AllPreferences ==
  [enabled : BOOLEAN, sources : SUBSET Sources, severities : SUBSET Severities,
   start : 0..(DayLength - 1), end : 0..(DayLength - 1)]
NoPrefs     == [enabled |-> FALSE, sources |-> {}, severities |-> {}, start |-> -1, end |-> -1]

DefaultPrefs == [enabled |-> FALSE, sources |-> {}, severities |-> {"critical"},
                 start |-> DayLength - 1, end |-> 0]
Preferences  == Choices \cup {DefaultPrefs}

ASSUME ChoicesAssumption == Choices \subseteq AllPreferences

Statuses     == {"delivered", "suppressed", "failed", "unavailable"}
Notification == [kind : Fingerprints, status : Statuses, at : Ticks, acknowledged : BOOLEAN]

Places == {"idle", "preferences", "create", "lock", "window", "send"}
Resting(d) == dispatch[d].at = "idle"
AtRest  == [at |-> "idle"]
\* quiet: whether the preferences it read make the time it read a quiet one.
Work    == [at : Places \ {"idle"}, kind : Fingerprints, ref : Ticks, quiet : BOOLEAN]

NotifyInit ==
  /\ now = 0
  /\ prefs = NoPrefs
  /\ notifications = <<>>
  /\ lock = Nobody
  /\ dispatch = [d \in Dispatchers |-> AtRest]

At(d, place)    == dispatch[d].at = place
Moves(d, place) == dispatch' = [dispatch EXCEPT ![d].at = place]

\* Mutant: only delivered events are committed, and the transaction stays open.
Ends_KeepsLock(d, status) ==
  /\ notifications' = Append(notifications,
       [kind |-> dispatch[d].kind, status |-> status, at |-> dispatch[d].ref,
        acknowledged |-> FALSE])
  /\ dispatch' = [dispatch EXCEPT ![d] = AtRest]
  /\ lock' = IF lock = d /\ status # "suppressed" THEN Nobody ELSE lock

\* The event is inserted and committed; the transaction's lock goes with it.
Ends(d, status) ==
  /\ notifications' = Append(notifications,
       [kind |-> dispatch[d].kind, status |-> status, at |-> dispatch[d].ref,
        acknowledged |-> FALSE])
  /\ dispatch' = [dispatch EXCEPT ![d] = AtRest]
  /\ lock' = IF lock = d THEN Nobody ELSE lock

-------------------------------------------------------------------------------
(* notify *)

Busy == {d \in Dispatchers : ~Resting(d)}

\* The clock is read first.
Begins(d, k) ==
  /\ Resting(d)
  /\ Len(notifications) + Cardinality(Busy) < MaxEvents
  /\ dispatch' = [dispatch EXCEPT ![d] =
       [at |-> "preferences", kind |-> k, ref |-> now, quiet |-> FALSE]]
  /\ UNCHANGED <<now, prefs, notifications, lock>>

\* Explicit opt-in, and the lists of sources and severities; an empty list allows all.
Allows(p, k) ==
  /\ p.enabled
  /\ p.sources = {} \/ Source[k] \in p.sources
  /\ p.severities = {} \/ Severity[k] \in p.severities

IsQuiet(p, tick) ==
  LET local == tick % DayLength
  IN  IF p.start < p.end THEN p.start <= local /\ local < p.end
      ELSE local >= p.start \/ local < p.end

\* A critical event may pass in quiet hours.
Quiet(d) == IsQuiet(prefs, dispatch[d].ref) /\ Severity[dispatch[d].kind] # "critical"

Suppresses(d) == Ends(d, "suppressed") /\ UNCHANGED <<now, prefs>>

\* The object is not read again: quiet hours are those of the preferences as they were here.
ReadsPreferences(d) ==
  /\ At(d, "preferences")
  /\ prefs # NoPrefs
  /\ IF Allows(prefs, dispatch[d].kind)
     THEN /\ dispatch' = [dispatch EXCEPT ![d].at = "lock", ![d].quiet = Quiet(d)]
          /\ UNCHANGED <<now, prefs, notifications, lock>>
     ELSE Suppresses(d)

FindsNoPreferences(d) ==
  /\ At(d, "preferences")
  /\ prefs = NoPrefs
  /\ Moves(d, "create")
  /\ UNCHANGED <<now, prefs, notifications, lock>>

\* Mutant: without uq_notification_preferences_singleton a second row is found first.
CreatesPreferences_Again(d) ==
  /\ At(d, "create")
  /\ prefs' = DefaultPrefs
  /\ Ends(d, "suppressed")
  /\ UNCHANGED <<now>>

\* get_preferences commits a default row, which is not enabled.
CreatesPreferences(d) ==
  /\ At(d, "create")
  /\ prefs = NoPrefs
  /\ prefs' = DefaultPrefs
  /\ Ends(d, "suppressed")
  /\ UNCHANGED <<now>>

\* A statement fails, as the INSERT does if another process has created the row, or the
\* process is stopped: dispatchers roll back and go on without.
Fails(d) ==
  /\ ~Resting(d)
  /\ dispatch' = [dispatch EXCEPT ![d] = AtRest]
  /\ lock' = IF lock = d THEN Nobody ELSE lock
  /\ UNCHANGED <<now, prefs, notifications>>

\* Mutant: the lock is not taken (an error of its statement is passed over).
TakesLock_Passes(d) ==
  /\ At(d, "lock")
  /\ Moves(d, "window")
  /\ UNCHANGED <<now, prefs, notifications, lock>>

TakesLock(d) ==
  /\ At(d, "lock")
  /\ lock = Nobody
  /\ lock' = d
  /\ Moves(d, "window")
  /\ UNCHANGED <<now, prefs, notifications>>

\* is_within_dedup_window: an event whose delivery failed, or was not possible, does not
\* count.  The kind is the fingerprint, so the severities are equal.
IsWithinWindow(d) ==
  \E i \in DOMAIN notifications :
    /\ notifications[i].kind = dispatch[d].kind
    /\ notifications[i].status = "delivered"
    /\ notifications[i].at >= dispatch[d].ref - Window

LooksAround(d) ==
  /\ At(d, "window")
  /\ IF IsWithinWindow(d) \/ dispatch[d].quiet THEN Suppresses(d)
     ELSE Moves(d, "send") /\ UNCHANGED <<now, prefs, notifications, lock>>

\* The adapter shows the notification, fails, or is missing; then the event is recorded.
Delivers(d) ==
  /\ At(d, "send")
  /\ \E outcome \in Outcomes : Ends(d, outcome)
  /\ UNCHANGED <<now, prefs>>

-------------------------------------------------------------------------------
(* The owner *)

\* GET /preferences, and the first half of a PATCH.
OwnerCreatesPreferences ==
  /\ prefs = NoPrefs
  /\ prefs' = DefaultPrefs
  /\ UNCHANGED <<now, notifications, lock, dispatch>>

\* PATCH writes the columns it was given.
UpdatesPreferences(p) ==
  /\ prefs # NoPrefs
  /\ prefs' = p
  /\ UNCHANGED <<now, notifications, lock, dispatch>>

Acknowledges(i) ==
  /\ ~notifications[i].acknowledged
  /\ notifications' = [notifications EXCEPT ![i].acknowledged = TRUE]
  /\ UNCHANGED <<now, prefs, lock, dispatch>>

Tick ==
  /\ now < LastTick
  /\ now' = now + 1
  /\ UNCHANGED <<prefs, notifications, lock, dispatch>>

-------------------------------------------------------------------------------
Proceeds(d) ==
  \/ ReadsPreferences(d) \/ FindsNoPreferences(d) \/ CreatesPreferences(d)
  \/ TakesLock(d) \/ LooksAround(d) \/ Delivers(d)

Owner ==
  \/ OwnerCreatesPreferences
  \/ \E p \in Preferences : UpdatesPreferences(p)
  \/ \E i \in DOMAIN notifications : Acknowledges(i)

NotifyNext ==
  \/ \E d \in Dispatchers :
       Proceeds(d) \/ Fails(d) \/ \E k \in Fingerprints : Begins(d, k)
  \/ Owner
  \/ Tick

NotifySpec == NotifyInit /\ [][NotifyNext]_notifyVars

\* Processes run on, PostgreSQL queues those who wait for the lock, and a statement that
\* cannot succeed fails.
NotifyFairSpec ==
  /\ NotifySpec
  /\ \A d \in Dispatchers :
       /\ SF_notifyVars(Proceeds(d))
       /\ WF_notifyVars(At(d, "create") /\ prefs # NoPrefs /\ Fails(d))

-------------------------------------------------------------------------------
(* Properties *)

NotifyTypeOK ==
  /\ now \in Ticks
  /\ prefs \in Preferences \cup {NoPrefs}
  /\ notifications \in Seq(Notification)
  /\ lock \in Dispatchers \cup {Nobody}
  /\ dispatch \in [Dispatchers -> Work \cup {AtRest}]

Delivered(i) == notifications[i].status = "delivered"

\* No kind of event is delivered twice within the window, although dispatchers read the
\* clock before they wait for the lock and may be overtaken.
DeliveredOnce ==
  /\ NotifyTypeOK
  /\ \A i, j \in DOMAIN notifications :
       /\ i # j /\ Delivered(i) /\ Delivered(j)
       /\ notifications[i].kind = notifications[j].kind
       => \/ notifications[i].at - notifications[j].at > Window
          \/ notifications[j].at - notifications[i].at > Window

\* Once there are preferences only the owner changes them: processes that create default
\* preferences at the same time never put them in their place.
OnlyOwnerSets ==
  [][(\E d \in Dispatchers : dispatch'[d] # dispatch[d]) /\ prefs # NoPrefs
       => prefs' = prefs]_notifyVars

\* Whoever notifies is not held up for ever by the lock.
DispatchesEnd == \A d \in Dispatchers : ~Resting(d) ~> Resting(d)
===============================================================================
