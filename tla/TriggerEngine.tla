---------------------------- MODULE TriggerEngine ----------------------------
(***************************************************************************)
(* The triggers of a user (triggers/engine.py, triggers/scheduler.py): a   *)
(* registry in memory, the loop that publishes what is due and advances it, *)
(* the API that changes the registry and saves it in the preferences of the *)
(* user (api/agent.py, triggers/persistence.py), and the load at start,     *)
(* which takes the triggers of one user and of one agent (gateway/app.py).  *)
(***************************************************************************)
EXTENDS Integers, FiniteSets

CONSTANTS
  Briefing,    \* the fallback trigger of a user who has none
  BriefingAt,  \* its time of day
  CronTimes,   \* the times of day of the cron expressions, "M H * * *"
  Day,         \* ticks of a day
  MaxTime,     \* bound: the last tick
  Calls,       \* API calls; a call that creates a trigger names it
  SeenMax,     \* keys remembered: 10000
  SeenTrim,    \* keys forgotten when there are more: 5000
  Glitches,    \* what may fail: "publish", "refused", "error", "restart"
  MaxGlitches, \* bound: how often
  Nothing

VARIABLES
  time,        \* the clock
  registry,    \* TriggerScheduler._triggers
  preferences, \* the preferences of the user: the schedule and the follow-up days
  seen,        \* TriggerEngine._seen_keys
  loop,        \* _scheduled_trigger_loop
  published,   \* ghost: how often each key was published
  call,        \* the API calls
  glitches,    \* what has failed: a counter
  torn,        \* ghost: calls have overlapped or the store has raised in one, since the start
  forgotten,   \* ghost: how often each key was forgotten, trimmed or lost with the process
  served       \* is the user the GRAPHCLAW_USER_ID of the gateway?

trigVars == <<time, registry, preferences, seen, loop, published, call, glitches, torn, forgotten,
              served>>

Triggers == {Briefing} \cup Calls

\* own: the payload names no agent but the one of the gateway.
Config == [enabled : BOOLEAN, own : BOOLEAN, at : CronTimes, next : 0..(MaxTime + Day)]

Schedule == [Triggers -> Config \cup {Nothing}]

Preferences == [schedule : Schedule, days : {0, 1}]

DayOf(t) == t \div Day

ASSUME TriggerAssumption ==
  /\ Day \in Nat \ {0} /\ MaxTime \in Nat /\ MaxGlitches \in Nat
  /\ CronTimes \subseteq 0..(Day - 1) /\ BriefingAt \in CronTimes
  /\ Nothing \notin Triggers /\ Nothing \notin Config

Keys == Triggers \X (0..DayOf(MaxTime))

Loop == [pc : {"sleep", "check", "publish", "dead"}, now : 0..MaxTime,
         due : SUBSET Triggers, current : Triggers \cup {Nothing}]

\* undo: the trigger to restore and what to restore it to.
TriggerCall ==
  [pc : {"new", "read", "write", "load", "done"}, id : Triggers \cup {Nothing},
   undo : Config \cup {Nothing}, snapshot : Schedule \cup {Nothing}, days : {0, 1},
   read : Preferences \cup {Nothing}]

Unborn == [pc |-> "new", id |-> Nothing, undo |-> Nothing, snapshot |-> Nothing, days |-> 0,
           read |-> Nothing]

NoSchedule == [i \in Triggers |-> Nothing]

\* _compute_next_cron: the time of day, today or, when that is not after now, tomorrow.
NextCron(at, now) ==
  LET today == DayOf(now) * Day + at IN IF today <= now THEN today + Day ELSE today

Fallback(now) ==
  [enabled |-> TRUE, own |-> TRUE, at |-> BriefingAt, next |-> NextCron(BriefingAt, now)]

Glitch(what) == what \in Glitches /\ glitches < MaxGlitches /\ glitches' = glitches + 1

-----------------------------------------------------------------------------
\* load_trigger_schedule with the agent of the gateway: entries of another agent are passed over.
Loaded(schedule) ==
  [i \in Triggers |-> IF schedule[i] # Nothing /\ schedule[i].own THEN schedule[i] ELSE Nothing]

\* The gateway starts with the schedule of one user; when nothing is loaded it registers a
\* daily briefing for him.  Nothing is loaded or registered for anyone else.
Load(schedule, now) ==
  IF ~served THEN NoSchedule
  ELSE IF Loaded(schedule) = NoSchedule THEN [NoSchedule EXCEPT ![Briefing] = Fallback(now)]
  ELSE Loaded(schedule)

Started == [pc |-> "sleep", now |-> 0, due |-> {}, current |-> Nothing]

TriggerInit ==
  /\ time = 0 /\ served \in BOOLEAN
  /\ registry = Load(NoSchedule, 0)
  /\ preferences = [schedule |-> registry, days |-> 0]
  /\ seen = {} /\ loop = Started /\ published = [k \in Keys |-> 0]
  /\ call = [c \in Calls |-> Unborn]
  /\ glitches = 0 /\ torn = FALSE /\ forgotten = [k \in Keys |-> 0]

\* The keys go.
Forget(keys) == forgotten' = [k \in Keys |-> forgotten[k] + (IF k \in keys THEN 1 ELSE 0)]

\* The fallback is saved over whatever is there, and a save that fails is logged.
SaveFallback ==
  \/ preferences' = [preferences EXCEPT !.schedule = registry'] /\ torn' = FALSE
  \/ UNCHANGED preferences /\ torn' = TRUE

Restart ==
  /\ Glitch("restart")
  /\ registry' = Load(preferences.schedule, time)
  /\ IF served /\ Loaded(preferences.schedule) = NoSchedule THEN SaveFallback
     ELSE UNCHANGED preferences /\ torn' = FALSE
  /\ seen' = {} /\ Forget(seen) /\ loop' = Started
  /\ call' = [c \in Calls |-> IF call[c].pc = "new" THEN Unborn ELSE [Unborn EXCEPT !.pc = "done"]]
  /\ UNCHANGED <<time, published, served>>

Tick == time < MaxTime /\ time' = time + 1
        /\ UNCHANGED <<registry, preferences, seen, loop, published, call, glitches, torn, forgotten, served>>

-----------------------------------------------------------------------------
\* scheduler.advance: the trigger may have been deleted meanwhile.
Advance(id) ==
  registry' = IF registry[id] = Nothing THEN registry
              ELSE [registry EXCEPT ![id].next = NextCron(registry[id].at, loop.now)]

\* get_due_triggers.
Wake ==
  /\ loop.pc = "sleep"
  /\ loop' = [pc |-> "check", now |-> time, current |-> Nothing,
              due |-> {i \in Triggers : /\ registry[i] # Nothing
                                        /\ registry[i].enabled /\ registry[i].next <= time}]
  /\ UNCHANGED <<time, registry, preferences, seen, published, call, glitches, torn, forgotten, served>>

\* Over the limit an arbitrary half of the keys is forgotten.
Remember(key) ==
  \/ /\ Cardinality(seen \cup {key}) <= SeenMax
     /\ seen' = seen \cup {key} /\ UNCHANGED forgotten
  \/ /\ Cardinality(seen \cup {key}) > SeenMax
     /\ \E half \in SUBSET (seen \cup {key}) :
          /\ Cardinality(half) = SeenTrim
          /\ seen' = (seen \cup {key}) \ half /\ Forget(half)

\* Mutant: the key is not looked up.
DispatchAgain(id) ==
  LET key == <<id, DayOf(loop.now)>> IN
  /\ Remember(key)
  /\ loop' = [loop EXCEPT !.pc = "publish", !.current = id, !.due = @ \ {id}]
  /\ UNCHANGED registry

\* _dispatch: a key that was seen is skipped and the trigger advanced; the key of any other
\* is remembered before it is published.
Dispatch(id) ==
  LET key == <<id, DayOf(loop.now)>> IN
  \/ /\ key \in seen
     /\ Advance(id)
     /\ loop' = [loop EXCEPT !.due = @ \ {id}]
     /\ UNCHANGED <<seen, forgotten>>
  \/ /\ key \notin seen
     /\ Remember(key)
     /\ loop' = [loop EXCEPT !.pc = "publish", !.current = id, !.due = @ \ {id}]
     /\ UNCHANGED registry

DispatchNext ==
  /\ loop.pc = "check"
  /\ \E id \in loop.due : Dispatch(id)
  /\ UNCHANGED <<time, preferences, published, call, glitches, torn, served>>

\* publish returns, and the trigger is advanced; or it raises, and the loop is over.
Publish ==
  /\ loop.pc = "publish"
  /\ \/ /\ published' = [published EXCEPT ![<<loop.current, DayOf(loop.now)>>] = @ + 1]
        /\ Advance(loop.current)
        /\ loop' = [loop EXCEPT !.pc = "check", !.current = Nothing]
        /\ UNCHANGED glitches
     \/ /\ Glitch("publish")
        /\ loop' = [loop EXCEPT !.pc = "dead"]
        /\ UNCHANGED <<published, registry>>
  /\ UNCHANGED <<time, preferences, seen, call, torn, forgotten, served>>

Sleep ==
  /\ loop.pc = "check" /\ loop.due = {}
  /\ loop' = [loop EXCEPT !.pc = "sleep"]
  /\ UNCHANGED <<time, registry, preferences, seen, published, call, glitches, torn, forgotten, served>>

-----------------------------------------------------------------------------
UnderWay == {c \in Calls : call[c].pc \notin {"new", "done"}}

\* The call changes the registry and takes the snapshot it will save.
Change(c, id, config) ==
  /\ call[c].pc = "new"
  /\ registry' = [registry EXCEPT ![id] = config]
  /\ call' = [call EXCEPT ![c] = [Unborn EXCEPT !.pc = "read", !.id = id, !.undo = registry[id],
                                                !.snapshot = registry']]
  /\ torn' = (torn \/ UnderWay # {})
  /\ UNCHANGED <<time, preferences, seen, loop, published, glitches, forgotten, served>>

\* The trigger from its next firing on.
Daily(config) == [config EXCEPT !.next = NextCron(config.at, time)]

CreateTrigger(c) ==
  \E config \in [enabled : BOOLEAN, own : BOOLEAN, at : CronTimes, next : {0}] :
    Change(c, c, Daily(config))

\* Any of the three may be given; a time of day that is given, be it the same, is rescheduled.
UpdateTrigger(c) ==
  \E id \in Triggers : registry[id] # Nothing /\
    \E enabled, own \in BOOLEAN, at \in CronTimes :
      LET config == [registry[id] EXCEPT !.enabled = enabled, !.own = own] IN
      \/ Change(c, id, config)
      \/ Change(c, id, Daily([config EXCEPT !.at = at]))

SnoozeTrigger(c) ==
  \E id \in Triggers :
    registry[id] # Nothing /\ Change(c, id, [registry[id] EXCEPT !.enabled = FALSE])

ResumeTrigger(c) ==
  \E id \in Triggers : registry[id] # Nothing /\ Change(c, id, Daily([registry[id] EXCEPT !.enabled = TRUE]))

DeleteTrigger(c) ==
  \E id \in Triggers : registry[id] # Nothing /\ Change(c, id, Nothing)

\* The follow-up settings live in the same preferences.
SaveSettings(c) ==
  /\ call[c].pc = "new"
  /\ call' = [call EXCEPT ![c] = [Unborn EXCEPT !.pc = "read", !.days = 1]]
  /\ torn' = (torn \/ UnderWay # {})
  /\ UNCHANGED <<time, registry, preferences, seen, loop, published, glitches, forgotten, served>>

\* Mutant: the registry stays as the call has left it.
RestoreNothing(c) == UNCHANGED registry

\* A call that could not save restores the trigger it has changed.
Restore(c) ==
  registry' = IF call[c].id = Nothing THEN registry ELSE [registry EXCEPT ![call[c].id] = call[c].undo]

End(c) == call' = [call EXCEPT ![c] = [Unborn EXCEPT !.pc = "done"]]

\* The user is not found or the update is refused: the change is taken back.  Any other
\* error of the store is a 500 and leaves the registry changed.
Unsaved(c) ==
  \/ Glitch("refused") /\ Restore(c) /\ UNCHANGED torn
  \/ Glitch("error") /\ torn' = TRUE /\ UNCHANGED registry

ReadPreferences(c) ==
  /\ call[c].pc = "read"
  /\ \/ /\ call' = [call EXCEPT ![c].pc = "write", ![c].read = preferences]
        /\ UNCHANGED <<registry, glitches, torn>>
     \/ Unsaved(c) /\ End(c)
  /\ UNCHANGED <<time, preferences, seen, loop, published, forgotten, served>>

\* The preferences that were read, with the one entry replaced.
Merged(c) ==
  IF call[c].id = Nothing THEN [call[c].read EXCEPT !.days = call[c].days]
  ELSE [call[c].read EXCEPT !.schedule = call[c].snapshot]

WritePreferences(c) ==
  /\ call[c].pc = "write"
  /\ \/ preferences' = Merged(c) /\ UNCHANGED <<registry, glitches, torn>>
     \/ Unsaved(c) /\ UNCHANGED preferences
  /\ End(c)
  /\ UNCHANGED <<time, seen, loop, published, forgotten, served>>

\* Listing the triggers loads the saved ones when none is registered.
ListTriggers(c) ==
  /\ call[c].pc = "new" /\ registry = NoSchedule
  /\ call' = [call EXCEPT ![c].pc = "load"]
  /\ torn' = (torn \/ UnderWay # {})
  /\ UNCHANGED <<time, registry, preferences, seen, loop, published, glitches, forgotten, served>>

LoadTriggers(c) ==
  /\ call[c].pc = "load"
  /\ \/ /\ registry' = [i \in Triggers |-> IF preferences.schedule[i] # Nothing
                                           THEN preferences.schedule[i] ELSE registry[i]]
        /\ UNCHANGED glitches
     \/ Glitch("error") /\ UNCHANGED registry
  /\ End(c)
  /\ UNCHANGED <<time, preferences, seen, loop, published, torn, forgotten, served>>

CallStep(c) == \/ CreateTrigger(c) \/ UpdateTrigger(c) \/ SnoozeTrigger(c) \/ ResumeTrigger(c)
               \/ DeleteTrigger(c) \/ SaveSettings(c) \/ ListTriggers(c)
               \/ ReadPreferences(c) \/ WritePreferences(c) \/ LoadTriggers(c)

TriggerNext == \/ Tick \/ Restart \/ Wake \/ DispatchNext \/ Publish \/ Sleep
               \/ \E c \in Calls : CallStep(c)

TriggerSpec == TriggerInit /\ [][TriggerNext]_trigVars

-----------------------------------------------------------------------------
TriggerTypeOK ==
  /\ time \in 0..MaxTime
  /\ registry \in Schedule /\ preferences \in Preferences
  /\ seen \subseteq Keys /\ loop \in Loop
  /\ published \in [Keys -> Nat] /\ forgotten \in [Keys -> Nat]
  /\ call \in [Calls -> TriggerCall]
  /\ glitches \in 0..MaxGlitches /\ torn \in BOOLEAN /\ served \in BOOLEAN

\* However a trigger is rescheduled, snoozed, resumed or rolled back while the loop awaits a
\* publish, it is published once a day, and once more for each time that its key was trimmed
\* or lost with the process; and while the loop lives a key that is remembered has been
\* published or is being published, so that none is skipped for nothing.
FiredOncePerDay ==
  \A id \in Triggers, day \in 0..DayOf(MaxTime) :
    LET key == <<id, day>>
        inFlight == loop.current = id /\ DayOf(loop.now) = day IN
    /\ published[key] + (IF inFlight /\ loop.pc = "publish" THEN 1 ELSE 0) <= 1 + forgotten[key]
    /\ loop.pc # "dead" /\ key \in seen /\ ~inFlight => published[key] >= 1

\* With one call at a time, refused saves and restarts included, every trigger that is
\* registered is saved as it is registered, whatever the loop advances meanwhile; and for the
\* user of the gateway every trigger that is saved for its agent is registered, so that a
\* restart loads what runs.  (Triggers of another agent or of another user are saved too, but
\* no restart loads them.)
SavedAsRegistered ==
  ~torn /\ UnderWay = {} =>
    \A i \in Triggers :
      LET saved == preferences.schedule[i] IN
      /\ registry[i] # Nothing => /\ saved # Nothing
                                  /\ registry[i].enabled = saved.enabled
                                  /\ registry[i].own = saved.own /\ registry[i].at = saved.at
      /\ served /\ saved # Nothing /\ saved.own => registry[i] # Nothing
=============================================================================
