------------------------ MODULE PollHealth_proofs ------------------------
(* Proofs about PollHealth, for every threshold, patience and bound.  Inv says what
   a state that is kept anywhere (in memory, in the row, in a save, in a snapshot)
   may be, and what a task that waits or saves still has to do with the memory.  *)
EXTENDS PollHealth, TLAPS

---------------------------------------------------------------------------
(* The invariant *)

Records == [pc : {"rest", "wait", "save"}, does : {"none", "attempt", "success", "failure"},
            began : Instants, saves : States \cup {Null}]
Changes == {"attempt", "success", "failure", "observe"}

\* A state that is kept anywhere: it names no success that is later than the last
\* answer by more than a record may take, and no incident without failure or alarm.
Sound(h, told) ==
    /\ h \in States
    /\ h.init # 0
    /\ h.success <= told + Patience
    /\ h.since # 0 \/ h.degraded <=> h.incident # 0

ClockOK ==
    /\ clock \in Instants /\ clock # 0 /\ answered \in Instants /\ answered <= clock
    /\ retryAfter \in Instants /\ expires \in 0 .. MaxTime + CacheFor
    /\ dirty \in BOOLEAN

MemoryOK ==
    /\ memory \in States \cup {Null} /\ row \in States \cup {Null} /\ snapshot \in Copies \cup {Null}
    /\ memory # Null => Sound(memory, answered)
    /\ row # Null => Sound(row, answered)
    /\ snapshot # Null => snapshot.init # 0 /\ snapshot.success <= answered + Patience

TasksOK ==
    /\ task \in [Tasks -> Records]
    /\ lock \in Tasks \cup {"free"}
    /\ \A t \in Tasks : task[t].pc = "save" <=> lock = t
    /\ task["monitor"].pc # "wait"
    /\ memory = Null => \A t \in Tasks : task[t].pc = "rest"

\* A task that saves has the memory in its statement, and until it succeeds the
\* memory counts as dirty.
SavesOK ==
    /\ lock # "free" => dirty /\ task[lock].saves = memory
    /\ CleanMeansSaved

\* A record that waits came in time, and one of a success tells of the last answer.
WaitOK ==
    task["worker"].pc = "wait" =>
        /\ task["worker"].does # "none"
        /\ task["worker"].began <= clock /\ clock <= task["worker"].began + Patience
        /\ task["worker"].does = "success" => answered = task["worker"].began

Inv == ClockOK /\ MemoryOK /\ TasksOK /\ SavesOK /\ WaitOK

LEMMA Constants ==
    /\ MaxTime \in Nat \ {0} /\ Threshold \in Nat \ {0} /\ Patience \in Nat \ {0} /\ CacheFor \in Nat
    /\ Interval \in Nat
    /\ 0 \in Instants /\ Instants \subseteq Int /\ \A i \in Instants : i >= 0 /\ i <= MaxTime
  BY HealthAssumption DEF Instants

LEMMA InvImplies == Inv => TypeOK /\ CleanMeansSaved /\ NoSilentOutage
  <1> SUFFICES ASSUME Inv PROVE TypeOK /\ CleanMeansSaved /\ NoSilentOutage
    OBVIOUS
  <1>1. TypeOK
    BY DEF Inv, ClockOK, MemoryOK, TasksOK, Records, Sound, TypeOK
  <1>2. CleanMeansSaved
    BY DEF Inv, SavesOK
  <1>3. NoSilentOutage
    <2> SUFFICES ASSUME snapshot # Null, ~Gauge
                 PROVE  clock - answered < Threshold + Patience \/ clock - snapshot.init < Threshold
      BY DEF NoSilentOutage
    <2>1. /\ snapshot.init \in Int /\ snapshot.success \in Int
          /\ snapshot.init # 0 /\ snapshot.success <= answered + Patience
      BY Constants DEF Inv, MemoryOK, Copies
    <2>2. clock \in Int /\ answered \in Int /\ Threshold \in Int /\ Patience \in Int
      BY Constants DEF Inv, ClockOK
    <2>3. Basis(snapshot) = IF snapshot.success # 0 THEN snapshot.success ELSE snapshot.init
      BY DEF Basis, FirstOf
    <2>4. Basis(snapshot) = 0 \/ ~(clock - Basis(snapshot) >= Threshold)
      BY DEF Gauge, Overdue
    <2>5. CASE snapshot.success = 0
      BY <2>1, <2>2, <2>3, <2>4, <2>5
    <2>6. CASE snapshot.success # 0
      BY <2>1, <2>2, <2>3, <2>4, <2>6
    <2> QED
      BY <2>5, <2>6
  <1> QED
    BY <1>1, <1>2, <1>3

---------------------------------------------------------------------------
(* What happens to a state *)

LEMMA First == \A a, b : FirstOf(<<a, b>>) = IF a # 0 THEN a ELSE b
  BY DEF FirstOf

LEMMA BasisIs == ASSUME NEW h \in States
                 PROVE  Basis(h) \in Instants /\ (h.init # 0 => Basis(h) # 0)
  BY First DEF Basis, States

\* The alarm adds a start to an incident that has none, and changes nothing else.
LEMMA WatchedIs ==
    ASSUME NEW h \in States
    PROVE  /\ Watched(h) \in States
           /\ Watched(h).init = h.init /\ Watched(h).success = h.success
           /\ Watched(h).since = h.since /\ Watched(h).closed = h.closed
           /\ h.degraded => Watched(h).degraded
           /\ h.incident # 0 => Watched(h).incident = h.incident
           /\ h.incident = 0 /\ h.since = 0 => (Watched(h).incident # 0 <=> Watched(h).degraded /\ ~h.degraded)
           /\ h.incident = 0 /\ h.since = 0 /\ h.degraded => Watched(h).incident = 0
  <1> DEFINE start == FirstOf(<<h.incident, FirstOf(<<h.since, Basis(h)>>)>>)
  <1>1. start = IF h.incident # 0 THEN h.incident ELSE IF h.since # 0 THEN h.since ELSE Basis(h)
    BY First
  <1>2. start \in Instants
    BY <1>1, BasisIs DEF States
  <1>3. CASE Overdue(h) /\ ~h.degraded
    <2>1. Watched(h) = [h EXCEPT !.degraded = TRUE, !.incident = start]
      BY <1>3 DEF Watched
    <2>2. Basis(h) # 0
      BY <1>3 DEF Overdue
    <2>3. h.incident # 0 => start = h.incident
      BY <1>1
    <2>4. h.incident = 0 /\ h.since = 0 => start # 0
      BY <1>1, <2>2
    <2> HIDE DEF start
    <2> QED
      BY <1>2, <1>3, <2>1, <2>3, <2>4 DEF States
  <1>4. CASE ~(Overdue(h) /\ ~h.degraded)
    <2>1. Watched(h) = h
      BY <1>4 DEF Watched
    <2> QED
      BY <2>1 DEF States
  <1> QED
    BY <1>3, <1>4

LEMMA WatchedSound ==
    ASSUME NEW told, NEW h, Sound(h, told)
    PROVE  Sound(Watched(h), told)
  <1> DEFINE w == Watched(h)
  <1>1. h \in States /\ h.init # 0 /\ h.success <= told + Patience /\ (h.since # 0 \/ h.degraded <=> h.incident # 0)
    BY DEF Sound
  <1>2. /\ w \in States
        /\ w.init = h.init /\ w.success = h.success
        /\ w.since = h.since
        /\ h.degraded => w.degraded
        /\ h.incident # 0 => w.incident = h.incident
        /\ h.incident = 0 /\ h.since = 0 => (w.incident # 0 <=> w.degraded /\ ~h.degraded)
    BY <1>1, WatchedIs
  <1> HIDE DEF w
  <1>3. w.init # 0 /\ w.success <= told + Patience
    BY <1>1, <1>2
  <1>4. w.since # 0 \/ w.degraded <=> w.incident # 0
    BY <1>1, <1>2
  <1> QED
    BY <1>2, <1>3, <1>4 DEF Sound, w

LEMMA SucceededIs ==
    ASSUME clock \in Instants, NEW h \in States
    PROVE  /\ Succeeded(h) \in States
           /\ Succeeded(h).init = h.init /\ Succeeded(h).success = clock
           /\ Succeeded(h).since = 0 /\ Succeeded(h).incident = 0 /\ Succeeded(h).degraded = FALSE
           /\ h.degraded /\ h.incident # 0 => Succeeded(h).closed = h.incident
  <1> DEFINE start == FirstOf(<<h.incident, FirstOf(<<h.since, Basis(h)>>)>>)
  <1> DEFINE closed == IF Broken(h) THEN start ELSE h.closed
  <1>1. start = IF h.incident # 0 THEN h.incident ELSE IF h.since # 0 THEN h.since ELSE Basis(h)
    BY First
  <1>2. closed \in Instants
    BY <1>1, BasisIs DEF States
  <1>3. h.degraded /\ h.incident # 0 => closed = h.incident
    BY <1>1 DEF Broken
  <1>4. Succeeded(h) = [h EXCEPT !.success = clock, !.since = 0, !.incident = 0, !.degraded = FALSE,
                                 !.closed = closed]
    BY DEF Succeeded
  <1> HIDE DEF closed
  <1> QED
    BY <1>2, <1>3, <1>4, Constants DEF States

LEMMA FailedIs ==
    ASSUME clock \in Instants, clock # 0, NEW h \in States, NEW told, Sound(h, told)
    PROVE  /\ Sound(Failed(h), told)
           /\ h.incident # 0 => Failed(h).incident = h.incident
           /\ h.degraded => Failed(h).degraded
  <1> DEFINE since == FirstOf(<<h.since, clock>>)
  <1> DEFINE incident == IncidentAfterFailure(h)
  <1> DEFINE g == [h EXCEPT !.since = since, !.incident = incident]
  <1>1. since \in Instants /\ since # 0
    BY First DEF States
  <1>2. incident \in Instants /\ incident # 0 /\ (h.incident # 0 => incident = h.incident)
    BY <1>1, First DEF IncidentAfterFailure, States
  <1>3. Failed(h) = Watched(g)
    BY DEF Failed
  <1> HIDE DEF since, incident
  <1>4. /\ g \in States /\ g.init = h.init /\ g.success = h.success /\ g.since = since
        /\ g.incident = incident /\ g.degraded = h.degraded
    BY <1>1, <1>2 DEF States
  <1> HIDE DEF g
  <1>5. g.init # 0 /\ g.success <= told + Patience
    BY <1>4 DEF Sound
  <1>6. Sound(g, told)
    BY <1>1, <1>2, <1>4, <1>5 DEF Sound
  <1>7. Sound(Watched(g), told)
    BY <1>6, WatchedSound
  <1>8. /\ g.incident # 0 => Watched(g).incident = g.incident
        /\ g.degraded => Watched(g).degraded
    BY <1>4, WatchedIs
  <1> QED
    BY <1>2, <1>3, <1>4, <1>7, <1>8

\* No change makes a state unsound, moves the start of an incident, or ends an alarm,
\* but for a success, which closes the incident with its start.
LEMMA UpdatedIs ==
    ASSUME clock \in Instants, clock # 0, NEW does \in Changes, NEW told \in Int, NEW h, Sound(h, told),
           does = "success" => clock <= told + Patience
    PROVE  /\ Sound(Updated(h, does), told)
           /\ h.incident # 0 => \/ Updated(h, does).incident = h.incident
                                \/ Updated(h, does).incident = 0 /\ Updated(h, does).success = clock
           /\ h.degraded /\ ~Updated(h, does).degraded => Updated(h, does).closed = h.incident
  <1>1. h \in States /\ h.init # 0 /\ (h.degraded => h.incident # 0)
    BY DEF Sound
  <1>2. CASE does = "attempt"
    <2>1. Updated(h, does) = h
      BY <1>2 DEF Updated
    <2> QED
      BY <2>1
  <1>3. CASE does = "success"
    <2>1. Updated(h, does) = Succeeded(h)
      BY <1>3 DEF Updated
    <2> DEFINE s == Succeeded(h)
    <2>2. /\ s \in States /\ s.init = h.init /\ s.success = clock /\ s.since = 0 /\ s.incident = 0
          /\ s.degraded = FALSE
          /\ h.degraded /\ h.incident # 0 => s.closed = h.incident
      BY <1>1, SucceededIs
    <2> HIDE DEF s
    <2>3. s.success <= told + Patience
      BY <1>3, <2>2
    <2>4. Sound(s, told)
      BY <1>1, <2>2, <2>3 DEF Sound
    <2> QED
      BY <1>1, <2>1, <2>2, <2>4 DEF s
  <1>4. CASE does = "failure"
    <2>1. Updated(h, does) = Failed(h)
      BY <1>4 DEF Updated
    <2> QED
      BY <1>1, <2>1, FailedIs
  <1>5. CASE does = "observe"
    <2>1. Updated(h, does) = Watched(h)
      BY <1>5 DEF Updated
    <2> QED
      BY <1>1, <2>1, WatchedIs, WatchedSound
  <1> QED
    BY <1>2, <1>3, <1>4, <1>5 DEF Changes

---------------------------------------------------------------------------
(* Records and observations *)

LEMMA StillSound ==
    ASSUME NEW h, NEW a \in Int, NEW b \in Int, a <= b, Sound(h, a)
    PROVE  Sound(h, b)
  <1>1. h \in States /\ h.success \in Int
    BY Constants DEF Sound, States
  <1> QED
    BY <1>1, Constants DEF Sound

LEMMA LoadedSound == Inv => Loaded \in States /\ Sound(Loaded, answered) /\ Sound(Watched(Loaded), answered)
  <1> SUFFICES ASSUME Inv PROVE Sound(Loaded, answered)
    BY WatchedSound DEF Sound
  <1>1. Fresh \in States /\ Fresh.init # 0 /\ Fresh.success = 0 /\ Fresh.since = 0 /\ Fresh.incident = 0
        /\ Fresh.degraded = FALSE
    BY Constants DEF Fresh, States, Inv, ClockOK
  <1>2. 0 <= answered + Patience
    BY Constants DEF Inv, ClockOK
  <1>3. Sound(Fresh, answered)
    BY <1>1, <1>2 DEF Sound
  <1> QED
    BY <1>3 DEF Inv, MemoryOK, Loaded

\* What is kept elsewhere stays sound while answers go on.
LEMMA KeptSound ==
    ASSUME Inv, answered' \in Int, answered <= answered', UNCHANGED <<row, snapshot>>,
           memory' = Null \/ Sound(memory', answered')
    PROVE  MemoryOK'
  <1>1. answered \in Int
    BY Constants DEF Inv, ClockOK
  <1>2. row # Null => Sound(row, answered')
    BY <1>1, StillSound DEF Inv, MemoryOK
  <1>3. snapshot # Null => snapshot.success <= answered' + Patience
    <2>1. snapshot # Null => snapshot.success \in Int
      BY Constants DEF Inv, MemoryOK, Copies
    <2> QED
      BY <1>1, <2>1, Constants DEF Inv, MemoryOK
  <1>4. memory' \in States \cup {Null}
    BY DEF Sound
  <1> QED
    BY <1>2, <1>3, <1>4 DEF Inv, MemoryOK

LEMMA Changed ==
    ASSUME Inv, memory # Null, NEW t \in Tasks, NEW does \in Changes, Change(t, does),
           UNCHANGED <<clock, row, snapshot>>, answered' \in Int, answered <= answered',
           does = "success" => clock <= answered' + Patience,
           t = "worker" \/ UNCHANGED answered
    PROVE  MemoryOK' /\ TasksOK' /\ SavesOK' /\ WaitOK'
  <1> DEFINE h == Updated(memory, does)
  <1> DEFINE began == IF task[t].pc = "wait" THEN task[t].began ELSE clock
  <1> DEFINE new == [task[t] EXCEPT !.pc = "save", !.saves = h, !.began = began]
  <1>1. memory' = h /\ lock' = t /\ dirty' = TRUE /\ lock = "free"
    BY DEF Change, LockFree
  <1>2. task' = [task EXCEPT ![t] = new]
    BY DEF Change
  <1>3. Sound(memory, answered')
    BY StillSound, Constants DEF Inv, MemoryOK, ClockOK
  <1>4. Sound(h, answered') /\ h \in States
    BY <1>3, UpdatedIs DEF Inv, ClockOK, Sound
  <1>5. h # Null
    BY <1>4, HealthAssumption
  <1>6. task \in [Tasks -> Records] /\ task[t] \in Records
    BY DEF Inv, TasksOK
  <1>7. began \in Instants
    BY <1>6 DEF Records, Inv, ClockOK
  <1> HIDE DEF h, began
  <1>8. new \in Records /\ new.pc = "save" /\ new.saves = h
    BY <1>4, <1>6, <1>7 DEF Records
  <1> HIDE DEF new
  <1>9. task' \in [Tasks -> Records] /\ task'[t] = new /\ \A u \in Tasks \ {t} : task'[u] = task[u]
    BY <1>2, <1>6, <1>8
  <1>10. MemoryOK'
    BY <1>1, <1>4, KeptSound
  <1>11. TasksOK'
    <2>1. \A u \in Tasks \ {t} : task[u].pc # "save"
      BY <1>1 DEF Inv, TasksOK, Tasks
    <2>2. \A u \in Tasks : task'[u].pc = "save" <=> lock' = u
      BY <1>1, <1>8, <1>9, <2>1
    <2>3. task'["monitor"].pc # "wait"
      BY <1>8, <1>9 DEF Inv, TasksOK, Tasks
    <2> QED
      BY <1>1, <1>5, <1>9, <2>2, <2>3 DEF TasksOK
  <1>12. SavesOK'
    BY <1>1, <1>8, <1>9 DEF SavesOK, CleanMeansSaved, Tasks
  <1>13. WaitOK'
    <2>1. CASE t = "worker"
      BY <1>8, <1>9, <2>1 DEF WaitOK
    <2>2. CASE t # "worker"
      BY <1>9, <2>2 DEF Inv, WaitOK, Tasks
    <2> QED
      BY <2>1, <2>2
  <1> QED
    BY <1>10, <1>11, <1>12, <1>13

LEMMA Recorded ==
    ASSUME Inv, NEW does \in {"attempt", "success", "failure"}, Record(does),
           UNCHANGED <<clock, row, snapshot>>,
           answered' = IF does = "success" THEN clock ELSE answered
    PROVE  MemoryOK' /\ TasksOK' /\ SavesOK' /\ WaitOK'
  <1>1. memory # Null /\ task["worker"].pc = "rest"
    BY DEF Record
  <1>2. /\ clock \in Int /\ clock <= clock + Patience /\ answered \in Int /\ answered <= answered' /\ answered' \in Int
        /\ clock \in Instants
    BY Constants DEF Inv, ClockOK
  <1>3. CASE LockFree
    <2>1. Change("worker", does)
      BY <1>3 DEF Record
    <2>2. does \in Changes /\ "worker" \in Tasks
      BY DEF Changes, Tasks
    <2>3. does = "success" => clock <= answered' + Patience
      BY <1>2
    <2> QED
      BY <1>1, <1>2, <2>1, <2>2, <2>3, Changed
  <1>4. CASE ~LockFree
    <2> DEFINE new == [AtRest EXCEPT !.pc = "wait", !.does = does, !.began = clock]
    <2>1. task' = [task EXCEPT !["worker"] = new] /\ UNCHANGED <<memory, lock, dirty>>
      BY <1>4 DEF Record
    <2>2. /\ new \in Records /\ new.pc = "wait" /\ new.does = does /\ new.began = clock
      BY <1>2, Constants DEF AtRest, Records
    <2> HIDE DEF new
    <2>3. /\ task' \in [Tasks -> Records] /\ task'["worker"] = new /\ task'["monitor"] = task["monitor"]
          /\ lock # "worker"
      BY <1>1, <2>1, <2>2 DEF Inv, TasksOK, Tasks
    <2>4. MemoryOK'
      <3>1. Sound(memory', answered')
        BY <1>1, <1>2, <2>1, StillSound DEF Inv, MemoryOK
      <3> QED
        BY <1>2, <3>1, KeptSound
    <2>5. TasksOK'
      BY <1>1, <2>1, <2>2, <2>3 DEF Inv, TasksOK, Tasks
    <2>6. SavesOK'
      BY <1>4, <2>1, <2>3 DEF Inv, SavesOK, CleanMeansSaved, LockFree, TasksOK, Tasks
    <2>7. WaitOK'
      BY <1>2, <2>2, <2>3 DEF WaitOK
    <2> QED
      BY <2>4, <2>5, <2>6, <2>7
  <1> QED
    BY <1>3, <1>4

LEMMA RecordingSteps ==
    ASSUME Inv, BeginPoll \/ PollSucceeds \/ PollFails \/ Proceed \/ Observe
    PROVE  MemoryOK' /\ TasksOK' /\ SavesOK' /\ WaitOK'
  <1>1. CASE BeginPoll
    <2>1. Record("attempt") /\ UNCHANGED <<clock, row, snapshot, answered>>
      BY <1>1 DEF BeginPoll, web
    <2> QED
      BY <2>1, Recorded
  <1>2. CASE PollSucceeds
    <2>1. Record("success") /\ UNCHANGED <<clock, row, snapshot>> /\ answered' = clock
      BY <1>2 DEF PollSucceeds, web
    <2> QED
      BY <2>1, Recorded
  <1>3. CASE PollFails
    <2>1. Record("failure") /\ UNCHANGED <<clock, row, snapshot, answered>>
      BY <1>3 DEF PollFails, web
    <2> QED
      BY <2>1, Recorded
  <1>4. CASE Proceed
    <2> DEFINE does == task["worker"].does
    <2>1. task["worker"].pc = "wait" /\ Change("worker", does) /\ UNCHANGED <<clock, row, snapshot, answered>>
      BY <1>4 DEF Proceed, web
    <2>2. memory # Null /\ "worker" \in Tasks /\ task["worker"] \in Records
      BY <2>1 DEF Inv, TasksOK, Tasks
    <2>3. does \in Changes /\ (does = "success" => clock <= answered + Patience)
      BY <2>1, <2>2 DEF Inv, WaitOK, Records, Changes
    <2>4. answered \in Int /\ answered <= answered
      BY Constants DEF Inv, ClockOK
    <2> HIDE DEF does
    <2> QED
      BY <2>1, <2>2, <2>3, <2>4, Changed
  <1>5. CASE Observe
    <2>1. memory # Null /\ Change("monitor", "observe") /\ UNCHANGED <<clock, row, snapshot, answered>>
      BY <1>5 DEF Observe, web
    <2>2. "observe" \in Changes /\ "monitor" \in Tasks /\ answered \in Int /\ answered <= answered
      BY Constants DEF Inv, ClockOK, Changes, Tasks
    <2> QED
      BY <2>1, <2>2, Changed
  <1> QED
    BY <1>1, <1>2, <1>3, <1>4, <1>5

---------------------------------------------------------------------------
(* Saves *)

LEMMA RestIsRecord == AtRest \in Records /\ AtRest.pc = "rest"
  BY Constants DEF AtRest, Records

\* A task that gives the lock back, or leaves off waiting for it.
LEMMA TaskLeaves ==
    ASSUME Inv, NEW t \in Tasks, Leaves(t), UNCHANGED <<clock, answered, memory>>,
           \/ lock = t /\ lock' = "free"
           \/ task[t].pc # "save" /\ UNCHANGED <<lock, dirty>>
    PROVE  TasksOK' /\ WaitOK' /\ (lock' # "free" => task'[lock'] = task[lock'] /\ UNCHANGED <<lock, dirty>>)
  <1>1. task \in [Tasks -> Records] /\ "free" \notin Tasks /\ lock \in Tasks \cup {"free"}
    BY DEF Inv, TasksOK, Tasks
  <1>2. task' = [task EXCEPT ![t] = AtRest]
    BY DEF Leaves
  <1>3. task' \in [Tasks -> Records] /\ task'[t] = AtRest /\ \A u \in Tasks \ {t} : task'[u] = task[u]
    BY <1>1, <1>2, RestIsRecord
  <1>4. \A u \in Tasks : task'[u].pc = "save" <=> lock' = u
    BY <1>1, <1>3, RestIsRecord DEF Inv, TasksOK
  <1>5. lock' \in Tasks \cup {"free"}
    BY <1>1
  <1>6. task'["monitor"].pc # "wait" /\ (memory' = Null => \A u \in Tasks : task'[u].pc = "rest")
    BY <1>3, RestIsRecord DEF Inv, TasksOK, Tasks
  <1>7. TasksOK'
    BY <1>3, <1>4, <1>5, <1>6 DEF TasksOK
  <1>8. WaitOK'
    <2>1. task'["worker"].pc = "wait" => task'["worker"] = task["worker"]
      BY <1>3, RestIsRecord DEF Tasks
    <2> QED
      BY <2>1 DEF Inv, WaitOK
  <1>9. lock' # "free" => task'[lock'] = task[lock'] /\ UNCHANGED <<lock, dirty>>
    BY <1>1, <1>3 DEF Inv, TasksOK
  <1> QED
    BY <1>7, <1>8, <1>9

LEMMA SaveEnds ==
    ASSUME Inv, NEW t \in Tasks, Save(t) \/ SaveFails(t)
    PROVE  MemoryOK' /\ TasksOK' /\ SavesOK' /\ WaitOK'
  <1>1. /\ task[t].pc = "save" /\ Leaves(t) /\ lock' = "free"
        /\ UNCHANGED <<clock, memory, snapshot, answered>>
    BY DEF Save, SaveFails, web
  <1>2. lock = t /\ t # "free" /\ memory # Null
    BY <1>1 DEF Inv, TasksOK, Tasks
  <1>3. dirty /\ task[t].saves = memory
    BY <1>2 DEF Inv, SavesOK
  <1>4. TasksOK' /\ WaitOK'
    BY <1>1, <1>2, TaskLeaves
  <1>5. row' \in {row, memory} /\ (row' = memory \/ UNCHANGED dirty)
    BY <1>3 DEF Save, SaveFails
  <1>6. MemoryOK'
    BY <1>1, <1>2, <1>5 DEF Inv, MemoryOK
  <1>7. SavesOK'
    BY <1>1, <1>3, <1>5 DEF SavesOK, CleanMeansSaved
  <1> QED
    BY <1>4, <1>6, <1>7

LEMMA RecordLost ==
    ASSUME Inv, GiveUp
    PROVE  MemoryOK' /\ TasksOK' /\ SavesOK' /\ WaitOK'
  <1>1. /\ task["worker"].pc = "wait" /\ Leaves("worker") /\ "worker" \in Tasks
        /\ UNCHANGED <<clock, memory, dirty, row, lock, snapshot, answered>>
    BY DEF GiveUp, web, Tasks
  <1>2. TasksOK' /\ WaitOK' /\ (lock' # "free" => task'[lock'] = task[lock'])
    BY <1>1, TaskLeaves
  <1>3. MemoryOK'
    BY <1>1 DEF Inv, MemoryOK
  <1>4. SavesOK'
    BY <1>1, <1>2 DEF Inv, SavesOK, CleanMeansSaved
  <1> QED
    BY <1>2, <1>3, <1>4

---------------------------------------------------------------------------
(* Starts, crashes, and the rest *)

LEMMA Started ==
    ASSUME Inv, Start \/ StartFails
    PROVE  MemoryOK' /\ TasksOK' /\ SavesOK' /\ WaitOK'
  <1>1. /\ memory = Null
        /\ Loaded \in States /\ Sound(Loaded, answered) /\ Sound(Watched(Loaded), answered)
    BY LoadedSound DEF Start, StartFails
  <1>2. /\ UNCHANGED <<clock, lock, task, snapshot, answered>>
        /\ row' \in {row, Loaded, Watched(Loaded)}
        /\ \/ memory' = Null
           \/ memory' = row' /\ row' = Watched(Loaded)
    BY <1>1 DEF Start, StartFails, web
  <1>3. Watched(Loaded) \in States
    BY <1>1 DEF Sound
  <1>4. MemoryOK'
    BY <1>1, <1>2, <1>3 DEF Inv, MemoryOK
  <1>5. \A t \in Tasks : task[t].pc = "rest"
    BY <1>1 DEF Inv, TasksOK
  <1>6. TasksOK' /\ lock = "free"
    BY <1>2, <1>5 DEF Inv, TasksOK
  <1>7. WaitOK'
    BY <1>2, <1>5 DEF WaitOK, Tasks
  <1>8. SavesOK'
    BY <1>2, <1>6 DEF SavesOK, CleanMeansSaved
  <1> QED
    BY <1>4, <1>6, <1>7, <1>8

LEMMA Crashed ==
    ASSUME Inv, Crash
    PROVE  MemoryOK' /\ TasksOK' /\ SavesOK' /\ WaitOK'
  <1>1. /\ memory # Null /\ memory' = Null /\ lock' = "free"
        /\ task' = [t \in Tasks |-> AtRest]
        /\ UNCHANGED <<clock, snapshot, answered>>
        /\ row' \in {row} \cup {task[t].saves : t \in {u \in Tasks : task[u].pc = "save"}}
    BY DEF Crash, web
  <1>2. row' \in {row, memory}
    <2>1. \A t \in Tasks : task[t].pc = "save" => t # "free" /\ lock = t
      BY DEF Inv, TasksOK, Tasks
    <2>2. \A t \in Tasks : task[t].pc = "save" => task[t].saves = memory
      BY <2>1 DEF Inv, SavesOK
    <2> QED
      BY <1>1, <2>2
  <1>3. MemoryOK'
    BY <1>1, <1>2 DEF Inv, MemoryOK
  <1>4. TasksOK'
    BY <1>1, RestIsRecord DEF TasksOK, Tasks
  <1>5. WaitOK'
    BY <1>1, RestIsRecord DEF WaitOK, Tasks
  <1>6. SavesOK'
    BY <1>1 DEF SavesOK, CleanMeansSaved
  <1> QED
    BY <1>3, <1>4, <1>5, <1>6

LEMMA OtherSteps ==
    ASSUME Inv, CallZZap \/ Refresh \/ Tick \/ UNCHANGED vars
    PROVE  MemoryOK' /\ TasksOK' /\ SavesOK' /\ WaitOK'
  <1>1. UNCHANGED <<memory, dirty, row, lock, task, answered>>
    BY DEF CallZZap, Refresh, Tick, vars, web
  <1>2. TasksOK' /\ SavesOK'
    BY <1>1 DEF Inv, TasksOK, SavesOK, CleanMeansSaved
  <1>3. CASE UNCHANGED <<clock, snapshot>>
    BY <1>1, <1>2, <1>3 DEF Inv, MemoryOK, WaitOK
  <1>4. CASE Refresh
    <2>1. UNCHANGED clock /\ snapshot' = IF row = Null THEN Null ELSE Shown(row)
      BY <1>4 DEF Refresh
    <2>2. row # Null => /\ Shown(row) \in Copies /\ Shown(row).init = row.init /\ Shown(row).success = row.success
      BY DEF Shown, Copies, States, Inv, MemoryOK
    <2>3. MemoryOK'
      BY <1>1, <2>1, <2>2 DEF Inv, MemoryOK, Sound
    <2>4. WaitOK'
      BY <1>1, <2>1 DEF Inv, WaitOK
    <2> QED
      BY <1>2, <2>3, <2>4
  <1>5. CASE Tick
    <2>1. UNCHANGED snapshot /\ clock' = clock + 1 /\ \A t \in Tasks : Busy(t) => clock - task[t].began < Patience
      BY <1>5 DEF Tick, web
    <2>2. MemoryOK'
      BY <1>1, <2>1 DEF Inv, MemoryOK
    <2>3. WaitOK'
      <3>1. clock \in Int /\ task["worker"].began \in Int /\ Patience \in Int
        <4>1. task["worker"] \in Records
          BY DEF Inv, TasksOK, Tasks
        <4>2. task["worker"].began \in Instants
          BY <4>1 DEF Records
        <4>3. clock \in Instants
          BY DEF Inv, ClockOK
        <4>4. Instants \subseteq Int /\ Patience \in Int
          BY Constants
        <4>5. clock \in Int
          BY <4>3, <4>4
        <4>6. task["worker"].began \in Int
          BY <4>2, <4>4
        <4> QED
          BY <4>4, <4>5, <4>6
      <3>2. task["worker"].pc = "wait" => clock - task["worker"].began < Patience
        BY <2>1 DEF Busy, Tasks
      <3> QED
        BY <1>1, <2>1, <3>1, <3>2 DEF Inv, WaitOK
    <2> QED
      BY <1>2, <2>2, <2>3
  <1>6. CASE CallZZap \/ UNCHANGED vars
    BY <1>3, <1>6 DEF CallZZap, vars, web
  <1> QED
    BY <1>4, <1>5, <1>6

LEMMA StepClock == Inv /\ [Next]_vars => ClockOK'
  <1> SUFFICES ASSUME Inv, [Next]_vars PROVE ClockOK'
    OBVIOUS
  <1>1. /\ clock \in Int /\ 0 < clock /\ clock <= MaxTime /\ 0 <= answered /\ answered <= clock /\ answered \in Int
        /\ MaxTime \in Nat \ {0} /\ CacheFor \in Nat /\ Patience \in Nat
    BY Constants DEF Inv, ClockOK
  <1>2. ASSUME retryAfter' \in Instants, dirty' \in BOOLEAN, UNCHANGED expires,
               \/ UNCHANGED <<clock, answered>>
               \/ UNCHANGED clock /\ answered' = clock
               \/ UNCHANGED answered /\ clock' = clock + 1 /\ clock < MaxTime
        PROVE  ClockOK'
    BY <1>1, <1>2 DEF Inv, ClockOK, Instants
  <1>3. retryAfter \in Instants /\ dirty \in BOOLEAN /\ 0 \in Instants
    BY Constants DEF Inv, ClockOK
  <1>4. CASE Start \/ StartFails \/ Crash \/ CallZZap
    BY <1>2, <1>3, <1>4 DEF Start, StartFails, Crash, CallZZap, web
  <1>5. CASE BeginPoll \/ PollSucceeds \/ PollFails \/ Proceed \/ Observe
    <2>1. dirty' \in BOOLEAN
      BY <1>3, <1>5 DEF BeginPoll, PollSucceeds, PollFails, Proceed, Observe, Record, Change
    <2>2. /\ UNCHANGED <<clock, retryAfter, expires>>
          /\ UNCHANGED answered \/ answered' = clock
      BY <1>5 DEF BeginPoll, PollSucceeds, PollFails, Proceed, Observe, web
    <2> QED
      BY <1>2, <1>3, <2>1, <2>2
  <1>6. ASSUME NEW t \in Tasks, Save(t) \/ SaveFails(t)
        PROVE  ClockOK'
    <2>1. dirty' \in BOOLEAN /\ UNCHANGED <<clock, answered, expires>>
      BY <1>3, <1>6 DEF Save, SaveFails, web
    <2>2. Sooner(clock + Patience) \in Instants
      BY <1>1 DEF Sooner, Instants
    <2>3. retryAfter' \in Instants
      BY <1>3, <1>6, <2>2 DEF Save, SaveFails, PauseOf
    <2> QED
      BY <1>2, <2>1, <2>3
  <1>7. CASE GiveUp \/ Tick \/ UNCHANGED vars
    BY <1>2, <1>3, <1>7 DEF GiveUp, Tick, vars, web
  <1>8. CASE Refresh
    <2>1. UNCHANGED <<clock, answered, retryAfter, dirty>> /\ expires' = clock + CacheFor
      BY <1>8 DEF Refresh
    <2> QED
      BY <1>1, <2>1 DEF Inv, ClockOK
  <1> QED
    BY <1>4, <1>5, <1>6, <1>7, <1>8 DEF Next, Polling, Recording

LEMMA InitInv == Init => Inv
  <1> SUFFICES ASSUME Init PROVE Inv
    OBVIOUS
  <1>1. ClockOK
    <2>1. /\ clock = 1 /\ retryAfter = 0 /\ expires = 0 /\ answered = 0 /\ dirty \in BOOLEAN
      BY DEF Init
    <2> QED
      BY <2>1, Constants DEF ClockOK, Instants
  <1>2. MemoryOK
    BY DEF Init, MemoryOK
  <1>3. TasksOK /\ WaitOK
    BY RestIsRecord DEF Init, TasksOK, WaitOK, Tasks
  <1>4. SavesOK
    BY DEF Init, SavesOK, CleanMeansSaved
  <1> QED
    BY <1>1, <1>2, <1>3, <1>4 DEF Inv

LEMMA InvStep == Inv /\ [Next]_vars => Inv'
  <1> SUFFICES ASSUME Inv, [Next]_vars PROVE Inv'
    OBVIOUS
  <1>1. ClockOK'
    BY StepClock
  <1>2. MemoryOK' /\ TasksOK' /\ SavesOK' /\ WaitOK'
    <2>1. CASE BeginPoll \/ PollSucceeds \/ PollFails \/ Proceed \/ Observe
      BY <2>1, RecordingSteps
    <2>2. ASSUME NEW t \in Tasks, Save(t) \/ SaveFails(t)
          PROVE  MemoryOK' /\ TasksOK' /\ SavesOK' /\ WaitOK'
      BY <2>2, SaveEnds
    <2>3. CASE GiveUp
      BY <2>3, RecordLost
    <2>4. CASE Start \/ StartFails
      BY <2>4, Started
    <2>5. CASE Crash
      BY <2>5, Crashed
    <2>6. CASE CallZZap \/ Refresh \/ Tick \/ UNCHANGED vars
      BY <2>6, OtherSteps
    <2> QED
      BY <2>1, <2>2, <2>3, <2>4, <2>5, <2>6 DEF Next, Polling, Recording
  <1> QED
    BY <1>1, <1>2 DEF Inv

---------------------------------------------------------------------------
(* What a step does to the memory *)

LEMMA MemoryStep ==
    ASSUME Inv, [Next]_vars, memory # Null, memory' # Null
    PROVE  UNCHANGED memory \/ \E does \in Changes : memory' = Updated(memory, does)
  <1>1. \A does : Record(does) => UNCHANGED memory \/ memory' = Updated(memory, does)
    BY DEF Record, Change
  <1>2. CASE BeginPoll
    BY <1>1, <1>2 DEF BeginPoll, Changes
  <1>3. CASE PollSucceeds
    BY <1>1, <1>3 DEF PollSucceeds, Changes
  <1>4. CASE PollFails
    BY <1>1, <1>4 DEF PollFails, Changes
  <1>5. CASE Proceed
    <2>1. task["worker"].does \in Changes
      BY <1>5 DEF Proceed, Inv, TasksOK, WaitOK, Records, Tasks, Changes
    <2> QED
      BY <1>5, <2>1 DEF Proceed, Change
  <1>6. CASE Observe
    BY <1>6 DEF Observe, Change, Changes
  <1>7. CASE Start \/ StartFails \/ Crash
    BY <1>7 DEF Start, StartFails, Crash
  <1>8. CASE CallZZap \/ Refresh \/ Tick \/ GiveUp \/ UNCHANGED vars
    BY <1>8 DEF CallZZap, Refresh, Tick, GiveUp, vars
  <1>9. CASE \E t \in Tasks : Save(t) \/ SaveFails(t)
    BY <1>9 DEF Save, SaveFails
  <1> QED
    BY <1>2, <1>3, <1>4, <1>5, <1>6, <1>7, <1>8, <1>9 DEF Next, Polling, Recording

LEMMA MemoryChange ==
    ASSUME Inv, [Next]_vars, memory # Null, memory' # Null
    PROVE  /\ memory.incident # 0 => \/ memory'.incident = memory.incident
                                     \/ memory'.incident = 0 /\ memory'.success = clock
           /\ memory.degraded /\ ~memory'.degraded => memory'.closed = memory.incident
  <1>1. clock \in Int /\ clock \in Instants /\ clock # 0 /\ clock <= clock + Patience /\ answered \in Int /\ answered <= clock
    BY Constants DEF Inv, ClockOK
  <1>2. Sound(memory, clock)
    BY <1>1, StillSound DEF Inv, MemoryOK
  <1>3. CASE UNCHANGED memory
    BY <1>3
  <1>4. ASSUME NEW does \in Changes, memory' = Updated(memory, does)
        PROVE  /\ memory.incident # 0 => \/ memory'.incident = memory.incident
                                         \/ memory'.incident = 0 /\ memory'.success = clock
               /\ memory.degraded /\ ~memory'.degraded => memory'.closed = memory.incident
    BY <1>1, <1>2, <1>4, UpdatedIs
  <1> QED
    BY <1>3, <1>4, MemoryStep

LEMMA IncidentLoaded ==
    ASSUME Inv, [Next]_vars, memory = Null, memory' # Null, row # Null, row.incident # 0
    PROVE  memory'.incident = row.incident
  <1>1. Start
    <2>1. ~(StartFails \/ Crash \/ CallZZap \/ Refresh \/ Tick \/ GiveUp \/ UNCHANGED vars)
      BY DEF StartFails, Crash, CallZZap, Refresh, Tick, GiveUp, vars
    <2>2. ~(BeginPoll \/ PollSucceeds \/ PollFails \/ Observe)
      BY DEF BeginPoll, PollSucceeds, PollFails, Observe, Record
    <2>3. ~Proceed
      BY DEF Inv, TasksOK, Tasks, Proceed
    <2>4. ~ \E t \in Tasks : Save(t) \/ SaveFails(t)
      BY DEF Save, SaveFails
    <2> QED
      BY <2>1, <2>2, <2>3, <2>4 DEF Next, Polling, Recording
  <1>2. memory' = Watched(row) /\ row \in States
    BY <1>1 DEF Start, Loaded, Inv, MemoryOK
  <1> QED
    BY <1>2, WatchedIs

---------------------------------------------------------------------------
(* The theorems *)

\* Inv holds in every state: see its parts above.
THEOREM InvHolds == Spec => []Inv
  BY InitInv, InvStep, PTL DEF Spec

\* The state is well formed: an incident has a start exactly when there are failures
\* or an alarm, and a task that saves holds the lock.
THEOREM TypeCorrect == Spec => []TypeOK
  BY InvHolds, InvImplies, PTL

\* When the lock is free and the state counts as clean, the row is the state, however
\* the saves of the two tasks end (poll_health.py).
THEOREM CleanHolds == Spec => []CleanMeansSaved
  BY InvHolds, InvImplies, PTL

\* An outage is never silent: a scrape that is answered shows the alarm when no poll
\* has succeeded for the threshold and the time a record may take.
THEOREM OutageShown == Spec => []NoSilentOutage
  BY InvHolds, InvImplies, PTL

\* The start of an incident moves neither by later failures, nor by the alarm, nor by
\* a restart of the worker: only a success ends it.
THEOREM IncidentHolds == Spec => IncidentStable
  <1>1. Inv /\ [Next]_vars =>
          [ /\ memory # Null /\ memory' # Null /\ memory.incident # 0 =>
                 \/ memory'.incident = memory.incident
                 \/ memory'.incident = 0 /\ memory'.success = clock
            /\ memory = Null /\ memory' # Null /\ row # Null /\ row.incident # 0 =>
                 memory'.incident = row.incident ]_vars
    BY MemoryChange, IncidentLoaded
  <1> QED
    BY <1>1, InvHolds, PTL DEF Spec, IncidentStable

\* An alarm ends with the record of an incident that has the start announced with it.
THEOREM AlarmClosed == Spec => AlarmIsClosed
  <1>1. Inv /\ [Next]_vars =>
          [memory # Null /\ memory' # Null /\ memory.degraded /\ ~memory'.degraded =>
             memory'.closed = memory.incident]_vars
    BY MemoryChange
  <1> QED
    BY <1>1, InvHolds, PTL DEF Spec, AlarmIsClosed
==========================================================================
