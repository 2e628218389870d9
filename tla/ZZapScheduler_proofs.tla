----------------------- MODULE ZZapScheduler_proofs -----------------------
(* Proofs about ZZapScheduler, for every finite set of threads, every set of attempts
   and all intervals, pauses and bounds.  Inv adds to the properties what makes them
   inductive: that the limiter knows of every call and lets a poll that was popped
   begin at once, that a fetch that is owed has its row, and by how much the verdict
   is ahead of the flag in each place of the iteration.  *)
EXTENDS ZZapScheduler, SequenceTheorems, FiniteSetTheorems, TLAPS

---------------------------------------------------------------------------
(* Maxima, and sequences that list a set *)

LEMMA MaxOfTwo == ASSUME NEW a \in Int, NEW b \in Int
                  PROVE  Max({a, b}) = IF a >= b THEN a ELSE b
  <1>1. \A x \in {a, b} : (\A y \in {a, b} : x >= y) => x = IF a >= b THEN a ELSE b
    OBVIOUS
  <1>2. \E x \in {a, b} : \A y \in {a, b} : x >= y
    OBVIOUS
  <1> QED
    BY <1>1, <1>2 DEF Max

LEMMA MinOfTwo == ASSUME NEW a \in Int, NEW b \in Int
                  PROVE  Min({a, b}) = IF a <= b THEN a ELSE b
  <1>1. \A x \in {a, b} : (\A y \in {a, b} : x <= y) => x = IF a <= b THEN a ELSE b
    OBVIOUS
  <1>2. \E x \in {a, b} : \A y \in {a, b} : x <= y
    OBVIOUS
  <1> QED
    BY <1>1, <1>2 DEF Min

\* Each of the orders in which a finite set may be enumerated names every element once.
LEMMA OrderOfSet ==
    ASSUME NEW S, IsFiniteSet(S), NEW order \in SetToSeqs(S)
    PROVE  order \in Seq(S) /\ Range(order) = S /\ IsInjective(order)
  <1> DEFINE n == Cardinality(S)
  <1>1. n \in Nat
    BY FS_CardinalityType
  <1>2. order \in [1 .. n -> S] /\ \A i, j \in 1 .. n : i # j => order[i] # order[j]
    BY DEF SetToSeqs
  <1>3. IsFiniteSet(1 .. n) /\ Cardinality(1 .. n) = n
    BY <1>1, FS_Interval
  <1>4. order \in Injection(1 .. n, S)
    BY <1>2 DEF Injection, IsInjective
  <1>5. order \in Surjection(1 .. n, S)
    BY <1>3, <1>4, FS_Injection
  <1>6. Range(order) = S
    BY <1>2, <1>5 DEF Surjection, Range
  <1>7. order \in Seq(S)
    BY <1>1, <1>2, SeqDef
  <1> QED
    BY <1>2, <1>6, <1>7 DEF IsInjective

LEMMA MaxOfThree == ASSUME NEW a \in Nat, NEW b \in Nat, NEW c \in Nat
                    PROVE  /\ Max({a, b, c}) \in Nat
                           /\ a <= Max({a, b, c}) /\ b <= Max({a, b, c}) /\ c <= Max({a, b, c})
  <1>1. \E x \in {a, b, c} : \A y \in {a, b, c} : x >= y
    <2>1. CASE a >= b /\ a >= c
      BY <2>1
    <2>2. CASE b >= a /\ b >= c
      BY <2>2
    <2>3. CASE c >= a /\ c >= b
      BY <2>3
    <2> QED
      BY <2>1, <2>2, <2>3
  <1>2. Max({a, b, c}) \in {a, b, c} /\ \A y \in {a, b, c} : Max({a, b, c}) >= y
    BY <1>1 DEF Max
  <1> QED
    BY <1>2

\* The sequence lists the elements of the set, each once.
Lists(seq, S) == Range(seq) = S /\ IsInjective(seq)

LEMMA EmptyLists == Lists(<<>>, {})
  BY DEF Lists, Range, IsInjective

LEMMA ConcatLists ==
    ASSUME NEW T, NEW q \in Seq(T), NEW r \in Seq(T), NEW S, NEW R,
           Lists(q, S), Lists(r, R), S \cap R = {}
    PROVE  q \o r \in Seq(T) /\ Lists(q \o r, S \cup R)
  <1> DEFINE qr == q \o r
  <1> DEFINE m == Len(q)
  <1> DEFINE n == Len(r)
  <1>1. /\ m \in Nat /\ n \in Nat
        /\ DOMAIN q = 1 .. m /\ DOMAIN r = 1 .. n
    BY LenProperties
  <1>2. /\ qr \in Seq(T) /\ Len(qr) = m + n
        /\ \A i \in 1 .. m + n : qr[i] = IF i <= m THEN q[i] ELSE r[i - m]
    BY ConcatProperties
  <1>3. DOMAIN qr = 1 .. m + n
    BY <1>2, LenProperties
  <1> HIDE DEF qr, m, n
  <1>4. \A i \in 1 .. m : i \in 1 .. m + n /\ qr[i] = q[i]
    BY <1>1, <1>2
  <1>5. \A i \in 1 .. n : m + i \in 1 .. m + n /\ qr[m + i] = r[i]
    BY <1>1, <1>2
  <1>6. ASSUME NEW i \in 1 .. m + n
        PROVE  \/ i \in 1 .. m /\ qr[i] = q[i] /\ qr[i] \in S
               \/ i - m \in 1 .. n /\ qr[i] = r[i - m] /\ qr[i] \in R
    <2>1. CASE i <= m
      <3>1. i \in 1 .. m /\ qr[i] = q[i]
        BY <1>1, <1>2, <2>1
      <3> QED
        BY <1>1, <3>1 DEF Lists, Range
    <2>2. CASE ~ i <= m
      <3>1. i - m \in 1 .. n /\ qr[i] = r[i - m]
        BY <1>1, <1>2, <2>2
      <3> QED
        BY <1>1, <3>1 DEF Lists, Range
    <2> QED
      BY <2>1, <2>2
  <1>7. Range(qr) = S \cup R
    <2>1. Range(qr) \subseteq S \cup R
      BY <1>3, <1>6 DEF Range
    <2>2. S \subseteq Range(qr)
      BY <1>1, <1>3, <1>4 DEF Range, Lists
    <2>3. R \subseteq Range(qr)
      BY <1>1, <1>3, <1>5 DEF Range, Lists
    <2> QED
      BY <2>1, <2>2, <2>3
  <1>8. ASSUME NEW i \in 1 .. m + n, NEW j \in 1 .. m + n, qr[i] = qr[j]
        PROVE  i = j
    <2>1. CASE i \in 1 .. m /\ qr[i] = q[i] /\ qr[i] \in S
      <3>1. j \in 1 .. m /\ qr[j] = q[j]
        BY <1>6, <1>8, <2>1
      <3> QED
        BY <1>1, <1>8, <2>1, <3>1 DEF Lists, IsInjective
    <2>2. CASE i - m \in 1 .. n /\ qr[i] = r[i - m] /\ qr[i] \in R
      <3>1. j - m \in 1 .. n /\ qr[j] = r[j - m]
        BY <1>6, <1>8, <2>2
      <3>2. i - m = j - m
        BY <1>1, <1>8, <2>2, <3>1 DEF Lists, IsInjective
      <3> QED
        BY <1>1, <3>2
    <2> QED
      BY <1>6, <2>1, <2>2
  <1>9. IsInjective(qr)
    BY <1>3, <1>8 DEF IsInjective
  <1> QED
    BY <1>2, <1>7, <1>9 DEF Lists, qr

LEMMA AppendLists ==
    ASSUME NEW T, NEW q \in Seq(T), NEW x \in T, NEW S, Lists(q, S), x \notin S
    PROVE  Append(q, x) \in Seq(T) /\ Lists(Append(q, x), S \cup {x})
  <1> DEFINE r == <<x>>
  <1>1. r \in Seq(T) /\ Append(q, x) = q \o r
    BY AppendIsConcat
  <1>2. Lists(r, {x})
    BY DEF Lists, Range, IsInjective
  <1>3. S \cap {x} = {}
    OBVIOUS
  <1> HIDE DEF r
  <1>4. q \o r \in Seq(T) /\ Lists(q \o r, S \cup {x})
    BY <1>1, <1>2, <1>3, ConcatLists
  <1> QED
    BY <1>1, <1>4

LEMMA TailLists ==
    ASSUME NEW T, NEW q \in Seq(T), q # <<>>, NEW S, Lists(q, S)
    PROVE  /\ Head(q) \in S /\ Head(q) \in T
           /\ Tail(q) \in Seq(T) /\ Lists(Tail(q), S \ {Head(q)})
  <1> DEFINE n == Len(q)
  <1> DEFINE t == Tail(q)
  <1>1. n \in Nat \ {0} /\ DOMAIN q = 1 .. n /\ Head(q) = q[1]
    BY LenProperties, EmptySeq
  <1>2. /\ Head(q) \in T /\ t \in Seq(T) /\ Len(t) = n - 1
        /\ \A i \in 1 .. n - 1 : t[i] = q[i + 1]
    BY HeadTailProperties
  <1>3. DOMAIN t = 1 .. n - 1
    BY <1>2, LenProperties
  <1> HIDE DEF n, t
  <1>4. \A i, j \in 1 .. n : q[i] = q[j] => i = j
    BY <1>1 DEF Lists, IsInjective
  <1>5. S = {q[i] : i \in 1 .. n}
    BY <1>1 DEF Lists, Range
  <1>6. Range(t) = {t[i] : i \in 1 .. n - 1}
    BY <1>3 DEF Range
  <1>7. \A i \in 1 .. n - 1 : i + 1 \in 1 .. n /\ i + 1 # 1 /\ t[i] = q[i + 1]
    BY <1>1, <1>2
  <1>8. \A k \in 1 .. n : k # 1 => k - 1 \in 1 .. n - 1 /\ t[k - 1] = q[k]
    BY <1>1, <1>2
  <1>9. 1 \in 1 .. n
    BY <1>1
  <1>10. Range(t) \subseteq S \ {q[1]}
    BY <1>4, <1>5, <1>6, <1>7, <1>9
  <1>11. S \ {q[1]} \subseteq Range(t)
    BY <1>5, <1>6, <1>8
  <1>12. \A i, j \in 1 .. n - 1 : t[i] = t[j] => i = j
    <2> SUFFICES ASSUME NEW i \in 1 .. n - 1, NEW j \in 1 .. n - 1, t[i] = t[j]
                 PROVE  i = j
      OBVIOUS
    <2>1. i + 1 = j + 1
      BY <1>4, <1>7
    <2> QED
      BY <1>1, <2>1
  <1>13. Lists(t, S \ {q[1]})
    BY <1>3, <1>10, <1>11, <1>12 DEF Lists, IsInjective
  <1> QED
    BY <1>1, <1>2, <1>5, <1>9, <1>13 DEF t

---------------------------------------------------------------------------
(* The invariant *)

Places == {"top", "schedule", "act", "wait", "calling", "answered", "failed"}
Calling == {"wait", "calling", "answered", "failed"}
Iterations == [pc : Places, op : Actions \cup Attempts \cup {Null}, left : 0 .. MaxCalls,
               began : 0 .. MaxPause, error : Errors \cup {"none"}]
Ages == 0 .. Interval \cup {Null}

Pending == pendingFetches \cup (IF pendingSummary THEN {Summary} ELSE {})

QueueOK ==
    /\ queue \in Seq(Actions)
    /\ pendingSummary \in BOOLEAN /\ pendingFetches \subseteq Threads
    /\ Lists(queue, Pending)

ClockOK == scheduledAgo \in Ages /\ finishedAgo \in Ages /\ quiet \in Ages /\ holdOff \in 0 .. MaxPause

WorkerOK ==
    /\ worker \in Iterations
    /\ worker.error # "none" <=> worker.pc = "failed"
    /\ worker.op # Null <=> worker.pc \in Calling

RestOK ==
    /\ due \subseteq Attempts /\ worker.op \notin due
    /\ stored \subseteq Threads /\ owed \subseteq Threads
    /\ crashes \in 0 .. MaxCrashes

\* The limiter knows of every call of the process, and the slot that a poll was
\* popped with is still free when its only call begins.
LimiterInv ==
    /\ finishedAgo = quiet
    /\ worker.op = Summary => worker.left <= 1 /\ (worker.pc = "wait" => SlotFree)

\* A fetch that is owed has its row, so that its turn is not wasted.
OwedInv == owed \subseteq stored /\ FetchesOwed

\* Between an answer and the transaction that tells of it, the verdict is ahead.
AuthInv ==
    /\ authFailed \in BOOLEAN /\ verdict \in {"none", "accepted", "denied", "unsaved"}
    /\ CASE worker.pc = "answered" -> verdict = "accepted"
         [] worker.pc = "failed" /\ worker.error = "denied" -> verdict = "denied"
         [] OTHER -> /\ verdict = "denied" => authFailed
                     /\ verdict = "accepted" => ~authFailed

Inv == QueueOK /\ ClockOK /\ WorkerOK /\ RestOK /\ LimiterInv /\ OwedInv /\ AuthInv

LEMMA PauseType == MaxPause \in Nat /\ \A error \in Errors : Pause(error) \in 0 .. MaxPause
  <1>1. /\ ErrorPause \in Nat /\ LimitedPause \in Nat /\ DeniedPause \in Nat
    BY SchedulerAssumption
  <1>2. /\ MaxPause \in Nat
        /\ ErrorPause <= MaxPause /\ LimitedPause <= MaxPause /\ DeniedPause <= MaxPause
    BY <1>1, MaxOfThree DEF MaxPause
  <1> QED
    BY <1>1, <1>2 DEF Pause, Errors

LEMMA InvIsTyped == Inv => TypeOK /\ PendingMatchesQueue /\ FetchesOwed /\ AuthFlagCurrent
  <1> SUFFICES ASSUME Inv PROVE TypeOK /\ PendingMatchesQueue /\ FetchesOwed /\ AuthFlagCurrent
    OBVIOUS
  <1>1. TypeOK
    BY DEF Inv, QueueOK, ClockOK, WorkerOK, RestOK, AuthInv, TypeOK, Iterations, Places, Calling, Ages
  <1>2. PendingMatchesQueue
    BY DEF Inv, QueueOK, Lists, IsInjective, Pending, PendingMatchesQueue
  <1>3. FetchesOwed
    BY DEF Inv, OwedInv
  <1>4. AuthFlagCurrent
    BY DEF Inv, WorkerOK, Calling, AuthInv, AuthFlagCurrent, Ready
  <1> QED
    BY <1>1, <1>2, <1>3, <1>4

LEMMA RestType == /\ AtTop \in Iterations /\ AtTop.pc = "top" /\ AtTop.op = Null /\ AtTop.left = 0
                  /\ AtTop.began = 0 /\ AtTop.error = "none"
  <1>1. 0 \in 0 .. MaxPause /\ 0 \in 0 .. MaxCalls
    BY PauseType, SchedulerAssumption
  <1> QED
    BY <1>1 DEF AtTop, Iterations, Places

LEMMA InitInv == Init => Inv
  <1> SUFFICES ASSUME Init PROVE Inv
    OBVIOUS
  <1>1. QueueOK
    <2>1. Pending = {}
      BY DEF Init, Pending
    <2>2. queue = <<>> /\ Lists(queue, Pending)
      BY <2>1, EmptyLists, Zenon DEF Init
    <2>3. queue \in Seq(Actions)
      BY <2>2, EmptySeq, Zenon
    <2>4. pendingSummary \in BOOLEAN /\ pendingFetches \subseteq Threads
      BY DEF Init
    <2> QED
      BY <2>2, <2>3, <2>4 DEF QueueOK
  <1>2. ClockOK
    BY PauseType DEF Init, ClockOK, Ages
  <1>3. WorkerOK
    BY RestType DEF Init, WorkerOK, Calling
  <1>4. RestOK
    BY RestType, SchedulerAssumption DEF Init, RestOK
  <1>5. LimiterInv
    BY RestType, SchedulerAssumption DEF Init, LimiterInv
  <1>6. OwedInv
    BY DEF Init, OwedInv, FetchesOwed
  <1>7. AuthInv
    BY RestType DEF Init, AuthInv
  <1> QED
    BY <1>1, <1>2, <1>3, <1>4, <1>5, <1>6, <1>7 DEF Inv

---------------------------------------------------------------------------
(* What an action makes of the iteration *)

Becomes(pc, op, left, began, error) ==
    /\ worker' \in Iterations
    /\ worker'.pc = pc /\ worker'.op = op /\ worker'.left = left
    /\ worker'.began = began /\ worker'.error = error

LEMMA MovesTo ==
    ASSUME worker \in Iterations, NEW pc \in Places, worker' = [worker EXCEPT !.pc = pc]
    PROVE  Becomes(pc, worker.op, worker.left, worker.began, worker.error)
  BY DEF Becomes, Iterations

LEMMA StartsWith ==
    ASSUME NEW op \in Actions \cup Attempts, NEW calls \in 0 .. MaxCalls,
           worker' = [AtTop EXCEPT !.pc = "wait", !.op = op, !.left = calls]
    PROVE  Becomes("wait", op, calls, 0, "none")
  BY RestType DEF Becomes, Iterations, Places

LEMMA FailsWith ==
    ASSUME worker \in Iterations, NEW error \in Errors, worker' = [worker EXCEPT !.pc = "failed", !.error = error]
    PROVE  Becomes("failed", worker.op, worker.left, worker.began, error)
  BY DEF Becomes, Iterations, Places

LEMMA BackToTop == ASSUME worker' = AtTop PROVE Becomes("top", Null, 0, 0, "none")
  BY RestType DEF Becomes

LEMMA BackToSchedule ==
    ASSUME worker' = [AtTop EXCEPT !.pc = "schedule"] PROVE Becomes("schedule", Null, 0, 0, "none")
  BY RestType DEF Becomes, Iterations, Places

LEMMA TopBecomes ==
    ASSUME NoAction \/ FinishSummary \/ FinishFetch \/ ActionFails \/ Crash
    PROVE  Becomes("top", Null, 0, 0, "none")
  <1>1. worker' = AtTop
    BY DEF NoAction, FinishSummary, FinishFetch, ActionFails, Crash
  <1> QED
    BY <1>1, BackToTop

LEMMA ScheduleBecomes ==
    ASSUME LeaveOutbound \/ FinishOutbound \/ OutboundFails
    PROVE  Becomes("schedule", Null, 0, 0, "none")
  <1>1. worker' = [AtTop EXCEPT !.pc = "schedule"]
    BY DEF LeaveOutbound, FinishOutbound, OutboundFails
  <1> QED
    BY <1>1, BackToSchedule

LEMMA NextPlaceBecomes ==
    ASSUME WorkerOK
    PROVE  /\ ClaimOther => Becomes("schedule", worker.op, worker.left, worker.began, worker.error)
           /\ Schedule => Becomes("act", worker.op, worker.left, worker.began, worker.error)
           /\ BeginCall => Becomes("calling", worker.op, worker.left, worker.began, worker.error)
  <1>1. worker \in Iterations /\ "schedule" \in Places /\ "act" \in Places /\ "calling" \in Places
    BY DEF WorkerOK, Places
  <1>2. /\ ClaimOther => worker' = [worker EXCEPT !.pc = "schedule"]
        /\ Schedule => worker' = [worker EXCEPT !.pc = "act"]
        /\ BeginCall => worker' = [worker EXCEPT !.pc = "calling"]
    BY DEF ClaimOther, Schedule, BeginCall
  <1> QED
    BY <1>1, <1>2, MovesTo

LEMMA ClaimBecomes ==
    ASSUME NEW a \in Attempts, ClaimOutbound(a)
    PROVE  \E calls \in 0 .. MaxCalls : Becomes("wait", a, calls, 0, "none")
  <1>1. PICK calls \in 1 .. MaxCalls : worker' = [AtTop EXCEPT !.pc = "wait", !.op = a, !.left = calls]
    BY DEF ClaimOutbound
  <1>2. calls \in 0 .. MaxCalls
    BY SchedulerAssumption
  <1> QED
    BY <1>1, <1>2, StartsWith

LEMMA PopBecomes ==
    ASSUME Inv, PopNext
    PROVE  /\ queue # <<>> /\ Head(queue) \in Actions /\ Head(queue) \in Pending
           /\ \/ Head(queue) \in Threads \ stored /\ Becomes("top", Null, 0, 0, "none")
              \/ /\ Head(queue) \notin Threads \ stored
                 /\ \E calls \in 0 .. MaxCalls :
                     /\ Head(queue) = Summary => calls = 1
                     /\ Becomes("wait", Head(queue), calls, 0, "none")
  <1> DEFINE head == Head(queue)
  <1>1. queue # <<>> /\ queue \in Seq(Actions) /\ Lists(queue, Pending)
    BY DEF Inv, QueueOK, PopNext, MayPop
  <1>2. head \in Actions /\ head \in Pending
    BY <1>1, TailLists
  <1>3. \/ head \in Threads \ stored /\ worker' = AtTop
        \/ /\ head \notin Threads \ stored
           /\ \E calls \in 1 .. MaxCalls :
                worker' = [AtTop EXCEPT !.pc = "wait", !.op = head,
                                        !.left = IF head = Summary THEN 1 ELSE calls]
    BY DEF PopNext
  <1> HIDE DEF head
  <1>4. CASE head \in Threads \ stored /\ worker' = AtTop
    BY <1>1, <1>2, <1>4, BackToTop DEF head
  <1>5. CASE /\ head \notin Threads \ stored
             /\ \E calls \in 1 .. MaxCalls :
                  worker' = [AtTop EXCEPT !.pc = "wait", !.op = head,
                                          !.left = IF head = Summary THEN 1 ELSE calls]
    <2>1. PICK calls \in 1 .. MaxCalls :
                  worker' = [AtTop EXCEPT !.pc = "wait", !.op = head,
                                          !.left = IF head = Summary THEN 1 ELSE calls]
      BY <1>5
    <2> DEFINE left == IF head = Summary THEN 1 ELSE calls
    <2>2. left \in 0 .. MaxCalls /\ (head = Summary => left = 1)
      BY SchedulerAssumption
    <2>3. worker' = [AtTop EXCEPT !.pc = "wait", !.op = head, !.left = left]
      BY <2>1
    <2> HIDE DEF left
    <2>4. Becomes("wait", head, left, 0, "none")
      BY <1>2, <2>2, <2>3, StartsWith
    <2> QED
      BY <1>1, <1>2, <1>5, <2>2, <2>4 DEF head
  <1> QED
    BY <1>3, <1>4, <1>5

LEMMA AnswerBecomes ==
    ASSUME WorkerOK, CallAnswered
    PROVE  \/ /\ worker.left > 1 /\ UNCHANGED verdict
              /\ Becomes("wait", worker.op, worker.left - 1, worker.began, worker.error)
           \/ verdict' = "accepted" /\ Becomes("answered", worker.op, 0, worker.began, worker.error)
  <1> DEFINE less == worker.left - 1
  <1>1. worker \in Iterations /\ worker.left \in 0 .. MaxCalls /\ 0 \in 0 .. MaxCalls /\ MaxCalls \in Nat
    BY SchedulerAssumption DEF WorkerOK, Iterations
  <1>2. \/ worker.left > 1 /\ worker' = [worker EXCEPT !.pc = "wait", !.left = less] /\ UNCHANGED verdict
        \/ worker' = [worker EXCEPT !.pc = "answered", !.left = 0] /\ verdict' = "accepted"
    <2>1. CASE worker.left > 1
      BY <2>1 DEF CallAnswered
    <2>2. CASE ~ worker.left > 1
      BY <2>2 DEF CallAnswered
    <2> QED
      BY <2>1, <2>2
  <1>3. worker.left > 1 => less \in 0 .. MaxCalls
    BY <1>1
  <1> HIDE DEF less
  <1>4. CASE worker.left > 1 /\ worker' = [worker EXCEPT !.pc = "wait", !.left = less] /\ UNCHANGED verdict
    <2>1. Becomes("wait", worker.op, less, worker.began, worker.error)
      BY <1>1, <1>3, <1>4 DEF Becomes, Iterations, Places
    <2> QED
      BY <1>4, <2>1 DEF less
  <1>5. CASE worker' = [worker EXCEPT !.pc = "answered", !.left = 0] /\ verdict' = "accepted"
    BY <1>1, <1>5 DEF Becomes, Iterations, Places
  <1> QED
    BY <1>2, <1>4, <1>5

LEMMA FailureBecomes ==
    ASSUME WorkerOK
    PROVE  /\ SaveFails => \E error \in {"error", "limited"} :
                Becomes("failed", worker.op, worker.left, worker.began, error)
           /\ CallFails => \E error \in Errors :
                /\ Becomes("failed", worker.op, worker.left, worker.began, error)
                /\ verdict' = IF error = "denied" THEN "denied" ELSE verdict
  <1>1. worker \in Iterations /\ {"error", "limited"} \subseteq Errors
    BY DEF WorkerOK, Errors
  <1>2. SaveFails => \E error \in {"error", "limited"} :
            worker' = [worker EXCEPT !.pc = "failed", !.error = error]
    BY DEF SaveFails
  <1>3. CallFails => \E error \in Errors :
            /\ worker' = [worker EXCEPT !.pc = "failed", !.error = error]
            /\ verdict' = IF error = "denied" THEN "denied" ELSE verdict
    BY DEF CallFails
  <1> QED
    BY <1>1, <1>2, <1>3, FailsWith

LEMMA AgedType ==
    ASSUME NEW limit \in Nat, NEW age \in 0 .. limit \cup {Null}
    PROVE  /\ Aged(age, limit) \in 0 .. limit \cup {Null}
           /\ age # Null => Aged(age, limit) \in age .. limit
           /\ age = Null => Aged(age, limit) = Null
  <1>1. Null \notin Int
    BY SchedulerAssumption
  <1>2. CASE age = Null
    BY <1>1, <1>2 DEF Aged
  <1>3. CASE age # Null
    <2>1. age \in Int /\ age + 1 \in Int /\ age \in 0 .. limit
      BY <1>3
    <2>2. Min({age + 1, limit}) = IF age + 1 <= limit THEN age + 1 ELSE limit
      BY <2>1, MinOfTwo
    <2>3. Aged(age, limit) \in age .. limit
      BY <1>3, <2>1, <2>2 DEF Aged
    <2> QED
      BY <1>3, <2>1, <2>3
  <1> QED
    BY <1>2, <1>3

LEMMA TickBecomes ==
    ASSUME WorkerOK, Tick
    PROVE  \E began \in 0 .. MaxPause : Becomes(worker.pc, worker.op, worker.left, began, worker.error)
  <1> DEFINE began == IF worker.op \in Actions THEN Aged(worker.began, MaxPause) ELSE 0
  <1>1. worker \in Iterations /\ worker' = [worker EXCEPT !.began = began]
    BY DEF WorkerOK, Tick
  <1>2. worker.began \in 0 .. MaxPause /\ worker.began # Null /\ MaxPause \in Nat
    BY <1>1, PauseType, SchedulerAssumption DEF Iterations
  <1>3. Aged(worker.began, MaxPause) \in worker.began .. MaxPause
    BY <1>2, AgedType
  <1>4. began \in 0 .. MaxPause
    BY <1>2, <1>3
  <1> HIDE DEF began
  <1>5. Becomes(worker.pc, worker.op, worker.left, began, worker.error)
    BY <1>1, <1>4 DEF Becomes, Iterations
  <1> QED
    BY <1>4, <1>5

---------------------------------------------------------------------------
(* The queue and its flags *)

LEMMA FetchesEnqueued ==
    ASSUME QueueOK, NEW threads \in SUBSET Threads, EnqueueFetches(threads), UNCHANGED pendingSummary
    PROVE  QueueOK'
  <1> DEFINE new == threads \ pendingFetches
  <1>1. IsFiniteSet(new) /\ new \subseteq Actions /\ Pending \cap new = {}
    BY SchedulerAssumption, FS_Subset DEF Actions, Pending
  <1>2. PICK order \in SetToSeqs(new) : queue' = queue \o order
    BY DEF EnqueueFetches
  <1>3. order \in Seq(new) /\ Lists(order, new)
    BY <1>1, OrderOfSet DEF Lists
  <1>4. pendingFetches' = pendingFetches \cup threads /\ Pending' = Pending \cup new
    BY DEF EnqueueFetches, Pending
  <1> HIDE DEF new
  <1>5. order \in Seq(Actions)
    BY <1>1, <1>3, SeqMonotonic
  <1>6. queue \o order \in Seq(Actions) /\ Lists(queue \o order, Pending \cup new)
    BY <1>1, <1>3, <1>5, ConcatLists DEF QueueOK
  <1>7. queue' \in Seq(Actions) /\ Lists(queue', Pending')
    BY <1>2, <1>4, <1>6
  <1>8. pendingSummary' \in BOOLEAN /\ pendingFetches' \subseteq Threads
    BY <1>4 DEF QueueOK
  <1> QED
    BY <1>7, <1>8 DEF QueueOK

LEMMA SummaryEnqueued ==
    ASSUME QueueOK, EnqueueSummary, UNCHANGED pendingFetches
    PROVE  QueueOK'
  <1>1. CASE pendingSummary
    <2>1. UNCHANGED queue /\ pendingSummary' = TRUE
      BY <1>1 DEF EnqueueSummary
    <2>2. UNCHANGED Pending
      BY <1>1, <2>1 DEF Pending
    <2> QED
      BY <2>1, <2>2 DEF QueueOK
  <1>2. CASE ~pendingSummary
    <2>1. queue' = Append(queue, Summary) /\ pendingSummary' = TRUE
      BY <1>2 DEF EnqueueSummary
    <2>2. Summary \in Actions /\ Summary \notin Pending /\ Pending' = Pending \cup {Summary}
      BY <1>2, <2>1, SchedulerAssumption DEF Actions, Pending, QueueOK
    <2>3. Append(queue, Summary) \in Seq(Actions) /\ Lists(Append(queue, Summary), Pending \cup {Summary})
      BY <2>2, AppendLists DEF QueueOK
    <2>4. queue' \in Seq(Actions) /\ Lists(queue', Pending')
      BY <2>1, <2>2, <2>3
    <2> QED
      BY <2>1, <2>4 DEF QueueOK
  <1> QED
    BY <1>1, <1>2

LEMMA ActionPopped ==
    ASSUME QueueOK, PopNext
    PROVE  QueueOK'
  <1> DEFINE head == Head(queue)
  <1>1. queue # <<>> /\ queue \in Seq(Actions) /\ Lists(queue, Pending)
    BY DEF QueueOK, PopNext, MayPop
  <1>2. head \in Actions /\ Tail(queue) \in Seq(Actions) /\ Lists(Tail(queue), Pending \ {head})
    BY <1>1, TailLists
  <1>3. /\ queue' = Tail(queue) /\ pendingSummary' = (pendingSummary /\ head # Summary)
        /\ pendingFetches' = pendingFetches \ {head}
    BY DEF PopNext
  <1> HIDE DEF head
  <1>4. Pending' = Pending \ {head}
    <2>1. CASE pendingSummary /\ head # Summary
      BY <1>3, <2>1 DEF Pending
    <2>2. CASE ~(pendingSummary /\ head # Summary)
      BY <1>3, <2>2, SchedulerAssumption DEF Pending, QueueOK
    <2> QED
      BY <2>1, <2>2
  <1>5. queue' \in Seq(Actions) /\ Lists(queue', Pending')
    BY <1>2, <1>3, <1>4
  <1>6. pendingSummary' \in BOOLEAN /\ pendingFetches' \subseteq Threads
    BY <1>3 DEF QueueOK
  <1> QED
    BY <1>5, <1>6 DEF QueueOK

LEMMA FetchRequeued ==
    ASSUME Inv, ActionFails
    PROVE  QueueOK' /\ pendingFetches \subseteq pendingFetches' /\ (worker.op \in Threads => worker.op \in pendingFetches')
  <1>1. CASE worker.op = Summary
    <2>1. UNCHANGED <<queue, pendingSummary, pendingFetches>>
      BY <1>1 DEF ActionFails, Requeue
    <2> QED
      BY <1>1, <2>1, SchedulerAssumption DEF Inv, QueueOK, Pending
  <1>2. CASE worker.op # Summary
    <2>1. worker.op \in Threads /\ {worker.op} \in SUBSET Threads
      BY <1>2 DEF ActionFails, Actions
    <2>2. EnqueueFetches({worker.op}) /\ UNCHANGED pendingSummary
      BY <1>2 DEF ActionFails, Requeue
    <2>3. QueueOK'
      BY <2>1, <2>2, FetchesEnqueued DEF Inv
    <2>4. pendingFetches' = pendingFetches \cup {worker.op}
      BY <2>2 DEF EnqueueFetches
    <2> QED
      BY <2>3, <2>4
  <1> QED
    BY <1>1, <1>2

LEMMA StepQueue == Inv /\ [Next]_vars => QueueOK'
  <1> SUFFICES ASSUME Inv, [Next]_vars PROVE QueueOK'
    OBVIOUS
  <1> USE DEF Inv
  <1>1. CASE UNCHANGED <<queue, pendingSummary, pendingFetches>>
    BY <1>1 DEF QueueOK, Pending
  <1>2. CASE Schedule
    <2>1. CASE SummaryDue
      BY <1>2, <2>1, SummaryEnqueued DEF Schedule
    <2>2. CASE ~SummaryDue
      BY <1>1, <1>2, <2>2 DEF Schedule
    <2> QED
      BY <2>1, <2>2
  <1>3. CASE PopNext
    BY <1>3, ActionPopped
  <1>4. CASE FinishSummary
    <2>1. PICK threads \in SUBSET Threads : EnqueueFetches(threads)
      BY <1>4 DEF FinishSummary
    <2>2. UNCHANGED pendingSummary
      BY <1>4 DEF FinishSummary
    <2> QED
      BY <2>1, <2>2, FetchesEnqueued
  <1>5. CASE SaveFails
    <2>1. PICK threads \in SUBSET Threads : EnqueueFetches(threads)
      BY <1>5 DEF SaveFails
    <2>2. UNCHANGED pendingSummary
      BY <1>5 DEF SaveFails
    <2> QED
      BY <2>1, <2>2, FetchesEnqueued
  <1>6. CASE ActionFails
    BY <1>6, FetchRequeued
  <1>7. CASE Crash
    <2>1. queue' = <<>> /\ pendingSummary' = FALSE /\ pendingFetches' = {}
      BY <1>7 DEF Crash
    <2>2. Pending' = {}
      BY <2>1 DEF Pending
    <2>3. queue' \in Seq(Actions) /\ Lists(queue', Pending')
      BY <2>1, <2>2, EmptyLists, EmptySeq, Zenon
    <2> QED
      BY <2>1, <2>3 DEF QueueOK
  <1>8. CASE Job \/ Call \/ \E a \in Attempts : Submit(a)
    BY <1>1, <1>8 DEF Job, Call, Submit, ClaimOther, LeaveOutbound, FinishOutbound, OutboundFails, ClaimOutbound,
                      BeginCall, CallAnswered, CallFails, memory
  <1>9. CASE NoAction \/ FinishFetch \/ Tick \/ UNCHANGED vars
    BY <1>1, <1>9 DEF NoAction, FinishFetch, Tick, memory, vars
  <1> QED
    BY <1>2, <1>3, <1>4, <1>5, <1>6, <1>7, <1>8, <1>9 DEF Next, Polling

---------------------------------------------------------------------------
(* The clock and the worker *)

LEMMA HoldOffType ==
    ASSUME ClockOK, WorkerOK, NEW error \in Errors
    PROVE  HoldOffAfter(error) \in 0 .. MaxPause
  <1> DEFINE rest == Pause(error) - worker.began
  <1>1. holdOff \in 0 .. MaxPause /\ rest \in Int /\ rest <= MaxPause /\ MaxPause \in Nat
    BY PauseType DEF ClockOK, WorkerOK, Iterations
  <1> HIDE DEF rest
  <1>2. Max({holdOff, rest}) = IF holdOff >= rest THEN holdOff ELSE rest
    BY <1>1, MaxOfTwo
  <1> QED
    BY <1>1, <1>2 DEF HoldOffAfter, rest

LEMMA StepClock == Inv /\ [Next]_vars => ClockOK'
  <1> SUFFICES ASSUME Inv, [Next]_vars PROVE ClockOK'
    OBVIOUS
  <1>1. Interval \in Nat \ {0} /\ 0 \in Ages /\ Null \in Ages
    BY SchedulerAssumption DEF Ages
  <1>2. CASE UNCHANGED <<scheduledAgo, finishedAgo, quiet, holdOff>>
    BY <1>2 DEF Inv, ClockOK
  <1>3. CASE Schedule
    BY <1>1, <1>3 DEF Inv, ClockOK, Schedule, history
  <1>4. CASE CallAnswered \/ CallFails
    BY <1>1, <1>4 DEF Inv, ClockOK, CallAnswered, CallFails, Ended, MarkFinished
  <1>5. CASE ActionFails
    <2>1. worker.error \in Errors
      BY <1>5 DEF Inv, WorkerOK, Iterations, ActionFails
    <2>2. HoldOffAfter(worker.error) \in 0 .. MaxPause
      BY <2>1, HoldOffType DEF Inv
    <2> QED
      BY <1>5, <2>2 DEF Inv, ClockOK, ActionFails, history
  <1>6. CASE Crash
    BY <1>1, <1>6, PauseType DEF ClockOK, Crash
  <1>7. CASE Tick
    <2>1. /\ scheduledAgo' = Aged(scheduledAgo, Interval)
          /\ finishedAgo' = Aged(finishedAgo, Interval) /\ quiet' = Aged(quiet, Interval)
      BY <1>7 DEF Tick
    <2>2. scheduledAgo' \in Ages /\ finishedAgo' \in Ages /\ quiet' \in Ages
      BY <1>1, <2>1, AgedType DEF Inv, ClockOK, Ages
    <2>3. holdOff \in 0 .. MaxPause /\ holdOff - 1 \in Int /\ MaxPause \in Nat
      BY PauseType DEF Inv, ClockOK
    <2>4. Max({0, holdOff - 1}) = IF 0 >= holdOff - 1 THEN 0 ELSE holdOff - 1
      BY <2>3, MaxOfTwo
    <2>5. holdOff' = Max({0, holdOff - 1})
      BY <1>7 DEF Tick
    <2>6. holdOff' \in 0 .. MaxPause
      BY <2>3, <2>4, <2>5
    <2> QED
      BY <2>2, <2>6 DEF ClockOK
  <1>8. CASE Job \/ BeginCall \/ \E a \in Attempts : Submit(a)
    BY <1>2, <1>8 DEF Job, Submit, ClaimOther, LeaveOutbound, FinishOutbound, OutboundFails, ClaimOutbound,
                      BeginCall, memory, history
  <1>9. CASE NoAction \/ PopNext \/ FinishSummary \/ FinishFetch \/ SaveFails \/ UNCHANGED vars
    BY <1>2, <1>9 DEF NoAction, PopNext, FinishSummary, FinishFetch, SaveFails, memory, history, vars
  <1> QED
    BY <1>3, <1>4, <1>5, <1>6, <1>7, <1>8, <1>9 DEF Next, Polling, Call

LEMMA StepWorker == Inv /\ [Next]_vars => WorkerOK'
  <1> SUFFICES ASSUME Inv, [Next]_vars PROVE WorkerOK'
    OBVIOUS
  <1>1. ASSUME NEW pc \in Places, NEW op, NEW left, NEW began, NEW error,
               Becomes(pc, op, left, began, error),
               error # "none" <=> pc = "failed", op # Null <=> pc \in Calling
        PROVE  WorkerOK'
    BY <1>1 DEF Becomes, WorkerOK
  <1>2. /\ worker.error # "none" <=> worker.pc = "failed"
        /\ worker.op # Null <=> worker.pc \in Calling
        /\ worker.pc \in Places
    BY DEF Inv, WorkerOK, Iterations
  <1>3. Null \notin Actions \cup Attempts
    BY SchedulerAssumption DEF Actions
  <1>4. CASE UNCHANGED worker
    BY <1>4 DEF Inv, WorkerOK
  <1>5. CASE NoAction \/ FinishSummary \/ FinishFetch \/ ActionFails \/ Crash
    <2>1. Becomes("top", Null, 0, 0, "none")
      BY <1>5, TopBecomes
    <2> QED
      BY <1>1, <2>1 DEF Places, Calling
  <1>6. CASE LeaveOutbound \/ FinishOutbound \/ OutboundFails
    <2>1. Becomes("schedule", Null, 0, 0, "none")
      BY <1>6, ScheduleBecomes
    <2> QED
      BY <1>1, <2>1 DEF Places, Calling
  <1>7. CASE ClaimOther
    <2>1. Becomes("schedule", worker.op, worker.left, worker.began, worker.error) /\ worker.pc = "top"
      BY <1>7, NextPlaceBecomes DEF Inv, ClaimOther
    <2> QED
      BY <1>1, <1>2, <2>1 DEF Places, Calling
  <1>8. CASE Schedule
    <2>1. Becomes("act", worker.op, worker.left, worker.began, worker.error) /\ worker.pc = "schedule"
      BY <1>8, NextPlaceBecomes DEF Inv, Schedule
    <2> QED
      BY <1>1, <1>2, <2>1 DEF Places, Calling
  <1>9. CASE BeginCall
    <2>1. Becomes("calling", worker.op, worker.left, worker.began, worker.error) /\ worker.pc = "wait"
      BY <1>9, NextPlaceBecomes DEF Inv, BeginCall
    <2> QED
      BY <1>1, <1>2, <2>1 DEF Places, Calling
  <1>10. ASSUME NEW a \in Attempts, ClaimOutbound(a)
         PROVE  WorkerOK'
    <2>1. PICK calls \in 0 .. MaxCalls : Becomes("wait", a, calls, 0, "none")
      BY <1>10, ClaimBecomes
    <2> QED
      BY <1>1, <1>3, <2>1 DEF Places, Calling
  <1>11. CASE PopNext
    <2>1. CASE Becomes("top", Null, 0, 0, "none")
      BY <1>1, <2>1 DEF Places, Calling
    <2>2. CASE Head(queue) \in Actions /\ \E calls \in 0 .. MaxCalls : Becomes("wait", Head(queue), calls, 0, "none")
      BY <1>1, <1>3, <2>2 DEF Places, Calling
    <2> QED
      BY <1>11, <2>1, <2>2, PopBecomes
  <1>12. CASE CallAnswered
    <2>1. worker.pc = "calling"
      BY <1>12 DEF CallAnswered, Ended
    <2>2. CASE Becomes("wait", worker.op, worker.left - 1, worker.began, worker.error)
      BY <1>1, <1>2, <2>1, <2>2 DEF Places, Calling
    <2>3. CASE Becomes("answered", worker.op, 0, worker.began, worker.error)
      BY <1>1, <1>2, <2>1, <2>3 DEF Places, Calling
    <2> QED
      BY <1>12, <2>2, <2>3, AnswerBecomes DEF Inv
  <1>13. CASE CallFails \/ SaveFails
    <2>1. worker.pc \in {"calling", "answered"}
      BY <1>13 DEF CallFails, SaveFails, Ended
    <2>2. \E error \in Errors : Becomes("failed", worker.op, worker.left, worker.began, error)
      BY <1>13, FailureBecomes DEF Inv, Errors
    <2> QED
      BY <1>1, <1>2, <2>1, <2>2 DEF Places, Calling, Errors
  <1>14. CASE Tick
    BY <1>1, <1>2, <1>14, TickBecomes DEF Inv
  <1>15. CASE (\E a \in Attempts : Submit(a)) \/ UNCHANGED vars
    BY <1>4, <1>15 DEF Submit, vars
  <1> QED
    BY <1>5, <1>6, <1>7, <1>8, <1>9, <1>10, <1>11, <1>12, <1>13, <1>14, <1>15 DEF Next, Job, Polling, Call

LEMMA StepRest == Inv /\ [Next]_vars => RestOK'
  <1> SUFFICES ASSUME Inv, [Next]_vars PROVE RestOK'
    OBVIOUS
  <1>1. /\ due \subseteq Attempts /\ worker.op \notin due /\ Null \notin Attempts /\ Actions \cap Attempts = {}
        /\ stored \subseteq Threads /\ owed \subseteq Threads /\ crashes \in 0 .. MaxCrashes
        /\ MaxCrashes \in Nat
    BY SchedulerAssumption DEF Inv, RestOK, Actions
  <1>2. ASSUME due' \subseteq due, worker'.op = worker.op \/ worker'.op \notin due',
               UNCHANGED <<stored, owed, crashes>>
        PROVE  RestOK'
    BY <1>1, <1>2 DEF RestOK
  <1>3. CASE NoAction \/ FinishSummary \/ FinishFetch \/ ActionFails \/ Crash
    <2>1. worker'.op = Null
      BY <1>3, TopBecomes DEF Becomes
    <2>2. UNCHANGED due
      BY <1>3 DEF NoAction, FinishSummary, FinishFetch, ActionFails, Crash
    <2>3. stored' \subseteq Threads /\ owed' \subseteq Threads
      BY <1>1, <1>3 DEF NoAction, FinishSummary, FinishFetch, ActionFails, Crash, history
    <2>4. crashes' \in 0 .. MaxCrashes
      BY <1>1, <1>3 DEF NoAction, FinishSummary, FinishFetch, ActionFails, Crash
    <2> QED
      BY <1>1, <2>1, <2>2, <2>3, <2>4 DEF RestOK
  <1>4. CASE LeaveOutbound \/ FinishOutbound \/ OutboundFails
    <2>1. worker'.op = Null
      BY <1>4, ScheduleBecomes DEF Becomes
    <2>2. UNCHANGED <<due, stored, owed, crashes>>
      BY <1>4 DEF LeaveOutbound, FinishOutbound, OutboundFails, history
    <2> QED
      BY <1>1, <1>2, <2>1, <2>2
  <1>5. CASE ClaimOther \/ Schedule \/ BeginCall
    <2>1. worker'.op = worker.op
      BY <1>5, NextPlaceBecomes DEF Inv, Becomes
    <2>2. UNCHANGED <<due, stored, owed, crashes>>
      BY <1>5 DEF ClaimOther, Schedule, BeginCall, history
    <2> QED
      BY <1>2, <2>1, <2>2
  <1>6. ASSUME NEW a \in Attempts, ClaimOutbound(a)
        PROVE  RestOK'
    <2>1. worker'.op = a
      BY <1>6, ClaimBecomes DEF Becomes
    <2>2. due' = due \ {a} /\ UNCHANGED <<stored, owed, crashes>>
      BY <1>6 DEF ClaimOutbound, Claimed, history
    <2> QED
      BY <1>2, <2>1, <2>2
  <1>7. CASE PopNext
    <2>1. worker'.op \in Actions \cup {Null}
      BY <1>7, PopBecomes DEF Becomes
    <2>2. UNCHANGED <<due, stored, owed, crashes>>
      BY <1>7 DEF PopNext, history
    <2> QED
      BY <1>1, <1>2, <2>1, <2>2
  <1>8. CASE CallAnswered
    <2>1. worker'.op = worker.op
      BY <1>8, AnswerBecomes DEF Inv, Becomes
    <2>2. UNCHANGED <<due, stored, owed, crashes>>
      BY <1>8 DEF CallAnswered
    <2> QED
      BY <1>2, <2>1, <2>2
  <1>9. CASE CallFails \/ SaveFails
    <2>1. worker'.op = worker.op
      BY <1>9, FailureBecomes DEF Inv, Becomes
    <2>2. UNCHANGED <<due, stored, owed, crashes>>
      BY <1>9 DEF CallFails, SaveFails
    <2> QED
      BY <1>2, <2>1, <2>2
  <1>10. CASE Tick
    <2>1. worker'.op = worker.op
      BY <1>10, TickBecomes DEF Inv, Becomes
    <2>2. UNCHANGED <<due, stored, owed, crashes>>
      BY <1>10 DEF Tick
    <2> QED
      BY <1>2, <2>1, <2>2
  <1>11. ASSUME NEW a \in Attempts, Submit(a)
         PROVE  RestOK'
    BY <1>1, <1>11 DEF Submit, history, RestOK
  <1>12. CASE UNCHANGED vars
    BY <1>2, <1>12 DEF vars, history
  <1> QED
    BY <1>3, <1>4, <1>5, <1>6, <1>7, <1>8, <1>9, <1>10, <1>11, <1>12 DEF Next, Job, Polling, Call

---------------------------------------------------------------------------
(* The limiter *)

LEMMA StepLimiter == Inv /\ [Next]_vars => LimiterInv'
  <1> SUFFICES ASSUME Inv, [Next]_vars PROVE LimiterInv'
    OBVIOUS
  <1>1. /\ finishedAgo = quiet /\ finishedAgo \in Ages
        /\ worker.op = Summary => worker.left <= 1 /\ (worker.pc = "wait" => SlotFree)
        /\ worker.left \in Int
    BY DEF Inv, LimiterInv, ClockOK, WorkerOK, Iterations
  <1>2. Null # Summary /\ Summary \notin Attempts
    BY SchedulerAssumption
  <1>3. ASSUME UNCHANGED <<finishedAgo, quiet>>, worker'.op # Summary
        PROVE  LimiterInv'
    BY <1>1, <1>3 DEF LimiterInv
  <1>4. CASE NoAction \/ FinishSummary \/ FinishFetch \/ ActionFails
    <2>1. worker'.op = Null
      BY <1>4, TopBecomes DEF Becomes
    <2>2. UNCHANGED <<finishedAgo, quiet>>
      BY <1>4 DEF NoAction, FinishSummary, FinishFetch, ActionFails, memory, history
    <2> QED
      BY <1>2, <1>3, <2>1, <2>2
  <1>5. CASE Crash
    <2>1. worker'.op = Null
      BY <1>5, TopBecomes DEF Becomes
    <2> QED
      BY <1>2, <1>5, <2>1 DEF Crash, LimiterInv
  <1>6. CASE LeaveOutbound \/ FinishOutbound \/ OutboundFails
    <2>1. worker'.op = Null
      BY <1>6, ScheduleBecomes DEF Becomes
    <2>2. UNCHANGED <<finishedAgo, quiet>>
      BY <1>6 DEF LeaveOutbound, FinishOutbound, OutboundFails, memory, history
    <2> QED
      BY <1>2, <1>3, <2>1, <2>2
  <1>7. CASE ClaimOther \/ Schedule \/ BeginCall
    <2>1. worker'.op = worker.op /\ worker'.left = worker.left /\ worker'.pc # "wait"
      BY <1>7, NextPlaceBecomes DEF Inv, Becomes
    <2>2. UNCHANGED <<finishedAgo, quiet>>
      BY <1>7 DEF ClaimOther, Schedule, BeginCall, memory, history
    <2> QED
      BY <1>1, <2>1, <2>2 DEF LimiterInv
  <1>8. ASSUME NEW a \in Attempts, ClaimOutbound(a)
        PROVE  LimiterInv'
    <2>1. worker'.op = a
      BY <1>8, ClaimBecomes DEF Becomes
    <2>2. UNCHANGED <<finishedAgo, quiet>>
      BY <1>8 DEF ClaimOutbound, memory, history
    <2> QED
      BY <1>2, <1>3, <2>1, <2>2
  <1>9. CASE PopNext
    <2>1. worker'.op = Summary => worker'.left <= 1
      BY <1>2, <1>9, PopBecomes DEF Becomes
    <2>2. UNCHANGED <<finishedAgo, quiet>> /\ SlotFree
      BY <1>9 DEF PopNext, MayPop, history
    <2> QED
      BY <1>1, <2>1, <2>2 DEF LimiterInv, SlotFree
  <1>10. CASE CallAnswered
    <2>1. finishedAgo' = quiet'
      BY <1>10 DEF CallAnswered, Ended, MarkFinished
    <2>2. CASE worker.left > 1 /\ Becomes("wait", worker.op, worker.left - 1, worker.began, worker.error)
      BY <1>1, <2>1, <2>2 DEF LimiterInv, Becomes
    <2>3. CASE Becomes("answered", worker.op, 0, worker.began, worker.error)
      BY <2>1, <2>3 DEF LimiterInv, Becomes
    <2> QED
      BY <1>10, <2>2, <2>3, AnswerBecomes DEF Inv
  <1>11. CASE CallFails
    <2>1. finishedAgo' = quiet'
      BY <1>11 DEF CallFails, Ended, MarkFinished
    <2>2. worker'.pc = "failed" /\ worker'.op = worker.op /\ worker'.left = worker.left
      BY <1>11, FailureBecomes DEF Inv, Becomes
    <2> QED
      BY <1>1, <2>1, <2>2 DEF LimiterInv
  <1>12. CASE SaveFails
    <2>1. UNCHANGED <<finishedAgo, quiet>>
      BY <1>12 DEF SaveFails
    <2>2. worker'.pc = "failed" /\ worker'.op = worker.op /\ worker'.left = worker.left
      BY <1>12, FailureBecomes DEF Inv, Becomes
    <2> QED
      BY <1>1, <2>1, <2>2 DEF LimiterInv
  <1>13. CASE Tick
    <2>1. worker'.pc = worker.pc /\ worker'.op = worker.op /\ worker'.left = worker.left
      BY <1>13, TickBecomes DEF Inv, Becomes
    <2>2. finishedAgo' = Aged(finishedAgo, Interval) /\ quiet' = Aged(quiet, Interval)
      BY <1>13 DEF Tick
    <2>3. Interval \in Nat
      BY SchedulerAssumption
    <2>4. /\ finishedAgo # Null => finishedAgo' \in finishedAgo .. Interval
          /\ finishedAgo = Null => finishedAgo' = Null
      BY <1>1, <2>2, <2>3, AgedType DEF Ages
    <2>5. SlotFree => SlotFree'
      BY <1>1, <2>3, <2>4 DEF SlotFree, Ages
    <2> QED
      BY <1>1, <2>1, <2>2, <2>5 DEF LimiterInv
  <1>14. CASE UNCHANGED vars \/ \E a \in Attempts : Submit(a)
    <2>1. UNCHANGED <<finishedAgo, quiet, worker>>
      BY <1>14 DEF Submit, memory, history, vars
    <2> QED
      BY <1>1, <2>1 DEF LimiterInv, SlotFree
  <1> QED
    BY <1>4, <1>5, <1>6, <1>7, <1>8, <1>9, <1>10, <1>11, <1>12, <1>13, <1>14 DEF Next, Job, Polling, Call

LEMMA CallSpaced ==
    ASSUME Inv, [Next]_vars, worker.pc # "calling", worker'.pc = "calling"
    PROVE  quiet = Null \/ quiet >= Interval
  <1>1. CASE BeginCall
    <2>1. SlotFree /\ finishedAgo = quiet
      BY <1>1 DEF Inv, LimiterInv, BeginCall
    <2> QED
      BY <2>1 DEF SlotFree
  <1>2. CASE NoAction \/ FinishSummary \/ FinishFetch \/ ActionFails \/ Crash
    BY <1>2, TopBecomes DEF Becomes
  <1>3. CASE LeaveOutbound \/ FinishOutbound \/ OutboundFails
    BY <1>3, ScheduleBecomes DEF Becomes
  <1>4. CASE ClaimOther \/ Schedule
    BY <1>4, NextPlaceBecomes DEF Inv, Becomes
  <1>5. CASE \E a \in Attempts : ClaimOutbound(a)
    BY <1>5, ClaimBecomes DEF Becomes
  <1>6. CASE PopNext
    BY <1>6, PopBecomes DEF Becomes
  <1>7. CASE CallAnswered \/ CallFails
    BY <1>7 DEF CallAnswered, CallFails, Ended
  <1>8. CASE SaveFails
    BY <1>8, FailureBecomes DEF Inv, Becomes
  <1>9. CASE Tick
    BY <1>9, TickBecomes DEF Inv, Becomes
  <1>10. CASE UNCHANGED vars \/ \E a \in Attempts : Submit(a)
    BY <1>10 DEF vars, Submit
  <1> QED
    BY <1>1, <1>2, <1>3, <1>4, <1>5, <1>6, <1>7, <1>8, <1>9, <1>10 DEF Next, Job, Polling, Call

---------------------------------------------------------------------------
(* The fetches that are owed *)

LEMMA StepOwed == Inv /\ [Next]_vars => OwedInv'
  <1> SUFFICES ASSUME Inv, [Next]_vars PROVE OwedInv'
    OBVIOUS
  <1>1. owed \subseteq stored /\ owed \subseteq pendingFetches \cup {worker.op} /\ owed \subseteq Threads
    BY DEF Inv, OwedInv, FetchesOwed, RestOK
  <1>2. /\ worker.op # Null => worker.pc \in Calling
        /\ Summary \notin Threads /\ Threads \cap Attempts = {} /\ Null \notin Threads
    BY SchedulerAssumption DEF Inv, WorkerOK
  <1>3. ASSUME owed' \subseteq owed, stored \subseteq stored', pendingFetches \subseteq pendingFetches',
               worker'.op = worker.op \/ worker.op \notin Threads \/ worker.op \in pendingFetches' \/ worker.op \notin owed'
        PROVE  OwedInv'
    BY <1>1, <1>3 DEF OwedInv, FetchesOwed
  <1>4. CASE NoAction
    <2>1. worker.op = Null
      BY <1>2, <1>4 DEF NoAction, Calling
    <2>2. UNCHANGED <<owed, stored, pendingFetches>>
      BY <1>4 DEF NoAction, memory, history
    <2> QED
      BY <1>2, <1>3, <2>1, <2>2
  <1>5. CASE FinishSummary
    <2>1. PICK threads \in SUBSET Threads :
            pendingFetches' = pendingFetches \cup threads /\ stored' = stored \cup threads /\ owed' = owed \cup threads
      BY <1>5 DEF FinishSummary, EnqueueFetches
    <2>2. worker.op = Summary
      BY <1>5 DEF FinishSummary
    <2> QED
      BY <1>1, <1>2, <2>1, <2>2 DEF OwedInv, FetchesOwed
  <1>6. CASE FinishFetch
    <2>1. owed' = owed \ {worker.op} /\ UNCHANGED <<stored, pendingFetches>>
      BY <1>6 DEF FinishFetch, memory
    <2> QED
      BY <1>3, <2>1
  <1>7. CASE ActionFails
    <2>1. UNCHANGED <<stored, owed>> /\ pendingFetches \subseteq pendingFetches'
      BY <1>7, FetchRequeued DEF ActionFails, history
    <2>2. worker.op \in Threads => worker.op \in pendingFetches'
      BY <1>7, FetchRequeued
    <2> QED
      BY <1>3, <2>1, <2>2
  <1>8. CASE Crash
    BY <1>8 DEF Crash, OwedInv, FetchesOwed
  <1>9. CASE LeaveOutbound \/ FinishOutbound \/ OutboundFails
    <2>1. worker.op \in Attempts /\ UNCHANGED <<owed, stored, pendingFetches>>
      BY <1>9 DEF LeaveOutbound, FinishOutbound, OutboundFails, memory, history
    <2> QED
      BY <1>2, <1>3, <2>1
  <1>10. CASE ClaimOther \/ Schedule \/ BeginCall
    <2>1. worker'.op = worker.op
      BY <1>10, NextPlaceBecomes DEF Inv, Becomes
    <2>2. UNCHANGED <<owed, stored, pendingFetches>>
      BY <1>10 DEF ClaimOther, Schedule, BeginCall, memory, history
    <2> QED
      BY <1>3, <2>1, <2>2
  <1>11. ASSUME NEW a \in Attempts, ClaimOutbound(a)
         PROVE  OwedInv'
    <2>1. worker.op = Null
      BY <1>2, <1>11 DEF ClaimOutbound, Calling
    <2>2. UNCHANGED <<owed, stored, pendingFetches>>
      BY <1>11 DEF ClaimOutbound, memory, history
    <2> QED
      BY <1>2, <1>3, <2>1, <2>2
  <1>12. CASE PopNext
    <2>1. worker.op = Null
      BY <1>2, <1>12 DEF PopNext, Calling
    <2>2. pendingFetches' = pendingFetches \ {Head(queue)} /\ UNCHANGED <<owed, stored>>
      BY <1>12 DEF PopNext, history
    <2>3. Head(queue) \in Threads \ stored \/ worker'.op = Head(queue)
      BY <1>12, PopBecomes DEF Becomes
    <2> QED
      BY <1>1, <1>2, <2>1, <2>2, <2>3 DEF OwedInv, FetchesOwed
  <1>13. CASE CallAnswered
    <2>1. worker'.op = worker.op
      BY <1>13, AnswerBecomes DEF Inv, Becomes
    <2>2. UNCHANGED <<owed, stored, pendingFetches>>
      BY <1>13 DEF CallAnswered
    <2> QED
      BY <1>3, <2>1, <2>2
  <1>14. CASE CallFails \/ SaveFails
    <2>1. worker'.op = worker.op
      BY <1>14, FailureBecomes DEF Inv, Becomes
    <2>2. UNCHANGED <<owed, stored>> /\ pendingFetches \subseteq pendingFetches'
      BY <1>14 DEF CallFails, SaveFails, EnqueueFetches
    <2> QED
      BY <1>3, <2>1, <2>2
  <1>15. CASE Tick
    <2>1. worker'.op = worker.op
      BY <1>15, TickBecomes DEF Inv, Becomes
    <2>2. UNCHANGED <<owed, stored, pendingFetches>>
      BY <1>15 DEF Tick
    <2> QED
      BY <1>3, <2>1, <2>2
  <1>16. CASE UNCHANGED vars \/ \E a \in Attempts : Submit(a)
    <2>1. UNCHANGED <<owed, stored, pendingFetches, worker>>
      BY <1>16 DEF Submit, memory, history, vars
    <2> QED
      BY <1>3, <2>1
  <1> QED
    BY <1>4, <1>5, <1>6, <1>7, <1>8, <1>9, <1>10, <1>11, <1>12, <1>13, <1>14, <1>15, <1>16
    DEF Next, Job, Polling, Call

---------------------------------------------------------------------------
(* The flag *)

\* The flag says what the verdict says, as far as the verdict tells.
Agrees == (verdict = "denied" => authFailed) /\ (verdict = "accepted" => ~authFailed)

LEMMA StepAuth == Inv /\ [Next]_vars => AuthInv'
  <1> SUFFICES ASSUME Inv, [Next]_vars PROVE AuthInv'
    OBVIOUS
  <1>1. /\ authFailed \in BOOLEAN /\ verdict \in {"none", "accepted", "denied", "unsaved"}
        /\ worker.pc = "answered" => verdict = "accepted"
        /\ worker.pc = "failed" /\ worker.error = "denied" => verdict = "denied"
        /\ worker.pc # "answered" /\ ~(worker.pc = "failed" /\ worker.error = "denied") => Agrees
    BY DEF Inv, AuthInv, Agrees
  <1>2. ASSUME authFailed' \in BOOLEAN, verdict' \in {"none", "accepted", "denied", "unsaved"}, Agrees',
               worker'.pc \notin {"answered", "failed"}
        PROVE  AuthInv'
    BY <1>2 DEF Agrees, AuthInv
  <1>3. CASE FinishSummary \/ FinishFetch \/ FinishOutbound
    <2>1. worker.pc = "answered" /\ authFailed' = FALSE /\ UNCHANGED verdict
      BY <1>3 DEF FinishSummary, FinishFetch, FinishOutbound, ClearedByFetch, history
    <2>2. worker'.pc \notin {"answered", "failed"}
      BY <1>3, TopBecomes, ScheduleBecomes DEF Becomes
    <2>3. verdict' = "accepted" /\ ~authFailed' /\ authFailed' \in BOOLEAN
      BY <1>1, <2>1
    <2>4. Agrees'
      BY <2>3 DEF Agrees
    <2> QED
      BY <1>2, <2>2, <2>3, <2>4
  <1>4. CASE ActionFails \/ OutboundFails
    <2>1. worker.pc = "failed" /\ authFailed' = (authFailed \/ worker.error = "denied") /\ UNCHANGED verdict
      BY <1>4 DEF ActionFails, OutboundFails, AuthAfterError, history
    <2>2. worker'.pc \notin {"answered", "failed"}
      BY <1>4, TopBecomes, ScheduleBecomes DEF Becomes
    <2>3. authFailed' \in BOOLEAN /\ Agrees'
      <3>1. CASE worker.error = "denied"
        BY <1>1, <2>1, <3>1 DEF Agrees
      <3>2. CASE worker.error # "denied"
        BY <1>1, <2>1, <3>2 DEF Agrees
      <3> QED
        BY <3>1, <3>2
    <2> QED
      BY <1>1, <1>2, <2>1, <2>2, <2>3
  <1>5. CASE NoAction \/ LeaveOutbound
    <2>1. worker.pc \in {"act", "wait"} /\ UNCHANGED <<authFailed, verdict>>
      BY <1>5 DEF NoAction, LeaveOutbound, history
    <2>2. worker'.pc \notin {"answered", "failed"}
      BY <1>5, TopBecomes, ScheduleBecomes DEF Becomes
    <2> QED
      BY <1>1, <1>2, <2>1, <2>2 DEF Agrees
  <1>6. CASE ClaimOther \/ Schedule \/ BeginCall
    <2>1. worker.pc \in {"top", "schedule", "wait"} /\ UNCHANGED <<authFailed, verdict>>
      BY <1>6 DEF ClaimOther, Schedule, BeginCall, history
    <2>2. worker'.pc \notin {"answered", "failed"}
      BY <1>6, NextPlaceBecomes DEF Inv, Becomes
    <2> QED
      BY <1>1, <1>2, <2>1, <2>2 DEF Agrees
  <1>7. ASSUME NEW a \in Attempts, ClaimOutbound(a)
        PROVE  AuthInv'
    <2>1. worker.pc = "top" /\ UNCHANGED <<authFailed, verdict>>
      BY <1>7 DEF ClaimOutbound, history
    <2>2. worker'.pc = "wait"
      BY <1>7, ClaimBecomes DEF Becomes
    <2> QED
      BY <1>1, <1>2, <2>1, <2>2 DEF Agrees
  <1>8. CASE PopNext
    <2>1. worker.pc = "act" /\ UNCHANGED <<authFailed, verdict>>
      BY <1>8 DEF PopNext, history
    <2>2. worker'.pc \in {"top", "wait"}
      BY <1>8, PopBecomes DEF Becomes
    <2> QED
      BY <1>1, <1>2, <2>1, <2>2 DEF Agrees
  <1>9. CASE CallAnswered
    <2>1. worker.pc = "calling" /\ UNCHANGED authFailed
      BY <1>9 DEF CallAnswered, Ended
    <2>2. CASE UNCHANGED verdict /\ worker'.pc = "wait"
      BY <1>1, <1>2, <2>1, <2>2 DEF Agrees
    <2>3. CASE verdict' = "accepted" /\ worker'.pc = "answered"
      BY <1>1, <2>1, <2>3 DEF AuthInv
    <2> QED
      BY <1>9, <2>2, <2>3, AnswerBecomes DEF Inv, Becomes
  <1>10. CASE CallFails
    <2>1. worker.pc = "calling" /\ UNCHANGED authFailed
      BY <1>10 DEF CallFails, Ended
    <2>2. PICK error \in Errors : /\ worker'.pc = "failed" /\ worker'.error = error
                                  /\ verdict' = IF error = "denied" THEN "denied" ELSE verdict
      BY <1>10, FailureBecomes DEF Inv, Becomes
    <2>3. CASE error = "denied"
      BY <1>1, <2>1, <2>2, <2>3 DEF AuthInv
    <2>4. CASE error # "denied"
      BY <1>1, <2>1, <2>2, <2>4 DEF Agrees, AuthInv
    <2> QED
      BY <2>3, <2>4
  <1>11. CASE SaveFails
    <2>1. verdict' = "unsaved" /\ UNCHANGED authFailed
      BY <1>11 DEF SaveFails
    <2>2. worker'.pc = "failed" /\ worker'.error \in {"error", "limited"}
      BY <1>11, FailureBecomes DEF Inv, Becomes
    <2> QED
      BY <1>1, <2>1, <2>2 DEF AuthInv
  <1>12. CASE Crash
    <2>1. /\ UNCHANGED authFailed
          /\ verdict' = IF worker.pc \in {"answered", "failed"} THEN "unsaved" ELSE verdict
      BY <1>12 DEF Crash
    <2>2. worker'.pc = "top"
      BY <1>12, TopBecomes DEF Becomes
    <2>3. Agrees'
      BY <1>1, <2>1 DEF Agrees
    <2> QED
      BY <1>1, <1>2, <2>1, <2>2, <2>3
  <1>13. CASE Tick
    <2>1. worker'.pc = worker.pc /\ worker'.error = worker.error
      BY <1>13, TickBecomes DEF Inv, Becomes
    <2>2. UNCHANGED <<authFailed, verdict>>
      BY <1>13 DEF Tick
    <2> QED
      BY <2>1, <2>2 DEF Inv, AuthInv
  <1>14. CASE UNCHANGED vars \/ \E a \in Attempts : Submit(a)
    <2>1. UNCHANGED <<authFailed, verdict, worker>>
      BY <1>14 DEF Submit, history, vars
    <2> QED
      BY <2>1 DEF Inv, AuthInv
  <1> QED
    BY <1>3, <1>4, <1>5, <1>6, <1>7, <1>8, <1>9, <1>10, <1>11, <1>12, <1>13, <1>14 DEF Next, Job, Polling, Call

---------------------------------------------------------------------------
(* The theorems *)

\* Inv holds in every state: see its parts above.
THEOREM InvHolds == Spec => []Inv
  <1>1. Inv /\ [Next]_vars => Inv'
    BY StepQueue, StepClock, StepWorker, StepRest, StepLimiter, StepOwed, StepAuth DEF Inv
  <1> QED
    BY <1>1, InitInv, PTL DEF Spec

\* The state is well formed.
THEOREM TypeCorrect == Spec => []TypeOK
  BY InvHolds, InvIsTyped, PTL

\* At most one pending poll and one pending fetch per thread: the flags and the queue
\* name the same actions, whatever is popped, fails, is queued again, or dies with
\* the process (zzap_scheduler.py:29-69).
THEOREM PendingHolds == Spec => []PendingMatchesQueue
  BY InvHolds, InvIsTyped, PTL

\* A fetch that a committed summary asked for is queued or under way until it is
\* done, in spite of every error (jobs.py:414-416).
THEOREM OwedHolds == Spec => []FetchesOwed
  BY InvHolds, InvIsTyped, PTL

\* Between two actions /ready says of the key what ZZap last said, as far as that was
\* committed (jobs.py:334-345, 392-399, 418-424, 573-602, 961-980).
THEOREM AuthFlagHolds == Spec => []AuthFlagCurrent
  BY InvHolds, InvIsTyped, PTL

\* No call begins sooner than the interval after the last one of the process ended:
\* polls, pages of fetches, uploads and sends alike (jobs.py:87-144, 326-385).
THEOREM CallsSpaced == Spec => Spaced
  <1>1. Inv /\ [Next]_vars => [worker.pc # "calling" /\ worker'.pc = "calling" => quiet = Null \/ quiet >= Interval]_vars
    BY CallSpaced
  <1> QED
    BY <1>1, InvHolds, PTL DEF Spec, Spaced
====
