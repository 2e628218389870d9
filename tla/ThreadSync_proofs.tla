-------------------------- MODULE ThreadSync_proofs --------------------------
(* Theorems about ThreadSync: the cursor skips no customer's message and never
   moves back, no message is forgotten without a crash, a second import and an
   import of the operator's own message have one of the stated causes.

   The inductive invariant IInv speaks about the log (LogInv), the mappings and
   the cursor (RecordsInv, StartInv, GuardInv), the summaries (SummaryInv), the
   messages that wait for their import (SeenInv), the records of the operator's
   messages (EchoInv, SentInv) and the first import (UnreadInv).

   The import is a loop over the sorted messages.  InOrder sorts (Sorts), ImportRun
   goes from one message to the next (RunSteps), and what one message does to the
   state of the loop (LoopStep) holds for all of them by induction on the number of
   messages (Induction), which rests on the well-foundedness of <.  *)
EXTENDS ThreadSync, FiniteSetTheorems, WellFoundedInduction, TLAPS

---------------------------------------------------------------------------
(* Induction, from the well-foundedness of < on the naturals *)

\* A set of naturals that is not empty has a least member.
LEMMA Least ==
    ASSUME NEW T \in SUBSET Nat, T # {}
    PROVE  \E m \in T : \A k \in T : m <= k
  <1> DEFINE R == OpToRel(<, Nat)
  <1>1. IsWellFoundedOn(R, Nat)
    BY NatLessThanWellFounded
  <1>2. \A x, y \in Nat : x < y => <<x, y>> \in R
    BY DEF OpToRel
  <1> HIDE DEF R
  <1>3. PICK m \in T : \A y \in T : <<y, m>> \notin R
    BY <1>1, WFMin
  <1>4. \A k \in T : ~(k < m)
    BY <1>2, <1>3
  <1> QED
    BY <1>3, <1>4

\* What holds of 0, and of n + 1 when of n, holds up to N.
LEMMA Induction ==
    ASSUME NEW N \in Nat, NEW S, 0 \in S, \A n \in 0 .. N - 1 : n \in S => n + 1 \in S
    PROVE  \A n \in 0 .. N : n \in S
  <1> DEFINE T == {n \in 0 .. N : n \notin S}
  <1>1. SUFFICES ASSUME T # {} PROVE FALSE
    OBVIOUS
  <1>a. T \in SUBSET Nat
    OBVIOUS
  <1>2. PICK m \in T : \A k \in T : m <= k
    <2> HIDE DEF T
    <2> QED
      BY <1>1, <1>a, Least
  <1>3. m \in 1 .. N /\ m \notin S
    BY <1>2
  <1>4. m - 1 \in 0 .. N - 1 /\ m - 1 \notin T /\ (m - 1) + 1 = m
    BY <1>2, <1>3
  <1>5. m - 1 \in S
    BY <1>4
  <1> QED
    BY <1>3, <1>4, <1>5

\* An interval from 1 has one length.
LEMMA SameBound ==
    ASSUME NEW m \in Nat, NEW n \in Nat, 1 .. m = 1 .. n
    PROVE  m = n
  <1>1. CASE m < n
    <2>1. n \in 1 .. n /\ n \notin 1 .. m
      BY <1>1
    <2> QED
      BY <2>1
  <1>2. CASE n < m
    <2>1. m \in 1 .. m /\ m \notin 1 .. n
      BY <1>2
    <2> QED
      BY <2>1
  <1> QED
    BY <1>1, <1>2

---------------------------------------------------------------------------
(* InOrder sorts: it lists every item once, and earlier ones first *)

Sortable(items) ==
    /\ IsFiniteSet(items) /\ items \subseteq Items
    /\ \A i, j \in items : i.position = j.position => i = j

\* Before is a strict linear order of the fetched items.
LEMMA BeforeOrders ==
    ASSUME NEW items, Sortable(items)
    PROVE  /\ \A i, j \in items : i = j \/ Before(i, j) \/ Before(j, i)
           /\ \A i, j \in items : Before(i, j) => i # j /\ ~Before(j, i)
           /\ \A i, j, k \in items : Before(i, j) /\ Before(j, k) => Before(i, k)
  <1>1. \A i \in items : i.date \in Int /\ i.position \in Int
    BY DEF Sortable, Items
  <1>2. \A i, j \in items : i.position = j.position => i = j
    BY DEF Sortable
  <1>3. \A i, j \in items : i = j \/ Before(i, j) \/ Before(j, i)
    BY <1>1, <1>2 DEF Before
  <1>4. \A i, j \in items : Before(i, j) => i # j /\ ~Before(j, i)
    BY <1>1 DEF Before
  <1>5. \A i, j, k \in items : Before(i, j) /\ Before(j, k) => Before(i, k)
    BY <1>1 DEF Before
  <1> QED
    BY <1>3, <1>4, <1>5

Ahead(items, i) == {j \in items : Before(j, i)}

\* The numbers of items ahead of an item are those from 0, each one once.
LEMMA Ranks ==
    ASSUME NEW items, Sortable(items)
    PROVE  /\ Cardinality(items) \in Nat
           /\ \A i \in items : Cardinality(Ahead(items, i)) \in 0 .. Cardinality(items) - 1
           /\ \A i, j \in items : Before(i, j) => Cardinality(Ahead(items, i)) < Cardinality(Ahead(items, j))
           /\ \A n \in 0 .. Cardinality(items) - 1 : \E i \in items : Cardinality(Ahead(items, i)) = n
  <1> DEFINE N == Cardinality(items)
             rank == [i \in items |-> Cardinality(Ahead(items, i))]
  <1>0. IsFiniteSet(items)
    BY DEF Sortable
  <1>1. N \in Nat
    BY <1>0, FS_CardinalityType
  <1>2. ASSUME NEW i \in items
        PROVE  IsFiniteSet(Ahead(items, i)) /\ Cardinality(Ahead(items, i)) \in 0 .. N - 1
    <2>1. Ahead(items, i) \in SUBSET (items \ {i})
      BY BeforeOrders DEF Ahead
    <2>2. IsFiniteSet(items \ {i}) /\ Cardinality(items \ {i}) = N - 1
      BY <1>0, FS_RemoveElement
    <2>3. /\ IsFiniteSet(Ahead(items, i)) /\ Cardinality(Ahead(items, i)) <= N - 1
          /\ Cardinality(Ahead(items, i)) \in Nat
      BY <2>1, <2>2, FS_Subset, FS_CardinalityType
    <2> QED
      BY <1>1, <2>3
  <1>3. ASSUME NEW i \in items, NEW j \in items, Before(i, j)
        PROVE  Cardinality(Ahead(items, i)) < Cardinality(Ahead(items, j))
    <2>1. Ahead(items, i) \in SUBSET Ahead(items, j) /\ i \in Ahead(items, j) /\ i \notin Ahead(items, i)
      BY <1>3, BeforeOrders DEF Ahead
    <2>2. /\ Cardinality(Ahead(items, i)) <= Cardinality(Ahead(items, j))
          /\ Cardinality(Ahead(items, i)) # Cardinality(Ahead(items, j))
      BY <1>2, <2>1, FS_Subset
    <2> QED
      BY <1>1, <1>2, <2>2
  <1>4. rank \in Injection(items, 0 .. N - 1)
    <2>1. rank \in [items -> 0 .. N - 1]
      BY <1>2
    <2>2. ASSUME NEW i \in items, NEW j \in items, rank[i] = rank[j]
          PROVE  i = j
      <3>1. ~Before(i, j) /\ ~Before(j, i)
        BY <1>2, <1>3, <2>2
      <3> QED
        BY <3>1, BeforeOrders
    <2> HIDE DEF rank, N
    <2> QED
      BY <2>1, <2>2 DEF Injection, IsInjective
  <1>5. IsFiniteSet(0 .. N - 1) /\ Cardinality(0 .. N - 1) = N
    <2>1. 0 \in Int /\ N - 1 \in Int
      BY <1>1
    <2>2. IsFiniteSet(0 .. N - 1) /\ Cardinality(0 .. N - 1) = IF 0 > N - 1 THEN 0 ELSE N - 1 - 0 + 1
      BY <2>1, FS_Interval
    <2> QED
      BY <1>1, <2>2
  <1>6. rank \in Surjection(items, 0 .. N - 1)
    BY <1>4, <1>5, FS_Injection
  <1>7. \A n \in 0 .. N - 1 : \E i \in items : rank[i] = n
    BY <1>6 DEF Surjection
  <1> QED
    BY <1>1, <1>2, <1>3, <1>7

\* InOrder lists every item, in the order of Before.
LEMMA Sorts ==
    ASSUME NEW items, Sortable(items)
    PROVE  /\ Cardinality(items) \in Nat
           /\ DOMAIN InOrder(items) = 1 .. Cardinality(items)
           /\ Len(InOrder(items)) = Cardinality(items)
           /\ \A p \in 1 .. Cardinality(items) : InOrder(items)[p] \in items
           /\ \A p, q \in 1 .. Cardinality(items) : p < q => Before(InOrder(items)[p], InOrder(items)[q])
           /\ \A i \in items : \E p \in 1 .. Cardinality(items) : InOrder(items)[p] = i
  <1> DEFINE N == Cardinality(items)
             s == InOrder(items)
  <1>1. N \in Nat
    BY Ranks
  <1>2. s = [n \in 1 .. N |-> CHOOSE i \in items : Cardinality(Ahead(items, i)) = n - 1]
    BY DEF InOrder, Ahead
  <1>3. ASSUME NEW n \in 1 .. N
        PROVE  s[n] \in items /\ Cardinality(Ahead(items, s[n])) = n - 1
    <2>1. n - 1 \in 0 .. N - 1
      BY <1>1
    <2>2. \E i \in items : Cardinality(Ahead(items, i)) = n - 1
      BY <2>1, Ranks
    <2>3. s[n] = CHOOSE i \in items : Cardinality(Ahead(items, i)) = n - 1
      BY <1>2
    <2> HIDE DEF s
    <2> QED
      BY <2>2, <2>3
  <1>4. DOMAIN s = 1 .. N /\ Len(s) = N
    <2>2. s \in [1 .. N -> items]
      BY <1>2, <1>3
    <2>3. s \in Seq(items)
      BY <1>1, <2>2
    <2>4. Len(s) \in Nat /\ DOMAIN s = 1 .. Len(s) /\ DOMAIN s = 1 .. N
      BY <2>2, <2>3
    <2> HIDE DEF s, N
    <2>5. Len(s) = N
      BY <1>1, <2>4, SameBound
    <2> QED
      BY <2>4, <2>5
  <1>5. ASSUME NEW p \in 1 .. N, NEW q \in 1 .. N, p < q
        PROVE  Before(s[p], s[q])
    <2>1. s[p] \in items /\ s[q] \in items /\ p \in Nat /\ q \in Nat
      BY <1>1, <1>3
    <2>2. Cardinality(Ahead(items, s[p])) = p - 1 /\ Cardinality(Ahead(items, s[q])) = q - 1
      BY <1>3
    <2>3. ~Before(s[q], s[p]) /\ s[p] # s[q]
      <3>1. p - 1 < q - 1
        BY <1>5, <2>1
      <3> HIDE DEF s
      <3>2. ~(q - 1 < p - 1) /\ p - 1 # q - 1
        BY <2>1, <3>1
      <3> QED
        BY <2>1, <2>2, <3>2, Ranks
    <2> HIDE DEF s
    <2> QED
      BY <2>1, <2>3, BeforeOrders
  <1>6. ASSUME NEW i \in items
        PROVE  \E p \in 1 .. N : s[p] = i
    <2>1. Cardinality(Ahead(items, i)) \in 0 .. N - 1
      BY Ranks
    <2>2. PICK p \in 1 .. N : Cardinality(Ahead(items, i)) = p - 1
      <3>1. Cardinality(Ahead(items, i)) + 1 \in 1 .. N
        BY <1>1, <2>1
      <3> QED
        BY <2>1, <3>1
    <2>3. s[p] \in items /\ Cardinality(Ahead(items, s[p])) = Cardinality(Ahead(items, i))
      BY <1>3, <2>2
    <2>4. ~Before(s[p], i) /\ ~Before(i, s[p])
      <3> HIDE DEF s
      <3>1. Cardinality(Ahead(items, i)) \in Int /\ ~(Cardinality(Ahead(items, i)) < Cardinality(Ahead(items, i)))
        BY <2>1, <1>1
      <3> QED
        BY <2>3, <3>1, Ranks
    <2> HIDE DEF s
    <2>5. s[p] = i
      BY <2>3, <2>4, BeforeOrders
    <2> QED
      BY <2>5
  <1> QED
    BY <1>1, <1>3, <1>4, <1>5, <1>6

---------------------------------------------------------------------------
(* ImportRun runs: it starts with the records and takes one item at a time *)

Start ==
    [known |-> {m.fingerprint : m \in mappings}, cursor |-> thread.cursor,
     guard |-> thread.guard, new |-> {}]

After(item, state, fallback) ==
    IF Importable(item, state, fallback) THEN ImportOne(item, state) ELSE state

\* The recursion of ImportRun, unfolded once at each place.
LEMMA RunSteps ==
    ASSUME NEW items, Len(items) \in Nat
    PROVE  /\ ImportRun(items)[0] = Start
           /\ \A n \in 1 .. Len(items) :
                ImportRun(items)[n] = After(items[n], ImportRun(items)[n - 1], Fallback(items))
  <1> DEFINE N == Len(items)
             F == Fallback(items)
             Step(g, n) == IF n = 0 THEN Start ELSE After(items[n], g[n - 1], F)
             Runs == {m \in 0 .. N : \E g : g = [n \in 0 .. m |-> Step(g, n)]}
             run[n \in 0 .. N] == IF n = 0 THEN Start ELSE After(items[n], run[n - 1], F)
  <1>1. 0 \in Runs
    <2> DEFINE g == [n \in 0 .. 0 |-> Start]
    <2>1. g = [n \in 0 .. 0 |-> Step(g, n)]
      OBVIOUS
    <2>2. 0 \in 0 .. N
      OBVIOUS
    <2> HIDE DEF g, F, N
    <2>3. \E f : f = [n \in 0 .. 0 |-> Step(f, n)]
      BY <2>1
    <2> QED
      BY <2>2, <2>3
  <1>2. ASSUME NEW m \in 0 .. N - 1, m \in Runs
        PROVE  m + 1 \in Runs
    <2>1. PICK g : g = [n \in 0 .. m |-> Step(g, n)]
      BY <1>2
    <2> DEFINE h == [n \in 0 .. m + 1 |-> IF n = m + 1 THEN After(items[m + 1], g[m], F) ELSE g[n]]
    <2>2. ASSUME NEW n \in 0 .. m + 1
          PROVE  h[n] = Step(h, n)
      <3>1. CASE n = 0
        <4>1. h[0] = g[0] /\ g[0] = Start
          <5>1. 0 \in 0 .. m /\ 0 \in 0 .. m + 1 /\ 0 # m + 1
            OBVIOUS
          <5>2. h[0] = g[0]
            BY <5>1
          <5>3. g[0] = Step(g, 0)
            BY <2>1, <5>1
          <5> QED
            BY <5>2, <5>3
        <4> HIDE DEF h
        <4> QED
          BY <3>1, <4>1
      <3>2. CASE n = m + 1
        <4>1. h[n] = After(items[m + 1], g[m], F) /\ h[n - 1] = g[m] /\ n # 0
          BY <3>2
        <4> HIDE DEF h, F
        <4> QED
          BY <3>2, <4>1
      <3>3. CASE n \in 1 .. m
        <4>1. h[n] = g[n] /\ h[n - 1] = g[n - 1] /\ n # 0
          BY <3>3
        <4>2. g[n] = Step(g, n)
          <5>1. n \in 0 .. m
            BY <3>3
          <5> QED
            BY <2>1, <5>1
        <4> HIDE DEF h, F
        <4> QED
          BY <4>1, <4>2
      <3> QED
        BY <3>1, <3>2, <3>3
    <2>3. h = [n \in 0 .. m + 1 |-> Step(h, n)]
      <3>1. h = [n \in 0 .. m + 1 |-> h[n]]
        OBVIOUS
      <3> HIDE DEF h, F
      <3> QED
        BY <2>2, <3>1
    <2>4. m + 1 \in 0 .. N
      OBVIOUS
    <2> HIDE DEF h
    <2> QED
      BY <2>3, <2>4
  <1>3. N \in Runs
    <2>1. N \in Nat /\ N \in 0 .. N
      OBVIOUS
    <2> HIDE DEF N, Runs
    <2> QED
      BY <1>1, <1>2, <2>1, Induction
  <1>4. \E g : g = [n \in 0 .. N |-> IF n = 0 THEN Start ELSE After(items[n], g[n - 1], F)]
    BY <1>3
  <1>5. run = [n \in 0 .. N |-> IF n = 0 THEN Start ELSE After(items[n], run[n - 1], F)]
    <2> HIDE DEF N, F
    <2> QED
      BY <1>4, Zenon
  <1>6. ImportRun(items) = run
    BY DEF ImportRun, Start, After
  <1>7. 0 \in 0 .. N /\ \A n \in 1 .. N : n \in 0 .. N /\ n # 0
    OBVIOUS
  <1> HIDE DEF run, N, F
  <1>8. run[0] = Start
    BY <1>5, <1>7
  <1>9. \A n \in 1 .. N : run[n] = After(items[n], run[n - 1], F)
    BY <1>5, <1>7
  <1> QED
    BY <1>6, <1>8, <1>9 DEF N, F

---------------------------------------------------------------------------
(* The inductive invariant *)

HasCursor == thread # Null /\ thread.cursor # Null

Handled(k) == imported[k] > 0 \/ k \in shadowed

\* A customer's message comes last, once, and unread; nobody else's is unread.
LogInv ==
    /\ \A i, k \in DOMAIN log : i < k /\ log[k].from = "customer" => log[i].date <= log[k].date
    /\ \A i, k \in DOMAIN log :
        log[i].from = "customer" /\ FingerprintOf(log[i]) = FingerprintOf(log[k]) => i = k
    /\ \A k \in DOMAIN log : log[k].unread => log[k].from = "customer"
    /\ baseline <= Len(log)

\* The mapping of an outbound message names the thread's key or nobody's.
OutboundPrint(m) == \E sender \in {"customer", "nobody"} : m.fingerprint = Fingerprint(sender, m.date, m.hash)

\* Mappings and messages: an inbound mapping belongs to a message that was imported,
\* and outlives it until a cleanup; the cursor is at or past what was imported.
RecordsInv ==
    /\ \A m \in mappings :
        /\ m.direction = "inbound" =>
            \E k \in DOMAIN log : imported[k] > 0 /\ FingerprintOf(log[k]) = m.fingerprint
        /\ m.direction = "outbound" =>
            m.status = "succeeded" /\ OutboundPrint(m)
    /\ \A k \in 1 .. MaxLog : imported[k] > 0 =>
        /\ k \in DOMAIN log /\ HasCursor /\ log[k].date <= thread.cursor
        /\ swept \/ \E m \in mappings : m.fingerprint = FingerprintOf(log[k])

\* Without a cursor nothing was imported, so nobody can answer yet.
StartInv ==
    ~HasCursor =>
        /\ mappings = {} /\ outbox = {} /\ pc \notin {"sending", "sent"}
        /\ \A k \in DOMAIN log : log[k].from = "customer"

\* The cursor stands on a message that the guard tells apart: one that was imported,
\* or the last one of a thread that was read when it was first seen.
GuardInv ==
    HasCursor => \E j \in DOMAIN log :
        /\ log[j].date = thread.cursor
        /\ \/ thread.guard = FingerprintOf(log[j]) /\ imported[j] > 0
           \/ thread.guard = log[j].text /\ j <= baseline /\ log[j].from = "customer"

\* The flags of a fetched thread are those of its messages, or missing.
SummaryFlags == pc = "fetched" => \A i \in answer.items : i.unread => i.from = "customer"

LoopInvs == TypeOK /\ LogInv /\ RecordsInv /\ StartInv /\ GuardInv /\ NoneSkipped

---------------------------------------------------------------------------
(* What the import makes of a fetched thread *)

\* A message of the log, and its fingerprint.
LEMMA MessageFacts ==
    ASSUME TypeOK, NEW k \in DOMAIN log
    PROVE  /\ log[k] \in Messages /\ k \in 1 .. Len(log) /\ k \in 1 .. MaxLog /\ log[k].date \in Nat
           /\ FingerprintOf(log[k]) \in Fingerprints
           /\ FingerprintOf(log[k]) = <<log[k].from, log[k].date, log[k].text>>
  <1>1. log[k] \in Messages /\ k \in 1 .. Len(log) /\ k \in 1 .. MaxLog
    BY TimesAssumption DEF TypeOK
  <1> QED
    BY <1>1 DEF Messages, FingerprintOf, Fingerprint, Fingerprints, Named

\* A fetched item is the message of the log that its index names.
LEMMA ItemFacts ==
    ASSUME TypeOK, pc = "fetched", NEW i \in answer.items
    PROVE  /\ i \in Items /\ i.date \in Nat /\ i.index \in DOMAIN log
           /\ i.index \in 1 .. Cardinality(answer.items)
           /\ log[i.index].from = i.from /\ log[i.index].date = i.date /\ log[i.index].text = i.text
           /\ FingerprintOf(i) = FingerprintOf(log[i.index])
           /\ FingerprintOf(i) = <<i.from, i.date, i.text>>
           /\ FingerprintOf(i) \in Fingerprints /\ i.text \in Texts
           /\ FingerprintOf(i) # i.text /\ FingerprintOf(i) # Null /\ i.text # Null
  <1>1. i \in Items /\ i.index \in 1 .. Cardinality(answer.items) /\ i.index <= Len(log)
        /\ FingerprintOf(i) = FingerprintOf(log[i.index]) /\ Len(log) \in Nat /\ DOMAIN log = 1 .. Len(log)
    BY DEF TypeOK, AnswerOK
  <1>2. i.index \in DOMAIN log /\ i.date \in Nat /\ i.text \in Texts /\ i.from \in Senders
    BY <1>1 DEF Items
  <1>3. FingerprintOf(i) = <<i.from, i.date, i.text>> /\ FingerprintOf(i) \in Fingerprints
    BY <1>2 DEF FingerprintOf, Fingerprint, Fingerprints, Named
  <1>4. log[i.index].from = i.from /\ log[i.index].date = i.date /\ log[i.index].text = i.text
    <2>1. FingerprintOf(log[i.index]) = <<log[i.index].from, log[i.index].date, log[i.index].text>>
      BY <1>2, MessageFacts
    <2>2. <<i.from, i.date, i.text>> = <<log[i.index].from, log[i.index].date, log[i.index].text>>
      BY <1>1, <1>3, <2>1
    <2> QED
      BY <2>2
  <1> QED
    BY <1>1, <1>2, <1>3, <1>4, HashAssumption

\* Two items of one fingerprint are one, if it is a customer's.
LEMMA SameItem ==
    ASSUME TypeOK, LogInv, pc = "fetched", NEW i \in answer.items, i.from = "customer",
           NEW j \in answer.items, FingerprintOf(i) = FingerprintOf(j)
    PROVE  i = j
  <1>1. /\ i.index \in DOMAIN log /\ j.index \in DOMAIN log
        /\ FingerprintOf(log[i.index]) = FingerprintOf(log[j.index]) /\ log[i.index].from = "customer"
    BY ItemFacts
  <1>2. i.index = j.index
    BY <1>1 DEF LogInv
  <1> QED
    BY <1>2 DEF TypeOK, AnswerOK

\* The loop has been through done, and is in state st.
StateOK(done, st) ==
    /\ st.new \subseteq done
    /\ st.known = {m.fingerprint : m \in mappings} \cup {FingerprintOf(i) : i \in st.new}
    /\ st.new = {} => st.cursor = thread.cursor /\ st.guard = thread.guard
    /\ st.new # {} => \E i \in st.new : st.cursor = i.date /\ st.guard = FingerprintOf(i)

NewOK(st) ==
    /\ \A i \in st.new : i.date <= st.cursor /\ ~IsEcho(i) /\ \A m \in mappings : m.fingerprint # FingerprintOf(i)
    /\ \A i, j \in st.new : FingerprintOf(i) = FingerprintOf(j) => i = j
    /\ HasCursor => \A i \in st.new :
        /\ thread.cursor <= i.date
        /\ i.date = thread.cursor => \E k \in DOMAIN log \ {i.index} : log[k].date = i.date

\* What is left out has a reason.
LeftOK(done, st) ==
    /\ HasCursor => \A i \in done :
        i.from = "customer" /\ i.index > baseline => Handled(i.index) \/ IsEcho(i) \/ i \in st.new
    /\ ~HasCursor => \A i \in done : i.unread => i \in st.new

LoopOK(done, st) == StateOK(done, st) /\ NewOK(st) /\ LeftOK(done, st)

\* The cursor of the loop is a date as soon as the thread has one.
LEMMA CursorFacts ==
    ASSUME TypeOK, pc = "fetched", NEW done \in SUBSET answer.items, NEW st, StateOK(done, st)
    PROVE  /\ st.cursor \in Nat \cup {Null} /\ Null \notin Nat
           /\ HasCursor => thread.cursor \in Nat /\ st.cursor \in Nat
           /\ ~HasCursor => thread.cursor = Null /\ thread.guard = Null
  <1>1. /\ thread # Null /\ thread \in Threads /\ Null \notin Nat
        /\ thread.cursor \in Nat \cup {Null} /\ (thread.cursor = Null <=> thread.guard = Null)
    BY TimesAssumption DEF TypeOK, AnswerOK, Threads
  <1>2. CASE st.new = {}
    BY <1>1, <1>2 DEF StateOK, HasCursor
  <1>3. CASE st.new # {}
    <2>1. PICK i \in st.new : st.cursor = i.date
      BY <1>3 DEF StateOK
    <2>2. st.cursor \in Nat
      BY <2>1, ItemFacts DEF StateOK
    <2> QED
      BY <1>1, <2>2 DEF HasCursor
  <1> QED
    BY <1>2, <1>3

\* A state that takes item i in.
LEMMA StateTakes ==
    ASSUME NEW done, NEW st, StateOK(done, st), NEW i
    PROVE  StateOK(done \cup {i}, ImportOne(i, st))
  <1>1. /\ ImportOne(i, st).known = st.known \cup {FingerprintOf(i)} /\ ImportOne(i, st).cursor = i.date
        /\ ImportOne(i, st).guard = FingerprintOf(i) /\ ImportOne(i, st).new = st.new \cup {i}
    BY DEF ImportOne
  <1> QED
    BY <1>1 DEF StateOK

\* What is taken in is behind the cursor, no echo and not recorded before.
LEMMA NewTakes ==
    ASSUME LoopInvs, pc = "fetched", NEW done \in SUBSET answer.items, NEW st, StateOK(done, st), NewOK(st),
           NEW i \in answer.items, NEW F, Importable(i, st, F)
    PROVE  NewOK(ImportOne(i, st))
  <1> DEFINE t == ImportOne(i, st)
  <1>1. t.cursor = i.date /\ t.new = st.new \cup {i}
    BY DEF ImportOne
  <1>2. TypeOK
    BY DEF LoopInvs
  <1>3. /\ FingerprintOf(i) \notin st.known /\ ~BehindCursor(i, st) /\ ~IsEcho(i)
    BY DEF Importable, Known
  <1>4. i.date \in Nat /\ \A j \in st.new : j \in answer.items /\ j.date \in Nat
    BY <1>2, ItemFacts DEF StateOK
  <1>5. st.new # {} => st.cursor \in Nat /\ st.cursor # Null
    BY <1>2, <1>4, CursorFacts DEF StateOK
  <1>6. st.cursor # Null => st.cursor <= i.date /\ (i.date = st.cursor => ~IsGuard(i, st))
    <2>1. st.cursor \in Nat \cup {Null}
      BY <1>2, CursorFacts
    <2> QED
      BY <1>3, <1>4, <2>1 DEF BehindCursor
  <1>7. \A j \in t.new : j.date <= t.cursor /\ ~IsEcho(j) /\ \A m \in mappings : m.fingerprint # FingerprintOf(j)
    <2>1. \A j \in st.new : j.date <= i.date
      BY <1>4, <1>5, <1>6 DEF NewOK
    <2>2. \A m \in mappings : m.fingerprint # FingerprintOf(i)
      BY <1>3 DEF StateOK
    <2>3. i.date <= i.date
      BY <1>4
    <2> HIDE DEF t
    <2> QED
      BY <1>1, <1>3, <2>1, <2>2, <2>3 DEF NewOK
  <1>8. \A j, k \in t.new : FingerprintOf(j) = FingerprintOf(k) => j = k
    <2>1. \A j \in st.new : FingerprintOf(j) # FingerprintOf(i)
      BY <1>3 DEF StateOK
    <2> HIDE DEF t
    <2> QED
      BY <1>1, <2>1 DEF NewOK
  <1>9. ASSUME HasCursor
        PROVE  /\ thread.cursor <= i.date
               /\ i.date = thread.cursor => \E k \in DOMAIN log \ {i.index} : log[k].date = i.date
    <2>1. thread.cursor \in Nat /\ st.cursor \in Nat /\ st.cursor # Null
      BY <1>2, <1>9, CursorFacts
    <2>2. CASE st.new = {}
      <3>1. st.cursor = thread.cursor /\ st.guard = thread.guard
        BY <2>2 DEF StateOK
      <3>2. PICK j \in DOMAIN log : /\ log[j].date = thread.cursor
                                    /\ thread.guard = FingerprintOf(log[j]) \/ thread.guard = log[j].text
        BY <1>9 DEF LoopInvs, GuardInv
      <3>3. ASSUME i.date = thread.cursor PROVE j # i.index
        <4>1. ~IsGuard(i, st)
          BY <1>6, <2>1, <3>1, <3>3
        <4>2. st.guard # i.text /\ st.guard # FingerprintOf(i)
          BY <4>1 DEF IsGuard
        <4> QED
          BY <1>2, <3>1, <3>2, <4>2, ItemFacts
      <3> QED
        BY <1>6, <2>1, <3>1, <3>2, <3>3
    <2>3. CASE st.new # {}
      <3>1. PICK j \in st.new : st.cursor = j.date /\ st.guard = FingerprintOf(j)
        BY <2>3 DEF StateOK
      <3>2. thread.cursor <= j.date /\ j.date <= i.date
        BY <1>6, <1>9, <2>1, <3>1 DEF NewOK
      <3>3. ASSUME i.date = thread.cursor
            PROVE  j.index \in DOMAIN log \ {i.index} /\ log[j.index].date = i.date
        <4>1. j.date = i.date
          BY <1>4, <2>1, <3>2, <3>3
        <4>2. FingerprintOf(j) # FingerprintOf(i)
          BY <1>6, <2>1, <3>1, <4>1 DEF IsGuard
        <4>3. j \in answer.items
          BY <1>4
        <4> QED
          BY <1>2, <4>1, <4>2, <4>3, ItemFacts
      <3> QED
        BY <1>4, <2>1, <3>2, <3>3
    <2> QED
      BY <2>2, <2>3
  <1> HIDE DEF t
  <1>10. HasCursor => \A j \in t.new :
            /\ thread.cursor <= j.date
            /\ j.date = thread.cursor => \E k \in DOMAIN log \ {j.index} : log[k].date = j.date
    BY <1>1, <1>9 DEF NewOK
  <1> QED
    BY <1>7, <1>8, <1>10 DEF NewOK, t

\* An item with a recorded fingerprint was imported before, or looks like an echo.
LEMMA KnownHandled ==
    ASSUME LoopInvs, pc = "fetched", NEW i \in answer.items, i.from = "customer",
           NEW m \in mappings, m.fingerprint = FingerprintOf(i)
    PROVE  imported[i.index] > 0 \/ IsEcho(i)
  <1>0. TypeOK /\ m \in Mappings
    BY DEF LoopInvs, TypeOK
  <1>1. CASE m.direction = "inbound"
    <2>1. PICK k \in DOMAIN log : imported[k] > 0 /\ FingerprintOf(log[k]) = FingerprintOf(i)
      BY <1>1 DEF LoopInvs, RecordsInv
    <2>2. i.index \in DOMAIN log /\ log[i.index].from = "customer" /\ FingerprintOf(log[i.index]) = FingerprintOf(log[k])
      BY <1>0, <2>1, ItemFacts
    <2>3. i.index = k
      BY <2>2 DEF LoopInvs, LogInv
    <2> QED
      BY <2>1, <2>3
  <1>2. CASE m.direction = "outbound"
    <2>1. PICK sender \in {"customer", "nobody"} :
            m.status = "succeeded" /\ m.fingerprint = <<sender, m.date, m.hash>>
      BY <1>2 DEF LoopInvs, RecordsInv, OutboundPrint, Fingerprint
    <2>2. FingerprintOf(i) = <<i.from, i.date, i.text>>
      BY <1>0, ItemFacts
    <2>3. m.date = i.date /\ m.hash = i.text
      <3>1. <<sender, m.date, m.hash>> = <<i.from, i.date, i.text>>
        BY <2>1, <2>2
      <3> QED
        BY <3>1
    <2>4. Near(i.date, m.date)
      <3>1. i.date \in Nat /\ Tolerance \in Nat
        BY <1>0, ItemFacts, TimesAssumption
      <3> QED
        BY <2>3, <3>1 DEF Near
    <2> QED
      BY <1>2, <2>1, <2>3, <2>4 DEF IsEcho
  <1> QED
    BY <1>0, <1>1, <1>2 DEF Mappings

\* A customer's message that the cursor and its guard leave out was handled before.
LEMMA BehindHandled ==
    ASSUME LoopInvs, pc = "fetched", HasCursor, NEW i \in answer.items, i.from = "customer",
           i.index > baseline,
           \/ i.date < thread.cursor
           \/ i.date = thread.cursor /\ thread.guard \in {i.text, FingerprintOf(i)}
    PROVE  Handled(i.index)
  <1>0. TypeOK
    BY DEF LoopInvs
  <1>1. /\ i.index \in DOMAIN log /\ log[i.index].from = "customer" /\ log[i.index].date = i.date
        /\ log[i.index].text = i.text /\ FingerprintOf(i) = FingerprintOf(log[i.index])
        /\ FingerprintOf(i) = <<i.from, i.date, i.text>>
        /\ i.text \in Texts /\ FingerprintOf(i) \in Fingerprints
    BY <1>0, ItemFacts
  <1>2. CASE i.date < thread.cursor
    <2>1. i.index \in baseline + 1 .. Len(log)
      BY <1>0, <1>1 DEF TypeOK
    <2> QED
      BY <1>1, <1>2, <2>1 DEF LoopInvs, NoneSkipped, HasCursor, Handled
  <1>3. CASE i.date = thread.cursor /\ thread.guard \in {i.text, FingerprintOf(i)}
    <2>1. PICK j \in DOMAIN log :
          /\ log[j].date = thread.cursor
          /\ \/ thread.guard = FingerprintOf(log[j]) /\ imported[j] > 0
             \/ thread.guard = log[j].text /\ j <= baseline /\ log[j].from = "customer"
      BY DEF LoopInvs, GuardInv
    <2>2. /\ FingerprintOf(log[j]) \in Fingerprints /\ log[j].text \in Texts
          /\ FingerprintOf(log[j]) = <<log[j].from, log[j].date, log[j].text>>
      BY <1>0, MessageFacts DEF Messages
    <2>3. CASE thread.guard = FingerprintOf(log[j]) /\ imported[j] > 0
      <3>1. FingerprintOf(log[j]) = FingerprintOf(log[i.index])
        BY <1>1, <1>3, <2>2, <2>3, HashAssumption
      <3>2. i.index = j
        BY <1>1, <3>1 DEF LoopInvs, LogInv
      <3> QED
        BY <2>3, <3>2 DEF Handled
    <2>4. CASE thread.guard = log[j].text /\ j <= baseline /\ log[j].from = "customer"
      <3>1. log[j].text = i.text
        BY <1>1, <1>3, <2>2, <2>4, HashAssumption
      <3>2. FingerprintOf(log[j]) = FingerprintOf(log[i.index])
        BY <1>1, <1>3, <2>1, <2>2, <2>4, <3>1
      <3>3. i.index = j
        BY <1>1, <3>2 DEF LoopInvs, LogInv
      <3>4. i.index \in Nat /\ baseline \in Nat
        BY <1>0, <1>1 DEF TypeOK
      <3> QED
        BY <2>4, <3>3, <3>4
    <2> QED
      BY <2>1, <2>3, <2>4
  <1> QED
    BY <1>2, <1>3

\* What the loop leaves out still has its reason after one more item.
LEMMA LeftTakes ==
    ASSUME LoopInvs, SummaryFlags, pc = "fetched", NEW done \in SUBSET answer.items, NEW st, LoopOK(done, st),
           NEW i \in answer.items, \A j \in done : j.date <= i.date, NEW F
    PROVE  LeftOK(done \cup {i}, After(i, st, F))
  <1> DEFINE t == After(i, st, F)
  <1>0. TypeOK /\ LogInv
    BY DEF LoopInvs
  <1>1. t.new = IF Importable(i, st, F) THEN st.new \cup {i} ELSE st.new
    BY DEF After, ImportOne
  <1>2. /\ i.date \in Nat /\ i.text # Null /\ FingerprintOf(i) # Null /\ i.text # FingerprintOf(i)
        /\ i.text \in Texts /\ FingerprintOf(i) \in Fingerprints
        /\ \A j \in st.new : j \in answer.items /\ j.date \in Nat /\ j.date <= i.date /\ FingerprintOf(j) \in Fingerprints
    BY <1>0, ItemFacts DEF LoopOK, StateOK
  <1>3. ASSUME i.from = "customer", NEW j \in st.new, FingerprintOf(j) = FingerprintOf(i)
        PROVE  i \in st.new
    BY <1>0, <1>2, <1>3, SameItem
  <1>4. ASSUME i.from = "customer", Known(i, st)
        PROVE  i \in st.new \/ \E m \in mappings : m.fingerprint = FingerprintOf(i)
    BY <1>3, <1>4 DEF Known, LoopOK, StateOK
  <1>5. ASSUME i.from = "customer", BehindCursor(i, st), st.new # {}
        PROVE  i \in st.new
    <2>1. PICK j \in st.new : st.cursor = j.date /\ st.guard = FingerprintOf(j)
      BY <1>5 DEF LoopOK, StateOK
    <2>2. st.cursor # Null /\ ~(i.date < st.cursor)
      BY <1>2, <2>1, TimesAssumption
    <2>3. st.guard \in {i.text, FingerprintOf(i)}
      BY <1>5, <2>2 DEF BehindCursor, IsGuard
    <2>4. FingerprintOf(j) = FingerprintOf(i)
      BY <1>2, <2>1, <2>3, HashAssumption
    <2> QED
      BY <1>3, <1>5, <2>4
  <1>6. ASSUME HasCursor, i.from = "customer", i.index > baseline
        PROVE  Handled(i.index) \/ IsEcho(i) \/ i \in t.new
    <2>1. st.cursor # Null /\ thread.cursor # Null
      BY <1>0, <1>6, CursorFacts DEF LoopOK
    <2>2. CASE Importable(i, st, F)
      BY <1>1, <2>2
    <2>3. CASE Known(i, st)
      <3>1. i \in st.new \/ imported[i.index] > 0 \/ IsEcho(i)
        BY <1>4, <1>6, <2>3, KnownHandled
      <3> QED
        BY <1>1, <3>1 DEF Handled
    <2>4. CASE BehindCursor(i, st)
      <3>1. CASE st.new # {}
        BY <1>1, <1>5, <1>6, <2>4, <3>1
      <3>2. CASE st.new = {}
        <4>1. st.cursor = thread.cursor /\ st.guard = thread.guard
          BY <3>2 DEF LoopOK, StateOK
        <4>2. \/ i.date < thread.cursor
              \/ i.date = thread.cursor /\ thread.guard \in {i.text, FingerprintOf(i)}
          BY <2>1, <2>4, <4>1 DEF BehindCursor, IsGuard
        <4> QED
          BY <1>6, <4>2, BehindHandled
      <3> QED
        BY <3>1, <3>2
    <2>5. CASE IsEcho(i)
      BY <2>5
    <2> QED
      BY <2>1, <2>2, <2>3, <2>4, <2>5 DEF Importable
  <1>7. ASSUME ~HasCursor, i.unread
        PROVE  i \in t.new
    <2>1. i.from = "customer" /\ mappings = {} /\ thread.cursor = Null /\ thread.guard = Null
      BY <1>0, <1>7, CursorFacts DEF LoopOK, LoopInvs, StartInv, SummaryFlags
    <2>2. CASE Importable(i, st, F)
      BY <1>1, <2>2
    <2>3. CASE Known(i, st)
      BY <1>1, <1>4, <2>1, <2>3
    <2>4. CASE BehindCursor(i, st)
      <3>1. CASE st.new # {}
        BY <1>1, <1>5, <2>1, <2>4, <3>1
      <3>2. CASE st.new = {}
        <4>1. st.cursor = Null /\ st.guard = Null
          BY <2>1, <3>2 DEF LoopOK, StateOK
        <4> QED
          BY <1>2, <2>4, <4>1 DEF BehindCursor, IsGuard
      <3> QED
        BY <3>1, <3>2
    <2>5. ~IsEcho(i)
      BY <2>1 DEF IsEcho
    <2> QED
      BY <1>7, <2>2, <2>3, <2>4, <2>5 DEF Importable
  <1>8. st.new \subseteq t.new
    BY <1>1
  <1> HIDE DEF t
  <1>9. HasCursor => \A j \in done \cup {i} :
          j.from = "customer" /\ j.index > baseline => Handled(j.index) \/ IsEcho(j) \/ j \in t.new
    BY <1>6, <1>8 DEF LoopOK, LeftOK
  <1>10. ~HasCursor => \A j \in done \cup {i} : j.unread => j \in t.new
    BY <1>7, <1>8 DEF LoopOK, LeftOK
  <1> QED
    BY <1>9, <1>10 DEF LeftOK, t

\* One item, taken in or left out, keeps the invariant of the loop.
LEMMA LoopStep ==
    ASSUME LoopInvs, SummaryFlags, pc = "fetched", NEW done \in SUBSET answer.items, NEW st, LoopOK(done, st),
           NEW i \in answer.items, \A j \in done : j.date <= i.date, NEW F
    PROVE  LoopOK(done \cup {i}, After(i, st, F))
  <1>1. LeftOK(done \cup {i}, After(i, st, F))
    BY LeftTakes
  <1>2. CASE Importable(i, st, F)
    <2>1. After(i, st, F) = ImportOne(i, st)
      BY <1>2 DEF After
    <2>2. StateOK(done, st) /\ NewOK(st)
      BY DEF LoopOK
    <2>3. StateOK(done \cup {i}, ImportOne(i, st)) /\ NewOK(ImportOne(i, st))
      BY <1>2, <2>2, StateTakes, NewTakes
    <2> QED
      BY <1>1, <2>1, <2>3 DEF LoopOK
  <1>3. CASE ~Importable(i, st, F)
    <2>1. After(i, st, F) = st
      BY <1>3 DEF After
    <2> QED
      BY <1>1, <2>1 DEF LoopOK, StateOK
  <1> QED
    BY <1>2, <1>3

\* What the import has done when it is through with the fetched thread.
LEMMA ImportLoop ==
    ASSUME LoopInvs, SummaryFlags, pc = "fetched"
    PROVE  LoopOK(answer.items, Import(InOrder(answer.items)))
  <1> DEFINE N == Cardinality(answer.items)
             s == InOrder(answer.items)
             run == ImportRun(s)
             Done(p) == {s[q] : q \in 1 .. p}
             Good == {p \in 0 .. N : LoopOK(Done(p), run[p])}
  <1>0. TypeOK /\ Sortable(answer.items)
    BY DEF LoopInvs, TypeOK, AnswerOK, Sortable
  <1>1. /\ N \in Nat /\ Len(s) = N
        /\ \A p \in 1 .. N : s[p] \in answer.items
        /\ \A p, q \in 1 .. N : p < q => Before(s[p], s[q])
        /\ \A i \in answer.items : \E p \in 1 .. N : s[p] = i
    BY <1>0, Sorts
  <1>2. run[0] = Start /\ \A n \in 1 .. N : run[n] = After(s[n], run[n - 1], Fallback(s))
    BY <1>1, RunSteps
  <1> HIDE DEF s, run, N
  <1>3. 0 \in Good
    <2>1. Done(0) = {} /\ 0 \in 0 .. N
      BY <1>1
    <2>2. Start.new = {} /\ Start.cursor = thread.cursor /\ Start.guard = thread.guard
          /\ Start.known = {m.fingerprint : m \in mappings}
      BY DEF Start
    <2>3. LoopOK({}, Start)
      BY <2>2 DEF LoopOK, StateOK, NewOK, LeftOK
    <2> QED
      BY <1>2, <2>1, <2>3
  <1>4. ASSUME NEW p \in 0 .. N - 1, p \in Good
        PROVE  p + 1 \in Good
    <2>1. p + 1 \in 1 .. N /\ p + 1 \in 0 .. N /\ (p + 1) - 1 = p /\ \A q \in 1 .. p : q \in 1 .. N /\ q < p + 1
      BY <1>1
    <2>2. run[p + 1] = After(s[p + 1], run[p], Fallback(s))
      BY <1>2, <2>1
    <2>3. Done(p) \in SUBSET answer.items /\ s[p + 1] \in answer.items
      BY <1>1, <2>1
    <2>4. \A j \in Done(p) : j.date <= s[p + 1].date
      <3> SUFFICES ASSUME NEW q \in 1 .. p PROVE s[q].date <= s[p + 1].date
        OBVIOUS
      <3>1. Before(s[q], s[p + 1]) /\ s[q] \in answer.items
        BY <1>1, <2>1
      <3>2. s[q].date \in Nat /\ s[p + 1].date \in Nat
        BY <1>0, <2>3, <3>1, ItemFacts
      <3> QED
        BY <3>1, <3>2 DEF Before
    <2>5. Done(p + 1) = Done(p) \cup {s[p + 1]}
      <3>1. 1 .. p + 1 = (1 .. p) \cup {p + 1}
        BY <1>1
      <3> QED
        BY <3>1
    <2>6. LoopOK(Done(p), run[p])
      BY <1>4
    <2>7. LoopOK(Done(p + 1), run[p + 1])
      <3> HIDE DEF Done
      <3>1. LoopOK(Done(p) \cup {s[p + 1]}, After(s[p + 1], run[p], Fallback(s)))
        BY <2>3, <2>4, <2>6, LoopStep
      <3> QED
        BY <2>2, <2>5, <3>1
    <2> QED
      BY <2>1, <2>7
  <1>5. N \in Good
    <2>1. N \in 0 .. N
      BY <1>1
    <2> HIDE DEF Good
    <2> QED
      BY <1>1, <1>3, <1>4, <2>1, Induction
  <1>6. Done(N) = answer.items
    BY <1>1
  <1>7. Import(s) = run[N]
    BY <1>1 DEF Import, run
  <1> QED
    BY <1>5, <1>6, <1>7 DEF s

---------------------------------------------------------------------------
(* The rest of the invariant *)

\* A message of that date and text is among the first k.
Shows(date, hash, k) == \E i \in 1 .. k : log[i].date = date /\ log[i].text = hash

\* A summary shows a message that was there when ZZap was asked; flags only go out.
SummaryInv ==
    /\ thread # Null => Shows(thread.lastDate, thread.lastHash, Len(log))
    /\ pc = "polled" => Shows(answer.lastDate, answer.lastHash, answer.length)
    /\ pc = "polled" /\ answer.unread = 0 => \A k \in 1 .. answer.length : ~log[k].unread
    /\ pc = "fetched" =>
        /\ Shows(thread.lastDate, thread.lastHash, Cardinality(answer.items))
        /\ FlagsMayMiss \/ \A i \in answer.items : log[i.index].unread => i.unread
    /\ SummaryFlags

\* A message that is waiting for its import is being fetched, or came after the
\* summary that the thread was last compared with.
Seen(k) ==
    \/ fetchQueued
    \/ pc = "fetched" /\ k <= Cardinality(answer.items)
    \/ Shows(thread.lastDate, thread.lastHash, k - 1)

SeenInv ==
    crashes = 0 /\ HasCursor =>
        \A k \in baseline + 1 .. Len(log) : log[k].from = "customer" /\ ~Handled(k) => Seen(k)

\* An outbound record that the echo test would find.
EchoOf(m, date, text) ==
    m.direction = "outbound" /\ m.hash = text /\ (Near(date, m.date) \/ Near(date, m.created))

EchoInv ==
    \A k \in DOMAIN log : log[k].from = "operator" /\ ~swept =>
        \/ k \in unrecorded \cup late
        \/ \E m \in mappings : EchoOf(m, log[k].date, log[k].text)

\* Between the begin of an attempt, the send and its record.
SentInv ==
    /\ pc \in {"sending", "sent"} => answer.job.at <= clock /\ answer.began <= clock
    /\ pc = "sent" =>
        /\ answer.index \in unrecorded /\ imported[answer.index] = 0
        /\ log[answer.index].from = "operator" /\ log[answer.index].text = answer.job.text
        /\ \/ answer.index \in late
           \/ Near(log[answer.index].date, answer.job.at)
           \/ Near(log[answer.index].date, answer.began)

UnreadInv == FlagsMayMiss \/ BootstrapImportsUnread

IInv ==
    /\ LoopInvs /\ SummaryInv /\ SeenInv /\ EchoInv /\ SentInv /\ UnreadInv
    /\ ReimportExplained /\ EchoExplained

---------------------------------------------------------------------------
(* PersistMessages *)

Persisted(done) ==
    /\ LoopOK(answer.items, done)
    /\ thread' = [thread EXCEPT !.cursor = done.cursor, !.guard = done.guard]
    /\ mappings' = mappings \cup
         {NewMapping(FingerprintOf(i), "inbound", "pending", i.text, i.date, clock) : i \in done.new}
    /\ imported' = [k \in DOMAIN imported |->
                      IF \E i \in done.new : i.index = k THEN imported[k] + 1 ELSE imported[k]]
    /\ shadowed' = shadowed \cup {i.index : i \in {i \in answer.items : IsEcho(i)}}
    /\ baseline' = IF thread.cursor = Null /\ done.cursor # Null THEN Cardinality(answer.items) ELSE baseline

\* PersistMessages, in the words of the loop.
LEMMA PersistLoop ==
    ASSUME IInv, PersistMessages
    PROVE  pc = "fetched" /\ \E done : Persisted(done)
  <1>1. pc = "fetched"
    BY DEF PersistMessages
  <1>2. LoopInvs /\ SummaryFlags
    BY DEF IInv, SummaryInv
  <1> DEFINE done == Import(InOrder(answer.items))
  <1>3. LoopOK(answer.items, done)
    BY <1>1, <1>2, ImportLoop
  <1>4. /\ thread' = [thread EXCEPT !.cursor = done.cursor, !.guard = done.guard]
        /\ mappings' = mappings \cup
             {NewMapping(FingerprintOf(i), "inbound", "pending", i.text, i.date, clock) : i \in done.new}
        /\ imported' = [k \in DOMAIN imported |->
                          IF \E i \in done.new : i.index = k THEN imported[k] + 1 ELSE imported[k]]
        /\ shadowed' = shadowed \cup {i.index : i \in {i \in answer.items : IsEcho(i)}}
        /\ baseline' = IF thread.cursor = Null /\ done.cursor # Null THEN Cardinality(answer.items) ELSE baseline
    BY DEF PersistMessages
  <1> HIDE DEF done
  <1>5. Persisted(done)
    BY <1>3, <1>4 DEF Persisted
  <1> QED
    BY <1>1, <1>5

\* A fetched thread has the first messages of the log.
LEMMA FetchFacts ==
    ASSUME TypeOK, pc = "fetched"
    PROVE  /\ Cardinality(answer.items) \in Nat /\ Cardinality(answer.items) <= Len(log)
           /\ \A k \in 1 .. Cardinality(answer.items) : \E i \in answer.items : i.index = k
  <1>1. /\ {i.index : i \in answer.items} = 1 .. Cardinality(answer.items)
        /\ \A i \in answer.items : i.index <= Len(log)
        /\ IsFiniteSet(answer.items) /\ Len(log) \in Nat
    BY DEF TypeOK, AnswerOK
  <1>2. Cardinality(answer.items) \in Nat
    BY <1>1, FS_CardinalityType
  <1>3. \A k \in 1 .. Cardinality(answer.items) : \E i \in answer.items : i.index = k
    BY <1>1
  <1>4. CASE Cardinality(answer.items) = 0
    BY <1>1, <1>4
  <1>5. CASE Cardinality(answer.items) > 0
    <2>1. Cardinality(answer.items) \in 1 .. Cardinality(answer.items)
      BY <1>2, <1>5
    <2> QED
      BY <1>1, <1>2, <1>3, <2>1
  <1> QED
    BY <1>2, <1>3, <1>4, <1>5

\* The row of the thread: a cursor and a guard together, the cursor never earlier.
LEMMA PersistThread ==
    ASSUME LoopInvs, pc = "fetched", NEW done, Persisted(done)
    PROVE  /\ thread' \in Threads /\ thread' # Null /\ thread # Null
           /\ thread'.cursor = done.cursor /\ thread'.guard = done.guard
           /\ thread'.lastDate = thread.lastDate /\ thread'.lastHash = thread.lastHash
           /\ thread'.cursor = Null <=> thread'.guard = Null
           /\ HasCursor => thread'.cursor # Null /\ thread'.cursor >= thread.cursor
           /\ done.new # {} => thread'.cursor # Null
           /\ done.new = {} => thread'.cursor = thread.cursor /\ thread'.guard = thread.guard
  <1>1. TypeOK /\ StateOK(answer.items, done) /\ NewOK(done)
    BY DEF LoopInvs, Persisted, LoopOK
  <1>2. thread \in Threads /\ thread # Null /\ (thread.cursor = Null <=> thread.guard = Null)
    BY <1>1 DEF TypeOK, AnswerOK
  <1>3. /\ done.cursor \in Nat \cup {Null} /\ Null \notin Nat
        /\ HasCursor => thread.cursor \in Nat /\ done.cursor \in Nat
    BY <1>1, CursorFacts
  <1>4. CASE done.new = {}
    <2>1. done.cursor = thread.cursor /\ done.guard = thread.guard
      BY <1>1, <1>4 DEF StateOK
    <2>2. thread' = [thread EXCEPT !.cursor = thread.cursor, !.guard = thread.guard]
      BY <2>1 DEF Persisted
    <2>3. thread' \in Threads /\ thread'.cursor = thread.cursor /\ thread'.guard = thread.guard
          /\ thread'.lastDate = thread.lastDate /\ thread'.lastHash = thread.lastHash
      BY <1>2, <2>2 DEF Threads
    <2>4. HasCursor => thread'.cursor >= thread.cursor
      BY <1>3, <2>3
    <2> QED
      BY <1>2, <1>4, <2>1, <2>3, <2>4, HashAssumption DEF HasCursor
  <1>5. CASE done.new # {}
    <2>1. PICK i \in done.new : done.cursor = i.date /\ done.guard = FingerprintOf(i)
      BY <1>1, <1>5 DEF StateOK
    <2>2. i \in answer.items
      BY <1>1 DEF StateOK
    <2>3. i.date \in Nat /\ FingerprintOf(i) \in Fingerprints /\ FingerprintOf(i) # Null
      BY <1>1, <2>2, ItemFacts
    <2>4. thread' = [thread EXCEPT !.cursor = done.cursor, !.guard = done.guard]
      BY DEF Persisted
    <2>5. thread' \in Threads /\ thread'.cursor = done.cursor /\ thread'.guard = done.guard
          /\ thread'.lastDate = thread.lastDate /\ thread'.lastHash = thread.lastHash
      BY <1>2, <2>1, <2>3, <2>4 DEF Threads
    <2>6. HasCursor => thread'.cursor >= thread.cursor
      BY <1>1, <1>3, <2>1, <2>3, <2>5 DEF NewOK
    <2> QED
      BY <1>2, <1>3, <1>5, <2>1, <2>3, <2>5, <2>6, HashAssumption
  <1> QED
    BY <1>4, <1>5

\* Who is counted as imported: those that were, and the new ones.
LEMMA PersistCounts ==
    ASSUME LoopInvs, pc = "fetched", NEW done, Persisted(done)
    PROVE  /\ imported' \in [1 .. MaxLog -> Nat]
           /\ \A k \in 1 .. MaxLog :
                /\ imported[k] > 0 => imported'[k] > 0
                /\ imported'[k] > 0 => imported[k] > 0 \/ \E i \in done.new : i.index = k
                /\ imported'[k] > 1 => imported[k] > 1 \/ (imported[k] > 0 /\ \E i \in done.new : i.index = k)
           /\ \A i \in done.new : imported'[i.index] > 0
  <1>1. imported \in [1 .. MaxLog -> Nat] /\ TypeOK
    BY DEF LoopInvs, TypeOK
  <1>2. /\ DOMAIN imported = 1 .. MaxLog
        /\ imported' = [k \in 1 .. MaxLog |->
                          IF \E i \in done.new : i.index = k THEN imported[k] + 1 ELSE imported[k]]
    BY <1>1 DEF Persisted
  <1>3. ASSUME NEW k \in 1 .. MaxLog
        PROVE  imported[k] \in Nat /\ imported'[k] = IF \E i \in done.new : i.index = k THEN imported[k] + 1 ELSE imported[k]
    BY <1>1, <1>2
  <1>4. imported' \in [1 .. MaxLog -> Nat]
    BY <1>1, <1>2
  <1>5. ASSUME NEW k \in 1 .. MaxLog
        PROVE  /\ imported[k] > 0 => imported'[k] > 0
               /\ imported'[k] > 0 => imported[k] > 0 \/ \E i \in done.new : i.index = k
               /\ imported'[k] > 1 => imported[k] > 1 \/ (imported[k] > 0 /\ \E i \in done.new : i.index = k)
               /\ \A i \in done.new : i.index = k => imported'[k] > 0
    <2>1. CASE \E i \in done.new : i.index = k
      <3>1. imported'[k] = imported[k] + 1 /\ imported[k] \in Nat
        BY <1>3, <2>1
      <3> QED
        BY <2>1, <3>1
    <2>2. CASE ~\E i \in done.new : i.index = k
      <3>1. imported'[k] = imported[k]
        BY <1>3, <2>2
      <3> QED
        BY <2>2, <3>1
    <2> QED
      BY <2>1, <2>2
  <1>6. \A i \in done.new : i.index \in 1 .. MaxLog
    <2> SUFFICES ASSUME NEW i \in done.new PROVE i.index \in 1 .. MaxLog
      OBVIOUS
    <2>1. i.index \in DOMAIN log
      BY <1>1, ItemFacts DEF Persisted, LoopOK, StateOK
    <2> QED
      BY <1>1, <2>1, MessageFacts
  <1> QED
    BY <1>4, <1>5, <1>6

\* The new rows are inbound, one for each new message, and of new fingerprints.
LEMMA PersistMappings ==
    ASSUME LoopInvs, pc = "fetched", NEW done, Persisted(done)
    PROVE  /\ mappings' \subseteq Mappings
           /\ \A m \in mappings' : m.created <= clock
           /\ \A m, n \in mappings' : m.fingerprint = n.fingerprint => m = n
           /\ mappings \subseteq mappings'
           /\ \A m \in mappings' : \/ m \in mappings
                                   \/ /\ m.direction = "inbound"
                                      /\ \E i \in done.new : m.fingerprint = FingerprintOf(i)
           /\ \A i \in done.new : \E m \in mappings' : m.fingerprint = FingerprintOf(i)
           /\ done.new = {} => mappings' = mappings
  <1> DEFINE Row(i) == NewMapping(FingerprintOf(i), "inbound", "pending", i.text, i.date, clock)
  <1>1. TypeOK /\ done.new \subseteq answer.items /\ NewOK(done)
    BY DEF LoopInvs, Persisted, LoopOK, StateOK
  <1>2. mappings' = mappings \cup {Row(i) : i \in done.new}
    BY DEF Persisted
  <1>3. ASSUME NEW i \in done.new
        PROVE  /\ Row(i) \in Mappings /\ Row(i).created <= clock /\ Row(i).fingerprint = FingerprintOf(i)
               /\ Row(i).direction = "inbound"
    <2>1. i.date \in Nat /\ i.text \in Texts /\ FingerprintOf(i) \in Fingerprints /\ clock \in Nat
      BY <1>1, ItemFacts DEF TypeOK
    <2> QED
      BY <2>1 DEF NewMapping, Mappings
  <1> HIDE DEF Row
  <1>4. mappings' \subseteq Mappings /\ \A m \in mappings' : m.created <= clock
    BY <1>1, <1>2, <1>3 DEF TypeOK
  <1>5. ASSUME NEW m \in mappings', NEW n \in mappings', m.fingerprint = n.fingerprint
        PROVE  m = n
    <2>1. CASE m \in mappings /\ n \in mappings
      BY <1>1, <1>5, <2>1 DEF TypeOK
    <2>2. ASSUME NEW i \in done.new, m = Row(i), n \in mappings PROVE FALSE
      BY <1>1, <1>3, <1>5, <2>2 DEF NewOK
    <2>3. ASSUME NEW i \in done.new, n = Row(i), m \in mappings PROVE FALSE
      BY <1>1, <1>3, <1>5, <2>3 DEF NewOK
    <2>4. ASSUME NEW i \in done.new, NEW j \in done.new, m = Row(i), n = Row(j) PROVE m = n
      BY <1>1, <1>3, <1>5, <2>4 DEF NewOK
    <2> QED
      BY <1>2, <2>1, <2>2, <2>3, <2>4
  <1> QED
    BY <1>2, <1>3, <1>4, <1>5

\* After a fetch with a cursor, every customer's message of the answer is dealt with.
LEMMA PersistHandles ==
    ASSUME LoopInvs, pc = "fetched", NEW done, Persisted(done), HasCursor, NEW i \in answer.items,
           i.from = "customer", i.index > baseline
    PROVE  Handled(i.index)'
  <1>1. Handled(i.index) \/ IsEcho(i) \/ i \in done.new
    BY DEF Persisted, LoopOK, LeftOK
  <1>2. i.index \in 1 .. MaxLog
    BY ItemFacts, MessageFacts DEF LoopInvs
  <1>3. CASE Handled(i.index)
    BY <1>2, <1>3, PersistCounts DEF Handled, Persisted
  <1>4. CASE IsEcho(i)
    BY <1>4 DEF Handled, Persisted
  <1>5. CASE i \in done.new
    BY <1>5, PersistCounts DEF Handled
  <1> QED
    BY <1>1, <1>3, <1>4, <1>5

---------------------------------------------------------------------------
(* PersistMessages keeps the invariant *)

\* What PersistMessages leaves alone.
LEMMA PersistRest ==
    ASSUME PersistMessages
    PROVE  /\ pc' = "idle" /\ answer' = Null
           /\ clock' = clock /\ log' = log /\ outbox' = outbox /\ written' = written
           /\ fetchQueued' = fetchQueued /\ crashes' = crashes
           /\ unrecorded' = unrecorded /\ late' = late /\ swept' = swept
  BY DEF PersistMessages, zzap

\* When the thread has a cursor, and where its baseline is.
LEMMA PersistCursor ==
    ASSUME LoopInvs, pc = "fetched", NEW done, Persisted(done)
    PROVE  /\ HasCursor => HasCursor'
           /\ HasCursor' <=> done.cursor # Null
           /\ done.new # {} => HasCursor'
           /\ ~HasCursor => thread.cursor = Null
           /\ ~HasCursor' => done.new = {} /\ ~HasCursor
           /\ HasCursor => baseline' = baseline
           /\ ~HasCursor /\ HasCursor' => baseline' = Cardinality(answer.items)
           /\ ~HasCursor' => baseline' = baseline
           /\ baseline' \in {baseline, Cardinality(answer.items)}
  <1>1. /\ thread' # Null /\ thread # Null /\ thread'.cursor = done.cursor
        /\ HasCursor => thread'.cursor # Null
        /\ done.new # {} => thread'.cursor # Null
    BY PersistThread
  <1>2. baseline' = IF thread.cursor = Null /\ done.cursor # Null THEN Cardinality(answer.items) ELSE baseline
    BY DEF Persisted
  <1> QED
    BY <1>1, <1>2 DEF HasCursor

\* The types after the import.
LEMMA PersistType ==
    ASSUME IInv, PersistMessages, pc = "fetched", NEW done, Persisted(done)
    PROVE  TypeOK'
  <1>1. LoopInvs /\ TypeOK
    BY DEF IInv, LoopInvs
  <1>2. thread' \in Threads /\ thread' # Null /\ (thread'.cursor = Null <=> thread'.guard = Null)
    BY <1>1, PersistThread
  <1>3. /\ mappings' \subseteq Mappings
        /\ \A m \in mappings' : m.created <= clock
        /\ \A m, n \in mappings' : m.fingerprint = n.fingerprint => m = n
    BY <1>1, PersistMappings
  <1>4. imported' \in [1 .. MaxLog -> Nat]
    BY <1>1, PersistCounts
  <1>5. shadowed' \subseteq DOMAIN log
    <2>1. \A i \in answer.items : i.index \in DOMAIN log
      BY <1>1, ItemFacts
    <2>2. shadowed \subseteq DOMAIN log
      BY <1>1 DEF TypeOK
    <2> QED
      BY <2>1, <2>2 DEF Persisted
  <1>6. baseline' \in Nat
    <2>1. baseline \in Nat
      BY <1>1 DEF TypeOK
    <2> QED
      BY <1>1, <2>1, FetchFacts, PersistCursor
  <1>7. AnswerOK'
    BY PersistRest DEF AnswerOK
  <1> QED
    BY <1>1, <1>2, <1>3, <1>4, <1>5, <1>6, <1>7, PersistRest DEF TypeOK

\* The log after the import.
LEMMA PersistLog ==
    ASSUME IInv, PersistMessages, pc = "fetched", NEW done, Persisted(done)
    PROVE  LogInv'
  <1>1. LoopInvs /\ TypeOK /\ LogInv
    BY DEF IInv, LoopInvs
  <1>2. baseline' <= Len(log)
    BY <1>1, FetchFacts, PersistCursor DEF LogInv
  <1>3. /\ \A i, k \in DOMAIN log : i < k /\ log[k].from = "customer" => log[i].date <= log[k].date
        /\ \A i, k \in DOMAIN log :
            log[i].from = "customer" /\ FingerprintOf(log[i]) = FingerprintOf(log[k]) => i = k
        /\ \A k \in DOMAIN log : log[k].unread => log[k].from = "customer"
    BY <1>1 DEF LogInv
  <1>4. log' = log
    BY PersistRest
  <1> QED
    BY <1>2, <1>3, <1>4 DEF LogInv

\* Every mapping has its message, and every imported message its mapping.
LEMMA PersistRecords ==
    ASSUME IInv, PersistMessages, pc = "fetched", NEW done, Persisted(done)
    PROVE  RecordsInv'
  <1>1. LoopInvs /\ TypeOK /\ RecordsInv /\ done.new \subseteq answer.items /\ NewOK(done)
    BY DEF IInv, LoopInvs, Persisted, LoopOK, StateOK
  <1>2. log' = log /\ swept' = swept
    BY PersistRest
  <1>3. \A i \in done.new : /\ i.index \in DOMAIN log /\ FingerprintOf(log[i.index]) = FingerprintOf(i)
                            /\ log[i.index].date = i.date /\ imported'[i.index] > 0
    BY <1>1, ItemFacts, PersistCounts
  <1>4. ASSUME NEW m \in mappings'
        PROVE  /\ m.direction = "inbound" =>
                    \E k \in DOMAIN log : imported'[k] > 0 /\ FingerprintOf(log[k]) = m.fingerprint
               /\ m.direction = "outbound" =>
                    m.status = "succeeded" /\ OutboundPrint(m)
    <2>1. \/ m \in mappings
          \/ m.direction = "inbound" /\ \E i \in done.new : m.fingerprint = FingerprintOf(i)
      BY <1>1, PersistMappings
    <2>2. CASE m \in mappings
      <3>1. ASSUME m.direction = "inbound"
            PROVE  \E k \in DOMAIN log : imported'[k] > 0 /\ FingerprintOf(log[k]) = m.fingerprint
        <4>1. PICK k \in DOMAIN log : imported[k] > 0 /\ FingerprintOf(log[k]) = m.fingerprint
          BY <1>1, <2>2, <3>1 DEF RecordsInv
        <4>2. k \in 1 .. MaxLog
          BY <1>1, MessageFacts
        <4> QED
          BY <1>1, <4>1, <4>2, PersistCounts
      <3> QED
        BY <1>1, <2>2, <3>1 DEF RecordsInv
    <2>3. CASE m.direction = "inbound" /\ \E i \in done.new : m.fingerprint = FingerprintOf(i)
      BY <1>3, <2>3
    <2> QED
      BY <2>1, <2>2, <2>3
  <1>5. ASSUME NEW k \in 1 .. MaxLog, imported'[k] > 0
        PROVE  /\ k \in DOMAIN log /\ HasCursor' /\ log[k].date <= thread'.cursor
               /\ swept \/ \E m \in mappings' : m.fingerprint = FingerprintOf(log[k])
    <2>1. imported[k] > 0 \/ \E i \in done.new : i.index = k
      BY <1>1, <1>5, PersistCounts
    <2>2. ASSUME imported[k] > 0
          PROVE  /\ k \in DOMAIN log /\ HasCursor' /\ log[k].date <= thread'.cursor
                 /\ swept \/ \E m \in mappings' : m.fingerprint = FingerprintOf(log[k])
      <3>1. /\ k \in DOMAIN log /\ HasCursor /\ log[k].date <= thread.cursor
            /\ swept \/ \E m \in mappings : m.fingerprint = FingerprintOf(log[k])
        BY <1>1, <2>2 DEF RecordsInv
      <3>2. /\ HasCursor' /\ thread.cursor <= thread'.cursor
        BY <1>1, <3>1, PersistCursor, PersistThread
      <3>3. log[k].date \in Nat /\ thread.cursor \in Nat /\ thread'.cursor \in Nat
        <4>1. thread \in Threads /\ thread' \in Threads
          BY <1>1, PersistThread DEF TypeOK, HasCursor
        <4> QED
          BY <1>1, <3>1, <3>2, <4>1, MessageFacts DEF Threads, HasCursor
      <3>4. mappings \subseteq mappings'
        BY <1>1, PersistMappings
      <3>5. log[k].date <= thread'.cursor
        BY <3>1, <3>2, <3>3
      <3> QED
        BY <3>1, <3>2, <3>4, <3>5
    <2>3. ASSUME NEW i \in done.new, i.index = k
          PROVE  /\ k \in DOMAIN log /\ HasCursor' /\ log[k].date <= thread'.cursor
                 /\ \E m \in mappings' : m.fingerprint = FingerprintOf(log[k])
      <3>1. k \in DOMAIN log /\ FingerprintOf(log[k]) = FingerprintOf(i) /\ log[k].date = i.date
        BY <1>3, <2>3
      <3>2. i.date <= done.cursor /\ thread'.cursor = done.cursor
        BY <1>1, PersistThread DEF NewOK
      <3>3. HasCursor' /\ \E m \in mappings' : m.fingerprint = FingerprintOf(i)
        BY <1>1, PersistCursor, PersistMappings
      <3> QED
        BY <3>1, <3>2, <3>3
    <2> QED
      BY <2>1, <2>2, <2>3
  <1> QED
    BY <1>2, <1>4, <1>5 DEF RecordsInv

\* A thread that still has no cursor has no records; else its guard has a message.
LEMMA PersistStart ==
    ASSUME IInv, PersistMessages, pc = "fetched", NEW done, Persisted(done)
    PROVE  StartInv' /\ GuardInv'
  <1>1. LoopInvs /\ TypeOK /\ StartInv /\ GuardInv /\ StateOK(answer.items, done)
    BY DEF IInv, LoopInvs, Persisted, LoopOK
  <1>2. log' = log /\ outbox' = outbox /\ pc' = "idle"
    BY PersistRest
  <1>3. StartInv'
    <2> SUFFICES ASSUME ~HasCursor'
                 PROVE  mappings' = {} /\ outbox = {} /\ \A k \in DOMAIN log : log[k].from = "customer"
      BY <1>2 DEF StartInv
    <2>1. done.new = {} /\ ~HasCursor
      BY <1>1, PersistCursor
    <2>2. mappings' = mappings
      BY <1>1, <2>1, PersistMappings
    <2> QED
      BY <1>1, <2>1, <2>2 DEF StartInv
  <1>4. GuardInv'
    <2> SUFFICES ASSUME HasCursor'
                 PROVE  \E j \in DOMAIN log :
                          /\ log[j].date = thread'.cursor
                          /\ \/ thread'.guard = FingerprintOf(log[j]) /\ imported'[j] > 0
                             \/ thread'.guard = log[j].text /\ j <= baseline' /\ log[j].from = "customer"
      BY <1>2 DEF GuardInv
    <2>1. CASE done.new = {}
      <3>1. thread'.cursor = thread.cursor /\ thread'.guard = thread.guard /\ HasCursor
        BY <1>1, <2>1, PersistThread DEF HasCursor
      <3>2. baseline' = baseline
        BY <1>1, <3>1, PersistCursor
      <3>3. PICK j \in DOMAIN log :
                /\ log[j].date = thread.cursor
                /\ \/ thread.guard = FingerprintOf(log[j]) /\ imported[j] > 0
                   \/ thread.guard = log[j].text /\ j <= baseline /\ log[j].from = "customer"
        BY <1>1, <3>1 DEF GuardInv
      <3>4. imported[j] > 0 => imported'[j] > 0
        BY <1>1, MessageFacts, PersistCounts
      <3> QED
        BY <3>1, <3>2, <3>3, <3>4
    <2>2. CASE done.new # {}
      <3>1. PICK i \in done.new : done.cursor = i.date /\ done.guard = FingerprintOf(i)
        BY <1>1, <2>2 DEF StateOK
      <3>2. /\ i.index \in DOMAIN log /\ FingerprintOf(log[i.index]) = FingerprintOf(i)
            /\ log[i.index].date = i.date /\ imported'[i.index] > 0
        BY <1>1, ItemFacts, PersistCounts DEF StateOK
      <3>3. thread'.cursor = done.cursor /\ thread'.guard = done.guard
        BY <1>1, PersistThread
      <3> QED
        BY <3>1, <3>2, <3>3
    <2> QED
      BY <2>1, <2>2
  <1> QED
    BY <1>3, <1>4

\* A position beyond first is a position.
LEMMA Later ==
    ASSUME NEW first \in Nat, NEW n \in Nat, NEW k \in first + 1 .. n
    PROVE  k \in 1 .. n /\ k > first /\ k \in Nat
  OBVIOUS

\* What the new cursor passes was handled, or is no newer than what was imported.
LEMMA PersistSkips ==
    ASSUME IInv, PersistMessages, pc = "fetched", NEW done, Persisted(done)
    PROVE  NoneSkipped'
  <1>1. LoopInvs /\ TypeOK /\ LogInv /\ NoneSkipped /\ StateOK(answer.items, done)
    BY DEF IInv, LoopInvs, Persisted, LoopOK
  <1>2. log' = log
    BY PersistRest
  <1> SUFFICES ASSUME HasCursor', NEW k \in baseline' + 1 .. Len(log),
                      log[k].from = "customer", log[k].date < thread'.cursor
               PROVE  Handled(k)'
    BY <1>2 DEF NoneSkipped, HasCursor, Handled
  <1>3. /\ Cardinality(answer.items) \in Nat /\ baseline \in Nat /\ baseline' \in Nat
        /\ k \in DOMAIN log /\ k \in 1 .. MaxLog /\ log[k].date \in Nat /\ k > baseline'
        /\ k \in Nat
    <2>1. baseline \in Nat /\ Len(log) \in Nat /\ DOMAIN log = 1 .. Len(log) /\ Cardinality(answer.items) \in Nat
      BY <1>1, FetchFacts DEF TypeOK
    <2>2. baseline' \in Nat
      BY <1>1, <2>1, PersistCursor
    <2>3. k \in 1 .. Len(log) /\ k > baseline' /\ k \in Nat
      BY <2>1, <2>2, Later
    <2> QED
      BY <1>1, <2>1, <2>2, <2>3, MessageFacts
  <1>4. CASE k <= Cardinality(answer.items)
    <2>1. HasCursor /\ baseline' = baseline
      BY <1>1, <1>3, <1>4, PersistCursor
    <2>2. PICK i \in answer.items : i.index = k
      BY <1>1, <1>3, <1>4, FetchFacts
    <2>3. i.from = "customer" /\ i.index > baseline
      BY <1>1, <1>3, <2>1, <2>2, ItemFacts
    <2>4. Handled(i.index)'
      BY <1>1, <2>1, <2>3, PersistHandles
    <2> QED
      BY <2>2, <2>4
  <1>5. CASE k > Cardinality(answer.items)
    <2>1. CASE done.new = {}
      <3>1. thread'.cursor = thread.cursor /\ HasCursor
        BY <1>1, <2>1, PersistThread, PersistCursor DEF HasCursor
      <3>2. baseline' = baseline
        BY <1>1, <3>1, PersistCursor
      <3>3. imported[k] > 0 \/ k \in shadowed
        BY <1>1, <3>1, <3>2 DEF NoneSkipped, HasCursor
      <3>4. imported[k] > 0 => imported'[k] > 0
        BY <1>1, <1>3, PersistCounts
      <3>5. shadowed \subseteq shadowed'
        BY DEF Persisted
      <3> QED
        BY <3>3, <3>4, <3>5 DEF Handled
    <2>2. CASE done.new # {}
      <3>1. PICK i \in done.new : done.cursor = i.date
        BY <1>1, <2>2 DEF StateOK
      <3>2. i.index \in DOMAIN log /\ i.index \in 1 .. Cardinality(answer.items) /\ log[i.index].date = i.date
            /\ i.date \in Nat
        BY <1>1, ItemFacts DEF StateOK
      <3>3. log[i.index].date <= log[k].date
        BY <1>1, <1>3, <1>5, <3>2 DEF LogInv
      <3>4. thread'.cursor = i.date
        BY <1>1, <3>1, PersistThread
      <3> QED
        BY <1>3, <3>2, <3>3, <3>4
    <2> QED
      BY <2>1, <2>2
  <1> QED
    BY <1>3, <1>4, <1>5

\* A summary that shows one of the first k messages shows one of more.
LEMMA ShowsMore ==
    ASSUME NEW date, NEW hash, NEW k \in Nat, NEW n \in Nat, k <= n, Shows(date, hash, k)
    PROVE  Shows(date, hash, n)
  BY DEF Shows

\* What still waits came after the fetched answer.
LEMMA PersistSeen ==
    ASSUME IInv, PersistMessages, pc = "fetched", NEW done, Persisted(done)
    PROVE  SummaryInv' /\ SeenInv'
  <1>1. LoopInvs /\ TypeOK /\ SummaryInv
    BY DEF IInv, LoopInvs
  <1>2. log' = log /\ pc' = "idle" /\ crashes' = crashes
    BY PersistRest
  <1>3. thread # Null /\ thread'.lastDate = thread.lastDate /\ thread'.lastHash = thread.lastHash
    BY <1>1, PersistThread
  <1>4. SummaryInv'
    BY <1>1, <1>2, <1>3 DEF SummaryInv, SummaryFlags, Shows
  <1>5. ASSUME HasCursor', NEW k \in baseline' + 1 .. Len(log), log[k].from = "customer", ~Handled(k)'
        PROVE  Shows(thread.lastDate, thread.lastHash, k - 1)
    <2>1. /\ Cardinality(answer.items) \in Nat /\ baseline \in Nat /\ baseline' \in Nat /\ Len(log) \in Nat
      BY <1>1, FetchFacts, PersistCursor DEF TypeOK
    <2>2. k \in 1 .. Len(log) /\ k > baseline' /\ k \in Nat
      BY <1>5, <2>1, Later
    <2>3. k > Cardinality(answer.items)
      <3> SUFFICES ASSUME k <= Cardinality(answer.items) PROVE FALSE
        BY <2>1, <2>2
      <3>1. HasCursor /\ baseline' = baseline
        BY <1>1, <1>5, <2>1, <2>2, PersistCursor
      <3>2. PICK i \in answer.items : i.index = k
        BY <1>1, <2>2, FetchFacts
      <3>3. i.from = "customer" /\ i.index > baseline
        BY <1>1, <1>5, <2>2, <3>1, <3>2, ItemFacts
      <3>4. Handled(i.index)'
        BY <1>1, <3>1, <3>3, PersistHandles
      <3> QED
        BY <1>5, <3>2, <3>4
    <2>4. Shows(thread.lastDate, thread.lastHash, Cardinality(answer.items))
      BY <1>1 DEF SummaryInv
    <2>5. k - 1 \in Nat /\ Cardinality(answer.items) <= k - 1
      BY <2>1, <2>2, <2>3
    <2> QED
      BY <2>1, <2>4, <2>5, ShowsMore
  <1>6. SeenInv'
    <2> SUFFICES ASSUME HasCursor', NEW k \in baseline' + 1 .. Len(log), log[k].from = "customer", ~Handled(k)'
                 PROVE  Seen(k)'
      BY <1>2 DEF SeenInv
    <2>1. Shows(thread.lastDate, thread.lastHash, k - 1)
      BY <1>5
    <2> QED
      BY <1>2, <1>3, <2>1 DEF Seen, Shows
  <1> QED
    BY <1>4, <1>6

\* A new item that was imported before lost its mapping and has a twin.
LEMMA PersistReimport ==
    ASSUME IInv, PersistMessages, pc = "fetched", NEW done, Persisted(done)
    PROVE  ReimportExplained'
  <1>1. LoopInvs /\ TypeOK /\ RecordsInv /\ ReimportExplained /\ done.new \subseteq answer.items /\ NewOK(done)
    BY DEF IInv, LoopInvs, Persisted, LoopOK, StateOK
  <1>2. log' = log /\ swept' = swept
    BY PersistRest
  <1> SUFFICES ASSUME NEW k \in DOMAIN log, imported'[k] > 1
               PROVE  swept /\ \E i \in DOMAIN log \ {k} : log[i].date = log[k].date
    BY <1>2 DEF ReimportExplained
  <1>3. k \in 1 .. MaxLog /\ log[k].date \in Nat
    BY <1>1, MessageFacts
  <1>4. imported[k] > 1 \/ (imported[k] > 0 /\ \E i \in done.new : i.index = k)
    BY <1>1, <1>3, PersistCounts
  <1>5. CASE imported[k] > 1
    BY <1>1, <1>5 DEF ReimportExplained
  <1>6. ASSUME imported[k] > 0, NEW i \in done.new, i.index = k
        PROVE  swept /\ \E j \in DOMAIN log \ {k} : log[j].date = log[k].date
    <2>1. /\ HasCursor /\ log[k].date <= thread.cursor
          /\ swept \/ \E m \in mappings : m.fingerprint = FingerprintOf(log[k])
      BY <1>1, <1>3, <1>6 DEF RecordsInv
    <2>2. FingerprintOf(log[k]) = FingerprintOf(i) /\ log[k].date = i.date
      BY <1>1, <1>6, ItemFacts
    <2>3. \A m \in mappings : m.fingerprint # FingerprintOf(i)
      BY <1>1 DEF NewOK
    <2>4. thread.cursor <= i.date
      BY <1>1, <2>1 DEF NewOK
    <2>5. thread.cursor \in Nat
      BY <1>1, <2>1, TimesAssumption DEF TypeOK, HasCursor, Threads
    <2>6. i.date = thread.cursor
      BY <1>3, <2>1, <2>2, <2>4, <2>5
    <2>7. \E j \in DOMAIN log \ {i.index} : log[j].date = i.date
      BY <1>1, <2>1, <2>6 DEF NewOK
    <2> QED
      BY <1>6, <2>1, <2>2, <2>3, <2>7
  <1> QED
    BY <1>4, <1>5, <1>6

\* An operator's message is taken in only if no record shows it.
LEMMA PersistEcho ==
    ASSUME IInv, PersistMessages, pc = "fetched", NEW done, Persisted(done)
    PROVE  EchoInv' /\ SentInv' /\ EchoExplained'
  <1>1. LoopInvs /\ TypeOK /\ RecordsInv /\ EchoInv /\ EchoExplained /\ done.new \subseteq answer.items /\ NewOK(done)
    BY DEF IInv, LoopInvs, Persisted, LoopOK, StateOK
  <1>2. log' = log /\ swept' = swept /\ unrecorded' = unrecorded /\ late' = late /\ pc' = "idle"
    BY PersistRest
  <1>3. mappings \subseteq mappings'
    BY <1>1, PersistMappings
  <1>4. EchoInv'
    BY <1>1, <1>2, <1>3 DEF EchoInv
  <1>5. SentInv'
    BY <1>2 DEF SentInv
  <1>6. ASSUME NEW k \in DOMAIN log, log[k].from = "operator", imported'[k] > 0
        PROVE  k \in unrecorded \/ k \in late \/ swept
    <2>1. imported[k] > 0 \/ \E i \in done.new : i.index = k
      BY <1>1, <1>6, MessageFacts, PersistCounts
    <2>2. CASE imported[k] > 0
      BY <1>1, <1>6, <2>2 DEF EchoExplained
    <2>3. ASSUME NEW i \in done.new, i.index = k, k \notin unrecorded \cup late, ~swept PROVE FALSE
      <3>1. PICK m \in mappings : EchoOf(m, log[k].date, log[k].text)
        BY <1>1, <1>6, <2>3 DEF EchoInv
      <3>2. m.direction = "outbound" /\ m.status = "succeeded" /\ m.hash = log[k].text
            /\ (Near(log[k].date, m.date) \/ Near(log[k].date, m.created))
        BY <1>1, <3>1 DEF EchoOf, RecordsInv
      <3>3. log[k].text = i.text /\ log[k].date = i.date
        BY <1>1, <2>3, ItemFacts
      <3>4. IsEcho(i)
        BY <3>2, <3>3 DEF IsEcho
      <3> QED
        BY <1>1, <3>4 DEF NewOK
    <2> QED
      BY <2>1, <2>2, <2>3
  <1>7. EchoExplained'
    BY <1>2, <1>6 DEF EchoExplained
  <1> QED
    BY <1>4, <1>5, <1>7

\* The first import takes in what is unread, when the flags are there.
LEMMA PersistUnread ==
    ASSUME IInv, PersistMessages, pc = "fetched", NEW done, Persisted(done)
    PROVE  UnreadInv'
  <1>1. /\ LoopInvs /\ TypeOK /\ LogInv /\ SummaryInv /\ UnreadInv /\ LeftOK(answer.items, done)
        /\ done.new \subseteq answer.items
    BY DEF IInv, LoopInvs, Persisted, LoopOK, StateOK
  <1>2. log' = log
    BY PersistRest
  <1> SUFFICES ASSUME ~FlagsMayMiss, HasCursor', NEW k \in 1 .. baseline', log[k].unread
               PROVE  imported'[k] > 0
    BY <1>2 DEF UnreadInv, BootstrapImportsUnread, HasCursor
  <1>3. CASE HasCursor
    <2>1. baseline' = baseline /\ baseline \in Nat /\ baseline <= Len(log) /\ Len(log) \in Nat
      BY <1>1, <1>3, PersistCursor DEF TypeOK, LogInv
    <2>2. k \in DOMAIN log /\ k \in 1 .. baseline
      BY <1>1, <2>1
    <2>3. imported[k] > 0
      BY <1>1, <1>3, <2>2 DEF UnreadInv, BootstrapImportsUnread, HasCursor
    <2> QED
      BY <1>1, <2>2, <2>3, MessageFacts, PersistCounts
  <1>4. CASE ~HasCursor
    <2>1. baseline' = Cardinality(answer.items)
      BY <1>1, <1>4, PersistCursor
    <2>2. PICK i \in answer.items : i.index = k
      BY <1>1, <2>1, FetchFacts
    <2>3. i.unread
      BY <1>1, <2>2 DEF SummaryInv
    <2>4. i \in done.new
      BY <1>1, <1>4, <2>3 DEF LeftOK
    <2> QED
      BY <1>1, <2>2, <2>4, PersistCounts
  <1> QED
    BY <1>3, <1>4

\* The import keeps the invariant.
LEMMA PersistKeeps ==
    ASSUME IInv, PersistMessages
    PROVE  IInv'
  <1>1. pc = "fetched"
    BY PersistLoop
  <1>2. PICK done : Persisted(done)
    BY PersistLoop
  <1>3. TypeOK' /\ LogInv' /\ RecordsInv'
    BY <1>1, <1>2, PersistType, PersistLog, PersistRecords
  <1>4. StartInv' /\ GuardInv' /\ NoneSkipped'
    BY <1>1, <1>2, PersistStart, PersistSkips
  <1>5. SummaryInv' /\ SeenInv' /\ ReimportExplained'
    BY <1>1, <1>2, PersistSeen, PersistReimport
  <1>6. EchoInv' /\ SentInv' /\ EchoExplained' /\ UnreadInv'
    BY <1>1, <1>2, PersistEcho, PersistUnread
  <1> QED
    BY <1>3, <1>4, <1>5, <1>6 DEF IInv, LoopInvs

---------------------------------------------------------------------------
(* Steps that leave the thread, its messages and its mappings alone *)

\* Conjuncts that speak only of the log, the thread, the mappings and the history.
LEMMA Quiet ==
    ASSUME IInv, log' = log, thread' = thread, mappings' = mappings, history' = history
    PROVE  /\ LogInv' /\ RecordsInv' /\ GuardInv' /\ NoneSkipped' /\ EchoInv' /\ UnreadInv'
           /\ ReimportExplained' /\ EchoExplained'
  <1>1. /\ imported' = imported /\ shadowed' = shadowed /\ unrecorded' = unrecorded /\ late' = late
        /\ baseline' = baseline /\ swept' = swept
    BY DEF history
  <1>2. HasCursor' <=> HasCursor
    BY DEF HasCursor
  <1>3. LogInv' /\ RecordsInv' /\ GuardInv'
    BY <1>1, <1>2 DEF IInv, LoopInvs, LogInv, RecordsInv, GuardInv
  <1>4. NoneSkipped' /\ EchoInv' /\ UnreadInv'
    BY <1>1, <1>2 DEF IInv, LoopInvs, NoneSkipped, EchoInv, UnreadInv, BootstrapImportsUnread
  <1>5. ReimportExplained' /\ EchoExplained'
    BY <1>1 DEF IInv, ReimportExplained, EchoExplained
  <1> QED
    BY <1>3, <1>4, <1>5

\* The worker is idle or down afterwards, and a queued fetch stays queued, unless the
\* process crashes or the thread has no cursor.
LEMMA QuietRest ==
    ASSUME IInv, log' = log, thread' = thread, mappings' = mappings, history' = history,
           clock' = clock, written' = written, outbox' \in SUBSET outbox, crashes' \in Nat,
           fetchQueued' \in BOOLEAN, pc' \in {"idle", "down"}, answer' = Null,
           fetchQueued => fetchQueued' \/ ~HasCursor \/ crashes' # 0,
           crashes' = 0 => crashes = 0 /\ (pc # "fetched" \/ fetchQueued')
    PROVE  IInv'
  <1>1. /\ imported' = imported /\ shadowed' = shadowed /\ unrecorded' = unrecorded /\ late' = late
        /\ baseline' = baseline /\ swept' = swept
    BY DEF history
  <1>2. HasCursor' <=> HasCursor
    BY DEF HasCursor
  <1>3. TypeOK'
    <2>1. AnswerOK'
      BY DEF AnswerOK
    <2> QED
      BY <1>1, <2>1 DEF IInv, LoopInvs, TypeOK
  <1>4. StartInv'
    BY <1>1, <1>2 DEF IInv, LoopInvs, StartInv
  <1>5. SummaryInv' /\ SentInv'
    BY DEF IInv, SummaryInv, SummaryFlags, SentInv, Shows
  <1>6. SeenInv'
    <2> SUFFICES ASSUME crashes' = 0, HasCursor, NEW k \in baseline + 1 .. Len(log), log[k].from = "customer",
                        ~Handled(k)
                 PROVE  Seen(k)'
      BY <1>1, <1>2 DEF SeenInv, Handled
    <2>1. Seen(k)
      BY DEF IInv, SeenInv
    <2>2. CASE fetchQueued'
      BY <2>2 DEF Seen
    <2>3. CASE Shows(thread.lastDate, thread.lastHash, k - 1)
      BY <2>3 DEF Seen, Shows
    <2> QED
      BY <2>1, <2>2, <2>3 DEF Seen
  <1> QED
    BY <1>3, <1>4, <1>5, <1>6, Quiet DEF IInv, LoopInvs

\* A poll, a fetch or a send fails, an unknown thread is skipped, the process
\* crashes or comes back.
LEMMA RestKeeps ==
    ASSUME IInv, PollFails \/ SkipUnknownThread \/ FetchFails \/ SendFails \/ Crash \/ Restart
    PROVE  IInv'
  <1>0. TypeOK /\ AnswerOK /\ crashes \in Nat /\ fetchQueued \in BOOLEAN
    BY DEF IInv, LoopInvs, TypeOK
  <1>1. CASE PollFails
    <2>1. fetchQueued' \in BOOLEAN /\ (fetchQueued => fetchQueued')
      BY <1>0, <1>1 DEF PollFails, WorthFetching, SummaryChanged
    <2> QED
      BY <1>0, <1>1, <2>1, QuietRest DEF PollFails, zzap, history
  <1>2. CASE SkipUnknownThread
    <2>1. answer = Null /\ ~HasCursor
      BY <1>0, <1>2 DEF SkipUnknownThread, AnswerOK, HasCursor
    <2> QED
      BY <1>0, <1>2, <2>1, QuietRest DEF SkipUnknownThread, zzap, history
  <1>3. CASE FetchFails
    BY <1>0, <1>3, QuietRest DEF FetchFails, zzap, history
  <1>4. CASE SendFails
    BY <1>0, <1>4, QuietRest DEF SendFails, zzap, history
  <1>5. CASE Crash
    <2>1. crashes' \in Nat /\ crashes' # 0
      BY <1>0, <1>5 DEF Crash
    <2> QED
      BY <1>0, <1>5, <2>1, QuietRest DEF Crash, zzap, history
  <1>6. CASE Restart
    <2>1. answer = Null
      BY <1>0, <1>6 DEF Restart, AnswerOK
    <2> QED
      BY <1>0, <1>6, <2>1, QuietRest DEF Restart, zzap, history
  <1> QED
    BY <1>1, <1>2, <1>3, <1>4, <1>5, <1>6

\* Time goes on: nothing gets a later date by it.
LEMMA TickKeeps ==
    ASSUME IInv, Tick
    PROVE  IInv'
  <1>1. /\ clock' = clock + 1 /\ log' = log /\ outbox' = outbox /\ written' = written /\ thread' = thread
        /\ mappings' = mappings /\ fetchQueued' = fetchQueued /\ pc' = pc /\ answer' = answer
        /\ crashes' = crashes /\ history' = history
    BY DEF Tick, zzap, history
  <1>2. /\ imported' = imported /\ shadowed' = shadowed /\ unrecorded' = unrecorded /\ late' = late
        /\ baseline' = baseline /\ swept' = swept
    BY <1>1 DEF history
  <1>3. TypeOK /\ clock \in Nat
    BY DEF IInv, LoopInvs, TypeOK
  <1>4. /\ \A k \in DOMAIN log : log[k].date <= clock'
        /\ \A o \in outbox : o.at <= clock'
        /\ \A m \in mappings : m.created <= clock'
    <2>1. \A k \in DOMAIN log : log[k].date \in Nat /\ log[k].date <= clock
      BY <1>3, MessageFacts DEF TypeOK
    <2>2. \A o \in outbox : o.at \in Nat /\ o.at <= clock
      BY <1>3 DEF TypeOK, Jobs
    <2>3. \A m \in mappings : m.created \in Nat /\ m.created <= clock
      BY <1>3 DEF TypeOK, Mappings
    <2> QED
      BY <1>1, <1>3, <2>1, <2>2, <2>3
  <1>5. AnswerOK'
    BY <1>1, <1>3 DEF TypeOK, AnswerOK
  <1>6. TypeOK'
    BY <1>1, <1>2, <1>3, <1>4, <1>5 DEF TypeOK
  <1>7. StartInv' /\ SummaryInv'
    BY <1>1, <1>2 DEF IInv, LoopInvs, StartInv, HasCursor, SummaryInv, SummaryFlags, Shows
  <1>8. SentInv'
    <2>1. pc \in {"sending", "sent"} =>
            /\ answer.job.at \in Nat /\ answer.job.at <= clock
            /\ answer.began \in Nat /\ answer.began <= clock
      BY <1>3 DEF IInv, SentInv, TypeOK, AnswerOK, Sendings, Jobs
    <2>2. pc \in {"sending", "sent"} => answer.job.at <= clock' /\ answer.began <= clock'
      BY <1>1, <1>3, <2>1
    <2> QED
      BY <1>1, <1>2, <2>2 DEF IInv, SentInv
  <1>9. SeenInv'
    BY <1>1, <1>2 DEF IInv, SeenInv, HasCursor, Handled, Seen, Shows
  <1> QED
    BY <1>1, <1>6, <1>7, <1>8, <1>9, Quiet DEF IInv, LoopInvs

\* An answer needs an imported message, so the thread has a cursor.
LEMMA OperatorKeeps ==
    ASSUME IInv, OperatorWrites
    PROVE  IInv'
  <1>1. /\ clock' = clock /\ log' = log /\ written' = written + 1 /\ thread' = thread
        /\ mappings' = mappings /\ fetchQueued' = fetchQueued /\ pc' = pc /\ answer' = answer
        /\ crashes' = crashes /\ history' = history
    BY DEF OperatorWrites, history
  <1>2. /\ imported' = imported /\ shadowed' = shadowed /\ unrecorded' = unrecorded /\ late' = late
        /\ baseline' = baseline /\ swept' = swept
    BY <1>1 DEF history
  <1>3. TypeOK /\ StartInv /\ clock \in Nat
    BY DEF IInv, LoopInvs, TypeOK
  <1>4. HasCursor
    BY <1>3 DEF OperatorWrites, MayHaveConversation, HasCursor, TypeOK
  <1>5. outbox' \subseteq Jobs /\ \A o \in outbox' : o.at <= clock
    <2>1. PICK text \in Texts : outbox' = outbox \cup {[text |-> text, at |-> clock]}
      BY DEF OperatorWrites
    <2>2. [text |-> text, at |-> clock] \in Jobs
      BY <1>3 DEF Jobs
    <2>3. [text |-> text, at |-> clock].at <= clock
      BY <1>3
    <2> QED
      BY <1>3, <2>1, <2>2, <2>3 DEF TypeOK
  <1>6. TypeOK'
    <2>1. AnswerOK'
      BY <1>1, <1>3 DEF TypeOK, AnswerOK
    <2> QED
      BY <1>1, <1>2, <1>3, <1>5, <2>1 DEF TypeOK
  <1>7. StartInv'
    BY <1>1, <1>3, <1>4 DEF StartInv, HasCursor
  <1>8. SummaryInv' /\ SentInv'
    BY <1>1, <1>2 DEF IInv, SummaryInv, SummaryFlags, Shows, SentInv
  <1>9. SeenInv'
    BY <1>1, <1>2 DEF IInv, SeenInv, HasCursor, Handled, Seen, Shows
  <1> QED
    BY <1>1, <1>6, <1>7, <1>8, <1>9, Quiet DEF IInv, LoopInvs

\* An attempt begins with an open job, so the thread has a cursor.
LEMMA BeginKeeps ==
    ASSUME IInv, BeginSend
    PROVE  IInv'
  <1>1. /\ pc = "idle" /\ thread # Null /\ pc' = "sending"
        /\ clock' = clock /\ log' = log /\ outbox' = outbox /\ written' = written /\ thread' = thread
        /\ mappings' = mappings /\ fetchQueued' = fetchQueued /\ crashes' = crashes /\ history' = history
    BY DEF BeginSend, zzap, history
  <1>2. /\ imported' = imported /\ shadowed' = shadowed /\ unrecorded' = unrecorded /\ late' = late
        /\ baseline' = baseline /\ swept' = swept
    BY <1>1 DEF history
  <1>3. TypeOK /\ StartInv /\ clock \in Nat /\ outbox \subseteq Jobs
    BY DEF IInv, LoopInvs, TypeOK
  <1>4. PICK o \in outbox : answer' = [job |-> o, began |-> clock, index |-> Null]
    BY DEF BeginSend
  <1>5. answer' \in Sendings
    BY <1>3, <1>4 DEF Sendings
  <1>6. TypeOK'
    <2>1. AnswerOK'
      BY <1>1, <1>5 DEF AnswerOK
    <2> QED
      BY <1>1, <1>2, <1>3, <2>1 DEF TypeOK
  <1>7. StartInv'
    BY <1>1, <1>3, <1>4 DEF StartInv, HasCursor
  <1>8. SummaryInv' /\ SentInv'
    <2>1. answer'.job.at <= clock /\ answer'.began <= clock
      BY <1>3, <1>4 DEF TypeOK
    <2> QED
      BY <1>1, <2>1 DEF IInv, SummaryInv, SummaryFlags, Shows, SentInv
  <1>9. SeenInv'
    BY <1>1, <1>2 DEF IInv, SeenInv, HasCursor, Handled, Seen, Shows
  <1> QED
    BY <1>1, <1>6, <1>7, <1>8, <1>9, Quiet DEF IInv, LoopInvs

---------------------------------------------------------------------------
(* Polls and fetches *)

\* The message that a summary shows, with the position it has.
IsLast(l) ==
    \A i \in DOMAIN log : log[i].date < log[l].date \/ (log[i].date = log[l].date /\ i <= l)

\* A log that is not empty has a last message.
LEMMA LastIsThere ==
    ASSUME TypeOK, log # <<>>
    PROVE  \E l \in DOMAIN log : LastMessage = log[l] /\ IsLast(l)
  <1>1. /\ clock \in Nat /\ Len(log) \in Nat /\ DOMAIN log = 1 .. Len(log) /\ Len(log) # 0
        /\ \A k \in DOMAIN log : log[k].date \in Nat /\ log[k].date <= clock
    BY MessageFacts DEF TypeOK
  <1> DEFINE Ages == {clock - log[k].date : k \in DOMAIN log}
  <1>2. Ages \in SUBSET Nat /\ Ages # {}
    BY <1>1
  <1>3. PICK a \in Ages : \A b \in Ages : a <= b
    <2> HIDE DEF Ages
    <2> QED
      BY <1>2, Least
  <1>4. PICK j \in DOMAIN log : a = clock - log[j].date
    BY <1>3
  <1>5. \A k \in DOMAIN log : log[k].date <= log[j].date
    <2> SUFFICES ASSUME NEW k \in DOMAIN log PROVE log[k].date <= log[j].date
      OBVIOUS
    <2>1. clock - log[j].date <= clock - log[k].date
      BY <1>3, <1>4
    <2> QED
      BY <1>1, <2>1
  <1> DEFINE Rests == {Len(log) - k : k \in {k \in DOMAIN log : log[k].date = log[j].date}}
  <1>6. Rests \in SUBSET Nat /\ Rests # {}
    BY <1>1
  <1>7. PICK r \in Rests : \A s \in Rests : r <= s
    <2> HIDE DEF Rests
    <2> QED
      BY <1>6, Least
  <1>8. PICK l \in DOMAIN log : log[l].date = log[j].date /\ r = Len(log) - l
    BY <1>7
  <1>9. IsLast(l)
    <2> SUFFICES ASSUME NEW i \in DOMAIN log, log[i].date = log[j].date PROVE i <= l
      BY <1>1, <1>5, <1>8 DEF IsLast
    <2>1. Len(log) - l <= Len(log) - i
      BY <1>7, <1>8
    <2> QED
      BY <1>1, <2>1
  <1> DEFINE Top(k) == \A i \in DOMAIN log : log[i].date < log[k].date \/ (log[i].date = log[k].date /\ i <= k)
             c == CHOOSE k \in DOMAIN log : Top(k)
  <1>10. Top(l)
    BY <1>9 DEF IsLast
  <1>11. c \in DOMAIN log /\ Top(c)
    <2> HIDE DEF Top
    <2> QED
      BY <1>10
  <1>12. LastMessage = log[c]
    BY DEF LastMessage
  <1>13. IsLast(c)
    BY <1>11 DEF IsLast
  <1> HIDE DEF c
  <1> QED
    BY <1>11, <1>12, <1>13

\* A summary shows the last message and counts the unread ones.
LEMMA ListKeeps ==
    ASSUME IInv, ListThreads
    PROVE  IInv'
  <1>1. /\ pc = "idle" /\ log # <<>> /\ pc' = "polled"
        /\ clock' = clock /\ log' = log /\ outbox' = outbox /\ written' = written /\ thread' = thread
        /\ mappings' = mappings /\ fetchQueued' = fetchQueued /\ crashes' = crashes /\ history' = history
    BY DEF ListThreads, zzap, history
  <1>2. /\ imported' = imported /\ shadowed' = shadowed /\ unrecorded' = unrecorded /\ late' = late
        /\ baseline' = baseline /\ swept' = swept
    BY <1>1 DEF history
  <1>3. TypeOK /\ Len(log) \in Nat /\ DOMAIN log = 1 .. Len(log)
    BY DEF IInv, LoopInvs, TypeOK
  <1>4. PICK l \in DOMAIN log : LastMessage = log[l]
    BY <1>1, <1>3, LastIsThere
  <1>5. /\ answer'.lastDate = log[l].date /\ answer'.lastHash = log[l].text
        /\ answer'.unread = UnreadCount /\ answer'.length = Len(log)
        /\ answer' = [lastDate |-> log[l].date, lastHash |-> log[l].text, unread |-> UnreadCount,
                      length |-> Len(log)]
    BY <1>4 DEF ListThreads
  <1>6. UnreadCount \in Nat /\ (UnreadCount = 0 => \A k \in DOMAIN log : ~log[k].unread)
    <2> DEFINE U == {k \in DOMAIN log : log[k].unread}
    <2>1. IsFiniteSet(DOMAIN log)
      BY <1>3, FS_Interval
    <2>2. U \in SUBSET (DOMAIN log)
      OBVIOUS
    <2>3. IsFiniteSet(U)
      <3> HIDE DEF U
      <3> QED
        BY <2>1, <2>2, FS_Subset
    <2>4. Cardinality(U) \in Nat /\ (Cardinality(U) = 0 <=> U = {})
      <3> HIDE DEF U
      <3> QED
        BY <2>3, FS_CardinalityType, FS_EmptySet
    <2>5. UnreadCount = Cardinality(U)
      BY DEF UnreadCount
    <2> QED
      BY <2>4, <2>5
  <1>7. answer' \in Summaries
    <2>1. log[l].date \in Nat /\ log[l].text \in Texts
      BY <1>3, MessageFacts DEF Messages
    <2> QED
      BY <1>3, <1>5, <1>6, <2>1 DEF Summaries
  <1>8. TypeOK'
    <2>1. AnswerOK'
      BY <1>1, <1>3, <1>5, <1>7 DEF AnswerOK
    <2> QED
      BY <1>1, <1>2, <1>3, <2>1 DEF TypeOK
  <1>9. StartInv' /\ SentInv'
    BY <1>1, <1>2 DEF IInv, LoopInvs, StartInv, HasCursor, SentInv
  <1>10. SummaryInv'
    <2>1. thread # Null => Shows(thread.lastDate, thread.lastHash, Len(log))
      BY DEF IInv, SummaryInv
    <2>2. Shows(log[l].date, log[l].text, Len(log))
      BY <1>3 DEF Shows
    <2> QED
      BY <1>1, <1>3, <1>5, <1>6, <2>1, <2>2 DEF SummaryInv, SummaryFlags, Shows
  <1>11. SeenInv'
    BY <1>1, <1>2 DEF IInv, SeenInv, HasCursor, Handled, Seen, Shows
  <1> QED
    BY <1>1, <1>8, <1>9, <1>10, <1>11, Quiet DEF IInv, LoopInvs

\* A fetch lists every message once, and everything that waits is in it.
LEMMA FetchKeeps ==
    ASSUME IInv, FetchMessages
    PROVE  IInv'
  <1>1. /\ thread # Null /\ pc' = "fetched" /\ fetchQueued' = FALSE
        /\ clock' = clock /\ log' = log /\ outbox' = outbox /\ written' = written /\ thread' = thread
        /\ mappings' = mappings /\ crashes' = crashes /\ history' = history
    BY DEF FetchMessages, zzap, history
  <1>2. /\ imported' = imported /\ shadowed' = shadowed /\ unrecorded' = unrecorded /\ late' = late
        /\ baseline' = baseline /\ swept' = swept
    BY <1>1 DEF history
  <1>3. TypeOK /\ LogInv /\ Len(log) \in Nat /\ DOMAIN log = 1 .. Len(log)
    BY DEF IInv, LoopInvs, TypeOK
  <1>4. PICK newestFirst \in BOOLEAN, flags \in {TRUE, ~FlagsMayMiss} :
          answer' = [items |-> {Item(k, IF newestFirst THEN -k ELSE k, flags) : k \in DOMAIN log}]
    BY DEF FetchMessages
  <1> DEFINE It(k) == Item(k, IF newestFirst THEN -k ELSE k, flags)
             items == {It(k) : k \in 1 .. Len(log)}
  <1>5. answer'.items = items
    BY <1>3, <1>4
  <1>6. ASSUME NEW k \in 1 .. Len(log)
        PROVE  /\ It(k) \in Items /\ It(k).index = k /\ FingerprintOf(It(k)) = FingerprintOf(log[k])
               /\ It(k).position = (IF newestFirst THEN -k ELSE k)
               /\ It(k).unread => log[k].unread
               /\ flags /\ log[k].unread => It(k).unread
               /\ It(k).from = log[k].from
    <2>1. log[k] \in Messages /\ flags \in BOOLEAN
      BY <1>3, MessageFacts, TimesAssumption
    <2>2. log[k].date \in Nat /\ log[k].text \in Texts /\ log[k].from \in Senders /\ log[k].unread \in BOOLEAN
      BY <2>1 DEF Messages
    <2> DEFINE p == IF newestFirst THEN -k ELSE k
               u == IF flags THEN log[k].unread ELSE FALSE
    <2>3. p \in Int /\ k \in Nat
      OBVIOUS
    <2>4. u \in BOOLEAN /\ (u => log[k].unread) /\ (flags /\ log[k].unread => u)
      BY <2>1, <2>2
    <2>5. It(k) = [index |-> k, position |-> p, date |-> log[k].date, text |-> log[k].text,
                   from |-> log[k].from, unread |-> u]
      BY DEF Item
    <2>6. p = IF newestFirst THEN -k ELSE k
      OBVIOUS
    <2> HIDE DEF p, u, It
    <2>7. It(k) \in Items
      BY <2>2, <2>3, <2>4, <2>5 DEF Items
    <2>8. It(k).index = k /\ It(k).position = p /\ It(k).from = log[k].from /\ It(k).unread = u
          /\ FingerprintOf(It(k)) = FingerprintOf(log[k])
      BY <2>5 DEF FingerprintOf
    <2> QED
      BY <2>4, <2>6, <2>7, <2>8
  <1> HIDE DEF It
  <1>7. \A i \in items : i.index \in 1 .. Len(log) /\ i = It(i.index)
    BY <1>6
  <1>8. {i.index : i \in items} = 1 .. Len(log)
    BY <1>6, <1>7
  <1>9. IsFiniteSet(items) /\ Cardinality(items) = Len(log)
    <2> DEFINE f == [k \in 1 .. Len(log) |-> It(k)]
    <2>1. f \in Bijection(1 .. Len(log), items)
      <3>1. f \in [1 .. Len(log) -> items] /\ \A a, b \in 1 .. Len(log) : f[a] = f[b] => a = b
        BY <1>6
      <3>2. \A i \in items : \E k \in 1 .. Len(log) : f[k] = i
        OBVIOUS
      <3> HIDE DEF f, items
      <3> QED
        BY <3>1, <3>2 DEF Bijection, Injection, Surjection, IsInjective
    <2>2. IsFiniteSet(1 .. Len(log)) /\ Cardinality(1 .. Len(log)) = Len(log)
      <3>1. Cardinality(1 .. Len(log)) = IF 1 > Len(log) THEN 0 ELSE Len(log) - 1 + 1
        BY <1>3, FS_Interval
      <3> QED
        BY <1>3, <3>1, FS_Interval
    <2>3. ExistsBijection(1 .. Len(log), items)
      <3> HIDE DEF f, items
      <3> QED
        BY <2>1 DEF ExistsBijection
    <2> HIDE DEF f, items
    <2> QED
      BY <2>2, <2>3, FS_Bijection
  <1>10. \A i, j \in items : i.index = j.index \/ i.position = j.position => i = j
    <2> SUFFICES ASSUME NEW i \in items, NEW j \in items, i.index = j.index \/ i.position = j.position
                 PROVE  i.index = j.index
      BY <1>7
    <2>1. /\ i.index \in Int /\ j.index \in Int
          /\ i.position = IF newestFirst THEN -i.index ELSE i.index
          /\ j.position = IF newestFirst THEN -j.index ELSE j.index
      BY <1>6, <1>7
    <2> QED
      BY <2>1
  <1>11. /\ items \subseteq Items
         /\ \A i \in items : i.index <= Len(log) /\ FingerprintOf(i) = FingerprintOf(log[i.index])
         /\ \A i \in items : i.unread => log[i.index].unread
         /\ \A i \in items : i.from = log[i.index].from
         /\ flags => \A i \in items : log[i.index].unread => i.unread
    BY <1>3, <1>6, <1>7
  <1> HIDE DEF items
  <1>12. TypeOK'
    <2>1. AnswerOK'
      BY <1>1, <1>5, <1>8, <1>9, <1>10, <1>11 DEF AnswerOK
    <2> QED
      BY <1>1, <1>2, <1>3, <2>1 DEF TypeOK
  <1>13. StartInv' /\ SentInv'
    BY <1>1, <1>2 DEF IInv, LoopInvs, StartInv, HasCursor, SentInv
  <1>14. SummaryInv'
    <2>1. Shows(thread.lastDate, thread.lastHash, Len(log))
      BY <1>1 DEF IInv, SummaryInv
    <2>2. \A i \in items : i.unread => i.from = "customer"
      BY <1>3, <1>7, <1>11 DEF LogInv
    <2>3. FlagsMayMiss \/ \A i \in items : log[i.index].unread => i.unread
      BY <1>11, TimesAssumption
    <2> QED
      BY <1>1, <1>5, <1>9, <2>1, <2>2, <2>3 DEF SummaryInv, SummaryFlags, Shows
  <1>15. SeenInv'
    <2>1. \A k \in baseline + 1 .. Len(log) : k <= Len(log)
      BY <1>3 DEF TypeOK
    <2> QED
      BY <1>1, <1>2, <1>5, <1>9, <2>1 DEF SeenInv, Seen
  <1> QED
    BY <1>1, <1>12, <1>13, <1>14, <1>15, Quiet DEF IInv, LoopInvs

\* The summary of a thread that is there already.
LEMMA KnownThreadKeeps ==
    ASSUME IInv, ProcessSummary, thread # Null
    PROVE  IInv'
  <1>1. /\ pc = "polled" /\ pc' = "idle" /\ answer' = Null
        /\ fetchQueued' = (fetchQueued \/ WorthFetching)
        /\ clock' = clock /\ log' = log /\ outbox' = outbox /\ written' = written
        /\ mappings' = mappings /\ crashes' = crashes /\ imported' = imported /\ shadowed' = shadowed
        /\ unrecorded' = unrecorded /\ late' = late /\ baseline' = baseline /\ swept' = swept
    BY DEF ProcessSummary, zzap
  <1>2. TypeOK /\ AnswerOK /\ SummaryInv /\ SeenInv /\ thread \in Threads /\ Len(log) \in Nat
        /\ baseline \in Nat /\ answer \in Summaries /\ answer.length <= Len(log) /\ answer.length \in Nat
    <2>1. TypeOK /\ SummaryInv /\ SeenInv
      BY DEF IInv, LoopInvs
    <2>2. answer \in Summaries /\ answer.length <= Len(log)
      BY <1>1, <2>1 DEF TypeOK, AnswerOK
    <2> QED
      BY <2>1, <2>2 DEF TypeOK, Summaries
  <1>3. /\ thread' \in Threads /\ thread' # Null /\ thread'.cursor = thread.cursor /\ thread'.guard = thread.guard
        /\ thread'.lastDate = answer.lastDate /\ thread'.lastHash = answer.lastHash /\ thread'.unread = answer.unread
    <2>1. thread' = [thread EXCEPT !.lastDate = answer.lastDate, !.lastHash = answer.lastHash,
                                   !.unread = answer.unread]
      BY DEF ProcessSummary
    <2>2. answer.lastDate \in Nat /\ answer.lastHash \in Texts /\ answer.unread \in Nat
      BY <1>2 DEF Summaries
    <2>3. thread' \in Threads
      BY <1>2, <2>1, <2>2 DEF Threads
    <2> QED
      BY <1>2, <2>1, <2>3, HashAssumption DEF Threads
  <1>4. HasCursor' <=> HasCursor
    BY <1>3 DEF HasCursor
  <1>5. TypeOK'
    <2>1. fetchQueued' \in BOOLEAN
      BY <1>1, <1>2 DEF TypeOK, WorthFetching, SummaryChanged
    <2>2. AnswerOK'
      BY <1>1 DEF AnswerOK
    <2>3. thread' \in Threads \cup {Null} /\ (thread'.cursor = Null <=> thread'.guard = Null)
      BY <1>2, <1>3 DEF TypeOK
    <2> QED
      BY <1>1, <1>2, <2>1, <2>2, <2>3 DEF TypeOK
  <1>6. LogInv' /\ RecordsInv' /\ GuardInv' /\ NoneSkipped' /\ StartInv'
    BY <1>1, <1>3, <1>4 DEF IInv, LoopInvs, LogInv, RecordsInv, GuardInv, NoneSkipped, StartInv, HasCursor
  <1>7. EchoInv' /\ SentInv' /\ UnreadInv' /\ ReimportExplained' /\ EchoExplained'
    BY <1>1, <1>3 DEF IInv, EchoInv, SentInv, UnreadInv, BootstrapImportsUnread, ReimportExplained, EchoExplained
  <1>8. SummaryInv'
    <2>1. Shows(answer.lastDate, answer.lastHash, Len(log))
      BY <1>1, <1>2, ShowsMore DEF SummaryInv
    <2> QED
      BY <1>1, <1>3, <2>1 DEF SummaryInv, SummaryFlags, Shows
  <1>9. SeenInv'
    <2> SUFFICES ASSUME crashes = 0, HasCursor, NEW k \in baseline + 1 .. Len(log), log[k].from = "customer",
                        ~Handled(k)
                 PROVE  Seen(k)'
      BY <1>1, <1>4 DEF SeenInv, Handled
    <2>1. fetchQueued \/ Shows(thread.lastDate, thread.lastHash, k - 1)
      BY <1>1, <1>2 DEF SeenInv, Seen
    <2>2. CASE fetchQueued \/ SummaryChanged
      BY <1>1, <2>2 DEF Seen, WorthFetching
    <2>3. CASE ~SummaryChanged /\ Shows(thread.lastDate, thread.lastHash, k - 1)
      <3>1. thread.lastDate = answer.lastDate /\ thread.lastHash = answer.lastHash
        BY <2>3 DEF SummaryChanged
      <3> QED
        BY <1>1, <1>3, <2>3, <3>1 DEF Seen, Shows
    <2> QED
      BY <2>1, <2>2, <2>3
  <1> QED
    BY <1>5, <1>6, <1>7, <1>8, <1>9 DEF IInv, LoopInvs

\* The first summary of a thread.
LEMMA NewThreadKeeps ==
    ASSUME IInv, ProcessSummary, thread = Null
    PROVE  IInv'
  <1>1. /\ pc = "polled" /\ pc' = "idle" /\ answer' = Null
        /\ fetchQueued' = (fetchQueued \/ WorthFetching) /\ thread' = NewThread
        /\ clock' = clock /\ log' = log /\ outbox' = outbox /\ written' = written
        /\ mappings' = mappings /\ crashes' = crashes /\ imported' = imported /\ shadowed' = shadowed
        /\ unrecorded' = unrecorded /\ late' = late /\ swept' = swept
        /\ baseline' = IF answer.unread = 0 THEN answer.length ELSE baseline
    BY DEF ProcessSummary, zzap
  <1>2. /\ TypeOK /\ LogInv /\ RecordsInv /\ StartInv /\ SummaryInv /\ Len(log) \in Nat
        /\ DOMAIN log = 1 .. Len(log) /\ baseline \in Nat
        /\ answer.lastDate \in Nat /\ answer.lastHash \in Texts /\ answer.unread \in Nat
        /\ answer.length <= Len(log) /\ answer.length \in Nat
    <2>1. TypeOK /\ LogInv /\ RecordsInv /\ StartInv /\ SummaryInv
      BY DEF IInv, LoopInvs
    <2>2. answer \in Summaries /\ answer.length <= Len(log)
      BY <1>1, <2>1 DEF TypeOK, AnswerOK
    <2> QED
      BY <2>1, <2>2 DEF TypeOK, Summaries
  <1>3. /\ thread' \in Threads /\ thread' # Null
        /\ thread'.lastDate = answer.lastDate /\ thread'.lastHash = answer.lastHash
        /\ thread'.cursor = Null <=> thread'.guard = Null
        /\ HasCursor' <=> answer.unread = 0
        /\ HasCursor' => thread'.cursor = answer.lastDate /\ thread'.guard = answer.lastHash
    <2>1. answer.lastDate # Null /\ answer.lastHash # Null
      BY <1>2, HashAssumption, TimesAssumption
    <2>2. thread' \in Threads
      BY <1>1, <1>2 DEF NewThread, Threads
    <2>3. thread' # Null
      BY <2>2, HashAssumption
    <2>4. /\ thread'.lastDate = answer.lastDate /\ thread'.lastHash = answer.lastHash
          /\ thread'.cursor = IF answer.unread = 0 THEN answer.lastDate ELSE Null
          /\ thread'.guard = IF answer.unread = 0 THEN answer.lastHash ELSE Null
      BY <1>1 DEF NewThread
    <2> QED
      BY <2>1, <2>2, <2>3, <2>4 DEF HasCursor
  <1>4. /\ ~HasCursor /\ mappings = {} /\ outbox = {}
        /\ \A k \in DOMAIN log : log[k].from = "customer"
        /\ \A k \in 1 .. MaxLog : ~(imported[k] > 0)
    <2>1. ~HasCursor
      BY DEF HasCursor
    <2> QED
      BY <1>2, <2>1 DEF StartInv, RecordsInv
  <1>5. TypeOK'
    <2>1. fetchQueued' \in BOOLEAN
      BY <1>1, <1>2 DEF TypeOK, WorthFetching, SummaryChanged
    <2>2. AnswerOK'
      BY <1>1 DEF AnswerOK
    <2>3. baseline' \in Nat
      BY <1>1, <1>2
    <2> QED
      BY <1>1, <1>2, <1>3, <2>1, <2>2, <2>3 DEF TypeOK
  <1>6. LogInv'
    <2>1. baseline' <= Len(log)
      BY <1>1, <1>2 DEF LogInv
    <2> QED
      BY <1>1, <1>2, <2>1 DEF LogInv
  <1>7. RecordsInv' /\ StartInv'
    BY <1>1, <1>2, <1>4 DEF RecordsInv, StartInv, TypeOK
  <1>8. PICK j \in 1 .. answer.length : log[j].date = answer.lastDate /\ log[j].text = answer.lastHash
    BY <1>1, <1>2 DEF SummaryInv, Shows
  <1>9. GuardInv'
    <2> SUFFICES ASSUME HasCursor'
                 PROVE  \E i \in DOMAIN log :
                          /\ log[i].date = thread'.cursor
                          /\ thread'.guard = log[i].text /\ i <= baseline' /\ log[i].from = "customer"
      BY <1>1 DEF GuardInv
    <2>1. j \in DOMAIN log /\ j <= answer.length /\ baseline' = answer.length
      BY <1>1, <1>2, <1>3, <1>8
    <2> QED
      BY <1>3, <1>4, <1>8, <2>1
  <1>10. NoneSkipped'
    <2> SUFFICES ASSUME HasCursor', NEW k \in baseline' + 1 .. Len(log),
                        log[k].from = "customer", log[k].date < thread'.cursor
                 PROVE  FALSE
      BY <1>1 DEF NoneSkipped, HasCursor
    <2>1. baseline' = answer.length /\ thread'.cursor = log[j].date
      BY <1>1, <1>3, <1>8
    <2>2. k \in DOMAIN log /\ j \in DOMAIN log /\ j < k
      <3>1. k \in 1 .. Len(log) /\ k > answer.length /\ k \in Nat
        BY <1>2, <2>1, Later
      <3> QED
        BY <1>2, <1>8, <3>1
    <2>3. log[j].date <= log[k].date /\ log[j].date \in Nat /\ log[k].date \in Nat
      BY <1>2, <2>2, MessageFacts DEF LogInv
    <2> QED
      BY <2>1, <2>3
  <1>11. EchoInv' /\ SentInv' /\ ReimportExplained' /\ EchoExplained'
    BY <1>1 DEF IInv, EchoInv, SentInv, ReimportExplained, EchoExplained
  <1>12. UnreadInv'
    <2> SUFFICES ASSUME HasCursor', NEW k \in 1 .. baseline', log[k].unread PROVE FALSE
      BY <1>1 DEF UnreadInv, BootstrapImportsUnread, HasCursor
    <2>1. answer.unread = 0 /\ baseline' = answer.length
      BY <1>1, <1>3
    <2> QED
      BY <1>1, <1>2, <2>1 DEF SummaryInv
  <1>13. SummaryInv'
    <2>1. Shows(answer.lastDate, answer.lastHash, Len(log))
      BY <1>1, <1>2, ShowsMore DEF SummaryInv
    <2> QED
      BY <1>1, <1>3, <2>1 DEF SummaryInv, SummaryFlags, Shows
  <1>14. SeenInv'
    <2> SUFFICES ASSUME HasCursor', NEW k \in baseline' + 1 .. Len(log) PROVE Seen(k)'
      BY <1>1 DEF SeenInv
    <2>1. baseline' = answer.length
      BY <1>1, <1>3
    <2>2. k > answer.length /\ k \in Nat
      BY <1>2, <2>1, Later
    <2>3. Shows(answer.lastDate, answer.lastHash, k - 1)
      <3>1. k - 1 \in Nat /\ answer.length <= k - 1
        BY <1>2, <2>2
      <3>2. Shows(answer.lastDate, answer.lastHash, answer.length)
        BY <1>1, <1>2 DEF SummaryInv
      <3> QED
        BY <1>2, <3>1, <3>2, ShowsMore
    <2> QED
      BY <1>1, <1>3, <2>3 DEF Seen, Shows
  <1> QED
    BY <1>5, <1>6, <1>7, <1>9, <1>10, <1>11, <1>12, <1>13, <1>14 DEF IInv, LoopInvs

---------------------------------------------------------------------------
(* Steps of the log: a message arrives at the end, or all of them are read *)

LogKept ==
    /\ \A k \in DOMAIN log :
        /\ k \in DOMAIN log'
        /\ log'[k].date = log[k].date /\ log'[k].text = log[k].text /\ log'[k].from = log[k].from
        /\ log'[k].unread => log[k].unread
    /\ \A k \in DOMAIN log' \ DOMAIN log :
        /\ log'[k].from = "customer" => k = Len(log) + 1 /\ log'[k].date = clock
        /\ log'[k].from = "operator" => k \in unrecorded'

\* What a message at the end, or a read thread, leaves true.
LEMMA Grows ==
    ASSUME IInv, LogKept, log' \in Seq(Messages), Len(log) <= Len(log'), Len(log') <= MaxLog, thread' = thread,
           mappings' = mappings, imported' = imported, shadowed' = shadowed, baseline' = baseline,
           swept' = swept, unrecorded \subseteq unrecorded', late \subseteq late'
    PROVE  /\ RecordsInv' /\ GuardInv' /\ NoneSkipped' /\ EchoInv' /\ UnreadInv'
           /\ ReimportExplained' /\ EchoExplained'
  <1>1. HasCursor' <=> HasCursor
    BY DEF HasCursor
  <1>2. /\ TypeOK /\ LogInv /\ RecordsInv /\ GuardInv /\ Len(log) \in Nat /\ DOMAIN log = 1 .. Len(log)
        /\ Len(log') \in Nat /\ DOMAIN log' = 1 .. Len(log') /\ baseline \in Nat /\ baseline <= Len(log)
    BY DEF IInv, LoopInvs, TypeOK, LogInv
  <1>3. \A k \in DOMAIN log :
          /\ k \in DOMAIN log' /\ k \in 1 .. MaxLog
          /\ log'[k].date = log[k].date /\ log'[k].text = log[k].text /\ log'[k].from = log[k].from
          /\ log'[k].unread => log[k].unread
          /\ FingerprintOf(log'[k]) = FingerprintOf(log[k])
    BY <1>2, MessageFacts DEF LogKept, FingerprintOf
  <1>4. RecordsInv'
    BY <1>1, <1>2, <1>3 DEF RecordsInv
  <1>5. GuardInv'
    BY <1>1, <1>2, <1>3 DEF GuardInv
  <1>6. NoneSkipped'
    <2> SUFFICES ASSUME HasCursor, NEW k \in baseline + 1 .. Len(log'),
                        log'[k].from = "customer", log'[k].date < thread.cursor
                 PROVE  imported[k] > 0 \/ k \in shadowed
      BY DEF NoneSkipped, HasCursor
    <2>1. k \in DOMAIN log' /\ k > baseline /\ k \in Nat
      BY <1>2, Later
    <2>2. CASE k \in DOMAIN log
      <3>1. k \in baseline + 1 .. Len(log)
        BY <1>2, <2>1, <2>2
      <3> QED
        BY <1>3, <2>2, <3>1 DEF IInv, LoopInvs, NoneSkipped, HasCursor
    <2>3. CASE k \notin DOMAIN log
      <3>1. log'[k].date = clock
        BY <2>1, <2>3 DEF LogKept
      <3>2. PICK j \in DOMAIN log : log[j].date = thread.cursor
        BY <1>2 DEF GuardInv
      <3>3. log[j].date <= clock /\ log[j].date \in Nat /\ clock \in Nat
        BY <1>2, MessageFacts DEF TypeOK
      <3> QED
        BY <3>1, <3>2, <3>3
    <2> QED
      BY <2>2, <2>3
  <1>7. EchoInv'
    <2> SUFFICES ASSUME NEW k \in DOMAIN log', log'[k].from = "operator", ~swept
                 PROVE  \/ k \in unrecorded' \cup late'
                        \/ \E m \in mappings : EchoOf(m, log'[k].date, log'[k].text)
      BY DEF EchoInv, EchoOf
    <2>1. CASE k \in DOMAIN log
      BY <1>3, <2>1 DEF IInv, EchoInv
    <2>2. CASE k \notin DOMAIN log
      BY <2>2 DEF LogKept
    <2> QED
      BY <2>1, <2>2
  <1>8. UnreadInv'
    <2> SUFFICES ASSUME ~FlagsMayMiss, HasCursor, NEW k \in 1 .. baseline, log'[k].unread
                 PROVE  imported[k] > 0
      BY DEF UnreadInv, BootstrapImportsUnread, HasCursor
    <2>1. k \in DOMAIN log
      BY <1>2
    <2> QED
      BY <1>3, <2>1 DEF IInv, UnreadInv, BootstrapImportsUnread, HasCursor
  <1>9. ASSUME NEW k \in DOMAIN log', imported[k] > 0
        PROVE  k \in DOMAIN log
    <2>1. k \in 1 .. MaxLog
      BY <1>2, TimesAssumption
    <2> QED
      BY <1>2, <1>9, <2>1 DEF RecordsInv
  <1>10. \A k \in DOMAIN log' : imported[k] > 1 => k \in DOMAIN log
    <2> SUFFICES ASSUME NEW k \in DOMAIN log', imported[k] > 1 PROVE imported[k] > 0
      BY <1>9
    <2>1. imported[k] \in Nat
      BY <1>2, TimesAssumption DEF TypeOK
    <2> QED
      BY <2>1
  <1>11. ReimportExplained'
    BY <1>3, <1>10 DEF IInv, ReimportExplained
  <1>12. EchoExplained'
    BY <1>3, <1>9 DEF IInv, EchoExplained
  <1> QED
    BY <1>4, <1>5, <1>6, <1>7, <1>8, <1>11, <1>12

\* The new message comes after the last summary.
LEMMA GrowsSeen ==
    ASSUME IInv, LogKept, log' \in Seq(Messages), Len(log) <= Len(log'), thread' = thread,
           imported' = imported, shadowed' = shadowed, baseline' = baseline,
           fetchQueued' = fetchQueued, crashes' = crashes,
           \/ pc' = pc /\ answer' = answer
           \/ pc = "sending" /\ pc' = "sent"
    PROVE  SummaryInv' /\ SeenInv'
  <1>1. HasCursor' <=> HasCursor
    BY DEF HasCursor
  <1>2. /\ TypeOK /\ AnswerOK /\ SummaryInv /\ SeenInv /\ Len(log) \in Nat /\ DOMAIN log = 1 .. Len(log)
        /\ Len(log') \in Nat /\ DOMAIN log' = 1 .. Len(log') /\ baseline \in Nat
    BY DEF IInv, LoopInvs, TypeOK
  <1>3. \A k \in 1 .. Len(log) :
          /\ log'[k].date = log[k].date /\ log'[k].text = log[k].text /\ log'[k].from = log[k].from
          /\ log'[k].unread => log[k].unread
    BY <1>2 DEF LogKept
  <1>4. ASSUME NEW date, NEW hash, NEW k \in Nat, k <= Len(log), Shows(date, hash, k)
        PROVE  \E i \in 1 .. k : log'[i].date = date /\ log'[i].text = hash
    <2>1. PICK i \in 1 .. k : log[i].date = date /\ log[i].text = hash
      BY <1>4 DEF Shows
    <2>2. i \in 1 .. Len(log)
      BY <1>2, <1>4
    <2> QED
      BY <1>3, <2>1, <2>2
  <1>5. thread # Null => \E i \in 1 .. Len(log') : log'[i].date = thread.lastDate /\ log'[i].text = thread.lastHash
    <2> SUFFICES ASSUME thread # Null
                 PROVE  \E i \in 1 .. Len(log') : log'[i].date = thread.lastDate /\ log'[i].text = thread.lastHash
      OBVIOUS
    <2>1. Len(log) <= Len(log) /\ Shows(thread.lastDate, thread.lastHash, Len(log))
      BY <1>2 DEF SummaryInv
    <2>2. PICK i \in 1 .. Len(log) : log'[i].date = thread.lastDate /\ log'[i].text = thread.lastHash
      BY <1>2, <1>4, <2>1
    <2>3. i \in 1 .. Len(log')
      BY <1>2
    <2> QED
      BY <2>2, <2>3
  <1>6. ASSUME pc' = pc, answer' = answer
        PROVE  SummaryInv'
    <2>1. ASSUME pc = "polled"
          PROVE  /\ \E i \in 1 .. answer.length : log'[i].date = answer.lastDate /\ log'[i].text = answer.lastHash
                 /\ answer.unread = 0 => \A k \in 1 .. answer.length : ~log'[k].unread
      <3>1. answer.length \in Nat /\ answer.length <= Len(log)
        BY <1>2, <2>1 DEF AnswerOK, Summaries
      <3>2. Shows(answer.lastDate, answer.lastHash, answer.length)
        BY <1>2, <2>1 DEF SummaryInv
      <3>3. \A k \in 1 .. answer.length : k \in 1 .. Len(log)
        BY <1>2, <3>1
      <3> QED
        BY <1>2, <1>3, <1>4, <2>1, <3>1, <3>2, <3>3 DEF SummaryInv
    <2>2. ASSUME pc = "fetched"
          PROVE  /\ \E i \in 1 .. Cardinality(answer.items) :
                        log'[i].date = thread.lastDate /\ log'[i].text = thread.lastHash
                 /\ FlagsMayMiss \/ \A i \in answer.items : log'[i.index].unread => i.unread
      <3>1. Cardinality(answer.items) \in Nat /\ Cardinality(answer.items) <= Len(log)
        BY <1>2, <2>2, FetchFacts
      <3>2. Shows(thread.lastDate, thread.lastHash, Cardinality(answer.items))
        BY <1>2, <2>2 DEF SummaryInv
      <3>3. \A i \in answer.items : i.index \in 1 .. Len(log)
        BY <1>2, <2>2, ItemFacts
      <3> QED
        BY <1>2, <1>3, <1>4, <2>2, <3>1, <3>2, <3>3 DEF SummaryInv
    <2> QED
      BY <1>2, <1>5, <1>6, <2>1, <2>2 DEF SummaryInv, SummaryFlags, Shows
  <1>7. ASSUME pc = "sending", pc' = "sent"
        PROVE  SummaryInv'
    BY <1>5, <1>7 DEF SummaryInv, SummaryFlags, Shows
  <1>8. SeenInv'
    <2> SUFFICES ASSUME crashes = 0, HasCursor, NEW k \in baseline + 1 .. Len(log'),
                        log'[k].from = "customer", ~Handled(k)
                 PROVE  Seen(k)'
      BY <1>1 DEF SeenInv, Handled
    <2>1. k \in DOMAIN log' /\ k > baseline /\ k \in Nat
      BY <1>2, Later
    <2>2. CASE k \in DOMAIN log
      <3>1. k \in baseline + 1 .. Len(log) /\ log[k].from = "customer" /\ k - 1 \in Nat /\ k - 1 <= Len(log)
        BY <1>2, <1>3, <2>1, <2>2
      <3>2. Seen(k)
        BY <1>2, <3>1 DEF SeenInv
      <3>3. ASSUME Shows(thread.lastDate, thread.lastHash, k - 1)
            PROVE  Seen(k)'
        <4>1. \E i \in 1 .. k - 1 : log'[i].date = thread.lastDate /\ log'[i].text = thread.lastHash
          BY <1>4, <3>1, <3>3
        <4> QED
          BY <4>1 DEF Seen, Shows
      <3>4. fetchQueued \/ (pc = "fetched" /\ k <= Cardinality(answer.items)) => Seen(k)'
        BY DEF Seen
      <3> QED
        BY <3>2, <3>3, <3>4 DEF Seen
    <2>3. CASE k \notin DOMAIN log
      <3>1. k = Len(log) + 1
        BY <2>1, <2>3 DEF LogKept
      <3>2. Len(log) <= Len(log) /\ k - 1 = Len(log) /\ Shows(thread.lastDate, thread.lastHash, Len(log))
        BY <1>2, <3>1 DEF SummaryInv, HasCursor
      <3>3. \E i \in 1 .. k - 1 : log'[i].date = thread.lastDate /\ log'[i].text = thread.lastHash
        BY <1>2, <1>4, <3>2
      <3> QED
        BY <3>3 DEF Seen, Shows
    <2> QED
      BY <2>2, <2>3
  <1> QED
    BY <1>6, <1>7, <1>8

\* What an Append leaves of a log.
LEMMA Appended ==
    ASSUME NEW s \in Seq(Messages), NEW m \in Messages
    PROVE  /\ Append(s, m) \in Seq(Messages) /\ Len(Append(s, m)) = Len(s) + 1 /\ Len(s) \in Nat
           /\ DOMAIN s = 1 .. Len(s) /\ DOMAIN Append(s, m) = 1 .. Len(s) + 1
           /\ \A k \in 1 .. Len(s) : Append(s, m)[k] = s[k]
           /\ Append(s, m)[Len(s) + 1] = m
  OBVIOUS

\* A customer's message comes last and is a new one.
LEMMA CustomerKeeps ==
    ASSUME IInv, CustomerWrites
    PROVE  IInv'
  <1>1. /\ Len(log) < MaxLog
        /\ clock' = clock /\ outbox' = outbox /\ written' = written /\ thread' = thread
        /\ mappings' = mappings /\ fetchQueued' = fetchQueued /\ pc' = pc /\ answer' = answer
        /\ crashes' = crashes /\ imported' = imported /\ shadowed' = shadowed
        /\ unrecorded' = unrecorded /\ late' = late /\ baseline' = baseline /\ swept' = swept
    BY DEF CustomerWrites, history
  <1>2. PICK text \in Texts :
          /\ \A k \in DOMAIN log : FingerprintOf(log[k]) # Fingerprint("customer", clock, text)
          /\ log' = Append(log, Message(clock, text, "customer"))
    BY DEF CustomerWrites
  <1> DEFINE m == Message(clock, text, "customer")
             n == Len(log) + 1
  <1>3. TypeOK /\ AnswerOK /\ LogInv /\ StartInv /\ clock \in Nat /\ log \in Seq(Messages)
    BY DEF IInv, LoopInvs, TypeOK
  <1>4. /\ m \in Messages /\ m.date = clock /\ m.text = text /\ m.from = "customer" /\ m.unread
        /\ FingerprintOf(m) = Fingerprint("customer", clock, text)
    BY <1>3 DEF Message, Messages, Senders, FingerprintOf
  <1>5. log' = Append(log, m)
    BY <1>2
  <1> HIDE DEF m
  <1>6. /\ log' \in Seq(Messages) /\ Len(log') = n /\ Len(log) \in Nat
        /\ DOMAIN log = 1 .. Len(log) /\ DOMAIN log' = 1 .. n
        /\ \A k \in DOMAIN log : k \in DOMAIN log' /\ log'[k] = log[k]
        /\ \A k \in DOMAIN log' : k \in DOMAIN log \/ k = n
        /\ n \notin DOMAIN log
        /\ log'[n] = m
    <2>1. /\ Append(log, m) \in Seq(Messages) /\ Len(Append(log, m)) = Len(log) + 1 /\ Len(log) \in Nat
          /\ DOMAIN log = 1 .. Len(log) /\ DOMAIN Append(log, m) = 1 .. Len(log) + 1
          /\ \A k \in 1 .. Len(log) : Append(log, m)[k] = log[k]
          /\ Append(log, m)[Len(log) + 1] = m
      BY <1>3, <1>4, Appended
    <2>2. \A k \in 1 .. Len(log) + 1 : k \in 1 .. Len(log) \/ k = Len(log) + 1
      BY <2>1
    <2>3. \A k \in 1 .. Len(log) : k \in 1 .. Len(log) + 1
      BY <2>1
    <2>4. n \notin 1 .. Len(log)
      BY <2>1
    <2> QED
      BY <1>5, <2>1, <2>2, <2>3, <2>4
  <1> HIDE DEF n
  <1>7. LogKept
    BY <1>4, <1>6 DEF LogKept, n
  <1>8. Len(log) <= Len(log') /\ Len(log') <= MaxLog
    BY <1>1, <1>6, TimesAssumption DEF n
  <1>9. TypeOK'
    <2>1. \A k \in DOMAIN log' : log'[k].date <= clock
      BY <1>3, <1>4, <1>6 DEF TypeOK
    <2>2. DOMAIN log \subseteq DOMAIN log'
      BY <1>6
    <2>3. AnswerOK'
      <3>1. \A k \in Nat : k <= Len(log) => k <= Len(log')
        BY <1>6, <1>8
      <3>2. CASE pc = "polled"
        BY <1>1, <1>3, <3>1, <3>2 DEF AnswerOK, Summaries
      <3>3. CASE pc = "fetched"
        <4>1. \A i \in answer.items : i.index \in DOMAIN log /\ i.index \in Nat /\ i.index <= Len(log)
          BY <1>3, <1>6, <3>3, ItemFacts
        <4> QED
          BY <1>1, <1>3, <1>6, <3>1, <3>3, <4>1 DEF AnswerOK
      <3>4. CASE pc \notin {"polled", "fetched"}
        BY <1>1, <1>3, <1>6, <3>4 DEF AnswerOK
      <3> QED
        BY <3>2, <3>3, <3>4
    <2> QED
      BY <1>1, <1>3, <1>6, <1>8, <2>1, <2>2, <2>3 DEF TypeOK
  <1>10. LogInv'
    <2>1. \A i, k \in DOMAIN log' : i < k /\ log'[k].from = "customer" => log'[i].date <= log'[k].date
      <3> SUFFICES ASSUME NEW i \in DOMAIN log', NEW k \in DOMAIN log', i < k, log'[k].from = "customer"
                   PROVE  log'[i].date <= log'[k].date
        OBVIOUS
      <3>1. i \in DOMAIN log
        BY <1>6 DEF n
      <3>2. CASE k \in DOMAIN log
        BY <1>3, <1>6, <3>1, <3>2 DEF LogInv
      <3>3. CASE k = n
        BY <1>3, <1>4, <1>6, <3>1, <3>3 DEF TypeOK
      <3> QED
        BY <1>6, <3>2, <3>3
    <2>2. \A i, k \in DOMAIN log' :
            log'[i].from = "customer" /\ FingerprintOf(log'[i]) = FingerprintOf(log'[k]) => i = k
      BY <1>2, <1>3, <1>4, <1>6 DEF LogInv
    <2>3. \A k \in DOMAIN log' : log'[k].unread => log'[k].from = "customer"
      BY <1>3, <1>4, <1>6 DEF LogInv
    <2>4. baseline <= Len(log')
      BY <1>3, <1>6, <1>8 DEF LogInv, TypeOK
    <2> QED
      BY <1>1, <2>1, <2>2, <2>3, <2>4 DEF LogInv
  <1>11. StartInv'
    BY <1>1, <1>3, <1>4, <1>6 DEF StartInv, HasCursor
  <1>12. SentInv'
    <2>1. pc = "sent" => answer.index \in DOMAIN log
      BY <1>3 DEF AnswerOK
    <2> QED
      BY <1>1, <1>6, <2>1 DEF IInv, SentInv
  <1>13. SummaryInv' /\ SeenInv'
    BY <1>1, <1>6, <1>7, <1>8, GrowsSeen
  <1>14. /\ RecordsInv' /\ GuardInv' /\ NoneSkipped' /\ EchoInv' /\ UnreadInv'
         /\ ReimportExplained' /\ EchoExplained'
    BY <1>1, <1>6, <1>7, <1>8, Grows
  <1> QED
    BY <1>9, <1>10, <1>11, <1>12, <1>13, <1>14 DEF IInv, LoopInvs

\* A read thread loses its flags and nothing else.
LEMMA ReadKeeps ==
    ASSUME IInv, ThreadIsRead
    PROVE  IInv'
  <1>1. /\ clock' = clock /\ outbox' = outbox /\ written' = written /\ thread' = thread
        /\ mappings' = mappings /\ fetchQueued' = fetchQueued /\ pc' = pc /\ answer' = answer
        /\ crashes' = crashes /\ imported' = imported /\ shadowed' = shadowed
        /\ unrecorded' = unrecorded /\ late' = late /\ baseline' = baseline /\ swept' = swept
        /\ log' = [k \in DOMAIN log |-> [log[k] EXCEPT !.unread = FALSE]]
    BY DEF ThreadIsRead, history
  <1>2. /\ TypeOK /\ AnswerOK /\ LogInv /\ StartInv /\ log \in Seq(Messages) /\ Len(log) \in Nat
        /\ DOMAIN log = 1 .. Len(log)
    BY DEF IInv, LoopInvs, TypeOK
  <1>3. ASSUME NEW k \in DOMAIN log
        PROVE  /\ log'[k] \in Messages /\ log'[k].date = log[k].date /\ log'[k].text = log[k].text
               /\ log'[k].from = log[k].from /\ ~log'[k].unread
               /\ FingerprintOf(log'[k]) = FingerprintOf(log[k])
    <2>1. log[k] \in Messages /\ log'[k] = [log[k] EXCEPT !.unread = FALSE]
      BY <1>1, <1>2
    <2>2. /\ log'[k] \in Messages /\ log'[k].date = log[k].date /\ log'[k].text = log[k].text
          /\ log'[k].from = log[k].from /\ log'[k].unread = FALSE
      BY <2>1 DEF Messages
    <2> QED
      BY <2>2 DEF FingerprintOf
  <1>4. log' \in Seq(Messages) /\ Len(log') = Len(log) /\ DOMAIN log' = DOMAIN log
    <2>1. DOMAIN log' = 1 .. Len(log)
      BY <1>1, <1>2
    <2>2. log' = [k \in 1 .. Len(log) |-> log'[k]]
      BY <1>1, <1>2
    <2>3. log' \in [1 .. Len(log) -> Messages]
      BY <1>2, <1>3, <2>2
    <2> QED
      BY <1>2, <2>1, <2>3
  <1>5. LogKept
    BY <1>3, <1>4 DEF LogKept
  <1>6. Len(log) <= Len(log') /\ Len(log') <= MaxLog
    BY <1>2, <1>4 DEF TypeOK
  <1>7. TypeOK'
    <2>1. \A k \in DOMAIN log' : log'[k].date <= clock
      BY <1>2, <1>3, <1>4 DEF TypeOK
    <2>2. AnswerOK'
      <3>1. pc = "fetched" => \A i \in answer.items : i.index \in DOMAIN log
        BY <1>2, ItemFacts
      <3> QED
        BY <1>1, <1>2, <1>3, <1>4, <3>1 DEF AnswerOK
    <2> QED
      BY <1>1, <1>2, <1>4, <1>6, <2>1, <2>2 DEF TypeOK
  <1>8. LogInv' /\ StartInv'
    BY <1>1, <1>2, <1>3, <1>4 DEF LogInv, StartInv, HasCursor
  <1>9. SentInv'
    <2>1. pc = "sent" => answer.index \in DOMAIN log
      BY <1>2 DEF AnswerOK
    <2> QED
      BY <1>1, <1>3, <2>1 DEF IInv, SentInv
  <1>10. SummaryInv' /\ SeenInv'
    BY <1>1, <1>4, <1>5, <1>6, GrowsSeen
  <1>11. /\ RecordsInv' /\ GuardInv' /\ NoneSkipped' /\ EchoInv' /\ UnreadInv'
         /\ ReimportExplained' /\ EchoExplained'
    BY <1>1, <1>4, <1>5, <1>6, Grows
  <1> QED
    BY <1>7, <1>8, <1>9, <1>10, <1>11 DEF IInv, LoopInvs

\* An operator's message is not recorded yet, and may be dated back.
LEMMA SendKeeps ==
    ASSUME IInv, SendMessage
    PROVE  IInv'
  <1> DEFINE n == Len(log) + 1
  <1>1. /\ pc = "sending" /\ Len(log) < MaxLog /\ pc' = "sent"
        /\ answer' = [answer EXCEPT !.index = n]
        /\ unrecorded' = unrecorded \cup {n}
        /\ clock' = clock /\ outbox' = outbox /\ written' = written /\ thread' = thread
        /\ mappings' = mappings /\ fetchQueued' = fetchQueued
        /\ crashes' = crashes /\ imported' = imported /\ shadowed' = shadowed
        /\ baseline' = baseline /\ swept' = swept
    BY DEF SendMessage
  <1>2. PICK date \in {clock, answer.job.at} :
          /\ log' = Append(log, Message(date, answer.job.text, "operator"))
          /\ late' = IF Near(date, answer.began) \/ Near(date, answer.job.at) THEN late
                     ELSE late \cup {n}
    BY DEF SendMessage
  <1> DEFINE m == Message(date, answer.job.text, "operator")
  <1>3. /\ TypeOK /\ AnswerOK /\ LogInv /\ StartInv /\ RecordsInv /\ SentInv /\ clock \in Nat
        /\ log \in Seq(Messages) /\ answer \in Sendings /\ thread # Null
        /\ answer.job \in Jobs /\ answer.job.text \in Texts /\ answer.job.at \in Nat /\ answer.job.at <= clock
        /\ date \in Nat /\ date <= clock
    <2>1. TypeOK /\ AnswerOK /\ LogInv /\ StartInv /\ RecordsInv /\ SentInv
      BY DEF IInv, LoopInvs, TypeOK
    <2>2. answer \in Sendings /\ thread # Null /\ answer.job.at <= clock
      BY <1>1, <2>1 DEF AnswerOK, SentInv
    <2>3. answer.job \in Jobs /\ answer.job.text \in Texts /\ answer.job.at \in Nat
      BY <2>2 DEF Sendings, Jobs
    <2>4. clock \in Nat /\ log \in Seq(Messages)
      BY <2>1 DEF TypeOK
    <2>5. clock <= clock
      BY <2>4
    <2> QED
      BY <2>1, <2>2, <2>3, <2>4, <2>5
  <1>4. /\ m \in Messages /\ m.date = date /\ m.text = answer.job.text /\ m.from = "operator" /\ ~m.unread
        /\ FingerprintOf(m) = <<"operator", date, answer.job.text>>
    BY <1>3 DEF Message, Messages, Senders, FingerprintOf, Fingerprint
  <1>5. log' = Append(log, m)
    BY <1>2
  <1> HIDE DEF m
  <1>6. /\ log' \in Seq(Messages) /\ Len(log') = n /\ Len(log) \in Nat
        /\ DOMAIN log = 1 .. Len(log) /\ DOMAIN log' = 1 .. n
        /\ \A k \in DOMAIN log : k \in DOMAIN log' /\ log'[k] = log[k]
        /\ \A k \in DOMAIN log' : k \in DOMAIN log \/ k = n
        /\ n \notin DOMAIN log /\ n \in DOMAIN log'
        /\ log'[n] = m
    <2>1. /\ Append(log, m) \in Seq(Messages) /\ Len(Append(log, m)) = Len(log) + 1 /\ Len(log) \in Nat
          /\ DOMAIN log = 1 .. Len(log) /\ DOMAIN Append(log, m) = 1 .. Len(log) + 1
          /\ \A k \in 1 .. Len(log) : Append(log, m)[k] = log[k]
          /\ Append(log, m)[Len(log) + 1] = m
      BY <1>3, <1>4, Appended
    <2>2. \A k \in 1 .. Len(log) + 1 : k \in 1 .. Len(log) \/ k = Len(log) + 1
      BY <2>1
    <2>3. \A k \in 1 .. Len(log) : k \in 1 .. Len(log) + 1
      BY <2>1
    <2>4. n \notin 1 .. Len(log) /\ n \in 1 .. Len(log) + 1
      BY <2>1
    <2> QED
      BY <1>5, <2>1, <2>2, <2>3, <2>4
  <1>7. n \in Nat /\ n \in 1 .. MaxLog /\ Len(log) <= Len(log') /\ Len(log') <= MaxLog
    BY <1>1, <1>6, TimesAssumption
  <1> HIDE DEF n
  <1>8. HasCursor /\ HasCursor'
    BY <1>1, <1>3 DEF StartInv, HasCursor
  <1>9. LogKept
    BY <1>1, <1>4, <1>6 DEF LogKept
  <1>10. /\ answer' \in Sendings /\ answer'.index = n /\ answer'.job = answer.job /\ answer'.began = answer.began
    BY <1>1, <1>3, <1>7 DEF Sendings
  <1>11. late' \subseteq late \cup {n} /\ late \subseteq late'
    BY <1>2
  <1>12. TypeOK'
    <2>1. \A k \in DOMAIN log' : log'[k].date <= clock
      BY <1>3, <1>4, <1>6 DEF TypeOK
    <2>2. DOMAIN log \subseteq DOMAIN log'
      BY <1>6
    <2>3. AnswerOK'
      BY <1>1, <1>3, <1>6, <1>10 DEF AnswerOK
    <2>4. shadowed' \subseteq DOMAIN log' /\ unrecorded' \subseteq DOMAIN log' /\ late' \subseteq DOMAIN log'
      BY <1>1, <1>3, <1>6, <1>11, <2>2 DEF TypeOK
    <2> QED
      BY <1>1, <1>3, <1>6, <1>7, <2>1, <2>3, <2>4 DEF TypeOK
  <1>13. LogInv'
    <2>1. \A i, k \in DOMAIN log' : i < k /\ log'[k].from = "customer" => log'[i].date <= log'[k].date
      <3> SUFFICES ASSUME NEW i \in DOMAIN log', NEW k \in DOMAIN log', i < k, log'[k].from = "customer"
                   PROVE  log'[i].date <= log'[k].date
        OBVIOUS
      <3>1. k \in DOMAIN log
        BY <1>4, <1>6
      <3>2. i \in DOMAIN log
        BY <1>6, <3>1
      <3> QED
        BY <1>3, <1>6, <3>1, <3>2 DEF LogInv
    <2>2. \A i, k \in DOMAIN log' :
            log'[i].from = "customer" /\ FingerprintOf(log'[i]) = FingerprintOf(log'[k]) => i = k
      <3> SUFFICES ASSUME NEW i \in DOMAIN log', NEW k \in DOMAIN log', log'[i].from = "customer",
                          FingerprintOf(log'[i]) = FingerprintOf(log'[k])
                   PROVE  i = k
        OBVIOUS
      <3>1. i \in DOMAIN log /\ log'[i] = log[i]
        BY <1>4, <1>6
      <3>2. CASE k \in DOMAIN log
        BY <1>3, <1>6, <3>1, <3>2 DEF LogInv
      <3>3. CASE k = n
        <4>1. FingerprintOf(log[i]) = <<log[i].from, log[i].date, log[i].text>>
          BY <1>3, <3>1, MessageFacts
        <4>2. log[i].from = "operator"
          BY <1>4, <1>6, <3>1, <3>3, <4>1
        <4> QED
          BY <3>1, <4>2
      <3> QED
        BY <1>6, <3>2, <3>3
    <2>3. \A k \in DOMAIN log' : log'[k].unread => log'[k].from = "customer"
      BY <1>3, <1>4, <1>6 DEF LogInv
    <2>4. baseline <= Len(log')
      BY <1>3, <1>6, <1>7 DEF LogInv, TypeOK
    <2> QED
      BY <1>1, <2>1, <2>2, <2>3, <2>4 DEF LogInv
  <1>14. StartInv'
    BY <1>8 DEF StartInv
  <1>15. SentInv'
    <2>1. n \in unrecorded'
      BY <1>1
    <2>2. imported[n] = 0
      <3>1. imported[n] \in Nat /\ ~(imported[n] > 0)
        BY <1>3, <1>6, <1>7 DEF TypeOK, RecordsInv
      <3> QED
        BY <3>1
    <2>3. n \in late' \/ Near(date, answer.job.at) \/ Near(date, answer.began)
      BY <1>2
    <2>4. log'[n].from = "operator" /\ log'[n].text = answer.job.text /\ log'[n].date = date
      BY <1>4, <1>6
    <2> QED
      BY <1>1, <1>3, <1>10, <2>1, <2>2, <2>3, <2>4 DEF SentInv, Near
  <1>16. SummaryInv' /\ SeenInv'
    BY <1>1, <1>6, <1>7, <1>9, GrowsSeen
  <1>17. /\ RecordsInv' /\ GuardInv' /\ NoneSkipped' /\ EchoInv' /\ UnreadInv'
         /\ ReimportExplained' /\ EchoExplained'
    BY <1>1, <1>6, <1>7, <1>9, <1>11, Grows
  <1> QED
    BY <1>12, <1>13, <1>14, <1>15, <1>16, <1>17 DEF IInv, LoopInvs

---------------------------------------------------------------------------
(* Steps of the mappings: a job is closed, a send is recorded, rows are deleted *)

\* What none of these steps touches.
LEMMA SameMessages ==
    ASSUME IInv, log' = log, thread' = thread, imported' = imported, shadowed' = shadowed,
           baseline' = baseline, fetchQueued' = fetchQueued, crashes' = crashes, pc \in {"idle", "sent"}, pc' = "idle"
    PROVE  /\ LogInv' /\ GuardInv' /\ NoneSkipped' /\ UnreadInv' /\ SummaryInv' /\ SeenInv'
           /\ SentInv' /\ (HasCursor' <=> HasCursor)
  <1>1. HasCursor' <=> HasCursor
    BY DEF HasCursor
  <1>2. LogInv' /\ GuardInv'
    BY <1>1 DEF IInv, LoopInvs, LogInv, GuardInv
  <1>3. NoneSkipped' /\ UnreadInv'
    BY DEF IInv, LoopInvs, NoneSkipped, UnreadInv, BootstrapImportsUnread
  <1>4. SummaryInv' /\ SentInv'
    BY DEF IInv, SummaryInv, SummaryFlags, SentInv, Shows
  <1>5. SeenInv'
    BY <1>1 DEF IInv, SeenInv, Handled, Seen, Shows
  <1> QED
    BY <1>1, <1>2, <1>3, <1>4, <1>5

\* A job that closes changes the status of an inbound mapping.
LEMMA CloseKeeps ==
    ASSUME IInv, CloseInbound
    PROVE  IInv'
  <1>1. /\ pc = "idle" /\ pc' = pc /\ answer' = answer /\ clock' = clock /\ log' = log /\ outbox' = outbox
        /\ written' = written /\ thread' = thread /\ fetchQueued' = fetchQueued /\ crashes' = crashes
        /\ imported' = imported /\ shadowed' = shadowed /\ unrecorded' = unrecorded /\ late' = late
        /\ baseline' = baseline /\ swept' = swept
    BY DEF CloseInbound, zzap, history
  <1>2. PICK m \in mappings, status \in {"succeeded", "failed"} :
          m.status = "pending" /\ mappings' = (mappings \ {m}) \cup {[m EXCEPT !.status = status]}
    BY DEF CloseInbound
  <1>3. TypeOK /\ AnswerOK /\ RecordsInv /\ StartInv /\ EchoInv /\ m \in Mappings
    BY <1>2 DEF IInv, LoopInvs, TypeOK
  <1> DEFINE n == [m EXCEPT !.status = status]
  <1>4. /\ n \in Mappings /\ n.fingerprint = m.fingerprint /\ n.created = m.created
        /\ n.direction = "inbound" /\ m.direction = "inbound"
    <2>1. m.direction = "inbound"
      BY <1>2, <1>3 DEF RecordsInv, Mappings
    <2> QED
      BY <1>2, <1>3, <2>1 DEF Mappings
  <1>5. mappings' = (mappings \ {m}) \cup {n}
    BY <1>2
  <1> HIDE DEF n
  <1>6. TypeOK'
    <2>1. mappings' \subseteq Mappings /\ \A o \in mappings' : o.created <= clock
      BY <1>3, <1>4, <1>5 DEF TypeOK
    <2>2. \A o, p \in mappings' : o.fingerprint = p.fingerprint => o = p
      BY <1>3, <1>4, <1>5 DEF TypeOK
    <2>3. AnswerOK'
      BY <1>1, <1>3 DEF AnswerOK
    <2> QED
      BY <1>1, <1>3, <2>1, <2>2, <2>3 DEF TypeOK
  <1>7. RecordsInv'
    <2>1. \A o \in mappings' :
            /\ o.direction = "inbound" =>
                \E k \in DOMAIN log : imported[k] > 0 /\ FingerprintOf(log[k]) = o.fingerprint
            /\ o.direction = "outbound" =>
                o.status = "succeeded" /\ OutboundPrint(o)
      BY <1>3, <1>4, <1>5 DEF RecordsInv
    <2>2. ASSUME NEW k \in 1 .. MaxLog, imported[k] > 0
          PROVE  /\ k \in DOMAIN log /\ HasCursor /\ log[k].date <= thread.cursor
                 /\ swept \/ \E o \in mappings' : o.fingerprint = FingerprintOf(log[k])
      BY <1>3, <1>4, <1>5, <2>2 DEF RecordsInv
    <2> QED
      BY <1>1, <2>1, <2>2 DEF RecordsInv, HasCursor
  <1>8. StartInv'
    BY <1>1, <1>2, <1>3 DEF StartInv, HasCursor
  <1>9. EchoInv'
    BY <1>1, <1>3, <1>4, <1>5 DEF EchoInv, EchoOf
  <1>10. ReimportExplained' /\ EchoExplained'
    BY <1>1 DEF IInv, ReimportExplained, EchoExplained
  <1> QED
    BY <1>1, <1>6, <1>7, <1>8, <1>9, <1>10, SameMessages DEF IInv, LoopInvs

\* A cleanup that deletes rows says so.
LEMMA CleanupKeeps ==
    ASSUME IInv, Cleanup
    PROVE  IInv'
  <1>1. /\ pc = "idle" /\ pc' = pc /\ answer' = answer /\ clock' = clock /\ log' = log /\ outbox' = outbox
        /\ written' = written /\ thread' = thread /\ fetchQueued' = fetchQueued /\ crashes' = crashes
        /\ imported' = imported /\ shadowed' = shadowed /\ unrecorded' = unrecorded /\ late' = late
        /\ baseline' = baseline /\ swept' /\ swept' = TRUE
        /\ mappings' \subseteq mappings
    BY DEF Cleanup, zzap
  <1>2. TypeOK /\ AnswerOK /\ RecordsInv /\ StartInv
    BY DEF IInv, LoopInvs, TypeOK
  <1>3. HasCursor' <=> HasCursor
    BY <1>1 DEF HasCursor
  <1>4. TypeOK'
    <2>1. AnswerOK'
      BY <1>1, <1>2 DEF AnswerOK
    <2>2. mappings' \subseteq Mappings /\ \A o \in mappings' : o.created <= clock
      BY <1>1, <1>2 DEF TypeOK
    <2>3. \A o, p \in mappings' : o.fingerprint = p.fingerprint => o = p
      BY <1>1, <1>2 DEF TypeOK
    <2> QED
      BY <1>1, <1>2, <2>1, <2>2, <2>3 DEF TypeOK
  <1>5. RecordsInv' /\ StartInv'
    BY <1>1, <1>2, <1>3 DEF RecordsInv, StartInv
  <1>6. EchoInv' /\ EchoExplained'
    BY <1>1 DEF EchoInv, EchoExplained
  <1>7. ReimportExplained'
    BY <1>1 DEF IInv, ReimportExplained
  <1> QED
    BY <1>1, <1>4, <1>5, <1>6, <1>7, SameMessages DEF IInv, LoopInvs

\* A recorded send leaves a row that the echo test finds, or stays unrecorded.
LEMMA RecordKeeps ==
    ASSUME IInv, RecordSent
    PROVE  IInv'
  <1> DEFINE Row(s) == NewMapping(Fingerprint(s, answer.job.at, answer.job.text), "outbound",
                                  "succeeded", answer.job.text, answer.job.at, answer.began)
             k == answer.index
  <1>0. PICK sender \in {"customer", "nobody"} :
            /\ mappings' = Insert(mappings, Row(sender))
            /\ unrecorded' = IF Row(sender) \in mappings' THEN unrecorded \ {k} ELSE unrecorded
    BY DEF RecordSent
  <1> DEFINE row == Row(sender)
  <1>1. /\ pc = "sent" /\ pc' = "idle" /\ answer' = Null /\ clock' = clock /\ log' = log
        /\ written' = written /\ thread' = thread /\ fetchQueued' = fetchQueued /\ crashes' = crashes
        /\ imported' = imported /\ shadowed' = shadowed /\ late' = late
        /\ baseline' = baseline /\ swept' = swept /\ outbox' \subseteq outbox
        /\ mappings' = Insert(mappings, row)
        /\ unrecorded' = IF row \in mappings' THEN unrecorded \ {k} ELSE unrecorded
    BY <1>0 DEF RecordSent
  <1>2. /\ TypeOK /\ AnswerOK /\ RecordsInv /\ StartInv /\ SentInv /\ EchoInv /\ EchoExplained
        /\ answer \in Sendings /\ thread # Null /\ clock \in Nat
    <2>1. TypeOK /\ AnswerOK /\ RecordsInv /\ StartInv /\ SentInv /\ EchoInv /\ EchoExplained
      BY DEF IInv, LoopInvs, TypeOK
    <2> QED
      BY <1>1, <2>1 DEF AnswerOK, TypeOK
  <1>3. answer.job \in Jobs /\ answer.job.text \in Texts /\ answer.job.at \in Nat /\ answer.began \in Nat
    BY <1>2 DEF Sendings, Jobs
  <1>4. /\ row \in Mappings /\ row.direction = "outbound" /\ row.status = "succeeded"
        /\ row.hash = answer.job.text /\ row.date = answer.job.at /\ row.created = answer.began
        /\ OutboundPrint(row)
    <2>1. Fingerprint(sender, answer.job.at, answer.job.text) \in Fingerprints
      BY <1>0, <1>3 DEF Fingerprint, Fingerprints, Named, Senders
    <2>2. /\ row \in Mappings /\ row.direction = "outbound" /\ row.status = "succeeded"
          /\ row.hash = answer.job.text /\ row.date = answer.job.at /\ row.created = answer.began
          /\ row.fingerprint = Fingerprint(sender, row.date, row.hash)
      BY <1>3, <2>1 DEF NewMapping, Mappings
    <2> QED
      BY <1>0, <2>2 DEF OutboundPrint
  <1>5. /\ k \in DOMAIN log /\ imported[k] = 0 /\ log[k].text = answer.job.text
        /\ k \in late \/ Near(log[k].date, answer.job.at) \/ Near(log[k].date, answer.began)
    BY <1>1, <1>2 DEF AnswerOK, SentInv
  <1> HIDE DEF row, k, Row
  <1>6. /\ mappings \subseteq mappings' /\ \A m \in mappings' : m \in mappings \/ m = row
        /\ mappings' # mappings => \A m \in mappings : m.fingerprint # row.fingerprint
    BY <1>1 DEF Insert
  <1>7. HasCursor /\ HasCursor'
    BY <1>1, <1>2 DEF StartInv, HasCursor
  <1>8. row.created <= clock
    BY <1>1, <1>2, <1>4 DEF SentInv
  <1>9. TypeOK'
    <2>1. mappings' \subseteq Mappings /\ \A o \in mappings' : o.created <= clock
      BY <1>2, <1>4, <1>6, <1>8 DEF TypeOK
    <2>2. \A o, p \in mappings' : o.fingerprint = p.fingerprint => o = p
      BY <1>2, <1>6 DEF TypeOK
    <2>3. AnswerOK'
      BY <1>1 DEF AnswerOK
    <2>4. unrecorded' \subseteq DOMAIN log
      BY <1>1, <1>2 DEF TypeOK
    <2> QED
      BY <1>1, <1>2, <2>1, <2>2, <2>3, <2>4 DEF TypeOK
  <1>10. RecordsInv'
    <2>1. \A o \in mappings' :
            /\ o.direction = "inbound" =>
                \E i \in DOMAIN log : imported[i] > 0 /\ FingerprintOf(log[i]) = o.fingerprint
            /\ o.direction = "outbound" =>
                o.status = "succeeded" /\ OutboundPrint(o)
      BY <1>2, <1>4, <1>6 DEF RecordsInv
    <2> QED
      BY <1>1, <1>2, <1>6, <1>7, <2>1 DEF RecordsInv
  <1>11. StartInv'
    BY <1>7 DEF StartInv
  <1>12. EchoInv'
    <2> SUFFICES ASSUME NEW i \in DOMAIN log, log[i].from = "operator", ~swept, i \notin unrecorded' \cup late
                 PROVE  \E m \in mappings' : EchoOf(m, log[i].date, log[i].text)
      BY <1>1 DEF EchoInv, EchoOf
    <2>1. CASE i \notin unrecorded
      BY <1>1, <1>2, <1>6, <2>1 DEF EchoInv
    <2>2. CASE i \in unrecorded
      <3>1. i = k /\ row \in mappings'
        BY <1>1, <2>2
      <3>2. EchoOf(row, log[i].date, log[i].text)
        BY <1>4, <1>5, <3>1 DEF EchoOf
      <3> QED
        BY <3>1, <3>2
    <2> QED
      BY <2>1, <2>2
  <1>13. EchoExplained'
    <2> SUFFICES ASSUME NEW i \in DOMAIN log, log[i].from = "operator", imported[i] > 0
                 PROVE  i \in unrecorded' \/ i \in late \/ swept
      BY <1>1 DEF EchoExplained
    <2>1. i # k
      BY <1>5
    <2> QED
      BY <1>1, <1>2, <2>1 DEF EchoExplained
  <1>14. ReimportExplained'
    BY <1>1 DEF IInv, ReimportExplained
  <1> QED
    BY <1>1, <1>9, <1>10, <1>11, <1>12, <1>13, <1>14, SameMessages DEF IInv, LoopInvs

---------------------------------------------------------------------------
(* The invariant, and what follows from it *)

\* The invariant holds at the start.
LEMMA InitHolds ==
    ASSUME Init
    PROVE  IInv
  <1>1. /\ clock = 0 /\ log = <<>> /\ outbox = {} /\ written = 0 /\ thread = Null /\ mappings = {}
        /\ fetchQueued = FALSE /\ pc = "idle" /\ answer = Null /\ crashes = 0
        /\ imported = [k \in 1 .. MaxLog |-> 0] /\ shadowed = {} /\ unrecorded = {} /\ late = {}
        /\ baseline = 0 /\ swept = FALSE
    BY DEF Init
  <1>2. log \in Seq(Messages) /\ Len(log) = 0 /\ DOMAIN log = {} /\ \A k \in 1 .. MaxLog : imported[k] = 0
    BY <1>1
  <1>3. TypeOK
    <2>1. AnswerOK
      BY <1>1 DEF AnswerOK
    <2>2. Len(log) <= MaxLog
      BY <1>2, TimesAssumption
    <2>3. imported \in [1 .. MaxLog -> Nat]
      BY <1>1
    <2> QED
      BY <1>1, <1>2, <2>1, <2>2, <2>3 DEF TypeOK
  <1>4. ~HasCursor
    BY <1>1 DEF HasCursor
  <1>5. LogInv /\ RecordsInv /\ StartInv /\ GuardInv /\ NoneSkipped
    BY <1>1, <1>2, <1>4 DEF LogInv, RecordsInv, StartInv, GuardInv, NoneSkipped
  <1>6. SummaryInv /\ SeenInv /\ EchoInv /\ SentInv /\ UnreadInv
    BY <1>1, <1>2, <1>4 DEF SummaryInv, SummaryFlags, SeenInv, EchoInv, SentInv, UnreadInv, BootstrapImportsUnread
  <1>7. ReimportExplained /\ EchoExplained
    BY <1>2 DEF ReimportExplained, EchoExplained
  <1> QED
    BY <1>3, <1>5, <1>6, <1>7 DEF IInv, LoopInvs

\* A stuttering step keeps it.
LEMMA StutterKeeps ==
    ASSUME IInv, UNCHANGED vars
    PROVE  IInv'
  <1>1. /\ clock' = clock /\ log' = log /\ outbox' = outbox /\ written' = written /\ thread' = thread
        /\ mappings' = mappings /\ fetchQueued' = fetchQueued /\ pc' = pc /\ answer' = answer
        /\ crashes' = crashes /\ history' = history
        /\ imported' = imported /\ shadowed' = shadowed /\ unrecorded' = unrecorded /\ late' = late
        /\ baseline' = baseline /\ swept' = swept
    BY DEF vars, zzap, history
  <1>2. TypeOK'
    <2>1. TypeOK /\ AnswerOK'
      BY <1>1 DEF IInv, LoopInvs, TypeOK, AnswerOK
    <2> QED
      BY <1>1, <2>1 DEF TypeOK
  <1>3. StartInv' /\ SummaryInv' /\ SentInv'
    BY <1>1 DEF IInv, LoopInvs, StartInv, HasCursor, SummaryInv, SummaryFlags, Shows, SentInv
  <1>4. SeenInv'
    BY <1>1 DEF IInv, SeenInv, HasCursor, Handled, Seen, Shows
  <1> QED
    BY <1>1, <1>2, <1>3, <1>4, Quiet DEF IInv, LoopInvs

\* Every step keeps it.
LEMMA NextKeeps ==
    ASSUME IInv, [Next]_vars
    PROVE  IInv'
  <1>1. CASE CustomerWrites
    BY <1>1, CustomerKeeps
  <1>2. CASE ThreadIsRead
    BY <1>2, ReadKeeps
  <1>3. CASE OperatorWrites
    BY <1>3, OperatorKeeps
  <1>4. CASE ListThreads
    BY <1>4, ListKeeps
  <1>5. CASE ProcessSummary
    BY <1>5, KnownThreadKeeps, NewThreadKeeps
  <1>6. CASE FetchMessages
    BY <1>6, FetchKeeps
  <1>7. CASE PersistMessages
    BY <1>7, PersistKeeps
  <1>8. CASE PollFails \/ SkipUnknownThread \/ FetchFails \/ SendFails \/ Crash \/ Restart
    BY <1>8, RestKeeps
  <1>9. CASE CloseInbound
    BY <1>9, CloseKeeps
  <1>10. CASE Cleanup
    BY <1>10, CleanupKeeps
  <1>11. CASE BeginSend
    BY <1>11, BeginKeeps
  <1>12. CASE SendMessage
    BY <1>12, SendKeeps
  <1>13. CASE RecordSent
    BY <1>13, RecordKeeps
  <1>14. CASE Tick
    BY <1>14, TickKeeps
  <1>15. CASE UNCHANGED vars
    BY <1>15, StutterKeeps
  <1> QED
    BY <1>1, <1>2, <1>3, <1>4, <1>5, <1>6, <1>7, <1>8, <1>9, <1>10, <1>11, <1>12, <1>13, <1>14, <1>15
    DEF Next, Worker

\* The inductive invariant: log, records, cursor, summaries, echoes and first import.
THEOREM InvHolds == Spec => []IInv
  <1>1. Init => IInv
    BY InitHolds
  <1>2. IInv /\ [Next]_vars => IInv'
    BY NextKeeps
  <1> QED
    BY <1>1, <1>2, PTL DEF Spec

\* The state is well formed at every step: a cursor comes with a guard, a message
\* has one mapping, a fetched answer lists the messages of ZZap.
THEOREM TypeCorrect == Spec => []TypeOK
  <1>1. IInv => TypeOK
    BY DEF IInv, LoopInvs
  <1> QED
    BY <1>1, InvHolds, PTL

\* The cursor of a thread passes no customer's message that was not imported, the
\* echoes excepted (inbound.py:45-63, jobs.py:716-748).
THEOREM SkipsNone == Spec => []NoneSkipped
  <1>1. IInv => NoneSkipped
    BY DEF IInv, LoopInvs
  <1> QED
    BY <1>1, InvHolds, PTL

\* A second import of a message needs a cleanup and a message of the same second
\* (jobs.py:700-704, cleanup.py:34-47).
THEOREM ReimportHolds == Spec => []ReimportExplained
  <1>1. IInv => ReimportExplained
    BY DEF IInv
  <1> QED
    BY <1>1, InvHolds, PTL

\* The operator's own message is imported only if its send was not recorded, came
\* late, or a cleanup deleted its record (jobs.py:779-793, repositories.py:347-363).
THEOREM EchoHolds == Spec => []EchoExplained
  <1>1. IInv => EchoExplained
    BY DEF IInv
  <1> QED
    BY <1>1, InvHolds, PTL

\* If ZZap always gives the unread flags, what was unread when the thread got its
\* first cursor, and still is, was imported (jobs.py:876-891, inbound.py:45-63).
THEOREM BootstrapHolds ==
    ASSUME ~FlagsMayMiss
    PROVE  Spec => []BootstrapImportsUnread
  <1>1. IInv => BootstrapImportsUnread
    BY DEF IInv, UnreadInv
  <1> QED
    BY <1>1, InvHolds, PTL

\* A summary that shows an earlier message than the one that waits differs from the
\* last one, unless the two are twins.
LEMMA NothingLost ==
    ASSUME IInv
    PROVE  NothingForgotten
  <1>1. /\ TypeOK /\ LogInv /\ SeenInv /\ Len(log) \in Nat /\ DOMAIN log = 1 .. Len(log) /\ baseline \in Nat
    BY DEF IInv, LoopInvs, TypeOK
  <1> SUFFICES ASSUME crashes = 0, HasCursor, NEW k \in baseline + 1 .. Len(log),
                      log[k].from = "customer", imported[k] = 0, k \notin shadowed, ~BetweenTwins(k)
               PROVE  OnItsWay
    BY DEF NothingForgotten, HasCursor
  <1>2. k \in DOMAIN log /\ k \in Nat /\ k \in 1 .. Len(log)
    BY <1>1, Later
  <1>3. Seen(k)
    BY <1>1 DEF SeenInv, Handled
  <1>4. CASE fetchQueued \/ pc = "fetched"
    BY <1>4 DEF OnItsWay
  <1>5. CASE Shows(thread.lastDate, thread.lastHash, k - 1)
    <2>1. PICK i \in 1 .. k - 1 : log[i].date = thread.lastDate /\ log[i].text = thread.lastHash
      BY <1>5 DEF Shows
    <2>2. i \in DOMAIN log /\ i < k
      BY <1>1, <1>2, <2>1
    <2>3. PICK l \in DOMAIN log : LastMessage = log[l] /\ IsLast(l)
      <3>1. log # <<>>
        BY <1>1, <1>2
      <3> QED
        BY <1>1, <3>1, LastIsThere
    <2>4. k <= l
      <3> SUFFICES ASSUME l < k PROVE FALSE
        BY <1>1, <1>2
      <3>1. log[l].date <= log[k].date /\ log[l].date \in Nat /\ log[k].date \in Nat
        BY <1>1, <1>2, MessageFacts DEF LogInv
      <3>2. log[k].date < log[l].date \/ (log[k].date = log[l].date /\ k <= l)
        BY <1>2, <2>3 DEF IsLast
      <3> QED
        BY <1>1, <1>2, <3>1, <3>2
    <2>5. ~(log[i].date = log[l].date /\ log[i].text = log[l].text)
      BY <2>2, <2>4 DEF BetweenTwins
    <2>6. <<thread.lastDate, thread.lastHash, thread.unread>> # <<LastMessage.date, LastMessage.text, UnreadCount>>
      BY <2>1, <2>3, <2>5
    <2> QED
      BY <2>6 DEF OnItsWay
  <1> QED
    BY <1>3, <1>4, <1>5 DEF Seen

\* Without a crash, a customer's message that waits for its import is on its way,
\* twins around it excepted (jobs.py:636-690, 811-824).
THEOREM ForgetsNothing == Spec => []NothingForgotten
  <1>1. IInv => NothingForgotten
    BY NothingLost
  <1> QED
    BY <1>1, InvHolds, PTL

\* Only the import moves the cursor.
LEMMA StepsKeepCursor ==
    ASSUME IInv, Next, HasCursor
    PROVE  thread'.cursor >= thread.cursor
  <1>1. /\ TypeOK /\ thread \in Threads /\ thread # Null /\ thread.cursor \in Nat
    BY DEF IInv, LoopInvs, TypeOK, HasCursor, Threads
  <1>2. CASE PersistMessages
    <2>1. PICK done : Persisted(done)
      BY <1>2, PersistLoop
    <2>2. pc = "fetched" /\ LoopInvs
      BY <1>2, PersistLoop DEF IInv
    <2> QED
      BY <2>1, <2>2, PersistThread
  <1>3. CASE ProcessSummary
    <2>1. thread' = [thread EXCEPT !.lastDate = answer.lastDate, !.lastHash = answer.lastHash,
                                   !.unread = answer.unread]
      BY <1>1, <1>3 DEF ProcessSummary
    <2>2. thread'.cursor = thread.cursor
      BY <1>1, <2>1 DEF Threads
    <2> QED
      BY <1>1, <2>2
  <1>4. CASE thread' = thread
    BY <1>1, <1>4
  <1>5. PersistMessages \/ ProcessSummary \/ thread' = thread
    BY DEF Next, Worker, CustomerWrites, ThreadIsRead, OperatorWrites, ListThreads, PollFails, FetchMessages,
           SkipUnknownThread, FetchFails, CloseInbound, Cleanup, BeginSend, SendMessage, RecordSent,
           SendFails, Crash, Restart, Tick
  <1> QED
    BY <1>2, <1>3, <1>4, <1>5

\* The cursor never moves back, in whatever order ZZap lists the messages
\* (jobs.py:876, repositories.py:168).
THEOREM CursorHolds == Spec => CursorMonotone
  <1>1. IInv /\ [Next]_vars => [thread # Null /\ thread.cursor # Null => thread'.cursor >= thread.cursor]_vars
    BY StepsKeepCursor DEF HasCursor
  <1> QED
    BY <1>1, InvHolds, PTL DEF Spec, CursorMonotone

=============================================================================
