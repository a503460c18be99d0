--------------------------- MODULE Storage_proofs ---------------------------
(***************************************************************************)
(* What is found on the device, for any number of threads and siblings and *)
(* any times, and for any number of threads unpacking a detector of any    *)
(* size: what holder answers was so not long ago, and the detector's path  *)
(* is that of a whole file.                                                *)
(***************************************************************************)
EXTENDS ModelHolder, VadAsset, TLAPS

ThreadsTyped ==
    /\ step \in [Threads -> {"out", "looking", "asking", "storing", "asked", "recalled"}]
    /\ read \in [Threads -> Int]
    /\ lag \in [Threads -> Nat]
    /\ next \in [Threads -> 1..Nobody]

AnswerTyped == cached \in 0..Nobody /\ age \in Int /\ back \in Nat

TruthTyped ==
    /\ holds \in SUBSET (1..Siblings)
    /\ had \in [1..Siblings -> 0..Old]
    /\ lacked \in [1..Siblings -> 0..Old]

HolderTyped == ThreadsTyped /\ AnswerTyped /\ TruthTyped

\* What a sibling is now it has been for no time.
TruthNow ==
    \A s \in 1..Siblings : IF s \in holds THEN had[s] = 0 ELSE lacked[s] = 0

\* A thread's clock reading is as old as it says, but for what the clock has
\* been set back since.
ReadingsAge == \A t \in Threads : read[t] <= lag[t] /\ lag[t] <= read[t] + back

\* So is the answer kept, dated by a reading taken before the siblings were
\* asked.
KeptAge ==
    /\ age + back >= 0
    /\ cached # 0 => TrueWithin(cached, age + back)

\* What a thread has found so far it found since its reading; what it remembers
\* was not CACHE_MS old at that reading.
Found(t) ==
    /\ step[t] = "asking" => \A r \in 1..(next[t] - 1) : lacked[r] <= lag[t]
    /\ step[t] \in {"storing", "asked"} => TrueWithin(next[t], lag[t])
    /\ step[t] = "recalled" => TrueWithin(next[t], CacheMs - 1 + lag[t] + back)

FoundAge == \A t \in Threads : Found(t)

HolderInv == HolderTyped /\ TruthNow /\ ReadingsAge /\ KeptAge /\ FoundAge

\* The sizes are numbers.
LEMMA HolderSizes ==
    /\ Old \in Nat /\ CacheMs \in Nat \ {0}
    /\ Siblings \in Nat \ {0} /\ Nobody = Siblings + 1
BY HolderAssumption DEF Old, Nobody

\* Past Old no age grows.
LEMMA LaterGrows ==
    /\ \A d \in 0..Old : Later(d) \in 0..Old /\ Later(d) <= d + 1
    /\ \A d \in Int : Later(d) \in Int /\ (Later(d) = d + 1 \/ Later(d) = Old)
BY HolderSizes DEF Later

\* A moment later, everything is so within one more.
LEMMA TickTruth ==
    ASSUME HolderTyped, Tick
    PROVE  /\ had' \in [1..Siblings -> 0..Old] /\ lacked' \in [1..Siblings -> 0..Old]
           /\ \A s \in 1..Siblings :
                /\ had'[s] <= had[s] + 1 /\ lacked'[s] <= lacked[s] + 1
                /\ s \in holds => had'[s] = 0
                /\ s \notin holds => lacked'[s] = 0
<1>1. \A s \in 1..Siblings : had[s] \in 0..Old /\ lacked[s] \in 0..Old
  BY DEF HolderTyped, TruthTyped
<1>2. /\ had' = [s \in 1..Siblings |-> IF s \in holds THEN 0 ELSE Later(had[s])]
      /\ lacked' = [s \in 1..Siblings |-> IF s \notin holds THEN 0 ELSE Later(lacked[s])]
  BY DEF Tick
<1>3. \A s \in 1..Siblings :
        /\ had'[s] = IF s \in holds THEN 0 ELSE Later(had[s])
        /\ lacked'[s] = IF s \notin holds THEN 0 ELSE Later(lacked[s])
  BY <1>2
<1>4. \A s \in 1..Siblings :
        /\ had'[s] \in 0..Old /\ had'[s] <= had[s] + 1
        /\ lacked'[s] \in 0..Old /\ lacked'[s] <= lacked[s] + 1
  <2> SUFFICES ASSUME NEW s \in 1..Siblings
               PROVE  /\ had'[s] \in 0..Old /\ had'[s] <= had[s] + 1
                      /\ lacked'[s] \in 0..Old /\ lacked'[s] <= lacked[s] + 1
    OBVIOUS
  <2>1. /\ Later(had[s]) \in 0..Old /\ Later(had[s]) <= had[s] + 1
        /\ Later(lacked[s]) \in 0..Old /\ Later(lacked[s]) <= lacked[s] + 1
    BY <1>1, LaterGrows, HolderSizes
  <2> QED
    BY <1>1, <1>3, <2>1, LaterGrows, HolderSizes
<1> QED
  BY <1>2, <1>3, <1>4

\* What a thread does by itself leaves what the others have found.
LEMMA OthersFound ==
    ASSUME FoundAge, UNCHANGED <<had, lacked, back>>, NEW t \in Threads, Found(t)',
           \A u \in Threads \ {t} : step'[u] = step[u] /\ lag'[u] = lag[u] /\ next'[u] = next[u]
    PROVE  FoundAge'
<1> SUFFICES ASSUME NEW u \in Threads
             PROVE  Found(u)'
  BY DEF FoundAge
<1>1. CASE u = t
  BY <1>1
<1>2. CASE u # t
  BY <1>2 DEF FoundAge, Found, TrueWithin
<1> QED
  BY <1>1, <1>2

\* What a thread itself does keeps the invariant.
LEMMA ThreadKeepsHolder ==
    ASSUME HolderInv, NEW t \in Threads,
           ReadClock(t) \/ LookUp(t) \/ Query(t) \/ Store(t) \/ Return(t)
    PROVE  HolderInv'
<1> USE HolderSizes
<1>1. ThreadsTyped /\ AnswerTyped /\ TruthTyped /\ TruthNow /\ ReadingsAge /\ KeptAge /\ FoundAge
  BY DEF HolderInv, HolderTyped
<1>2. UNCHANGED <<holds, had, lacked, back>>
  BY DEF ReadClock, LookUp, Query, Store, Return, truth
<1>3. TruthNow' /\ TruthTyped'
  BY <1>1, <1>2 DEF TruthNow, TruthTyped
<1>4. /\ read[t] \in Int /\ lag[t] \in Nat /\ next[t] \in 1..Nobody
      /\ cached \in 0..Nobody /\ age \in Int /\ back \in Nat
      /\ read[t] <= lag[t] /\ lag[t] <= read[t] + back
  BY <1>1 DEF ThreadsTyped, AnswerTyped, ReadingsAge
<1>5. CASE ReadClock(t)
  <2>1. /\ step' = [step EXCEPT ![t] = "looking"] /\ read' = [read EXCEPT ![t] = 0]
        /\ lag' = [lag EXCEPT ![t] = 0] /\ UNCHANGED <<next, cached, age>>
    BY <1>5 DEF ReadClock, Goes
  <2>2. ThreadsTyped' /\ AnswerTyped'
    BY <1>1, <1>2, <2>1 DEF ThreadsTyped, AnswerTyped
  <2>3. ReadingsAge'
    BY <1>1, <1>2, <2>1 DEF ReadingsAge, ThreadsTyped, AnswerTyped
  <2>4. KeptAge'
    BY <1>1, <1>2, <2>1 DEF KeptAge, TrueWithin
  <2>5. Found(t)'
    BY <1>1, <2>1 DEF ThreadsTyped, Found
  <2>6. FoundAge'
    BY <1>1, <1>2, <2>1, <2>5, OthersFound DEF ThreadsTyped
  <2> QED
    BY <1>3, <2>2, <2>3, <2>4, <2>6 DEF HolderInv, HolderTyped
<1>6. CASE LookUp(t)
  <2>1. /\ UNCHANGED <<read, lag, cached, age>>
        /\ \/ /\ Valid(t) /\ step' = [step EXCEPT ![t] = "recalled"]
              /\ next' = [next EXCEPT ![t] = cached]
           \/ /\ step' = [step EXCEPT ![t] = "asking"]
              /\ next' = [next EXCEPT ![t] = 1]
    BY <1>6 DEF LookUp, Goes
  <2>2. Valid(t) => cached \in 1..Nobody
    BY <1>4 DEF Valid
  <2>3. ThreadsTyped' /\ AnswerTyped'
    BY <1>1, <1>2, <2>1, <2>2 DEF ThreadsTyped, AnswerTyped
  <2>4. ReadingsAge' /\ KeptAge'
    BY <1>1, <1>2, <2>1 DEF ReadingsAge, KeptAge, TrueWithin
  <2>5. ASSUME Valid(t)
        PROVE  TrueWithin(cached, CacheMs - 1 + lag[t] + back)
    <3>1. age + back <= CacheMs - 1 + lag[t] + back
      BY <1>4, <2>5 DEF Valid
    <3>2. /\ cached # Nobody => had[cached] <= age + back
          /\ \A r \in 1..(cached - 1) : lacked[r] <= age + back
      BY <1>1, <2>5 DEF Valid, KeptAge, TrueWithin
    <3>3. /\ cached # Nobody => had[cached] \in Nat
          /\ \A r \in 1..(cached - 1) : lacked[r] \in Nat
      BY <1>1, <1>4, <2>2, <2>5 DEF TruthTyped
    <3> QED
      BY <1>4, <3>1, <3>2, <3>3 DEF TrueWithin
  <2>6. Found(t)'
    <3>1. CASE Valid(t) /\ step' = [step EXCEPT ![t] = "recalled"] /\ next' = [next EXCEPT ![t] = cached]
      <4>1. step'[t] = "recalled" /\ next'[t] = cached /\ lag'[t] = lag[t]
        BY <1>1, <2>1, <3>1 DEF ThreadsTyped
      <4> QED
        BY <1>2, <2>5, <3>1, <4>1 DEF Found, TrueWithin
    <3>2. CASE step' = [step EXCEPT ![t] = "asking"] /\ next' = [next EXCEPT ![t] = 1]
      <4>1. step'[t] = "asking" /\ next'[t] = 1
        BY <1>1, <3>2 DEF ThreadsTyped
      <4> QED
        BY <4>1 DEF Found
    <3> QED
      BY <2>1, <3>1, <3>2
  <2>7. FoundAge'
    BY <1>1, <1>2, <2>1, <2>6, OthersFound DEF ThreadsTyped
  <2> QED
    BY <1>3, <2>3, <2>4, <2>7 DEF HolderInv, HolderTyped
<1>7. CASE Query(t)
  <2>1. /\ step[t] = "asking" /\ UNCHANGED <<read, lag, cached, age>>
        /\ \A r \in 1..(next[t] - 1) : lacked[r] <= lag[t]
    BY <1>1, <1>7 DEF Query, FoundAge, Found
  <2>2. ReadingsAge' /\ KeptAge' /\ AnswerTyped'
    BY <1>1, <1>2, <2>1 DEF ReadingsAge, KeptAge, TrueWithin, AnswerTyped
  <2>3. CASE ~Exhausted(t) /\ next[t] \notin holds
    <3>1. next[t] \in 1..Siblings /\ lacked[next[t]] = 0
      BY <1>1, <1>4, <2>3 DEF TruthNow, Exhausted
    <3>2. next' = [next EXCEPT ![t] = @ + 1] /\ UNCHANGED step
      BY <1>7, <2>3 DEF Query
    <3>3. ThreadsTyped'
      BY <1>1, <2>1, <3>1, <3>2 DEF ThreadsTyped
    <3>4. next'[t] = next[t] + 1 /\ lag'[t] = lag[t] /\ step'[t] = "asking"
      BY <1>1, <2>1, <3>2 DEF ThreadsTyped
    <3>5. \A r \in 1..(next'[t] - 1) : lacked[r] <= lag[t]
      <4>1. \A n \in Nat : \A r \in 1..(n + 1 - 1) : r = n \/ r \in 1..(n - 1)
        OBVIOUS
      <4>2. \A r \in 1..(next'[t] - 1) : r = next[t] \/ r \in 1..(next[t] - 1)
        BY <1>4, <3>4, <4>1
      <4> QED
        BY <1>4, <2>1, <3>1, <4>2
    <3>6. Found(t)'
      BY <1>2, <3>4, <3>5 DEF Found
    <3>7. FoundAge'
      BY <1>1, <1>2, <2>1, <3>2, <3>6, OthersFound DEF ThreadsTyped
    <3> QED
      BY <1>3, <2>2, <3>3, <3>7 DEF HolderInv, HolderTyped
  <2>4. CASE Exhausted(t) \/ next[t] \in holds
    <3>1. step' = [step EXCEPT ![t] = "storing"] /\ UNCHANGED next
      BY <1>7, <2>4 DEF Query
    <3>2. ThreadsTyped'
      BY <1>1, <2>1, <3>1 DEF ThreadsTyped
    <3>3. next[t] # Nobody => had[next[t]] = 0
      BY <1>1, <1>4, <2>4 DEF TruthNow, Exhausted
    <3>4. TrueWithin(next[t], lag[t])
      BY <1>4, <2>1, <3>3 DEF TrueWithin
    <3>5. step'[t] = "storing" /\ next'[t] = next[t] /\ lag'[t] = lag[t]
      BY <1>1, <2>1, <3>1 DEF ThreadsTyped
    <3>6. Found(t)'
      BY <1>2, <3>4, <3>5 DEF Found, TrueWithin
    <3>7. FoundAge'
      BY <1>1, <1>2, <2>1, <3>1, <3>6, OthersFound DEF ThreadsTyped
    <3> QED
      BY <1>3, <2>2, <3>2, <3>7 DEF HolderInv, HolderTyped
  <2> QED
    BY <2>3, <2>4
<1>8. CASE Store(t)
  <2>1. /\ step[t] = "storing" /\ step' = [step EXCEPT ![t] = "asked"]
        /\ cached' = next[t] /\ age' = read[t] /\ UNCHANGED <<read, lag, next>>
    BY <1>8 DEF Store, Goes, Dated
  <2>2. ThreadsTyped' /\ AnswerTyped'
    BY <1>1, <1>2, <1>4, <2>1 DEF ThreadsTyped, AnswerTyped
  <2>3. ReadingsAge'
    BY <1>1, <1>2, <2>1 DEF ReadingsAge
  <2>4. /\ next[t] # Nobody => had[next[t]] <= lag[t]
        /\ \A r \in 1..(next[t] - 1) : lacked[r] <= lag[t]
    <3>1. Found(t)
      BY <1>1 DEF FoundAge
    <3> QED
      BY <2>1, <3>1 DEF Found, TrueWithin
  <2>5. /\ next[t] # Nobody => had[next[t]] \in Nat
        /\ \A r \in 1..(next[t] - 1) : lacked[r] \in Nat
    BY <1>1, <1>4 DEF TruthTyped
  <2>6. KeptAge'
    BY <1>2, <1>4, <2>1, <2>4, <2>5 DEF KeptAge, TrueWithin
  <2>7. step'[t] = "asked" /\ next'[t] = next[t] /\ lag'[t] = lag[t]
    BY <1>1, <2>1 DEF ThreadsTyped
  <2>8. Found(t)'
    BY <1>2, <2>4, <2>7 DEF Found, TrueWithin
  <2>9. FoundAge'
    BY <1>1, <1>2, <2>1, <2>8, OthersFound DEF ThreadsTyped
  <2> QED
    BY <1>3, <2>2, <2>3, <2>6, <2>9 DEF HolderInv, HolderTyped
<1>9. CASE Return(t)
  <2>1. /\ step' = [step EXCEPT ![t] = "out"] /\ read' = [read EXCEPT ![t] = 0]
        /\ lag' = [lag EXCEPT ![t] = 0] /\ next' = [next EXCEPT ![t] = Nobody]
        /\ UNCHANGED <<cached, age>>
    BY <1>9 DEF Return
  <2>2. ThreadsTyped' /\ AnswerTyped'
    BY <1>1, <1>2, <2>1 DEF ThreadsTyped, AnswerTyped
  <2>3. ReadingsAge'
    BY <1>1, <1>2, <2>1 DEF ReadingsAge, ThreadsTyped, AnswerTyped
  <2>4. KeptAge'
    BY <1>1, <1>2, <2>1 DEF KeptAge, TrueWithin
  <2>5. Found(t)'
    BY <1>1, <2>1 DEF ThreadsTyped, Found
  <2>6. FoundAge'
    BY <1>1, <1>2, <2>1, <2>5, OthersFound DEF ThreadsTyped
  <2> QED
    BY <1>3, <2>2, <2>3, <2>4, <2>6 DEF HolderInv, HolderTyped
<1> QED
  BY <1>5, <1>6, <1>7, <1>8, <1>9

\* Nor does it what the siblings have done, the refresh or the clock.
LEMMA WorldKeepsHolder ==
    ASSUME HolderInv,
           \/ \E s \in 1..Siblings : Change(s)
           \/ Refresh \/ Tick \/ SetBack \/ UNCHANGED holderVars
    PROVE  HolderInv'
<1> USE HolderSizes
<1>1. ThreadsTyped /\ AnswerTyped /\ TruthTyped /\ TruthNow /\ ReadingsAge /\ KeptAge /\ FoundAge
  BY DEF HolderInv, HolderTyped
<1>2. \A u \in Threads :
        /\ read[u] \in Int /\ lag[u] \in Nat /\ next[u] \in 1..Nobody
        /\ read[u] <= lag[u] /\ lag[u] <= read[u] + back
  BY <1>1 DEF ThreadsTyped, ReadingsAge
<1>3. cached \in 0..Nobody /\ age \in Int /\ back \in Nat /\ age + back >= 0
  BY <1>1 DEF AnswerTyped, KeptAge
<1>4. \A s \in 1..Siblings : had[s] \in 0..Old /\ lacked[s] \in 0..Old
  BY <1>1 DEF TruthTyped
<1>5. \A n \in 1..Nobody :
        /\ n # Nobody => n \in 1..Siblings
        /\ \A r \in 1..(n - 1) : r \in 1..Siblings
  OBVIOUS
<1>6. CASE \E s \in 1..Siblings : Change(s)
  <2>1. PICK s \in 1..Siblings : Change(s)
    BY <1>6
  <2>2. UNCHANGED <<step, read, lag, next, cached, age, back>>
    BY <2>1 DEF Change
  <2>3. /\ had' \in [1..Siblings -> 0..Old] /\ lacked' \in [1..Siblings -> 0..Old]
        /\ \A r \in 1..Siblings :
             (had'[r] = had[r] \/ had'[r] = 0) /\ (lacked'[r] = lacked[r] \/ lacked'[r] = 0)
    <3>1. \/ lacked' = [lacked EXCEPT ![s] = 0] /\ had' = had
          \/ had' = [had EXCEPT ![s] = 0] /\ lacked' = lacked
      BY <2>1 DEF Change
    <3> DEFINE S == 1..Siblings
               T == 0..Old
    <3>2. 0 \in T /\ had \in [S -> T] /\ lacked \in [S -> T]
      BY <1>1 DEF TruthTyped
    <3> HIDE DEF S, T
    <3>3. \A f \in [S -> T] : 0 \in T =>
            /\ [f EXCEPT ![s] = 0] \in [S -> T]
            /\ \A r \in S : [f EXCEPT ![s] = 0][r] \in {f[r], 0}
      OBVIOUS
    <3>4. /\ had' \in [S -> T] /\ lacked' \in [S -> T]
          /\ \A r \in S : had'[r] \in {had[r], 0} /\ lacked'[r] \in {lacked[r], 0}
      BY <3>1, <3>2, <3>3
    <3> QED
      BY <3>4 DEF S, T
  <2>4. TruthTyped' /\ TruthNow'
    <3>1. TruthTyped'
      BY <1>1, <2>1, <2>3 DEF Change, TruthTyped
    <3> QED
      BY <1>1, <2>1, <3>1 DEF Change, TruthTyped, TruthNow
  <2>5. ThreadsTyped' /\ AnswerTyped' /\ ReadingsAge'
    BY <1>1, <2>2 DEF ThreadsTyped, AnswerTyped, ReadingsAge
  <2>6. \A n \in 1..Nobody : \A d \in Nat :
          TrueWithin(n, d) =>
            /\ n # Nobody => had'[n] <= d
            /\ \A r \in 1..(n - 1) : lacked'[r] <= d
    <3> SUFFICES ASSUME NEW n \in 1..Nobody, NEW d \in Nat, TrueWithin(n, d)
                 PROVE  /\ n # Nobody => had'[n] <= d
                        /\ \A r \in 1..(n - 1) : lacked'[r] <= d
      OBVIOUS
    <3>1. ASSUME n # Nobody
          PROVE  had'[n] <= d
      <4>1. had[n] <= d /\ n \in 1..Siblings
        BY <1>5, <3>1 DEF TrueWithin
      <4>2. had'[n] = had[n] \/ had'[n] = 0
        BY <2>3, <4>1
      <4> QED
        BY <4>1, <4>2
    <3>2. ASSUME NEW r \in 1..(n - 1)
          PROVE  lacked'[r] <= d
      <4>1. lacked[r] <= d /\ r \in 1..Siblings
        BY <1>5 DEF TrueWithin
      <4>2. lacked'[r] = lacked[r] \/ lacked'[r] = 0
        BY <2>3, <4>1
      <4> QED
        BY <4>1, <4>2
    <3> QED
      BY <3>1, <3>2
  <2>7. KeptAge'
    <3>1. CASE cached # 0
      <4>1. cached \in 1..Nobody /\ age + back \in Nat /\ TrueWithin(cached, age + back)
        BY <1>1, <1>3, <3>1 DEF KeptAge
      <4> QED
        BY <1>3, <2>2, <2>6, <4>1 DEF KeptAge, TrueWithin
    <3>2. CASE cached = 0
      BY <1>3, <2>2, <3>2 DEF KeptAge
    <3> QED
      BY <3>1, <3>2
  <2>8. FoundAge'
    <3> SUFFICES ASSUME NEW u \in Threads
                 PROVE  Found(u)'
      BY DEF FoundAge
    <3>1. Found(u) /\ next[u] \in 1..Nobody /\ lag[u] \in Nat /\ CacheMs - 1 + lag[u] + back \in Nat
      BY <1>1, <1>2, <1>3 DEF FoundAge
    <3>2. step[u] = "asking" => \A r \in 1..(next[u] - 1) : lacked'[r] <= lag[u]
      <4> SUFFICES ASSUME step[u] = "asking", NEW r \in 1..(next[u] - 1)
                   PROVE  lacked'[r] <= lag[u]
        OBVIOUS
      <4>1. lacked[r] <= lag[u] /\ r \in 1..Siblings
        BY <1>5, <3>1 DEF Found
      <4>2. lacked'[r] = lacked[r] \/ lacked'[r] = 0
        BY <2>3, <4>1
      <4> QED
        BY <3>1, <4>1, <4>2
    <3> QED
      BY <2>2, <2>6, <3>1, <3>2 DEF Found, TrueWithin
  <2> QED
    BY <2>4, <2>5, <2>7, <2>8 DEF HolderInv, HolderTyped
<1>7. CASE Refresh
  <2>1. cached' = 0 /\ age' = 0 /\ UNCHANGED <<step, read, lag, next, holds, had, lacked, back>>
    BY <1>7 DEF Refresh, truth
  <2>2. HolderTyped' /\ TruthNow' /\ ReadingsAge'
    <3>1. ThreadsTyped' /\ TruthTyped' /\ TruthNow' /\ ReadingsAge'
      BY <1>1, <2>1 DEF ThreadsTyped, TruthTyped, TruthNow, ReadingsAge
    <3>2. AnswerTyped'
      BY <1>1, <1>3, <2>1 DEF AnswerTyped
    <3> QED
      BY <3>1, <3>2 DEF HolderTyped
  <2>3. KeptAge'
    BY <1>3, <2>1 DEF KeptAge
  <2>4. FoundAge'
    BY <1>1, <2>1 DEF FoundAge, Found, TrueWithin
  <2> QED
    BY <2>2, <2>3, <2>4 DEF HolderInv
<1>8. CASE Tick
  <2>1. /\ UNCHANGED <<step, next, cached, holds, back>>
        /\ read' = [u \in Threads |-> read[u] + (IF Running(u) THEN 1 ELSE 0)]
        /\ lag' = [u \in Threads |-> lag[u] + (IF Running(u) THEN 1 ELSE 0)]
        /\ age' = IF cached = 0 THEN 0 ELSE Later(age)
    BY <1>8 DEF Tick
  <2>2. \A u \in Threads :
          \/ read'[u] = read[u] /\ lag'[u] = lag[u] /\ step[u] = "out"
          \/ read'[u] = read[u] + 1 /\ lag'[u] = lag[u] + 1
    BY <1>2, <2>1 DEF Running
  <2>3. ThreadsTyped'
    BY <1>1, <2>1 DEF ThreadsTyped
  <2>4. /\ had' \in [1..Siblings -> 0..Old] /\ lacked' \in [1..Siblings -> 0..Old]
        /\ \A s \in 1..Siblings :
             /\ had'[s] <= had[s] + 1 /\ lacked'[s] <= lacked[s] + 1
             /\ s \in holds => had'[s] = 0
             /\ s \notin holds => lacked'[s] = 0
    BY <1>8, TickTruth DEF HolderInv
  <2>5. TruthTyped' /\ TruthNow'
    BY <1>1, <2>1, <2>4 DEF TruthTyped, TruthNow
  <2>6. /\ age' \in Int
        /\ cached = 0 => age' = 0
        /\ cached # 0 => age' = age + 1 \/ age' = Old
    BY <1>3, <2>1, LaterGrows
  <2>7. AnswerTyped'
    BY <1>3, <2>1, <2>6 DEF AnswerTyped
  <2>8. ReadingsAge'
    BY <1>2, <1>3, <2>1, <2>2 DEF ReadingsAge
  <2>9. \A s \in 1..Siblings : had'[s] \in 0..Old /\ lacked'[s] \in 0..Old
    BY <2>4
  <2>10. \A n \in 1..Nobody : \A d \in Int :
          TrueWithin(n, d) =>
            /\ n # Nobody => had'[n] <= d + 1
            /\ \A r \in 1..(n - 1) : lacked'[r] <= d + 1
    <3> SUFFICES ASSUME NEW n \in 1..Nobody, NEW d \in Int, TrueWithin(n, d)
                 PROVE  /\ n # Nobody => had'[n] <= d + 1
                        /\ \A r \in 1..(n - 1) : lacked'[r] <= d + 1
      OBVIOUS
    <3>1. \A s \in 1..Siblings :
            /\ had[s] <= d => had'[s] <= d + 1
            /\ lacked[s] <= d => lacked'[s] <= d + 1
      <4> SUFFICES ASSUME NEW s \in 1..Siblings
                   PROVE  /\ had[s] <= d => had'[s] <= d + 1
                          /\ lacked[s] <= d => lacked'[s] <= d + 1
        OBVIOUS
      <4>1. had'[s] <= had[s] + 1 /\ lacked'[s] <= lacked[s] + 1
        BY <2>4
      <4>2. {had[s], lacked[s], had'[s], lacked'[s]} \subseteq Int
        BY <1>4, <2>9
      <4> QED
        BY <4>1, <4>2
    <3>2. ASSUME n # Nobody
          PROVE  had'[n] <= d + 1
      <4>1. had[n] <= d /\ n \in 1..Siblings
        BY <1>5, <3>2 DEF TrueWithin
      <4> QED
        BY <3>1, <4>1
    <3>3. ASSUME NEW r \in 1..(n - 1)
          PROVE  lacked'[r] <= d + 1
      <4>1. lacked[r] <= d /\ r \in 1..Siblings
        BY <1>5 DEF TrueWithin
      <4> QED
        BY <3>1, <4>1
    <3> QED
      BY <3>2, <3>3
  <2>11. KeptAge'
    <3>1. CASE cached # 0 /\ age' = age + 1
      <4>1. cached \in 1..Nobody /\ age + back \in Int /\ TrueWithin(cached, age + back)
        BY <1>1, <1>3, <3>1 DEF KeptAge
      <4>2. /\ cached # Nobody => had'[cached] <= age + back + 1
            /\ \A r \in 1..(cached - 1) : lacked'[r] <= age + back + 1
        BY <2>10, <4>1
      <4>3. age + 1 + back = age + back + 1 /\ age + 1 + back >= 0
        BY <1>3
      <4> QED
        BY <2>1, <3>1, <4>2, <4>3 DEF KeptAge, TrueWithin
    <3>2. CASE cached # 0 /\ age' = Old
      <4>1. cached \in 1..Nobody /\ Old + back >= Old /\ Old + back >= 0
        BY <1>3, <3>2
      <4>2. /\ cached # Nobody => had'[cached] <= Old + back
            /\ \A r \in 1..(cached - 1) : lacked'[r] <= Old + back
        BY <1>3, <1>5, <2>9, <4>1
      <4> QED
        BY <2>1, <3>2, <4>1, <4>2 DEF KeptAge, TrueWithin
    <3>3. CASE cached = 0
      BY <1>3, <2>1, <2>6, <3>3 DEF KeptAge
    <3> QED
      BY <2>6, <3>1, <3>2, <3>3
  <2>12. FoundAge'
    <3> SUFFICES ASSUME NEW u \in Threads
                 PROVE  Found(u)'
      BY DEF FoundAge
    <3>1. Found(u) /\ next[u] \in 1..Nobody /\ lag[u] \in Nat
      BY <1>1, <1>2 DEF FoundAge
    <3>2. CASE step[u] = "out"
      BY <2>1, <3>2 DEF Found
    <3>3. CASE step[u] # "out"
      <4>1. lag'[u] = lag[u] + 1
        BY <2>2, <3>3
      <4>2. step[u] = "asking" => \A r \in 1..(next[u] - 1) : lacked'[r] <= lag[u] + 1
        <5> SUFFICES ASSUME step[u] = "asking", NEW r \in 1..(next[u] - 1)
                     PROVE  lacked'[r] <= lag[u] + 1
          OBVIOUS
        <5>1. lacked[r] <= lag[u] /\ r \in 1..Siblings
          BY <1>5, <3>1 DEF Found
        <5>2. lacked'[r] <= lacked[r] + 1
          BY <2>4, <5>1
        <5>3. lacked[r] \in Nat /\ lacked'[r] \in Nat
          BY <1>4, <2>9, <5>1
        <5> QED
          BY <3>1, <5>1, <5>2, <5>3
      <4>3. step[u] \in {"storing", "asked"} =>
              /\ next[u] # Nobody => had'[next[u]] <= lag[u] + 1
              /\ \A r \in 1..(next[u] - 1) : lacked'[r] <= lag[u] + 1
        BY <2>10, <3>1 DEF Found
      <4>4. step[u] = "recalled" =>
              /\ next[u] # Nobody => had'[next[u]] <= CacheMs - 1 + lag[u] + back + 1
              /\ \A r \in 1..(next[u] - 1) : lacked'[r] <= CacheMs - 1 + lag[u] + back + 1
        <5>1. CacheMs - 1 + lag[u] + back \in Int
          BY <1>3, <3>1
        <5> QED
          BY <2>10, <3>1, <5>1 DEF Found
      <4>5. CacheMs - 1 + (lag[u] + 1) + back = CacheMs - 1 + lag[u] + back + 1
        BY <1>3, <3>1
      <4> QED
        BY <2>1, <4>1, <4>2, <4>3, <4>4, <4>5 DEF Found, TrueWithin
    <3> QED
      BY <3>2, <3>3
  <2> QED
    BY <2>3, <2>5, <2>7, <2>8, <2>11, <2>12 DEF HolderInv, HolderTyped
<1>9. CASE SetBack
  <2>1. /\ UNCHANGED <<step, lag, next, cached, holds, had, lacked>>
        /\ back' = back + 1
        /\ read' = [u \in Threads |-> read[u] - (IF Running(u) THEN 1 ELSE 0)]
        /\ age' = IF cached = 0 THEN 0 ELSE age - 1
    BY <1>9 DEF SetBack
  <2>2. \A u \in Threads : read'[u] = read[u] \/ read'[u] = read[u] - 1
    BY <1>2, <2>1 DEF Running
  <2>3. ThreadsTyped' /\ AnswerTyped' /\ TruthTyped' /\ TruthNow'
    <3>1. read' \in [Threads -> Int]
      <4>1. \A u \in Threads : read[u] - (IF Running(u) THEN 1 ELSE 0) \in Int
        BY <1>2
      <4> QED
        BY <2>1, <4>1
    <3>2. ThreadsTyped'
      BY <1>1, <2>1, <3>1 DEF ThreadsTyped
    <3>3. AnswerTyped'
      BY <1>3, <2>1 DEF AnswerTyped
    <3>4. TruthTyped' /\ TruthNow'
      BY <1>1, <2>1 DEF TruthTyped, TruthNow
    <3> QED
      BY <3>2, <3>3, <3>4
  <2>4. ReadingsAge'
    BY <1>2, <1>3, <2>1, <2>2 DEF ReadingsAge
  <2>5. KeptAge'
    <3>1. CASE cached = 0
      BY <1>3, <2>1, <3>1 DEF KeptAge
    <3>2. CASE cached # 0
      <4>1. age' + back' = age + back
        BY <1>3, <2>1, <3>2
      <4> QED
        BY <1>1, <2>1, <4>1 DEF KeptAge, TrueWithin
    <3> QED
      BY <3>1, <3>2
  <2>6. FoundAge'
    <3> SUFFICES ASSUME NEW u \in Threads
                 PROVE  Found(u)'
      BY DEF FoundAge
    <3>1. Found(u) /\ next[u] \in 1..Nobody /\ lag[u] \in Nat
      BY <1>1, <1>2 DEF FoundAge
    <3>2. step[u] = "recalled" =>
            /\ next[u] # Nobody => had[next[u]] <= CacheMs - 1 + lag[u] + (back + 1)
            /\ \A r \in 1..(next[u] - 1) : lacked[r] <= CacheMs - 1 + lag[u] + (back + 1)
      <4> DEFINE d == CacheMs - 1 + lag[u] + back
      <4>1. d \in Int /\ CacheMs - 1 + lag[u] + (back + 1) = d + 1
        BY <1>3, <3>1
      <4>2. step[u] = "recalled" => TrueWithin(next[u], d)
        BY <3>1 DEF Found
      <4> HIDE DEF d
      <4>3. step[u] = "recalled" =>
              /\ next[u] # Nobody => had[next[u]] <= d + 1
              /\ \A r \in 1..(next[u] - 1) : lacked[r] <= d + 1
        BY <1>4, <1>5, <3>1, <4>1, <4>2 DEF TrueWithin
      <4> QED
        BY <4>1, <4>3
    <3> QED
      BY <2>1, <3>1, <3>2 DEF Found, TrueWithin
  <2> QED
    BY <2>3, <2>4, <2>5, <2>6 DEF HolderInv, HolderTyped
<1>10. CASE UNCHANGED holderVars
  <2>1. UNCHANGED <<step, read, lag, next, cached, age, holds, had, lacked, back>>
    BY <1>10 DEF holderVars, truth
  <2>2. HolderTyped' /\ TruthNow' /\ ReadingsAge'
    <3>1. ThreadsTyped' /\ TruthTyped' /\ TruthNow' /\ ReadingsAge'
      BY <1>1, <2>1 DEF ThreadsTyped, TruthTyped, TruthNow, ReadingsAge
    <3>2. AnswerTyped'
      BY <1>1, <1>3, <2>1 DEF AnswerTyped
    <3> QED
      BY <3>1, <3>2 DEF HolderTyped
  <2>3. KeptAge' /\ FoundAge'
    BY <1>1, <2>1 DEF KeptAge, FoundAge, Found, TrueWithin
  <2> QED
    BY <2>2, <2>3 DEF HolderInv
<1> QED
  BY <1>6, <1>7, <1>8, <1>9, <1>10

\* The inductive invariant holds at every step of holder.
THEOREM HolderInvariant == HolderSpec => []HolderInv
<1>1. HolderInit => HolderInv
  <2> SUFFICES ASSUME HolderInit
               PROVE  HolderInv
    OBVIOUS
  <2> USE HolderSizes
  <2>1. HolderTyped /\ ReadingsAge
    BY DEF HolderInit, HolderTyped, ThreadsTyped, AnswerTyped, TruthTyped, ReadingsAge
  <2>2. TruthNow /\ KeptAge /\ FoundAge
    BY DEF HolderInit, TruthNow, KeptAge, FoundAge, Found
  <2> QED
    BY <2>1, <2>2 DEF HolderInv
<1>2. HolderInv /\ [HolderNext]_holderVars => HolderInv'
  BY ThreadKeepsHolder, WorldKeepsHolder DEF HolderNext
<1> QED
  BY <1>1, <1>2, PTL DEF HolderSpec

\* However many threads ask, and whatever is stored, refreshed and set back
\* between, what holder answers was so no longer ago than it may be.
THEOREM AnswersInTime == HolderSpec => []AnswersAge
<1>1. HolderInv => AnswersAge
  BY DEF HolderInv, FoundAge, Found, AnswersAge
<1> QED
  BY <1>1, HolderInvariant, PTL

-------------------------------------------------------------------------------

VadTyped ==
    /\ at \in [Unpackers -> {"out", "opening", "copying", "renaming", "listing", "sweeping", "path"}]
    /\ fd \in [Unpackers -> 0..Inodes] /\ copied \in [Unpackers -> 0..Units]
    /\ names \in [Names -> 0..Inodes]
    /\ units \in [0..Inodes -> SUBSET All]
    /\ made \in Nat
    /\ todo \in [Unpackers -> SUBSET Names]
    /\ shared \in SUBSET (1..Inodes)

\* FILE and .part are never links to one file, and no inode is made twice.
Linked ==
    /\ names["file"] # 0 => names["file"] # names["part"]
    /\ \A n \in Names : names[n] <= made

\* Nobody writes but the threads that copy.
OneWriting ==
    \A u \in Unpackers : IF at[u] = "copying" THEN fd[u] # 0 ELSE fd[u] = 0

\* The thread that truncated a shared file last is either lost, or still there
\* with all it has copied since in the file, or has copied the whole of it.
SharedWhole ==
    \A f \in shared :
        \/ f \in torn
        \/ units[f] = All
        \/ \E u \in Unpackers : fd[u] = f /\ 1..copied[u] \subseteq units[f]

\* A file that is not shared holds what its one writer has copied; .part is
\* that file, or one that was opened later; it is whole when it is renamed.
OwnWhole ==
    \A u \in Unpackers :
        /\ at[u] = "copying" =>
             /\ fd[u] \in shared \/ 1..copied[u] \subseteq units[fd[u]]
             /\ names["part"] \in shared \cup {0, fd[u]}
        /\ at[u] = "renaming" =>
             names["part"] \in shared \cup {0} \/ units[names["part"]] = All

\* Once FILE is there it stays; it is there whenever it is needed.
FileThere ==
    /\ names["file"] # 0 => names["file"] \in shared \/ units[names["file"]] = All
    /\ \A u \in Unpackers :
         /\ at[u] \in {"listing", "sweeping", "path"} => names["file"] # 0
         /\ at[u] \in {"copying", "renaming"} => names["part"] # 0 \/ names["file"] # 0

VadInv == VadTyped /\ Linked /\ OneWriting /\ SharedWhole /\ OwnWhole /\ FileThere

\* The sizes are numbers, and the names are three.
LEMMA VadSizes ==
    /\ Units \in Nat \ {0} /\ Inodes \in Nat \ {0} /\ All = 1..Units
    /\ Names = {"file", "part", "old"}
BY VadAssumption DEF All, Names

\* A thread that goes from one place where it neither writes nor renames to
\* another leaves all as it was.
LEMMA WalkKeepsVad ==
    ASSUME VadInv, NEW u \in Unpackers, at[u] \notin {"copying", "renaming"},
           NEW to \in {"out", "opening", "listing", "sweeping", "path"},
           at' = [at EXCEPT ![u] = to],
           to \in {"listing", "sweeping", "path"} => names["file"] # 0,
           todo' \in [Unpackers -> SUBSET Names],
           UNCHANGED <<fd, copied, names, units, made, shared, torn>>
    PROVE  VadInv'
<1>1. VadTyped /\ Linked /\ OneWriting /\ SharedWhole /\ OwnWhole /\ FileThere
  BY DEF VadInv
<1>2. VadTyped'
  BY <1>1 DEF VadTyped
<1>3. \A v \in Unpackers : at'[v] = IF v = u THEN to ELSE at[v]
  BY <1>1 DEF VadTyped
<1>4. Linked' /\ SharedWhole'
  BY <1>1 DEF Linked, SharedWhole
<1>5. OneWriting'
  BY <1>1, <1>3 DEF OneWriting
<1>6. OwnWhole'
  BY <1>1, <1>3 DEF OwnWhole
<1>7. FileThere'
  BY <1>1, <1>3 DEF FileThere
<1> QED
  BY <1>2, <1>4, <1>5, <1>6, <1>7 DEF VadInv

\* Opening .part for writing: the thread is the last to have truncated it.
LEMMA OpenKeepsVad ==
    ASSUME VadInv, NEW u \in Unpackers, Open(u)
    PROVE  VadInv'
<1> DEFINE f == IF names["part"] = 0 THEN made + 1 ELSE names["part"]
           others == \E v \in Unpackers \ {u} : at[v] \in {"copying", "renaming"}
<1>1. VadTyped /\ Linked /\ OneWriting /\ SharedWhole /\ OwnWhole /\ FileThere
  BY DEF VadInv
<1>2. /\ at[u] = "opening" /\ at' = [at EXCEPT ![u] = "copying"]
      /\ f <= Inodes
      /\ made' = IF f > made THEN f ELSE made
      /\ names' = [names EXCEPT !["part"] = f]
      /\ units' = [units EXCEPT ![f] = {}]
      /\ fd' = [fd EXCEPT ![u] = f]
      /\ copied' = [copied EXCEPT ![u] = 0]
      /\ shared' = IF others THEN shared \cup {f} ELSE shared
      /\ UNCHANGED <<todo, torn>>
  BY DEF Open, Moves, Target
<1>3. /\ {names["part"], names["file"], names["old"]} \subseteq 0..Inodes /\ made \in Nat
      /\ names["part"] <= made /\ names["file"] <= made /\ names["old"] <= made
      /\ names["file"] # 0 => names["file"] # names["part"]
  BY <1>1, VadSizes DEF VadTyped, Linked
<1>4. f \in 1..Inodes /\ f \in 0..Inodes /\ f # names["file"] /\ f <= made' /\ made <= made' /\ made' \in Nat
  BY <1>2, <1>3, VadSizes
<1> HIDE DEF f, others
<1>5. names'["part"] = f /\ names'["file"] = names["file"] /\ names'["old"] = names["old"]
  BY <1>1, <1>2, VadSizes DEF VadTyped
<1>6. \A g \in 0..Inodes : units'[g] = IF g = f THEN {} ELSE units[g]
  BY <1>1, <1>2, <1>4 DEF VadTyped
<1>7. \A v \in Unpackers :
        /\ at'[v] = IF v = u THEN "copying" ELSE at[v]
        /\ fd'[v] = IF v = u THEN f ELSE fd[v]
        /\ copied'[v] = IF v = u THEN 0 ELSE copied[v]
  BY <1>1, <1>2 DEF VadTyped
<1>8. VadTyped'
  <2>1. shared' \in SUBSET (1..Inodes)
    BY <1>1, <1>2, <1>4 DEF VadTyped
  <2>2. names' \in [Names -> 0..Inodes] /\ units' \in [0..Inodes -> SUBSET All]
    BY <1>1, <1>2, <1>4 DEF VadTyped
  <2>3. fd' \in [Unpackers -> 0..Inodes] /\ copied' \in [Unpackers -> 0..Units]
    BY <1>1, <1>2, <1>4, VadSizes DEF VadTyped
  <2>4. /\ at' \in [Unpackers -> {"out", "opening", "copying", "renaming", "listing", "sweeping", "path"}]
        /\ todo' \in [Unpackers -> SUBSET Names]
    BY <1>1, <1>2 DEF VadTyped
  <2> QED
    BY <1>4, <2>1, <2>2, <2>3, <2>4 DEF VadTyped
<1>9. Linked'
  <2>1. names'["file"] <= made' /\ names'["part"] <= made' /\ names'["old"] <= made'
    BY <1>3, <1>4, <1>5
  <2>2. \A n \in Names : names'[n] <= made'
    BY <2>1, VadSizes
  <2> QED
    BY <1>4, <1>5, <2>2 DEF Linked
<1>10. OneWriting'
  BY <1>1, <1>4, <1>7 DEF OneWriting
<1>11. SharedWhole'
  <2> SUFFICES ASSUME NEW g \in shared', g \notin torn
               PROVE  units'[g] = All \/ \E v \in Unpackers : fd'[v] = g /\ 1..copied'[v] \subseteq units'[g]
    BY <1>2 DEF SharedWhole
  <2>1. CASE g = f
    <3>1. fd'[u] = g /\ 1..copied'[u] = {}
      BY <1>7, <2>1
    <3> QED
      BY <3>1
  <2>2. CASE g # f
    <3>1. g \in shared /\ g \in 1..Inodes /\ units'[g] = units[g]
      BY <1>1, <1>2, <1>6, <2>2 DEF VadTyped
    <3>2. fd[u] # g
      BY <1>1, <1>2, <3>1 DEF OneWriting
    <3> QED
      BY <1>1, <1>7, <3>1, <3>2 DEF SharedWhole
  <2> QED
    BY <2>1, <2>2
<1>12. OwnWhole'
  <2> SUFFICES ASSUME NEW v \in Unpackers
               PROVE  /\ at'[v] = "copying" =>
                           /\ fd'[v] \in shared' \/ 1..copied'[v] \subseteq units'[fd'[v]]
                           /\ names'["part"] \in shared' \cup {0, fd'[v]}
                      /\ at'[v] = "renaming" =>
                           names'["part"] \in shared' \cup {0} \/ units'[names'["part"]] = All
    BY DEF OwnWhole
  <2>1. CASE v = u
    <3>1. at'[v] = "copying" /\ fd'[v] = f /\ 1..copied'[v] = {}
      BY <1>7, <2>1
    <3> QED
      BY <1>5, <3>1
  <2>2. CASE v # u
    <3>1. at'[v] = at[v] /\ fd'[v] = fd[v] /\ copied'[v] = copied[v]
      BY <1>7, <2>2
    <3>2. at[v] \in {"copying", "renaming"} => f \in shared'
      BY <1>2, <2>2 DEF others
    <3>3. at[v] = "copying" => fd[v] \in shared \/ 1..copied[v] \subseteq units[fd[v]]
      BY <1>1 DEF OwnWhole
    <3>4. fd[v] \in 0..Inodes /\ shared \subseteq shared'
      BY <1>1, <1>2 DEF VadTyped
    <3> QED
      BY <1>5, <1>6, <3>1, <3>2, <3>3, <3>4
  <2> QED
    BY <2>1, <2>2
<1>13. FileThere'
  <2>1. names["file"] # 0 => names["file"] \in shared \/ units[names["file"]] = All
    BY <1>1 DEF FileThere
  <2>2. names'["file"] # 0 => names'["file"] \in shared' \/ units'[names'["file"]] = All
    BY <1>2, <1>3, <1>4, <1>5, <1>6, <2>1
  <2>3. \A v \in Unpackers :
          /\ at'[v] \in {"listing", "sweeping", "path"} => names'["file"] # 0
          /\ at'[v] \in {"copying", "renaming"} => names'["part"] # 0 \/ names'["file"] # 0
    BY <1>1, <1>4, <1>5, <1>7 DEF FileThere
  <2> QED
    BY <2>2, <2>3 DEF FileThere
<1> QED
  BY <1>8, <1>9, <1>10, <1>11, <1>12, <1>13 DEF VadInv

\* Copying one unit more.
LEMMA CopyKeepsVad ==
    ASSUME VadInv, NEW u \in Unpackers, Copy(u)
    PROVE  VadInv'
<1>1. VadTyped /\ Linked /\ OneWriting /\ SharedWhole /\ OwnWhole /\ FileThere
  BY DEF VadInv
<1> DEFINE n == copied[u] + 1
           f == fd[u]
<1>2. /\ at[u] = "copying" /\ copied[u] < Units
      /\ copied' = [copied EXCEPT ![u] = n]
      /\ units' = [units EXCEPT ![f] = @ \cup {n}]
      /\ UNCHANGED <<at, fd, names, made, todo, shared, torn>>
  BY DEF Copy
<1>3. copied[u] \in 0..Units /\ n \in 1..Units /\ n \in 0..Units /\ n \in All /\ f \in 0..Inodes
  BY <1>1, <1>2, VadSizes DEF VadTyped
<1>4. 1..n = 1..copied[u] \cup {n}
  BY <1>3
<1> HIDE DEF n, f
<1>5. \A g \in 0..Inodes :
        /\ units'[g] = IF g = f THEN units[g] \cup {n} ELSE units[g]
        /\ units[g] \subseteq All
  BY <1>1, <1>2, <1>3 DEF VadTyped
<1>6. \A v \in Unpackers : copied'[v] = IF v = u THEN n ELSE copied[v]
  BY <1>1, <1>2 DEF VadTyped
<1>7. VadTyped'
  <2>1. units' \in [0..Inodes -> SUBSET All]
    BY <1>1, <1>2, <1>3 DEF VadTyped
  <2>2. copied' \in [Unpackers -> 0..Units]
    BY <1>1, <1>2, <1>3 DEF VadTyped
  <2> QED
    BY <1>1, <1>2, <2>1, <2>2 DEF VadTyped
<1>8. Linked' /\ OneWriting'
  BY <1>1, <1>2 DEF Linked, OneWriting
<1>9. \A g \in 0..Inodes : units[g] = All => units'[g] = All
  BY <1>3, <1>5
<1>10. \A v \in Unpackers :
         fd[v] \in 0..Inodes /\ (1..copied[v] \subseteq units[fd[v]] => 1..copied'[v] \subseteq units'[fd[v]])
  <2> SUFFICES ASSUME NEW v \in Unpackers
               PROVE  fd[v] \in 0..Inodes /\ (1..copied[v] \subseteq units[fd[v]] => 1..copied'[v] \subseteq units'[fd[v]])
    OBVIOUS
  <2>1. fd[v] \in 0..Inodes
    BY <1>1 DEF VadTyped
  <2>2. units[fd[v]] \subseteq units'[fd[v]]
    BY <1>5, <2>1
  <2>3. CASE v = u
    BY <1>4, <1>5, <1>6, <2>1, <2>3 DEF f
  <2>4. CASE v # u
    BY <1>6, <2>1, <2>2, <2>4
  <2> QED
    BY <2>1, <2>3, <2>4
<1>11. SharedWhole'
  <2> SUFFICES ASSUME NEW g \in shared, g \notin torn
               PROVE  units'[g] = All \/ \E v \in Unpackers : fd[v] = g /\ 1..copied'[v] \subseteq units'[g]
    BY <1>2 DEF SharedWhole
  <2>1. g \in 0..Inodes
    BY <1>1 DEF VadTyped
  <2>2. units[g] = All \/ \E v \in Unpackers : fd[v] = g /\ 1..copied[v] \subseteq units[g]
    BY <1>1 DEF SharedWhole
  <2> QED
    BY <1>9, <1>10, <2>1, <2>2
<1>12. names["part"] \in 0..Inodes /\ names["file"] \in 0..Inodes
  BY <1>1, VadSizes DEF VadTyped
<1>13. OwnWhole'
  BY <1>1, <1>2, <1>9, <1>10, <1>12 DEF OwnWhole
<1>14. FileThere'
  BY <1>1, <1>2, <1>9, <1>12 DEF FileThere
<1> QED
  BY <1>7, <1>8, <1>11, <1>13, <1>14 DEF VadInv

\* Closing what has been copied.
LEMMA CloseKeepsVad ==
    ASSUME VadInv, NEW u \in Unpackers, Close(u)
    PROVE  VadInv'
<1>1. VadTyped /\ Linked /\ OneWriting /\ SharedWhole /\ OwnWhole /\ FileThere
  BY DEF VadInv
<1>2. /\ copied[u] = Units /\ at[u] = "copying"
      /\ at' = [at EXCEPT ![u] = "renaming"]
      /\ fd' = [fd EXCEPT ![u] = 0]
      /\ copied' = [copied EXCEPT ![u] = 0]
      /\ UNCHANGED <<names, units, made, todo, shared, torn>>
  BY DEF Close, Moves
<1>3. \A v \in Unpackers :
        /\ at'[v] = IF v = u THEN "renaming" ELSE at[v]
        /\ fd'[v] = IF v = u THEN 0 ELSE fd[v]
        /\ copied'[v] = IF v = u THEN 0 ELSE copied[v]
  BY <1>1, <1>2 DEF VadTyped
<1>4. VadTyped'
  BY <1>1, <1>2, VadSizes DEF VadTyped
<1>5. \A g \in 0..Inodes : 1..copied[u] \subseteq units[g] => units[g] = All
  BY <1>1, <1>2, VadSizes DEF VadTyped
<1>6. Linked'
  BY <1>1, <1>2 DEF Linked
<1>7. OneWriting'
  BY <1>1, <1>3 DEF OneWriting
<1>8. SharedWhole'
  <2> SUFFICES ASSUME NEW g \in shared, g \notin torn
               PROVE  units[g] = All \/ \E v \in Unpackers : fd'[v] = g /\ 1..copied'[v] \subseteq units[g]
    BY <1>2 DEF SharedWhole
  <2>1. g \in 0..Inodes /\ (units[g] = All \/ \E v \in Unpackers : fd[v] = g /\ 1..copied[v] \subseteq units[g])
    BY <1>1 DEF SharedWhole, VadTyped
  <2> QED
    BY <1>3, <1>5, <2>1
<1>9. OwnWhole'
  <2> SUFFICES ASSUME NEW v \in Unpackers
               PROVE  /\ at'[v] = "copying" =>
                           /\ fd'[v] \in shared \/ 1..copied'[v] \subseteq units[fd'[v]]
                           /\ names["part"] \in shared \cup {0, fd'[v]}
                      /\ at'[v] = "renaming" =>
                           names["part"] \in shared \cup {0} \/ units[names["part"]] = All
    BY <1>2 DEF OwnWhole
  <2>1. CASE v = u
    <3>1. /\ fd[u] \in shared \/ 1..copied[u] \subseteq units[fd[u]]
          /\ names["part"] \in shared \cup {0, fd[u]}
          /\ fd[u] \in 0..Inodes
      BY <1>1, <1>2 DEF OwnWhole, VadTyped
    <3> QED
      BY <1>3, <1>5, <2>1, <3>1
  <2>2. CASE v # u
    BY <1>1, <1>3, <2>2 DEF OwnWhole
  <2> QED
    BY <2>1, <2>2
<1>10. FileThere'
  BY <1>1, <1>2, <1>3 DEF FileThere
<1> QED
  BY <1>4, <1>6, <1>7, <1>8, <1>9, <1>10 DEF VadInv

\* Renaming .part, when there is one.
LEMMA RenameKeepsVad ==
    ASSUME VadInv, NEW u \in Unpackers, Rename(u)
    PROVE  VadInv'
<1>1. VadTyped /\ Linked /\ OneWriting /\ SharedWhole /\ OwnWhole /\ FileThere
  BY DEF VadInv
<1>2. /\ at[u] = "renaming" /\ at' = [at EXCEPT ![u] = "listing"]
      /\ names' = IF names["part"] = 0 THEN names
                  ELSE [names EXCEPT !["file"] = names["part"], !["part"] = 0]
      /\ UNCHANGED <<fd, copied, units, made, todo, shared, torn>>
  BY DEF Rename, Moves
<1>3. \A v \in Unpackers : at'[v] = IF v = u THEN "listing" ELSE at[v]
  BY <1>1, <1>2 DEF VadTyped
<1>4. /\ names["part"] \in 0..Inodes /\ names["file"] \in 0..Inodes /\ made \in Nat
      /\ names["part"] <= made /\ names["file"] <= made /\ names["old"] <= made
  BY <1>1, VadSizes DEF VadTyped, Linked
<1>5. /\ names'["file"] = IF names["part"] = 0 THEN names["file"] ELSE names["part"]
      /\ names'["part"] = 0
      /\ names'["old"] = names["old"]
  BY <1>1, <1>2, VadSizes DEF VadTyped
<1>6. names["part"] # 0 \/ names["file"] # 0
  BY <1>1, <1>2 DEF FileThere
<1>7. names["part"] \in shared \cup {0} \/ units[names["part"]] = All
  BY <1>1, <1>2 DEF OwnWhole
<1>8. VadTyped'
  <2>1. names' \in [Names -> 0..Inodes]
    <3> DEFINE T == 0..Inodes
    <3>1. names \in [Names -> T] /\ 0 \in T /\ names["part"] \in T
      BY <1>1, <1>4, VadSizes DEF VadTyped
    <3> HIDE DEF T
    <3>2. names' \in [Names -> T]
      BY <1>2, <3>1
    <3> QED
      BY <3>2 DEF T
  <2> QED
    BY <1>1, <1>2, <2>1 DEF VadTyped
<1>9. Linked'
  BY <1>2, <1>4, <1>5, VadSizes DEF Linked
<1>10. OneWriting' /\ SharedWhole'
  BY <1>1, <1>2, <1>3 DEF OneWriting, SharedWhole
<1>11. OwnWhole'
  BY <1>1, <1>2, <1>3, <1>5 DEF OwnWhole
<1>12. FileThere'
  <2>1. names'["file"] # 0 => names'["file"] \in shared \/ units[names'["file"]] = All
    BY <1>1, <1>5, <1>7 DEF FileThere
  <2>2. names'["file"] # 0
    BY <1>5, <1>6
  <2> QED
    BY <1>2, <2>1, <2>2 DEF FileThere
<1> QED
  BY <1>8, <1>9, <1>10, <1>11, <1>12 DEF VadInv

\* Sweeping a name away: never FILE.
LEMMA SweepKeepsVad ==
    ASSUME VadInv, NEW u \in Unpackers, Sweep(u)
    PROVE  VadInv'
<1>1. VadTyped /\ Linked /\ OneWriting /\ SharedWhole /\ OwnWhole /\ FileThere
  BY DEF VadInv
<1>2. PICK n \in todo[u] :
        /\ todo' = [todo EXCEPT ![u] = @ \ {n}]
        /\ names' = IF n = "file" THEN names ELSE [names EXCEPT ![n] = 0]
  BY DEF Sweep, Spared
<1>3. at[u] = "sweeping" /\ UNCHANGED <<at, fd, copied, units, made, shared, torn>>
  BY DEF Sweep
<1>4. names["file"] # 0
  BY <1>1, <1>3 DEF FileThere
<1>5. names["part"] \in 0..Inodes /\ made \in Nat /\ \A m \in Names : names[m] <= made
  BY <1>1, VadSizes DEF VadTyped, Linked
<1>6. /\ names'["file"] = names["file"]
      /\ names'["part"] \in {0, names["part"]}
      /\ \A m \in Names : names'[m] \in {0, names[m]}
  BY <1>1, <1>2, VadSizes DEF VadTyped
<1>7. VadTyped'
  <2>1. names' \in [Names -> 0..Inodes]
    <3> DEFINE T == 0..Inodes
    <3>1. names \in [Names -> T] /\ 0 \in T
      BY <1>1, VadSizes DEF VadTyped
    <3> HIDE DEF T
    <3>2. names' \in [Names -> T]
      BY <1>2, <3>1
    <3> QED
      BY <3>2 DEF T
  <2>2. todo' \in [Unpackers -> SUBSET Names]
    BY <1>1, <1>2 DEF VadTyped
  <2> QED
    BY <1>1, <1>3, <2>1, <2>2 DEF VadTyped
<1>8. Linked'
  BY <1>1, <1>3, <1>5, <1>6 DEF Linked
<1>9. OneWriting' /\ SharedWhole'
  BY <1>1, <1>3 DEF OneWriting, SharedWhole
<1>10. OwnWhole'
  BY <1>1, <1>3, <1>6 DEF OwnWhole
<1>11. FileThere'
  BY <1>1, <1>3, <1>4, <1>6 DEF FileThere
<1> QED
  BY <1>7, <1>8, <1>9, <1>10, <1>11 DEF VadInv

\* Threads that fail or are killed: what they shared is torn.
LEMMA LoseKeepsVad ==
    ASSUME VadInv, NEW gone \in SUBSET Unpackers, Lose(gone)
    PROVE  VadInv'
<1>1. VadTyped /\ Linked /\ OneWriting /\ SharedWhole /\ OwnWhole /\ FileThere
  BY DEF VadInv
<1>2. \A v \in Unpackers :
        /\ at'[v] = IF v \in gone THEN "out" ELSE at[v]
        /\ fd'[v] = IF v \in gone THEN 0 ELSE fd[v]
        /\ copied'[v] = IF v \in gone THEN 0 ELSE copied[v]
  BY DEF Lose
<1>3. /\ torn' = torn \cup (shared \cap {fd[v] : v \in gone})
      /\ UNCHANGED <<names, units, made, shared>>
  BY DEF Lose
<1>4. VadTyped'
  BY <1>1, VadSizes DEF Lose, VadTyped
<1>5. Linked'
  BY <1>1, <1>3 DEF Linked
<1>6. OneWriting'
  BY <1>1, <1>2 DEF OneWriting
<1>7. SharedWhole'
  <2> SUFFICES ASSUME NEW g \in shared, g \notin torn'
               PROVE  units[g] = All \/ \E v \in Unpackers : fd'[v] = g /\ 1..copied'[v] \subseteq units[g]
    BY <1>3 DEF SharedWhole
  <2>1. g \notin torn /\ \A v \in gone : fd[v] # g
    BY <1>3
  <2>2. CASE units[g] = All
    BY <2>2
  <2>3. CASE \E v \in Unpackers : fd[v] = g /\ 1..copied[v] \subseteq units[g]
    <3>1. PICK v \in Unpackers : fd[v] = g /\ 1..copied[v] \subseteq units[g]
      BY <2>3
    <3>2. fd'[v] = g /\ copied'[v] = copied[v]
      BY <1>2, <2>1, <3>1
    <3> QED
      BY <3>1, <3>2
  <2> QED
    BY <1>1, <2>1, <2>2, <2>3 DEF SharedWhole
<1>8. OwnWhole'
  BY <1>1, <1>2, <1>3 DEF OwnWhole
<1>9. FileThere'
  BY <1>1, <1>2, <1>3 DEF FileThere
<1> QED
  BY <1>4, <1>5, <1>6, <1>7, <1>8, <1>9 DEF VadInv

\* The inductive invariant holds at every step of the unpacking.
THEOREM VadInvariant == VadSpec => []VadInv
<1>1. VadInit => VadInv
  <2> SUFFICES ASSUME VadInit
               PROVE  VadInv
    OBVIOUS
  <2>1. VadTyped
    BY VadSizes DEF VadInit, VadTyped
  <2>2. names["file"] = 0 /\ names["part"] = 0 /\ names["old"] = 1
    BY VadSizes DEF VadInit
  <2>3. Linked
    BY <2>2, VadSizes DEF VadInit, Linked
  <2>4. OneWriting /\ SharedWhole /\ OwnWhole /\ FileThere
    BY <2>2 DEF VadInit, OneWriting, SharedWhole, OwnWhole, FileThere
  <2> QED
    BY <2>1, <2>3, <2>4 DEF VadInv
<1>2. VadInv /\ [VadNext]_vadVars => VadInv'
  <2> SUFFICES ASSUME VadInv, [VadNext]_vadVars
               PROVE  VadInv'
    OBVIOUS
  <2>1. VadTyped /\ FileThere
    BY DEF VadInv
  <2>2. ASSUME NEW u \in Unpackers, Ask(u) \/ List(u) \/ Swept(u) \/ Leave(u)
        PROVE  VadInv'
    <3>1. \A S : todo' = [todo EXCEPT ![u] = S] /\ S \subseteq Names => todo' \in [Unpackers -> SUBSET Names]
      BY <2>1 DEF VadTyped
    <3>2. CASE Ask(u)
      BY <2>1, <3>2, WalkKeepsVad DEF Ask, Moves, VadTyped
    <3>3. CASE List(u)
      <4>1. todo' \in [Unpackers -> SUBSET Names]
        BY <3>1, <3>3 DEF List
      <4> QED
        BY <2>1, <3>3, <4>1, WalkKeepsVad DEF List, Moves, FileThere
    <3>4. CASE Swept(u)
      BY <2>1, <3>4, WalkKeepsVad DEF Swept, Moves, VadTyped, FileThere
    <3>5. CASE Leave(u)
      BY <2>1, <3>5, WalkKeepsVad DEF Leave, Moves, VadTyped
    <3> QED
      BY <2>2, <3>2, <3>3, <3>4, <3>5
  <2>3. ASSUME NEW u \in Unpackers, Open(u) \/ Copy(u) \/ Close(u) \/ Rename(u) \/ Sweep(u)
        PROVE  VadInv'
    BY <2>3, OpenKeepsVad, CopyKeepsVad, CloseKeepsVad, RenameKeepsVad, SweepKeepsVad
  <2>4. CASE Kill \/ \E u \in Unpackers : Fail(u)
    BY <2>4, LoseKeepsVad DEF Kill, Fail
  <2>5. CASE UNCHANGED vadVars
    BY <2>5 DEF vadVars, VadInv, VadTyped, Linked, OneWriting, SharedWhole, OwnWhole, FileThere
  <2> QED
    BY <2>2, <2>3, <2>4, <2>5 DEF VadNext
<1> QED
  BY <1>1, <1>2, PTL DEF VadSpec

\* However many threads unpack the detector at once, and whatever is killed or
\* fails, the path is that of a whole one, but for a shared file still being
\* written or torn.
THEOREM PathWhole == VadSpec => []PathIsWhole
<1>1. VadInv => PathIsWhole
  <2> SUFFICES ASSUME VadInv, NEW u \in Unpackers, at[u] = "path"
               PROVE  /\ names["file"] # 0
                      /\ \/ units[names["file"]] = All
                         \/ /\ names["file"] \in shared
                            /\ Writers(names["file"]) # {} \/ names["file"] \in torn
    BY DEF PathIsWhole
  <2>1. names["file"] # 0 /\ (names["file"] \in shared \/ units[names["file"]] = All)
    BY DEF VadInv, FileThere
  <2> QED
    BY <2>1 DEF VadInv, SharedWhole, Writers
<1> QED
  BY <1>1, VadInvariant, PTL

===============================================================================
