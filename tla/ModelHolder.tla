---------------------------- MODULE ModelHolder ----------------------------
(***************************************************************************)
(* ModelFiles.holder and refresh (share/ModelFiles.kt): who holds a model  *)
(* that is not here, asked of the siblings in order and remembered for     *)
(* CACHE_MS on the wall clock.                                             *)
(*                                                                         *)
(* One name.  Times are differences to the clock as it is: the age of the  *)
(* answer kept, and of the clock reading each thread took.  Both grow with *)
(* Tick and shrink when the clock is set back.  had and lacked are how     *)
(* long ago, in real time, a sibling last held the model and last did not. *)
(***************************************************************************)
EXTENDS Integers

CONSTANTS
    Threads,
    Siblings,   \* how many of SIBLINGS are not this app, asked as 1, 2, ..
    CacheMs,    \* CACHE_MS
    MaxLag,     \* bound on the time one call of holder takes
    MaxBack     \* bound on how far the clock is set back in all

ASSUME HolderAssumption ==
    /\ {Siblings, CacheMs} \subseteq Nat \ {0}
    /\ {MaxLag, MaxBack} \subseteq Nat

VARIABLES
    step,       \* where thread t is in holder
    read,       \* the clock now, less the reading of t
    lag,        \* real time since that reading
    next,       \* the sibling t asks next; Siblings + 1 is nobody
    cached,     \* the answer in the cache, 0 when there is none
    age,        \* the clock now, less the time of that answer
    holds,      \* the siblings that hold the model, and answer
    had,        \* real time since sibling s held the model
    lacked,     \* real time since it did not
    back        \* how far the clock has been set back

truth == <<holds, had, lacked, back>>
holderVars == <<step, read, lag, next, cached, age, truth>>

Nobody == Siblings + 1

\* Past Old nothing is told apart: no answer of that age is given any more.
Old == CacheMs + MaxLag + MaxBack

HolderInit ==
    /\ step = [t \in Threads |-> "out"]
    /\ read = [t \in Threads |-> 0]
    /\ lag = [t \in Threads |-> 0]
    /\ next = [t \in Threads |-> Nobody]
    /\ cached = 0
    /\ age = 0
    /\ holds = {}
    /\ had = [s \in 1..Siblings |-> Old]
    /\ lacked = [s \in 1..Siblings |-> 0]
    /\ back = 0

Goes(t, from, to) == step[t] = from /\ step' = [step EXCEPT ![t] = to]

\* The model is here, which ends the call, or the clock is read.
ReadClock(t) ==
    /\ Goes(t, "out", "looking")
    /\ read' = [read EXCEPT ![t] = 0]
    /\ lag' = [lag EXCEPT ![t] = 0]
    /\ UNCHANGED <<next, cached, age, truth>>

\* now - at < CACHE_MS, with the thread's own now.
Valid(t) == cached # 0 /\ age - read[t] < CacheMs

LookUp(t) ==
    /\ IF Valid(t)
       THEN Goes(t, "looking", "recalled") /\ next' = [next EXCEPT ![t] = cached]
       ELSE Goes(t, "looking", "asking") /\ next' = [next EXCEPT ![t] = 1]
    /\ UNCHANGED <<read, lag, cached, age, truth>>

Exhausted(t) == next[t] = Nobody

\* One sibling after the other, outside the lock, until one holds it.
Query(t) ==
    /\ step[t] = "asking"
    /\ IF ~Exhausted(t) /\ next[t] \notin holds
       THEN next' = [next EXCEPT ![t] = @ + 1] /\ UNCHANGED step
       ELSE step' = [step EXCEPT ![t] = "storing"] /\ UNCHANGED next
    /\ UNCHANGED <<read, lag, cached, age, truth>>

\* Variant: the answer is dated when it is stored.
Dated_AtStore(t) == 0

\* The answer is dated before the siblings were asked.
Dated(t) == read[t]

Store(t) ==
    /\ Goes(t, "storing", "asked")
    /\ cached' = next[t]
    /\ age' = Dated(t)
    /\ UNCHANGED <<read, lag, next, truth>>

Return(t) ==
    /\ step[t] \in {"recalled", "asked"}
    /\ step' = [step EXCEPT ![t] = "out"]
    /\ read' = [read EXCEPT ![t] = 0]
    /\ lag' = [lag EXCEPT ![t] = 0]
    /\ next' = [next EXCEPT ![t] = Nobody]
    /\ UNCHANGED <<cached, age, truth>>

\* After a download or a removal here.
Refresh ==
    /\ cached' = 0
    /\ age' = 0
    /\ UNCHANGED <<step, read, lag, next, truth>>

\* Another app downloads the model, removes it, or stops or starts answering.
Change(s) ==
    /\ holds' = IF s \in holds THEN holds \ {s} ELSE holds \cup {s}
    /\ IF s \in holds
       THEN lacked' = [lacked EXCEPT ![s] = 0] /\ UNCHANGED had
       ELSE had' = [had EXCEPT ![s] = 0] /\ UNCHANGED lacked
    /\ UNCHANGED <<step, read, lag, next, cached, age, back>>

Later(d) == IF d < Old THEN d + 1 ELSE Old

Running(t) == step[t] # "out"

Tick ==
    /\ \A t \in Threads : Running(t) => lag[t] < MaxLag
    /\ read' = [t \in Threads |-> read[t] + (IF Running(t) THEN 1 ELSE 0)]
    /\ lag' = [t \in Threads |-> lag[t] + (IF Running(t) THEN 1 ELSE 0)]
    /\ age' = IF cached = 0 THEN 0 ELSE Later(age)
    /\ had' = [s \in 1..Siblings |-> IF s \in holds THEN 0 ELSE Later(had[s])]
    /\ lacked' = [s \in 1..Siblings |-> IF s \notin holds THEN 0 ELSE Later(lacked[s])]
    /\ UNCHANGED <<step, next, cached, holds, back>>

\* The user, or the network, sets the clock back by one.
SetBack ==
    /\ back < MaxBack
    /\ back' = back + 1
    /\ read' = [t \in Threads |-> read[t] - (IF Running(t) THEN 1 ELSE 0)]
    /\ age' = IF cached = 0 THEN 0 ELSE age - 1
    /\ UNCHANGED <<step, lag, next, cached, holds, had, lacked>>

HolderNext ==
    \/ \E t \in Threads :
         ReadClock(t) \/ LookUp(t) \/ Query(t) \/ Store(t) \/ Return(t)
    \/ \E s \in 1..Siblings : Change(s)
    \/ Refresh \/ Tick \/ SetBack

HolderSpec == HolderInit /\ [][HolderNext]_holderVars

-------------------------------------------------------------------------------
(* Properties.                                                               *)

\* The sibling named held the model no more than d ago, and those asked before
\* it did not.
TrueWithin(s, d) ==
    /\ s # Nobody => had[s] <= d
    /\ \A r \in 1..(s - 1) : lacked[r] <= d

\* What holder answers was so while the call ran, or, remembered, less than
\* CACHE_MS before its clock was read, whoever stored it and after whatever
\* refresh, longer by no more than the clock has been set back.
AnswersAge ==
    \A t \in Threads :
        /\ step[t] = "asked" => TrueWithin(next[t], lag[t])
        /\ step[t] = "recalled" => TrueWithin(next[t], CacheMs - 1 + lag[t] + back)
=============================================================================
