----------------------------- MODULE CronProofs -----------------------------
(***************************************************************************)
(* Proofs about the cron scheduler: memory agrees with the store, no round *)
(* is fired twice, and the scheduler stays awake.                          *)
(*                                                                         *)
(* The invariant says what the calls in the queue are about to set: times  *)
(* ahead of every round that was fired, each touch that of the one fire of *)
(* its job, and none behind a call that sets what it has fired.            *)
(***************************************************************************)
EXTENDS Cron, CountingTheorems, SequenceTheorems

-----------------------------------------------------------------------------
(* Cron: the invariant *)

CallRecords ==
    [op : {"create", "patch"}, job : Jobs, next : Nat]
        \union [op : {"delete"}, job : Jobs]
        \union [op : {"find", "flag"}, job : Jobs, on : BOOLEAN]
        \union [op : {"read"}, job : Jobs, enable : BOOLEAN]
        \union [op : {"touch"}, job : Jobs, next : Nat, round : Nat \union {-1}]
        \union [op : {"advance"}, job : Jobs, next : Nat, by : {"start", "tick", "enable"}]
Entries == [job : Jobs, round : Nat]
Fires   == {"none", "touch", "run"}

TickTypes(t) ==
    /\ t.pc \in {"idle", "wait", "again"} /\ t.again \in BOOLEAN
    /\ t = [pc |-> t.pc, todo |-> t.todo, at |-> t.at, again |-> t.again]
    /\ t.todo \in Seq(Entries) /\ t.at \in Nat

CallsTyped(s, u) ==
    s \in Seq(CallRecords) /\ \A c \in Range(s) : c.op = "create" => c.job \in u

CronTypes ==
    /\ now \in Nat /\ used \subseteq Jobs
    /\ rows \in [DOMAIN rows -> Records] /\ DOMAIN rows \subseteq used
    /\ mem \in [DOMAIN mem -> Records] /\ DOMAIN mem \subseteq used
    /\ phase \in {"down", "starting", "up", "stopped"}
    /\ timer \subseteq Nat /\ \A s, t \in timer : s = t
    /\ TickTypes(tick)
    /\ fire \in [Jobs -> Fires] /\ queued \subseteq QueueJobs
    /\ CallsTyped(calls, used)
    /\ rounds \in [Jobs -> Seq(Nat)]
    /\ stalled \in BOOLEAN

\* A process that is down has nothing under way, and only one that is up has a timer.
AtRest ==
    /\ phase = "down" => mem = None /\ tick = NoTick /\ calls = <<>> /\ fire = [j \in Jobs |-> "none"]
    /\ phase # "up" => timer = {}

\* Memory differs from the store only where a record is about to be read back.
Mirror ==
    phase # "down" =>
        /\ DOMAIN mem = DOMAIN rows
        /\ \A j \in DOMAIN rows : mem[j] # rows[j] =>
              \E c \in Range(calls) : c.op = "read" /\ c.job = j

Setters == {"create", "patch", "touch", "advance"}

\* No run is planned further ahead than a period, nor for a round that is over.
Timely(m) == \A j \in DOMAIN m : m[j].nextRun <= now + Period[j]
Ahead(m)  == \A j \in DOMAIN m : \A n \in DOMAIN rounds[j] : rounds[j][n] < m[j].nextRun

\* A call sets a time ahead of what has been fired, and a touch is that of the one fire
\* of its job, for a round that is later than those before.
Fits(c) ==
    /\ c.op \in Setters =>
         /\ c.next <= now + Period[c.job]
         /\ \A j \in Jobs : \A n \in DOMAIN rounds[j] : rounds[j][n] < c.next
    /\ c.op = "touch" =>
         /\ c.round <= now /\ c.round < c.next /\ fire[c.job] = "touch"
         /\ c.round # -1 => \A n \in DOMAIN rounds[c.job] : rounds[c.job][n] < c.round
    /\ c.op = "advance" => c.by # "tick" /\ (c.by = "start" => phase = "starting")

\* What a call sets is later than the rounds fired by the calls before it.
Precedes(b, c) ==
    b.op = "touch" =>
        /\ c.op \in Setters => b.round < c.next
        /\ c.op = "touch" => b.job # c.job

InOrder(s) == \A i, k \in DOMAIN s : i < k => Precedes(s[i], s[k])

RoundsOK ==
    /\ tick = NoTick
    /\ Timely(rows) /\ Timely(mem) /\ Ahead(rows) /\ Ahead(mem)
    /\ \A j \in Jobs : \A n \in DOMAIN rounds[j] : rounds[j][n] <= now
    /\ \A c \in Range(calls) : Fits(c)
    /\ InOrder(calls)
    /\ \A j \in Jobs : \A i \in 2..Len(rounds[j]) : rounds[j][i - 1] < rounds[j][i]

\* The timer stands for the nearest run, or something is under way that sets it.
Wakes ==
    phase = "up" => \/ timer = Armed(mem)
                    \/ \E j \in Jobs : fire[j] # "none"
                    \/ \E c \in Range(calls) : c.op = "advance"

\* All but the last hold whatever the periods are.
CronSteady == CronTypes /\ AtRest /\ Mirror /\ (~stalled => RoundsOK)
CronInv    == CronSteady /\ (~stalled => Wakes)

-----------------------------------------------------------------------------
(* Cron: times, calls and the timer *)

\* A period is a positive number.
LEMMA PeriodsAre == \A j \in Jobs : Period[j] \in Nat \ {0}
BY JobsAssumption

\* The next run is later than the time from which it is worked out, by a period at most.
LEMMA NextRunIs ==
    ASSUME NEW j \in Jobs, NEW t \in Nat
    PROVE  NextRun(j, t) \in Nat /\ t < NextRun(j, t) /\ NextRun(j, t) <= t + Period[j]
<1> DEFINE p == Period[j]
<1>1. p \in Nat /\ p > 0
  BY PeriodsAre
<1>2. t % p \in 0..p-1
  <2> HIDE DEF p
  <2> QED
    BY <1>1
<1>3. NextRun(j, t) = t - (t % p) + p
  BY DEF NextRun
<1>4. t % p <= t
  <2> HIDE DEF p
  <2>1. t \div p \in Nat /\ t = p * (t \div p) + (t % p)
    BY <1>1
  <2>2. p * (t \div p) \in Nat
    BY <1>1, <2>1
  <2> QED
    BY <1>1, <1>2, <2>1, <2>2
<1> HIDE DEF p
<1>5. NextRun(j, t) \in Nat /\ t < NextRun(j, t) /\ NextRun(j, t) <= t + p
  BY <1>1, <1>2, <1>3, <1>4
<1> QED
  BY <1>5 DEF p

\* What a call of each kind holds.
LEMMA CallFields ==
    ASSUME NEW c \in CallRecords
    PROVE  /\ c.job \in Jobs
           /\ c.op \in Setters \union {"delete", "find", "flag", "read"}
           /\ c.op \in Setters => c.next \in Nat
           /\ c.op \in {"find", "flag"} => c.on \in BOOLEAN /\ c = [op |-> c.op, job |-> c.job, on |-> c.on]
           /\ c.op = "read" => c.enable \in BOOLEAN
           /\ c.op = "touch" => c.round \in Nat \union {-1}
           /\ c.op = "advance" => c.by \in {"start", "tick", "enable"}
BY DEF CallRecords, Setters

\* The touch of a job sets its next run as counted from now.
LEMMA TouchIs ==
    ASSUME CronTypes, NEW j \in Jobs, NEW r \in Nat \union {-1}
    PROVE  /\ Touch(j, r) \in CallRecords /\ Touch(j, r).op = "touch"
           /\ Touch(j, r).job = j /\ Touch(j, r).round = r
           /\ now < Touch(j, r).next /\ Touch(j, r).next <= now + Period[j]
<1>1. now \in Nat
  BY DEF CronTypes
<1>2. NextRun(j, now) \in Nat /\ now < NextRun(j, now) /\ NextRun(j, now) <= now + Period[j]
  BY <1>1, NextRunIs
<1> QED
  BY <1>2 DEF Touch, CallRecords

\* ... and what puts a run off counts from the time it is given.
LEMMA AdvanceIs ==
    ASSUME NEW j \in Jobs, NEW t \in Nat, NEW by \in {"start", "tick", "enable"}
    PROVE  /\ Advance(j, t, by) \in CallRecords /\ Advance(j, t, by).op = "advance"
           /\ Advance(j, t, by).job = j /\ Advance(j, t, by).by = by
           /\ t < Advance(j, t, by).next /\ Advance(j, t, by).next <= t + Period[j]
<1>1. NextRun(j, t) \in Nat /\ t < NextRun(j, t) /\ NextRun(j, t) <= t + Period[j]
  BY NextRunIs
<1> QED
  BY <1>1 DEF Advance, CallRecords

Plans(m) == m \in [DOMAIN m -> Records] /\ DOMAIN m \subseteq Jobs

\* The nearest run is one, and there is one as soon as a job is enabled.
LEMMA ArmedIs ==
    ASSUME NEW m, Plans(m)
    PROVE  /\ Armed(m) \subseteq Nat /\ \A s, t \in Armed(m) : s = t
           /\ \A t \in Armed(m) : \E j \in DOMAIN m : m[j].enabled /\ m[j].nextRun = t
           /\ (\E j \in DOMAIN m : m[j].enabled) => Armed(m) # {}
<1>1. \A j \in DOMAIN m : m[j].nextRun \in Nat /\ m[j].enabled \in BOOLEAN
  BY DEF Plans, Records
<1>2. Armed(m) \subseteq Nat /\ \A t \in Armed(m) : \E j \in DOMAIN m : m[j].enabled /\ m[j].nextRun = t
  BY <1>1 DEF Armed
<1>3. \A s, t \in Armed(m) : s = t
  <2> SUFFICES ASSUME NEW s \in Armed(m), NEW t \in Armed(m) PROVE s = t
    OBVIOUS
  <2>1. s <= t /\ t <= s
    BY <1>1 DEF Armed
  <2>2. s \in Nat /\ t \in Nat
    BY <1>2
  <2> QED
    BY <2>1, <2>2
<1>4. ASSUME NEW j \in DOMAIN m, m[j].enabled PROVE Armed(m) # {}
  <2> DEFINE S == {m[k].nextRun : k \in {i \in DOMAIN m : m[i].enabled}}
  <2>1. S \subseteq Nat /\ S # {}
    BY <1>1, <1>4
  <2>2. PICK t \in S : \A s \in S : t <= s
    <3> HIDE DEF S
    <3> QED
      BY <2>1, LeastNat
  <2>3. t \in Armed(m)
    BY <2>2 DEF Armed
  <2> QED
    BY <2>3
<1> QED
  BY <1>2, <1>3, <1>4

\* The timer is one; it stands for the nearest run if that is not further than it reaches.
LEMMA TimerIs ==
    ASSUME NEW m, Plans(m), now \in Nat
    PROVE  /\ Timer(m) \subseteq Nat /\ \A s, t \in Timer(m) : s = t
           /\ (\A j \in Jobs : Period[j] <= MaxDelay) /\ Timely(m) => Timer(m) = Armed(m)
<1>1. Armed(m) \subseteq Nat /\ (\A s, t \in Armed(m) : s = t)
      /\ \A t \in Armed(m) : \E j \in DOMAIN m : m[j].nextRun = t
  BY ArmedIs
<1>2. Timer(m) \subseteq Nat /\ \A s, t \in Timer(m) : s = t
  BY <1>1 DEF Timer
<1>3. ASSUME \A j \in Jobs : Period[j] <= MaxDelay, Timely(m) PROVE Timer(m) = Armed(m)
  <2>1. \A t \in Armed(m) : ~(t - now > MaxDelay)
    <3> SUFFICES ASSUME NEW t \in Armed(m) PROVE ~(t - now > MaxDelay)
      OBVIOUS
    <3>1. PICK j \in DOMAIN m : m[j].nextRun = t
      BY <1>1
    <3>2. j \in Jobs /\ t <= now + Period[j] /\ Period[j] \in Nat /\ Period[j] <= MaxDelay
      BY <1>3, <3>1, PeriodsAre DEF Timely, Plans
    <3>3. t \in Nat /\ MaxDelay \in Nat
      BY <1>1, CronBounds
    <3> QED
      BY <3>2, <3>3
  <2> QED
    BY <2>1 DEF Timer
<1> QED
  BY <1>2, <1>3

\* A mention of the new state leaves nothing open: the timer is set or left alone.
LEMMA RearmIs ==
    ASSUME NEW m, Plans(m), CronTypes, Rearm(m)
    PROVE  /\ timer' \subseteq Nat /\ \A s, t \in timer' : s = t
           /\ phase # "up" => timer' = timer
           /\ phase = "up" /\ (\A j \in Jobs : Period[j] <= MaxDelay) /\ Timely(m) => timer' = Armed(m)
BY TimerIs DEF Rearm, CronTypes

-----------------------------------------------------------------------------
(* Cron: a tick *)

\* There are finitely many jobs.
LEMMA JobsFinite == IsFiniteSet(Jobs) /\ Jobs \subseteq Nat
BY JobsAssumption, FS_Interval DEF Jobs

\* The library's enumerations are those that the lemmas about sorting speak of.
LEMMA EnumerationsAre == ASSUME NEW S PROVE SetToSeqs(S) = Enumerations(S)
BY Zenon DEF SetToSeqs, Enumerations

\* What an enumeration of a finite set is as a sequence.
LEMMA EnumerationIsSeq ==
    ASSUME NEW S, IsFiniteSet(S), NEW q \in Enumerations(S)
    PROVE  /\ q \in Seq(S) /\ DOMAIN q = 1..Len(q)
           /\ \A i, k \in DOMAIN q : i # k => q[i] # q[k]
           /\ \A x \in S : \E i \in DOMAIN q : q[i] = x
<1>1. Cardinality(S) \in Nat /\ \A x \in S : \E i \in 1..Cardinality(S) : q[i] = x
  BY EnumerationIsWhole
<1>2. q \in [1..Cardinality(S) -> S] /\ \A i, k \in 1..Cardinality(S) : i # k => q[i] # q[k]
  BY DEF Enumerations
<1>3. q \in Seq(S) /\ Len(q) = Cardinality(S) /\ DOMAIN q = 1..Cardinality(S)
  BY <1>1, <1>2, SeqDef
<1> QED
  BY <1>1, <1>2, <1>3

\* Sorting a finite set of numbers goes through each of them once.
LEMMA AscendingIs ==
    ASSUME NEW S, S \subseteq Nat, IsFiniteSet(S)
    PROVE  /\ Ascending(S) \in Seq(S) /\ DOMAIN Ascending(S) = 1..Len(Ascending(S))
           /\ \A i, k \in DOMAIN Ascending(S) : i # k => Ascending(S)[i] # Ascending(S)[k]
           /\ \A x \in S : \E i \in DOMAIN Ascending(S) : Ascending(S)[i] = x
<1> DEFINE R == {ss \in S \X S : ss[1] < ss[2]}
<1>1. \A x, y \in S : <<x, y>> \in R <=> x < y
  OBVIOUS
<1>2. \A x \in S : x \in Nat
  OBVIOUS
<1> HIDE DEF R
<1>3. Lines(S, R)
  BY <1>1, <1>2 DEF Lines
<1>4. PICK q \in Enumerations(S) : \A i, k \in 1..Cardinality(S) : i < k => <<q[i], q[k]>> \in R
  BY <1>3, SortExists
<1>5. \A i, k \in DOMAIN q : i < k => q[i] < q[k]
  BY <1>1, <1>4 DEF Enumerations
<1>6. \E r \in SetToSeqs(S) : \A i, k \in DOMAIN r : i < k => r[i] < r[k]
  BY <1>4, <1>5, EnumerationsAre
<1>7. Ascending(S) \in SetToSeqs(S)
  BY <1>6, Zenon DEF Ascending
<1>8. Ascending(S) \in Enumerations(S)
  BY <1>7, EnumerationsAre
<1> HIDE DEF Ascending
<1> QED
  BY <1>8, EnumerationIsSeq

\* The due jobs, each once, with the time that each is due for.
LEMMA DueIs ==
    ASSUME NEW m, Plans(m), now \in Nat
    PROVE  /\ Due(m) \in Seq(Entries) /\ DOMAIN Due(m) = 1..Len(Due(m))
           /\ \A i \in DOMAIN Due(m) :
                /\ Due(m)[i].job \in DOMAIN m /\ Due(m)[i].round = m[Due(m)[i].job].nextRun
                /\ Due(m)[i].round <= now
           /\ \A i, k \in DOMAIN Due(m) : i # k => Due(m)[i].job # Due(m)[k].job
           /\ \A j \in DOMAIN m : m[j].enabled /\ m[j].nextRun <= now =>
                \E i \in DOMAIN Due(m) : Due(m)[i].job = j
<1> DEFINE K == {k \in DOMAIN m : m[k].enabled /\ m[k].nextRun <= now}
           S == DueJobs(m)
           f == [j \in K |-> [job |-> j, round |-> m[j].nextRun]]
           R == {ss \in S \X S : Earlier(ss[1], ss[2])}
<1>1. \A j \in DOMAIN m : m[j].nextRun \in Nat /\ j \in Nat /\ j \in Jobs
  BY JobsFinite DEF Plans, Records
<1>2. /\ \A e \in S : e \in Entries /\ e.job \in DOMAIN m /\ e.round = m[e.job].nextRun /\ e.round <= now
      /\ \A e, g \in S : e.job = g.job => e = g
      /\ \A j \in DOMAIN m : m[j].enabled /\ m[j].nextRun <= now => \E e \in S : e.job = j
  <2>1. \A e \in S : e \in Entries /\ e.job \in DOMAIN m /\ e.round = m[e.job].nextRun /\ e.round <= now
    BY <1>1 DEF DueJobs, Entries
  <2>2. ASSUME NEW e \in S, NEW g \in S, e.job = g.job PROVE e = g
    <3>1. e = [job |-> e.job, round |-> e.round] /\ g = [job |-> g.job, round |-> g.round]
      BY <2>1 DEF Entries
    <3>2. e.round = g.round
      BY <2>1, <2>2
    <3> QED
      BY <2>2, <3>1, <3>2
  <2>3. ASSUME NEW j \in DOMAIN m, m[j].enabled /\ m[j].nextRun <= now PROVE \E e \in S : e.job = j
    <3>1. [job |-> j, round |-> m[j].nextRun] \in S
      BY <2>3 DEF DueJobs
    <3> QED
      BY <3>1
  <2> QED
    BY <2>1, <2>2, <2>3
<1>3. IsFiniteSet(S)
  <2>1. IsFiniteSet(K)
    BY <1>1, JobsFinite, FS_Subset
  <2>2. f \in Surjection(K, S)
    BY DEF Surjection, DueJobs
  <2> HIDE DEF K, S, f
  <2> QED
    BY <2>1, <2>2, FS_Surjection
<1>4. \A x, y \in S : <<x, y>> \in R <=> Earlier(x, y)
  OBVIOUS
<1>5. \A x \in S : x.job \in Nat /\ x.round \in Nat
  BY <1>1, <1>2
<1> HIDE DEF R, S, K, f
<1>6. Lines(S, R)
  <2>1. \A x, y \in S : x # y => Earlier(x, y) \/ Earlier(y, x)
    BY <1>2, <1>5 DEF Earlier
  <2>2. \A x, y, z \in S : Earlier(x, y) /\ Earlier(y, z) => Earlier(x, z)
    BY <1>5 DEF Earlier
  <2>3. \A x \in S : ~Earlier(x, x)
    BY <1>5 DEF Earlier
  <2> QED
    BY <1>4, <2>1, <2>2, <2>3 DEF Lines
<1>7. PICK q \in Enumerations(S) : \A i, k \in 1..Cardinality(S) : i < k => <<q[i], q[k]>> \in R
  BY <1>3, <1>6, SortExists
<1>8. \A i, k \in DOMAIN q : i < k => Earlier(q[i], q[k])
  BY <1>4, <1>7 DEF Enumerations
<1>9. \E r \in SetToSeqs(S) : \A i, k \in DOMAIN r : i < k => Earlier(r[i], r[k])
  BY <1>7, <1>8, EnumerationsAre
<1>10. Due(m) \in SetToSeqs(S)
  BY <1>9, Zenon DEF Due, S
<1>11. Due(m) \in Enumerations(S)
  BY <1>10, EnumerationsAre
<1>12. /\ Due(m) \in Seq(S) /\ DOMAIN Due(m) = 1..Len(Due(m))
       /\ \A i, k \in DOMAIN Due(m) : i # k => Due(m)[i] # Due(m)[k]
       /\ \A x \in S : \E i \in DOMAIN Due(m) : Due(m)[i] = x
  BY <1>3, <1>11, EnumerationIsSeq
<1> DEFINE d == Due(m)
<1> HIDE DEF d
<1>13. /\ d \in Seq(S) /\ DOMAIN d = 1..Len(d)
       /\ \A i, k \in DOMAIN d : i # k => d[i] # d[k]
       /\ \A x \in S : \E i \in DOMAIN d : d[i] = x
  BY <1>12 DEF d
<1>14. \A i \in DOMAIN d : d[i] \in S
  BY <1>13
<1>15. d \in Seq(Entries)
  BY <1>2, <1>13, <1>14, SeqDef
<1>16. \A i \in DOMAIN d : d[i].job \in DOMAIN m /\ d[i].round = m[d[i].job].nextRun /\ d[i].round <= now
  BY <1>2, <1>14
<1>17. \A i, k \in DOMAIN d : i # k => d[i].job # d[k].job
  BY <1>2, <1>13, <1>14
<1>18. \A j \in DOMAIN m : m[j].enabled /\ m[j].nextRun <= now => \E i \in DOMAIN d : d[i].job = j
  BY <1>2, <1>13
<1> QED
  BY <1>13, <1>15, <1>16, <1>17, <1>18 DEF d

\* The jobs that a tick fires of its list: those that are free, up to the one it skips.
Free(todo, skip) ==
    Ascending({i \in 1..(IF skip = 0 THEN Len(todo) ELSE skip - 1) : fire[todo[i].job] = "none"})
Touches(todo, skip) ==
    [i \in DOMAIN Free(todo, skip) |-> Touch(todo[Free(todo, skip)[i]].job, todo[Free(todo, skip)[i]].round)]
Skip(todo) == SelectInSeq(todo, Skips)

\* Where a list of due jobs has one whose turn is skipped, if anywhere.
LEMMA SkipIs ==
    ASSUME NEW todo \in Seq(Entries)
    PROVE  /\ Skip(todo) \in 0..Len(todo)
           /\ Skip(todo) = 0 => \A i \in DOMAIN todo : ~Skips(todo[i])
<1> DEFINE I == {i \in 1..Len(todo) : Skips(todo[i])}
<1>1. Skip(todo) = IF I # {} THEN CHOOSE x \in I : \A y \in I : x <= y ELSE 0
  BY Zenon DEF Skip, SelectInSeq, Min
<1>2. Len(todo) \in Nat /\ DOMAIN todo = 1..Len(todo)
  OBVIOUS
<1>3. CASE I = {}
  BY <1>1, <1>2, <1>3
<1>4. CASE I # {}
  <2>1. I \subseteq Nat
    BY <1>2
  <2> HIDE DEF I
  <2>2. \E x \in I : \A y \in I : x <= y
    BY <1>4, <2>1, LeastNat
  <2>3. Skip(todo) \in I
    BY <1>1, <1>4, <2>2
  <2>4. Skip(todo) \in 1..Len(todo)
    BY <2>3 DEF I
  <2> QED
    BY <1>2, <2>4
<1> QED
  BY <1>3, <1>4

\* The positions before that whose jobs are at rest, each once.
LEMMA FreeIs ==
    ASSUME NEW todo \in Seq(Entries), NEW skip \in 0..Len(todo)
    PROVE  LET hi == IF skip = 0 THEN Len(todo) ELSE skip - 1
               q  == Free(todo, skip)
           IN  /\ DOMAIN q = 1..Len(q) /\ Len(q) \in Nat
               /\ \A i \in DOMAIN q : q[i] \in DOMAIN todo /\ q[i] <= hi /\ fire[todo[q[i]].job] = "none"
               /\ \A i, k \in DOMAIN q : i # k => q[i] # q[k]
               /\ \A n \in DOMAIN todo : n <= hi /\ fire[todo[n].job] = "none" =>
                     \E i \in DOMAIN q : q[i] = n
<1> DEFINE hi == IF skip = 0 THEN Len(todo) ELSE skip - 1
           S  == {i \in 1..hi : fire[todo[i].job] = "none"}
           q  == Free(todo, skip)
<1>1. Len(todo) \in Nat /\ DOMAIN todo = 1..Len(todo)
  OBVIOUS
<1>2. hi \in Nat /\ hi <= Len(todo)
  BY <1>1
<1>3. q = Ascending(S)
  BY DEF Free
<1> HIDE DEF hi, q
<1>4. S \subseteq Nat /\ IsFiniteSet(S)
  <2>1. IsFiniteSet(1..hi)
    BY <1>2, FS_Interval
  <2>2. S \subseteq 1..hi
    OBVIOUS
  <2> HIDE DEF S
  <2>3. IsFiniteSet(S)
    BY <2>1, <2>2, FS_Subset
  <2>4. 1..hi \subseteq Nat
    BY <1>2
  <2> QED
    BY <2>2, <2>3, <2>4
<1> HIDE DEF S
<1>5. /\ q \in Seq(S) /\ DOMAIN q = 1..Len(q)
      /\ \A i, k \in DOMAIN q : i # k => q[i] # q[k]
      /\ \A x \in S : \E i \in DOMAIN q : q[i] = x
  BY <1>3, <1>4, AscendingIs
<1>6. Len(q) \in Nat /\ \A i \in DOMAIN q : q[i] \in S
  BY <1>5
<1>7. \A i \in DOMAIN q : q[i] \in DOMAIN todo /\ q[i] <= hi /\ fire[todo[q[i]].job] = "none"
  BY <1>1, <1>2, <1>6 DEF S
<1>8. \A n \in DOMAIN todo : n <= hi /\ fire[todo[n].job] = "none" => \E i \in DOMAIN q : q[i] = n
  <2> SUFFICES ASSUME NEW n \in DOMAIN todo, n <= hi, fire[todo[n].job] = "none" PROVE n \in S
    BY <1>5
  <2> QED
    BY <1>1, <1>2 DEF S
<1> QED
  BY <1>5, <1>6, <1>7, <1>8 DEF hi, q

\* A tick, by the definitions above.
LEMMA TickUnfolds ==
    ASSUME NEW todo, NEW at, NEW again, NEW s, TickOn(todo, at, again, s)
    PROVE  LET skip == Skip(todo)
               T    == Touches(todo, skip)
           IN  /\ fire' = [j \in Jobs |-> IF \E i \in DOMAIN T : T[i].job = j THEN "touch" ELSE fire[j]]
               /\ skip = 0 => /\ calls' = s \o T /\ stalled' = stalled
                              /\ tick' = IF again THEN [NoTick EXCEPT !.pc = "again"] ELSE NoTick
               /\ skip # 0 => /\ calls' = s \o T \o <<Advance(todo[skip].job, at, "tick")>>
                              /\ tick' = [pc |-> "wait", todo |-> SubSeq(todo, skip + 1, Len(todo)),
                                          at |-> at, again |-> again]
                              /\ stalled' = TRUE
BY DEF TickOn, Skip, Touches, Free

\* The calls of a tick: a touch for each entry that is free.
LEMMA TouchesAre ==
    ASSUME CronTypes, NEW todo \in Seq(Entries), NEW skip \in 0..Len(todo)
    PROVE  LET T  == Touches(todo, skip)
               q  == Free(todo, skip)
           IN  /\ T \in Seq(CallRecords) /\ DOMAIN T = 1..Len(T) /\ DOMAIN T = DOMAIN q
               /\ \A i \in DOMAIN T :
                    /\ q[i] \in DOMAIN todo /\ todo[q[i]] \in Entries
                    /\ fire[todo[q[i]].job] = "none"
                    /\ T[i] \in CallRecords /\ T[i].op = "touch"
                    /\ T[i].job = todo[q[i]].job /\ T[i].round = todo[q[i]].round
                    /\ now < T[i].next /\ T[i].next <= now + Period[T[i].job]
<1> DEFINE T == Touches(todo, skip)
           q == Free(todo, skip)
<1>1. /\ DOMAIN q = 1..Len(q) /\ Len(q) \in Nat
      /\ \A i \in DOMAIN q : q[i] \in DOMAIN todo /\ fire[todo[q[i]].job] = "none"
  BY FreeIs
<1>2. T = [i \in DOMAIN q |-> Touch(todo[q[i]].job, todo[q[i]].round)]
  BY DEF Touches
<1> HIDE DEF T, q
<1>3. ASSUME NEW i \in DOMAIN q
      PROVE  /\ q[i] \in DOMAIN todo /\ todo[q[i]] \in Entries
             /\ fire[todo[q[i]].job] = "none"
             /\ T[i] \in CallRecords /\ T[i].op = "touch"
             /\ T[i].job = todo[q[i]].job /\ T[i].round = todo[q[i]].round
             /\ now < T[i].next /\ T[i].next <= now + Period[T[i].job]
  <2>1. q[i] \in DOMAIN todo /\ todo[q[i]] \in Entries /\ fire[todo[q[i]].job] = "none"
    BY <1>1
  <2>2. todo[q[i]].job \in Jobs /\ todo[q[i]].round \in Nat \union {-1}
    BY <2>1 DEF Entries
  <2> DEFINE j == todo[q[i]].job
             r == todo[q[i]].round
  <2>3. T[i] = Touch(j, r)
    BY <1>2
  <2> HIDE DEF j, r
  <2>4. /\ Touch(j, r) \in CallRecords /\ Touch(j, r).op = "touch"
        /\ Touch(j, r).job = j /\ Touch(j, r).round = r
        /\ now < Touch(j, r).next /\ Touch(j, r).next <= now + Period[j]
    BY <2>2, TouchIs DEF j, r
  <2> QED
    BY <2>1, <2>3, <2>4 DEF j, r
<1>4. DOMAIN T = DOMAIN q
  BY <1>2
<1>5. T \in [1..Len(q) -> CallRecords]
  BY <1>1, <1>2, <1>3
<1>6. T \in Seq(CallRecords)
  BY <1>1, <1>5, SeqDef
<1>7. DOMAIN T = 1..Len(T)
  BY <1>6
<1> QED
  BY <1>3, <1>4, <1>6, <1>7 DEF T, q

\* A tick adds touches and advances to the calls, and fires only what was free.
LEMMA TickIs ==
    ASSUME CronTypes, NEW todo \in Seq(Entries), NEW at \in Nat, NEW again \in BOOLEAN,
           NEW s \in Seq(CallRecords), TickOn(todo, at, again, s)
    PROVE  /\ fire' \in [Jobs -> Fires] /\ \A j \in Jobs : fire[j] # "none" => fire'[j] # "none"
           /\ TickTypes(tick') /\ stalled' \in BOOLEAN /\ (stalled => stalled')
           /\ \E T \in Seq(CallRecords) :
                calls' = s \o T /\ \A c \in Range(T) : c.op \in {"touch", "advance"}
<1> DEFINE skip == Skip(todo)
           T    == Touches(todo, skip)
<1>1. /\ fire' = [j \in Jobs |-> IF \E i \in DOMAIN T : T[i].job = j THEN "touch" ELSE fire[j]]
      /\ skip = 0 => /\ calls' = s \o T /\ stalled' = stalled
                     /\ tick' = IF again THEN [NoTick EXCEPT !.pc = "again"] ELSE NoTick
      /\ skip # 0 => /\ calls' = s \o T \o <<Advance(todo[skip].job, at, "tick")>>
                     /\ tick' = [pc |-> "wait", todo |-> SubSeq(todo, skip + 1, Len(todo)),
                                 at |-> at, again |-> again]
                     /\ stalled' = TRUE
  BY TickUnfolds
<1>2. skip \in 0..Len(todo) /\ Len(todo) \in Nat
  BY SkipIs
<1> HIDE DEF skip
<1>3. T \in Seq(CallRecords) /\ \A i \in DOMAIN T : T[i].op = "touch"
  BY <1>2, TouchesAre
<1> HIDE DEF T
<1>4. fire' \in [Jobs -> Fires] /\ \A j \in Jobs : fire[j] # "none" => fire'[j] # "none"
  BY <1>1 DEF CronTypes, Fires
<1>5. CASE skip = 0
  <2>1. tick' = [pc |-> IF again THEN "again" ELSE "idle", todo |-> <<>>, at |-> 0, again |-> FALSE]
    BY <1>1, <1>5 DEF NoTick
  <2>2. TickTypes(tick')
    BY <2>1 DEF TickTypes
  <2>3. stalled' \in BOOLEAN /\ (stalled => stalled')
    BY <1>1, <1>5 DEF CronTypes
  <2>4. \A c \in Range(T) : c.op \in {"touch", "advance"}
    BY <1>3 DEF Range
  <2> QED
    BY <1>1, <1>3, <1>4, <1>5, <2>2, <2>3, <2>4
<1>6. CASE skip # 0
  <2> DEFINE c == Advance(todo[skip].job, at, "tick")
  <2>1. skip \in DOMAIN todo /\ todo[skip] \in Entries
    BY <1>2, <1>6
  <2>2. c \in CallRecords /\ c.op = "advance"
    BY <2>1, AdvanceIs DEF Entries
  <2> DEFINE rest == SubSeq(todo, skip + 1, Len(todo))
  <2>3. rest \in Seq(Entries)
    BY <1>2, <1>6
  <2>4. TickTypes(tick')
    <3>1. tick' = [pc |-> "wait", todo |-> rest, at |-> at, again |-> again]
      BY <1>1, <1>6
    <3> HIDE DEF rest
    <3> QED
      BY <2>3, <3>1 DEF TickTypes
  <2>5. calls' = s \o T \o <<c>>
    BY <1>1, <1>6
  <2> HIDE DEF c
  <2>6. /\ T \o <<c>> \in Seq(CallRecords)
        /\ \A k \in Range(T \o <<c>>) : k.op \in {"touch", "advance"}
    BY <1>3, <2>2 DEF Range
  <2>7. s \o T \o <<c>> = s \o (T \o <<c>>)
    BY <1>3, <2>2
  <2>8. calls' = s \o (T \o <<c>>)
    BY <2>5, <2>7
  <2>9. stalled' \in BOOLEAN /\ (stalled => stalled')
    BY <1>1, <1>6
  <2> QED
    BY <1>4, <2>4, <2>6, <2>8, <2>9
<1> QED
  BY <1>5, <1>6

\* A tick that does not wait for the store touches each due job that is free, once.
LEMMA QuietTickIs ==
    ASSUME CronTypes, NEW s \in Seq(CallRecords), TickOn(Due(mem), now, FALSE, s), ~stalled'
    PROVE  /\ ~stalled /\ tick' = NoTick
           /\ \A j \in Jobs : fire[j] # "none" => fire'[j] = fire[j]
           /\ \A j \in DOMAIN mem : mem[j].enabled /\ mem[j].nextRun <= now => fire'[j] # "none"
           /\ \E T \in Seq(CallRecords) :
                /\ calls' = s \o T
                /\ \A i \in DOMAIN T :
                     /\ T[i].op = "touch" /\ fire[T[i].job] = "none" /\ fire'[T[i].job] = "touch"
                     /\ T[i].job \in DOMAIN mem /\ T[i].round = mem[T[i].job].nextRun /\ T[i].round <= now
                     /\ now < T[i].next /\ T[i].next <= now + Period[T[i].job]
                /\ \A i, k \in DOMAIN T : i # k => T[i].job # T[k].job
<1> DEFINE todo == Due(mem)
           skip == Skip(todo)
           T    == Touches(todo, skip)
           q    == Free(todo, skip)
<1>0. Plans(mem) /\ now \in Nat
  BY DEF Plans, CronTypes
<1>1. /\ todo \in Seq(Entries) /\ DOMAIN todo = 1..Len(todo)
      /\ \A i \in DOMAIN todo :
           /\ todo[i].job \in DOMAIN mem /\ todo[i].round = mem[todo[i].job].nextRun
           /\ todo[i].round <= now
      /\ \A i, k \in DOMAIN todo : i # k => todo[i].job # todo[k].job
      /\ \A j \in DOMAIN mem : mem[j].enabled /\ mem[j].nextRun <= now =>
           \E i \in DOMAIN todo : todo[i].job = j
  BY <1>0, DueIs
<1>2. /\ fire' = [j \in Jobs |-> IF \E i \in DOMAIN T : T[i].job = j THEN "touch" ELSE fire[j]]
      /\ skip = 0 => calls' = s \o T /\ stalled' = stalled /\ tick' = NoTick
      /\ skip # 0 => stalled' = TRUE
  BY TickUnfolds
<1> HIDE DEF todo
<1>3. skip = 0 /\ ~stalled /\ tick' = NoTick /\ calls' = s \o T
  BY <1>2
<1>4. skip \in 0..Len(todo)
  BY <1>1, SkipIs
<1> HIDE DEF skip
<1>5. /\ DOMAIN q = 1..Len(q) /\ Len(q) \in Nat
      /\ \A i, k \in DOMAIN q : i # k => q[i] # q[k]
      /\ \A n \in DOMAIN todo : fire[todo[n].job] = "none" => \E i \in DOMAIN q : q[i] = n
  <2>1. Len(todo) \in Nat /\ \A n \in DOMAIN todo : n <= Len(todo)
    BY <1>1
  <2> QED
    BY <1>1, <1>3, <1>4, <2>1, FreeIs
<1>6. /\ T \in Seq(CallRecords) /\ DOMAIN T = 1..Len(T) /\ DOMAIN T = DOMAIN q
      /\ \A i \in DOMAIN T :
           /\ q[i] \in DOMAIN todo /\ todo[q[i]] \in Entries /\ fire[todo[q[i]].job] = "none"
           /\ T[i] \in CallRecords /\ T[i].op = "touch"
           /\ T[i].job = todo[q[i]].job /\ T[i].round = todo[q[i]].round
           /\ now < T[i].next /\ T[i].next <= now + Period[T[i].job]
  BY <1>1, <1>4, TouchesAre
<1> HIDE DEF T, q
<1>7. ASSUME NEW j \in Jobs, fire[j] # "none" PROVE fire'[j] = fire[j]
  BY <1>2, <1>6, <1>7
<1>8. ASSUME NEW i \in DOMAIN T
      PROVE  /\ T[i].op = "touch" /\ fire[T[i].job] = "none" /\ fire'[T[i].job] = "touch"
             /\ T[i].job \in DOMAIN mem /\ T[i].round = mem[T[i].job].nextRun /\ T[i].round <= now
             /\ now < T[i].next /\ T[i].next <= now + Period[T[i].job]
  <2>1. T[i].job \in Jobs
    BY <1>6, CallFields
  <2>2. fire'[T[i].job] = "touch"
    BY <1>2, <2>1
  <2> QED
    BY <1>1, <1>6, <2>2
<1>9. ASSUME NEW i \in DOMAIN T, NEW k \in DOMAIN T, i # k PROVE T[i].job # T[k].job
  BY <1>1, <1>5, <1>6, <1>9
<1>10. ASSUME NEW j \in DOMAIN mem, mem[j].enabled, mem[j].nextRun <= now PROVE fire'[j] # "none"
  <2>0. j \in Jobs
    BY <1>0 DEF Plans
  <2>1. CASE fire[j] # "none"
    BY <1>7, <2>0, <2>1
  <2>2. CASE fire[j] = "none"
    <3>1. PICK n \in DOMAIN todo : todo[n].job = j
      BY <1>1, <1>10
    <3>2. PICK i \in DOMAIN q : q[i] = n
      BY <1>5, <2>2, <3>1
    <3>3. i \in DOMAIN T /\ T[i].job = j
      BY <1>6, <3>1, <3>2
    <3> QED
      BY <1>8, <3>3
  <2> QED
    BY <2>1, <2>2
<1> QED
  BY <1>3, <1>6, <1>7, <1>8, <1>9, <1>10

-----------------------------------------------------------------------------
(* Cron: the queue of calls *)

\* The oldest call, and the others behind it.
LEMMA TailIs ==
    ASSUME NEW R, NEW s \in Seq(R), s # <<>>
    PROVE  /\ s[1] \in R /\ s[1] \in Range(s) /\ Tail(s) \in Seq(R)
           /\ Range(Tail(s)) \subseteq Range(s)
           /\ \A c \in Range(s) : c = s[1] \/ c \in Range(Tail(s))
           /\ DOMAIN Tail(s) = 1..Len(s)-1 /\ \A i \in DOMAIN Tail(s) : Tail(s)[i] = s[i + 1]
<1>1. Len(s) \in Nat /\ Len(s) >= 1 /\ DOMAIN s = 1..Len(s)
  BY EmptySeq, LenProperties
<1>2. /\ Tail(s) \in Seq(R) /\ DOMAIN Tail(s) = 1..Len(s)-1
      /\ \A i \in DOMAIN Tail(s) : Tail(s)[i] = s[i + 1]
  BY <1>1, HeadTailProperties
<1>3. s[1] \in R /\ s[1] \in Range(s)
  BY <1>1 DEF Range
<1>4. Range(Tail(s)) \subseteq Range(s)
  BY <1>1, <1>2 DEF Range
<1>5. ASSUME NEW i \in DOMAIN s, i # 1 PROVE s[i] \in Range(Tail(s))
  <2>1. i - 1 \in DOMAIN Tail(s) /\ Tail(s)[i - 1] = s[i]
    BY <1>1, <1>2, <1>5
  <2> QED
    BY <2>1 DEF Range
<1>6. \A c \in Range(s) : c = s[1] \/ c \in Range(Tail(s))
  BY <1>5 DEF Range
<1> QED
  BY <1>2, <1>3, <1>4, <1>6

\* Two queues, one behind the other.
LEMMA JoinIs ==
    ASSUME NEW R, NEW s \in Seq(R), NEW t \in Seq(R)
    PROVE  s \o t \in Seq(R) /\ Range(s \o t) = Range(s) \union Range(t)
<1>1. /\ s \o t \in Seq(R) /\ DOMAIN s = 1..Len(s) /\ DOMAIN t = 1..Len(t)
      /\ Len(s) \in Nat /\ Len(t) \in Nat
      /\ DOMAIN (s \o t) = 1..Len(s)+Len(t)
      /\ \A i \in 1..Len(s)+Len(t) : (s \o t)[i] = IF i <= Len(s) THEN s[i] ELSE t[i - Len(s)]
  BY ConcatProperties, LenProperties
<1>2. ASSUME NEW i \in DOMAIN (s \o t) PROVE (s \o t)[i] \in Range(s) \union Range(t)
  BY <1>1 DEF Range
<1>3. ASSUME NEW i \in DOMAIN s PROVE s[i] \in Range(s \o t)
  <2>1. i \in DOMAIN (s \o t) /\ (s \o t)[i] = s[i]
    BY <1>1
  <2> QED
    BY <2>1 DEF Range
<1>4. ASSUME NEW i \in DOMAIN t PROVE t[i] \in Range(s \o t)
  <2>1. Len(s) + i \in DOMAIN (s \o t) /\ (s \o t)[Len(s) + i] = t[i]
    BY <1>1
  <2> QED
    BY <2>1 DEF Range
<1> QED
  BY <1>1, <1>2, <1>3, <1>4 DEF Range

\* A queue of one call.
LEMMA OneIs ==
    ASSUME NEW R, NEW c \in R
    PROVE  <<c>> \in Seq(R) /\ Range(<<c>>) = {c} /\ InOrder(<<c>>)
<1>1. <<c>> \in Seq(R) /\ DOMAIN <<c>> = {1} /\ <<c>>[1] = c
  OBVIOUS
<1>2. Range(<<c>>) = {c}
  BY <1>1 DEF Range
<1>3. InOrder(<<c>>)
  BY <1>1 DEF InOrder
<1> QED
  BY <1>1, <1>2, <1>3

\* A queue with a call at its end.
LEMMA AppendIs ==
    ASSUME NEW R, NEW s \in Seq(R), NEW c \in R
    PROVE  /\ Append(s, c) = s \o <<c>>
           /\ Append(s, c) \in Seq(R)
           /\ \A x : x \in Range(Append(s, c)) <=> x \in Range(s) \/ x = c
<1>1. Append(s, c) = s \o <<c>>
  BY AppendIsConcat
<1>2. <<c>> \in Seq(R) /\ Range(<<c>>) = {c}
  BY OneIs
<1>3. s \o <<c>> \in Seq(R) /\ Range(s \o <<c>>) = Range(s) \union Range(<<c>>)
  <2>1. \A t \in Seq(R) : s \o t \in Seq(R) /\ Range(s \o t) = Range(s) \union Range(t)
    BY JoinIs
  <2> QED
    BY <1>2, <2>1, Zenon
<1>4. \A x : x \in Range(s \o <<c>>) <=> x \in Range(s) \/ x = c
  BY <1>2, <1>3, Zenon
<1> QED
  BY <1>1, <1>3, <1>4, Zenon

\* A queue in order stays so when the oldest call is served, ...
LEMMA TailInOrder ==
    ASSUME NEW s \in Seq(CallRecords), s # <<>>, InOrder(s)
    PROVE  InOrder(Tail(s)) /\ \A c \in Range(Tail(s)) : Precedes(s[1], c)
<1>1. /\ DOMAIN Tail(s) = 1..Len(s)-1 /\ (\A i \in DOMAIN Tail(s) : Tail(s)[i] = s[i + 1])
      /\ Len(s) \in Nat /\ DOMAIN s = 1..Len(s)
  BY TailIs, LenProperties
<1>2. InOrder(Tail(s))
  <2> SUFFICES ASSUME NEW i \in DOMAIN Tail(s), NEW k \in DOMAIN Tail(s), i < k
               PROVE  Precedes(Tail(s)[i], Tail(s)[k])
    BY DEF InOrder
  <2>1. i + 1 \in DOMAIN s /\ k + 1 \in DOMAIN s /\ i + 1 < k + 1
    BY <1>1
  <2> QED
    BY <1>1, <2>1 DEF InOrder
<1>3. ASSUME NEW i \in DOMAIN Tail(s) PROVE Precedes(s[1], Tail(s)[i])
  <2>1. i + 1 \in DOMAIN s /\ 1 \in DOMAIN s /\ 1 < i + 1
    BY <1>1
  <2> QED
    BY <1>1, <2>1 DEF InOrder
<1> QED
  BY <1>2, <1>3 DEF Range

\* ... and when others join that are behind all that wait.
LEMMA JoinInOrder ==
    ASSUME NEW s \in Seq(CallRecords), NEW t \in Seq(CallRecords), InOrder(s), InOrder(t),
           \A b \in Range(s), c \in Range(t) : Precedes(b, c)
    PROVE  InOrder(s \o t)
<1>1. /\ DOMAIN s = 1..Len(s) /\ DOMAIN t = 1..Len(t) /\ Len(s) \in Nat /\ Len(t) \in Nat
      /\ DOMAIN (s \o t) = 1..Len(s)+Len(t)
      /\ \A i \in 1..Len(s)+Len(t) : (s \o t)[i] = IF i <= Len(s) THEN s[i] ELSE t[i - Len(s)]
  BY ConcatProperties, LenProperties
<1> SUFFICES ASSUME NEW i \in DOMAIN (s \o t), NEW k \in DOMAIN (s \o t), i < k
             PROVE  Precedes((s \o t)[i], (s \o t)[k])
  BY DEF InOrder
<1>2. CASE k <= Len(s)
  <2>1. i \in DOMAIN s /\ k \in DOMAIN s /\ (s \o t)[i] = s[i] /\ (s \o t)[k] = s[k]
    BY <1>1, <1>2
  <2> QED
    BY <2>1 DEF InOrder
<1>3. CASE i > Len(s)
  <2>1. /\ i - Len(s) \in DOMAIN t /\ k - Len(s) \in DOMAIN t /\ i - Len(s) < k - Len(s)
        /\ (s \o t)[i] = t[i - Len(s)] /\ (s \o t)[k] = t[k - Len(s)]
    BY <1>1, <1>3
  <2> QED
    BY <2>1 DEF InOrder
<1>4. CASE i <= Len(s) /\ k > Len(s)
  <2>1. /\ i \in DOMAIN s /\ k - Len(s) \in DOMAIN t
        /\ (s \o t)[i] = s[i] /\ (s \o t)[k] = t[k - Len(s)]
    BY <1>1, <1>4
  <2>2. s[i] \in Range(s) /\ t[k - Len(s)] \in Range(t)
    BY <2>1 DEF Range
  <2> QED
    BY <2>1, <2>2
<1> QED
  BY <1>1, <1>2, <1>3, <1>4

-----------------------------------------------------------------------------
(* Cron: tables *)

Holds(m) == m \in [DOMAIN m -> Records]

\* A table with the next run of one job set, ...
LEMMA PutIs ==
    ASSUME NEW m, Holds(m), NEW j, NEW t \in Nat
    PROVE  /\ Holds(Put(m, j, t)) /\ DOMAIN Put(m, j, t) = DOMAIN m
           /\ \A k \in DOMAIN m : k # j => Put(m, j, t)[k] = m[k]
           /\ j \in DOMAIN m => Put(m, j, t)[j] = [enabled |-> m[j].enabled, nextRun |-> t]
<1>1. \A k \in DOMAIN m : m[k] \in Records /\ [m[k] EXCEPT !.nextRun = t] = [enabled |-> m[k].enabled, nextRun |-> t]
  BY DEF Holds, Records
<1> QED
  BY <1>1 DEF Put, Holds, Records

\* ... with a record put in, ...
LEMMA WithIs ==
    ASSUME NEW m, Holds(m), NEW j, NEW r \in Records
    PROVE  /\ Holds(With(m, j, r)) /\ DOMAIN With(m, j, r) = DOMAIN m \union {j}
           /\ \A k \in DOMAIN m : k # j => With(m, j, r)[k] = m[k]
           /\ With(m, j, r)[j] = r
BY DEF With, Holds

\* ... and with one taken out.
LEMMA WithoutIs ==
    ASSUME NEW m, Holds(m), NEW j
    PROVE  /\ Holds(Without(m, j)) /\ DOMAIN Without(m, j) = DOMAIN m \ {j}
           /\ \A k \in DOMAIN m \ {j} : Without(m, j)[k] = m[k]
BY DEF Without, Holds

-----------------------------------------------------------------------------
(* Cron: every step keeps the types *)

\* A queue of calls with one more, ...
LEMMA CallsGrow ==
    ASSUME NEW u, NEW v, u \subseteq v, NEW s, CallsTyped(s, u), NEW c \in CallRecords,
           c.op = "create" => c.job \in v
    PROVE  CallsTyped(Append(s, c), v)
<1>0. s \in Seq(CallRecords)
  BY DEF CallsTyped
<1>1. Append(s, c) \in Seq(CallRecords) /\ \A x : x \in Range(Append(s, c)) <=> x \in Range(s) \/ x = c
  BY <1>0, AppendIs
<1> QED
  BY <1>1 DEF CallsTyped

\* ... with those of a tick, ...
LEMMA CallsJoin ==
    ASSUME NEW u, NEW s, CallsTyped(s, u), NEW t \in Seq(CallRecords),
           \A c \in Range(t) : c.op # "create"
    PROVE  CallsTyped(s \o t, u)
<1>1. s \o t \in Seq(CallRecords) /\ Range(s \o t) = Range(s) \union Range(t)
  BY JoinIs DEF CallsTyped
<1> QED
  BY <1>1 DEF CallsTyped

\* ... and with its oldest call served.
LEMMA CallsServe ==
    ASSUME NEW u, NEW s, CallsTyped(s, u), s # <<>>
    PROVE  CallsTyped(Tail(s), u) /\ s[1] \in CallRecords /\ (s[1].op = "create" => s[1].job \in u)
<1>1. /\ s[1] \in CallRecords /\ s[1] \in Range(s) /\ Tail(s) \in Seq(CallRecords)
      /\ Range(Tail(s)) \subseteq Range(s)
  BY TailIs DEF CallsTyped
<1> QED
  BY <1>1 DEF CallsTyped

TimerTyped(t) == t \subseteq Nat /\ \A a, b \in t : a = b

\* The table of a process that has not read any is empty, ...
LEMMA NoneHolds == Holds(None) /\ DOMAIN None = {}
BY DEF Holds, None

\* ... its queue too, ...
LEMMA NoCalls == \A u : CallsTyped(<<>>, u)
<1>1. <<>> \in Seq(CallRecords) /\ Range(<<>>) = {}
  BY DEF Range
<1> QED
  BY <1>1 DEF CallsTyped

\* ... and it has no tick.
LEMMA NoTickTyped == TickTypes(NoTick)
BY DEF NoTick, TickTypes

\* start() reads the rows and puts off or fires the runs that were missed.
LEMMA TypesOfStart == ASSUME CronTypes, Start PROVE CronTypes'
<1> DEFINE missed == Ascending({j \in DOMAIN rows : rows[j].enabled /\ rows[j].nextRun < now})
           Late(j) == IF j \in RunOnceJobs THEN Touch(j, rows[j].nextRun) ELSE Advance(j, now, "start")
<1>1. calls' = [i \in DOMAIN missed |-> Late(missed[i])]
  BY DEF Start
<1>2. fire' \in [Jobs -> Fires]
  BY DEF Start, Fires
<1>3. missed \in Seq(DOMAIN rows)
  <2> DEFINE S == {j \in DOMAIN rows : rows[j].enabled /\ rows[j].nextRun < now}
  <2>1. S \subseteq DOMAIN rows /\ DOMAIN rows \subseteq Jobs /\ Jobs \subseteq Nat /\ IsFiniteSet(Jobs)
    BY JobsFinite DEF CronTypes
  <2> HIDE DEF S
  <2>2. S \subseteq Nat /\ IsFiniteSet(S)
    BY <2>1, FS_Subset
  <2>3. Ascending(S) \in Seq(S)
    BY <2>2, AscendingIs
  <2>4. Ascending(S) \in Seq(DOMAIN rows)
    BY <2>1, <2>3, SeqDef
  <2> QED
    BY <2>4 DEF S
<1> HIDE DEF missed
<1>4. ASSUME NEW j \in DOMAIN rows PROVE Late(j) \in CallRecords /\ Late(j).op # "create"
  <2>1. j \in Jobs /\ now \in Nat /\ rows[j].nextRun \in Nat
    BY DEF CronTypes, Records
  <2>2. Touch(j, rows[j].nextRun) \in CallRecords /\ Touch(j, rows[j].nextRun).op = "touch"
    BY <2>1, TouchIs
  <2>3. Advance(j, now, "start") \in CallRecords /\ Advance(j, now, "start").op = "advance"
    BY <2>1, AdvanceIs
  <2> QED
    BY <2>2, <2>3
<1> HIDE DEF Late
<1>5. calls' \in Seq(CallRecords) /\ \A c \in Range(calls') : c.op # "create"
  <2>1. DOMAIN missed = 1..Len(missed) /\ Len(missed) \in Nat /\ \A i \in DOMAIN missed : missed[i] \in DOMAIN rows
    BY <1>3
  <2>2. calls' \in [1..Len(missed) -> CallRecords] /\ \A i \in DOMAIN calls' : calls'[i].op # "create"
    BY <1>1, <1>4, <2>1
  <2> QED
    BY <2>1, <2>2, SeqDef DEF Range
<1>6. CallsTyped(calls', used')
  BY <1>5 DEF CallsTyped
<1> QED
  BY <1>2, <1>6 DEF CronTypes, Start

\* What a tick asks for is a list of calls.
LEMMA TypesOfTick ==
    ASSUME CronTypes, NEW todo \in Seq(Entries), NEW at \in Nat, NEW again \in BOOLEAN,
           NEW s, CallsTyped(s, used), TickOn(todo, at, again, s)
    PROVE  fire' \in [Jobs -> Fires] /\ TickTypes(tick') /\ stalled' \in BOOLEAN /\ CallsTyped(calls', used)
<1>0. s \in Seq(CallRecords)
  BY DEF CallsTyped
<1>1. /\ fire' \in [Jobs -> Fires] /\ TickTypes(tick') /\ stalled' \in BOOLEAN
      /\ \E T \in Seq(CallRecords) : calls' = s \o T /\ \A c \in Range(T) : c.op \in {"touch", "advance"}
  BY <1>0, TickIs
<1>2. PICK T \in Seq(CallRecords) : calls' = s \o T /\ \A c \in Range(T) : c.op \in {"touch", "advance"}
  BY <1>1
<1>3. CallsTyped(calls', used)
  BY <1>2, CallsJoin
<1> QED
  BY <1>1, <1>3

\* What memory and the store hold are plans of jobs.
LEMMA PlansTyped ==
    ASSUME CronTypes
    PROVE  /\ Plans(mem) /\ Plans(rows) /\ Holds(mem) /\ Holds(rows) /\ now \in Nat
           /\ \A j \in DOMAIN mem : j \in Jobs /\ mem[j] \in Records /\ mem[j].nextRun \in Nat
           /\ \A j \in DOMAIN rows : j \in Jobs /\ rows[j] \in Records /\ rows[j].nextRun \in Nat
BY DEF CronTypes, Plans, Holds, Records

\* A tick, whether the timer or another tick asks for it.
LEMMA TypesOfClock ==
    ASSUME CronTypes, TimerFires \/ TickAgain
    PROVE  CronTypes'
<1>1. Due(mem) \in Seq(Entries) /\ now \in Nat
  BY PlansTyped, DueIs
<1>2. CallsTyped(calls, used)
  BY DEF CronTypes
<1>3. CASE TimerFires
  <2>1. CASE tick.pc # "idle"
    <3>1. tick' = [tick EXCEPT !.again = TRUE] /\ calls' = calls /\ fire' = fire /\ stalled' = stalled
      BY <1>3, <2>1 DEF TimerFires
    <3>2. TickTypes(tick')
      BY <3>1 DEF CronTypes, TickTypes
    <3> QED
      BY <1>3, <3>1, <3>2 DEF CronTypes, TimerFires
  <2>2. CASE tick.pc = "idle"
    <3>1. fire' \in [Jobs -> Fires] /\ TickTypes(tick') /\ stalled' \in BOOLEAN /\ CallsTyped(calls', used)
      BY <1>1, <1>2, <1>3, <2>2, TypesOfTick DEF TimerFires
    <3> QED
      BY <1>3, <3>1 DEF CronTypes, TimerFires
  <2> QED
    BY <2>1, <2>2
<1>4. CASE TickAgain
  <2>1. fire' \in [Jobs -> Fires] /\ TickTypes(tick') /\ stalled' \in BOOLEAN /\ CallsTyped(calls', used)
    BY <1>1, <1>2, <1>4, TypesOfTick DEF TickAgain
  <2> QED
    BY <1>4, <2>1 DEF CronTypes, TickAgain
<1> QED
  BY <1>3, <1>4

\* The end of a fire.
LEMMA TypesOfFireEnds == ASSUME CronTypes, NEW j \in Jobs, FireEnds(j) PROVE CronTypes'
<1> DEFINE due == Enabled(mem, j) /\ mem[j].nextRun <= now
<1>1. CallsTyped(calls', used) /\ TimerTyped(timer')
  <2>1. CASE calls' = calls /\ Rearm(mem)
    BY <2>1, PlansTyped, RearmIs DEF CronTypes, TimerTyped
  <2>2. CASE calls' = Append(calls, Touch(j, IF due THEN mem[j].nextRun ELSE -1)) /\ timer' = timer
    <3>1. (IF due THEN mem[j].nextRun ELSE -1) \in Nat \union {-1}
      BY PlansTyped DEF Enabled, Has
    <3> DEFINE r == IF due THEN mem[j].nextRun ELSE -1
    <3> HIDE DEF r
    <3>2. Touch(j, r) \in CallRecords /\ Touch(j, r).op = "touch"
      BY <3>1, TouchIs DEF r
    <3>3. CallsTyped(Append(calls, Touch(j, r)), used)
      BY <3>2, CallsGrow DEF CronTypes
    <3> QED
      BY <2>2, <3>3 DEF r, CronTypes, TimerTyped
  <2> QED
    BY <2>1, <2>2 DEF FireEnds, Call
<1>2. fire' \in [Jobs -> Fires] /\ queued' \subseteq QueueJobs
  BY DEF FireEnds, CronTypes, Fires
<1> QED
  BY <1>1, <1>2 DEF FireEnds, CronTypes, TimerTyped

\* What extensions and the API ask for.
LEMMA TypesOfRequest ==
    ASSUME CronTypes, NEW j \in Jobs,
           Schedule(j) \/ Unschedule(j) \/ Update(j) \/ RunNow(j) \/ \E on \in BOOLEAN : SetEnabled(j, on)
    PROVE  CronTypes'
<1>1. NextRun(j, now) \in Nat
  BY PlansTyped, NextRunIs
<1>2. CallsTyped(calls, used)
  BY DEF CronTypes
<1>3. CASE Schedule(j)
  <2> DEFINE c == [op |-> "create", job |-> j, next |-> NextRun(j, now)]
  <2>1. c \in CallRecords
    BY <1>1 DEF CallRecords
  <2>2. used' = used \union {j} /\ calls' = Append(calls, c)
    BY <1>3 DEF Schedule, Call
  <2>3. CallsTyped(calls', used')
    BY <1>2, <2>1, <2>2, CallsGrow
  <2> QED
    BY <1>3, <2>2, <2>3 DEF CronTypes, Schedule, Asked
<1>4. ASSUME NEW c \in CallRecords, c.op # "create", Call(c), fire' \in [Jobs -> Fires],
             UNCHANGED <<used, queued>>, Asked
      PROVE  CronTypes'
  <2>1. CallsTyped(calls', used')
    BY <1>2, <1>4, CallsGrow DEF Call
  <2> QED
    BY <1>4, <2>1 DEF CronTypes, Asked
<1>5. fire \in [Jobs -> Fires]
  BY DEF CronTypes
<1>6. CASE Unschedule(j)
  <2> DEFINE c == [op |-> "delete", job |-> j]
  <2>1. c \in CallRecords /\ c.op # "create"
    BY DEF CallRecords
  <2>2. Call(c) /\ fire' = fire /\ UNCHANGED <<used, queued>> /\ Asked
    BY <1>6 DEF Unschedule
  <2> HIDE DEF c
  <2> QED
    BY <1>4, <1>5, <2>1, <2>2
<1>7. CASE Update(j)
  <2> DEFINE c == [op |-> "patch", job |-> j, next |-> NextRun(j, now)]
  <2>1. c \in CallRecords /\ c.op # "create"
    BY <1>1 DEF CallRecords
  <2>2. Call(c) /\ fire' = fire /\ UNCHANGED <<used, queued>> /\ Asked
    BY <1>7 DEF Update
  <2> HIDE DEF c
  <2> QED
    BY <1>4, <1>5, <2>1, <2>2
<1>8. CASE RunNow(j)
  <2>1. CASE fire[j] # "none"
    <3>1. queued' \subseteq QueueJobs /\ fire' = fire /\ calls' = calls /\ used' = used /\ Asked
      BY <1>8, <2>1 DEF RunNow, CronTypes
    <3> QED
      BY <3>1 DEF CronTypes, Asked
  <2>2. CASE fire[j] = "none"
    <3> DEFINE c == Touch(j, -1)
    <3>1. c \in CallRecords /\ c.op # "create"
      BY TouchIs
    <3>2. Call(c) /\ fire' \in [Jobs -> Fires] /\ UNCHANGED <<used, queued>> /\ Asked
      BY <1>5, <1>8, <2>2 DEF RunNow, Fires
    <3> HIDE DEF c
    <3> QED
      BY <1>4, <3>1, <3>2
  <2> QED
    BY <2>1, <2>2
<1>9. ASSUME NEW on \in BOOLEAN, SetEnabled(j, on) PROVE CronTypes'
  <2> DEFINE c == [op |-> "find", job |-> j, on |-> on]
  <2>1. c \in CallRecords /\ c.op # "create"
    BY DEF CallRecords
  <2>2. Call(c) /\ fire' = fire /\ UNCHANGED <<used, queued>> /\ Asked
    BY <1>9 DEF SetEnabled
  <2> HIDE DEF c
  <2> QED
    BY <1>4, <1>5, <2>1, <2>2
<1> QED
  BY <1>3, <1>6, <1>7, <1>8, <1>9

\* The call that the store serves next.
LEMMA OldestIs ==
    ASSUME CronTypes, calls # <<>>
    PROVE  /\ CallsTyped(Tail(calls), used) /\ Oldest \in CallRecords /\ Oldest \in Range(calls)
           /\ Oldest.op = "create" => Oldest.job \in used
           /\ Oldest.job \in Jobs
           /\ Oldest.op \in Setters => Oldest.next \in Nat
<1>1. CallsTyped(calls, used) /\ calls \in Seq(CallRecords)
  BY DEF CronTypes, CallsTyped
<1>2. CallsTyped(Tail(calls), used) /\ Oldest \in CallRecords /\ (Oldest.op = "create" => Oldest.job \in used)
  BY <1>1, CallsServe DEF Oldest
<1>3. Oldest \in Range(calls)
  BY <1>1, TailIs DEF Oldest
<1> QED
  BY <1>2, <1>3, CallFields

\* The calls, one by one: a row is inserted, ...
LEMMA TypesOfCreate == ASSUME CronTypes, CreateDone PROVE CronTypes'
<1> DEFINE r == [enabled |-> TRUE, nextRun |-> Oldest.next]
           j == Oldest.job
<1>1. CallsTyped(Tail(calls), used) /\ Oldest.op = "create" /\ j \in used /\ Oldest.next \in Nat
  BY OldestIs DEF CreateDone, Pending, Setters
<1>2. r \in Records
  BY <1>1 DEF Records
<1>3. rows' = With(rows, j, r) /\ mem' = With(mem, j, r) /\ Rearm(mem') /\ calls' = Tail(calls)
  BY DEF CreateDone, CallServed
<1>4. UNCHANGED <<now, used, phase, tick, fire, queued, rounds, stalled>>
  BY DEF CreateDone
<1> HIDE DEF r, j
<1>5. Holds(rows') /\ DOMAIN rows' \subseteq used /\ Holds(mem') /\ DOMAIN mem' \subseteq used
  <2>1. Holds(rows) /\ Holds(mem) /\ DOMAIN rows \subseteq used /\ DOMAIN mem \subseteq used
    BY PlansTyped DEF CronTypes
  <2>2. Holds(With(rows, j, r)) /\ DOMAIN With(rows, j, r) = DOMAIN rows \union {j}
    BY <1>2, <2>1, WithIs
  <2>3. Holds(With(mem, j, r)) /\ DOMAIN With(mem, j, r) = DOMAIN mem \union {j}
    BY <1>2, <2>1, WithIs
  <2> QED
    BY <1>1, <1>3, <2>1, <2>2, <2>3
<1>6. TimerTyped(timer')
  BY <1>3, <1>5, RearmIs DEF Plans, Holds, TimerTyped, CronTypes
<1> QED
  BY <1>1, <1>3, <1>4, <1>5, <1>6 DEF CronTypes, Holds, TimerTyped

\* ... deleted, ...
LEMMA TypesOfDelete == ASSUME CronTypes, DeleteDone PROVE CronTypes'
<1>1. CallsTyped(Tail(calls), used) /\ calls' = Tail(calls)
      /\ UNCHANGED <<now, used, phase, tick, fire, rounds, stalled>>
  BY OldestIs DEF DeleteDone, Pending, CallServed
<1>2. CASE Has(rows, Oldest.job)
  <2> DEFINE j == Oldest.job
  <2>1. rows' = Without(rows, j) /\ mem' = Without(mem, j) /\ queued' = queued \ {j} /\ Rearm(mem')
    BY <1>2 DEF DeleteDone
  <2> HIDE DEF j
  <2>2. Holds(rows') /\ DOMAIN rows' \subseteq used /\ Holds(mem') /\ DOMAIN mem' \subseteq used
    BY <2>1, PlansTyped, WithoutIs DEF CronTypes
  <2>3. TimerTyped(timer')
    BY <2>1, <2>2, RearmIs DEF Plans, Holds, TimerTyped, CronTypes
  <2> QED
    BY <1>1, <2>1, <2>2, <2>3 DEF CronTypes, Holds, TimerTyped
<1>3. CASE ~Has(rows, Oldest.job)
  BY <1>1, <1>3 DEF CronTypes, DeleteDone
<1> QED
  BY <1>2, <1>3

\* A call that goes on to the next statement of its operation.
LEMMA ThenTyped ==
    ASSUME CronTypes, calls # <<>>, NEW c \in CallRecords, c.op # "create", Then(c)
    PROVE  CallsTyped(calls', used)
BY OldestIs, CallsGrow DEF Then

\* ... found, switched or changed, ...
LEMMA TypesOfFlag == ASSUME CronTypes, FindDone \/ FlagDone \/ PatchDone PROVE CronTypes'
<1>1. calls # <<>>
  BY DEF FindDone, FlagDone, PatchDone, Pending
<1>2. CallsTyped(Tail(calls), used) /\ Oldest \in CallRecords /\ Oldest.job \in Jobs
  BY <1>1, OldestIs
<1>3. CASE FindDone
  <2>1. CallsTyped(calls', used)
    <3>1. CASE Has(rows, Oldest.job)
      <4> DEFINE c == [Oldest EXCEPT !.op = "flag"]
      <4>1. Oldest.op = "find"
        BY <1>3 DEF FindDone, Pending
      <4>2. Oldest.on \in BOOLEAN /\ Oldest = [op |-> "find", job |-> Oldest.job, on |-> Oldest.on]
        BY <1>2, <4>1, CallFields
      <4>3. c = [op |-> "flag", job |-> Oldest.job, on |-> Oldest.on]
        BY <4>2
      <4>4. c \in CallRecords /\ c.op # "create"
        BY <1>2, <4>2, <4>3 DEF CallRecords
      <4>5. Then(c)
        BY <1>3, <3>1 DEF FindDone
      <4> HIDE DEF c
      <4> QED
        BY <1>1, <4>4, <4>5, ThenTyped
    <3>2. CASE ~Has(rows, Oldest.job)
      BY <1>2, <1>3, <3>2 DEF FindDone, CallServed
    <3> QED
      BY <3>1, <3>2
  <2> QED
    BY <1>3, <2>1 DEF CronTypes, FindDone
<1>4. CASE FlagDone
  <2> DEFINE c == [op |-> "read", job |-> Oldest.job, enable |-> Oldest.on]
  <2>1. Oldest.on \in BOOLEAN
    BY <1>2, <1>4, CallFields DEF FlagDone, Pending
  <2>2. c \in CallRecords /\ c.op # "create"
    BY <1>2, <2>1 DEF CallRecords
  <2>3. CallsTyped(calls', used)
    <3>1. Then(c)
      BY <1>4 DEF FlagDone
    <3> HIDE DEF c
    <3> QED
      BY <1>1, <2>2, <3>1, ThenTyped
  <2>4. Holds(rows') /\ DOMAIN rows' = DOMAIN rows
    <3>1. \A k \in DOMAIN rows : [rows[k] EXCEPT !.enabled = Oldest.on] \in Records /\ rows[k] \in Records
      BY <2>1, PlansTyped DEF Records
    <3>2. rows' = [k \in DOMAIN rows |-> IF k = Oldest.job THEN [rows[k] EXCEPT !.enabled = Oldest.on] ELSE rows[k]]
      BY <1>4 DEF FlagDone
    <3> QED
      BY <3>1, <3>2 DEF Holds
  <2> QED
    BY <1>4, <2>3, <2>4 DEF CronTypes, FlagDone, Holds
<1>5. CASE PatchDone
  <2> DEFINE c == [op |-> "read", job |-> Oldest.job, enable |-> FALSE]
  <2>1. Oldest.next \in Nat
    BY <1>2, <1>5, CallFields DEF PatchDone, Pending, Setters
  <2>2. c \in CallRecords /\ c.op # "create"
    BY <1>2 DEF CallRecords
  <2>3. CallsTyped(calls', used)
    <3>1. Then(c)
      BY <1>5 DEF PatchDone
    <3> HIDE DEF c
    <3> QED
      BY <1>1, <2>2, <3>1, ThenTyped
  <2>4. Holds(rows') /\ DOMAIN rows' = DOMAIN rows
    BY <1>5, <2>1, PlansTyped, PutIs DEF PatchDone
  <2> QED
    BY <1>5, <2>3, <2>4 DEF CronTypes, PatchDone, Holds
<1> QED
  BY <1>3, <1>4, <1>5

\* ... and read back into memory; ...
LEMMA TypesOfRead == ASSUME CronTypes, ReadDone PROVE CronTypes'
<1> DEFINE j == Oldest.job
           missed == /\ Oldest.enable /\ Enabled(rows, j) /\ phase = "up"
                     /\ fire[j] = "none" /\ rows[j].nextRun < now
<1>1. calls # <<>>
  BY DEF ReadDone, Pending
<1>2. CallsTyped(Tail(calls), used) /\ j \in Jobs
  BY <1>1, OldestIs
<1>3. Holds(mem') /\ DOMAIN mem' \subseteq used
  <2>1. mem' = IF Has(rows, j) THEN With(mem, j, rows[j]) ELSE mem
    BY DEF ReadDone
  <2> HIDE DEF j
  <2>2. CASE Has(rows, j)
    <3>1. j \in DOMAIN rows /\ rows[j] \in Records /\ j \in used /\ Holds(mem) /\ DOMAIN mem \subseteq used
      BY <2>2, PlansTyped DEF Has, CronTypes
    <3>2. Holds(With(mem, j, rows[j])) /\ DOMAIN With(mem, j, rows[j]) = DOMAIN mem \union {j}
      BY <3>1, WithIs
    <3> QED
      BY <2>1, <2>2, <3>1, <3>2
  <2>3. CASE ~Has(rows, j)
    BY <2>1, <2>3, PlansTyped DEF CronTypes
  <2> QED
    BY <2>2, <2>3
<1>4. TimerTyped(timer')
  <2>1. Rearm(mem') \/ timer' = timer
    BY DEF ReadDone
  <2>2. Rearm(mem') => TimerTyped(timer')
    BY <1>3, RearmIs DEF Plans, Holds, TimerTyped, CronTypes
  <2>3. TimerTyped(timer)
    BY DEF CronTypes, TimerTyped
  <2> QED
    BY <2>1, <2>2, <2>3
<1>5. CallsTyped(calls', used) /\ fire' \in [Jobs -> Fires]
  <2>1. CASE missed /\ j \in RunOnceJobs
    <3>1. fire' = [fire EXCEPT ![j] = "touch"] /\ Then(Touch(j, rows[j].nextRun))
      BY <2>1 DEF ReadDone
    <3>2. rows[j].nextRun \in Nat
      BY <2>1, PlansTyped DEF Enabled, Has
    <3> HIDE DEF j
    <3>3. Touch(j, rows[j].nextRun) \in CallRecords /\ Touch(j, rows[j].nextRun).op = "touch"
      BY <1>2, <3>2, TouchIs
    <3>4. CallsTyped(calls', used)
      BY <1>1, <3>1, <3>3, ThenTyped
    <3> QED
      BY <3>1, <3>4 DEF CronTypes, Fires
  <2>2. CASE missed /\ j \notin RunOnceJobs
    <3>1. fire' = fire /\ Then(Advance(j, now, "enable"))
      BY <2>2 DEF ReadDone
    <3> HIDE DEF j
    <3>2. Advance(j, now, "enable") \in CallRecords /\ Advance(j, now, "enable").op = "advance"
      BY <1>2, PlansTyped, AdvanceIs
    <3>3. CallsTyped(calls', used)
      BY <1>1, <3>1, <3>2, ThenTyped
    <3> QED
      BY <3>1, <3>3 DEF CronTypes
  <2>3. CASE ~missed
    BY <1>2, <2>3 DEF ReadDone, CallServed, CronTypes
  <2> QED
    BY <2>1, <2>2, <2>3
<1> QED
  BY <1>3, <1>4, <1>5 DEF CronTypes, ReadDone, Holds, TimerTyped

\* ... a fire has written its run, ...
LEMMA TypesOfTouch == ASSUME CronTypes, TouchDone PROVE CronTypes'
<1> DEFINE j == Oldest.job
<1>1. CallsTyped(Tail(calls), used) /\ j \in Jobs /\ Oldest.next \in Nat /\ Oldest.round \in Nat \union {-1}
  BY OldestIs, CallFields DEF TouchDone, Pending, Setters
<1>2. rows' = Put(rows, j, Oldest.next) /\ mem' = Put(mem, j, Oldest.next) /\ calls' = Tail(calls)
  BY DEF TouchDone, CallServed
<1>3. fire' \in [Jobs -> Fires]
  BY DEF TouchDone, CronTypes, Fires
<1>4. rounds' \in [Jobs -> Seq(Nat)]
  <2>1. CASE Oldest.round = -1
    BY <2>1 DEF TouchDone, CronTypes
  <2>2. CASE Oldest.round # -1
    <3>1. rounds' = [rounds EXCEPT ![j] = Append(@, Oldest.round)]
      BY <2>2 DEF TouchDone
    <3>2. Append(rounds[j], Oldest.round) \in Seq(Nat)
      BY <1>1, <2>2 DEF CronTypes
    <3> QED
      BY <3>1, <3>2 DEF CronTypes
  <2> QED
    BY <2>1, <2>2
<1> HIDE DEF j
<1>5. /\ Holds(rows') /\ DOMAIN rows' = DOMAIN rows
      /\ Holds(mem') /\ DOMAIN mem' = DOMAIN mem
  BY <1>1, <1>2, PlansTyped, PutIs
<1> QED
  BY <1>1, <1>2, <1>3, <1>4, <1>5 DEF CronTypes, TouchDone, Holds

\* ... and one is put off.
LEMMA TypesOfAdvance == ASSUME CronTypes, AdvanceDone PROVE CronTypes'
<1> DEFINE j == Oldest.job
<1>1. CallsTyped(Tail(calls), used) /\ j \in Jobs /\ Oldest.next \in Nat
  BY OldestIs DEF AdvanceDone, Pending, Setters
<1>2. rows' = Put(rows, j, Oldest.next) /\ mem' = Put(mem, j, Oldest.next)
  BY DEF AdvanceDone
<1> HIDE DEF j
<1>3. /\ Holds(rows') /\ DOMAIN rows' = DOMAIN rows
      /\ Holds(mem') /\ DOMAIN mem' = DOMAIN mem
  BY <1>1, <1>2, PlansTyped, PutIs
<1>4. fire' \in [Jobs -> Fires] /\ TickTypes(tick') /\ stalled' \in BOOLEAN /\ CallsTyped(calls', used)
  <2>1. CASE Oldest.by = "tick"
    <3>1. TickOn(tick.todo, tick.at, tick.again, Tail(calls))
      BY <2>1 DEF AdvanceDone
    <3>2. tick.todo \in Seq(Entries) /\ tick.at \in Nat /\ tick.again \in BOOLEAN
      BY DEF CronTypes, TickTypes
    <3> QED
      BY <1>1, <3>1, <3>2, TypesOfTick
  <2>2. CASE Oldest.by # "tick"
    BY <1>1, <2>2 DEF AdvanceDone, CallServed, CronTypes
  <2> QED
    BY <2>1, <2>2
<1>5. TimerTyped(timer')
  <2>1. Rearm(mem') \/ timer' = timer
    BY DEF AdvanceDone
  <2>2. Rearm(mem') => TimerTyped(timer')
    BY <1>3, RearmIs DEF Plans, Holds, TimerTyped, CronTypes
  <2>3. TimerTyped(timer)
    BY DEF CronTypes, TimerTyped
  <2> QED
    BY <2>1, <2>2, <2>3
<1> QED
  BY <1>3, <1>4, <1>5 DEF CronTypes, AdvanceDone, Holds, TimerTyped

Requested(j) == Schedule(j) \/ Unschedule(j) \/ Update(j) \/ RunNow(j) \/ \E on \in BOOLEAN : SetEnabled(j, on)

\* The steps by name.
LEMMA StepIs ==
    ASSUME CronNext
    PROVE  \/ TimePasses \/ Start \/ Started \/ Stop \/ ProcessEnds \/ TimerFires \/ TickAgain
           \/ CreateDone \/ DeleteDone \/ FindDone \/ FlagDone \/ PatchDone \/ ReadDone \/ TouchDone \/ AdvanceDone
           \/ \E j \in Jobs : FireEnds(j) \/ Requested(j)
BY DEF CronNext, StoreStep, Requested

\* Every step keeps the types.
LEMMA TypesKept == ASSUME CronTypes, CronNext PROVE CronTypes'
<1>1. CASE TimePasses
  BY <1>1 DEF CronTypes, TimePasses, scheduler
<1>2. CASE Started
  <2>1. TimerTyped(timer')
    BY <1>2, PlansTyped, TimerIs DEF Started, TimerTyped
  <2> QED
    BY <1>2, <2>1 DEF CronTypes, Started, TimerTyped
<1>3. CASE Stop
  BY <1>3 DEF CronTypes, Stop
<1>4. CASE ProcessEnds
  <2>1. CallsTyped(calls', used') /\ TickTypes(tick') /\ Holds(mem') /\ DOMAIN mem' = {}
    BY <1>4, NoCalls, NoTickTyped, NoneHolds DEF ProcessEnds
  <2> QED
    BY <1>4, <2>1 DEF CronTypes, ProcessEnds, Holds, Fires
<1>5. ASSUME NEW j \in Jobs, FireEnds(j) \/ Requested(j) PROVE CronTypes'
  BY <1>5, TypesOfFireEnds, TypesOfRequest DEF Requested
<1> QED
  BY <1>1, <1>2, <1>3, <1>4, <1>5, StepIs, TypesOfStart, TypesOfClock, TypesOfCreate, TypesOfDelete,
     TypesOfFlag, TypesOfRead, TypesOfTouch, TypesOfAdvance

-----------------------------------------------------------------------------
(* Cron: every step keeps memory in step with the store *)

\* What is under way is the work of a process that is not down.
LEMMA Running ==
    ASSUME CronTypes, AtRest, CronNext, ~TimePasses, ~Start, ~Started, ~Stop, ~ProcessEnds
    PROVE  phase' = phase /\ phase # "down" /\ (phase # "up" => timer' = {})
<1> DEFINE G == phase' = phase /\ phase # "down" /\ (phase # "up" => timer' = {})
<1>1. phase # "up" => timer = {}
  BY DEF AtRest
<1>2. ASSUME NEW m, Rearm(m), phase # "up" PROVE timer' = timer
  BY <1>2 DEF Rearm
<1>3. calls # <<>> => phase # "down"
  BY DEF AtRest
<1>4. CASE TimerFires \/ TickAgain
  <2>1. timer # {} \/ tick.pc = "again"
    BY <1>4 DEF TimerFires, TickAgain
  <2>2. phase = "down" => timer = {} /\ tick.pc = "idle"
    BY <1>1 DEF AtRest, NoTick
  <2>3. phase # "down"
    BY <2>1, <2>2
  <2> QED
    BY <1>1, <1>4, <2>3 DEF TimerFires, TickAgain
<1>5. ASSUME NEW j \in Jobs, FireEnds(j) \/ Requested(j) PROVE G
  <2>1. phase # "down"
    BY <1>5 DEF AtRest, FireEnds, Requested, Schedule, Unschedule, Update, RunNow, SetEnabled, Asked
  <2>2. phase' = phase
    BY <1>5 DEF FireEnds, Requested, Schedule, Unschedule, Update, RunNow, SetEnabled, Asked
  <2>3. timer' = timer \/ Rearm(mem)
    BY <1>5 DEF FireEnds, Requested, Schedule, Unschedule, Update, RunNow, SetEnabled, Asked
  <2> QED
    BY <1>1, <1>2, <2>1, <2>2, <2>3
<1>6. CASE CreateDone \/ DeleteDone \/ ReadDone \/ AdvanceDone
  <2>1. calls # <<>> /\ phase' = phase
    BY <1>6 DEF CreateDone, DeleteDone, ReadDone, AdvanceDone, Pending
  <2>2. timer' = timer \/ Rearm(mem')
    BY <1>6 DEF CreateDone, DeleteDone, ReadDone, AdvanceDone
  <2> QED
    BY <1>1, <1>3, <2>1, <2>2 DEF Rearm
<1>7. CASE FindDone \/ FlagDone \/ PatchDone \/ TouchDone
  BY <1>1, <1>3, <1>7 DEF FindDone, FlagDone, PatchDone, TouchDone, Pending
<1> QED
  BY <1>4, <1>5, <1>6, <1>7, StepIs

\* A process that is down stays at rest, and the timer is that of one that is up.
LEMMA RestKept == ASSUME CronTypes, AtRest, CronNext PROVE AtRest'
<1>1. CASE TimePasses \/ Start \/ Started \/ Stop \/ ProcessEnds
  BY <1>1 DEF AtRest, TimePasses, Start, Started, Stop, ProcessEnds, scheduler
<1>2. CASE ~(TimePasses \/ Start \/ Started \/ Stop \/ ProcessEnds)
  BY <1>2, Running DEF AtRest
<1> QED
  BY <1>1, <1>2

ReadPending(j) == \E c \in Range(calls) : c.op = "read" /\ c.job = j

\* A step that takes no read from the queue, and writes to no record of its own, keeps them equal.
LEMMA MirrorStays ==
    ASSUME Mirror, rows' = rows, mem' = mem, phase # "down",
           \A c \in Range(calls) : c.op = "read" => c \in Range(calls')
    PROVE  Mirror'
BY DEF Mirror

\* Memory and the store part only where a record is to be read back.
LEMMA MirrorKept == ASSUME CronTypes, AtRest, Mirror, CronNext PROVE Mirror'
<1>0. calls \in Seq(CallRecords) /\ CallsTyped(calls, used)
  BY DEF CronTypes, CallsTyped
<1>1. CASE TimePasses \/ Start \/ Started \/ Stop \/ ProcessEnds
  BY <1>1 DEF Mirror, TimePasses, Start, Started, Stop, ProcessEnds, scheduler
<1> DEFINE Rest == \A c \in Range(calls) : c.op = "read" => c \in Range(calls')
<1>2. ASSUME NEW c \in CallRecords, calls' = Append(calls, c) PROVE Rest
  BY <1>0, <1>2, AppendIs
<1>3. ASSUME NEW todo \in Seq(Entries), NEW at \in Nat, NEW again \in BOOLEAN, TickOn(todo, at, again, calls)
      PROVE  Rest
  <2>1. PICK T \in Seq(CallRecords) : calls' = calls \o T
    BY <1>0, <1>3, TickIs
  <2>2. Range(calls') = Range(calls) \union Range(T)
    BY <1>0, <2>1, JoinIs
  <2> QED
    BY <2>2
<1>4. ASSUME calls # <<>>, Oldest.op # "read" PROVE \A c \in Range(calls) : c.op = "read" => c \in Range(Tail(calls))
  BY <1>0, <1>4, TailIs DEF Oldest
<1>5. ASSUME calls # <<>>, NEW c \in CallRecords, Then(c)
      PROVE  \A b : b \in Range(calls') <=> b \in Range(Tail(calls)) \/ b = c
  <2>1. Tail(calls) \in Seq(CallRecords)
    BY <1>0, <1>5, TailIs
  <2> QED
    BY <1>5, <2>1, AppendIs DEF Then
<1>6. CASE TimerFires \/ TickAgain
  <2>1. Due(mem) \in Seq(Entries) /\ now \in Nat
    BY PlansTyped, DueIs
  <2>2. Rest
    BY <1>3, <1>6, <2>1 DEF TimerFires, TickAgain
  <2>3. rows' = rows /\ mem' = mem
    BY <1>6 DEF TimerFires, TickAgain
  <2>4. timer # {} \/ tick.pc = "again"
    BY <1>6 DEF TimerFires, TickAgain
  <2>5. phase # "down"
    BY <2>4 DEF AtRest, NoTick
  <2> QED
    BY <2>2, <2>3, <2>5, MirrorStays
<1>7. ASSUME NEW j \in Jobs, FireEnds(j) \/ Requested(j) PROVE Mirror'
  <2>1. CallsTyped(calls', used') /\ calls' \in Seq(CallRecords)
    BY <1>7, TypesOfFireEnds, TypesOfRequest DEF Requested, CronTypes, CallsTyped
  <2>2. calls' = calls \/ \E c : calls' = Append(calls, c)
    BY <1>7 DEF FireEnds, Requested, Schedule, Unschedule, Update, RunNow, SetEnabled, Call
  <2>3. Rest
    <3>1. CASE calls' = calls
      BY <3>1
    <3>2. ASSUME NEW c, calls' = Append(calls, c) PROVE Rest
      <4>1. c \in CallRecords
        <5>1. Len(calls) \in Nat /\ Len(calls') = Len(calls) + 1 /\ calls'[Len(calls) + 1] = c
          BY <1>0, <3>2
        <5> QED
          BY <2>1, <5>1
      <4> QED
        BY <1>2, <3>2, <4>1
    <3> QED
      BY <2>2, <3>1, <3>2
  <2>4. phase # "down" /\ rows' = rows /\ mem' = mem
    BY <1>7 DEF AtRest, FireEnds, Requested, Schedule, Unschedule, Update, RunNow, SetEnabled, Asked
  <2> QED
    BY <2>3, <2>4, MirrorStays
<1>8. CASE StoreStep
  <2> DEFINE j == Oldest.job
  <2>0. calls # <<>> /\ phase' = phase /\ phase # "down"
    BY <1>8 DEF StoreStep, CreateDone, DeleteDone, FindDone, FlagDone, PatchDone, ReadDone, TouchDone,
                AdvanceDone, Pending, AtRest
  <2>1. CronTypes'
    BY TypesKept
  <2>2. DOMAIN mem = DOMAIN rows /\ \A k \in DOMAIN rows : mem[k] # rows[k] => ReadPending(k)
    BY <2>0 DEF Mirror, ReadPending
  <2>3. Oldest \in CallRecords /\ j \in Jobs /\ (Oldest.op \in Setters => Oldest.next \in Nat)
    BY <2>0, OldestIs
  <2>4. Holds(mem) /\ Holds(rows)
    BY PlansTyped
  <2>5. Mirror' <=> (DOMAIN mem' = DOMAIN rows' /\ \A k \in DOMAIN rows' : mem'[k] # rows'[k] => ReadPending(k)')
    BY <2>0 DEF Mirror, ReadPending
  <2>6. ASSUME NEW k, ReadPending(k), Oldest.op # "read", \A c \in Range(Tail(calls)) : c \in Range(calls')
        PROVE  ReadPending(k)'
    BY <1>4, <2>0, <2>6 DEF ReadPending
  <2>7. CASE CreateDone
    <3> DEFINE r == [enabled |-> TRUE, nextRun |-> Oldest.next]
    <3>1. Oldest.op = "create" /\ rows' = With(rows, j, r) /\ mem' = With(mem, j, r) /\ calls' = Tail(calls)
      BY <2>7 DEF CreateDone, Pending, CallServed
    <3>2. r \in Records
      BY <2>3, <3>1 DEF Records, Setters
    <3> HIDE DEF r, j
    <3>3. /\ DOMAIN With(rows, j, r) = DOMAIN rows \union {j} /\ With(rows, j, r)[j] = r
          /\ \A k \in DOMAIN rows : k # j => With(rows, j, r)[k] = rows[k]
      BY DEF With
    <3>4. /\ DOMAIN With(mem, j, r) = DOMAIN mem \union {j} /\ With(mem, j, r)[j] = r
          /\ \A k \in DOMAIN mem : k # j => With(mem, j, r)[k] = mem[k]
      BY DEF With
    <3>5. ASSUME NEW k \in DOMAIN rows', mem'[k] # rows'[k] PROVE ReadPending(k)'
      <4>1. k \in DOMAIN rows /\ mem[k] # rows[k]
        BY <2>2, <3>1, <3>3, <3>4, <3>5
      <4> QED
        BY <2>2, <2>6, <3>1, <4>1
    <3> QED
      BY <2>2, <2>5, <3>1, <3>3, <3>4, <3>5
  <2>8. CASE DeleteDone
    <3>0. Oldest.op = "delete" /\ calls' = Tail(calls)
      BY <2>8 DEF DeleteDone, Pending, CallServed
    <3>1. CASE Has(rows, j)
      <4>1. rows' = Without(rows, j) /\ mem' = Without(mem, j)
        BY <2>8, <3>1 DEF DeleteDone
      <4> HIDE DEF j
      <4>2. /\ DOMAIN rows' = DOMAIN rows \ {j} /\ \A k \in DOMAIN rows \ {j} : rows'[k] = rows[k]
            /\ DOMAIN mem' = DOMAIN mem \ {j} /\ \A k \in DOMAIN mem \ {j} : mem'[k] = mem[k]
        BY <2>4, <4>1, WithoutIs
      <4>3. ASSUME NEW k \in DOMAIN rows', mem'[k] # rows'[k] PROVE ReadPending(k)'
        BY <2>2, <2>6, <3>0, <4>2, <4>3
      <4> QED
        BY <2>2, <2>5, <4>2, <4>3
    <3>2. CASE ~Has(rows, j)
      <4>1. rows' = rows /\ mem' = mem
        BY <2>8, <3>2 DEF DeleteDone
      <4>2. ASSUME NEW k \in DOMAIN rows', mem'[k] # rows'[k] PROVE ReadPending(k)'
        BY <2>2, <2>6, <3>0, <4>1, <4>2
      <4> QED
        BY <2>2, <2>5, <4>1, <4>2
    <3> QED
      BY <3>1, <3>2
  <2>9. CASE FindDone
    <3>1. \A c \in Range(Tail(calls)) : c \in Range(calls')
      <4>1. CASE Has(rows, j)
        <5> DEFINE c == [Oldest EXCEPT !.op = "flag"]
        <5>1. Oldest.on \in BOOLEAN /\ Oldest = [op |-> "find", job |-> j, on |-> Oldest.on]
          BY <2>3, <2>9, CallFields DEF FindDone, Pending
        <5>2. c = [op |-> "flag", job |-> j, on |-> Oldest.on]
          BY <5>1
        <5>3. c \in CallRecords
          BY <2>3, <5>1, <5>2 DEF CallRecords
        <5>4. Then(c)
          BY <2>9, <4>1 DEF FindDone
        <5> HIDE DEF c
        <5> QED
          BY <1>5, <2>0, <5>3, <5>4
      <4>2. CASE ~Has(rows, j)
        BY <2>9, <4>2 DEF FindDone, CallServed
      <4> QED
        BY <4>1, <4>2
    <3>2. Oldest.op = "find" /\ rows' = rows /\ mem' = mem
      BY <2>9 DEF FindDone, Pending
    <3>3. ASSUME NEW k \in DOMAIN rows', mem'[k] # rows'[k] PROVE ReadPending(k)'
      BY <2>2, <2>6, <3>1, <3>2, <3>3
    <3> QED
      BY <2>2, <2>5, <3>2, <3>3
  <2>10. CASE FlagDone \/ PatchDone
    <3>1. PICK e \in BOOLEAN : Then([op |-> "read", job |-> j, enable |-> e])
      BY <2>3, <2>10, CallFields DEF FlagDone, PatchDone, Pending
    <3> DEFINE c == [op |-> "read", job |-> j, enable |-> e]
    <3>2. c \in CallRecords
      BY <2>3 DEF CallRecords
    <3>3. c.op = "read" /\ c.job = j
      OBVIOUS
    <3>4. Then(c)
      BY <3>1
    <3>5. Oldest.op # "read" /\ mem' = mem
      BY <2>10 DEF FlagDone, PatchDone, Pending
    <3>6. DOMAIN rows' = DOMAIN rows /\ \A k \in DOMAIN rows : k # j => rows'[k] = rows[k]
      <4>1. CASE FlagDone
        BY <4>1 DEF FlagDone
      <4>2. CASE PatchDone
        BY <4>2 DEF PatchDone, Put
      <4> QED
        BY <2>10, <4>1, <4>2
    <3> HIDE DEF c, j
    <3>7. \A b : b \in Range(calls') <=> b \in Range(Tail(calls)) \/ b = c
      BY <1>5, <2>0, <3>2, <3>4
    <3>8. ASSUME NEW k \in DOMAIN rows', mem'[k] # rows'[k] PROVE ReadPending(k)'
      <4>1. CASE k = j
        BY <3>3, <3>7, <4>1 DEF ReadPending
      <4>2. CASE k # j
        BY <2>2, <2>6, <3>5, <3>6, <3>7, <3>8, <4>2
      <4> QED
        BY <4>1, <4>2
    <3> QED
      BY <2>2, <2>5, <3>5, <3>6, <3>8
  <2>11. CASE ReadDone
    <3>1. rows' = rows /\ mem' = IF Has(rows, j) THEN With(mem, j, rows[j]) ELSE mem
      BY <2>11 DEF ReadDone
    <3>2. \A c \in Range(Tail(calls)) : c \in Range(calls')
      <4>1. Touch(j, rows[j].nextRun) \in CallRecords \/ ~(j \in DOMAIN rows)
        BY <2>3, PlansTyped, TouchIs
      <4>2. Advance(j, now, "enable") \in CallRecords
        BY <2>3, PlansTyped, AdvanceIs
      <4>3. \/ j \in DOMAIN rows /\ Then(Touch(j, rows[j].nextRun))
            \/ Then(Advance(j, now, "enable"))
            \/ calls' = Tail(calls)
        BY <2>11 DEF ReadDone, Enabled, Has, CallServed
      <4> HIDE DEF j
      <4> QED
        BY <1>5, <2>0, <4>1, <4>2, <4>3
    <3>3. \A c \in Range(calls) : c = Oldest \/ c \in Range(Tail(calls))
      BY <1>0, <2>0, TailIs DEF Oldest
    <3> HIDE DEF j
    <3>4. DOMAIN mem' = DOMAIN rows' /\ \A k \in DOMAIN rows' : mem'[k] # rows'[k] => k # j /\ mem[k] # rows[k]
      <4>1. CASE Has(rows, j)
        <5>1. j \in DOMAIN rows /\ rows[j] \in Records
          BY <4>1, PlansTyped DEF Has
        <5>2. /\ DOMAIN With(mem, j, rows[j]) = DOMAIN mem \union {j} /\ With(mem, j, rows[j])[j] = rows[j]
              /\ \A k \in DOMAIN mem : k # j => With(mem, j, rows[j])[k] = mem[k]
          BY DEF With
        <5> QED
          BY <2>2, <3>1, <4>1, <5>1, <5>2
      <4>2. CASE ~Has(rows, j)
        BY <2>2, <3>1, <4>2 DEF Has
      <4> QED
        BY <4>1, <4>2
    <3>5. ASSUME NEW k \in DOMAIN rows', mem'[k] # rows'[k] PROVE ReadPending(k)'
      <4>1. k \in DOMAIN rows /\ k # j /\ mem[k] # rows[k]
        BY <3>1, <3>4, <3>5
      <4>2. PICK c \in Range(calls) : c.op = "read" /\ c.job = k
        BY <2>2, <4>1 DEF ReadPending
      <4>3. c # Oldest
        BY <4>1, <4>2 DEF j
      <4> QED
        BY <3>2, <3>3, <4>2, <4>3 DEF ReadPending
    <3> QED
      BY <2>5, <3>4, <3>5
  <2>12. CASE TouchDone \/ AdvanceDone
    <3>1. rows' = Put(rows, j, Oldest.next) /\ mem' = Put(mem, j, Oldest.next)
      BY <2>12 DEF TouchDone, AdvanceDone
    <3>2. Oldest.op \in {"touch", "advance"} /\ Oldest.next \in Nat
      BY <2>3, <2>12 DEF TouchDone, AdvanceDone, Pending, Setters
    <3>3. \A c \in Range(Tail(calls)) : c \in Range(calls')
      <4>1. CASE calls' = Tail(calls)
        BY <4>1
      <4>2. CASE TickOn(tick.todo, tick.at, tick.again, Tail(calls))
        <5>1. tick.todo \in Seq(Entries) /\ tick.at \in Nat /\ tick.again \in BOOLEAN
          BY DEF CronTypes, TickTypes
        <5>2. Tail(calls) \in Seq(CallRecords)
          BY <1>0, <2>0, TailIs
        <5>3. PICK T \in Seq(CallRecords) : calls' = Tail(calls) \o T
          BY <4>2, <5>1, <5>2, TickIs
        <5>4. Range(calls') = Range(Tail(calls)) \union Range(T)
          BY <5>2, <5>3, JoinIs
        <5> QED
          BY <5>4, Zenon
      <4> QED
        BY <2>12, <4>1, <4>2 DEF TouchDone, AdvanceDone, CallServed
    <3> HIDE DEF j
    <3>4. /\ DOMAIN Put(rows, j, Oldest.next) = DOMAIN rows
          /\ \A k \in DOMAIN rows : k # j => Put(rows, j, Oldest.next)[k] = rows[k]
          /\ j \in DOMAIN rows => Put(rows, j, Oldest.next)[j] = [enabled |-> rows[j].enabled, nextRun |-> Oldest.next]
      BY <2>4, <3>2, PutIs
    <3>5. /\ DOMAIN Put(mem, j, Oldest.next) = DOMAIN mem
          /\ \A k \in DOMAIN mem : k # j => Put(mem, j, Oldest.next)[k] = mem[k]
          /\ j \in DOMAIN mem => Put(mem, j, Oldest.next)[j] = [enabled |-> mem[j].enabled, nextRun |-> Oldest.next]
      BY <2>4, <3>2, PutIs
    <3>6. ASSUME NEW k \in DOMAIN rows', mem'[k] # rows'[k] PROVE ReadPending(k)'
      <4>1. k \in DOMAIN rows /\ mem[k] # rows[k]
        BY <2>2, <3>1, <3>4, <3>5, <3>6
      <4> QED
        BY <2>2, <2>6, <3>2, <3>3, <4>1
    <3> QED
      BY <2>2, <2>5, <3>1, <3>4, <3>5, <3>6
  <2> QED
    BY <1>8, <2>7, <2>8, <2>9, <2>10, <2>11, <2>12 DEF StoreStep
<1> QED
  BY <1>1, <1>6, <1>7, <1>8, StepIs DEF StoreStep

-----------------------------------------------------------------------------
(* Cron: every step keeps the rounds in order, and the scheduler awake *)

\* A call that a step adds to the queue.
Fresh(c) ==
    /\ c.op \in Setters => now < c.next /\ c.next <= now + Period[c.job]
    /\ c.op = "touch" =>
         /\ fire[c.job] # "touch" /\ fire'[c.job] = "touch" /\ c.round <= now
         /\ c.round # -1 => \A n \in DOMAIN rounds[c.job] : rounds[c.job][n] < c.round
    /\ c.op = "advance" => c.by # "tick" /\ (c.by = "start" => phase' = "starting")

\* The queue, and what the step has in hand, fit the state that it leads to.
Queued ==
    (\A c \in Range(calls') : Fits(c)') /\ InOrder(calls')

\* What was waiting and what the step adds fit what the step leads to.
LEMMA QueueKept ==
    ASSUME CronTypes, RoundsOK, now' = now, rounds' = rounds,
           NEW s \in Seq(CallRecords), Range(s) \subseteq Range(calls), InOrder(s),
           NEW t \in Seq(CallRecords), InOrder(t), calls' = s \o t,
           \A c \in Range(s) : c.op = "touch" => fire'[c.job] = "touch",
           \A c \in Range(s) : c.op = "advance" => (c.by = "start" => phase' = "starting"),
           \A c \in Range(t) : Fresh(c)
    PROVE  Queued
<1>1. calls' \in Seq(CallRecords) /\ Range(calls') = Range(s) \union Range(t)
  BY JoinIs
<1>2. \A c \in Range(s) : Fits(c) /\ c \in CallRecords
  BY DEF RoundsOK, Range
<1>3. \A c \in Range(t) : c \in CallRecords
  BY DEF Range
<1>4. now \in Nat /\ \A j \in Jobs : rounds[j] \in Seq(Nat) /\ \A n \in DOMAIN rounds[j] : rounds[j][n] \in Nat /\ rounds[j][n] <= now
  BY DEF CronTypes, RoundsOK
<1>5. ASSUME NEW c \in Range(s) PROVE Fits(c)'
  BY <1>2, <1>5 DEF Fits
<1>6. ASSUME NEW c \in Range(t) PROVE Fits(c)'
  <2>1. c.job \in Jobs /\ (c.op \in Setters => c.next \in Nat) /\ (c.op = "touch" => c.round \in Nat \union {-1})
    BY <1>3, CallFields
  <2>2. Fresh(c) /\ Period[c.job] \in Nat
    BY <2>1, PeriodsAre
  <2>3. c.op \in Setters => \A j \in Jobs : \A n \in DOMAIN rounds[j] : rounds[j][n] < c.next
    BY <1>4, <2>1, <2>2 DEF Fresh
  <2>4. c.op = "touch" => c.op \in Setters
    BY DEF Setters
  <2>5. c.op = "touch" => c.round < c.next
    BY <1>4, <2>1, <2>2, <2>4 DEF Fresh
  <2> QED
    BY <2>2, <2>3, <2>5 DEF Fresh, Fits
<1>7. ASSUME NEW b \in Range(s), NEW c \in Range(t) PROVE Precedes(b, c)
  <2>1. b \in CallRecords /\ c \in CallRecords /\ Fits(b) /\ Fresh(c)
    BY <1>2, <1>3
  <2>2. (c.op \in Setters => c.next \in Nat) /\ (b.op = "touch" => b.round \in Nat \union {-1})
    BY <2>1, CallFields
  <2>3. b.op = "touch" => b.round <= now /\ fire[b.job] = "touch"
    BY <2>1 DEF Fits
  <2>4. b.op = "touch" /\ c.op \in Setters => b.round < c.next
    BY <1>4, <2>1, <2>2, <2>3 DEF Fresh
  <2> QED
    BY <2>1, <2>3, <2>4 DEF Fresh, Precedes
<1>8. InOrder(calls')
  BY <1>7, JoinInOrder
<1> QED
  BY <1>1, <1>5, <1>6, <1>8 DEF Queued

\* What there was, or what is left when the oldest call is done.
LEMMA LeftIs ==
    ASSUME CronTypes, RoundsOK, NEW s, s = calls \/ (calls # <<>> /\ s = Tail(calls))
    PROVE  s \in Seq(CallRecords) /\ Range(s) \subseteq Range(calls) /\ InOrder(s)
<1>1. calls \in Seq(CallRecords) /\ InOrder(calls)
  BY DEF CronTypes, CallsTyped, RoundsOK
<1>2. CASE s = calls
  BY <1>1, <1>2
<1>3. CASE calls # <<>> /\ s = Tail(calls)
  <2>1. Tail(calls) \in Seq(CallRecords) /\ Range(Tail(calls)) \subseteq Range(calls)
    BY <1>1, <1>3, TailIs
  <2>2. InOrder(Tail(calls))
    BY <1>1, <1>3, TailInOrder
  <2> QED
    BY <1>3, <2>1, <2>2
<1> QED
  BY <1>2, <1>3

\* A step that adds nothing.
LEMMA QueueStays ==
    ASSUME CronTypes, RoundsOK, now' = now, rounds' = rounds, calls' = calls \/ (calls # <<>> /\ calls' = Tail(calls)),
           \A c \in Range(calls') : c.op = "touch" => fire'[c.job] = "touch",
           \A c \in Range(calls') : c.op = "advance" => (c.by = "start" => phase' = "starting")
    PROVE  Queued
<1> DEFINE s == calls'
<1>2. s \in Seq(CallRecords) /\ Range(s) \subseteq Range(calls) /\ InOrder(s)
  BY LeftIs
<1>3. \A t \in Seq(CallRecords) : t \o <<>> = t
  OBVIOUS
<1>4. <<>> \in Seq(CallRecords) /\ Range(<<>>) = {} /\ InOrder(<<>>)
  BY DEF Range, InOrder
<1>5. calls' = s \o <<>>
  BY <1>2, <1>3
<1>6. \A c \in Range(<<>>) : Fresh(c)
  BY <1>4
<1>7. /\ \A c \in Range(s) : c.op = "touch" => fire'[c.job] = "touch"
      /\ \A c \in Range(s) : c.op = "advance" => (c.by = "start" => phase' = "starting")
  OBVIOUS
<1> HIDE DEF s
<1> QED
  BY <1>2, <1>4, <1>5, <1>6, <1>7, QueueKept

\* A step that adds one call at the end of what there was, or of what is left.
LEMMA QueueGrows ==
    ASSUME CronTypes, RoundsOK, now' = now, rounds' = rounds,
           NEW s, s = calls \/ (calls # <<>> /\ s = Tail(calls)),
           NEW c \in CallRecords, Fresh(c), calls' = Append(s, c),
           \A b \in Range(s) : b.op = "touch" => fire'[b.job] = "touch", phase' = phase
    PROVE  Queued
<1>2. s \in Seq(CallRecords) /\ Range(s) \subseteq Range(calls) /\ InOrder(s)
  BY LeftIs
<1>3. <<c>> \in Seq(CallRecords) /\ Range(<<c>>) = {c} /\ InOrder(<<c>>)
  BY OneIs
<1>4. calls' = s \o <<c>>
  BY <1>2, AppendIs
<1>5. \A b \in Range(s) : b.op = "advance" => (b.by = "start" => phase' = "starting")
  BY <1>2 DEF RoundsOK, Fits
<1>6. \A b \in Range(<<c>>) : Fresh(b)
  BY <1>3
<1> QED
  BY <1>2, <1>3, <1>4, <1>5, <1>6, QueueKept

Planned(m) == Timely(m) /\ Ahead(m)
Increases == \A j \in Jobs : \A i \in 2..Len(rounds[j]) : rounds[j][i - 1] < rounds[j][i]
Past == \A j \in Jobs : \A n \in DOMAIN rounds[j] : rounds[j][n] <= now

\* A step that fires nothing keeps the rounds if it keeps the queue and the plans.
LEMMA RoundsFrom ==
    ASSUME RoundsOK, now' = now, rounds' = rounds, tick' = NoTick, Queued, Planned(rows'), Planned(mem')
    PROVE  RoundsOK'
<1>1. Timely(rows)' /\ Ahead(rows)' /\ Timely(mem)' /\ Ahead(mem)'
  BY DEF Planned, Timely, Ahead
<1>2. (\A c \in Range(calls) : Fits(c))' /\ InOrder(calls)'
  BY DEF Queued, InOrder, Precedes
<1> QED
  BY <1>1, <1>2 DEF RoundsOK

\* The invariant in the words of these lemmas.
LEMMA PlannedIs == RoundsOK => Planned(rows) /\ Planned(mem) /\ Past /\ Increases
BY DEF RoundsOK, Planned, Past, Increases

\* A plan stays one when a run ahead is put in, ...
LEMMA PutPlanned ==
    ASSUME NEW m, Planned(m), NEW j, NEW t, t <= now + Period[j], \A n \in DOMAIN rounds[j] : rounds[j][n] < t
    PROVE  Holds(m) => Planned(Put(m, j, t))
<1>1. ASSUME Holds(m) PROVE Planned(Put(m, j, t))
  <2>1. \A k \in DOMAIN m : [m[k] EXCEPT !.nextRun = t] = [enabled |-> m[k].enabled, nextRun |-> t]
    BY <1>1 DEF Holds, Records
  <2>2. Put(m, j, t) = [k \in DOMAIN m |-> IF k = j THEN [m[k] EXCEPT !.nextRun = t] ELSE m[k]]
    BY DEF Put
  <2> QED
    BY <2>1, <2>2 DEF Planned, Timely, Ahead
<1> QED
  BY <1>1

\* ... when a record with one is, ...
LEMMA WithPlanned ==
    ASSUME NEW m, Planned(m), NEW j, NEW r, r.nextRun <= now + Period[j], \A n \in DOMAIN rounds[j] : rounds[j][n] < r.nextRun
    PROVE  Planned(With(m, j, r))
BY DEF Planned, Timely, Ahead, With

\* ... and when a job is taken out.
LEMMA WithoutPlanned == ASSUME NEW m, Planned(m), NEW j PROVE Planned(Without(m, j))
BY DEF Planned, Timely, Ahead, Without

\* A scheduler whose tick has waited is marked for good.
LEMMA StalledStays == ASSUME CronTypes, CronNext, stalled PROVE stalled'
<1>1. now \in Nat /\ Due(mem) \in Seq(Entries) /\ calls \in Seq(CallRecords)
  BY PlansTyped, DueIs DEF CronTypes, CallsTyped
<1>2. CASE TimerFires \/ TickAgain
  <2>1. stalled' = stalled \/ TickOn(Due(mem), now, FALSE, calls)
    BY <1>2 DEF TimerFires, TickAgain
  <2> QED
    BY <1>1, <2>1, TickIs
<1>3. CASE AdvanceDone
  <2>1. tick.todo \in Seq(Entries) /\ tick.at \in Nat /\ tick.again \in BOOLEAN
    BY DEF CronTypes, TickTypes
  <2>2. Tail(calls) \in Seq(CallRecords)
    BY <1>1, <1>3, TailIs DEF AdvanceDone, Pending
  <2>3. stalled' = stalled \/ TickOn(tick.todo, tick.at, tick.again, Tail(calls))
    BY <1>3 DEF AdvanceDone
  <2> QED
    BY <2>1, <2>2, <2>3, TickIs
<1>4. CASE TimePasses \/ Start \/ Started \/ Stop \/ ProcessEnds
  BY <1>4 DEF TimePasses, Start, Started, Stop, ProcessEnds, scheduler
<1>5. ASSUME NEW j \in Jobs, FireEnds(j) \/ Requested(j) PROVE stalled'
  BY <1>5 DEF FireEnds, Requested, Schedule, Unschedule, Update, RunNow, SetEnabled, Asked
<1>6. CASE CreateDone \/ DeleteDone \/ FindDone \/ FlagDone \/ PatchDone \/ ReadDone \/ TouchDone
  BY <1>6 DEF CreateDone, DeleteDone, FindDone, FlagDone, PatchDone, ReadDone, TouchDone
<1> QED
  BY <1>2, <1>3, <1>4, <1>5, <1>6, StepIs

\* What the facts on rounds say of one job.
LEMMA RoundFacts ==
    ASSUME CronTypes, RoundsOK
    PROVE  /\ now \in Nat /\ tick = NoTick /\ tick.pc = "idle"
           /\ \A j \in Jobs : /\ rounds[j] \in Seq(Nat)
                              /\ \A n \in DOMAIN rounds[j] : rounds[j][n] \in Nat /\ rounds[j][n] <= now
           /\ \A c \in Range(calls) : c \in CallRecords /\ Fits(c)
           /\ InOrder(calls) /\ calls \in Seq(CallRecords)
<1>1. calls \in Seq(CallRecords)
  BY DEF CronTypes, CallsTyped
<1> QED
  BY <1>1 DEF CronTypes, RoundsOK, NoTick, Range

\* The clock.
LEMMA RoundsOfTime == ASSUME CronTypes, RoundsOK, TimePasses PROVE RoundsOK'
<1>1. now' = now + 1 /\ UNCHANGED <<rows, mem, tick, fire, phase, calls, rounds>>
  BY DEF TimePasses, scheduler
<1>2. now \in Nat /\ now <= now' /\ now' \in Nat
  BY <1>1, RoundFacts
<1>3. Timely(rows)' /\ Timely(mem)' /\ Ahead(rows)' /\ Ahead(mem)'
  <2>1. ASSUME NEW m, Plans(m), Timely(m) PROVE \A j \in DOMAIN m : m[j].nextRun <= now' + Period[j]
    <3>1. \A j \in DOMAIN m : m[j].nextRun \in Nat /\ Period[j] \in Nat /\ m[j].nextRun <= now + Period[j]
      BY <2>1, PeriodsAre DEF Plans, Records, Timely
    <3> QED
      BY <1>1, <1>2, <3>1
  <2>2. /\ \A j \in DOMAIN rows : rows[j].nextRun <= now' + Period[j]
        /\ \A j \in DOMAIN mem : mem[j].nextRun <= now' + Period[j]
    BY <2>1, PlansTyped DEF RoundsOK
  <2> QED
    BY <1>1, <2>2 DEF RoundsOK, Timely, Ahead
<1>4. ASSUME NEW c \in Range(calls) PROVE Fits(c)'
  <2>1. c \in CallRecords /\ Fits(c)
    BY RoundFacts
  <2>2. /\ c.job \in Jobs /\ (c.op \in Setters => c.next \in Nat) /\ (c.op = "touch" => c.round \in Nat \union {-1})
        /\ Period[c.job] \in Nat
    BY <2>1, CallFields, PeriodsAre
  <2>3. c.op \in Setters => c.next <= now' + Period[c.job]
    BY <1>1, <1>2, <2>1, <2>2 DEF Fits
  <2>4. c.op = "touch" => c.round <= now'
    BY <1>1, <1>2, <2>1, <2>2 DEF Fits
  <2> QED
    BY <1>1, <2>1, <2>3, <2>4 DEF Fits
<1>5. (\A c \in Range(calls) : Fits(c))'
  BY <1>1, <1>4
<1>6. (\A j \in Jobs : \A n \in DOMAIN rounds[j] : rounds[j][n] <= now)'
  BY <1>1, <1>2, RoundFacts
<1>7. InOrder(calls)'
  BY <1>1 DEF RoundsOK, InOrder, Precedes
<1> QED
  BY <1>1, <1>3, <1>5, <1>6, <1>7 DEF RoundsOK

\* start(): a missed run is made up for once, or put off.
LEMMA RoundsOfStart == ASSUME CronTypes, AtRest, RoundsOK, Start PROVE RoundsOK'
<1> DEFINE S == {j \in DOMAIN rows : rows[j].enabled /\ rows[j].nextRun < now}
           missed == Ascending(S)
           Late(j) == IF j \in RunOnceJobs THEN Touch(j, rows[j].nextRun) ELSE Advance(j, now, "start")
           t == [i \in DOMAIN missed |-> Late(missed[i])]
<1>1. /\ calls' = t /\ mem' = rows /\ rows' = rows /\ now' = now /\ rounds' = rounds /\ tick' = NoTick
      /\ phase' = "starting" /\ phase = "down"
  BY RoundFacts DEF Start
<1>2. fire' = [j \in Jobs |-> IF \E i \in DOMAIN calls' : calls'[i].job = j /\ calls'[i].op = "touch"
                              THEN "touch" ELSE "none"]
  BY DEF Start
<1>3. S \subseteq Jobs /\ S \subseteq Nat /\ IsFiniteSet(S)
  <2>1. S \subseteq DOMAIN rows /\ DOMAIN rows \subseteq Jobs /\ Jobs \subseteq Nat /\ IsFiniteSet(Jobs)
    BY JobsFinite DEF CronTypes
  <2> HIDE DEF S
  <2> QED
    BY <2>1, FS_Subset
<1>4. /\ missed \in Seq(S) /\ DOMAIN missed = 1..Len(missed)
      /\ \A i, k \in DOMAIN missed : i # k => missed[i] # missed[k]
  <2> HIDE DEF S
  <2> QED
    BY <1>3, AscendingIs
<1>5. calls = <<>> /\ fire = [j \in Jobs |-> "none"]
  BY <1>1 DEF AtRest
<1>6. ASSUME NEW j \in S
      PROVE  /\ Late(j) \in CallRecords /\ Late(j).job = j /\ Late(j).op \in {"touch", "advance"}
             /\ now < Late(j).next /\ Late(j).next <= now + Period[j]
             /\ Late(j).op = "touch" => Late(j).round = rows[j].nextRun /\ Late(j).round < now
             /\ Late(j).op = "advance" => Late(j).by = "start"
  <2>1. j \in Jobs /\ now \in Nat /\ rows[j].nextRun \in Nat /\ rows[j].nextRun < now
    BY <1>3, PlansTyped
  <2>2. /\ Touch(j, rows[j].nextRun) \in CallRecords /\ Touch(j, rows[j].nextRun).op = "touch"
        /\ Touch(j, rows[j].nextRun).job = j /\ Touch(j, rows[j].nextRun).round = rows[j].nextRun
        /\ now < Touch(j, rows[j].nextRun).next /\ Touch(j, rows[j].nextRun).next <= now + Period[j]
    BY <2>1, TouchIs
  <2>3. /\ Advance(j, now, "start") \in CallRecords /\ Advance(j, now, "start").op = "advance"
        /\ Advance(j, now, "start").job = j /\ Advance(j, now, "start").by = "start"
        /\ now < Advance(j, now, "start").next /\ Advance(j, now, "start").next <= now + Period[j]
    BY <2>1, AdvanceIs
  <2> QED
    BY <2>1, <2>2, <2>3
<1> HIDE DEF missed, Late, S
<1>7. DOMAIN t = DOMAIN missed /\ Len(missed) \in Nat /\ \A i \in DOMAIN t : missed[i] \in S /\ t[i] = Late(missed[i])
  BY <1>4
<1>8. t \in Seq(CallRecords) /\ DOMAIN t = 1..Len(missed)
  <2>1. t \in [1..Len(missed) -> CallRecords]
    BY <1>4, <1>6, <1>7
  <2> QED
    BY <1>7, <2>1, SeqDef
<1> HIDE DEF t
<1>9. ASSUME NEW i \in DOMAIN t PROVE Fresh(t[i])
  <2>1. missed[i] \in S /\ t[i] = Late(missed[i]) /\ missed[i] \in Jobs /\ missed[i] \in DOMAIN rows
    BY <1>3, <1>7 DEF S
  <2>2. t[i].op = "touch" => fire'[t[i].job] = "touch" /\ fire[t[i].job] # "touch"
    BY <1>1, <1>2, <1>5, <1>6, <2>1
  <2>3. t[i].op = "touch" => t[i].round <= now
    BY <1>6, <2>1, PlansTyped
  <2>4. t[i].op = "touch" => \A n \in DOMAIN rounds[t[i].job] : rounds[t[i].job][n] < t[i].round
    BY <1>6, <2>1 DEF RoundsOK, Ahead
  <2> QED
    BY <1>1, <1>6, <2>1, <2>2, <2>3, <2>4 DEF Fresh, Setters
<1>10. InOrder(t)
  <2> SUFFICES ASSUME NEW i \in DOMAIN t, NEW k \in DOMAIN t, i < k PROVE Precedes(t[i], t[k])
    BY DEF InOrder
  <2>1. missed[i] \in S /\ missed[k] \in S /\ t[i] = Late(missed[i]) /\ t[k] = Late(missed[k])
    BY <1>7
  <2>2. missed[i] # missed[k]
    <3>1. i \in Nat /\ k \in Nat
      BY <1>8, <1>7
    <3> QED
      BY <1>4, <1>7, <3>1
  <2>3. t[i].job # t[k].job
    BY <1>6, <2>1, <2>2
  <2>4. t[i] \in CallRecords /\ t[k] \in CallRecords /\ t[k].op \in Setters
    BY <1>6, <2>1 DEF Setters
  <2>5. t[k].next \in Nat /\ (t[i].op = "touch" => t[i].round \in Nat \union {-1}) /\ now \in Nat
    BY <2>4, CallFields, RoundFacts
  <2>6. now < t[k].next /\ (t[i].op = "touch" => t[i].round < now)
    BY <1>6, <2>1
  <2> QED
    BY <2>3, <2>5, <2>6 DEF Precedes
<1>11. <<>> \in Seq(CallRecords) /\ Range(<<>>) = {} /\ InOrder(<<>>) /\ t = <<>> \o t
  <2>1. \A q \in Seq(CallRecords) : q = <<>> \o q
    OBVIOUS
  <2>2. <<>> \in Seq(CallRecords) /\ Range(<<>>) = {} /\ InOrder(<<>>)
    BY DEF Range, InOrder
  <2> QED
    BY <1>8, <2>1, <2>2
<1>12. Range(<<>>) \subseteq Range(calls)
  BY <1>5
<1>13. \A c \in Range(t) : Fresh(c)
  BY <1>9 DEF Range
<1>14. calls' = <<>> \o t
  BY <1>1, <1>11
<1>15. Queued
  BY <1>1, <1>8, <1>10, <1>11, <1>12, <1>13, <1>14, QueueKept
<1> QED
  BY <1>1, <1>15, RoundsFrom, PlannedIs

\* The end of start(), and stop().
LEMMA RoundsOfPhase == ASSUME CronTypes, AtRest, RoundsOK, Started \/ Stop PROVE RoundsOK'
<1>1. UNCHANGED <<now, rows, mem, tick, fire, calls, rounds>>
  BY DEF Started, Stop
<1>2. \A c \in Range(calls) : c.op = "touch" => fire'[c.job] = "touch"
  BY <1>1, RoundFacts DEF Fits
<1>3. \A c \in Range(calls) : c.op = "advance" => (c.by = "start" => phase' = "starting")
  BY RoundFacts DEF Fits, Started, Stop, Range
<1>4. Queued
  BY <1>1, <1>2, <1>3, QueueStays
<1> QED
  BY <1>1, <1>4, RoundsFrom, PlannedIs, RoundFacts

\* The end of the process.
LEMMA RoundsOfEnd == ASSUME CronTypes, RoundsOK, ProcessEnds PROVE RoundsOK'
<1>1. /\ mem' = None /\ calls' = <<>> /\ tick' = NoTick /\ now' = now /\ rows' = rows /\ rounds' = rounds
  BY DEF ProcessEnds
<1>2. Queued
  BY <1>1 DEF Queued, Range, InOrder
<1>3. Planned(mem')
  BY <1>1 DEF Planned, Timely, Ahead, None
<1> QED
  BY <1>1, <1>2, <1>3, RoundsFrom, PlannedIs

\* A tick that need not wait fires what is due, each job for a round that was not fired.
LEMMA RoundsOfClock == ASSUME CronTypes, RoundsOK, TimerFires \/ TickAgain, ~stalled' PROVE RoundsOK'
<1>1. /\ TickOn(Due(mem), now, FALSE, calls)
      /\ UNCHANGED <<now, rows, phase, mem, rounds>>
  BY RoundFacts DEF TimerFires, TickAgain
<1>2. calls \in Seq(CallRecords)
  BY RoundFacts
<1>3. /\ tick' = NoTick /\ (\A j \in Jobs : fire[j] # "none" => fire'[j] = fire[j])
      /\ \E T \in Seq(CallRecords) :
           /\ calls' = calls \o T
           /\ \A i \in DOMAIN T :
                /\ T[i].op = "touch" /\ fire[T[i].job] = "none" /\ fire'[T[i].job] = "touch"
                /\ T[i].job \in DOMAIN mem /\ T[i].round = mem[T[i].job].nextRun /\ T[i].round <= now
                /\ now < T[i].next /\ T[i].next <= now + Period[T[i].job]
           /\ \A i, k \in DOMAIN T : i # k => T[i].job # T[k].job
  BY <1>1, <1>2, QuietTickIs
<1>4. PICK T \in Seq(CallRecords) :
           /\ calls' = calls \o T
           /\ \A i \in DOMAIN T :
                /\ T[i].op = "touch" /\ fire[T[i].job] = "none" /\ fire'[T[i].job] = "touch"
                /\ T[i].job \in DOMAIN mem /\ T[i].round = mem[T[i].job].nextRun /\ T[i].round <= now
                /\ now < T[i].next /\ T[i].next <= now + Period[T[i].job]
           /\ \A i, k \in DOMAIN T : i # k => T[i].job # T[k].job
  BY <1>3
<1>5. \A c \in Range(T) : Fresh(c)
  <2> SUFFICES ASSUME NEW i \in DOMAIN T PROVE Fresh(T[i])
    BY DEF Range
  <2>1. \A n \in DOMAIN rounds[T[i].job] : rounds[T[i].job][n] < T[i].round
    BY <1>4 DEF RoundsOK, Ahead
  <2> QED
    BY <1>4, <2>1 DEF Fresh
<1>6. InOrder(T)
  <2> SUFFICES ASSUME NEW i \in DOMAIN T, NEW k \in DOMAIN T, i < k PROVE Precedes(T[i], T[k])
    BY DEF InOrder
  <2>1. T[i] \in CallRecords /\ T[k] \in CallRecords /\ i \in Nat /\ k \in Nat
    BY <1>4
  <2>2. T[k].op \in Setters
    BY <1>4 DEF Setters
  <2>3. T[k].next \in Nat /\ T[i].round \in Nat \union {-1} /\ now \in Nat
    BY <1>4, <2>1, <2>2, CallFields, RoundFacts
  <2>4. T[i].round < T[k].next
    BY <1>4, <2>3
  <2>5. T[i].job # T[k].job
    BY <1>4, <2>1
  <2> QED
    BY <2>4, <2>5 DEF Precedes
<1>7. \A c \in Range(calls) : c.op = "touch" => fire'[c.job] = "touch"
  BY <1>3, RoundFacts, CallFields DEF Fits
<1>8. \A c \in Range(calls) : c.op = "advance" => (c.by = "start" => phase' = "starting")
  BY <1>1, RoundFacts DEF Fits
<1>9. InOrder(calls) /\ Range(calls) \subseteq Range(calls)
  BY RoundFacts
<1>10. Queued
  BY <1>1, <1>2, <1>4, <1>5, <1>6, <1>7, <1>8, <1>9, QueueKept
<1> QED
  BY <1>1, <1>3, <1>10, RoundsFrom, PlannedIs

\* The end of a fire, which may begin another one.
LEMMA RoundsOfFireEnds == ASSUME CronTypes, RoundsOK, NEW j \in Jobs, FireEnds(j) PROVE RoundsOK'
<1>1. fire[j] = "run" /\ UNCHANGED <<now, rows, phase, mem, tick, rounds>>
  BY DEF FireEnds
<1>2. \A c \in Range(calls) : c.op = "touch" => fire[c.job] = "touch" /\ c.job # j
  BY <1>1, RoundFacts DEF Fits
<1>3. \A k \in Jobs : k # j => fire'[k] = fire[k]
  BY DEF FireEnds, CronTypes
<1>4. \A c \in Range(calls) : c.op = "touch" => fire'[c.job] = "touch"
  BY <1>2, <1>3, RoundFacts, CallFields
<1>5. Queued
  <2> DEFINE due == Enabled(mem, j) /\ mem[j].nextRun <= now
             r == IF due THEN mem[j].nextRun ELSE -1
  <2>1. CASE calls' = calls
    <3>1. \A c \in Range(calls') : c.op = "touch" => fire'[c.job] = "touch"
      BY <1>4, <2>1
    <3>2. \A c \in Range(calls') : c.op = "advance" => (c.by = "start" => phase' = "starting")
      BY <1>1, <2>1, RoundFacts DEF Fits
    <3> QED
      BY <1>1, <2>1, <3>1, <3>2, QueueStays
  <2>2. CASE calls' = Append(calls, Touch(j, r)) /\ fire' = [fire EXCEPT ![j] = "touch"]
    <3> DEFINE c == Touch(j, r)
    <3>1. r \in Nat \union {-1} /\ r <= now
      BY PlansTyped DEF Enabled, Has
    <3>2. r # -1 => \A n \in DOMAIN rounds[j] : rounds[j][n] < r
      BY DEF RoundsOK, Ahead, Enabled, Has
    <3>3. fire'[j] = "touch"
      BY <2>2 DEF CronTypes
    <3> HIDE DEF r
    <3>4. /\ c \in CallRecords /\ c.op = "touch" /\ c.job = j /\ c.round = r
          /\ now < c.next /\ c.next <= now + Period[j]
      BY <3>1, TouchIs
    <3>5. calls' = Append(calls, c)
      BY <2>2
    <3> HIDE DEF c
    <3>6. Fresh(c)
      BY <1>1, <3>1, <3>2, <3>3, <3>4 DEF Fresh
    <3> QED
      BY <1>1, <1>4, <3>4, <3>5, <3>6, QueueGrows
  <2> QED
    BY <2>1, <2>2 DEF FireEnds, Call
<1> QED
  BY <1>1, <1>5, RoundsFrom, PlannedIs, RoundFacts

\* Requests.
LEMMA RoundsOfRequest == ASSUME CronTypes, RoundsOK, NEW j \in Jobs, Requested(j) PROVE RoundsOK'
<1>1. UNCHANGED <<now, rows, phase, mem, tick, rounds>>
  BY DEF Requested, Schedule, Unschedule, Update, RunNow, SetEnabled, Asked
<1>2. \A c \in Range(calls) : c.op = "touch" => fire[c.job] = "touch" /\ c.job \in Jobs
  BY RoundFacts, CallFields DEF Fits
<1>3. NextRun(j, now) \in Nat /\ now < NextRun(j, now) /\ NextRun(j, now) <= now + Period[j]
  BY PlansTyped, NextRunIs
<1>4. Queued
  <2>1. ASSUME NEW c \in CallRecords, calls' = Append(calls, c), fire' = fire, c.op \notin {"touch", "advance"},
               c.op \in Setters => c.job = j /\ c.next = NextRun(j, now)
        PROVE  Queued
    <3>1. Fresh(c)
      BY <1>3, <2>1 DEF Fresh
    <3>2. \A b \in Range(calls) : b.op = "touch" => fire'[b.job] = "touch"
      BY <1>2, <2>1
    <3> QED
      BY <1>1, <2>1, <3>1, <3>2, QueueGrows
  <2>2. ASSUME calls' = calls, fire' = fire PROVE Queued
    <3>1. \A c \in Range(calls') : c.op = "touch" => fire'[c.job] = "touch"
      BY <1>2, <2>2
    <3>2. \A c \in Range(calls') : c.op = "advance" => (c.by = "start" => phase' = "starting")
      BY <1>1, <2>2, RoundFacts DEF Fits
    <3> QED
      BY <1>1, <2>2, <3>1, <3>2, QueueStays
  <2>3. CASE Schedule(j)
    <3> DEFINE c == [op |-> "create", job |-> j, next |-> NextRun(j, now)]
    <3>1. c \in CallRecords /\ c.op = "create" /\ c.job = j /\ c.next = NextRun(j, now)
      BY <1>3 DEF CallRecords
    <3>2. calls' = Append(calls, c) /\ fire' = fire
      BY <2>3 DEF Schedule, Call
    <3> HIDE DEF c
    <3> QED
      BY <2>1, <3>1, <3>2
  <2>4. CASE Update(j)
    <3> DEFINE c == [op |-> "patch", job |-> j, next |-> NextRun(j, now)]
    <3>1. c \in CallRecords /\ c.op = "patch" /\ c.job = j /\ c.next = NextRun(j, now)
      BY <1>3 DEF CallRecords
    <3>2. calls' = Append(calls, c) /\ fire' = fire
      BY <2>4 DEF Update, Call
    <3> HIDE DEF c
    <3> QED
      BY <2>1, <3>1, <3>2
  <2>5. CASE Unschedule(j)
    <3> DEFINE c == [op |-> "delete", job |-> j]
    <3>1. c \in CallRecords /\ c.op = "delete"
      BY DEF CallRecords
    <3>2. calls' = Append(calls, c) /\ fire' = fire
      BY <2>5 DEF Unschedule, Call
    <3> HIDE DEF c
    <3> QED
      BY <2>1, <3>1, <3>2 DEF Setters
  <2>6. ASSUME NEW on \in BOOLEAN, SetEnabled(j, on) PROVE Queued
    <3> DEFINE c == [op |-> "find", job |-> j, on |-> on]
    <3>1. c \in CallRecords /\ c.op = "find"
      BY DEF CallRecords
    <3>2. calls' = Append(calls, c) /\ fire' = fire
      BY <2>6 DEF SetEnabled, Call
    <3> HIDE DEF c
    <3> QED
      BY <2>1, <3>1, <3>2 DEF Setters
  <2>7. CASE RunNow(j)
    <3>1. CASE fire[j] # "none"
      BY <2>2, <2>7, <3>1 DEF RunNow
    <3>2. CASE fire[j] = "none"
      <4> DEFINE c == Touch(j, -1)
      <4>1. /\ c \in CallRecords /\ c.op = "touch" /\ c.job = j /\ c.round = -1
            /\ now < c.next /\ c.next <= now + Period[j]
        BY TouchIs
      <4>2. calls' = Append(calls, c) /\ fire' = [fire EXCEPT ![j] = "touch"]
        BY <2>7, <3>2 DEF RunNow, Call
      <4> HIDE DEF c
      <4>3. fire'[j] = "touch" /\ \A k \in Jobs : k # j => fire'[k] = fire[k]
        BY <4>2 DEF CronTypes
      <4>4. Fresh(c)
        BY <1>1, <3>2, <4>1, <4>3, PlansTyped DEF Fresh
      <4>5. \A b \in Range(calls) : b.op = "touch" => fire'[b.job] = "touch"
        BY <1>2, <3>2, <4>3
      <4> QED
        BY <1>1, <4>1, <4>2, <4>4, <4>5, QueueGrows
    <3> QED
      BY <3>1, <3>2
  <2> QED
    BY <2>3, <2>4, <2>5, <2>6, <2>7 DEF Requested
<1> QED
  BY <1>1, <1>4, RoundsFrom, PlannedIs, RoundFacts

\* What the facts on rounds say of the oldest call.
LEMMA OldestFits ==
    ASSUME CronTypes, RoundsOK, calls # <<>>
    PROVE  /\ Oldest \in CallRecords /\ Oldest.job \in Jobs /\ Fits(Oldest)
           /\ Oldest.op \in Setters =>
                /\ Oldest.next \in Nat /\ Oldest.next <= now + Period[Oldest.job]
                /\ \A j \in Jobs : \A n \in DOMAIN rounds[j] : rounds[j][n] < Oldest.next
           /\ Range(Tail(calls)) \subseteq Range(calls)
           /\ \A c \in Range(Tail(calls)) : c \in CallRecords /\ Fits(c) /\ Precedes(Oldest, c)
<1>1. Oldest \in CallRecords /\ Oldest \in Range(calls) /\ Oldest.job \in Jobs /\ (Oldest.op \in Setters => Oldest.next \in Nat)
  BY OldestIs
<1>2. Fits(Oldest)
  BY <1>1, RoundFacts
<1>3. calls \in Seq(CallRecords) /\ InOrder(calls)
  BY RoundFacts
<1>4. Range(Tail(calls)) \subseteq Range(calls)
  BY <1>3, TailIs
<1>5. \A c \in Range(Tail(calls)) : Precedes(Oldest, c)
  BY <1>3, TailInOrder DEF Oldest
<1>6. \A c \in Range(Tail(calls)) : c \in CallRecords /\ Fits(c)
  BY <1>4, RoundFacts
<1> QED
  BY <1>1, <1>2, <1>4, <1>5, <1>6 DEF Fits

\* A step that serves the oldest call, and fires nothing.
LEMMA QueueServed ==
    ASSUME CronTypes, RoundsOK, now' = now, rounds' = rounds, phase' = phase, fire' = fire,
           calls # <<>>, calls' = Tail(calls)
    PROVE  Queued
<1>1. \A c \in Range(calls') : c \in CallRecords /\ Fits(c)
  BY OldestFits
<1>2. \A c \in Range(calls') : c.op = "touch" => fire'[c.job] = "touch"
  BY <1>1 DEF Fits
<1>3. \A c \in Range(calls') : c.op = "advance" => (c.by = "start" => phase' = "starting")
  BY <1>1 DEF Fits
<1> QED
  BY <1>2, <1>3, QueueStays

\* ... and goes on to another statement, which sets nothing.
LEMMA QueueThen ==
    ASSUME CronTypes, RoundsOK, now' = now, rounds' = rounds, phase' = phase, fire' = fire,
           calls # <<>>, NEW c \in CallRecords, c.op \notin Setters, Then(c)
    PROVE  Queued
<1>1. Fresh(c)
  BY DEF Fresh, Setters
<1>2. \A b \in Range(Tail(calls)) : b.op = "touch" => fire'[b.job] = "touch"
  BY OldestFits DEF Fits
<1>3. calls' = Append(Tail(calls), c)
  BY DEF Then
<1> DEFINE s == Tail(calls)
<1>4. s = calls \/ (calls # <<>> /\ s = Tail(calls))
  OBVIOUS
<1>5. calls' = Append(s, c) /\ \A b \in Range(s) : b.op = "touch" => fire'[b.job] = "touch"
  BY <1>2, <1>3
<1> HIDE DEF s
<1> QED
  BY <1>1, <1>4, <1>5, QueueGrows

\* Calls that change the table, ...
LEMMA RoundsOfTable ==
    ASSUME CronTypes, RoundsOK, CreateDone \/ DeleteDone \/ FindDone \/ FlagDone \/ PatchDone
    PROVE  RoundsOK'
<1> DEFINE j == Oldest.job
<1>1. calls # <<>> /\ UNCHANGED <<now, rounds, phase, fire, tick>>
  BY DEF CreateDone, DeleteDone, FindDone, FlagDone, PatchDone, Pending
<1>2. /\ Oldest \in CallRecords /\ j \in Jobs
      /\ Oldest.op \in Setters =>
            /\ Oldest.next \in Nat /\ Oldest.next <= now + Period[j]
            /\ \A n \in DOMAIN rounds[j] : rounds[j][n] < Oldest.next
  BY <1>1, OldestFits
<1>3. Planned(rows) /\ Planned(mem) /\ Holds(rows) /\ Holds(mem) /\ tick' = NoTick
  BY <1>1, PlannedIs, PlansTyped, RoundFacts
<1>4. CASE CreateDone
  <2> DEFINE r == [enabled |-> TRUE, nextRun |-> Oldest.next]
  <2>1. Oldest.op \in Setters /\ rows' = With(rows, j, r) /\ mem' = With(mem, j, r) /\ calls' = Tail(calls)
    BY <1>4 DEF CreateDone, Pending, CallServed, Setters
  <2>2. Planned(With(rows, j, r)) /\ Planned(With(mem, j, r))
    <3>1. r.nextRun <= now + Period[j] /\ \A n \in DOMAIN rounds[j] : rounds[j][n] < r.nextRun
      BY <1>2, <2>1
    <3> HIDE DEF r, j
    <3> QED
      BY <1>3, <3>1, WithPlanned
  <2>3. Queued
    BY <1>1, <2>1, QueueServed
  <2>4. Planned(rows') /\ Planned(mem')
    BY <2>1, <2>2
  <2> QED
    BY <1>1, <1>3, <2>3, <2>4, RoundsFrom
<1>5. CASE DeleteDone
  <2>1. Queued
    BY <1>1, <1>5, QueueServed DEF DeleteDone, CallServed
  <2>2. (rows' = rows /\ mem' = mem) \/ (rows' = Without(rows, j) /\ mem' = Without(mem, j))
    BY <1>5 DEF DeleteDone
  <2>3. Planned(rows') /\ Planned(mem')
    BY <1>3, <2>2, WithoutPlanned
  <2> QED
    BY <1>1, <1>3, <2>1, <2>3, RoundsFrom
<1>6. CASE FindDone
  <2>1. Queued
    <3>1. CASE Has(rows, j)
      <4> DEFINE c == [Oldest EXCEPT !.op = "flag"]
      <4>1. Oldest.on \in BOOLEAN /\ Oldest = [op |-> "find", job |-> j, on |-> Oldest.on]
        BY <1>2, <1>6, CallFields DEF FindDone, Pending
      <4>2. c = [op |-> "flag", job |-> j, on |-> Oldest.on]
        BY <4>1
      <4>3. c \in CallRecords /\ c.op \notin Setters
        BY <1>2, <4>1, <4>2 DEF CallRecords, Setters
      <4>4. Then(c)
        BY <1>6, <3>1 DEF FindDone
      <4> HIDE DEF c
      <4> QED
        BY <1>1, <4>3, <4>4, QueueThen
    <3>2. CASE ~Has(rows, j)
      BY <1>1, <1>6, <3>2, QueueServed DEF FindDone, CallServed
    <3> QED
      BY <3>1, <3>2
  <2>2. Planned(rows') /\ Planned(mem')
    BY <1>3, <1>6 DEF FindDone
  <2> QED
    BY <1>1, <1>3, <2>1, <2>2, RoundsFrom
<1>7. CASE FlagDone \/ PatchDone
  <2>1. PICK e \in BOOLEAN : Then([op |-> "read", job |-> j, enable |-> e])
    BY <1>2, <1>7, CallFields DEF FlagDone, PatchDone, Pending
  <2> DEFINE c == [op |-> "read", job |-> j, enable |-> e]
  <2>2. c \in CallRecords /\ c.op \notin Setters /\ Then(c)
    BY <1>2, <2>1 DEF CallRecords, Setters
  <2> HIDE DEF c, j
  <2>3. Queued
    BY <1>1, <2>2, QueueThen
  <2>4. Planned(rows') /\ Planned(mem')
    <3>1. CASE FlagDone
      <4>1. \A k \in DOMAIN rows : [rows[k] EXCEPT !.enabled = Oldest.on].nextRun = rows[k].nextRun
        BY <1>3 DEF Holds, Records
      <4>2. mem' = mem /\ rows' = [k \in DOMAIN rows |-> IF k = Oldest.job THEN [rows[k] EXCEPT !.enabled = Oldest.on] ELSE rows[k]]
        BY <3>1 DEF FlagDone
      <4>3. DOMAIN rows' = DOMAIN rows /\ \A k \in DOMAIN rows : rows'[k].nextRun = rows[k].nextRun
        BY <4>1, <4>2
      <4> QED
        BY <1>3, <4>2, <4>3 DEF Planned, Timely, Ahead
    <3>2. CASE PatchDone
      <4>1. Oldest.op \in Setters /\ mem' = mem /\ rows' = Put(rows, j, Oldest.next)
        BY <3>2 DEF PatchDone, Pending, Setters, j
      <4>2. Planned(Put(rows, j, Oldest.next))
        BY <1>2, <1>3, <4>1, PutPlanned
      <4> QED
        BY <1>3, <4>1, <4>2
    <3> QED
      BY <1>7, <3>1, <3>2
  <2> QED
    BY <1>1, <1>3, <2>3, <2>4, RoundsFrom
<1> QED
  BY <1>4, <1>5, <1>6, <1>7

\* ... read from it, ...
LEMMA RoundsOfRead == ASSUME CronTypes, RoundsOK, ReadDone PROVE RoundsOK'
<1> DEFINE j == Oldest.job
           missed == /\ Oldest.enable /\ Enabled(rows, j) /\ phase = "up"
                     /\ fire[j] = "none" /\ rows[j].nextRun < now
           s == Tail(calls)
<1>1. calls # <<>> /\ UNCHANGED <<now, rows, rounds, phase, tick>>
  BY DEF ReadDone, Pending
<1>2. j \in Jobs /\ s = Tail(calls) /\ \A c \in Range(s) : c \in CallRecords /\ Fits(c)
  BY <1>1, OldestFits
<1>3. Planned(rows) /\ Planned(mem) /\ tick' = NoTick
  BY <1>1, PlannedIs, RoundFacts
<1>4. Planned(mem')
  <2>1. mem' = mem \/ (j \in DOMAIN rows /\ mem' = With(mem, j, rows[j]))
    BY DEF ReadDone, Has
  <2>2. ASSUME j \in DOMAIN rows PROVE Planned(With(mem, j, rows[j]))
    <3>1. rows[j].nextRun <= now + Period[j] /\ \A n \in DOMAIN rounds[j] : rounds[j][n] < rows[j].nextRun
      BY <1>3, <2>2 DEF Planned, Timely, Ahead
    <3> HIDE DEF j
    <3> QED
      BY <1>3, <3>1, WithPlanned
  <2> QED
    BY <1>3, <2>1, <2>2
<1>5. Queued
  <2>1. CASE missed /\ j \in RunOnceJobs
    <3> DEFINE c == Touch(j, rows[j].nextRun)
    <3>1. /\ fire' = [fire EXCEPT ![j] = "touch"] /\ calls' = Append(s, c)
          /\ j \in DOMAIN rows /\ fire[j] = "none" /\ rows[j].nextRun < now
      BY <2>1 DEF ReadDone, Then, Enabled, Has
    <3>2. rows[j].nextRun \in Nat /\ now \in Nat
      BY <3>1, PlansTyped
    <3>3. \A n \in DOMAIN rounds[j] : rounds[j][n] < rows[j].nextRun
      BY <1>3, <3>1 DEF Planned, Ahead
    <3> HIDE DEF j
    <3>4. /\ c \in CallRecords /\ c.op = "touch" /\ c.job = j /\ c.round = rows[j].nextRun
          /\ now < c.next /\ c.next <= now + Period[j]
      BY <1>2, <3>2, TouchIs
    <3>5. fire'[j] = "touch" /\ \A k \in Jobs : k # j => fire'[k] = fire[k]
      BY <1>2, <3>1 DEF CronTypes
    <3> HIDE DEF c, s
    <3>6. Fresh(c)
      BY <3>1, <3>2, <3>3, <3>4, <3>5 DEF Fresh
    <3>7. \A b \in Range(s) : b.op = "touch" => fire'[b.job] = "touch"
      BY <1>2, <3>1, <3>5, CallFields DEF Fits
    <3> QED
      BY <1>1, <1>2, <3>1, <3>4, <3>6, <3>7, QueueGrows
  <2>2. CASE missed /\ j \notin RunOnceJobs
    <3> DEFINE c == Advance(j, now, "enable")
    <3>1. fire' = fire /\ calls' = Append(s, c)
      BY <2>2 DEF ReadDone, Then
    <3> HIDE DEF j
    <3>2. /\ c \in CallRecords /\ c.op = "advance" /\ c.job = j /\ c.by = "enable"
          /\ now < c.next /\ c.next <= now + Period[j]
      BY <1>2, PlansTyped, AdvanceIs
    <3> HIDE DEF c, s
    <3>3. Fresh(c)
      BY <3>2 DEF Fresh
    <3>4. \A b \in Range(s) : b.op = "touch" => fire'[b.job] = "touch"
      BY <1>2, <3>1 DEF Fits
    <3> QED
      BY <1>1, <1>2, <3>1, <3>2, <3>3, <3>4, QueueGrows
  <2>3. CASE ~missed
    <3>1. fire' = fire /\ calls' = Tail(calls)
      BY <2>3 DEF ReadDone, CallServed
    <3> QED
      BY <1>1, <3>1, QueueServed
  <2> QED
    BY <2>1, <2>2, <2>3
<1> QED
  BY <1>1, <1>3, <1>4, <1>5, RoundsFrom

\* ... or put a run off.
LEMMA RoundsOfAdvance == ASSUME CronTypes, RoundsOK, AdvanceDone PROVE RoundsOK'
<1> DEFINE j == Oldest.job
<1>1. calls # <<>> /\ Oldest.op = "advance" /\ UNCHANGED <<now, rounds, phase>>
  BY DEF AdvanceDone, Pending
<1>2. /\ Oldest.by # "tick" /\ Oldest.next \in Nat /\ Oldest.next <= now + Period[j]
      /\ j \in Jobs /\ \A n \in DOMAIN rounds[j] : rounds[j][n] < Oldest.next
  BY <1>1, OldestFits DEF Fits, Setters
<1>3. fire' = fire /\ calls' = Tail(calls) /\ tick' = NoTick
  BY <1>2, RoundFacts DEF AdvanceDone, CallServed
<1>4. Planned(rows') /\ Planned(mem')
  <2>1. rows' = Put(rows, j, Oldest.next) /\ mem' = Put(mem, j, Oldest.next)
    BY DEF AdvanceDone
  <2>2. Planned(rows) /\ Planned(mem) /\ Holds(rows) /\ Holds(mem)
    BY PlannedIs, PlansTyped
  <2> HIDE DEF j
  <2> QED
    BY <1>2, <2>1, <2>2, PutPlanned
<1>5. Queued
  BY <1>1, <1>3, QueueServed
<1> QED
  BY <1>1, <1>3, <1>4, <1>5, RoundsFrom

\* The run begins: its round is over.
LEMMA RoundsOfTouch == ASSUME CronTypes, RoundsOK, TouchDone PROVE RoundsOK'
<1> DEFINE j == Oldest.job
           r == Oldest.round
<1>1. calls # <<>> /\ Oldest.op = "touch" /\ UNCHANGED <<now, phase, tick>> /\ calls' = Tail(calls)
  BY DEF TouchDone, Pending, CallServed
<1>2. /\ Oldest \in CallRecords /\ j \in Jobs /\ Fits(Oldest) /\ Oldest.next \in Nat /\ r \in Nat \union {-1}
      /\ Oldest.next <= now + Period[j] /\ r < Oldest.next /\ r <= now
      /\ \A k \in Jobs : \A n \in DOMAIN rounds[k] : rounds[k][n] < Oldest.next
      /\ r # -1 => \A n \in DOMAIN rounds[j] : rounds[j][n] < r
  BY <1>1, OldestFits, CallFields DEF Fits, Setters
<1>3. /\ rows' = Put(rows, j, Oldest.next) /\ mem' = Put(mem, j, Oldest.next)
      /\ fire' = [fire EXCEPT ![j] = "run"]
      /\ rounds' = IF r = -1 THEN rounds ELSE [rounds EXCEPT ![j] = Append(@, r)]
  BY DEF TouchDone
<1>4. /\ \A c \in Range(calls') : c \in CallRecords /\ Fits(c) /\ Precedes(Oldest, c)
      /\ calls \in Seq(CallRecords) /\ InOrder(calls)
  BY <1>1, OldestFits, RoundFacts
<1>5. \A k \in Jobs : rounds[k] \in Seq(Nat) /\ \A n \in DOMAIN rounds[k] : rounds[k][n] \in Nat /\ rounds[k][n] <= now
  BY RoundFacts
<1>6. /\ \A k \in Jobs : k # j => rounds'[k] = rounds[k]
      /\ r = -1 => rounds'[j] = rounds[j]
      /\ r # -1 => rounds'[j] = Append(rounds[j], r)
  BY <1>2, <1>3 DEF CronTypes
<1>7. \A k \in Jobs : k # j => fire'[k] = fire[k]
  BY <1>2, <1>3 DEF CronTypes
<1> HIDE DEF j, r
<1>8. /\ \A n \in DOMAIN rounds'[j] : rounds'[j][n] < Oldest.next /\ rounds'[j][n] <= now
      /\ \A x : (\A n \in DOMAIN rounds[j] : rounds[j][n] < x) /\ r < x => \A n \in DOMAIN rounds'[j] : rounds'[j][n] < x
      /\ \A i \in 2..Len(rounds'[j]) : rounds'[j][i - 1] < rounds'[j][i]
  <2>1. CASE r = -1
    BY <1>2, <1>5, <1>6, <2>1 DEF RoundsOK
  <2>2. CASE r # -1
    <3> DEFINE q == rounds[j]
    <3>1. /\ q \in Seq(Nat) /\ Len(q) \in Nat /\ DOMAIN q = 1..Len(q) /\ r \in Nat
          /\ Len(Append(q, r)) = Len(q) + 1 /\ DOMAIN Append(q, r) = 1..Len(q)+1
          /\ \A n \in 1..Len(q) : Append(q, r)[n] = q[n]
          /\ Append(q, r)[Len(q) + 1] = r
      BY <1>2, <1>5, <2>2
    <3>2. \A i \in 2..Len(q) : q[i - 1] < q[i]
      BY <1>2 DEF RoundsOK
    <3>3. \A n \in DOMAIN q : q[n] < r /\ q[n] < Oldest.next /\ q[n] <= now /\ q[n] \in Nat
      BY <1>2, <1>5, <2>2
    <3>4. rounds'[j] = Append(q, r)
      BY <1>6, <2>2
    <3> HIDE DEF q
    <3>5. \A n \in DOMAIN rounds'[j] : n = Len(q) + 1 \/ n \in DOMAIN q
      BY <3>1, <3>4
    <3>6. \A n \in DOMAIN rounds'[j] : rounds'[j][n] < Oldest.next /\ rounds'[j][n] <= now
      BY <1>2, <3>1, <3>3, <3>4, <3>5
    <3>7. \A x : (\A n \in DOMAIN q : q[n] < x) /\ r < x => \A n \in DOMAIN rounds'[j] : rounds'[j][n] < x
      BY <3>1, <3>4, <3>5
    <3>8. ASSUME NEW i \in 2..Len(rounds'[j]) PROVE rounds'[j][i - 1] < rounds'[j][i]
      <4>1. i - 1 \in 1..Len(q) /\ i \in 2..Len(q)+1
        BY <3>1, <3>4, <3>8
      <4>2. CASE i = Len(q) + 1
        BY <3>1, <3>3, <3>4, <4>1, <4>2
      <4>3. CASE i # Len(q) + 1
        <5>1. i \in 2..Len(q) /\ i \in 1..Len(q)
          BY <3>1, <4>1, <4>3
        <5> QED
          BY <3>1, <3>2, <3>4, <4>1, <5>1
      <4> QED
        BY <4>2, <4>3
    <3> QED
      BY <3>6, <3>7, <3>8 DEF q
  <2> QED
    BY <2>1, <2>2
<1>9. ASSUME NEW m, Holds(m), Planned(m), DOMAIN m \subseteq Jobs
      PROVE  \A k \in DOMAIN m :
                /\ Put(m, j, Oldest.next)[k].nextRun <= now + Period[k]
                /\ \A n \in DOMAIN rounds'[k] : rounds'[k][n] < Put(m, j, Oldest.next)[k].nextRun
  <2> SUFFICES ASSUME NEW k \in DOMAIN m
               PROVE  /\ Put(m, j, Oldest.next)[k].nextRun <= now + Period[k]
                      /\ \A n \in DOMAIN rounds'[k] : rounds'[k][n] < Put(m, j, Oldest.next)[k].nextRun
    OBVIOUS
  <2>1. CASE k = j
    <3>1. Put(m, j, Oldest.next)[k] = [enabled |-> m[j].enabled, nextRun |-> Oldest.next]
      BY <1>2, <1>9, <2>1, PutIs
    <3> QED
      BY <1>2, <1>8, <2>1, <3>1
  <2>2. CASE k # j
    <3>1. Put(m, j, Oldest.next)[k] = m[k]
      BY <2>2 DEF Put
    <3> QED
      BY <1>6, <1>9, <2>2, <3>1 DEF Planned, Timely, Ahead
  <2> QED
    BY <2>1, <2>2
<1>10. Timely(rows)' /\ Ahead(rows)' /\ Timely(mem)' /\ Ahead(mem)'
  <2>1. /\ Holds(rows) /\ Planned(rows) /\ DOMAIN rows \subseteq Jobs /\ DOMAIN rows' = DOMAIN rows
        /\ Holds(mem) /\ Planned(mem) /\ DOMAIN mem \subseteq Jobs /\ DOMAIN mem' = DOMAIN mem
    BY <1>3, PlannedIs, PlansTyped DEF Put
  <2>2. /\ \A k \in DOMAIN rows : rows'[k].nextRun <= now + Period[k] /\ \A n \in DOMAIN rounds'[k] : rounds'[k][n] < rows'[k].nextRun
        /\ \A k \in DOMAIN mem : mem'[k].nextRun <= now + Period[k] /\ \A n \in DOMAIN rounds'[k] : rounds'[k][n] < mem'[k].nextRun
    BY <1>3, <1>9, <2>1
  <2> QED
    BY <1>1, <2>1, <2>2 DEF Timely, Ahead
<1>11. ASSUME NEW c \in Range(calls') PROVE Fits(c)'
  <2>1. c \in CallRecords /\ Fits(c) /\ Precedes(Oldest, c) /\ c.job \in Jobs
    BY <1>4, CallFields
  <2>2. c.op = "touch" => c.job # j
    BY <1>1, <2>1 DEF Precedes, j
  <2>3. c.op \in Setters => r < c.next
    BY <1>1, <2>1 DEF Precedes, r
  <2>4. c.op \in Setters => \A k \in Jobs : \A n \in DOMAIN rounds'[k] : rounds'[k][n] < c.next
    BY <1>2, <1>6, <1>8, <2>1, <2>3 DEF Fits
  <2>5. c.op = "touch" => fire'[c.job] = fire[c.job] /\ rounds'[c.job] = rounds[c.job]
    BY <1>6, <1>7, <2>1, <2>2
  <2> QED
    BY <1>1, <2>1, <2>4, <2>5 DEF Fits
<1>12. (\A c \in Range(calls) : Fits(c))'
  BY <1>11
<1>13. InOrder(calls)'
  <2>1. InOrder(Tail(calls))
    BY <1>1, <1>4, TailInOrder
  <2> QED
    BY <1>1, <2>1 DEF InOrder, Precedes
<1>14. (\A k \in Jobs : \A n \in DOMAIN rounds[k] : rounds[k][n] <= now)'
  BY <1>1, <1>5, <1>6, <1>8
<1>15. (\A k \in Jobs : \A i \in 2..Len(rounds[k]) : rounds[k][i - 1] < rounds[k][i])'
  <2>1. ASSUME NEW k \in Jobs PROVE \A i \in 2..Len(rounds'[k]) : rounds'[k][i - 1] < rounds'[k][i]
    <3>1. CASE k = j
      BY <1>8, <3>1
    <3>2. CASE k # j
      BY <1>6, <3>2 DEF RoundsOK
    <3> QED
      BY <3>1, <3>2
  <2> QED
    BY <2>1
<1> QED
  BY <1>1, <1>10, <1>12, <1>13, <1>14, <1>15, RoundFacts DEF RoundsOK

\* Every step of a scheduler whose ticks have not waited keeps the rounds in order.
LEMMA RoundsKept == ASSUME CronTypes, AtRest, RoundsOK, CronNext, ~stalled' PROVE RoundsOK'
<1>1. ASSUME NEW j \in Jobs, FireEnds(j) \/ Requested(j) PROVE RoundsOK'
  BY <1>1, RoundsOfFireEnds, RoundsOfRequest
<1> QED
  BY <1>1, StepIs, RoundsOfTime, RoundsOfStart, RoundsOfPhase, RoundsOfEnd, RoundsOfClock, RoundsOfTable,
     RoundsOfRead, RoundsOfTouch, RoundsOfAdvance

\* No plan is further ahead than a timer reaches.
WithinReach == \A j \in Jobs : Period[j] <= MaxDelay

AdvancePending == \E c \in Range(calls) : c.op = "advance"

\* Every step leaves something that will look at the enabled jobs.
LEMMA WakesKept ==
    ASSUME WithinReach, CronTypes, AtRest, RoundsOK, Wakes, CronNext, ~stalled', CronTypes', RoundsOK'
    PROVE  Wakes'
<1> SUFFICES ASSUME phase' = "up"
             PROVE  timer' = Armed(mem') \/ (\E j \in Jobs : fire'[j] # "none") \/ AdvancePending'
  BY DEF Wakes, Armed, AdvancePending
<1> DEFINE G == timer' = Armed(mem') \/ (\E j \in Jobs : fire'[j] # "none") \/ AdvancePending'
<1>0. calls \in Seq(CallRecords)
  BY RoundFacts
<1>1. ASSUME NEW m, Plans(m), Timely(m), Rearm(m), phase = "up" PROVE timer' = Armed(m)
  BY <1>1, RearmIs DEF WithinReach
<1>2. ASSUME Rearm(mem'), phase = "up", now' = now PROVE timer' = Armed(mem')
  <2>1. Plans(mem')
    BY DEF CronTypes, Plans
  <2>2. Timely(mem')
    BY <1>2 DEF RoundsOK, Timely
  <2> QED
    BY <1>1, <1>2, <2>1, <2>2
<1>3. phase = "up" => timer = Armed(mem) \/ (\E j \in Jobs : fire[j] # "none") \/ AdvancePending
  BY DEF Wakes, AdvancePending
<1>4. ASSUME phase = "up", timer' = timer, mem' = mem, \A j \in Jobs : fire[j] # "none" => fire'[j] # "none",
             AdvancePending => AdvancePending'
      PROVE  G
  BY <1>3, <1>4
<1>5. ASSUME calls # <<>>, Oldest.op # "advance", \A c \in Range(Tail(calls)) : c \in Range(calls')
      PROVE  AdvancePending => AdvancePending'
  <2>1. \A c \in Range(calls) : c = Oldest \/ c \in Range(Tail(calls))
    BY <1>0, <1>5, TailIs DEF Oldest
  <2> QED
    BY <1>5, <2>1 DEF AdvancePending
<1>6. ASSUME NEW s \in Seq(CallRecords), NEW c \in CallRecords, calls' = Append(s, c)
      PROVE  c \in Range(calls') /\ \A b \in Range(s) : b \in Range(calls')
  BY <1>6, AppendIs
<1>7. CASE TimePasses
  BY <1>4, <1>7 DEF TimePasses, scheduler, AdvancePending
<1>8. CASE Start \/ Stop \/ ProcessEnds
  BY <1>8 DEF Start, Stop, ProcessEnds
<1>9. CASE Started
  <2>1. timer' = Timer(mem) /\ mem' = mem
    BY <1>9 DEF Started
  <2>2. Timer(mem) = Armed(mem)
    BY PlansTyped, TimerIs DEF WithinReach, RoundsOK
  <2> QED
    BY <2>1, <2>2
<1>10. CASE TimerFires \/ TickAgain
  <2>1. /\ TickOn(Due(mem), now, FALSE, calls) /\ phase' = phase /\ mem' = mem
        /\ \E t \in timer : t <= now
    BY <1>10, RoundFacts DEF TimerFires, TickAgain
  <2>2. /\ \A j \in Jobs : fire[j] # "none" => fire'[j] = fire[j]
        /\ \A j \in DOMAIN mem : mem[j].enabled /\ mem[j].nextRun <= now => fire'[j] # "none"
        /\ \E T \in Seq(CallRecords) : calls' = calls \o T
    BY <1>0, <2>1, QuietTickIs
  <2>3. CASE timer = Armed(mem)
    <3>1. PICK t \in Armed(mem) : t <= now
      BY <2>1, <2>3
    <3>2. PICK j \in DOMAIN mem : mem[j].enabled /\ mem[j].nextRun = t
      BY <3>1, PlansTyped, ArmedIs
    <3>3. j \in Jobs /\ fire'[j] # "none"
      BY <2>2, <3>1, <3>2, PlansTyped
    <3> QED
      BY <3>3
  <2>4. CASE \E j \in Jobs : fire[j] # "none"
    BY <2>2, <2>4
  <2>5. CASE AdvancePending
    <3>1. PICK T \in Seq(CallRecords) : calls' = calls \o T
      BY <2>2
    <3>2. Range(calls') = Range(calls) \union Range(T)
      BY <1>0, <3>1, JoinIs
    <3> QED
      BY <2>5, <3>2 DEF AdvancePending
  <2> QED
    BY <1>3, <2>1, <2>3, <2>4, <2>5
<1>11. ASSUME NEW j \in Jobs, FireEnds(j) PROVE G
  <2>1. fire' = [fire EXCEPT ![j] = "touch"] \/ Rearm(mem)
    BY <1>11 DEF FireEnds
  <2>2. phase' = phase /\ mem' = mem
    BY <1>11 DEF FireEnds
  <2>3. CASE fire' = [fire EXCEPT ![j] = "touch"]
    <3>1. fire'[j] = "touch"
      BY <2>3 DEF CronTypes
    <3> QED
      BY <3>1
  <2>4. CASE Rearm(mem)
    BY <1>1, <2>2, <2>4, PlansTyped DEF RoundsOK
  <2> QED
    BY <2>1, <2>3, <2>4
<1>12. ASSUME NEW j \in Jobs, Requested(j) PROVE G
  <2>1. phase' = phase /\ mem' = mem /\ timer' = timer
    BY <1>12 DEF Requested, Schedule, Unschedule, Update, RunNow, SetEnabled, Asked
  <2>2. \A k \in Jobs : fire[k] # "none" => fire'[k] # "none"
    <3>1. fire' = fire \/ fire' = [fire EXCEPT ![j] = "touch"]
      BY <1>12 DEF Requested, Schedule, Unschedule, Update, RunNow, SetEnabled, Asked
    <3> QED
      BY <3>1 DEF CronTypes
  <2>3. calls' = calls \/ \E c : calls' = Append(calls, c)
    BY <1>12 DEF Requested, Schedule, Unschedule, Update, RunNow, SetEnabled, Call
  <2>4. AdvancePending => AdvancePending'
    <3>1. CASE calls' = calls
      BY <3>1 DEF AdvancePending
    <3>2. ASSUME NEW c, calls' = Append(calls, c) PROVE AdvancePending => AdvancePending'
      <4>1. c \in CallRecords
        <5>1. Len(calls) \in Nat /\ Len(calls') = Len(calls) + 1 /\ calls'[Len(calls) + 1] = c
          BY <1>0, <3>2
        <5>2. calls' \in Seq(CallRecords)
          BY DEF CronTypes, CallsTyped
        <5> QED
          BY <5>1, <5>2
      <4> QED
        BY <1>0, <1>6, <3>2, <4>1 DEF AdvancePending
    <3> QED
      BY <2>3, <3>1, <3>2
  <2> QED
    BY <1>4, <2>1, <2>2, <2>4
<1>13. CASE CreateDone
  BY <1>2, <1>13 DEF CreateDone
<1>14. CASE DeleteDone
  <2>1. /\ calls # <<>> /\ Oldest.op = "delete" /\ phase' = phase /\ now' = now /\ fire' = fire
        /\ calls' = Tail(calls)
    BY <1>14 DEF DeleteDone, Pending, CallServed
  <2>2. Rearm(mem') \/ (mem' = mem /\ timer' = timer)
    BY <1>14 DEF DeleteDone
  <2> QED
    BY <1>2, <1>4, <1>5, <2>1, <2>2
<1>15. CASE FindDone \/ FlagDone \/ PatchDone
  <2>1. /\ calls # <<>> /\ Oldest.op # "advance" /\ phase' = phase /\ fire' = fire /\ mem' = mem /\ timer' = timer
        /\ calls' = Tail(calls) \/ \E c : calls' = Append(Tail(calls), c)
    BY <1>15 DEF FindDone, FlagDone, PatchDone, Pending, CallServed, Then
  <2>2. Tail(calls) \in Seq(CallRecords)
    BY <1>0, <2>1, TailIs
  <2>3. \A c \in Range(Tail(calls)) : c \in Range(calls')
    <3>1. ASSUME NEW c, calls' = Append(Tail(calls), c) PROVE \A b \in Range(Tail(calls)) : b \in Range(calls')
      <4> DEFINE s == Tail(calls)
      <4>1. s \in Seq(CallRecords) /\ calls' = Append(s, c) /\ calls' \in Seq(CallRecords)
        BY <2>2, <3>1 DEF CronTypes, CallsTyped
      <4> HIDE DEF s
      <4>2. Len(s) \in Nat /\ Len(calls') = Len(s) + 1 /\ calls'[Len(s) + 1] = c
        BY <4>1
      <4>3. c \in CallRecords
        BY <4>1, <4>2
      <4> QED
        BY <1>6, <4>1, <4>3 DEF s
    <3> QED
      BY <2>1, <3>1
  <2>4. AdvancePending => AdvancePending'
    BY <1>5, <2>1, <2>3
  <2> QED
    BY <1>4, <2>1, <2>4
<1>16. CASE ReadDone
  <2> DEFINE j == Oldest.job
  <2>1. calls # <<>> /\ Oldest.op = "read" /\ phase' = phase /\ now' = now
    BY <1>16 DEF ReadDone, Pending
  <2>2. \/ Rearm(mem')
        \/ Then(Advance(j, now, "enable"))
        \/ mem' = mem /\ timer' = timer /\ fire' = fire /\ calls' = Tail(calls)
    BY <1>16 DEF ReadDone, Enabled, Has, CallServed
  <2>3. CASE Then(Advance(j, now, "enable"))
    <3>1. j \in Jobs /\ Tail(calls) \in Seq(CallRecords)
      BY <1>0, <2>1, OldestIs, TailIs
    <3> HIDE DEF j
    <3>2. Advance(j, now, "enable") \in CallRecords /\ Advance(j, now, "enable").op = "advance"
      BY <3>1, PlansTyped, AdvanceIs
    <3>3. Advance(j, now, "enable") \in Range(calls')
      BY <1>6, <2>3, <3>1, <3>2 DEF Then
    <3> QED
      BY <3>2, <3>3 DEF AdvancePending
  <2> QED
    BY <1>2, <1>4, <1>5, <2>1, <2>2, <2>3
<1>17. CASE TouchDone
  <2>1. calls # <<>> /\ fire' = [fire EXCEPT ![Oldest.job] = "run"]
    BY <1>17 DEF TouchDone, Pending
  <2>2. Oldest.job \in Jobs
    BY <2>1, OldestIs
  <2>3. fire'[Oldest.job] = "run"
    BY <2>1, <2>2 DEF CronTypes
  <2> QED
    BY <2>2, <2>3
<1>18. CASE AdvanceDone
  <2>1. calls # <<>> /\ Oldest.op = "advance" /\ phase' = phase /\ now' = now
    BY <1>18 DEF AdvanceDone, Pending
  <2>2. Oldest.by \in {"start", "enable"} /\ (Oldest.by = "start" => phase = "starting")
    BY <2>1, OldestFits, CallFields DEF Fits
  <2>3. Rearm(mem')
    BY <1>18, <2>1, <2>2 DEF AdvanceDone
  <2> QED
    BY <1>2, <2>1, <2>3
<1> QED
  BY <1>7, <1>8, <1>9, <1>10, <1>11, <1>12, <1>13, <1>14, <1>15, <1>16, <1>17, <1>18, StepIs

-----------------------------------------------------------------------------
(* Cron: the theorem *)

\* The invariant holds when the process begins, ...
LEMMA CronStarts == CronInit => CronInv
<1> SUFFICES ASSUME CronInit PROVE CronInv
  OBVIOUS
<1>1. CronTypes
  <2>1. CallsTyped(calls, used) /\ TickTypes(tick) /\ Holds(mem) /\ DOMAIN mem = {}
    BY NoCalls, NoTickTyped, NoneHolds DEF CronInit
  <2>2. Old \subseteq Jobs /\ \A j \in Old : [enabled |-> TRUE, nextRun |-> Period[j]] \in Records
    BY JobsAssumption, PeriodsAre DEF Records
  <2>3. rounds \in [Jobs -> Seq(Nat)]
    BY DEF CronInit
  <2> QED
    BY <2>1, <2>2, <2>3 DEF CronInit, CronTypes, Holds, Fires
<1>2. AtRest /\ Mirror
  BY DEF CronInit, AtRest, Mirror
<1>3. RoundsOK
  <2>1. \A j \in Jobs : DOMAIN rounds[j] = {} /\ Len(rounds[j]) = 0
    BY DEF CronInit
  <2>2. Timely(rows)
    <3>1. \A j \in Old : rows[j].nextRun = Period[j] /\ Period[j] \in Nat /\ j \in Jobs
      BY JobsAssumption DEF CronInit
    <3> QED
      BY <3>1 DEF CronInit, Timely
  <2>3. Timely(mem) /\ Ahead(mem)
    BY DEF CronInit, None, Timely, Ahead
  <2>4. Ahead(rows)
    BY <2>1, JobsAssumption DEF CronInit, Ahead
  <2>5. Range(calls) = {} /\ InOrder(calls)
    BY DEF CronInit, Range, InOrder
  <2>6. \A j \in Jobs : 2..Len(rounds[j]) = {}
    BY <2>1
  <2>7. tick = NoTick
    BY DEF CronInit
  <2> QED
    BY <2>1, <2>2, <2>3, <2>4, <2>5, <2>6, <2>7 DEF RoundsOK
<1>4. Wakes
  BY DEF CronInit, Wakes
<1> QED
  BY <1>1, <1>2, <1>3, <1>4 DEF CronInv, CronSteady

\* ... every step keeps the part of it that no delay can break, ...
LEMMA SteadyKept == ASSUME CronSteady, [CronNext]_cronVars PROVE CronSteady'
<1>1. CASE CronNext
  <2>1. CronTypes' /\ AtRest' /\ Mirror'
    BY <1>1, TypesKept, RestKept, MirrorKept DEF CronSteady
  <2>2. ~stalled' => RoundsOK'
    BY <1>1, StalledStays, RoundsKept DEF CronSteady
  <2> QED
    BY <2>1, <2>2 DEF CronSteady
<1>2. CASE UNCHANGED cronVars
  <2>1. UNCHANGED <<now, rows, used, phase, mem, timer, tick, fire, queued, calls, rounds, stalled>>
    BY <1>2 DEF cronVars, scheduler
  <2>2. CronTypes' /\ AtRest' /\ Mirror'
    BY <2>1 DEF CronSteady, CronTypes, AtRest, Mirror
  <2>3. RoundsOK => RoundsOK'
    BY <2>1 DEF RoundsOK, Timely, Ahead, Fits, InOrder, Precedes
  <2> QED
    BY <2>1, <2>2, <2>3 DEF CronSteady
<1> QED
  BY <1>1, <1>2

\* ... and the whole, if the timer reaches as far as the plans do.
LEMMA CronKept == ASSUME WithinReach, CronInv, [CronNext]_cronVars PROVE CronInv'
<1>1. CronSteady'
  BY SteadyKept DEF CronInv
<1>2. CASE CronNext
  <2>1. ASSUME ~stalled' PROVE Wakes'
    <3>1. ~stalled
      BY <1>2, <2>1, StalledStays DEF CronInv, CronSteady
    <3> QED
      BY <1>1, <1>2, <2>1, <3>1, WakesKept DEF CronInv, CronSteady
  <2> QED
    BY <1>1, <2>1 DEF CronInv
<1>3. CASE UNCHANGED cronVars
  <2>1. UNCHANGED <<phase, mem, timer, fire, calls, stalled>>
    BY <1>3 DEF cronVars, scheduler
  <2>2. Wakes => Wakes'
    BY <2>1 DEF Wakes, Armed
  <2> QED
    BY <1>1, <2>1, <2>2 DEF CronInv
<1> QED
  BY <1>2, <1>3

\* What the invariant says of memory and of the rounds, ...
LEMMA SteadyMeans == CronSteady => MemoryMirrorsStore /\ FiresOnce
<1> SUFFICES ASSUME CronSteady PROVE MemoryMirrorsStore /\ FiresOnce
  OBVIOUS
<1>1. MemoryMirrorsStore
  <2> SUFFICES ASSUME phase \in {"up", "stopped"}, calls = <<>> PROVE mem = rows
    BY DEF MemoryMirrorsStore
  <2>1. Range(calls) = {}
    BY DEF Range
  <2>2. DOMAIN mem = DOMAIN rows /\ \A j \in DOMAIN rows : mem[j] = rows[j]
    BY <2>1 DEF CronSteady, Mirror
  <2>3. mem \in [DOMAIN mem -> Records] /\ rows \in [DOMAIN rows -> Records]
    BY DEF CronSteady, CronTypes
  <2> QED
    BY <2>2, <2>3
<1>2. FiresOnce
  BY DEF CronSteady, RoundsOK, FiresOnce
<1> QED
  BY <1>1, <1>2

\* ... and of what wakes the scheduler.
LEMMA InvMeans == CronInv => StaysAwake
<1> SUFFICES ASSUME CronInv, ~stalled, phase = "up", NEW j \in DOMAIN mem, mem[j].enabled
             PROVE  timer # {} \/ calls # <<>> \/ \E k \in Jobs : fire[k] # "none"
  BY DEF StaysAwake, NoLostTimer
<1>1. Armed(mem) # {}
  BY PlansTyped, ArmedIs DEF CronInv, CronSteady
<1>2. (\E c \in Range(calls) : c.op = "advance") => calls # <<>>
  BY DEF Range
<1> QED
  BY <1>1, <1>2 DEF CronInv, Wakes

\* The scheduler, its timer, ticks, fires and calls are what they should be.
THEOREM CronTyped == CronSpec => []CronTypeOK
<1> DEFINE Typed == CronTypes /\ now <= MaxTime
<1>1. CronInit => Typed
  BY CronStarts, CronBounds DEF CronInv, CronSteady, CronInit
<1>2. Typed /\ [CronNext]_cronVars => Typed'
  <2> SUFFICES ASSUME Typed, [CronNext]_cronVars PROVE Typed'
    OBVIOUS
  <2>1. CASE CronNext
    <3>1. CronTypes'
      BY <2>1, TypesKept
    <3>2. CASE TimePasses
      BY <2>1, <3>1, <3>2, CronBounds DEF TimePasses, CronTypes
    <3>3. CASE Start \/ Started \/ Stop \/ ProcessEnds \/ TimerFires \/ TickAgain \/ \E j \in Jobs : FireEnds(j)
      BY <3>1, <3>3 DEF Start, Started, Stop, ProcessEnds, TimerFires, TickAgain, FireEnds
    <3>4. CASE \E j \in Jobs : Requested(j)
      <4>1. PICK j \in Jobs : Requested(j)
        BY <3>4
      <4>2. Schedule(j) \/ Unschedule(j) => now' = now
        BY DEF Schedule, Unschedule, Asked
      <4>3. Update(j) \/ RunNow(j) => now' = now
        BY DEF Update, RunNow, Asked
      <4>4. \A on \in BOOLEAN : SetEnabled(j, on) => now' = now
        BY DEF SetEnabled, Asked
      <4>5. now' = now
        BY <4>1, <4>2, <4>3, <4>4 DEF Requested
      <4> QED
        BY <3>1, <4>5
    <3>5. CASE CreateDone \/ DeleteDone \/ FindDone \/ FlagDone \/ PatchDone \/ ReadDone
      BY <3>1, <3>5 DEF CreateDone, DeleteDone, FindDone, FlagDone, PatchDone, ReadDone
    <3>6. CASE TouchDone \/ AdvanceDone
      BY <3>1, <3>6 DEF TouchDone, AdvanceDone
    <3> QED
      BY <2>1, <3>2, <3>3, <3>4, <3>5, <3>6, StepIs
  <2>2. CASE UNCHANGED cronVars
    BY <2>2 DEF cronVars, scheduler, CronTypes
  <2> QED
    BY <2>1, <2>2
<1>3. Typed => CronTypeOK
  BY CronBounds DEF CronTypes, TickTypes, CronTypeOK, Fires
<1> QED
  BY <1>1, <1>2, <1>3, PTL DEF CronSpec

\* Whatever periods the jobs have: when no call is under way memory holds what the
\* store holds, and until a tick has had to wait, no round of a job is fired twice,
\* across ticks, requests, crashes and restarts.
THEOREM CronFiresOnce == CronSpec => [](MemoryMirrorsStore /\ FiresOnce)
<1>1. CronInit => CronSteady
  BY CronStarts DEF CronInv
<1>2. CronSteady /\ [CronNext]_cronVars => CronSteady'
  BY SteadyKept
<1> QED
  BY <1>1, <1>2, SteadyMeans, PTL DEF CronSpec

\* When, besides, no job is planned further ahead than setTimeout takes, the scheduler
\* never falls asleep with a job enabled, until a tick has had to wait.
THEOREM CronStaysInStep == ASSUME WithinReach PROVE CronSpec => []CronInStep
<1>1. CronInv /\ [CronNext]_cronVars => CronInv'
  BY CronKept
<1>2. CronInv => CronInStep
  BY SteadyMeans, InvMeans DEF CronInv, CronInStep
<1> QED
  BY <1>1, <1>2, CronStarts, PTL DEF CronSpec

=============================================================================
