-------------------------- MODULE SubagentsProofs ---------------------------
(***************************************************************************)
(* Proofs about Subagents: type correctness, that the controllers in       *)
(* memory account for the running rows, that maxConcurrent and the limits  *)
(* of the tree are never exceeded, that an outcome stands and that the     *)
(* pump starts the queue in its order, for every number of agents, every   *)
(* limit and every bound.                                                  *)
(***************************************************************************)
EXTENDS Subagents, CountingTheorems

-----------------------------------------------------------------------------
(* Type correctness *)

\* A component keeps its type in a step that leaves it alone.
LEMMA TypeFrame ==
    ASSUME TypeOK
    PROVE  /\ UNCHANGED table => TableOK'
           /\ UNCHANGED runtime => RuntimeOK'
           /\ UNCHANGED chains => ChainsOK'
           /\ UNCHANGED <<lock, cs, created>> => SectionOK'
           /\ UNCHANGED sweep => SweepOK'
           /\ UNCHANGED <<runs, notices, bounds>> => CountsOK'
<1>1. UNCHANGED table => TableOK'
  BY DEF TypeOK, TableOK, table, With, Rows
<1>2. UNCHANGED runtime => RuntimeOK'
  BY DEF TypeOK, RuntimeOK, runtime
<1>3. UNCHANGED chains => ChainsOK'
  BY DEF TypeOK, ChainsOK, chains
<1>4. UNCHANGED <<lock, cs, created>> => SectionOK'
  BY DEF TypeOK, SectionOK
<1>5. UNCHANGED sweep => SweepOK'
  BY DEF TypeOK, SweepOK
<1>6. UNCHANGED <<runs, notices, bounds>> => CountsOK'
  BY DEF TypeOK, CountsOK, bounds
<1> QED
  BY <1>1, <1>2, <1>3, <1>4, <1>5, <1>6

\* An existing row moves from one status to another, and is overdue no longer
\* unless it runs.
LEMMA MoveType ==
    ASSUME TableOK, NEW a \in Rows, NEW st \in Statuses \ {"none"},
           status' = [status EXCEPT ![a] = st], UNCHANGED <<created, parent>>,
           overdue' = overdue \ {a} \/ (overdue' = overdue /\ st = "running")
    PROVE  TableOK'
<1>1. a \in Agents
  BY LimitsAssumption DEF TableOK, Rows, Agents
<1>2. \A b \in Agents : status'[b] = IF b = a THEN st ELSE status[b]
  BY <1>1 DEF TableOK
<1>3. status' \in [Agents -> Statuses]
  BY <1>1 DEF TableOK
<1>4. \A b \in Agents : b \in Rows' <=> status'[b] # "none"
  BY <1>1, <1>2 DEF TableOK, Rows
<1>5. overdue' \subseteq With("running")'
  BY <1>2 DEF TableOK, With
<1> QED
  BY <1>3, <1>4, <1>5 DEF TableOK

\* An agent starts or its controller is removed.
LEMMA RuntimeMoves ==
    ASSUME RuntimeOK, CountsOK, NEW a \in Agents
    PROVE  /\ Execute(a) => RuntimeOK' /\ runs' \in [Agents -> Nat]
           /\ Teardown(a) => RuntimeOK'
<1>1. Execute(a) => RuntimeOK'
  BY DEF RuntimeOK, Execute
<1>2. Execute(a) => runs' \in [Agents -> Nat]
  BY DEF CountsOK, Execute
<1>3. Teardown(a) => RuntimeOK'
  BY DEF RuntimeOK, Teardown
<1> QED
  BY <1>1, <1>2, <1>3

\* A step joins the chain of an agent.
LEMMA JoinType ==
    ASSUME ChainsOK, NEW a \in Agents, NEW kind \in {"done", "error", "cancel"},
           events' = [events EXCEPT ![a] = Append(@, kind)], UNCHANGED step
    PROVE  ChainsOK'
<1>1. Append(events[a], kind) \in Seq({"done", "error", "cancel"}) /\ Append(events[a], kind) # <<>>
  BY DEF ChainsOK
<1>2. events' \in [Agents -> Seq({"done", "error", "cancel"})]
  BY <1>1 DEF ChainsOK
<1>3. \A b \in Agents : step'[b].pc # "idle" => events'[b] # <<>>
  BY <1>1 DEF ChainsOK
<1> QED
  BY <1>2, <1>3 DEF ChainsOK

\* The step at the head of a chain ends.
LEMMA EndType ==
    ASSUME ChainsOK, NEW a \in Agents, events[a] # <<>>, EndStep(a)
    PROVE  ChainsOK'
<1>1. Tail(events[a]) \in Seq({"done", "error", "cancel"})
  BY DEF ChainsOK
<1>2. events' \in [Agents -> Seq({"done", "error", "cancel"})]
  BY <1>1 DEF ChainsOK, EndStep
<1>3. NoStep \in [pc : {"idle", "update", "notify"}, from : {"none", "queued", "running"}]
      /\ NoStep.pc = "idle"
  BY DEF NoStep
<1>4. step' \in [Agents -> [pc : {"idle", "update", "notify"}, from : {"none", "queued", "running"}]]
  BY <1>3 DEF ChainsOK, EndStep
<1>5. \A b \in Agents : step'[b].pc # "idle" => events'[b] # <<>>
  BY <1>3 DEF ChainsOK, EndStep
<1> QED
  BY <1>2, <1>4, <1>5 DEF ChainsOK

\* The step at the head of a chain goes on.
LEMMA GoOnType ==
    ASSUME ChainsOK, NEW a \in Agents, events[a] # <<>>,
           NEW s \in [pc : {"idle", "update", "notify"}, from : {"none", "queued", "running"}],
           step' = [step EXCEPT ![a] = s], UNCHANGED events
    PROVE  ChainsOK'
BY DEF ChainsOK

\* The critical section is entered, advances or is left.
LEMMA QueueType ==
    ASSUME SectionOK, UNCHANGED created
    PROVE  /\ SchedulePump /\ UNCHANGED cs => SectionOK'
           /\ lock # <<>> /\ Leave => SectionOK'
<1> DEFINE Entries == [kind : {"spawn", "pump"}, parent : Agents \union {Main}]
<1>1. Pump \in Entries
  BY DEF Pump
<1>2. SchedulePump => lock' \in Seq(Entries) /\ lock' # <<>>
  BY <1>1 DEF SectionOK, SchedulePump
<1>3. SchedulePump /\ UNCHANGED cs => SectionOK'
  BY <1>2 DEF SectionOK
<1>4. lock # <<>> /\ Leave => lock' \in Seq(Entries)
  BY DEF SectionOK, Leave
<1>5. Leave => /\ cs' \in [pc : {"idle", "create", "list", "get", "start"},
                           slots : 0..MaxConcurrent, todo : SUBSET Agents]
               /\ cs'.pc = "idle"
  BY LimitsAssumption DEF Leave, NoSection
<1>6. lock # <<>> /\ Leave => SectionOK'
  BY <1>4, <1>5 DEF SectionOK
<1> QED
  BY <1>3, <1>6

\* The pump goes on with the rest of its list.
LEMMA PumpNextType ==
    ASSUME SectionOK, UNCHANGED created, lock # <<>>,
           NEW slots \in 0..MaxConcurrent, NEW todo \in SUBSET Agents, PumpNext(slots, todo)
    PROVE  SectionOK'
<1>1. CASE slots = 0 \/ todo = {}
  BY <1>1, QueueType DEF PumpNext
<1>2. CASE ~(slots = 0 \/ todo = {})
  BY <1>2 DEF PumpNext, SectionOK
<1> QED
  BY <1>1, <1>2

\* What remains of a limit is within it.
LEMMA FreeSlotsType ==
    ASSUME TypeOK
    PROVE  /\ IsFiniteSet(With("running")) /\ Cardinality(With("running")) \in Nat
           /\ FreeSlots \in 0..MaxConcurrent
           /\ FreeSlots = 0 \/ FreeSlots + Cardinality(With("running")) = MaxConcurrent
<1>1. IsFiniteSet(Agents)
  BY LimitsAssumption, FS_Interval DEF Agents
<1>2. IsFiniteSet(With("running"))
  BY <1>1, FS_Subset DEF With
<1>3. Cardinality(With("running")) \in Nat
  BY <1>2, FS_CardinalityType
<1> QED
  BY <1>2, <1>3, LimitsAssumption DEF FreeSlots

\* Activities keep referring to rows while they forget some of them.
LEMMA RefersStep ==
    ASSUME TableOK, RefersOK, created' = created \/ created' = created + 1,
           \A a \in Agents : step'[a].pc # "idle" => step[a].pc # "idle" \/ a \in Rows,
           cs'.todo \subseteq cs.todo \union Rows, sweep'.todo \subseteq sweep.todo \union Rows
    PROVE  RefersOK'
<1>1. Rows \subseteq Rows'
  BY LimitsAssumption DEF TableOK, Rows
<1> QED
  BY <1>1 DEF RefersOK

\* ... in particular when none of them does anything.
LEMMA RefersFrame ==
    ASSUME TypeOK
    PROVE  /\ UNCHANGED <<created, cs, sweep, step>> => RefersOK'
           /\ lock # <<>> /\ Leave /\ UNCHANGED <<created, step, sweep>> => RefersOK'
<1>1. UNCHANGED <<created, cs, sweep, step>> => RefersOK'
  BY DEF TypeOK, RefersOK, Rows
<1>2. Leave /\ UNCHANGED <<created, step, sweep>> => RefersOK'
  BY DEF TypeOK, RefersOK, Rows, Leave, NoSection
<1> QED
  BY <1>1, <1>2

LEMMA EmptyIsSeq == ASSUME NEW S PROVE <<>> \in Seq(S)
OBVIOUS

LEMMA HeadIsMember == ASSUME NEW S, NEW q \in Seq(S), q # <<>> PROVE Head(q) \in S
OBVIOUS

LEMMA TypeInit == Init => TypeOK
<1> SUFFICES ASSUME Init PROVE TypeOK
  OBVIOUS
<1>1. TableOK
  BY LimitsAssumption DEF Init, TableOK, Statuses, Terminal, Rows, Agents, With
<1>2. RuntimeOK
  BY DEF Init, RuntimeOK
<1>3. ChainsOK
  BY EmptyIsSeq DEF Init, ChainsOK, NoStep
<1>4. SectionOK
  BY LimitsAssumption, EmptyIsSeq DEF Init, SectionOK, NoSection
<1>5. SweepOK
  BY DEF Init, SweepOK, NoSweep
<1>6. CountsOK
  BY DEF Init, CountsOK
<1>7. RefersOK
  BY DEF Init, RefersOK, NoStep, NoSection, NoSweep
<1> QED
  BY <1>1, <1>2, <1>3, <1>4, <1>5, <1>6, <1>7 DEF TypeOK

\* The steps of the runner, the clock, the clients and the process.
LEMMA TypeOutside ==
    ASSUME TypeOK
    PROVE  /\ \A p \in Callers : Spawn(p) => TypeOK'
           /\ \A a \in Agents :
                 Cancel(a) \/ RunnerEnds(a) \/ TimePasses(a) \/ TimerFires(a) => TypeOK'
           /\ Restart => TypeOK'
<1> USE DEF TypeOK
<1>1. ASSUME NEW p \in Callers, Spawn(p) PROVE TypeOK'
  <2>1. lock' \in Seq([kind : {"spawn", "pump"}, parent : Agents \union {Main}]) /\ lock' # <<>>
    BY <1>1, LimitsAssumption DEF Spawn, SectionOK
  <2>2. SectionOK'
    BY <1>1, <2>1 DEF Spawn, SectionOK, table
  <2>3. CountsOK'
    BY <1>1 DEF Spawn, CountsOK
  <2> QED
    BY <1>1, <2>2, <2>3, TypeFrame, RefersFrame DEF Spawn, table, chains
<1>2. ASSUME NEW a \in Agents, Cancel(a) PROVE TypeOK'
  <2>1. ChainsOK'
    BY <1>2, JoinType DEF Cancel
  <2> QED
    BY <1>2, <2>1, TypeFrame, RefersFrame DEF Cancel, table, section
<1>3. ASSUME NEW a \in Agents, RunnerEnds(a) PROVE TypeOK'
  <2>1. RuntimeOK'
    BY <1>3 DEF RunnerEnds, RuntimeOK
  <2>2. ChainsOK'
    BY <1>3, JoinType DEF RunnerEnds
  <2> QED
    BY <1>3, <2>1, <2>2, TypeFrame, RefersFrame DEF RunnerEnds, table, section
<1>4. ASSUME NEW a \in Agents, TimePasses(a) PROVE TypeOK'
  <2>1. TableOK'
    BY <1>4 DEF TimePasses, TableOK, With, Rows
  <2> QED
    BY <1>4, <2>1, TypeFrame, RefersFrame DEF TimePasses, section, chains
<1>5. ASSUME NEW a \in Agents, TimerFires(a) PROVE TypeOK'
  <2>1. RuntimeOK'
    BY <1>5 DEF TimerFires, RuntimeOK
  <2>2. ChainsOK'
    BY <1>5, JoinType DEF TimerFires
  <2> QED
    BY <1>5, <2>1, <2>2, TypeFrame, RefersFrame DEF TimerFires, table, section
<1>6. CASE Restart
  <2>1. RuntimeOK'
    BY <1>6 DEF Restart, RuntimeOK
  <2>2. ChainsOK'
    BY <1>6, EmptyIsSeq DEF Restart, ChainsOK, NoStep
  <2>3. SectionOK'
    BY <1>6, LimitsAssumption, EmptyIsSeq DEF Restart, SectionOK, NoSection
  <2>4. SweepOK'
    BY <1>6 DEF Restart, SweepOK, NoSweep
  <2>5. CountsOK'
    BY <1>6 DEF Restart, CountsOK
  <2>6. RefersOK'
    BY <1>6 DEF Restart, RefersOK, NoStep, NoSection, NoSweep
  <2> QED
    BY <1>6, <2>1, <2>2, <2>3, <2>4, <2>5, <2>6, TypeFrame DEF Restart
<1> QED
  BY <1>1, <1>2, <1>3, <1>4, <1>5, <1>6

\* The steps of an event chain.
LEMMA TypeChain ==
    ASSUME TypeOK, NEW a \in Agents, ChainStep(a)
    PROVE  TypeOK'
<1> USE DEF TypeOK
<1>1. CASE StepGet(a)
  <2>1. ChainsOK' /\ \A b \in Agents : step'[b].pc # "idle" => step[b].pc # "idle" \/ b \in Rows
    <3>1. CASE status[a] \in Accepts(Head(events[a]))
      <4>1. status[a] \in {"queued", "running"}
        BY <3>1 DEF Accepts
      <4>2. step' = [step EXCEPT ![a] = [pc |-> "update", from |-> status[a]]] /\ UNCHANGED events
        BY <1>1, <3>1 DEF StepGet
      <4>3. [pc |-> "update", from |-> status[a]]
                \in [pc : {"idle", "update", "notify"}, from : {"none", "queued", "running"}]
        BY <4>1
      <4>4. ChainsOK'
        BY <1>1, <4>2, <4>3, GoOnType DEF StepGet
      <4>5. a \in Rows
        BY <4>1 DEF TableOK
      <4> QED
        BY <4>2, <4>4, <4>5 DEF ChainsOK
    <3>2. CASE status[a] \notin Accepts(Head(events[a]))
      <4>1. EndStep(a)
        BY <1>1, <3>2 DEF StepGet
      <4>2. ChainsOK'
        BY <1>1, <4>1, EndType DEF StepGet
      <4> QED
        BY <4>1, <4>2 DEF EndStep, NoStep, ChainsOK
    <3> QED
      BY <3>1, <3>2
  <2>2. RefersOK'
    BY <1>1, <2>1, RefersStep DEF StepGet, table, section
  <2> QED
    BY <1>1, <2>1, <2>2, TypeFrame DEF StepGet, table, section
<1>2. CASE StepUpdate(a)
  <2>1. events[a] # <<>> /\ Head(events[a]) \in {"done", "error", "cancel"} /\ a \in Rows
    BY <1>2 DEF StepUpdate, ChainsOK, RefersOK
  <2>2. Outcome[Head(events[a])] \in Terminal
    BY <2>1 DEF Outcome, Terminal
  <2>3. TableOK'
    BY <1>2, <2>1, <2>2, MoveType DEF StepUpdate, Statuses, Terminal
  <2>4. RuntimeOK'
    BY <1>2, RuntimeMoves DEF StepUpdate
  <2>5. ChainsOK' /\ \A b \in Agents : step'[b].pc # "idle" => step[b].pc # "idle"
    <3>1. CASE Head(events[a]) = "cancel"
      <4>1. EndStep(a)
        BY <1>2, <3>1 DEF StepUpdate
      <4>2. ChainsOK'
        BY <2>1, <4>1, EndType
      <4> QED
        BY <4>1, <4>2 DEF EndStep, NoStep, ChainsOK
    <3>2. CASE Head(events[a]) # "cancel"
      <4>1. step' = [step EXCEPT ![a].pc = "notify"] /\ UNCHANGED events
        BY <1>2, <3>2 DEF StepUpdate
      <4>2. [step[a] EXCEPT !.pc = "notify"]
                \in [pc : {"idle", "update", "notify"}, from : {"none", "queued", "running"}]
        BY DEF ChainsOK
      <4>3. step' = [step EXCEPT ![a] = [step[a] EXCEPT !.pc = "notify"]]
        BY <4>1
      <4>4. ChainsOK'
        BY <2>1, <4>1, <4>2, <4>3, GoOnType
      <4>5. step[a].pc # "idle"
        BY <1>2 DEF StepUpdate
      <4> QED
        BY <4>3, <4>4, <4>5 DEF ChainsOK
    <3> QED
      BY <3>1, <3>2
  <2>6. SectionOK'
    <3>1. SchedulePump \/ UNCHANGED lock
      BY <1>2 DEF StepUpdate
    <3> QED
      BY <1>2, <3>1, QueueType, TypeFrame DEF StepUpdate
  <2>7. RefersOK'
    BY <1>2, <2>5, RefersStep DEF StepUpdate
  <2> QED
    BY <1>2, <2>3, <2>4, <2>5, <2>6, <2>7, TypeFrame DEF StepUpdate
<1>3. CASE StepNotify(a)
  <2>1. ChainsOK'
    BY <1>3, EndType DEF StepNotify, ChainsOK
  <2>2. SectionOK'
    BY <1>3, QueueType DEF StepNotify, table
  <2>3. CountsOK'
    BY <1>3 DEF StepNotify, CountsOK, bounds
  <2>4. \A b \in Agents : step'[b].pc # "idle" => step[b].pc # "idle"
    BY <1>3 DEF StepNotify, EndStep, NoStep, ChainsOK
  <2>5. RefersOK'
    BY <1>3, <2>4, RefersStep DEF StepNotify, table
  <2> QED
    BY <1>3, <2>1, <2>2, <2>3, <2>5, TypeFrame DEF StepNotify
<1> QED
  BY <1>1, <1>2, <1>3 DEF ChainStep

\* The steps of spawn.
LEMMA TypeSpawn ==
    ASSUME TypeOK, SpawnStep
    PROVE  TypeOK'
<1> USE DEF TypeOK
<1>1. CASE SpawnCount
  <2>1. SectionOK' /\ cs'.todo \subseteq cs.todo
    <3>1. CASE TreeAllows(Head(lock).parent) /\ created < N
      BY <1>1, <3>1, FreeSlotsType DEF SpawnCount, SectionOK, table
    <3>2. CASE ~(TreeAllows(Head(lock).parent) /\ created < N)
      BY <1>1, <3>2, QueueType DEF SpawnCount, table, Leave, NoSection
    <3> QED
      BY <3>1, <3>2
  <2>2. RefersOK'
    BY <1>1, <2>1, RefersStep DEF SpawnCount, table, chains
  <2> QED
    BY <1>1, <2>1, <2>2, TypeFrame DEF SpawnCount
<1>2. CASE SpawnCreate
  <2> DEFINE a == created + 1
  <2>1. a \in Agents /\ created' = a /\ a \notin Rows /\ Rows' = Rows \union {a}
    BY <1>2, LimitsAssumption DEF SpawnCreate, SectionOK, TableOK, Agents, Rows
  <2>2. lock # <<>> /\ Head(lock).parent \in Agents \union {Main}
    <3>1. lock # <<>> /\ lock \in Seq([kind : {"spawn", "pump"}, parent : Agents \union {Main}])
      BY <1>2 DEF SpawnCreate, SectionOK
    <3>2. Head(lock) \in [kind : {"spawn", "pump"}, parent : Agents \union {Main}]
      BY <3>1, HeadIsMember
    <3> QED
      BY <3>1, <3>2
  <2>3. PICK st \in {"running", "queued"} : status' = [status EXCEPT ![a] = st]
    BY <1>2 DEF SpawnCreate
  <2>4. TableOK'
    <3>1. status' \in [Agents -> Statuses] /\ parent' \in [Agents -> Agents \union {Main}]
      BY <1>2, <2>1, <2>2, <2>3 DEF SpawnCreate, TableOK, Statuses
    <3>2. \A b \in Agents : status'[b] = IF b = a THEN st ELSE status[b]
      BY <2>1, <2>3 DEF TableOK
    <3>3. \A b \in Agents : b \in Rows' <=> status'[b] # "none"
      BY <2>1, <3>2 DEF TableOK
    <3>4. overdue' \subseteq With("running")'
      BY <1>2, <2>1, <3>2 DEF SpawnCreate, TableOK, With
    <3>5. created' \in 0..N
      BY <2>1, LimitsAssumption DEF Agents
    <3> QED
      BY <3>1, <3>3, <3>4, <3>5 DEF TableOK
  <2>5. RuntimeOK' /\ runs' \in [Agents -> Nat]
    <3>1. Execute(a) \/ UNCHANGED <<runtime, runs>>
      BY <1>2 DEF SpawnCreate
    <3>2. CASE Execute(a)
      BY <2>1, <3>2, RuntimeMoves
    <3>3. CASE UNCHANGED <<runtime, runs>>
      BY <3>3, TypeFrame DEF CountsOK
    <3> QED
      BY <3>1, <3>2, <3>3
  <2>6. SectionOK'
    <3>1. lock' \in Seq([kind : {"spawn", "pump"}, parent : Agents \union {Main}])
      BY <1>2, <2>2 DEF SpawnCreate, Leave, SectionOK
    <3>2. /\ cs' \in [pc : {"idle", "create", "list", "get", "start"},
                      slots : 0..MaxConcurrent, todo : SUBSET Agents]
          /\ cs'.pc = "idle"
      BY <1>2, LimitsAssumption DEF SpawnCreate, Leave, NoSection
    <3> QED
      BY <3>1, <3>2 DEF SectionOK
  <2>7. CountsOK'
    BY <1>2, <2>5 DEF SpawnCreate, CountsOK, bounds
  <2>8. RefersOK'
    BY <1>2, RefersStep DEF SpawnCreate, Leave, NoSection, chains
  <2> QED
    BY <1>2, <2>4, <2>5, <2>6, <2>7, <2>8, TypeFrame DEF SpawnCreate
<1> QED
  BY <1>1, <1>2 DEF SpawnStep

\* The steps of pump.
LEMMA TypePump ==
    ASSUME TypeOK, PumpStep
    PROVE  TypeOK'
<1> USE DEF TypeOK
<1>1. CASE PumpCount
  <2>1. SectionOK' /\ cs'.todo \subseteq cs.todo
    <3>1. CASE FreeSlots = 0
      BY <1>1, <3>1, QueueType DEF PumpCount, table, Leave, NoSection
    <3>2. CASE FreeSlots # 0
      BY <1>1, <3>2, FreeSlotsType DEF PumpCount, SectionOK, table
    <3> QED
      BY <3>1, <3>2
  <2>2. RefersOK'
    BY <1>1, <2>1, RefersStep DEF PumpCount, table, chains
  <2> QED
    BY <1>1, <2>1, <2>2, TypeFrame DEF PumpCount
<1>2. CASE PumpList
  <2>1. With("queued") \subseteq Rows /\ With("queued") \subseteq Agents
    BY DEF With, TableOK
  <2>2. SectionOK'
    BY <1>2, <2>1, PumpNextType DEF PumpList, SectionOK, table
  <2>3. cs'.todo \subseteq cs.todo \union Rows
    BY <1>2, <2>1 DEF PumpList, PumpNext, Leave, NoSection
  <2>4. RefersOK'
    BY <1>2, <2>3, RefersStep DEF PumpList, table, chains
  <2> QED
    BY <1>2, <2>2, <2>4, TypeFrame DEF PumpList
<1>3. ASSUME NEW a \in Agents, PumpGet(a)
      PROVE  TypeOK'
  <2>1. lock # <<>> /\ cs.slots \in 0..MaxConcurrent /\ cs.todo \subseteq Agents
    BY <1>3 DEF PumpGet, SectionOK
  <2>2. SectionOK' /\ cs'.todo \subseteq cs.todo
    <3>1. CASE status[a] = "queued"
      BY <1>3, <3>1 DEF PumpGet, SectionOK, table
    <3>2. CASE status[a] # "queued"
      <4>1. PumpNext(cs.slots, cs.todo \ {a})
        BY <1>3, <3>2 DEF PumpGet
      <4>2. SectionOK'
        BY <1>3, <2>1, <4>1, PumpNextType DEF PumpGet, table
      <4> QED
        BY <4>1, <4>2 DEF PumpNext, Leave, NoSection
    <3> QED
      BY <3>1, <3>2
  <2>3. RefersOK'
    BY <1>3, <2>2, RefersStep DEF PumpGet, table, chains
  <2> QED
    BY <1>3, <2>2, <2>3, TypeFrame DEF PumpGet
<1>4. ASSUME NEW a \in Agents, PumpStart(a)
      PROVE  TypeOK'
  <2>1. lock # <<>> /\ cs.slots - 1 \in 0..MaxConcurrent /\ cs.todo \subseteq Agents
    <3>1. cs.slots \in 0..MaxConcurrent /\ cs.slots > 0
      BY <1>4 DEF PumpStart, SectionOK
    <3> QED
      BY <1>4, <3>1, LimitsAssumption DEF PumpStart, SectionOK
  <2>2. a \in Rows
    BY <1>4 DEF PumpStart, Oldest, RefersOK
  <2>3. TableOK'
    BY <1>4, <2>2, MoveType DEF PumpStart, Statuses
  <2>4. RuntimeOK' /\ runs' \in [Agents -> Nat]
    BY <1>4, RuntimeMoves DEF PumpStart
  <2>5. SectionOK' /\ cs'.todo \subseteq cs.todo
    <3>1. PumpNext(cs.slots - 1, cs.todo \ {a})
      BY <1>4 DEF PumpStart
    <3>2. SectionOK'
      BY <1>4, <2>1, <3>1, PumpNextType DEF PumpStart
    <3> QED
      BY <3>1, <3>2 DEF PumpNext, Leave, NoSection
  <2>6. RefersOK'
    BY <1>4, <2>5, RefersStep DEF PumpStart, chains
  <2>7. CountsOK'
    BY <1>4, <2>4 DEF PumpStart, CountsOK, bounds
  <2> QED
    BY <1>4, <2>3, <2>4, <2>5, <2>6, <2>7, TypeFrame DEF PumpStart
<1> QED
  BY <1>1, <1>2, <1>3, <1>4 DEF PumpStep

\* The steps of sweepTimeouts.
LEMMA TypeSweep ==
    ASSUME TypeOK, SweepList \/ SweepStep
    PROVE  TypeOK'
<1> USE DEF TypeOK
<1>1. CASE SweepList
  <2>1. With("running") \subseteq Rows /\ With("running") \subseteq Agents
    BY DEF With, TableOK
  <2>2. SweepOK' /\ sweep'.todo \subseteq Rows
    BY <1>1, <2>1 DEF SweepList, SweepOK, NoSweep
  <2>3. CountsOK'
    BY <1>1 DEF SweepList, CountsOK
  <2>4. RefersOK'
    BY <1>1, <2>2, RefersStep DEF SweepList, table, chains, section
  <2> QED
    BY <1>1, <2>2, <2>3, <2>4, TypeFrame DEF SweepList, section, table
<1>2. ASSUME NEW a \in Agents, SweepUpdate(a)
      PROVE  TypeOK'
  <2>1. a \in Rows
    BY <1>2 DEF SweepUpdate, Oldest, RefersOK
  <2>2. TableOK'
    BY <1>2, <2>1, MoveType DEF SweepUpdate, Statuses, Terminal
  <2>3. RuntimeOK'
    BY <1>2, RuntimeMoves DEF SweepUpdate
  <2>4. SweepOK' /\ sweep'.todo = sweep.todo
    BY <1>2 DEF SweepUpdate, SweepOK
  <2>5. RefersOK'
    BY <1>2, <2>4, RefersStep DEF SweepUpdate, chains, section
  <2> QED
    BY <1>2, <2>2, <2>3, <2>4, <2>5, TypeFrame DEF SweepUpdate, section
<1>3. ASSUME NEW a \in Agents, SweepNotify(a)
      PROVE  TypeOK'
  <2>1. SweepOK' /\ sweep'.todo \subseteq sweep.todo
    BY <1>3 DEF SweepNotify, SweepOK, NoSweep
  <2>2. SchedulePump \/ UNCHANGED lock
    BY <1>3 DEF SweepNotify
  <2>3. SectionOK'
    BY <1>3, <2>2, QueueType, TypeFrame DEF SweepNotify, table
  <2>4. CountsOK'
    BY <1>3 DEF SweepNotify, CountsOK, bounds
  <2>5. RefersOK'
    BY <1>3, <2>1, RefersStep DEF SweepNotify, table, chains
  <2> QED
    BY <1>3, <2>1, <2>3, <2>4, <2>5, TypeFrame DEF SweepNotify
<1> QED
  BY <1>1, <1>2, <1>3 DEF SweepStep

LEMMA TypeStep == TypeOK /\ [Next]_vars => TypeOK'
<1> SUFFICES ASSUME TypeOK, [Next]_vars PROVE TypeOK'
  OBVIOUS
<1>1. CASE UNCHANGED vars
  BY <1>1, TypeFrame, RefersFrame DEF vars, table, chains, section, TypeOK
<1>2. CASE Next
  BY <1>2, TypeOutside, TypeChain, TypeSpawn, TypePump, TypeSweep DEF Next
<1> QED
  BY <1>1, <1>2

\* Type correctness: no progress of an activity outlives what it works on.
THEOREM TypeCorrect == Spec => []TypeOK
BY TypeInit, TypeStep, PTL DEF Spec

-----------------------------------------------------------------------------
(* The controllers in memory account for the running rows *)

\* A row that starts and is executed, and a row that ends and is torn down.
LEMMA AccountMoves ==
    ASSUME TypeOK, SlotsAccounted, NEW a \in Agents, NEW st \in Terminal,
           restarts' = restarts
    PROVE  /\ status' = [status EXCEPT ![a] = "running"] /\ Execute(a) => SlotsAccounted'
           /\ status' = [status EXCEPT ![a] = st] /\ Teardown(a) => SlotsAccounted'
<1>1. ASSUME status' = [status EXCEPT ![a] = "running"], Execute(a) PROVE SlotsAccounted'
  <2>1. \A b \in Agents : status'[b] = IF b = a THEN "running" ELSE status[b]
    BY <1>1 DEF TypeOK, TableOK
  <2>2. \A b \in Agents : runner'[b] = IF b = a THEN "live" ELSE runner[b]
    BY <1>1 DEF TypeOK, RuntimeOK, Execute
  <2> QED
    BY <1>1, <2>1, <2>2 DEF SlotsAccounted, Execute, With
<1>2. ASSUME status' = [status EXCEPT ![a] = st], Teardown(a) PROVE SlotsAccounted'
  <2>1. \A b \in Agents : status'[b] = IF b = a THEN st ELSE status[b]
    BY <1>2 DEF TypeOK, TableOK
  <2>2. \A b \in Agents : b # a => runner'[b] = runner[b]
    BY <1>2 DEF TypeOK, RuntimeOK, Teardown
  <2>3. runner'[a] # "live"
    BY <1>2 DEF TypeOK, RuntimeOK, Teardown, SlotsAccounted
  <2> QED
    BY <1>2, <2>1, <2>2, <2>3 DEF SlotsAccounted, Teardown, With, Terminal
<1> QED
  BY <1>1, <1>2

\* A step that touches neither the table nor the memory, nor restarts.
LEMMA AccountFrame ==
    SlotsAccounted /\ UNCHANGED <<status, registered, runner, restarts>> => SlotsAccounted'
BY DEF SlotsAccounted, With

LEMMA AccountInit == Init => SlotsAccounted
BY DEF Init, SlotsAccounted, With

LEMMA AccountStep == TypeOK /\ SlotsAccounted /\ [Next]_vars => SlotsAccounted'
<1> SUFFICES ASSUME TypeOK, SlotsAccounted, [Next]_vars PROVE SlotsAccounted'
  OBVIOUS
<1> USE DEF table, runtime, bounds
<1>1. ASSUME NEW p \in Callers, Spawn(p) PROVE SlotsAccounted'
  BY <1>1, AccountFrame DEF Spawn
<1>2. ASSUME NEW a \in Agents, Cancel(a) \/ StepGet(a) \/ StepNotify(a) \/ TimePasses(a) \/ TimerFires(a)
      PROVE  SlotsAccounted'
  BY <1>2, AccountFrame DEF Cancel, StepGet, StepNotify, TimePasses, TimerFires
<1>3. ASSUME NEW a \in Agents, RunnerEnds(a) PROVE SlotsAccounted'
  BY <1>3 DEF RunnerEnds, SlotsAccounted, With, TypeOK, RuntimeOK
<1>4. ASSUME NEW a \in Agents, StepUpdate(a) PROVE SlotsAccounted'
  <2>1. Head(events[a]) \in {"done", "error", "cancel"}
    BY <1>4 DEF StepUpdate, TypeOK, ChainsOK
  <2>2. Outcome[Head(events[a])] \in Terminal
    BY <2>1 DEF Outcome, Terminal
  <2> QED
    BY <1>4, <2>2, AccountMoves DEF StepUpdate
<1>5. CASE SpawnCount \/ PumpCount \/ PumpList
  BY <1>5, AccountFrame DEF SpawnCount, PumpCount, PumpList
<1>6. CASE SpawnCreate
  <2> DEFINE a == created + 1
  <2>1. a \in Agents /\ status[a] = "none"
    BY <1>6, LimitsAssumption DEF SpawnCreate, TypeOK, SectionOK, TableOK, Agents, Rows
  <2>2. CASE cs.slots > 0
    BY <1>6, <2>1, <2>2, AccountMoves DEF SpawnCreate, Terminal
  <2>3. CASE ~(cs.slots > 0)
    BY <1>6, <2>1, <2>3 DEF SpawnCreate, SlotsAccounted, With, TypeOK, TableOK
  <2> QED
    BY <2>2, <2>3
<1>7. ASSUME NEW a \in Agents, PumpGet(a) PROVE SlotsAccounted'
  BY <1>7, AccountFrame DEF PumpGet
<1>8. ASSUME NEW a \in Agents, PumpStart(a) PROVE SlotsAccounted'
  BY <1>8, AccountMoves DEF PumpStart, Terminal
<1>9. CASE SweepList
  BY <1>9, AccountFrame DEF SweepList
<1>10. ASSUME NEW a \in Agents, SweepUpdate(a) PROVE SlotsAccounted'
  BY <1>10, AccountMoves DEF SweepUpdate, Terminal
<1>11. ASSUME NEW a \in Agents, SweepNotify(a) PROVE SlotsAccounted'
  BY <1>11, AccountFrame DEF SweepNotify
<1>12. CASE Restart
  BY <1>12 DEF Restart, SlotsAccounted, TypeOK, CountsOK
<1>13. CASE UNCHANGED vars
  BY <1>13, AccountFrame DEF vars
<1> QED
  BY <1>1, <1>2, <1>3, <1>4, <1>5, <1>6, <1>7, <1>8, <1>9, <1>10, <1>11, <1>12, <1>13
     DEF Next, ChainStep, SpawnStep, PumpStep, SweepStep

\* A cancel or a timeout always finds the controller of a running agent, and
\* no runner is left alive behind a row that has ended.
THEOREM AccountHolds == Spec => []SlotsAccounted
<1>1. Init => TypeOK /\ SlotsAccounted
  BY TypeInit, AccountInit
<1>2. TypeOK /\ SlotsAccounted /\ [Next]_vars => (TypeOK /\ SlotsAccounted)'
  BY TypeStep, AccountStep
<1> QED
  BY <1>1, <1>2, PTL DEF Spec

-----------------------------------------------------------------------------
(* maxConcurrent *)

\* Inside the critical section the slots it still means to fill are free: that
\* is why the count may be old when the rows are started.
Reserved == cs.pc \in {"create", "list", "get", "start"} =>
               cs.slots = 0 \/ cs.slots + Cardinality(With("running")) <= MaxConcurrent

Capacity == WithinCapacity /\ Reserved

LEMMA RunningIsFinite ==
    /\ IsFiniteSet(With("running")) /\ IsFiniteSet(With("running")')
    /\ Cardinality(With("running")) \in Nat /\ Cardinality(With("running")') \in Nat
<1>1. IsFiniteSet(Agents)
  BY LimitsAssumption, FS_Interval DEF Agents
<1>2. IsFiniteSet(With("running")) /\ IsFiniteSet(With("running")')
  BY <1>1, FS_Subset DEF With
<1> QED
  BY <1>2, FS_CardinalityType

\* Rows only stop running.
LEMMA FewerRunning ==
    ASSUME With("running")' \subseteq With("running")
    PROVE  Cardinality(With("running")') <= Cardinality(With("running"))
BY RunningIsFinite, FS_Subset

\* One more row runs.
LEMMA OneMoreRunning ==
    ASSUME NEW a, With("running")' = With("running") \union {a}
    PROVE  Cardinality(With("running")') <= Cardinality(With("running")) + 1
BY RunningIsFinite, FS_AddElement

\* A step outside the critical section only frees slots.
LEMMA CapacityFrame ==
    ASSUME TypeOK, Capacity, With("running")' \subseteq With("running"),
           UNCHANGED cs \/ cs' = NoSection
    PROVE  Capacity'
<1>1. Cardinality(With("running")') <= Cardinality(With("running"))
  BY FewerRunning
<1>2. cs.slots \in Nat
  BY LimitsAssumption DEF TypeOK, SectionOK
<1> QED
  BY <1>1, <1>2, RunningIsFinite, LimitsAssumption
     DEF Capacity, WithinCapacity, Reserved, NoSection

LEMMA CapacityInit == Init => Capacity
<1> SUFFICES ASSUME Init PROVE Capacity
  OBVIOUS
<1>1. With("running") = {}
  BY DEF Init, With
<1>2. Cardinality(With("running")) = 0
  BY <1>1, FS_EmptySet
<1> QED
  BY <1>2, LimitsAssumption DEF Init, Capacity, WithinCapacity, Reserved, NoSection

\* The steps of the critical section that count, look and skip.
LEMMA CapacityCount ==
    ASSUME TypeOK, Capacity, NEW a,
           SpawnCount \/ PumpCount \/ PumpList \/ PumpGet(a)
    PROVE  Capacity'
<1> DEFINE R == Cardinality(With("running"))
<1>1. With("running")' = With("running")
  BY DEF SpawnCount, PumpCount, PumpList, PumpGet, table, With
<1>2. R \in Nat /\ R <= MaxConcurrent /\ R' = R
  BY <1>1, RunningIsFinite DEF Capacity, WithinCapacity
<1>3. cs' = NoSection \/ cs'.slots = FreeSlots \/ (cs'.slots = cs.slots /\ cs.pc \in {"list", "get"})
  <2>1. CASE SpawnCount \/ PumpCount
    BY <2>1 DEF SpawnCount, PumpCount, Leave, TypeOK, SectionOK
  <2>2. CASE PumpList
    BY <2>2 DEF PumpList, PumpNext, Leave
  <2>3. CASE PumpGet(a)
    BY <2>3 DEF PumpGet, PumpNext, Leave, TypeOK, SectionOK
  <2> QED
    BY <2>1, <2>2, <2>3
<1>4. cs'.slots = FreeSlots => cs'.slots = 0 \/ cs'.slots + R <= MaxConcurrent
  BY <1>2, LimitsAssumption DEF FreeSlots
<1>5. cs.pc \in {"list", "get"} /\ cs'.slots = cs.slots => cs'.slots = 0 \/ cs'.slots + R <= MaxConcurrent
  BY DEF Capacity, Reserved
<1> QED
  BY <1>2, <1>3, <1>4, <1>5 DEF Capacity, WithinCapacity, Reserved, NoSection

\* The steps that start an agent.
LEMMA CapacityStart ==
    ASSUME TypeOK, Capacity, NEW a \in Agents, SpawnCreate \/ PumpStart(a)
    PROVE  Capacity'
<1> DEFINE R == Cardinality(With("running"))
<1>1. R \in Nat /\ R <= MaxConcurrent /\ cs.slots \in Nat
  BY RunningIsFinite, LimitsAssumption DEF Capacity, WithinCapacity, TypeOK, SectionOK
<1>2. CASE SpawnCreate
  <2>1. PICK b \in Agents : b = created + 1
    BY <1>2, LimitsAssumption DEF SpawnCreate, TypeOK, SectionOK, TableOK, Agents
  <2>2. cs' = NoSection
    BY <1>2 DEF SpawnCreate, Leave
  <2>3. CASE cs.slots > 0
    <3>1. status' = [status EXCEPT ![b] = "running"]
      BY <1>2, <2>1, <2>3 DEF SpawnCreate
    <3>2. With("running")' = With("running") \union {b}
      BY <3>1 DEF With, TypeOK, TableOK
    <3>3. R' <= R + 1 /\ R' \in Nat
      BY <3>2, OneMoreRunning, RunningIsFinite
    <3>4. cs.slots + R <= MaxConcurrent
      BY <1>1, <1>2, <2>3 DEF SpawnCreate, Capacity, Reserved
    <3> QED
      BY <1>1, <2>2, <2>3, <3>3, <3>4, LimitsAssumption DEF Capacity, WithinCapacity, Reserved, NoSection
  <2>4. CASE ~(cs.slots > 0)
    <3>1. status' = [status EXCEPT ![b] = "queued"]
      BY <1>2, <2>1, <2>4 DEF SpawnCreate
    <3>2. With("running")' \subseteq With("running")
      BY <3>1 DEF With, TypeOK, TableOK
    <3> QED
      BY <2>2, <3>2, CapacityFrame
  <2> QED
    BY <2>3, <2>4
<1>3. CASE PumpStart(a)
  <2>1. With("running")' = With("running") \union {a}
    BY <1>3 DEF PumpStart, With, TypeOK, TableOK
  <2>2. R' <= R + 1 /\ R' \in Nat
    BY <2>1, OneMoreRunning, RunningIsFinite
  <2>3. cs.slots > 0 /\ cs.slots + R <= MaxConcurrent
    BY <1>1, <1>3 DEF PumpStart, Capacity, Reserved, TypeOK, SectionOK
  <2>4. cs' = NoSection \/ cs'.slots = cs.slots - 1
    BY <1>3 DEF PumpStart, PumpNext, Leave
  <2> QED
    BY <1>1, <2>2, <2>3, <2>4, LimitsAssumption DEF Capacity, WithinCapacity, Reserved, NoSection
<1> QED
  BY <1>2, <1>3

LEMMA CapacityStep == TypeOK /\ Capacity /\ [Next]_vars => Capacity'
<1> SUFFICES ASSUME TypeOK, Capacity, [Next]_vars PROVE Capacity'
  OBVIOUS
<1> USE DEF table, section
<1>1. ASSUME NEW p \in Callers, Spawn(p) PROVE Capacity'
  BY <1>1, CapacityFrame DEF Spawn, With
<1>2. ASSUME NEW a \in Agents,
             Cancel(a) \/ RunnerEnds(a) \/ TimePasses(a) \/ TimerFires(a) \/ StepGet(a) \/ StepNotify(a)
      PROVE  Capacity'
  BY <1>2, CapacityFrame DEF Cancel, RunnerEnds, TimePasses, TimerFires, StepGet, StepNotify, With
<1>3. ASSUME NEW a \in Agents, StepUpdate(a) PROVE Capacity'
  <2>1. Head(events[a]) \in {"done", "error", "cancel"}
    BY <1>3 DEF StepUpdate, TypeOK, ChainsOK
  <2>2. Outcome[Head(events[a])] # "running"
    BY <2>1 DEF Outcome
  <2>3. With("running")' \subseteq With("running")
    BY <1>3, <2>2 DEF StepUpdate, With, TypeOK, TableOK
  <2> QED
    BY <1>3, <2>3, CapacityFrame DEF StepUpdate
<1>4. CASE SpawnCount \/ PumpCount \/ PumpList
  BY <1>4, CapacityCount
<1>5. ASSUME NEW a \in Agents, PumpGet(a) PROVE Capacity'
  BY <1>5, CapacityCount
<1>6. CASE SpawnCreate
  <2>1. created + 1 \in Agents
    BY <1>6, LimitsAssumption DEF SpawnCreate, TypeOK, SectionOK, TableOK, Agents
  <2> QED
    BY <1>6, <2>1, CapacityStart
<1>7. ASSUME NEW a \in Agents, PumpStart(a) PROVE Capacity'
  BY <1>7, CapacityStart
<1>8. CASE SweepList
  BY <1>8, CapacityFrame DEF SweepList, With
<1>9. ASSUME NEW a \in Agents, SweepUpdate(a) PROVE Capacity'
  <2>1. With("running")' \subseteq With("running")
    BY <1>9 DEF SweepUpdate, With, TypeOK, TableOK
  <2> QED
    BY <1>9, <2>1, CapacityFrame DEF SweepUpdate
<1>10. ASSUME NEW a \in Agents, SweepNotify(a) PROVE Capacity'
  BY <1>10, CapacityFrame DEF SweepNotify, With
<1>11. CASE Restart
  BY <1>11, CapacityFrame DEF Restart, With
<1>12. CASE UNCHANGED vars
  BY <1>12, CapacityFrame DEF vars, With
<1> QED
  BY <1>1, <1>2, <1>3, <1>4, <1>5, <1>6, <1>7, <1>8, <1>9, <1>10, <1>11, <1>12
     DEF Next, ChainStep, SpawnStep, PumpStep, SweepStep

\* The limit holds although the count that a start relies on is older than the
\* start: only this section starts agents, and all others only end them.
THEOREM CapacityHolds == Spec => []WithinCapacity
<1>1. Init => TypeOK /\ Capacity
  BY TypeInit, CapacityInit
<1>2. TypeOK /\ Capacity /\ [Next]_vars => (TypeOK /\ Capacity)'
  BY TypeStep, CapacityStep
<1>3. Capacity => WithinCapacity
  BY DEF Capacity
<1> QED
  BY <1>1, <1>2, <1>3, PTL DEF Spec

-----------------------------------------------------------------------------
(* The recursive function that Depth is *)

\* One level of the function, given the level below.
Level(par, n, below) ==
    [q \in Agents \union {Main} |->
        IF q = Main THEN 0 ELSE IF n = 0 THEN 1 ELSE 1 + below[par[q]]]

\* The recursive definition defines what it says.
LEMMA UpDefined ==
    ASSUME NEW par
    PROVE  UpIn(par) = [n \in 0..MaxDepth |-> Level(par, n, UpIn(par)[n - 1])]
<1> DEFINE Partial(k, f) == f = [n \in 0..k |-> Level(par, n, f[n - 1])]
<1>1. \A k \in Nat : \E f : Partial(k, f)
  <2> DEFINE Bad == {k \in Nat : ~ \E f : Partial(k, f)}
  <2>1. SUFFICES ASSUME Bad # {} PROVE FALSE
    OBVIOUS
  <2>2. PICK k \in Bad : \A j \in Bad : k <= j
    BY <2>1, LeastNat
  <2>3. CASE k = 0
    <3> DEFINE f == [n \in 0..0 |-> Level(par, n, 0)]
    <3>1. f = [n \in 0..0 |-> Level(par, n, f[n - 1])]
      BY DEF Level
    <3> QED
      BY <2>3, <3>1
  <2>4. CASE k # 0
    <3>1. k \in Nat /\ k - 1 \in Nat /\ k - 1 \notin Bad
      BY <2>2, <2>4
    <3>2. PICK g : Partial(k - 1, g)
      BY <3>1
    <3> DEFINE f == [n \in 0..k |-> IF n = k THEN Level(par, k, g[k - 1]) ELSE g[n]]
    <3>3. \A n \in 0..k : f[n] = Level(par, n, f[n - 1])
      <4> TAKE n \in 0..k
      <4>1. CASE n = k
        BY <2>4, <3>1, <4>1
      <4>2. CASE n # k /\ n # 0
        <5>1. n \in 0..(k - 1) /\ n - 1 \in 0..k /\ n - 1 # k
          BY <3>1, <4>2
        <5>2. f[n] = g[n] /\ f[n - 1] = g[n - 1] /\ g[n] = Level(par, n, g[n - 1])
          BY <3>1, <3>2, <4>2, <5>1
        <5> QED
          BY <5>2
      <4>3. CASE n = 0 /\ n # k
        <5>1. n \in 0..(k - 1)
          BY <3>1, <4>3
        <5>2. f[n] = g[n] /\ g[n] = Level(par, n, g[n - 1])
          BY <3>1, <3>2, <4>3, <5>1
        <5> QED
          BY <4>3, <5>2 DEF Level
      <4> QED
        BY <4>1, <4>2, <4>3
    <3>4. f = [n \in 0..k |-> f[n]]
      OBVIOUS
    <3>5. Partial(k, f)
      BY <3>3, <3>4
    <3> QED
      BY <3>5
  <2> QED
    BY <2>3, <2>4
<1>2. PICK f : Partial(MaxDepth, f)
  BY <1>1, LimitsAssumption
<1>3. UpIn(par) = CHOOSE g : Partial(MaxDepth, g)
  BY DEF UpIn, Level
<1> QED
  BY <1>2, <1>3

\* The levels one by one.
LEMMA UpLevels ==
    ASSUME NEW par \in [Agents -> Agents \union {Main}]
    PROVE  \A n \in 0..MaxDepth :
              /\ \A q \in Agents \union {Main} : UpIn(par)[n][q] \in Nat
              /\ UpIn(par)[n][Main] = 0
              /\ \A q \in Agents :
                    UpIn(par)[n][q] = IF n = 0 THEN 1 ELSE 1 + UpIn(par)[n - 1][par[q]]
<1> DEFINE up == UpIn(par)
<1>1. \A n \in 0..MaxDepth : up[n] = Level(par, n, up[n - 1])
  BY UpDefined
<1> HIDE DEF up
<1>2. \A n \in 0..MaxDepth :
         /\ up[n][Main] = 0
         /\ \A q \in Agents : up[n][q] = IF n = 0 THEN 1 ELSE 1 + up[n - 1][par[q]]
  <2> TAKE n \in 0..MaxDepth
  <2>1. up[n] = Level(par, n, up[n - 1])
    BY <1>1
  <2> QED
    BY <2>1, MainAssumption DEF Level
<1> DEFINE S == {n \in Nat : n <= MaxDepth => \A q \in Agents \union {Main} : up[n][q] \in Nat}
<1>3. 0 \in S
  BY <1>2, LimitsAssumption
<1>4. ASSUME NEW n \in Nat, n \in S PROVE n + 1 \in S
  <2> SUFFICES ASSUME n + 1 <= MaxDepth, NEW q \in Agents \union {Main} PROVE up[n + 1][q] \in Nat
    OBVIOUS
  <2>1. n + 1 \in 0..MaxDepth /\ n + 1 # 0 /\ (n + 1) - 1 = n
    BY LimitsAssumption
  <2>2. CASE q = Main
    BY <1>2, <2>1, <2>2
  <2>3. CASE q \in Agents
    <3>1. up[n + 1][q] = 1 + up[n][par[q]]
      BY <1>2, <2>1, <2>3
    <3>2. par[q] \in Agents \union {Main} /\ n <= MaxDepth
      BY LimitsAssumption, <2>3
    <3>3. up[n][par[q]] \in Nat
      BY <1>4, <3>2
    <3> QED
      BY <3>1, <3>3
  <2> QED
    BY <2>2, <2>3
<1>5. Nat \subseteq S
  <2> HIDE DEF S
  <2> QED
    BY <1>3, <1>4, NatInductionOnSet
<1>6. \A n \in 0..MaxDepth : \A q \in Agents \union {Main} : up[n][q] \in Nat
  BY <1>5, LimitsAssumption
<1> QED
  BY <1>2, <1>6 DEF up

\* A chain that ends within n steps is not longer for a wider search.
LEMMA UpSettles ==
    ASSUME NEW par \in [Agents -> Agents \union {Main}], NEW p \in Agents \union {Main},
           UpIn(par)[MaxDepth][p] < MaxDepth
    PROVE  MaxDepth >= 1 /\ UpIn(par)[MaxDepth - 1][p] = UpIn(par)[MaxDepth][p]
<1> DEFINE up == UpIn(par)
           Ends(n) == n + 1 <= MaxDepth =>
                         \A q \in Agents \union {Main} : up[n + 1][q] <= n + 1 => up[n][q] = up[n + 1][q]
           S == {n \in Nat : Ends(n)}
<1>1. \A n \in 0..MaxDepth :
         /\ \A q \in Agents \union {Main} : up[n][q] \in Nat
         /\ up[n][Main] = 0
         /\ \A q \in Agents : up[n][q] = IF n = 0 THEN 1 ELSE 1 + up[n - 1][par[q]]
  BY UpLevels
<1> HIDE DEF up
<1>2. \A n \in Nat : n + 1 <= MaxDepth =>
         \A q \in Agents : up[n + 1][q] = 1 + up[n][par[q]]
  BY <1>1, LimitsAssumption
<1>3. 0 \in S
  <2> SUFFICES ASSUME 1 <= MaxDepth, NEW q \in Agents \union {Main}, up[1][q] <= 1
               PROVE  up[0][q] = up[1][q]
    OBVIOUS
  <2>0. 0 \in 0..MaxDepth /\ 1 \in 0..MaxDepth
    BY LimitsAssumption
  <2>1. CASE q = Main
    BY <1>1, <2>0, <2>1
  <2>2. CASE q \in Agents
    <3>1. up[1][q] = 1 + up[0][par[q]] /\ up[0][q] = 1
      BY <1>1, <2>0, <2>2
    <3>2. up[0][par[q]] \in Nat
      BY <1>1, <2>0, <2>2
    <3> QED
      BY <3>1, <3>2
  <2> QED
    BY <2>1, <2>2
<1>4. ASSUME NEW n \in Nat, n \in S PROVE n + 1 \in S
  <2> SUFFICES ASSUME n + 2 <= MaxDepth, NEW q \in Agents \union {Main}, up[n + 2][q] <= n + 2
               PROVE  up[n + 1][q] = up[n + 2][q]
    OBVIOUS
  <2>0. n + 1 \in 0..MaxDepth /\ n + 2 \in 0..MaxDepth /\ n + 1 <= MaxDepth /\ n \in 0..MaxDepth
        /\ (n + 1) + 1 = n + 2
    BY LimitsAssumption
  <2>1. CASE q = Main
    BY <1>1, <2>0, <2>1
  <2>2. CASE q \in Agents
    <3>1. up[n + 2][q] = 1 + up[n + 1][par[q]]
      BY <1>2, <2>0, <2>2
    <3>2. up[n + 1][q] = 1 + up[n][par[q]]
      BY <1>2, <2>0, <2>2
    <3>3. par[q] \in Agents \union {Main} /\ up[n + 1][par[q]] \in Nat
      BY <1>1, <2>0, <2>2
    <3>4. up[n + 1][par[q]] <= n + 1
      BY <3>1, <3>3
    <3>5. up[n][par[q]] = up[n + 1][par[q]]
      BY <1>4, <2>0, <3>3, <3>4
    <3> QED
      BY <3>1, <3>2, <3>5
  <2> QED
    BY <2>1, <2>2
<1>5. Nat \subseteq S
  <2> HIDE DEF S
  <2> QED
    BY <1>3, <1>4, NatInductionOnSet
<1>6. up[MaxDepth][p] \in Nat
  BY <1>1, LimitsAssumption
<1>7. MaxDepth - 1 \in Nat /\ (MaxDepth - 1) + 1 = MaxDepth
  BY <1>6, LimitsAssumption DEF up
<1>8. MaxDepth - 1 \in S
  BY <1>5, <1>7
<1>9. up[MaxDepth][p] < MaxDepth
  BY DEF up
<1>10. up[MaxDepth][p] <= (MaxDepth - 1) + 1 => up[MaxDepth - 1][p] = up[(MaxDepth - 1) + 1][p]
  BY <1>7, <1>8, LimitsAssumption
<1> QED
  BY <1>6, <1>7, <1>9, <1>10 DEF up

\* The depth of a row depends on the chain above it only.
LEMMA UpSame ==
    ASSUME NEW par \in [Agents -> Agents \union {Main}],
           NEW more \in [Agents -> Agents \union {Main}],
           NEW R \in SUBSET Agents,
           \A q \in R : par[q] \in R \union {Main} /\ more[q] = par[q]
    PROVE  \A n \in 0..MaxDepth : \A q \in R \union {Main} : UpIn(more)[n][q] = UpIn(par)[n][q]
<1> DEFINE up == UpIn(par)
           um == UpIn(more)
           S == {n \in Nat : n <= MaxDepth => \A q \in R \union {Main} : um[n][q] = up[n][q]}
<1>1. \A n \in 0..MaxDepth :
         /\ up[n][Main] = 0
         /\ \A q \in Agents : up[n][q] = IF n = 0 THEN 1 ELSE 1 + up[n - 1][par[q]]
  BY UpLevels
<1>2. \A n \in 0..MaxDepth :
         /\ um[n][Main] = 0
         /\ \A q \in Agents : um[n][q] = IF n = 0 THEN 1 ELSE 1 + um[n - 1][more[q]]
  BY UpLevels
<1> HIDE DEF up, um
<1>3. 0 \in S
  BY <1>1, <1>2, LimitsAssumption
<1>4. ASSUME NEW n \in Nat, n \in S PROVE n + 1 \in S
  <2> SUFFICES ASSUME n + 1 <= MaxDepth, NEW q \in R \union {Main} PROVE um[n + 1][q] = up[n + 1][q]
    OBVIOUS
  <2>1. n + 1 \in 0..MaxDepth /\ n + 1 # 0 /\ (n + 1) - 1 = n /\ n <= MaxDepth
    BY LimitsAssumption
  <2>2. CASE q = Main
    BY <1>1, <1>2, <2>1, <2>2
  <2>3. CASE q \in R
    <3>1. up[n + 1][q] = 1 + up[n][par[q]] /\ um[n + 1][q] = 1 + um[n][more[q]]
      BY <1>1, <1>2, <2>1, <2>3
    <3>2. um[n][par[q]] = up[n][par[q]]
      BY <1>4, <2>1, <2>3
    <3> QED
      BY <2>3, <3>1, <3>2
  <2> QED
    BY <2>2, <2>3
<1>5. Nat \subseteq S
  <2> HIDE DEF S
  <2> QED
    BY <1>3, <1>4, NatInductionOnSet
<1>6. \A n \in 0..MaxDepth : \A q \in R \union {Main} : um[n][q] = up[n][q]
  BY <1>5, LimitsAssumption
<1> QED
  BY <1>6 DEF up, um

-----------------------------------------------------------------------------
(* The tree *)

TreeInv ==
    /\ TreeBounds
    /\ \A a \in Rows : parent[a] \in Rows \union {Main}
    /\ cs.pc = "create" => TreeAllows(Head(lock).parent)

\* A step that inserts no row, and enters "create" only from the check.
LEMMA TreeFrame ==
    ASSUME TreeInv, UNCHANGED <<created, parent>>,
           cs'.pc = "create" =>
               \/ cs.pc = "create" /\ Head(lock') = Head(lock)
               \/ TreeAllows(Head(lock').parent)
    PROVE  TreeInv'
<1>1. UNCHANGED <<Rows, Main>> /\ \A p : Children(p)' = Children(p) /\ Depth(p)' = Depth(p)
  BY DEF Rows, Children, Depth, UpIn
<1>2. TreeBounds'
  BY <1>1 DEF TreeInv, TreeBounds
<1>3. \A p : TreeAllows(p) => TreeAllows(p)'
  BY <1>1 DEF TreeAllows
<1> QED
  BY <1>1, <1>2, <1>3 DEF TreeInv

\* The children of a row are finitely many.
LEMMA ChildrenFinite ==
    ASSUME TableOK
    PROVE  \A p : IsFiniteSet(Children(p)) /\ Cardinality(Children(p)) \in Nat
<1>1. IsFiniteSet(Rows)
  BY LimitsAssumption, FS_Interval DEF TableOK, Rows
<1>2. \A p : Children(p) \subseteq Rows
  BY DEF Children
<1> QED
  BY <1>1, <1>2, FS_Subset, FS_CardinalityType

\* The new row keeps the limits its parent was checked against.
LEMMA TreeCreate ==
    ASSUME TypeOK, TreeInv, SpawnCreate
    PROVE  TreeInv'
<1>0. TableOK /\ SectionOK
  BY DEF TypeOK
<1>a. PICK a : a = created + 1
  OBVIOUS
<1>p. PICK p : p = Head(lock).parent
  OBVIOUS
<1>1. a \in Agents /\ created' = a /\ a \notin Rows /\ Rows' = Rows \union {a} /\ Rows \subseteq Agents
  BY <1>0, <1>a, LimitsAssumption DEF SpawnCreate, SectionOK, TableOK, Agents, Rows
<1>2. TreeAllows(p)
  BY <1>p DEF TreeInv, SpawnCreate
<1>3. p \in Rows \union {Main}
  BY <1>2 DEF TreeAllows
<1>4. /\ parent \in [Agents -> Agents \union {Main}] /\ parent' = [parent EXCEPT ![a] = p]
      /\ \A q \in Rows : parent[q] \in Rows \union {Main}
  BY <1>0, <1>a, <1>p DEF SpawnCreate, TableOK, TreeInv
<1>5. parent' \in [Agents -> Agents \union {Main}] /\ parent'[a] = p
      /\ \A q \in Rows : parent'[q] = parent[q]
  BY <1>1, <1>3, <1>4
<1>6. \A q \in Rows' : parent'[q] \in Rows' \union {Main}
  BY <1>1, <1>3, <1>4, <1>5
<1>7. \A n \in 0..MaxDepth : \A q \in Rows \union {Main} : UpIn(parent')[n][q] = UpIn(parent)[n][q]
  <2>1. Rows \in SUBSET Agents
        /\ \A q \in Rows : parent[q] \in Rows \union {Main} /\ parent'[q] = parent[q]
    BY <1>1, <1>4, <1>5
  <2>2. parent \in [Agents -> Agents \union {Main}] /\ parent' \in [Agents -> Agents \union {Main}]
    BY <1>4, <1>5
  <2> QED
    BY <2>1, <2>2, UpSame
<1>8. \A q \in Rows' : parent'[q] = Main \/ Depth(q)' <= MaxDepth
  <2>1. ASSUME NEW q \in Rows PROVE parent'[q] = Main \/ Depth(q)' <= MaxDepth
    <3>1. Depth(q)' = Depth(q)
      BY <1>7, LimitsAssumption DEF Depth
    <3> QED
      BY <1>5, <3>1 DEF TreeInv, TreeBounds
  <2>2. ASSUME p # Main PROVE Depth(a)' <= MaxDepth
    <3>1. p \in Rows /\ UpIn(parent)[MaxDepth][p] < MaxDepth
      BY <1>2, <2>2 DEF TreeAllows, Depth
    <3>2. MaxDepth >= 1 /\ UpIn(parent)[MaxDepth - 1][p] = UpIn(parent)[MaxDepth][p]
      BY <1>1, <1>4, <3>1, UpSettles
    <3>3. UpIn(parent')[MaxDepth][a] = 1 + UpIn(parent')[MaxDepth - 1][p]
      BY <1>1, <1>5, <3>2, UpLevels, LimitsAssumption
    <3>4. UpIn(parent')[MaxDepth - 1][p] = UpIn(parent)[MaxDepth - 1][p]
      BY <1>7, <3>1, <3>2, LimitsAssumption
    <3>5. UpIn(parent)[MaxDepth][p] \in Nat
      BY <1>1, <1>4, <3>1, UpLevels, LimitsAssumption
    <3> QED
      BY <3>1, <3>2, <3>3, <3>4, <3>5, LimitsAssumption DEF Depth
  <2> QED
    BY <1>1, <1>5, <2>1, <2>2
<1>9. \A q \in Rows' \union {Main} : Cardinality(Children(q)') <= MaxChildren
  <2>1. \A q : Children(q)' = IF q = p THEN Children(q) \union {a} ELSE Children(q)
    BY <1>1, <1>5 DEF Children
  <2>2. Cardinality(Children(p)) < MaxChildren
    BY <1>2 DEF TreeAllows
  <2>3. Cardinality(Children(p)') <= MaxChildren
    <3>1. IsFiniteSet(Children(p)) /\ Cardinality(Children(p)) \in Nat
      BY <1>0, ChildrenFinite
    <3>2. Cardinality(Children(p) \union {a}) <= Cardinality(Children(p)) + 1
      BY <3>1, FS_AddElement
    <3>3. Cardinality(Children(p) \union {a}) \in Nat
      BY <3>1, FS_AddElement, FS_CardinalityType
    <3>4. Cardinality(Children(p) \union {a}) <= MaxChildren
      BY <2>2, <3>1, <3>2, <3>3, LimitsAssumption
    <3> QED
      BY <2>1, <3>4
  <2>4. ASSUME NEW q \in Rows \union {Main} PROVE Cardinality(Children(q)) <= MaxChildren
    BY <2>4 DEF TreeInv, TreeBounds
  <2>5. Children(a) = {} \/ a = p
    <3>1. \A r \in Rows : parent[r] # a
      BY <1>1, <1>4, MainAssumption
    <3> QED
      BY <3>1 DEF Children
  <2>6. Cardinality({}) = 0
    BY FS_EmptySet
  <2>7. Cardinality(Children(a)') <= MaxChildren
    BY <2>1, <2>3, <2>5, <2>6, LimitsAssumption
  <2> QED
    BY <1>1, <2>1, <2>3, <2>4, <2>7
<1>10. cs'.pc # "create"
  BY DEF SpawnCreate, Leave, NoSection
<1> QED
  BY <1>6, <1>8, <1>9, <1>10 DEF TreeInv, TreeBounds

\* The critical section goes on with the slots it counted.
LEMMA SectionCounts ==
    ASSUME SectionOK
    PROVE  \A p, n : [cs EXCEPT !.pc = p, !.slots = n].pc = p
<1> SUFFICES ASSUME NEW p, NEW n PROVE [cs EXCEPT !.pc = p, !.slots = n].pc = p
  OBVIOUS
<1>1. ASSUME NEW P, NEW S, NEW T, NEW r \in [pc : P, slots : S, todo : T]
      PROVE  [r EXCEPT !.pc = p, !.slots = n].pc = p
  <2>1. [r EXCEPT !.pc = p].pc = p /\ "slots" # "pc"
    OBVIOUS
  <2> QED
    BY <2>1
<1> QED
  BY <1>1 DEF SectionOK

LEMMA TreeStep == TypeOK /\ TreeInv /\ [Next]_vars => TreeInv'
<1> SUFFICES ASSUME TypeOK, TreeInv, [Next]_vars PROVE TreeInv'
  OBVIOUS
<1> USE DEF table, section
<1>0. \A e : cs.pc = "create" /\ lock' = Append(lock, e) => Head(lock') = Head(lock)
  BY DEF TypeOK, SectionOK
<1>1. ASSUME NEW p \in Callers, Spawn(p) PROVE TreeInv'
  BY <1>0, <1>1, TreeFrame DEF Spawn
<1>2. ASSUME NEW a \in Agents,
             Cancel(a) \/ RunnerEnds(a) \/ TimePasses(a) \/ TimerFires(a) \/ StepGet(a)
      PROVE  TreeInv'
  BY <1>2, TreeFrame DEF Cancel, RunnerEnds, TimePasses, TimerFires, StepGet
<1>3. ASSUME NEW a \in Agents, StepUpdate(a) \/ StepNotify(a) PROVE TreeInv'
  <2>1. (SchedulePump \/ UNCHANGED lock) /\ UNCHANGED <<cs, created, parent>>
    BY <1>3 DEF StepUpdate, StepNotify
  <2> QED
    BY <1>0, <2>1, TreeFrame DEF SchedulePump
<1>4. CASE SpawnCount
  BY <1>4, TreeFrame DEF SpawnCount, Leave, NoSection
<1>5. CASE SpawnCreate
  BY <1>5, TreeCreate
<1>6. CASE PumpStep
  <2>1. UNCHANGED <<created, parent>>
    BY <1>6 DEF PumpStep, PumpCount, PumpList, PumpGet, PumpStart
  <2>2. cs'.pc # "create"
    <3>1. cs \in [pc : {"idle", "create", "list", "get", "start"},
                  slots : 0..MaxConcurrent, todo : SUBSET Agents]
      BY DEF TypeOK, SectionOK
    <3>2. \A slots, todo : PumpNext(slots, todo) => cs'.pc # "create"
      BY DEF PumpNext, Leave, NoSection
    <3>3. CASE PumpCount \/ PumpList
      <4>0. PICK n : n = FreeSlots
        OBVIOUS
      <4>1. PumpCount => cs' = NoSection \/ cs' = [cs EXCEPT !.pc = "list", !.slots = n]
        BY <4>0 DEF PumpCount, Leave
      <4>2. [cs EXCEPT !.pc = "list", !.slots = n].pc = "list"
        <5>1. SectionOK
          BY DEF TypeOK
        <5>2. \A p, m : [cs EXCEPT !.pc = p, !.slots = m].pc = p
          BY <5>1, SectionCounts
        <5> QED
          BY <5>2, Zenon
      <4>3. cs' = [cs EXCEPT !.pc = "list", !.slots = n] => cs'.pc = "list"
        BY <4>2, Zenon
      <4>4. NoSection.pc = "idle"
        BY DEF NoSection
      <4>5. PumpCount => cs'.pc \in {"idle", "list"}
        BY <4>1, <4>3, <4>4
      <4>6. PumpList => cs'.pc # "create"
        BY <3>2 DEF PumpList
      <4> QED
        BY <3>3, <4>5, <4>6
    <3>4. ASSUME NEW a \in Agents, PumpGet(a) \/ PumpStart(a) PROVE cs'.pc # "create"
      BY <3>1, <3>2, <3>4 DEF PumpGet, PumpStart
    <3> QED
      BY <1>6, <3>3, <3>4 DEF PumpStep
  <2> QED
    BY <2>1, <2>2, TreeFrame
<1>7. CASE SweepList
  BY <1>7, TreeFrame DEF SweepList
<1>8. ASSUME NEW a \in Agents, SweepUpdate(a) \/ SweepNotify(a) PROVE TreeInv'
  <2>1. (SchedulePump \/ UNCHANGED lock) /\ UNCHANGED <<cs, created, parent>>
    BY <1>8 DEF SweepUpdate, SweepNotify
  <2> QED
    BY <1>0, <2>1, TreeFrame DEF SchedulePump
<1>9. CASE Restart
  BY <1>9, TreeFrame DEF Restart, NoSection
<1>10. CASE UNCHANGED vars
  BY <1>10, TreeFrame DEF vars
<1> QED
  BY <1>1, <1>2, <1>3, <1>4, <1>5, <1>6, <1>7, <1>8, <1>9, <1>10
     DEF Next, ChainStep, SpawnStep, SweepStep

LEMMA TreeInit == Init => TreeInv
<1> SUFFICES ASSUME Init PROVE TreeInv
  OBVIOUS
<1>1. Rows = {}
  BY DEF Init, Rows
<1>2. Children(Main) = {}
  BY <1>1 DEF Children
<1>3. Cardinality(Children(Main)) = 0
  BY <1>2, FS_EmptySet
<1>4. cs.pc # "create"
  BY DEF Init, NoSection
<1> QED
  BY <1>1, <1>3, <1>4, LimitsAssumption DEF TreeInv, TreeBounds

\* No tree outgrows its limits, however deep and however wide they are set.
THEOREM TreeHolds == Spec => []TreeBounds
<1>1. TypeOK /\ TreeInv /\ [Next]_vars => TreeInv'
  BY TreeStep
<1>2. TreeInv => TreeBounds
  BY DEF TreeInv
<1> QED
  BY <1>1, <1>2, TreeInit, TypeCorrect, PTL DEF Spec

-----------------------------------------------------------------------------
(* Outcomes are final, and the pump is first in, first out *)

\* Until somebody sweeps, a step of a chain finds the row it read still
\* undecided; what waits was never run, the row the pump is about to start
\* included, even when it was cancelled in between.
OutcomeInv ==
    /\ sweeps = 0 => sweep.pc = "idle"
    /\ sweeps = 0 => \A a \in Agents : step[a].pc = "update" => status[a] \in {"queued", "running"}
    /\ \A a \in Agents : status[a] \in {"none", "queued"} => runs[a] = 0
    /\ cs.pc = "start" => \A a \in Agents : Oldest(a, cs.todo) => runs[a] = 0

\* No agent joins the waiting list while the pump works on its snapshot.
QueueSnapshot == cs.pc \in {"get", "start"} => With("queued") \subseteq cs.todo

Turn == OutcomeInv /\ QueueSnapshot

\* What the two action properties ask of one step.
FinalStep == sweeps = 0 =>
    \A a \in Agents : runs[a] > 0 /\ status[a] \in Terminal => status'[a] = status[a]
FifoStep ==
    \A a \in Rows : status[a] # "running" /\ status'[a] = "running" =>
        \A b \in Agents : b < a => status[b] # "queued"

\* A step that writes no row and runs nobody.
LEMMA TurnFrame ==
    ASSUME Turn, UNCHANGED <<status, runs>>,
           sweeps' = 0 => sweeps = 0 /\ sweep' = sweep,
           \A a \in Agents : step'[a].pc = "update" =>
               step[a].pc = "update" \/ status[a] \in {"queued", "running"},
           cs' = cs \/ cs'.pc \notin {"get", "start"}
    PROVE  Turn' /\ FinalStep /\ FifoStep
<1>1. FinalStep /\ FifoStep
  BY DEF FinalStep, FifoStep
<1>2. OutcomeInv'
  BY DEF Turn, OutcomeInv, Oldest
<1>3. QueueSnapshot'
  BY DEF Turn, QueueSnapshot, With
<1> QED
  BY <1>1, <1>2, <1>3 DEF Turn

\* One chain step at a time: nobody but a sweep decides what it is deciding.
LEMMA TurnChain ==
    ASSUME TypeOK, Turn, NEW a \in Agents, ChainStep(a)
    PROVE  Turn' /\ FinalStep /\ FifoStep
<1> USE DEF table, runtime, section, bounds
<1>0. ChainsOK /\ status \in [Agents -> Statuses]
  BY DEF TypeOK, TableOK
<1>1. CASE StepGet(a)
  <2>1. \A b \in Agents : step'[b].pc = "update" =>
            step[b].pc = "update" \/ status[b] \in {"queued", "running"}
    <3>1. \A b \in Agents : b # a => step'[b] = step[b]
      BY <1>0, <1>1 DEF StepGet, EndStep, ChainsOK
    <3>2. CASE status[a] \in Accepts(Head(events[a]))
      <4>1. status[a] \in {"queued", "running"}
        BY <3>2 DEF Accepts
      <4> QED
        BY <3>1, <4>1
    <3>3. CASE status[a] \notin Accepts(Head(events[a]))
      <4>1. step' = [step EXCEPT ![a] = NoStep]
        BY <1>1, <3>3 DEF StepGet, EndStep
      <4>2. step'[a].pc = "idle"
        BY <1>0, <4>1 DEF NoStep, ChainsOK
      <4> QED
        BY <3>1, <4>2
    <3> QED
      BY <3>2, <3>3
  <2> QED
    BY <1>1, <2>1, TurnFrame DEF StepGet
<1>2. CASE StepUpdate(a)
  <2>1. Head(events[a]) \in {"done", "error", "cancel"}
    BY <1>0, <1>2 DEF StepUpdate, ChainsOK
  <2>2. PICK st \in Terminal : status' = [status EXCEPT ![a] = st]
    <3>1. Outcome[Head(events[a])] \in Terminal
      BY <2>1 DEF Outcome, Terminal
    <3> QED
      BY <1>2, <3>1 DEF StepUpdate
  <2>3. \A b \in Agents : status'[b] = IF b = a THEN st ELSE status[b]
    BY <1>0, <2>2
  <2>4. UNCHANGED <<cs, sweep, runs, sweeps>>
    BY <1>2 DEF StepUpdate
  <2>5. \A b \in Agents : step'[b].pc = "update" => step[b].pc = "update" /\ b # a
    BY <1>0, <1>2 DEF StepUpdate, EndStep, NoStep, ChainsOK
  <2>6. FinalStep
    BY <1>2, <2>3 DEF StepUpdate, Turn, OutcomeInv, FinalStep, Terminal
  <2>7. FifoStep
    BY <2>3, LimitsAssumption DEF FifoStep, Terminal, TypeOK, TableOK, Rows, Agents
  <2>8. OutcomeInv'
    BY <2>3, <2>4, <2>5 DEF Turn, OutcomeInv, Oldest, Terminal
  <2>9. QueueSnapshot'
    BY <2>3, <2>4 DEF Turn, QueueSnapshot, With, Terminal
  <2> QED
    BY <2>6, <2>7, <2>8, <2>9 DEF Turn
<1>3. CASE StepNotify(a)
  <2>1. \A b \in Agents : step'[b].pc = "update" => step[b].pc = "update"
    BY <1>0, <1>3 DEF StepNotify, EndStep, NoStep, ChainsOK
  <2> QED
    BY <1>3, <2>1, TurnFrame DEF StepNotify
<1> QED
  BY <1>1, <1>2, <1>3 DEF ChainStep

\* A row is inserted; the agent it stands for never ran.
LEMMA TurnCreate ==
    ASSUME TypeOK, Turn, SpawnCreate
    PROVE  Turn' /\ FinalStep /\ FifoStep
<1>0. PICK a : a = created + 1
  OBVIOUS
<1>1. a \in Agents /\ a \notin Rows /\ status[a] = "none" /\ cs.pc = "create"
  BY <1>0, LimitsAssumption DEF SpawnCreate, TypeOK, SectionOK, TableOK, Agents, Rows
<1>2. PICK st \in {"running", "queued"} : status' = [status EXCEPT ![a] = st]
                                          /\ (st = "queued" => UNCHANGED runs)
                                          /\ (st = "running" => Execute(a))
  BY <1>0 DEF SpawnCreate
<1>3. \A b \in Agents : status'[b] = IF b = a THEN st ELSE status[b]
  BY <1>1, <1>2 DEF TypeOK, TableOK
<1>4. \A b \in Agents : b # a => runs'[b] = runs[b]
  BY <1>1, <1>2 DEF TypeOK, CountsOK, Execute
<1>5. UNCHANGED <<step, sweep, sweeps>> /\ cs' = NoSection
  BY DEF SpawnCreate, chains, bounds, Leave
<1>6. FinalStep
  BY <1>1, <1>3 DEF FinalStep, Terminal
<1>7. FifoStep
  <2>1. \A b \in Rows : b \in Agents /\ status'[b] = status[b]
    BY <1>1, <1>3, LimitsAssumption DEF TypeOK, TableOK, Rows, Agents
  <2> QED
    BY <2>1 DEF FifoStep
<1>8. OutcomeInv'
  BY <1>1, <1>2, <1>3, <1>4, <1>5 DEF Turn, OutcomeInv, NoSection
<1>9. QueueSnapshot'
  BY <1>5 DEF QueueSnapshot, NoSection
<1> QED
  BY <1>6, <1>7, <1>8, <1>9 DEF Turn

\* What the pump does next with its snapshot.
LEMMA PumpNextIs ==
    ASSUME NEW slots, NEW todo, PumpNext(slots, todo)
    PROVE  cs' = NoSection \/ cs' = [pc |-> "get", slots |-> slots, todo |-> todo]
BY DEF PumpNext, Leave

LEMMA TurnPump ==
    ASSUME TypeOK, Turn, PumpStep
    PROVE  Turn' /\ FinalStep /\ FifoStep
<1> USE DEF table, chains, bounds
<1>0. cs \in [pc : {"idle", "create", "list", "get", "start"},
              slots : 0..MaxConcurrent, todo : SUBSET Agents]
      /\ status \in [Agents -> Statuses] /\ runs \in [Agents -> Nat]
  BY DEF TypeOK, SectionOK, TableOK, CountsOK
<1>1. CASE PumpCount
  <2>0. PICK n : n = FreeSlots
    OBVIOUS
  <2>1. cs' = NoSection \/ cs' = [cs EXCEPT !.pc = "list", !.slots = n]
    BY <2>0, <1>1 DEF PumpCount, Leave
  <2>2. [cs EXCEPT !.pc = "list", !.slots = n].pc = "list"
    <3>1. SectionOK
      BY DEF TypeOK
    <3>2. \A p, m : [cs EXCEPT !.pc = p, !.slots = m].pc = p
      BY <3>1, SectionCounts
    <3> QED
      BY <3>2, Zenon
  <2>3. cs'.pc \notin {"get", "start"}
    <3>1. cs' = [cs EXCEPT !.pc = "list", !.slots = n] => cs'.pc = "list"
      BY <2>2, Zenon
    <3>2. NoSection.pc = "idle"
      BY DEF NoSection
    <3> QED
      BY <2>1, <3>1, <3>2
  <2> QED
    BY <1>1, <2>3, TurnFrame DEF PumpCount
<1>2. CASE PumpList
  <2>1. cs' = NoSection \/ cs' = [pc |-> "get", slots |-> cs.slots, todo |-> With("queued")]
    BY <1>2, PumpNextIs DEF PumpList
  <2>2. UNCHANGED <<status, runs, sweep, sweeps, step>>
    BY <1>2 DEF PumpList
  <2>3. OutcomeInv'
    BY <2>1, <2>2 DEF Turn, OutcomeInv, NoSection
  <2>4. QueueSnapshot'
    BY <2>1, <2>2 DEF QueueSnapshot, NoSection, With
  <2> QED
    BY <2>2, <2>3, <2>4 DEF Turn, FinalStep, FifoStep
<1>3. ASSUME NEW a \in Agents, PumpGet(a) PROVE Turn' /\ FinalStep /\ FifoStep
  <2>1. UNCHANGED <<status, runs, sweep, sweeps, step>>
    BY <1>3 DEF PumpGet
  <2>2. CASE status[a] = "queued"
    <3>1. cs'.pc = "start" /\ cs'.todo = cs.todo
      BY <1>0, <1>3, <2>2 DEF PumpGet
    <3>2. \A b \in Agents : Oldest(b, cs'.todo) => b = a
      BY <1>0, <1>3, <3>1 DEF PumpGet, Oldest, Agents
    <3>3. OutcomeInv'
      BY <2>1, <2>2, <3>2 DEF Turn, OutcomeInv
    <3>4. QueueSnapshot'
      BY <1>3, <2>1, <3>1 DEF Turn, QueueSnapshot, With, PumpGet
    <3> QED
      BY <2>1, <3>3, <3>4 DEF Turn, FinalStep, FifoStep
  <2>3. CASE status[a] # "queued"
    <3>1. cs' = NoSection \/ cs' = [pc |-> "get", slots |-> cs.slots, todo |-> cs.todo \ {a}]
      BY <1>3, <2>3, PumpNextIs DEF PumpGet
    <3>2. OutcomeInv'
      BY <2>1, <3>1 DEF Turn, OutcomeInv, NoSection
    <3>3. QueueSnapshot'
      BY <1>3, <2>1, <2>3, <3>1 DEF Turn, QueueSnapshot, NoSection, With, PumpGet
    <3> QED
      BY <2>1, <3>2, <3>3 DEF Turn, FinalStep, FifoStep
  <2> QED
    BY <2>2, <2>3
<1>4. ASSUME NEW a \in Agents, PumpStart(a) PROVE Turn' /\ FinalStep /\ FifoStep
  <2>1. UNCHANGED <<sweep, sweeps, step>> /\ cs.pc = "start" /\ Oldest(a, cs.todo)
    BY <1>4 DEF PumpStart
  <2>2. \A b \in Agents : status'[b] = IF b = a THEN "running" ELSE status[b]
    BY <1>0, <1>4 DEF PumpStart
  <2>3. \A b \in Agents : b # a => runs'[b] = runs[b]
    BY <1>0, <1>4 DEF PumpStart, Execute
  <2>4. cs' = NoSection \/ cs' = [pc |-> "get", slots |-> cs.slots - 1, todo |-> cs.todo \ {a}]
    BY <1>4, PumpNextIs DEF PumpStart
  <2>5. runs[a] = 0
    BY <2>1 DEF Turn, OutcomeInv
  <2>6. FinalStep
    BY <2>2, <2>5 DEF FinalStep
  <2>7. FifoStep
    <3>1. ASSUME NEW b \in Agents, b < a PROVE status[b] # "queued"
      <4>1. b \notin cs.todo
        BY <1>0, <2>1, <3>1 DEF Oldest, Agents
      <4> QED
        BY <2>1, <4>1 DEF Turn, QueueSnapshot, With
    <3>2. \A b \in Rows : b \in Agents /\ (b # a => status'[b] = status[b])
      BY <2>2, LimitsAssumption DEF TypeOK, TableOK, Rows, Agents
    <3> QED
      BY <3>1, <3>2 DEF FifoStep
  <2>8. OutcomeInv'
    BY <2>1, <2>2, <2>3, <2>4 DEF Turn, OutcomeInv, NoSection
  <2>9. QueueSnapshot'
    BY <2>1, <2>2, <2>4 DEF Turn, QueueSnapshot, NoSection, With
  <2> QED
    BY <2>6, <2>7, <2>8, <2>9 DEF Turn
<1> QED
  BY <1>1, <1>2, <1>3, <1>4 DEF PumpStep

LEMMA TurnSweep ==
    ASSUME TypeOK, Turn, NEW a \in Agents, SweepUpdate(a)
    PROVE  Turn' /\ FinalStep /\ FifoStep
<1>1. \A b \in Agents : status'[b] = IF b = a THEN "failed" ELSE status[b]
  BY DEF SweepUpdate, TypeOK, TableOK
<1>2. UNCHANGED <<step, cs, runs, sweeps>> /\ sweep.pc = "update"
  BY DEF SweepUpdate, chains, section, bounds
<1>3. sweeps # 0
  BY <1>2 DEF Turn, OutcomeInv
<1>4. FinalStep
  BY <1>3 DEF FinalStep
<1>5. FifoStep
  BY <1>1, LimitsAssumption DEF FifoStep, TypeOK, TableOK, Rows, Agents
<1>6. OutcomeInv'
  BY <1>1, <1>2, <1>3 DEF Turn, OutcomeInv, Oldest
<1>7. QueueSnapshot'
  BY <1>1, <1>2 DEF Turn, QueueSnapshot, With
<1> QED
  BY <1>4, <1>5, <1>6, <1>7 DEF Turn

LEMMA TurnStep == TypeOK /\ Turn /\ [Next]_vars => Turn' /\ FinalStep /\ FifoStep
<1> SUFFICES ASSUME TypeOK, Turn, [Next]_vars PROVE Turn' /\ FinalStep /\ FifoStep
  OBVIOUS
<1> USE DEF table, runtime, chains, section, bounds
<1>1. ASSUME NEW p \in Callers, Spawn(p) PROVE Turn' /\ FinalStep /\ FifoStep
  BY <1>1, TurnFrame DEF Spawn
<1>2. ASSUME NEW a \in Agents, Cancel(a) \/ RunnerEnds(a) \/ TimePasses(a) \/ TimerFires(a)
      PROVE  Turn' /\ FinalStep /\ FifoStep
  BY <1>2, TurnFrame DEF Cancel, RunnerEnds, TimePasses, TimerFires
<1>3. CASE SpawnCount
  <2>0. PICK n : n = FreeSlots
    OBVIOUS
  <2>1. cs' = NoSection \/ cs' = [cs EXCEPT !.pc = "create", !.slots = n]
    BY <2>0, <1>3 DEF SpawnCount, Leave
  <2>2. [cs EXCEPT !.pc = "create", !.slots = n].pc = "create"
    <3>1. SectionOK
      BY DEF TypeOK
    <3>2. \A p, m : [cs EXCEPT !.pc = p, !.slots = m].pc = p
      BY <3>1, SectionCounts
    <3> QED
      BY <3>2, Zenon
  <2>3. cs'.pc \notin {"get", "start"}
    <3>1. cs' = [cs EXCEPT !.pc = "create", !.slots = n] => cs'.pc = "create"
      BY <2>2, Zenon
    <3>2. NoSection.pc = "idle"
      BY DEF NoSection
    <3> QED
      BY <2>1, <3>1, <3>2
  <2> QED
    BY <1>3, <2>3, TurnFrame DEF SpawnCount
<1>4. CASE SweepList
  <2>1. sweeps' # 0
    BY <1>4 DEF SweepList, TypeOK, CountsOK
  <2> QED
    BY <1>4, <2>1, TurnFrame DEF SweepList
<1>5. ASSUME NEW a \in Agents, SweepNotify(a) PROVE Turn' /\ FinalStep /\ FifoStep
  <2>1. sweeps # 0
    BY <1>5 DEF SweepNotify, Turn, OutcomeInv
  <2> QED
    BY <1>5, <2>1, TurnFrame DEF SweepNotify
<1>6. CASE Restart
  <2>1. UNCHANGED <<status, runs, sweeps>> /\ sweep' = NoSweep /\ cs' = NoSection
        /\ step' = [a \in Agents |-> NoStep]
    BY <1>6 DEF Restart
  <2>2. OutcomeInv' /\ QueueSnapshot'
    BY <2>1 DEF Turn, OutcomeInv, QueueSnapshot, NoSweep, NoSection, NoStep
  <2> QED
    BY <2>1, <2>2 DEF Turn, FinalStep, FifoStep
<1>7. CASE UNCHANGED vars
  BY <1>7, TurnFrame DEF vars
<1> QED
  BY <1>1, <1>2, <1>3, <1>4, <1>5, <1>6, <1>7, TurnChain, TurnCreate, TurnPump, TurnSweep
     DEF Next, SpawnStep, SweepStep

LEMMA TurnInit == Init => Turn
BY DEF Init, Turn, OutcomeInv, QueueSnapshot, NoSweep, NoSection, NoStep

\* Timer, runner and cancel race; the first outcome of an agent that ran stands.
THEOREM OutcomeStands == Spec => OutcomeIsFinal
<1>1. TypeOK /\ Turn /\ [Next]_vars => Turn'
  BY TurnStep
<1>2. TypeOK /\ Turn /\ [Next]_vars => [FinalStep]_vars
  BY TurnStep
<1>3. [FinalStep]_vars =>
         [sweeps = 0 =>
             \A a \in Agents : runs[a] > 0 /\ status[a] \in Terminal => status'[a] = status[a]]_vars
  BY DEF FinalStep
<1> QED
  BY <1>1, <1>2, <1>3, TurnInit, TypeCorrect, PTL DEF Spec, OutcomeIsFinal

\* An agent that waited starts only when no older one still waits.
THEOREM PumpInOrder == Spec => PumpIsFifo
<1>1. TypeOK /\ Turn /\ [Next]_vars => Turn'
  BY TurnStep
<1>2. TypeOK /\ Turn /\ [Next]_vars => [FifoStep]_vars
  BY TurnStep
<1>3. [FifoStep]_vars =>
         [\A a \in Rows : status[a] # "running" /\ status'[a] = "running" =>
             \A b \in Agents : b < a => status[b] # "queued"]_vars
  BY DEF FifoStep
<1> QED
  BY <1>1, <1>2, <1>3, TurnInit, TypeCorrect, PTL DEF Spec, PumpIsFifo
=============================================================================
