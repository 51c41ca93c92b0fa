---------------------------- MODULE WorkerProofs ----------------------------
(***************************************************************************)
(* Proofs about Worker and its HostGate, for any feeds, hosts and limits.   *)
(***************************************************************************)
EXTENDS Worker, FiniteSetTheorems, SequenceTheorems, TLAPS

-----------------------------------------------------------------------------
(* The inductive invariant *)

\* A line holds each task of a set once.
Lined(q, S) ==
  /\ q \in Seq(Feeds) /\ {q[i] : i \in 1 .. Len(q)} = S
  /\ \A i, j \in 1 .. Len(q) : q[i] = q[j] => i = j

InLine(h) == {f \in Feeds : Host[f] = h /\ At(f, "in_line")}
Holding(h) == {f \in Feeds : Host[f] = h /\ phase[f] \notin {"idle", "created", "in_line"}}
InSlotLine == {f \in Feeds : At(f, "in_slot_line")}
Slotted == {f \in Feeds : phase[f] \in {"admitted", "fetching"}}

\* A host's line holds the tasks that wait, none waits while a permit is free, and what is
\* not free is held.
HostKept(h) ==
  /\ Lined(line[h], InLine(h)) /\ (permits[h] > 0 => line[h] = <<>>)
  /\ permits[h] + Cardinality(Holding(h)) = PerHost

SlotsKept ==
  /\ Lined(slot_line, InSlotLine) /\ (slots > 0 => slot_line = <<>>)
  /\ slots + Cardinality(Slotted) = MaxConcurrency

\* With one permit to a host, whoever is past the spacing is past it until it fetches.
Spaced(f) ==
  PerHost = 1 =>
    /\ At(f, "spacing") => next_allowed[Host[f]] <= sleep[f]
    /\ phase[f] \in {"in_slot_line", "admitted"} => next_allowed[Host[f]] = 0

\* The claim loop takes the next batch when the last one is done.
Batched == claim_loop # "busy" => Running = {}

IInv ==
  /\ TypeOK
  /\ \A h \in Hosts : HostKept(h)
  /\ SlotsKept
  /\ \A f \in Feeds : Spaced(f)
  /\ Batched

-----------------------------------------------------------------------------
(* Lines *)

\* Nobody waits when the line is empty, and only then.
LEMMA LinedEmpty ==
  ASSUME NEW q, NEW S, Lined(q, S)
  PROVE  q = <<>> <=> S = {}
<1>1. q \in Seq(Feeds) /\ (q # <<>> => Len(q) \in Nat \ {0}) /\ (q = <<>> => Len(q) = 0)
  BY EmptySeq DEF Lined
<1>2. CASE q = <<>>
  BY <1>1, <1>2 DEF Lined
<1>3. CASE q # <<>>
  <2>1. 1 \in 1 .. Len(q)
    BY <1>1, <1>3
  <2> QED BY <1>3, <2>1 DEF Lined
<1> QED BY <1>2, <1>3

\* The empty line.
LEMMA NothingLined == Lined(<<>>, {})
<1>1. <<>> \in Seq(Feeds) /\ Len(<<>>) = 0
  BY EmptySeq
<1> QED BY <1>1 DEF Lined

\* Who joins the line stands at its end.
LEMMA LinedAppend ==
  ASSUME NEW q, NEW S, Lined(q, S), NEW f \in Feeds, f \notin S
  PROVE  Lined(Append(q, f), S \cup {f})
<1> DEFINE r == Append(q, f)
<1>1. /\ q \in Seq(Feeds) /\ Len(q) \in Nat /\ r \in Seq(Feeds) /\ Len(r) = Len(q) + 1
      /\ \A i \in 1 .. Len(q) : r[i] = q[i]
      /\ r[Len(q) + 1] = f
  BY LenProperties DEF Lined
<1> HIDE DEF r
<1>2. \A i \in 1 .. Len(q) : q[i] \in S
  BY DEF Lined
<1>3. \A i, j \in 1 .. Len(r) : r[i] = r[j] => i = j
  BY <1>1, <1>2 DEF Lined
<1>4. {r[i] : i \in 1 .. Len(r)} = S \cup {f}
  <2>1. \A x \in S : \E i \in 1 .. Len(q) : q[i] = x
    BY DEF Lined
  <2>2. \A x \in S \cup {f} : \E i \in 1 .. Len(r) : r[i] = x
    BY <1>1, <2>1
  <2>3. \A i \in 1 .. Len(r) : r[i] \in S \cup {f}
    BY <1>1, <1>2
  <2> QED BY <2>2, <2>3
<1> QED BY <1>1, <1>3, <1>4 DEF Lined, r

\* The first of a line leaves it.
LEMMA LinedTail ==
  ASSUME NEW q, NEW S, Lined(q, S), q # <<>>
  PROVE  Head(q) \in S /\ Lined(Tail(q), S \ {Head(q)})
<1> DEFINE r == Tail(q)
<1>1. /\ q \in Seq(Feeds) /\ Len(q) \in Nat \ {0} /\ r \in Seq(Feeds) /\ Len(r) = Len(q) - 1
      /\ \A i \in 1 .. Len(r) : r[i] = q[i + 1]
      /\ Head(q) = q[1]
  BY HeadTailProperties, EmptySeq DEF Lined
<1> HIDE DEF r
<1>2. Head(q) \in S
  BY <1>1 DEF Lined
<1>3. \A i, j \in 1 .. Len(r) : r[i] = r[j] => i = j
  <2> SUFFICES ASSUME NEW i \in 1 .. Len(r), NEW j \in 1 .. Len(r), r[i] = r[j] PROVE i = j
    OBVIOUS
  <2>1. i + 1 \in 1 .. Len(q) /\ j + 1 \in 1 .. Len(q) /\ q[i + 1] = q[j + 1]
    BY <1>1
  <2> QED BY <2>1 DEF Lined
<1>4. {r[i] : i \in 1 .. Len(r)} = S \ {Head(q)}
  <2>1. ASSUME NEW x \in S \ {Head(q)} PROVE \E i \in 1 .. Len(r) : r[i] = x
    <3>1. PICK i \in 1 .. Len(q) : q[i] = x
      BY DEF Lined
    <3>2. i # 1 /\ i - 1 \in 1 .. Len(r) /\ r[i - 1] = q[i]
      BY <1>1, <2>1, <3>1
    <3> QED BY <3>1, <3>2
  <2>2. ASSUME NEW i \in 1 .. Len(r) PROVE r[i] \in S \ {Head(q)}
    <3>1. i + 1 \in 1 .. Len(q) /\ 1 \in 1 .. Len(q) /\ i + 1 # 1 /\ r[i] = q[i + 1]
      BY <1>1
    <3> QED BY <1>1, <3>1 DEF Lined
  <2> QED BY <2>1, <2>2
<1> QED BY <1>1, <1>2, <1>3, <1>4 DEF Lined, r

-----------------------------------------------------------------------------
(* Counting *)

\* The constants.
LEMMA Shape ==
  /\ IsFiniteSet(Feeds) /\ Host \in [Feeds -> Hosts]
  /\ PerHost \in Nat \ {0} /\ MaxConcurrency \in Nat \ {0} /\ Delay \in Nat
       /\ PruneInterval \in Nat
  /\ Backlog \in Nat
BY GateAssumption, WorkerAssumption

\* Sets of feeds are finite and count as expected.
LEMMA Counts ==
  ASSUME NEW S, S \subseteq Feeds
  PROVE  /\ IsFiniteSet(S) /\ Cardinality(S) \in Nat /\ (Cardinality(S) = 0 <=> S = {})
         /\ \A f : Cardinality(S \cup {f}) = IF f \in S THEN Cardinality(S) ELSE Cardinality(S) + 1
         /\ \A f : Cardinality(S \ {f}) = IF f \in S THEN Cardinality(S) - 1 ELSE Cardinality(S)
         /\ \A T \in SUBSET S : Cardinality(T) <= Cardinality(S)
<1>1. IsFiniteSet(S)
  BY Shape, FS_Subset
<1> QED BY <1>1, FS_CardinalityType, FS_EmptySet, FS_AddElement, FS_RemoveElement, FS_Subset

\* One task gives up its place and another takes it.
LEMMA Handover ==
  ASSUME NEW S, S \subseteq Feeds, NEW f \in S, NEW g, g \notin S
  PROVE  Cardinality((S \ {f}) \cup {g}) = Cardinality(S)
<1>1. S \ {f} \subseteq Feeds /\ g \notin S \ {f}
  OBVIOUS
<1>2. Cardinality(S) \in Nat /\ Cardinality(S \ {f}) = Cardinality(S) - 1
  BY Counts
<1>3. Cardinality((S \ {f}) \cup {g}) = Cardinality(S \ {f}) + 1
  BY <1>1, Counts
<1> QED BY <1>2, <1>3

-----------------------------------------------------------------------------
(* What a task's step does to the counts *)

\* A task moves on its own.
Moved(f, p) == phase' = [phase EXCEPT ![f] = p]

\* Only the task that moves has another phase.
LEMMA MovedPhase ==
  ASSUME TypeOK, NEW f \in Feeds, NEW p \in Phases, Moved(f, p)
  PROVE  phase' \in [Feeds -> Phases] /\ phase'[f] = p
           /\ \A g \in Feeds \ {f} : phase'[g] = phase[g]
BY DEF TypeOK, GateTypeOK, Moved

Holds(p) == p \notin {"idle", "created", "in_line"}

\* Nothing changes for the hosts when a task that holds its permit moves on.
LEMMA HostsSame ==
  ASSUME TypeOK, \A h \in Hosts : HostKept(h), NEW f \in Feeds, NEW p \in Phases, Moved(f, p),
         Holds(phase[f]), Holds(p), UNCHANGED <<permits, line>>
  PROVE  \A h \in Hosts : HostKept(h)'
<1> SUFFICES ASSUME NEW h \in Hosts PROVE HostKept(h)'
  OBVIOUS
<1>1. InLine(h)' = InLine(h)
  BY MovedPhase DEF InLine, At, Holds
<1>2. Holding(h)' = Holding(h)
  BY MovedPhase DEF Holding, Holds
<1> QED BY <1>1, <1>2 DEF HostKept, Lined

\* A slot at once, or a place at the end of the line.
LEMMA SlotAcquired ==
  ASSUME TypeOK, SlotsKept, NEW f \in Feeds, AcquireSlot(f),
         phase[f] \notin {"in_slot_line", "admitted", "fetching"}
  PROVE  /\ SlotsKept' /\ slots' \in 0 .. MaxConcurrency /\ slot_line' \in Seq(Feeds)
         /\ \/ Moved(f, "fetching") /\ slots > 0
            \/ Moved(f, "in_slot_line")
<1>1. CASE slots > 0 /\ slots' = slots - 1 /\ Moved(f, "fetching") /\ UNCHANGED slot_line
  <2>1. /\ Slotted' = Slotted \cup {f} /\ f \notin Slotted /\ Slotted \subseteq Feeds
        /\ InSlotLine' = InSlotLine
    BY <1>1, MovedPhase DEF Slotted, InSlotLine, At, Phases
  <2>2. Cardinality(Slotted') = Cardinality(Slotted) + 1 /\ Cardinality(Slotted) \in Nat
    BY <2>1, Counts
  <2>3. SlotsKept' /\ slots' \in 0 .. MaxConcurrency
    <3>1. slots \in Nat /\ slots + Cardinality(Slotted) = MaxConcurrency /\ slot_line = <<>>
      BY <1>1, Shape DEF SlotsKept, TypeOK, GateTypeOK
    <3>2. slots' \in 0 .. MaxConcurrency /\ slots' + Cardinality(Slotted') = MaxConcurrency
      BY <1>1, <2>2, <3>1, Shape
    <3>3. Lined(slot_line', InSlotLine')
      BY <1>1, <2>1 DEF SlotsKept
    <3> QED BY <1>1, <3>1, <3>2, <3>3 DEF SlotsKept
  <2> QED BY <1>1, <2>3 DEF TypeOK, GateTypeOK
<1>2. CASE slots = 0 /\ slot_line' = Append(slot_line, f) /\ Moved(f, "in_slot_line")
             /\ UNCHANGED slots
  <2>1. /\ Slotted' = Slotted /\ f \notin InSlotLine
        /\ InSlotLine' = InSlotLine \cup {f}
    BY <1>2, MovedPhase DEF Slotted, InSlotLine, At, Phases
  <2>2. Lined(slot_line', InSlotLine')
    BY <1>2, <2>1, LinedAppend DEF SlotsKept
  <2>3. SlotsKept'
    BY <1>2, <2>1, <2>2 DEF SlotsKept
  <2> QED BY <1>2, <2>2, <2>3 DEF TypeOK, GateTypeOK, Lined
<1> QED BY <1>1, <1>2 DEF AcquireSlot, Moved

\* Past the host's semaphore a task sleeps or asks for a slot.
LEMMA GatePassed ==
  ASSUME TypeOK, SlotsKept, NEW f \in Feeds, PassGate(f), phase[f] \in {"created", "granted"}
  PROVE  /\ SlotsKept' /\ slots' \in 0 .. MaxConcurrency /\ slot_line' \in Seq(Feeds)
         /\ sleep' \in [Feeds -> 0 .. Delay]
         /\ \A g \in Feeds \ {f} : sleep'[g] = sleep[g]
         /\ \/ Moved(f, "fetching") /\ slots > 0 /\ next_allowed[Host[f]] = 0
            \/ Moved(f, "in_slot_line") /\ next_allowed[Host[f]] = 0
            \/ Moved(f, "spacing") /\ sleep'[f] = next_allowed[Host[f]]
<1>1. CASE next_allowed[Host[f]] = 0 /\ AcquireSlot(f) /\ UNCHANGED sleep
  BY <1>1, SlotAcquired DEF TypeOK, GateTypeOK
<1>2. CASE sleep' = [sleep EXCEPT ![f] = next_allowed[Host[f]]] /\ Moved(f, "spacing")
           /\ UNCHANGED <<slots, slot_line>>
  <2>1. /\ Slotted' = Slotted /\ InSlotLine' = InSlotLine
    BY <1>2, MovedPhase DEF Slotted, InSlotLine, At, Phases
  <2>2. SlotsKept'
    BY <1>2, <2>1 DEF SlotsKept, Lined
  <2>3. next_allowed[Host[f]] \in 0 .. Delay
    BY Shape DEF TypeOK, GateTypeOK
  <2> QED BY <1>2, <2>2, <2>3 DEF TypeOK, GateTypeOK
<1> QED BY <1>1, <1>2 DEF PassGate, Moved

\* With one permit to a host its tasks past the gate are one.
LEMMA Alone ==
  ASSUME NEW f \in Feeds, NEW g \in Feeds, HostKept(Host[f]), Host[f] = Host[g], PerHost = 1,
         TypeOK, Holds(phase[f]), Holds(phase[g])
  PROVE  f = g
<1> DEFINE S == Holding(Host[f])
<1>1. S \subseteq Feeds /\ f \in S /\ g \in S
  BY DEF Holding, Holds
<1>2. Cardinality(S) <= 1 /\ Cardinality(S) \in Nat
  <2>1. permits[Host[f]] \in Nat
    <3>1. Host[f] \in Hosts /\ permits \in [Hosts -> 0 .. PerHost]
      BY Shape DEF TypeOK, GateTypeOK
    <3> QED BY <3>1
  <2>3. permits[Host[f]] + Cardinality(S) = 1
    BY DEF HostKept
  <2>2. Cardinality(S) \in Nat
    BY <1>1, Counts
  <2> HIDE DEF S
  <2> QED BY <2>1, <2>2, <2>3
<1>3. Cardinality(S \ {f}) = 0 /\ S \ {f} \subseteq Feeds
  BY <1>1, <1>2, Counts
<1>4. S \ {f} = {}
  BY <1>3, Counts
<1> QED BY <1>1, <1>4

\* What a step of a task leaves to prove.
LEMMA TaskStep ==
  ASSUME IInv, UNCHANGED loops, GateTypeOK', \A h \in Hosts : HostKept(h)', SlotsKept',
         \A f \in Feeds : Spaced(f)', NEW f \in Feeds, ~At(f, "idle")
  PROVE  IInv'
BY DEF IInv, TypeOK, Batched, Running, loops

-----------------------------------------------------------------------------
(* The tasks' steps *)

\* Spacing and slots are as they were for every task but the one that moves.
LEMMA SpacedOthers ==
  ASSUME IInv, NEW f \in Feeds, NEW p \in Phases, Moved(f, p), UNCHANGED next_allowed,
         \A g \in Feeds \ {f} : sleep'[g] = sleep[g],
         PerHost = 1 => /\ p = "spacing" => next_allowed[Host[f]] <= sleep'[f]
                        /\ p \in {"in_slot_line", "admitted"} => next_allowed[Host[f]] = 0
  PROVE  \A g \in Feeds : Spaced(g)'
<1> SUFFICES ASSUME NEW g \in Feeds PROVE Spaced(g)'
  OBVIOUS
<1>1. TypeOK /\ Spaced(g)
  BY DEF IInv
<1>2. CASE g = f
  BY <1>1, <1>2, MovedPhase DEF Spaced, At
<1>3. CASE g # f
  BY <1>1, <1>3, MovedPhase DEF Spaced, At
<1> QED BY <1>2, <1>3

\* HostGate.slot takes a permit or a place in the line.
LEMMA EnterStep == ASSUME IInv, NEW f \in Feeds, EnterGate(f), UNCHANGED loops PROVE IInv'
<1> DEFINE h == Host[f]
<1>1. TypeOK /\ SlotsKept /\ At(f, "created") /\ ~At(f, "idle") /\ h \in Hosts
      /\ UNCHANGED <<next_allowed, next_prune>>
  BY Shape DEF IInv, EnterGate, At
<1>2. CASE permits[h] > 0 /\ permits' = [permits EXCEPT ![h] = @ - 1] /\ PassGate(f)
             /\ UNCHANGED line
  <2>1. /\ SlotsKept' /\ slots' \in 0 .. MaxConcurrency /\ slot_line' \in Seq(Feeds)
        /\ sleep' \in [Feeds -> 0 .. Delay] /\ \A g \in Feeds \ {f} : sleep'[g] = sleep[g]
        /\ \/ Moved(f, "fetching")
           \/ Moved(f, "in_slot_line") /\ next_allowed[h] = 0
           \/ Moved(f, "spacing") /\ sleep'[f] = next_allowed[h]
    BY <1>1, <1>2, GatePassed DEF At
  <2>2. PICK p \in {"fetching", "in_slot_line", "spacing"} :
          Moved(f, p) /\ (p = "spacing" => sleep'[f] = next_allowed[h])
                      /\ (p = "in_slot_line" => next_allowed[h] = 0)
    BY <2>1
  <2>3. p \in Phases /\ Holds(p)
    BY DEF Phases, Holds
  <2>4. \A g \in Hosts : HostKept(g)'
    <3> SUFFICES ASSUME NEW g \in Hosts PROVE HostKept(g)'
      OBVIOUS
    <3>1. HostKept(g) /\ InLine(g)' = InLine(g)
      BY <1>1, <2>2, <2>3, MovedPhase DEF IInv, InLine, At, Holds
    <3>2. CASE g # h
      <4>1. Holding(g)' = Holding(g) /\ permits'[g] = permits[g]
        BY <1>1, <1>2, <2>2, <2>3, <3>2, MovedPhase, SMTT(30) DEF Holding, Holds, TypeOK, GateTypeOK
      <4> QED BY <1>2, <3>1, <4>1 DEF HostKept
    <3>3. CASE g = h
      <4>1. Holding(g)' = Holding(g) \cup {f} /\ f \notin Holding(g)
              /\ Holding(g) \subseteq Feeds
        BY <1>1, <2>2, <2>3, <3>3, MovedPhase DEF Holding, Holds, At
      <4>2. Cardinality(Holding(g)') = Cardinality(Holding(g)) + 1
              /\ Cardinality(Holding(g)) \in Nat
        BY <4>1, Counts
      <4>3. permits'[g] = permits[g] - 1 /\ permits[g] \in Nat /\ line[g] = <<>>
        BY <1>1, <1>2, <3>1, <3>3, Shape DEF TypeOK, GateTypeOK, HostKept
      <4> QED BY <1>2, <3>1, <4>2, <4>3, Shape DEF HostKept
    <3> QED BY <3>2, <3>3
  <2>5. permits' \in [Hosts -> 0 .. PerHost]
    BY <1>1, <1>2, Shape DEF TypeOK, GateTypeOK
  <2>6. GateTypeOK'
    BY <1>1, <1>2, <2>1, <2>2, <2>3, <2>5, MovedPhase DEF TypeOK, GateTypeOK
  <2>7. next_allowed[h] \in Nat
    BY <1>1, Shape DEF TypeOK, GateTypeOK
  <2>8. \A g \in Feeds : Spaced(g)'
    BY <1>1, <2>1, <2>2, <2>3, <2>7, SpacedOthers
  <2> QED BY <1>1, <2>1, <2>4, <2>6, <2>8, TaskStep
<1>3. CASE permits[h] = 0 /\ line' = [line EXCEPT ![h] = Append(@, f)] /\ Moved(f, "in_line")
           /\ UNCHANGED <<sleep, permits, slots, slot_line>>
  <2>1. "in_line" \in Phases
    BY DEF Phases
  <2>2. /\ Slotted' = Slotted /\ InSlotLine' = InSlotLine
        /\ \A g \in Hosts : Holding(g)' = Holding(g)
    BY <1>1, <1>3, <2>1, MovedPhase DEF Slotted, InSlotLine, Holding, At
  <2>3. SlotsKept'
    BY <1>1, <1>3, <2>2 DEF SlotsKept
  <2>4. line[h] \in Seq(Feeds) /\ line' \in [Hosts -> Seq(Feeds)]
          /\ line'[h] = Append(line[h], f)
        /\ \A g \in Hosts \ {h} : line'[g] = line[g]
    BY <1>1, <1>3 DEF TypeOK, GateTypeOK
  <2>5. \A g \in Hosts : HostKept(g)'
    <3> SUFFICES ASSUME NEW g \in Hosts PROVE HostKept(g)'
      OBVIOUS
    <3>1. HostKept(g)
      BY DEF IInv
    <3>2. CASE g # h
      <4>1. InLine(g)' = InLine(g)
        BY <1>1, <1>3, <2>1, <3>2, MovedPhase DEF InLine, At
      <4> QED BY <1>3, <2>2, <2>4, <3>1, <3>2, <4>1 DEF HostKept
    <3>3. CASE g = h
      <4>1. InLine(g)' = InLine(g) \cup {f} /\ f \notin InLine(g)
        BY <1>1, <1>3, <2>1, <3>3, MovedPhase DEF InLine, At
      <4>3. line'[g] = Append(line[g], f) /\ Lined(line[g], InLine(g))
        BY <2>4, <3>1, <3>3 DEF HostKept
      <4>2. Lined(line'[g], InLine(g)')
        <5>1. Lined(Append(line[g], f), InLine(g) \cup {f})
          BY <4>1, <4>3, LinedAppend
        <5> QED BY <4>1, <4>3, <5>1
      <4> QED BY <1>3, <2>2, <3>1, <3>3, <4>2 DEF HostKept
    <3> QED BY <3>2, <3>3
  <2>6. GateTypeOK'
    BY <1>1, <1>3, <2>1, <2>4, MovedPhase DEF TypeOK, GateTypeOK
  <2>7. \A g \in Feeds : Spaced(g)'
    BY <1>1, <1>3, <2>1, SpacedOthers
  <2> QED BY <1>1, <2>3, <2>5, <2>6, <2>7, TaskStep
<1> QED BY <1>2, <1>3 DEF EnterGate, Moved

\* A permit handed over is used.
LEMMA ResumeStep == ASSUME IInv, NEW f \in Feeds, Resume(f), UNCHANGED loops PROVE IInv'
<1>1. TypeOK /\ SlotsKept /\ At(f, "granted") /\ ~At(f, "idle") /\ Host[f] \in Hosts
      /\ UNCHANGED <<permits, line, next_allowed, next_prune>> /\ PassGate(f)
  BY Shape DEF IInv, Resume, At
<1>2. /\ SlotsKept' /\ slots' \in 0 .. MaxConcurrency /\ slot_line' \in Seq(Feeds)
      /\ sleep' \in [Feeds -> 0 .. Delay] /\ \A g \in Feeds \ {f} : sleep'[g] = sleep[g]
      /\ \/ Moved(f, "fetching")
         \/ Moved(f, "in_slot_line") /\ next_allowed[Host[f]] = 0
         \/ Moved(f, "spacing") /\ sleep'[f] = next_allowed[Host[f]]
  BY <1>1, GatePassed DEF At
<1>3. PICK p \in {"fetching", "in_slot_line", "spacing"} :
        Moved(f, p) /\ (p = "spacing" => sleep'[f] = next_allowed[Host[f]])
                    /\ (p = "in_slot_line" => next_allowed[Host[f]] = 0)
  BY <1>2
<1>4. p \in Phases /\ Holds(p) /\ Holds(phase[f])
  BY <1>1 DEF Phases, Holds, At
<1>5. \A h \in Hosts : HostKept(h)'
  BY <1>1, <1>3, <1>4, HostsSame DEF IInv
<1>6. GateTypeOK'
  BY <1>1, <1>2, <1>3, <1>4, MovedPhase DEF TypeOK, GateTypeOK
<1>7. next_allowed[Host[f]] \in Nat
  BY <1>1, Shape DEF TypeOK, GateTypeOK
<1>8. \A g \in Feeds : Spaced(g)'
  BY <1>1, <1>2, <1>3, <1>4, <1>7, SpacedOthers
<1> QED BY <1>1, <1>2, <1>5, <1>6, <1>8, TaskStep

\* The spacing is slept off.
LEMMA EndSleepStep == ASSUME IInv, NEW f \in Feeds, EndSleep(f), UNCHANGED loops PROVE IInv'
<1>1. TypeOK /\ SlotsKept /\ At(f, "spacing") /\ ~At(f, "idle") /\ Host[f] \in Hosts
        /\ sleep[f] = 0
      /\ UNCHANGED <<sleep, permits, line, next_allowed, next_prune>> /\ AcquireSlot(f)
  BY Shape DEF IInv, EndSleep, At
<1>2. /\ SlotsKept' /\ slots' \in 0 .. MaxConcurrency /\ slot_line' \in Seq(Feeds)
      /\ Moved(f, "fetching") \/ Moved(f, "in_slot_line")
  BY <1>1, SlotAcquired DEF At
<1>3. PICK p \in {"fetching", "in_slot_line"} : Moved(f, p)
  BY <1>2
<1>4. p \in Phases /\ Holds(p) /\ Holds(phase[f])
  BY <1>1 DEF Phases, Holds, At
<1>5. \A h \in Hosts : HostKept(h)'
  BY <1>1, <1>3, <1>4, HostsSame DEF IInv
<1>6. GateTypeOK'
  BY <1>1, <1>2, <1>3, <1>4, MovedPhase DEF TypeOK, GateTypeOK
<1>7. PerHost = 1 => next_allowed[Host[f]] = 0
  BY <1>1, Shape DEF IInv, Spaced, TypeOK, GateTypeOK
<1>8. \A g \in Feeds : Spaced(g)'
  BY <1>1, <1>3, <1>4, <1>7, SpacedOthers
<1> QED BY <1>1, <1>2, <1>5, <1>6, <1>8, TaskStep

\* A slot handed over is used.
LEMMA AdmitStep == ASSUME IInv, NEW f \in Feeds, Admit(f), UNCHANGED loops PROVE IInv'
<1>1. TypeOK /\ At(f, "admitted") /\ ~At(f, "idle") /\ Moved(f, "fetching")
        /\ "fetching" \in Phases
      /\ UNCHANGED <<sleep, permits, line, next_allowed, slots, slot_line, next_prune>>
  BY DEF IInv, Admit, At, Moved, Phases
<1>2. Holds("fetching") /\ Holds(phase[f])
  BY <1>1 DEF Holds, At
<1>3. \A h \in Hosts : HostKept(h)'
  BY <1>1, <1>2, HostsSame DEF IInv
<1>4. Slotted' = Slotted /\ InSlotLine' = InSlotLine
  BY <1>1, MovedPhase DEF Slotted, InSlotLine, At
<1>5. SlotsKept'
  BY <1>1, <1>4 DEF IInv, SlotsKept
<1>6. GateTypeOK'
  BY <1>1, MovedPhase DEF TypeOK, GateTypeOK
<1>7. \A g \in Feeds : Spaced(g)'
  BY <1>1, SpacedOthers
<1> QED BY <1>1, <1>3, <1>5, <1>6, <1>7, TaskStep

\* Forgetting idle hosts changes nothing: what the gate remembers of them is what it begins
\* with.
LEMMA PruneInvisible ==
  ASSUME IInv, NEW f \in Feeds, Finish(f)
  PROVE  /\ permits' = [permits EXCEPT ![Host[f]] = IF line[Host[f]] = <<>> THEN @ + 1 ELSE @]
         /\ next_allowed' = [next_allowed EXCEPT ![Host[f]] = Delay]
<1> DEFINE h == Host[f]
           toHost == IF line[h] = <<>> THEN {} ELSE {Head(line[h])}
           spaced == [next_allowed EXCEPT ![h] = Delay]
           given  == [permits EXCEPT ![h] = IF toHost = {} THEN @ + 1 ELSE @]
           others == {g \in Hosts : IdleHosts(g)} \ {h}
           stale  == IF Active(h) = {f} /\ Delay = 0 THEN others \cup {h} ELSE others
           prune  == next_prune = 0
<1>1. /\ permits' = [g \in Hosts |-> IF prune /\ g \in stale THEN PerHost ELSE given[g]]
      /\ next_allowed' = [g \in Hosts |-> IF prune /\ g \in stale THEN 0 ELSE spaced[g]]
      /\ At(f, "fetching")
  BY DEF Finish
<1>2. TypeOK /\ h \in Hosts /\ permits \in [Hosts -> 0 .. PerHost]
        /\ next_allowed \in [Hosts -> 0 .. Delay]
  BY Shape DEF IInv, TypeOK, GateTypeOK
<1>3. toHost = {} <=> line[h] = <<>>
  OBVIOUS
<1>4. ASSUME NEW g \in others PROVE given[g] = PerHost /\ spaced[g] = 0
  <2>1. g \in Hosts /\ g # h /\ Active(g) = {} /\ next_allowed[g] = 0
    BY DEF IdleHosts
  <2>2. Holding(g) = {}
    BY <2>1 DEF Active, Running, Holding, At
  <2>3. permits[g] + 0 = PerHost /\ permits[g] \in Nat
    <3>1. HostKept(g) /\ permits[g] \in 0 .. PerHost /\ Cardinality({}) = 0
      BY <1>2, <2>1, FS_EmptySet DEF IInv
    <3> QED BY <2>2, <3>1, Shape DEF HostKept
  <2> QED BY <1>2, <2>1, <2>3
<1>5. ASSUME Active(h) = {f}, Delay = 0 PROVE given[h] = PerHost /\ spaced[h] = 0
  <2>1. Holding(h) = {f} /\ InLine(h) = {}
    BY <1>1, <1>5 DEF Active, Running, Holding, InLine, At
  <2>2. HostKept(h)
    BY <1>2 DEF IInv
  <2>3. line[h] = <<>>
    BY <2>1, <2>2, LinedEmpty DEF HostKept
  <2>4. permits[h] + 1 = PerHost
    BY <2>1, <2>2, FS_Singleton DEF HostKept
  <2> QED BY <1>2, <1>5, <2>3, <2>4
<1>6. \A g \in stale : given[g] = PerHost /\ spaced[g] = 0
  BY <1>4, <1>5
<1>7. given = [g \in Hosts |-> given[g]] /\ spaced = [g \in Hosts |-> spaced[g]]
  BY <1>2
<1> HIDE DEF stale, given, spaced, prune
<1>8. permits' = given /\ next_allowed' = spaced
  BY <1>1, <1>6, <1>7
<1> QED BY <1>3, <1>8 DEF given, spaced

\* A task leaves: its permit and its slot go to the first in line, or back.
LEMMA FinishStep == ASSUME IInv, NEW f \in Feeds, Finish(f), UNCHANGED loops PROVE IInv'
<1> DEFINE h == Host[f]
           toHost == IF line[h] = <<>> THEN {} ELSE {Head(line[h])}
           toSlot == IF slot_line = <<>> THEN {} ELSE {Head(slot_line)}
<1>1. /\ TypeOK /\ SlotsKept /\ h \in Hosts /\ At(f, "fetching") /\ ~At(f, "idle")
      /\ phase' = [g \in Feeds |-> IF g = f THEN "idle"
                                   ELSE IF g \in toSlot THEN "admitted"
                                   ELSE IF g \in toHost THEN "granted" ELSE phase[g]]
      /\ line' = [line EXCEPT ![h] = IF toHost = {} THEN @ ELSE Tail(@)]
      /\ slot_line' = IF toSlot = {} THEN slot_line ELSE Tail(slot_line)
      /\ slots' = IF toSlot = {} THEN slots + 1 ELSE slots
      /\ next_prune' \in 0 .. PruneInterval
      /\ UNCHANGED sleep
  <2>1. TypeOK /\ SlotsKept /\ h \in Hosts
    BY Shape DEF IInv
  <2>2. next_prune' \in 0 .. PruneInterval
    BY <2>1, Shape DEF Finish, TypeOK, GateTypeOK
  <2> QED BY <2>1, <2>2 DEF Finish, At
<1>2. permits' = [permits EXCEPT ![h] = IF toHost = {} THEN @ + 1 ELSE @]
      /\ next_allowed' = [next_allowed EXCEPT ![h] = Delay]
  BY PruneInvisible
<1>3. Lined(line[h], InLine(h)) /\ Lined(slot_line, InSlotLine)
  BY <1>1 DEF IInv, HostKept, SlotsKept
<1>4. toHost \subseteq InLine(h) /\ toSlot \subseteq InSlotLine
  BY <1>3, LinedTail
<1>5. /\ phase' \in [Feeds -> Phases] /\ phase'[f] = "idle"
      /\ \A g \in toSlot : phase[g] = "in_slot_line" /\ phase'[g] = "admitted"
      /\ \A g \in toHost : phase[g] = "in_line" /\ phase'[g] = "granted" /\ Host[g] = h
      /\ \A g \in Feeds \ ({f} \cup toSlot \cup toHost) : phase'[g] = phase[g]
      /\ f \notin toSlot /\ f \notin toHost /\ phase[f] = "fetching"
      /\ toSlot \subseteq Feeds /\ toHost \subseteq Feeds
  <2>1. phase \in [Feeds -> Phases]
    BY <1>1 DEF TypeOK, GateTypeOK
  <2>2. /\ \A g \in toSlot : g \in Feeds /\ phase[g] = "in_slot_line"
        /\ \A g \in toHost : g \in Feeds /\ phase[g] = "in_line" /\ Host[g] = h
        /\ phase[f] = "fetching"
    BY <1>1, <1>4 DEF InLine, InSlotLine, At
  <2> HIDE DEF toSlot, toHost
  <2> QED BY <1>1, <2>1, <2>2 DEF Phases
<1>6. /\ InSlotLine' = InSlotLine \ toSlot
      /\ Slotted' = (Slotted \ {f}) \cup toSlot
      /\ InLine(h)' = InLine(h) \ toHost
      /\ Holding(h)' = (Holding(h) \ {f}) \cup toHost
      /\ \A g \in Hosts \ {h} : InLine(g)' = InLine(g) /\ Holding(g)' = Holding(g)
  <2> HIDE DEF toSlot, toHost
  <2>1. InSlotLine' = InSlotLine \ toSlot
    BY <1>5 DEF InSlotLine, At
  <2>2. Slotted' = (Slotted \ {f}) \cup toSlot
    BY <1>5 DEF Slotted
  <2>3. InLine(h)' = InLine(h) \ toHost
    BY <1>5 DEF InLine, At
  <2>4. Holding(h)' = (Holding(h) \ {f}) \cup toHost
    BY <1>5 DEF Holding
  <2>5. \A g \in Hosts \ {h} : InLine(g)' = InLine(g) /\ Holding(g)' = Holding(g)
    BY <1>5 DEF InLine, Holding, At
  <2> QED BY <2>1, <2>2, <2>3, <2>4, <2>5
<1>7. SlotsKept' /\ slots' \in 0 .. MaxConcurrency /\ slot_line' \in Seq(Feeds)
  <2>1. f \in Slotted /\ Slotted \subseteq Feeds /\ toSlot \cap Slotted = {}
    BY <1>5 DEF Slotted
  <2>2. slots \in Nat /\ slots + Cardinality(Slotted) = MaxConcurrency
        /\ (slots > 0 => slot_line = <<>>)
    BY <1>1, Shape DEF SlotsKept, TypeOK, GateTypeOK
  <2>3. CASE slot_line = <<>>
    <3>1. Slotted' = Slotted \ {f} /\ InSlotLine' = InSlotLine /\ slots' = slots + 1
          /\ slot_line' = slot_line
      BY <1>1, <1>6, <2>3
    <3>2. Cardinality(Slotted') = Cardinality(Slotted) - 1 /\ Cardinality(Slotted) \in Nat
          /\ Cardinality(Slotted) # 0
      BY <2>1, <3>1, Counts
    <3>3. slots' + Cardinality(Slotted') = MaxConcurrency /\ slots' \in 0 .. MaxConcurrency
      BY <2>2, <3>1, <3>2, Shape
    <3> QED BY <1>3, <2>3, <3>1, <3>3 DEF SlotsKept, Lined
  <2>4. CASE slot_line # <<>>
    <3>1. Slotted' = (Slotted \ {f}) \cup {Head(slot_line)} /\ slots' = slots
          /\ InSlotLine' = InSlotLine \ {Head(slot_line)} /\ slot_line' = Tail(slot_line)
          /\ Head(slot_line) \notin Slotted
      BY <1>1, <1>6, <2>1, <2>4
    <3>2. Cardinality(Slotted') = Cardinality(Slotted)
      BY <2>1, <3>1, Handover
    <3>3. Lined(slot_line', InSlotLine')
      BY <1>3, <2>4, <3>1, LinedTail
    <3> QED BY <1>1, <2>2, <2>4, <3>1, <3>2, <3>3 DEF SlotsKept, Lined, TypeOK, GateTypeOK
  <2> QED BY <2>3, <2>4
<1>8. \A g \in Hosts : HostKept(g)' /\ permits'[g] \in 0 .. PerHost /\ line'[g] \in Seq(Feeds)
  <2> SUFFICES ASSUME NEW g \in Hosts
               PROVE  HostKept(g)' /\ permits'[g] \in 0 .. PerHost /\ line'[g] \in Seq(Feeds)
    OBVIOUS
  <2>1. HostKept(g) /\ permits \in [Hosts -> 0 .. PerHost] /\ line \in [Hosts -> Seq(Feeds)]
    BY <1>1 DEF IInv, TypeOK, GateTypeOK
  <2>2. CASE g # h
    <3>1. permits'[g] = permits[g] /\ line'[g] = line[g]
      BY <1>1, <1>2, <2>1, <2>2
    <3> QED BY <1>6, <2>1, <2>2, <3>1 DEF HostKept
  <2>3. CASE g = h
    <3>1. f \in Holding(h) /\ Holding(h) \subseteq Feeds /\ toHost \cap Holding(h) = {}
      BY <1>5 DEF Holding
    <3>2. permits[h] \in Nat /\ permits[h] + Cardinality(Holding(h)) = PerHost
          /\ (permits[h] > 0 => line[h] = <<>>)
      BY <2>1, <2>3, Shape DEF HostKept
    <3>3. CASE line[h] = <<>>
      <4>1. /\ Holding(h)' = Holding(h) \ {f} /\ InLine(h)' = InLine(h)
            /\ permits'[h] = permits[h] + 1 /\ line'[h] = line[h]
        BY <1>1, <1>2, <1>6, <2>1, <3>3
      <4>2. Cardinality(Holding(h)') = Cardinality(Holding(h)) - 1
              /\ Cardinality(Holding(h)) \in Nat
            /\ Cardinality(Holding(h)) # 0
        BY <3>1, <4>1, Counts
      <4>3. permits'[h] + Cardinality(Holding(h)') = PerHost /\ permits'[h] \in 0 .. PerHost
        BY <3>2, <4>1, <4>2, Shape
      <4> QED BY <1>1, <1>3, <2>1, <2>3, <3>3, <4>1, <4>3 DEF HostKept
    <3>4. CASE line[h] # <<>>
      <4>1. /\ Holding(h)' = (Holding(h) \ {f}) \cup {Head(line[h])}
            /\ InLine(h)' = InLine(h) \ {Head(line[h])}
            /\ permits'[h] = permits[h] /\ line'[h] = Tail(line[h])
            /\ Head(line[h]) \notin Holding(h)
        BY <1>1, <1>2, <1>6, <2>1, <3>1, <3>4
      <4>2. Cardinality(Holding(h)') = Cardinality(Holding(h))
        BY <3>1, <4>1, Handover
      <4>3. Lined(line'[h], InLine(h)')
        BY <1>3, <3>4, <4>1, LinedTail
      <4>4. permits'[h] + Cardinality(Holding(h)') = PerHost /\ permits'[h] \in 0 .. PerHost
        BY <2>1, <2>3, <3>2, <4>1, <4>2
      <4> QED BY <2>3, <3>2, <3>4, <4>1, <4>3, <4>4 DEF HostKept, Lined
    <3> QED BY <3>3, <3>4
  <2> QED BY <2>2, <2>3
<1>9. GateTypeOK'
  <2>1. permits' \in [Hosts -> 0 .. PerHost] /\ line' \in [Hosts -> Seq(Feeds)]
    <3>1. permits' = [g \in Hosts |-> permits'[g]] /\ line' = [g \in Hosts |-> line'[g]]
      BY <1>1, <1>2 DEF TypeOK, GateTypeOK
    <3> QED BY <1>8, <3>1
  <2>2. next_allowed' \in [Hosts -> 0 .. Delay]
    BY <1>1, <1>2, Shape DEF TypeOK, GateTypeOK
  <2> QED BY <1>1, <1>5, <1>7, <2>1, <2>2 DEF TypeOK, GateTypeOK
<1>10. \A g \in Feeds : Spaced(g)'
  <2> SUFFICES ASSUME NEW g \in Feeds, PerHost = 1 PROVE Spaced(g)'
    BY DEF Spaced
  <2>1. Spaced(g) /\ next_allowed \in [Hosts -> 0 .. Delay] /\ Host[g] \in Hosts
    BY <1>1, Shape DEF IInv, TypeOK, GateTypeOK
  <2>2. CASE Host[g] = h
    <3>1. g = f \/ ~Holds(phase[g])
      BY <1>1, <1>5, <2>2, Alone DEF IInv, Holds
    <3>2. phase'[g] \notin {"spacing", "in_slot_line", "admitted"}
      BY <1>5, <3>1 DEF Holds
    <3> QED BY <3>2 DEF Spaced, At
  <2>3. CASE Host[g] # h
    <3>1. next_allowed'[Host[g]] = next_allowed[Host[g]]
      BY <1>2, <2>1, <2>3
    <3>2. g # f /\ g \notin toHost
      BY <1>5, <2>3
    <3>3. \/ phase'[g] = phase[g]
          \/ phase[g] = "in_slot_line" /\ phase'[g] = "admitted"
      BY <1>5, <3>2
    <3> QED BY <1>1, <2>1, <3>1, <3>3 DEF Spaced, At
  <2> QED BY <2>2, <2>3
<1> QED BY <1>1, <1>7, <1>8, <1>9, <1>10, TaskStep

-----------------------------------------------------------------------------
(* The loops *)

\* The worker starts with every permit free and no task.
LEMMA InitInv == Init => IInv
<1> SUFFICES ASSUME Init PROVE IInv
  OBVIOUS
<1>1. GateTypeOK
  BY Shape, EmptySeq DEF Init, GateInit, GateTypeOK, Phases
<1>2. TypeOK
  <2>1. claim_loop = "ready" /\ sweep_loop = "asleep" /\ backlog = 0 /\ stop = FALSE
          /\ crashed = FALSE
        /\ exit_code = -1
    BY DEF Init
  <2>2. 0 \in 0 .. Backlog /\ -1 \in {-1, 0, 1}
    BY Shape
  <2> QED BY <1>1, <2>1, <2>2 DEF TypeOK
<1>3. /\ \A h \in Hosts : InLine(h) = {} /\ Holding(h) = {}
      /\ InSlotLine = {} /\ Slotted = {} /\ Running = {}
  BY DEF Init, GateInit, InLine, Holding, InSlotLine, Slotted, Running, At
<1>4. \A h \in Hosts : HostKept(h)
  <2>1. ASSUME NEW h \in Hosts PROVE HostKept(h)
    <3>1. permits[h] = PerHost /\ line[h] = <<>> /\ Cardinality({}) = 0
      BY FS_EmptySet DEF Init, GateInit
    <3>2. Lined(line[h], InLine(h))
      BY <1>3, <3>1, NothingLined
    <3>3. permits[h] + Cardinality(Holding(h)) = PerHost
      <4>1. Cardinality(Holding(h)) = 0
        BY <1>3, <3>1
      <4> QED BY <3>1, <4>1, Shape
    <3> QED BY <3>1, <3>2, <3>3 DEF HostKept
  <2> QED BY <2>1
<1>5. SlotsKept
  BY <1>3, Shape, NothingLined, FS_EmptySet DEF Init, GateInit, SlotsKept
<1>6. \A f \in Feeds : Spaced(f)
  BY DEF Init, GateInit, Spaced, At
<1> QED BY <1>2, <1>3, <1>4, <1>5, <1>6 DEF IInv, Batched

\* A new batch finds no task of the last one.
LEMMA PollStep == ASSUME IInv, Poll PROVE IInv'
<1>1. TypeOK /\ claim_loop = "ready" /\ Running = {}
      /\ UNCHANGED <<sleep, permits, line, next_allowed, slots, slot_line, next_prune,
                     sweep_loop, backlog, stop, crashed, exit_code>>
  BY DEF IInv, Poll, Batched
<1>2. CASE UNCHANGED phase /\ claim_loop' = "asleep"
  BY <1>1, <1>2
     DEF IInv, TypeOK, GateTypeOK, HostKept, SlotsKept, Spaced, Batched, InLine, Holding,
     InSlotLine, Slotted, Running, At
<1>3. ASSUME NEW fs \in SUBSET Feeds, claim_loop' = "busy",
             phase' = [f \in Feeds |-> IF f \in fs THEN "created" ELSE phase[f]]
      PROVE  IInv'
  <2>1. \A f \in Feeds : phase[f] = "idle" /\ phase'[f] \in {"idle", "created"}
    BY <1>1, <1>3 DEF Running, At
  <2>2. /\ \A h \in Hosts : /\ InLine(h) = {} /\ InLine(h)' = {}
                            /\ Holding(h) = {} /\ Holding(h)' = {}
        /\ InSlotLine = {} /\ InSlotLine' = {} /\ Slotted = {} /\ Slotted' = {}
    BY <2>1 DEF InLine, Holding, InSlotLine, Slotted, At
  <2>3. \A h \in Hosts : HostKept(h)'
    BY <1>1, <2>2 DEF IInv, HostKept
  <2>4. SlotsKept'
    BY <1>1, <2>2 DEF IInv, SlotsKept
  <2>5. \A f \in Feeds : Spaced(f)'
    BY <2>1 DEF Spaced, At
  <2>6. TypeOK'
    BY <1>1, <1>3 DEF TypeOK, GateTypeOK, Phases
  <2> QED BY <1>3, <2>3, <2>4, <2>5, <2>6 DEF IInv, Batched
<1> QED BY <1>2, <1>3 DEF Poll

\* The rest of the loops leaves the gate alone.
LEMMA LoopStep ==
  ASSUME IInv, BatchDone \/ PollAgain \/ ClaimLoopEnds \/ SweepLoop \/ Signal \/ Exit
  PROVE  IInv'
<1>1. TypeOK /\ UNCHANGED gate
  BY
     DEF IInv, BatchDone, PollAgain, ClaimLoopEnds, SweepLoop, Sweep, PurgeBatch, PurgeCut,
         PurgeTombstones,
         SweepLoopEnds, Signal, Exit
<1>2. TypeOK'
  <2>1. GateTypeOK'
    BY <1>1 DEF TypeOK, GateTypeOK, gate
  <2>2. 0 \in 0 .. Backlog /\ \A n \in 0 .. Backlog : n > 0 => n - 1 \in 0 .. Backlog
    BY Shape
  <2>3. CASE BatchDone \/ PollAgain \/ ClaimLoopEnds
    BY <1>1, <2>1, <2>3 DEF TypeOK, BatchDone, PollAgain, ClaimLoopEnds, Ended
  <2>4. CASE SweepLoop
    <3>1. CASE Sweep \/ PurgeTombstones
      BY <1>1, <2>1, <3>1 DEF TypeOK, Sweep, PurgeTombstones
    <3>2. CASE PurgeBatch \/ PurgeCut
      BY <1>1, <2>1, <2>2, <3>2 DEF TypeOK, PurgeBatch, PurgeCut
    <3>3. CASE SweepLoopEnds
      BY <1>1, <2>1, <2>2, <3>3 DEF TypeOK, SweepLoopEnds, Ended
    <3> QED BY <2>4, <3>1, <3>2, <3>3 DEF SweepLoop
  <2>5. CASE Signal \/ Exit
    BY <1>1, <2>1, <2>5 DEF TypeOK, Signal, Exit
  <2> QED BY <2>3, <2>4, <2>5
<1>3. Batched'
  BY <1>1
     DEF IInv, Batched, Running, At, gate, BatchDone, PollAgain, ClaimLoopEnds, SweepLoop, Sweep,
         PurgeBatch, PurgeCut, PurgeTombstones, SweepLoopEnds, Signal, Exit
<1>4. (\A h \in Hosts : HostKept(h)') /\ SlotsKept' /\ \A f \in Feeds : Spaced(f)'
  BY <1>1 DEF IInv, gate, HostKept, SlotsKept, Spaced, InLine, Holding, InSlotLine, Slotted, At
<1> QED BY <1>2, <1>3, <1>4 DEF IInv

\* Time passes for the sleepers and the hosts alike.
LEMMA TickStep == ASSUME IInv, Tick PROVE IInv'
<1>1. TypeOK /\ UNCHANGED <<phase, permits, line, slots, slot_line>> /\ UNCHANGED loops
      /\ sleep' = [f \in Feeds |-> Less(sleep[f])]
      /\ next_allowed' = [h \in Hosts |-> Less(next_allowed[h])]
      /\ next_prune' = Less(next_prune)
  BY DEF IInv, Tick, GateTick
<1>2. \A n \in Nat : \A m \in 0 .. n : Less(m) \in 0 .. n
  BY DEF Less
<1>3. GateTypeOK'
  BY <1>1, <1>2, Shape DEF TypeOK, GateTypeOK
<1>4. (\A h \in Hosts : HostKept(h)') /\ SlotsKept'
  BY <1>1 DEF IInv, HostKept, SlotsKept, InLine, Holding, InSlotLine, Slotted, At
<1>5. ASSUME NEW f \in Feeds PROVE Spaced(f)'
  <2>1. Spaced(f) /\ Host[f] \in Hosts /\ sleep[f] \in Nat /\ next_allowed[Host[f]] \in Nat
    BY <1>1, Shape DEF IInv, TypeOK, GateTypeOK
  <2>2. \A m, n \in Nat : m <= n => Less(m) <= Less(n)
    BY DEF Less
  <2> QED BY <1>1, <2>1, <2>2 DEF Spaced, At, Less
<1> QED BY <1>1, <1>3, <1>4, <1>5 DEF IInv, TypeOK, Batched, Running, At, loops

\* A step of nothing keeps the invariant.
LEMMA Stutter == ASSUME IInv, UNCHANGED vars PROVE IInv'
BY
   DEF vars, loops, IInv, TypeOK, GateTypeOK, HostKept, SlotsKept, Spaced, Batched, InLine,
       Holding,
   InSlotLine, Slotted, Running, At

\* Every step of the worker keeps the invariant.
LEMMA NextInv == ASSUME IInv, [Next]_vars PROVE IInv'
<1>1. ASSUME NEW f \in Feeds, Task(f) PROVE IInv'
  BY <1>1, EnterStep, ResumeStep, EndSleepStep, AdmitStep, FinishStep DEF Task, Step
<1>2. CASE ClaimLoop
  BY <1>2, PollStep, LoopStep DEF ClaimLoop
<1> QED BY <1>1, <1>2, LoopStep, TickStep, Stutter DEF Next

-----------------------------------------------------------------------------
(* Theorems *)

\* What every step of the worker keeps: the semaphores' permits and lines, the spacing, and
\* one batch at a time.
THEOREM Invariance == Spec => []IInv
BY InitInv, NextInv, PTL DEF Spec

\* Between its slot and its line every permit of the gate's semaphores and of global_sem is
\* accounted for, whoever finishes, queues or is forgotten.
THEOREM PermitsKept == Spec => []PermitsConserved
<1>1. ASSUME IInv PROVE PermitsConserved
  <2>1. TypeOK /\ SlotsKept /\ \A h \in Hosts : HostKept(h)
    BY <1>1 DEF IInv
  <2>2. \A h \in Hosts : {f \in Active(h) : ~At(f, "in_line")} = Holding(h)
    BY DEF Active, Running, Holding, At
  <2> QED BY <2>1, <2>2 DEF PermitsConserved, HostKept, SlotsKept, Slotted
<1> QED BY <1>1, Invariance, PTL

-----------------------------------------------------------------------------
(* The promise to servers *)

\* A fetch starts within the cap and the host's limit, with the spacing over.
LEMMA FetchStarts ==
  ASSUME IInv, IInv', NEW f \in Feeds, Moved(f, "fetching"), ~At(f, "fetching"),
         UNCHANGED next_allowed, PerHost = 1 => next_allowed[Host[f]] = 0
  PROVE  Promise!Start(f)
<1> DEFINE h == Host[f]
           on  == {g \in Fetching : Host[g] = h}
           on1 == {g \in Fetching' : Host[g] = h}
<1>1. TypeOK /\ TypeOK' /\ SlotsKept' /\ HostKept(h)' /\ h \in Hosts /\ "fetching" \in Phases
  BY Shape DEF IInv, Phases
<1>2. f \notin Fetching /\ Fetching' = Fetching \cup {f} /\ Fetching \subseteq Feeds
  BY <1>1, MovedPhase DEF Fetching, At
<1>3. on1 = on \cup {f} /\ f \notin on /\ on \subseteq Feeds
  BY <1>2
<1>4. Cardinality(Fetching) < MaxConcurrency
  <2>1. Fetching' \subseteq Slotted' /\ Slotted' \subseteq Feeds
    BY <1>1 DEF Fetching, Slotted, At
  <2>2. /\ Cardinality(Fetching') <= Cardinality(Slotted') /\ Cardinality(Slotted') \in Nat
        /\ Cardinality(Fetching') = Cardinality(Fetching) + 1 /\ Cardinality(Fetching) \in Nat
    BY <1>2, <2>1, Counts
  <2>3. slots' \in Nat /\ slots' + Cardinality(Slotted') = MaxConcurrency
    BY <1>1, Shape DEF SlotsKept, TypeOK, GateTypeOK
  <2> QED BY <2>2, <2>3, Shape
<1>5. Cardinality(on) < PerHost
  <2>1. on1 \subseteq Holding(h)' /\ Holding(h)' \subseteq Feeds
    BY <1>1 DEF Fetching, Holding, At
  <2>2. Cardinality(on1) = Cardinality(on) + 1 /\ Cardinality(on) \in Nat
    BY <1>3, Counts
  <2>3. Cardinality(on1) <= Cardinality(Holding(h)') /\ Cardinality(Holding(h)') \in Nat
    BY <2>1, Counts
  <2>4. permits'[h] \in Nat /\ permits'[h] + Cardinality(Holding(h)') = PerHost
    BY <1>1, Shape DEF HostKept, TypeOK, GateTypeOK
  <2> QED BY <2>2, <2>3, <2>4, Shape
<1>6. PerHost = 1 => [g \in Hosts |-> Delay - next_allowed[g]][h] = Delay
  BY <1>1, Shape
<1> HIDE DEF on, on1
<1>7. on = Promise!OnHost(h)
  BY DEF on, Promise!OnHost
<1> HIDE DEF h
<1>8. Promise!OnHost(h) = on /\ h = Host[f]
  BY <1>7 DEF h
<1>9. /\ Cardinality(Promise!OnHost(Host[f])) < PerHost
      /\ PerHost = 1 => [g \in Hosts |-> Delay - next_allowed[g]][Host[f]] = Delay
      /\ UNCHANGED [g \in Hosts |-> Delay - next_allowed[g]]
  BY <1>5, <1>6, <1>8
<1>10. /\ Promise!Cardinality(Promise!OnHost(Host[f])) = Cardinality(Promise!OnHost(Host[f]))
       /\ Promise!Cardinality(Fetching) = Cardinality(Fetching)
  BY DEF Promise!Cardinality, Cardinality
<1> QED BY <1>2, <1>4, <1>9, <1>10 DEF Promise!Start

\* The gate's other steps of a task, but for the end of its fetch, start none.
LEMMA NoFetch ==
  ASSUME TypeOK, NEW f \in Feeds, NEW p \in Phases \ {"fetching"}, Moved(f, p),
         ~At(f, "fetching"),
         UNCHANGED next_allowed
  PROVE  UNCHANGED Promise!vars
<1>1. Fetching' = Fetching
  BY MovedPhase DEF Fetching, At
<1> QED BY <1>1 DEF Promise!vars

\* The end of a fetch opens the pause of its host.
LEMMA FetchEnds ==
  ASSUME IInv, NEW f \in Feeds, Finish(f)
  PROVE  Promise!End(f)
<1>1. At(f, "fetching") /\ f \in Fetching /\ Host[f] \in Hosts
        /\ next_allowed \in [Hosts -> 0 .. Delay]
  BY Shape DEF Finish, Fetching, IInv, TypeOK, GateTypeOK
<1>2. Fetching' = Fetching \ {f}
  <2>1. \A g \in Feeds : g # f => (phase'[g] = "fetching" <=> phase[g] = "fetching")
    <3>a. Lined(line[Host[f]], InLine(Host[f])) /\ Lined(slot_line, InSlotLine)
      BY <1>1 DEF IInv, HostKept, SlotsKept
    <3>b. /\ line[Host[f]] # <<>> => Head(line[Host[f]]) \in InLine(Host[f])
          /\ slot_line # <<>> => Head(slot_line) \in InSlotLine
      BY <3>a, LinedTail
    <3>1. line[Host[f]] # <<>> => ~At(Head(line[Host[f]]), "fetching")
      BY <3>b DEF InLine, At
    <3>2. slot_line # <<>> => ~At(Head(slot_line), "fetching")
      BY <3>b DEF InSlotLine, At
    <3> QED BY <3>1, <3>2 DEF Finish, At
  <2>2. phase'[f] # "fetching"
    BY DEF Finish
  <2> QED BY <2>1, <2>2 DEF Fetching, At
<1>3. next_allowed' = [next_allowed EXCEPT ![Host[f]] = Delay]
  BY PruneInvisible
<1>4. [h \in Hosts |-> Delay - next_allowed'[h]]
        = [[h \in Hosts |-> Delay - next_allowed[h]] EXCEPT ![Host[f]] = 0]
  <2>1. \A h \in Hosts : Delay - next_allowed'[h]
                           = IF h = Host[f] THEN 0 ELSE Delay - next_allowed[h]
    BY <1>1, <1>3, Shape
  <2> QED BY <1>1, <2>1
<1> QED BY <1>1, <1>2, <1>4 DEF Promise!End

\* A step of a task starts a fetch, ends one, or shows a server nothing.
LEMMA TaskRefines ==
  ASSUME IInv, IInv', NEW f \in Feeds, Task(f)
  PROVE  [Promise!Next]_(Promise!vars)
<1>1. TypeOK /\ SlotsKept /\ Host[f] \in Hosts /\ next_allowed[Host[f]] \in Nat
        /\ sleep[f] \in Nat
  BY Shape, SMTT(30) DEF IInv, TypeOK, GateTypeOK
<1>2. CASE EnterGate(f) \/ Resume(f)
  <2>1. phase[f] \in {"created", "granted"} /\ ~At(f, "fetching") /\ UNCHANGED next_allowed
        /\ (PassGate(f) \/ Moved(f, "in_line"))
    BY <1>2 DEF EnterGate, Resume, At, Moved
  <2>2. \/ Moved(f, "fetching") /\ next_allowed[Host[f]] = 0
        \/ \E p \in {"in_slot_line", "spacing", "in_line"} : Moved(f, p)
    BY <1>1, <2>1, GatePassed
  <2>3. CASE Moved(f, "fetching") /\ next_allowed[Host[f]] = 0
    BY <2>1, <2>3, FetchStarts DEF Promise!Next
  <2>4. CASE \E p \in {"in_slot_line", "spacing", "in_line"} : Moved(f, p)
    <3>1. PICK p \in {"in_slot_line", "spacing", "in_line"} : Moved(f, p)
      BY <2>4
    <3>2. p \in Phases \ {"fetching"}
      BY DEF Phases
    <3> QED BY <1>1, <2>1, <3>1, <3>2, NoFetch
  <2> QED BY <2>2, <2>3, <2>4
<1>3. CASE EndSleep(f)
  <2>1. At(f, "spacing") /\ ~At(f, "fetching") /\ sleep[f] = 0 /\ UNCHANGED next_allowed
          /\ AcquireSlot(f)
    BY <1>3 DEF EndSleep, At
  <2>2. Moved(f, "fetching") \/ Moved(f, "in_slot_line")
    BY <1>1, <2>1, SlotAcquired DEF At
  <2>3. PerHost = 1 => next_allowed[Host[f]] = 0
    BY <1>1, <2>1 DEF IInv, Spaced
  <2> QED BY <1>1, <2>1, <2>2, <2>3, FetchStarts, NoFetch DEF Promise!Next, Phases
<1>4. CASE Admit(f)
  <2>1. At(f, "admitted") /\ ~At(f, "fetching") /\ UNCHANGED next_allowed /\ Moved(f, "fetching")
    BY <1>4 DEF Admit, At, Moved
  <2>2. PerHost = 1 => next_allowed[Host[f]] = 0
    BY <2>1 DEF IInv, Spaced, At
  <2> QED BY <2>1, <2>2, FetchStarts DEF Promise!Next
<1>5. CASE Finish(f)
  BY <1>5, FetchEnds DEF Promise!Next
<1> QED BY <1>2, <1>3, <1>4, <1>5 DEF Task, Step

\* Time passes in the promise as it does in the gate.
LEMMA TickRefines == ASSUME IInv, Tick PROVE Promise!Pass
<1>1. next_allowed \in [Hosts -> 0 .. Delay] /\ UNCHANGED phase
      /\ next_allowed' = [h \in Hosts |-> Less(next_allowed[h])]
  BY DEF IInv, TypeOK, GateTypeOK, Tick, GateTick
<1>2. Fetching' = Fetching
  BY <1>1 DEF Fetching, At
<1>3. \A h \in Hosts : Delay - next_allowed'[h] = IF Delay - next_allowed[h] < Delay
                                                  THEN Delay - next_allowed[h] + 1 ELSE Delay
  BY <1>1, Shape DEF Less
<1> QED BY <1>2, <1>3 DEF Promise!Pass

\* What the loops do is nothing a server sees.
LEMMA LoopsRefine ==
  ASSUME IInv, ClaimLoop \/ SweepLoop \/ Signal \/ Exit \/ UNCHANGED vars
  PROVE  UNCHANGED Promise!vars
<1>1. CASE Poll
  <2>1. /\ Running = {} /\ UNCHANGED next_allowed
        /\ \A f \in Feeds : phase'[f] \in {phase[f], "created"}
    BY <1>1 DEF IInv, Batched, Poll
  <2>2. Fetching = {} /\ Fetching' = {}
    BY <2>1 DEF Fetching, Running, At
  <2> QED BY <2>1, <2>2 DEF Promise!vars
<1>2. CASE UNCHANGED gate
  <2>1. UNCHANGED <<phase, next_allowed>>
    BY <1>2 DEF gate
  <2>2. Fetching' = Fetching
    BY <2>1 DEF Fetching, At
  <2> QED BY <2>1, <2>2 DEF Promise!vars
<1>3. Poll \/ UNCHANGED gate
  BY
     DEF gate, vars, ClaimLoop, BatchDone, PollAgain, ClaimLoopEnds, SweepLoop, Sweep,
       PurgeBatch,
         PurgeCut,
         PurgeTombstones, SweepLoopEnds, Signal, Exit
<1> QED BY <1>1, <1>2, <1>3

\* The gate and the cap keep the promise to servers: never more than worker_max_concurrency
\* fetches at once, never more than worker_per_host_concurrency on one host and, when that is
\* one, worker_per_host_delay_s between them.
THEOREM GateKeepsPromise == Spec => PolitenessSpec
<1>1. Init => Promise!Init
  <2> SUFFICES ASSUME Init PROVE Promise!Init
    OBVIOUS
  <2>1. Fetching = {}
    BY DEF Init, GateInit, Fetching, At
  <2>2. [h \in Hosts |-> Delay - next_allowed[h]] = [h \in Hosts |-> Delay]
    BY Shape DEF Init, GateInit
  <2> QED BY <2>1, <2>2 DEF Promise!Init
<1>2. IInv /\ IInv' /\ [Next]_vars => [Promise!Next]_(Promise!vars)
  <2> SUFFICES ASSUME IInv, IInv', [Next]_vars PROVE [Promise!Next]_(Promise!vars)
    OBVIOUS
  <2>1. CASE Tick
    BY <2>1, TickRefines DEF Promise!Next
  <2>2. CASE \E f \in Feeds : Task(f)
    BY <2>2, TaskRefines
  <2>3. CASE ClaimLoop \/ SweepLoop \/ Signal \/ Exit \/ UNCHANGED vars
    BY <2>3, LoopsRefine
  <2> QED BY <2>1, <2>2, <2>3 DEF Next
<1> QED BY <1>1, <1>2, Invariance, PTL DEF Spec, PolitenessSpec, Promise!Spec
=============================================================================
