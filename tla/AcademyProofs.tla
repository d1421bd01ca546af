---------------------------- MODULE AcademyProofs ----------------------------
(***************************************************************************)
(* Proofs about the academy, for any agents, instructors, programs and     *)
(* prices: slots are not oversold, drills stay together, instructors teach *)
(* courses that are under way, and training makes no money.                *)
(***************************************************************************)
EXTENDS Academy, FiniteSetTheorems, WellFoundedInduction, TLAPS

IInv == TypeOK /\ SlotsBound /\ DrillsStayTogether /\ InstructorsTeach

-----------------------------------------------------------------------------

\* A share of an amount is an amount.
LEMMA ShareIsNatural ==
    ASSUME NEW x \in Nat, NEW y \in Nat, NEW z \in Nat \ {0}
    PROVE  (x * y) \div z \in Nat
<1>1. x * y \in Nat
    OBVIOUS
<1>2. \A n \in Nat : n \div z \in Nat
    OBVIOUS
<1>. QED BY <1>1, <1>2

\* The cost of a course is an amount.
LEMMA CostIsNatural ==
    ASSUME NEW fee \in Nat, NEW n \in Nat
    PROVE  ScaledCost(fee, n) \in Nat
<1>1. CASE n <= 2
    BY <1>1 DEF ScaledCost
<1>2. CASE n > 2
    <2>1. PICK k \in Nat : k = n - 2
        BY <1>2
    <2>2. fee * k \in Nat
        OBVIOUS
    <2>3. \A m \in Nat : fee + (m + 2) \div 4 \in Nat
        OBVIOUS
    <2>. QED BY <1>2, <2>1, <2>2, <2>3 DEF ScaledCost
<1>. QED BY <1>1, <1>2

LEMMA TraineesFinite ==
    ASSUME TypeOK
    PROVE  IsFiniteSet(Trainees) /\ Cardinality(Trainees) \in Nat
<1>1. Trainees \in SUBSET Agents
    BY DEF Trainees
<1>2. IsFiniteSet(Trainees)
    BY <1>1, AcademyAssumption, FS_Subset
<1>. QED BY <1>2, FS_CardinalityType

-----------------------------------------------------------------------------

\* Agents who enter a course of their own together keep the invariant, if there
\* is a slot for each of them.
LEMMA EnrollStep ==
    ASSUME IInv,
           NEW P \in SUBSET Agents, P # {}, P \cap Trainees = {},
           Cardinality(P) <= FreeSlots,
           NEW program \in Program, NEW cost \in Nat,
           Enroll(P, program, cost)
    PROVE  IInv'
<1>. DEFINE e == [members |-> P, cost |-> cost, weeks |-> program.weeks,
                  remaining |-> program.weeks]
<1>1. e \in Entry /\ e # NoCourse
    BY AcademyAssumption DEF Entry, Program
<1>2. queue' = [a \in Agents |-> IF a \in P THEN e ELSE queue[a]]
    BY DEF Enroll
<1>3. Trainees' = Trainees \cup P
    BY <1>1, <1>2 DEF Trainees
<1>. HIDE DEF e
<1>4. TypeOK'
    BY <1>1, <1>2 DEF IInv, TypeOK, Enroll
<1>5. SlotsBound'
    <2>1. IsFiniteSet(P) /\ Cardinality(P) \in Nat
        BY AcademyAssumption, FS_Subset, FS_CardinalityType
    <2>2. IsFiniteSet(Trainees) /\ Cardinality(Trainees) \in Nat
        BY TraineesFinite DEF IInv
    <2>3. Cardinality(Trainees \cap P) = 0
        BY FS_EmptySet
    <2>4. Cardinality(Trainees \cup P) = Cardinality(Trainees) + Cardinality(P)
        BY <2>1, <2>2, <2>3, FS_Union
    <2>. QED
        BY <1>3, <2>1, <2>2, <2>4, AcademyAssumption
        DEF SlotsBound, FreeSlots, Enroll, IInv, TypeOK
<1>6. DrillsStayTogether'
    <2>1. \A a \in P : queue'[a] = e
        BY <1>2
    <2>2. \A a \in Trainees : queue'[a] = queue[a] /\ a \in Agents
        BY <1>2 DEF Trainees
    <2>3. e.members = P
        BY DEF e
    <2>4. \A a \in Trainees : queue[a].members \subseteq Trainees
        BY AcademyAssumption DEF Trainees, IInv, TypeOK, DrillsStayTogether, Entry
    <2>. QED
        BY <1>3, <2>1, <2>2, <2>3, <2>4 DEF DrillsStayTogether, IInv
<1>7. InstructorsTeach'
    BY <1>3 DEF InstructorsTeach, IInv, Enroll
<1>. QED BY <1>4, <1>5, <1>6, <1>7 DEF IInv

\* Agents who leave with everyone in their drills, while the others keep their
\* entries up to the weeks that are left, keep the invariant.
LEMMA LeaveStep ==
    ASSUME IInv,
           NEW C \in SUBSET Trainees,
           \A a \in C : queue[a].members \subseteq C,
           \A a \in Trainees \ C : queue[a].members \cap C = {},
           NEW later \in [Trainees \ C -> Entry],
           \A a \in Trainees \ C : later[a].members = queue[a].members,
           \A a, b \in Trainees \ C : queue[a] = queue[b] => later[a] = later[b],
           queue' = [a \in Agents |-> IF a \in Trainees \ C THEN later[a] ELSE NoCourse],
           teaches' = Released(C),
           funding' \in Nat, academyTier' = academyTier
    PROVE  IInv'
<1>1. Trainees' = Trainees \ C
    BY AcademyAssumption DEF Trainees
<1>2. TypeOK'
    BY DEF IInv, TypeOK, Released, Trainees
<1>3. SlotsBound'
    <2>1. IsFiniteSet(Trainees) /\ Cardinality(Trainees) \in Nat
        BY TraineesFinite DEF IInv
    <2>2. Cardinality(Trainees \ C) <= Cardinality(Trainees)
          /\ Cardinality(Trainees \ C) \in Nat
        BY <2>1, FS_Subset, FS_CardinalityType
    <2>. QED
        BY <1>1, <2>1, <2>2, AcademyAssumption DEF SlotsBound, IInv, TypeOK
<1>4. DrillsStayTogether'
    <2>1. \A a \in Trainees \ C : queue[a].members \subseteq Trainees \ C
        BY AcademyAssumption DEF Trainees, IInv, TypeOK, DrillsStayTogether, Entry
    <2>2. \A a \in Trainees \ C : queue'[a] = later[a]
        BY DEF Trainees
    <2>. QED
        BY <1>1, <2>1, <2>2 DEF DrillsStayTogether, IInv
<1>5. InstructorsTeach'
    BY <1>1, AcademyAssumption DEF InstructorsTeach, Released, IInv, TypeOK, Trainees
<1>. QED BY <1>2, <1>3, <1>4, <1>5 DEF IInv

-----------------------------------------------------------------------------

LEMMA Initially == Init => IInv
<1>. SUFFICES ASSUME Init PROVE IInv
    OBVIOUS
<1>1. Trainees = {}
    BY DEF Init, Trainees
<1>2. TypeOK
    BY AcademyAssumption DEF Init, TypeOK
<1>3. SlotsBound
    BY <1>1, FS_EmptySet, AcademyAssumption DEF SlotsBound, Init
<1>4. DrillsStayTogether /\ InstructorsTeach
    BY <1>1 DEF Init, DrillsStayTogether, InstructorsTeach
<1>. QED BY <1>2, <1>3, <1>4 DEF IInv

LEMMA CancelStep ==
    ASSUME IInv, NEW a \in Agents, CancelTraining(a)
    PROVE  IInv'
<1>1. a \in Trainees /\ queue[a] \in Entry
    BY DEF CancelTraining, Trainees, IInv, TypeOK
<1>2. funding' \in Nat
    <2>1. Refund(queue[a]) \in Nat
        BY <1>1, ShareIsNatural DEF Refund, Entry
    <2>. QED BY <2>1 DEF CancelTraining, RefundOnce, IInv, TypeOK
<1>. DEFINE C == queue[a].members
<1>3. C \in SUBSET Trainees
    BY <1>1, AcademyAssumption DEF IInv, DrillsStayTogether, Trainees, Entry
<1>4. \A b \in C : queue[b] = queue[a]
    BY <1>1 DEF IInv, DrillsStayTogether
<1>5. \A b \in Trainees : queue[b].members \cap C # {} => b \in C
    <2>1. \A b \in Trainees : \A d \in queue[b].members : queue[d] = queue[b]
        BY DEF IInv, DrillsStayTogether
    <2>2. \A b \in Trainees : b \in queue[b].members
        BY DEF IInv, DrillsStayTogether
    <2>. QED BY <1>4, <2>1, <2>2
<1>. DEFINE later == [b \in Trainees \ C |-> queue[b]]
<1>6. later \in [Trainees \ C -> Entry]
    BY DEF Trainees, IInv, TypeOK
<1>7. queue' = [b \in Agents |-> IF b \in Trainees \ C THEN later[b] ELSE NoCourse]
    BY DEF CancelTraining, Cancelled, Trainees
<1>8. /\ \A b \in C : queue[b].members \subseteq C
      /\ \A b \in Trainees \ C : queue[b].members \cap C = {}
      /\ \A b \in Trainees \ C : later[b].members = queue[b].members
      /\ \A b, d \in Trainees \ C : queue[b] = queue[d] => later[b] = later[d]
    BY <1>4, <1>5
<1>9. teaches' = Released(C) /\ academyTier' = academyTier
    BY DEF CancelTraining, Cancelled
<1>. HIDE DEF C, later
<1>. QED BY <1>2, <1>3, <1>6, <1>7, <1>8, <1>9, LeaveStep

LEMMA AdvanceStep ==
    ASSUME IInv, AdvanceTrainingQueues
    PROVE  IInv'
<1>1. \A a \in Trainees : queue[a] \in Entry /\ a \in Agents
    BY DEF Trainees, IInv, TypeOK
<1>2. Completed \in SUBSET Trainees
    BY DEF Completed
<1>3. \A a \in Trainees : \A b \in queue[a].members :
        queue[b] = queue[a] /\ b \in Trainees
    BY <1>1, AcademyAssumption DEF IInv, DrillsStayTogether, Trainees, Entry
<1>4. /\ \A a \in Completed : queue[a].members \subseteq Completed
      /\ \A a \in Trainees \ Completed : queue[a].members \cap Completed = {}
    BY <1>3 DEF Completed
<1>. DEFINE later == [a \in Trainees \ Completed |-> [queue[a] EXCEPT !.remaining = @ - 1]]
<1>5. \A a \in Trainees \ Completed : queue[a].remaining - 1 \in Nat \ {0}
    BY <1>1 DEF Completed, Entry
<1>6. later \in [Trainees \ Completed -> Entry]
    BY <1>1, <1>5 DEF Entry
<1>7. /\ \A a \in Trainees \ Completed : later[a].members = queue[a].members
      /\ \A a, b \in Trainees \ Completed : queue[a] = queue[b] => later[a] = later[b]
    BY <1>1 DEF Entry
<1>8. queue' = [a \in Agents |-> IF a \in Trainees \ Completed THEN later[a] ELSE NoCourse]
    BY <1>2 DEF AdvanceTrainingQueues
<1>9. teaches' = Released(Completed) /\ funding' \in Nat /\ academyTier' = academyTier
    BY DEF AdvanceTrainingQueues, IInv, TypeOK
<1>. HIDE DEF later
<1>. QED BY <1>2, <1>4, <1>6, <1>7, <1>8, <1>9, LeaveStep

LEMMA StaffStep ==
    ASSUME IInv, UNCHANGED queue, funding' \in Nat,
           academyTier' \in 0..MaxTier, academyTier' >= academyTier,
           teaches' \in [Instructors -> Agents \cup {NoAgent}], InstructorsTeach'
    PROVE  IInv'
<1>1. Trainees' = Trainees
    BY DEF Trainees
<1>2. TypeOK' /\ DrillsStayTogether'
    BY <1>1 DEF IInv, TypeOK, DrillsStayTogether
<1>3. SlotsBound'
    <2>1. Cardinality(Trainees) \in Nat
        BY TraineesFinite DEF IInv
    <2>. QED BY <1>1, <2>1, AcademyAssumption DEF IInv, TypeOK, SlotsBound
<1>. QED BY <1>2, <1>3 DEF IInv

LEMMA Inductive == IInv /\ [Next]_vars => IInv'
<1>. SUFFICES ASSUME IInv, [Next]_vars PROVE IInv'
    OBVIOUS
<1>1. ASSUME NEW a \in Agents, NEW p \in SoloPrograms, QueueTraining(a, p) PROVE IInv'
    <2>1. Cardinality({a}) = 1
        BY FS_Singleton
    <2>2. FreeSlots \in Int
        BY TraineesFinite, AcademyAssumption DEF IInv, TypeOK, FreeSlots
    <2>3. Cardinality({a}) <= FreeSlots
        BY <1>1, <2>1, <2>2 DEF QueueTraining
    <2>4. p \in Program /\ p.fee \in Nat
        BY AcademyAssumption DEF Program
    <2>. QED BY <1>1, <2>3, <2>4, EnrollStep DEF QueueTraining
<1>2. ASSUME NEW P \in SUBSET Agents, NEW p \in DrillPrograms, QueueTeamTraining(P, p)
      PROVE  IInv'
    <2>1. IsFiniteSet(P) /\ Cardinality(P) \in Nat
        BY AcademyAssumption, FS_Subset, FS_CardinalityType
    <2>2. P # {}
        BY <1>2, <2>1, FS_EmptySet DEF QueueTeamTraining
    <2>3. p \in Program /\ p.fee \in Nat
        BY AcademyAssumption DEF Program
    <2>4. ScaledCost(p.fee, Cardinality(P)) \in Nat
        BY <2>1, <2>3, CostIsNatural
    <2>. QED BY <1>2, <2>2, <2>3, <2>4, EnrollStep DEF QueueTeamTraining, HasRoom
<1>3. ASSUME NEW a \in Agents, CancelTraining(a) PROVE IInv'
    BY <1>3, CancelStep
<1>4. ASSUME NEW i \in Instructors, NEW a \in Agents, AssignInstructor(i, a) PROVE IInv'
    <2>1. InstructorsTeach'
        BY <1>4 DEF AssignInstructor, InstructorsTeach, IInv, TypeOK, Trainees
    <2>. QED BY <1>4, <2>1, StaffStep DEF AssignInstructor, IInv, TypeOK
<1>5. ASSUME NEW i \in Instructors, UnassignInstructor(i) PROVE IInv'
    <2>1. InstructorsTeach'
        BY <1>5 DEF UnassignInstructor, InstructorsTeach, IInv, TypeOK, Trainees
    <2>. QED BY <1>5, <2>1, StaffStep DEF UnassignInstructor, IInv, TypeOK
<1>6. CASE UpgradeAcademy
    <2>1. InstructorsTeach'
        BY <1>6 DEF UpgradeAcademy, InstructorsTeach, IInv, Trainees
    <2>. QED
        BY <1>6, <2>1, StaffStep, AcademyAssumption DEF UpgradeAcademy, IInv, TypeOK
<1>7. CASE AdvanceTrainingQueues
    BY <1>7, AdvanceStep
<1>8. CASE Elsewhere
    <2>1. InstructorsTeach'
        BY <1>8 DEF Elsewhere, InstructorsTeach, IInv, Trainees
    <2>. QED BY <1>8, <2>1, StaffStep, AcademyAssumption DEF Elsewhere, IInv, TypeOK
<1>9. CASE UNCHANGED vars
    BY <1>9 DEF vars, IInv, TypeOK, SlotsBound, DrillsStayTogether, InstructorsTeach, Trainees
<1>. QED BY <1>1, <1>2, <1>3, <1>4, <1>5, <1>6, <1>7, <1>8, <1>9 DEF Next

-----------------------------------------------------------------------------

\* The academy never trains more agents than it has slots, however many a drill
\* takes at once.
THEOREM SlotsHold == Spec => []SlotsBound
<1>1. IInv => SlotsBound
    BY DEF IInv
<1>. QED BY Initially, Inductive, <1>1, PTL DEF Spec

\* The members of a drill enter, stay and leave together, so that cancelling any
\* of them gives the same refund.
THEOREM DrillsHold == Spec => []DrillsStayTogether
<1>1. IInv => DrillsStayTogether
    BY DEF IInv
<1>. QED BY Initially, Inductive, <1>1, PTL DEF Spec

\* Instructors are released with their trainees and never shared or doubled.
THEOREM InstructorsHold == Spec => []InstructorsTeach
<1>1. IInv => InstructorsTeach
    BY DEF IInv
<1>. QED BY Initially, Inductive, <1>1, PTL DEF Spec

-----------------------------------------------------------------------------
(* Sums over finite sets of courses *)

\* What a set of courses would give back.
Sum(T) == MapThenSumSet(Refund, T)

\* The element a sum adds last.
Pick(T) == CHOOSE x \in T : TRUE

\* g gives the sums of the subsets of T.
Sums(T, g) ==
    g = [s \in SUBSET T |-> IF s = {} THEN 0 ELSE Refund(Pick(s)) + g[s \ {Pick(s)}]]

\* Of a set of subsets of a finite set, one contains no other.
LEMMA Smallest ==
    ASSUME NEW S, IsFiniteSet(S), NEW B \in SUBSET SUBSET S, B # {}
    PROVE  \E T \in B : IsFiniteSet(T) /\ \A U \in SUBSET T : U # T => U \notin B
<1>1. IsWellFoundedOn(StrictSubsetOrdering(S), SUBSET S)
  BY FS_StrictSubsetOrderingWellFounded, FS_FiniteSubsetsOfFinite
<1>2. PICK T \in B : \A U \in B : ~(<<U, T>> \in StrictSubsetOrdering(S))
  BY <1>1, WFMin
<1>3. ASSUME NEW U \in SUBSET T, U # T PROVE U \notin B
  BY <1>2, <1>3 DEF StrictSubsetOrdering
<1>4. IsFiniteSet(T)
  BY FS_Subset
<1> QED BY <1>3, <1>4

\* The sums of subsets are determined.
LEMMA SumsAgree ==
    ASSUME NEW T, NEW U, NEW g, NEW h, Sums(T, g), Sums(U, h),
           NEW W \in SUBSET (T \cap U), IsFiniteSet(W)
    PROVE  g[W] = h[W]
<1> DEFINE B == {V \in SUBSET W : g[V] # h[V]}
<1> SUFFICES ASSUME B # {} PROVE FALSE
  OBVIOUS
<1>1. B \in SUBSET SUBSET W
  OBVIOUS
<1>2. PICK V \in B : \A X \in SUBSET V : X # V => X \notin B
  <2> HIDE DEF B
  <2> QED BY <1>1, Smallest
<1>3. V \in SUBSET T /\ V \in SUBSET U /\ V \in SUBSET W /\ g[V] # h[V]
  OBVIOUS
<1>4. /\ g[V] = (IF V = {} THEN 0 ELSE Refund(Pick(V)) + g[V \ {Pick(V)}])
      /\ h[V] = (IF V = {} THEN 0 ELSE Refund(Pick(V)) + h[V \ {Pick(V)}])
  BY <1>3 DEF Sums
<1>5. V # {}
  BY <1>3, <1>4
<1>6. Pick(V) \in V
  BY <1>5 DEF Pick
<1>7. g[V \ {Pick(V)}] = h[V \ {Pick(V)}]
  BY <1>2, <1>3, <1>6
<1> QED BY <1>3, <1>4, <1>7

\* A finite set has sums of its subsets.
LEMMA SumsExist ==
    ASSUME NEW S, IsFiniteSet(S)
    PROVE  \E g : Sums(S, g)
<1> DEFINE B == {T \in SUBSET S : ~ \E g : Sums(T, g)}
<1> SUFFICES ASSUME B # {} PROVE FALSE
  OBVIOUS
<1>1. B \in SUBSET SUBSET S
  OBVIOUS
<1>2. PICK T \in B : IsFiniteSet(T) /\ \A U \in SUBSET T : U # T => U \notin B
  <2> HIDE DEF B
  <2> QED BY <1>1, Smallest
<1> DEFINE h(U) == CHOOSE g : Sums(U, g)
           value(U) == IF U = {} THEN 0 ELSE Refund(Pick(U)) + h(U \ {Pick(U)})[U \ {Pick(U)}]
           f == [U \in SUBSET T |-> value(U)]
<1>3. \A U \in SUBSET T : U # T => Sums(U, h(U))
  BY <1>2
<1>4. \A U \in SUBSET T : U # {} => Pick(U) \in U
  BY DEF Pick
<1>5. ASSUME NEW U \in SUBSET T, U # T PROVE h(U)[U] = value(U)
  <2>1. Sums(U, h(U))
    BY <1>3, <1>5
  <2>2. h(U)[U] = (IF U = {} THEN 0 ELSE Refund(Pick(U)) + h(U)[U \ {Pick(U)}])
    <3> HIDE DEF h
    <3> QED BY <2>1 DEF Sums
  <2>3. CASE U # {}
    <3> DEFINE W == U \ {Pick(U)}
    <3>1. W \in SUBSET T /\ W # T /\ W \subseteq U
      BY <1>4, <1>5, <2>3
    <3>2. Sums(W, h(W))
      BY <1>3, <3>1
    <3>3. IsFiniteSet(W)
      BY <1>2, <3>1, FS_Subset
    <3>4. h(U)[W] = h(W)[W]
      <4> HIDE DEF h, W
      <4> QED BY <2>1, <3>1, <3>2, <3>3, SumsAgree
    <3> QED BY <2>2, <2>3, <3>4
  <2>4. CASE U = {}
    BY <2>2, <2>4
  <2> QED BY <2>3, <2>4
<1>6. ASSUME NEW U \in SUBSET T
      PROVE  value(U) = IF U = {} THEN 0 ELSE Refund(Pick(U)) + f[U \ {Pick(U)}]
  <2>1. CASE U # {}
    <3>1. U \ {Pick(U)} \in SUBSET T /\ U \ {Pick(U)} # T
      BY <1>4, <2>1
    <3> HIDE DEF h
    <3>2. f[U \ {Pick(U)}] = h(U \ {Pick(U)})[U \ {Pick(U)}]
      BY <1>5, <3>1
    <3> QED BY <2>1, <3>2
  <2>2. CASE U = {}
    BY <2>2
  <2> QED BY <2>1, <2>2
<1>7. f = [U \in SUBSET T |-> IF U = {} THEN 0 ELSE Refund(Pick(U)) + f[U \ {Pick(U)}]]
  <2> HIDE DEF value
  <2>1. \A U \in SUBSET T : f[U] = value(U)
    OBVIOUS
  <2> QED BY <1>6
<1>8. Sums(T, f)
  <2> HIDE DEF f
  <2> QED BY <1>7 DEF Sums
<1>9. \E g : Sums(T, g)
  BY <1>8
<1> QED BY <1>9

\* The sum adds one element after the other.
LEMMA SumStep ==
    ASSUME NEW T, IsFiniteSet(T)
    PROVE  Sum(T) = IF T = {} THEN 0 ELSE Refund(Pick(T)) + Sum(T \ {Pick(T)})
<1> DEFINE g(U) == CHOOSE h : Sums(U, h)
           W == T \ {Pick(T)}
<1>1. \A U : Sum(U) = g(U)[U]
  BY DEF Sum, Sums, Pick, MapThenSumSet, MapThenFoldSet
<1>2. \A U \in SUBSET T : Sums(U, g(U))
  <2>1. \A U \in SUBSET T : \E h : Sums(U, h)
    BY FS_Subset, SumsExist
  <2> QED BY <2>1
<1> HIDE DEF g
<1>3. Sums(T, g(T)) /\ Sums(W, g(W)) /\ IsFiniteSet(W) /\ W \in SUBSET T
  BY <1>2, FS_Subset
<1>4. g(T)[T] = IF T = {} THEN 0 ELSE Refund(Pick(T)) + g(T)[W]
  <2>1. \A k : Sums(T, k) => k[T] = IF T = {} THEN 0 ELSE Refund(Pick(T)) + k[T \ {Pick(T)}]
    BY DEF Sums
  <2> QED BY <1>3, <2>1
<1>5. g(T)[W] = g(W)[W]
  <2> HIDE DEF W
  <2> QED BY <1>3, SumsAgree
<1> QED BY <1>1, <1>4, <1>5

\* What is left of an amount after shares of it is less than a part.
LEMMA ShareAndRest ==
    ASSUME NEW n \in Nat, NEW z \in Nat \ {0}
    PROVE  /\ n \div z \in Nat
           /\ z * (n \div z) <= n /\ n < z * (n \div z) + z
<1>1. \A m \in Nat : m \div z \in Nat
  OBVIOUS
<1>2. z \in Int /\ z > 0 /\ n \in Int
  OBVIOUS
<1>3. ASSUME NEW w \in Int, w > 0, NEW m \in Int
      PROVE  w * (m \div w) <= m /\ m < w * (m \div w) + w
  BY <1>3
<1> QED BY <1>1, <1>2, <1>3

\* Parts that are fewer by one or more are smaller by a part or more.
LEMMA FewerParts ==
    ASSUME NEW p \in Nat, NEW q \in Nat, q < p, NEW z \in Nat
    PROVE  z * q \in Nat /\ z * p \in Nat /\ z * q + z <= z * p
<1>1. PICK k \in Nat : p = q + 1 + k
  <2>1. p - q - 1 \in Nat /\ p = q + 1 + (p - q - 1)
    OBVIOUS
  <2> QED BY <2>1
<1>2. z * p = z * q + z + z * k /\ z * k \in Nat /\ z * q \in Nat
  BY <1>1
<1> QED BY <1>2

\* A larger amount has no smaller share.
LEMMA ShareGrows ==
    ASSUME NEW x \in Nat, NEW y \in Nat, x <= y, NEW z \in Nat \ {0}
    PROVE  x \div z <= y \div z
<1> DEFINE p == x \div z
           q == y \div z
<1>1. /\ p \in Nat /\ q \in Nat /\ z * p <= x /\ y < z * q + z
  BY ShareAndRest
<1> HIDE DEF p, q
<1>2. ASSUME q < p PROVE FALSE
  <2>1. z * q \in Nat /\ z * p \in Nat /\ z * q + z <= z * p
    BY <1>1, <1>2, FewerParts
  <2>2. \A a, b \in Nat : ~(b <= x /\ y < a + z /\ a + z <= b)
    OBVIOUS
  <2> QED BY <1>1, <2>1, <2>2
<1> QED BY <1>1, <1>2 DEF p, q

\* A multiple has an exact share.
LEMMA ShareOfAll ==
    ASSUME NEW x \in Nat, NEW z \in Nat \ {0}
    PROVE  (x * z) \div z = x
<1> DEFINE n == z * x
           q == n \div z
<1>0. n \in Nat /\ x * z = n
  OBVIOUS
<1>1. q \in Nat /\ z * q <= n /\ n < z * q + z
  <2> HIDE DEF n
  <2> QED BY <1>0, ShareAndRest
<1> HIDE DEF q
<1>2. ~(x < q)
  <2> SUFFICES ASSUME x < q PROVE FALSE
    OBVIOUS
  <2>1. z * q \in Nat /\ z * x + z <= z * q
    BY <1>1, FewerParts
  <2> HIDE DEF n
  <2>2. z * q <= n /\ n + z <= z * q
    BY <1>1, <2>1 DEF n
  <2>3. \A a \in Nat : ~(a <= n /\ n + z <= a)
    BY <1>0
  <2> QED BY <2>1, <2>2, <2>3
<1>3. ~(q < x)
  <2> SUFFICES ASSUME q < x PROVE FALSE
    OBVIOUS
  <2>1. z * q \in Nat /\ z * q + z <= n
    BY <1>1, FewerParts
  <2> HIDE DEF n
  <2>2. \A a \in Nat : ~(n < a + z /\ a + z <= n)
    BY <1>0
  <2> QED BY <1>1, <2>1, <2>2
<1> QED BY <1>0, <1>1, <1>2, <1>3 DEF q

\* What a course gives back: all of its cost at first, and never more later.
LEMMA Refunds ==
    ASSUME NEW e \in Entry
    PROVE  /\ Refund(e) \in Nat
           /\ e.remaining = e.weeks => Refund(e) = e.cost
           /\ \A d \in Entry : d.cost = e.cost /\ d.weeks = e.weeks /\ d.remaining <= e.remaining
                                => Refund(d) <= Refund(e)
<1>1. e.cost \in Nat /\ e.weeks \in Nat \ {0} /\ e.remaining \in Nat
  BY DEF Entry
<1>2. Refund(e) \in Nat
  BY <1>1, ShareIsNatural DEF Refund
<1>3. e.remaining = e.weeks => Refund(e) = e.cost
  BY <1>1, ShareOfAll DEF Refund
<1>4. ASSUME NEW d \in Entry, d.cost = e.cost, d.weeks = e.weeks, d.remaining <= e.remaining
      PROVE  Refund(d) <= Refund(e)
  <2>1. d.remaining \in Nat
    BY DEF Entry
  <2>2. e.cost * d.remaining \in Nat /\ e.cost * e.remaining \in Nat
    BY <1>1, <2>1
  <2>3. e.cost * d.remaining <= e.cost * e.remaining
    <3>1. PICK k \in Nat : e.remaining = d.remaining + k
      <4>1. e.remaining - d.remaining \in Nat /\ e.remaining = d.remaining + (e.remaining - d.remaining)
        BY <1>1, <1>4, <2>1
      <4> QED BY <4>1
    <3>2. \A a, b, c \in Nat : a * (b + c) = a * b + a * c /\ a * b \in Nat /\ a * c \in Nat
      OBVIOUS
    <3>3. e.cost * e.remaining = e.cost * d.remaining + e.cost * k /\ e.cost * k \in Nat
      BY <1>1, <2>1, <3>1, <3>2
    <3> QED BY <2>2, <3>3
  <2> QED BY <1>1, <1>4, <2>2, <2>3, ShareGrows DEF Refund
<1> QED BY <1>2, <1>3, <1>4

\* The sum of what courses give back.
LEMMA SumType ==
    ASSUME NEW T \in SUBSET Entry, IsFiniteSet(T)
    PROVE  Sum(T) \in Nat
<1> DEFINE B == {U \in SUBSET T : Sum(U) \notin Nat}
<1> SUFFICES ASSUME B # {} PROVE FALSE
  OBVIOUS
<1>1. B \in SUBSET SUBSET T
  OBVIOUS
<1>2. PICK U \in B : IsFiniteSet(U) /\ \A X \in SUBSET U : X # U => X \notin B
  <2> HIDE DEF B
  <2> QED BY <1>1, Smallest
<1>3. Sum(U) = IF U = {} THEN 0 ELSE Refund(Pick(U)) + Sum(U \ {Pick(U)})
  BY <1>2, SumStep
<1>4. U # {} => Pick(U) \in U
  BY DEF Pick
<1>5. CASE U # {}
  <2>1. Sum(U \ {Pick(U)}) \in Nat
    BY <1>2, <1>4, <1>5
  <2>2. Refund(Pick(U)) \in Nat
    BY <1>4, <1>5, Refunds
  <2> QED BY <1>3, <1>5, <2>1, <2>2
<1> QED BY <1>3, <1>5

\* Any element may be added last.
LEMMA SumTakesOut ==
    ASSUME NEW T \in SUBSET Entry, IsFiniteSet(T), NEW e \in T
    PROVE  Sum(T) = Refund(e) + Sum(T \ {e})
<1> DEFINE B == {U \in SUBSET T : \E x \in U : Sum(U) # Refund(x) + Sum(U \ {x})}
<1> SUFFICES ASSUME B # {} PROVE FALSE
  OBVIOUS
<1>1. B \in SUBSET SUBSET T
  OBVIOUS
<1>2. PICK U \in B : IsFiniteSet(U) /\ \A X \in SUBSET U : X # U => X \notin B
  <2> HIDE DEF B
  <2> QED BY <1>1, Smallest
<1>3. PICK x \in U : Sum(U) # Refund(x) + Sum(U \ {x})
  OBVIOUS
<1> DEFINE y == Pick(U)
<1>4. y \in U /\ Sum(U) = Refund(y) + Sum(U \ {y})
  BY <1>2, SumStep DEF Pick
<1>5. x # y
  BY <1>3, <1>4
<1> HIDE DEF y
<1>6. /\ Sum(U \ {y}) = Refund(x) + Sum((U \ {y}) \ {x})
      /\ Sum(U \ {x}) = Refund(y) + Sum((U \ {x}) \ {y})
  BY <1>2, <1>4, <1>5
<1>7. (U \ {y}) \ {x} = (U \ {x}) \ {y}
  OBVIOUS
<1>8. Refund(x) \in Nat /\ Refund(y) \in Nat /\ Sum((U \ {x}) \ {y}) \in Nat
  <2>1. (U \ {x}) \ {y} \in SUBSET Entry /\ IsFiniteSet((U \ {x}) \ {y})
    BY <1>2, FS_Subset
  <2> QED BY <1>4, <2>1, SumType, Refunds
<1>9. \A a, b, c \in Nat : a + (b + c) = b + (a + c)
  OBVIOUS
<1>10. Sum(U) = Refund(x) + (Refund(y) + Sum((U \ {x}) \ {y}))
  BY <1>4, <1>6, <1>7, <1>8, <1>9
<1> HIDE DEF B
<1> QED BY <1>3, <1>6, <1>10

\* The entry of a course a week later.
Later(e) == [e EXCEPT !.remaining = @ - 1]
Ongoing(T) == {e \in T : e.remaining # 1}

\* A week later courses give back no more, all together.
LEMMA SumOfLater ==
    ASSUME NEW T \in SUBSET Entry, IsFiniteSet(T)
    PROVE  Sum({Later(e) : e \in Ongoing(T)}) <= Sum(T)
<1> DEFINE Image(U) == {Later(e) : e \in Ongoing(U)}
           B == {U \in SUBSET T : ~(Sum(Image(U)) <= Sum(U))}
<1> SUFFICES ASSUME B # {} PROVE FALSE
  OBVIOUS
<1>1. B \in SUBSET SUBSET T
  OBVIOUS
<1>2. PICK U \in B : IsFiniteSet(U) /\ \A X \in SUBSET U : X # U => X \notin B
  <2> HIDE DEF B
  <2> QED BY <1>1, Smallest
<1>3. ~(Sum(Image(U)) <= Sum(U)) /\ U \in SUBSET Entry
  OBVIOUS
<1>4. \A e \in Entry : e.remaining # 1 =>
         /\ Later(e) \in Entry
         /\ \A d \in Entry : Later(d) = Later(e) => d = e
         /\ Refund(Later(e)) \in Nat /\ Refund(Later(e)) <= Refund(e)
  <2> SUFFICES ASSUME NEW e \in Entry, e.remaining # 1
               PROVE  /\ Later(e) \in Entry
                      /\ \A d \in Entry : Later(d) = Later(e) => d = e
                      /\ Refund(Later(e)) \in Nat /\ Refund(Later(e)) <= Refund(e)
    OBVIOUS
  <2>1. e.remaining \in Nat \ {0} /\ e.remaining - 1 \in Nat \ {0} /\ e.remaining - 1 <= e.remaining
    BY DEF Entry
  <2>2. /\ Later(e) \in Entry /\ Later(e).cost = e.cost /\ Later(e).weeks = e.weeks
        /\ Later(e).remaining = e.remaining - 1
    BY <2>1 DEF Later, Entry
  <2>3. ASSUME NEW d \in Entry, Later(d) = Later(e) PROVE d = e
    <3>1. d.remaining \in Nat /\ e.remaining \in Nat
      BY DEF Entry
    <3>2. /\ Later(d).remaining = d.remaining - 1 /\ Later(d).members = d.members
          /\ Later(d).cost = d.cost /\ Later(d).weeks = d.weeks
          /\ Later(e).remaining = e.remaining - 1 /\ Later(e).members = e.members
          /\ Later(e).cost = e.cost /\ Later(e).weeks = e.weeks
      BY DEF Later, Entry
    <3>3. d.remaining = e.remaining /\ d.members = e.members /\ d.cost = e.cost /\ d.weeks = e.weeks
      BY <2>3, <3>1, <3>2
    <3> QED BY <3>3 DEF Entry
  <2> QED BY <2>1, <2>2, <2>3, Refunds
<1>5. U # {}
  <2> SUFFICES ASSUME U = {} PROVE FALSE
    OBVIOUS
  <2>1. Image(U) = {}
    BY DEF Ongoing
  <2>2. Sum({}) = 0
    BY FS_EmptySet, SumStep
  <2> QED BY <1>3, <2>1, <2>2
<1>6. PICK x \in U : TRUE
  BY <1>5
<1> DEFINE W == U \ {x}
<1>7. /\ W \in SUBSET U /\ W # U /\ IsFiniteSet(W) /\ x \in Entry
  BY <1>2, <1>3, FS_Subset
<1>8. Sum(U) = Refund(x) + Sum(W)
  BY <1>2, <1>3, SumTakesOut
<1>9. Sum(Image(W)) <= Sum(W)
  BY <1>2, <1>7
<1>10. Image(W) \in SUBSET Entry /\ IsFiniteSet(Image(W))
  <2>1. Image(W) \in SUBSET Entry
    BY <1>3, <1>4 DEF Ongoing
  <2>2. IsFiniteSet(Ongoing(W))
    BY <1>7, FS_Subset DEF Ongoing
  <2>3. [e \in Ongoing(W) |-> Later(e)] \in Surjection(Ongoing(W), Image(W))
    BY DEF Surjection
  <2> HIDE DEF Image, W, B
  <2> QED BY <2>1, <2>2, <2>3, FS_Surjection
<1>11. Sum(W) \in Nat /\ Refund(x) \in Nat /\ Sum(Image(W)) \in Nat
  BY <1>3, <1>7, <1>10, SumType, Refunds
<1>12. CASE x.remaining = 1
  <2>1. Image(U) = Image(W)
    BY <1>12 DEF Ongoing
  <2> HIDE DEF Image, W
  <2> QED BY <1>3, <1>8, <1>9, <1>11, <2>1
<1>13. CASE x.remaining # 1
  <2>1. Image(U) = Image(W) \cup {Later(x)}
    BY <1>13 DEF Ongoing
  <2>2. Later(x) \notin Image(W)
    BY <1>3, <1>4, <1>7, <1>13 DEF Ongoing
  <2>3. Later(x) \in Entry /\ Refund(Later(x)) \in Nat /\ Refund(Later(x)) <= Refund(x)
    BY <1>4, <1>7, <1>13
  <2> HIDE DEF Image, W
  <2>4. Image(U) \in SUBSET Entry /\ IsFiniteSet(Image(U)) /\ Image(U) \ {Later(x)} = Image(W)
    BY <1>10, <2>1, <2>2, <2>3, FS_AddElement
  <2>5. Sum(Image(U)) = Refund(Later(x)) + Sum(Image(W))
    <3>1. Later(x) \in Image(U)
      BY <2>1
    <3> QED BY <2>4, <3>1, SumTakesOut
  <2> QED BY <1>3, <1>8, <1>9, <1>11, <2>3, <2>5
<1> QED BY <1>12, <1>13

-----------------------------------------------------------------------------
(* What the agency has, and what its courses would give back *)

\* The courses in a queue are finitely many and give back an amount.
LEMMA CoursesOfQueue ==
    ASSUME NEW q \in [Agents -> Entry \cup {NoCourse}]
    PROVE  LET trainees == {a \in Agents : q[a] # NoCourse}
               courses == {q[a] : a \in trainees}
           IN  courses \in SUBSET Entry /\ IsFiniteSet(courses) /\ Sum(courses) \in Nat
<1> DEFINE trainees == {a \in Agents : q[a] # NoCourse}
           courses == {q[a] : a \in trainees}
<1>1. courses \in SUBSET Entry
  OBVIOUS
<1>2. IsFiniteSet(courses)
  <2>1. [a \in trainees |-> q[a]] \in Surjection(trainees, courses)
    BY DEF Surjection
  <2>2. IsFiniteSet(trainees)
    BY AcademyAssumption, FS_Subset
  <2> HIDE DEF trainees, courses
  <2> QED BY <2>1, <2>2, FS_Surjection
<1> HIDE DEF courses
<1>3. Sum(courses) \in Nat
  BY <1>1, <1>2, SumType
<1> QED BY <1>1, <1>2, <1>3 DEF courses

\* What the agency has and would get, now and after a step.
LEMMA WorthIs ==
    ASSUME IInv, IInv'
    PROVE  /\ Courses \in SUBSET Entry /\ IsFiniteSet(Courses) /\ Sum(Courses) \in Nat
           /\ Worth = funding + Sum(Courses) /\ funding \in Nat
           /\ Courses' \in SUBSET Entry /\ IsFiniteSet(Courses') /\ Sum(Courses') \in Nat
           /\ Worth' = funding' + Sum(Courses') /\ funding' \in Nat
<1>1. /\ queue \in [Agents -> Entry \cup {NoCourse}] /\ queue' \in [Agents -> Entry \cup {NoCourse}]
      /\ funding \in Nat /\ funding' \in Nat
  BY DEF IInv, TypeOK
<1>2. Courses \in SUBSET Entry /\ IsFiniteSet(Courses) /\ Sum(Courses) \in Nat
  BY <1>1, CoursesOfQueue DEF Courses, Trainees
<1>3. Courses' \in SUBSET Entry /\ IsFiniteSet(Courses') /\ Sum(Courses') \in Nat
  BY <1>1, CoursesOfQueue DEF Courses, Trainees
<1> QED BY <1>1, <1>2, <1>3 DEF Worth, Sum

\* A course is worth its cost when it is bought.
LEMMA EnrollWorth ==
    ASSUME IInv, IInv', NEW P \in SUBSET Agents, P # {}, P \cap Trainees = {},
           NEW program \in Program, NEW cost \in Nat, Enroll(P, program, cost)
    PROVE  Worth' = Worth
<1> DEFINE e == [members |-> P, cost |-> cost, weeks |-> program.weeks,
                 remaining |-> program.weeks]
<1>1. e \in Entry /\ e # NoCourse /\ Refund(e) = cost /\ e.members = P
  <2>1. e \in Entry /\ e # NoCourse
    BY AcademyAssumption DEF Entry, Program
  <2>2. e.remaining = e.weeks /\ e.cost = cost
    OBVIOUS
  <2> QED BY <2>1, <2>2, Refunds
<1>2. queue' = [a \in Agents |-> IF a \in P THEN e ELSE queue[a]] /\ funding' = funding - cost
  BY DEF Enroll
<1> HIDE DEF e
<1>3. Trainees' = Trainees \cup P
  BY <1>1, <1>2 DEF Trainees
<1>4. Courses' = Courses \cup {e}
  <2>1. \A a \in Trainees : queue'[a] = queue[a]
    BY <1>2 DEF Trainees
  <2>2. \A a \in P : queue'[a] = e
    BY <1>2
  <2>3. Courses' = {queue'[a] : a \in Trainees \cup P}
    BY <1>3 DEF Courses
  <2> QED BY <2>1, <2>2, <2>3 DEF Courses
<1>5. e \notin Courses
  BY <1>1 DEF Courses, IInv, DrillsStayTogether
<1>6. /\ Courses' \in SUBSET Entry /\ IsFiniteSet(Courses') /\ Sum(Courses') \in Nat
      /\ Worth' = funding' + Sum(Courses')
  BY WorthIs
<1>7. Sum(Courses') = cost + Sum(Courses)
  <2>1. e \in Courses' /\ Courses' \ {e} = Courses
    BY <1>4, <1>5
  <2> QED BY <1>1, <1>6, <2>1, SumTakesOut
<1>8. Sum(Courses) \in Nat /\ Worth = funding + Sum(Courses) /\ funding \in Nat
  BY WorthIs
<1> QED BY <1>2, <1>6, <1>7, <1>8

\* Cancelling a course takes it out of the queue and gives back its worth.
LEMMA CancelWorth ==
    ASSUME IInv, IInv', NEW a \in Agents, CancelTraining(a)
    PROVE  Worth' = Worth
<1>1. a \in Trainees /\ queue[a] \in Courses
  BY DEF CancelTraining, Courses
<1>2. \A b \in Trainees : b \in queue[a].members <=> queue[b] = queue[a]
  BY <1>1 DEF IInv, DrillsStayTogether
<1>3. /\ funding' = funding + Refund(queue[a])
      /\ queue' = [b \in Agents |-> IF b \in queue[a].members THEN NoCourse ELSE queue[b]]
  BY DEF CancelTraining, RefundOnce, Cancelled
<1>4. /\ \A b \in Trainees : b \in Trainees' <=> queue[b] # queue[a]
      /\ \A b \in Trainees' : b \in Trainees /\ queue'[b] = queue[b]
  BY <1>2, <1>3 DEF Trainees
<1>5. Courses' = Courses \ {queue[a]}
  <2>1. Courses' = {queue'[b] : b \in Trainees'}
    BY DEF Courses
  <2> QED BY <1>4, <2>1 DEF Courses
<1>6. /\ Courses \in SUBSET Entry /\ IsFiniteSet(Courses) /\ Sum(Courses) \in Nat
      /\ Worth = funding + Sum(Courses) /\ funding \in Nat
  BY WorthIs
<1>7. Sum(Courses') \in Nat /\ Worth' = funding' + Sum(Courses')
  BY WorthIs
<1>8. Sum(Courses) = Refund(queue[a]) + Sum(Courses') /\ Refund(queue[a]) \in Nat
  BY <1>1, <1>5, <1>6, SumTakesOut, Refunds
<1> QED BY <1>3, <1>6, <1>7, <1>8

\* A week makes courses worth less, or ends them.
LEMMA AdvanceWorth ==
    ASSUME IInv, IInv', AdvanceTrainingQueues
    PROVE  Worth' <= Worth
<1>1. \A a \in Trainees : queue[a] \in Entry /\ a \in Agents /\ queue[a] # NoCourse
  BY DEF Trainees, IInv, TypeOK
<1>2. queue' = [a \in Agents |-> IF a \in Trainees \ Completed THEN Later(queue[a]) ELSE NoCourse]
  BY DEF AdvanceTrainingQueues, Completed, Later
<1>3. \A a \in Trainees \ Completed : Later(queue[a]) \in Entry
  BY <1>1 DEF Completed, Entry, Later
<1>4. Trainees' = Trainees \ Completed /\ \A a \in Trainees' : queue'[a] = Later(queue[a])
  BY <1>1, <1>2, <1>3, AcademyAssumption DEF Trainees
<1>5. Courses' = {Later(e) : e \in Ongoing(Courses)}
  <2>1. Courses' = {Later(queue[a]) : a \in Trainees \ Completed}
    BY <1>4 DEF Courses
  <2>2. \A a \in Trainees : a \notin Completed <=> queue[a] \in Ongoing(Courses)
    BY DEF Completed, Ongoing, Courses
  <2>3. \A e \in Ongoing(Courses) : \E a \in Trainees : e = queue[a]
    BY DEF Ongoing, Courses
  <2> QED BY <2>1, <2>2, <2>3
<1>6. /\ Courses \in SUBSET Entry /\ IsFiniteSet(Courses) /\ Sum(Courses) \in Nat
      /\ Worth = funding + Sum(Courses) /\ funding \in Nat
  BY WorthIs
<1>7. Sum(Courses') \in Nat /\ Worth' = funding' + Sum(Courses')
  BY WorthIs
<1>8. Sum(Courses') <= Sum(Courses)
  BY <1>5, <1>6, SumOfLater
<1>9. funding' = funding
  BY DEF AdvanceTrainingQueues
<1> QED BY <1>6, <1>7, <1>8, <1>9

LEMMA WorthKept ==
    ASSUME IInv, IInv', Next
    PROVE  Elsewhere \/ Worth' <= Worth
<1>0. Worth \in Nat /\ funding \in Nat
  BY WorthIs
<1>1. ASSUME NEW a \in Agents, NEW p \in SoloPrograms, QueueTraining(a, p) PROVE Worth' <= Worth
  <2>1. p \in Program /\ p.fee \in Nat
    BY AcademyAssumption DEF Program
  <2>2. {a} \cap Trainees = {} /\ Enroll({a}, p, p.fee)
    BY <1>1 DEF QueueTraining
  <2>3. Worth' = Worth
    BY <2>1, <2>2, EnrollWorth
  <2> QED BY <1>0, <2>3
<1>2. ASSUME NEW P \in SUBSET Agents, NEW p \in DrillPrograms, QueueTeamTraining(P, p)
      PROVE  Worth' <= Worth
  <2>1. IsFiniteSet(P) /\ Cardinality(P) \in Nat
    BY AcademyAssumption, FS_Subset, FS_CardinalityType
  <2>2. P # {}
    BY <1>2, <2>1, FS_EmptySet DEF QueueTeamTraining
  <2>3. p \in Program /\ p.fee \in Nat
    BY AcademyAssumption DEF Program
  <2>4. ScaledCost(p.fee, Cardinality(P)) \in Nat
    BY <2>1, <2>3, CostIsNatural
  <2>5. Worth' = Worth
    BY <1>2, <2>2, <2>3, <2>4, EnrollWorth DEF QueueTeamTraining
  <2> QED BY <1>0, <2>5
<1>3. ASSUME NEW a \in Agents, CancelTraining(a) PROVE Worth' <= Worth
  <2>1. Worth' = Worth
    BY <1>3, CancelWorth
  <2> QED BY <1>0, <2>1
<1>4. ASSUME UNCHANGED queue, funding' <= funding PROVE Worth' <= Worth
  <2>1. Courses' = Courses
    BY <1>4 DEF Courses, Trainees
  <2>2. /\ Worth = funding + Sum(Courses) /\ Worth' = funding' + Sum(Courses)
        /\ Sum(Courses) \in Nat /\ funding' \in Nat
    <3>1. Worth' = funding' + Sum(Courses')
      BY WorthIs
    <3>2. funding' \in Nat
      BY DEF IInv, TypeOK
    <3> QED BY <2>1, <3>1, <3>2, WorthIs
  <2> QED BY <1>0, <1>4, <2>2
<1>5. ASSUME NEW i \in Instructors, UnassignInstructor(i) \/ \E a \in Agents : AssignInstructor(i, a)
      PROVE  Worth' <= Worth
  BY <1>0, <1>4, <1>5 DEF UnassignInstructor, AssignInstructor
<1>6. CASE UpgradeAcademy
  <2>1. UpgradeCost[academyTier] \in Nat
    BY <1>6, AcademyAssumption DEF IInv, TypeOK
  <2>2. UNCHANGED queue /\ funding' <= funding
    BY <1>0, <1>6, <2>1 DEF UpgradeAcademy
  <2> QED BY <1>4, <2>2
<1>7. CASE AdvanceTrainingQueues
  BY <1>7, AdvanceWorth
<1> QED BY <1>1, <1>2, <1>3, <1>5, <1>6, <1>7 DEF Next

\* No sequence of courses bought, cancelled, bought again or let run leaves the
\* agency with more money than it would have had by cancelling at once.
THEOREM TrainingMakesNoMoney == Spec => NoMoneyFromTraining
<1>1. IInv /\ IInv' /\ [Next]_vars => [Elsewhere \/ Worth' <= Worth]_vars
  BY WorthKept
<1> QED BY Initially, Inductive, <1>1, PTL DEF Spec, NoMoneyFromTraining
=============================================================================
