------------------------- MODULE LegacyOrderProofs -------------------------
(* What build_install_order returns, for every set of plans and every      *)
(* dependency graph over them.                                             *)
EXTENDS LegacyOrder, SequenceTheorems, FiniteSetTheorems, TLAPS

Frame == [index : Plans, dep : Nat \ {0}]

\* Exactly the plans marked as done are in the order.
OrderIsDone ==
    /\ \A k \in DOMAIN order : state[order[k]] = 2
    /\ \A p \in Plans : state[p] = 2 => \E k \in DOMAIN order : order[k] = p

NoPlanTwice == \A j, k \in DOMAIN order : order[j] = order[k] => j = k

\* Active calls are for different plans, all marked as being visited.
ActiveOnce ==
    /\ \A f \in DOMAIN stack : state[stack[f].index] = 1
    /\ \A f, g \in DOMAIN stack : stack[f].index = stack[g].index => f = g

\* An active call has only gone past dependencies that are done.
PassedAreDone ==
    \A f \in DOMAIN stack :
        LET p == stack[f].index IN
        \A d \in DOMAIN deps[p] :
            d < stack[f].dep /\ deps[p][d] # 0 => state[deps[p][d]] = 2

\* The loop has only gone past plans that are done.
LoopPassed ==
    /\ \A p \in Plans : p < i => state[p] = 2
    /\ rc = "ok" => i = count + 1

IInv ==
    /\ TypeOK
    /\ OrderIsDone
    /\ NoPlanTwice
    /\ ActiveOnce
    /\ PassedAreDone
    /\ LoopPassed
    /\ DependencyFirst

LEMMA AppendFacts ==
    ASSUME NEW S, NEW s \in Seq(S), NEW e \in S
    PROVE  /\ Append(s, e) \in Seq(S)
           /\ Len(Append(s, e)) = Len(s) + 1
           /\ DOMAIN Append(s, e) = 1..(Len(s) + 1)
           /\ \A j \in 1..Len(s) : Append(s, e)[j] = s[j]
           /\ Append(s, e)[Len(s) + 1] = e
OBVIOUS

LEMMA FrontFacts ==
    ASSUME NEW S, NEW s \in Seq(S), s # <<>>
    PROVE  LET t == SubSeq(s, 1, Len(s) - 1) IN
           /\ t \in Seq(S)
           /\ Len(t) = Len(s) - 1
           /\ DOMAIN t = 1..(Len(s) - 1)
           /\ \A j \in 1..(Len(s) - 1) : t[j] = s[j]
           /\ Len(s) \in DOMAIN s
           /\ s[Len(s)] \in S
<1>1. Len(s) \in Nat /\ Len(s) # 0 /\ DOMAIN s = 1..Len(s)
  BY EmptySeq, LenProperties
<1>2. 1 \in 1..(Len(s) + 1) /\ Len(s) - 1 \in (1 - 1)..Len(s)
  BY <1>1
<1> QED
  BY <1>1, <1>2, SubSeqProperties, ElementOfSeq

\* An entry of a dependency list that names a plan.
LEMMA EntryFacts ==
    ASSUME NEW s \in Seq(0..count), NEW d \in DOMAIN s, s[d] # 0
    PROVE  d \in Nat \ {0} /\ s[d] \in Plans
<1>1. d \in 1..Len(s) /\ Len(s) \in Nat
  BY LenProperties
<1>2. s[d] \in 0..count
  BY <1>1, ElementOfSeq, Zenon
<1> QED
  BY <1>1, <1>2, OrderAssumption DEF Plans

LEMMA InitInv == Init => IInv
BY OrderAssumption
DEF Init, IInv, TypeOK, OrderIsDone, NoPlanTwice, ActiveOnce, PassedAreDone,
    LoopPassed, DependencyFirst, Plans

\* A call for an unseen plan.
LEMMA EnterInv ==
    ASSUME IInv, NEW p \in Plans, Enter(p)
    PROVE  IInv'
<1> DEFINE e == [index |-> p, dep |-> 1]
<1>1. e \in Frame /\ stack \in Seq(Frame)
  BY DEF IInv, TypeOK, Frame
<1>2. /\ stack' \in Seq(Frame)
      /\ DOMAIN stack = 1..Len(stack) /\ Len(stack) \in Nat
      /\ DOMAIN stack' = 1..(Len(stack) + 1)
      /\ \A j \in 1..Len(stack) : stack'[j] = stack[j]
      /\ stack'[Len(stack) + 1] = e
  BY <1>1, AppendFacts DEF Enter
<1>3. /\ state' \in [Plans -> 0..2] /\ state'[p] = 1
      /\ \A q \in Plans : q # p => state'[q] = state[q]
      /\ \A q \in Plans : state[q] = 2 <=> state'[q] = 2
      /\ \A q \in Plans : state[q] = 1 => state'[q] = 1
      /\ state[p] = 0
  BY DEF IInv, TypeOK, Enter
<1>4. TypeOK'
  BY <1>2, <1>3 DEF IInv, TypeOK, Enter, Frame
<1>5. \A k \in DOMAIN order : order[k] \in Plans
  BY DEF IInv, TypeOK
<1>6. OrderIsDone' /\ NoPlanTwice' /\ LoopPassed' /\ DependencyFirst'
  BY <1>3, <1>5
  DEF IInv, Enter, OrderIsDone, NoPlanTwice, LoopPassed, DependencyFirst
<1>7. \A f \in 1..Len(stack) : stack[f].index \in Plans /\ stack[f].index # p
  <2>1. \A f \in 1..Len(stack) : stack[f] \in Frame
    BY <1>1
  <2> QED
    BY <1>2, <1>3, <2>1 DEF IInv, ActiveOnce, Frame
<1>8. ActiveOnce'
  BY <1>2, <1>3, <1>7, SMTT(30) DEF IInv, ActiveOnce
<1>9. PassedAreDone'
  <2> SUFFICES ASSUME NEW f \in DOMAIN stack',
                      NEW d \in DOMAIN deps[stack'[f].index],
                      d < stack'[f].dep, deps[stack'[f].index][d] # 0
               PROVE  state'[deps[stack'[f].index][d]] = 2
    BY DEF PassedAreDone, Enter
  <2>1. stack'[f].index \in Plans
    <3>1. stack'[f] \in Frame
      BY <1>2
    <3> QED
      BY <3>1 DEF Frame
  <2>2. d \in Nat \ {0} /\ deps[stack'[f].index][d] \in Plans
    <3>1. deps[stack'[f].index] \in Seq(0..count)
      BY <2>1 DEF IInv, TypeOK
    <3> QED
      BY <3>1, EntryFacts
  <2>3. f # Len(stack) + 1
    BY <1>2, <2>2
  <2>4. f \in 1..Len(stack) /\ stack'[f] = stack[f]
    BY <1>2, <2>3
  <2> QED
    BY <1>2, <1>3, <2>2, <2>4 DEF IInv, PassedAreDone
<1> QED
  BY <1>4, <1>6, <1>8, <1>9 DEF IInv

\* The innermost call and the calls below it.
LEMMA TopFacts ==
    ASSUME TypeOK, stack # <<>>
    PROVE  /\ stack \in Seq(Frame) /\ Len(stack) \in Nat \ {0}
           /\ DOMAIN stack = 1..Len(stack)
           /\ \A f \in DOMAIN stack : stack[f] \in Frame
           /\ Top \in Frame /\ Top.index \in Plans /\ Top.dep \in Nat \ {0}
           /\ Below \in Seq(Frame)
           /\ Len(Below) = Len(stack) - 1
           /\ DOMAIN Below = 1..(Len(stack) - 1)
           /\ \A f \in DOMAIN Below : Below[f] = stack[f]
<1>1. stack \in Seq(Frame)
  BY DEF TypeOK, Frame
<1>2. Len(stack) \in Nat \ {0} /\ DOMAIN stack = 1..Len(stack)
  BY <1>1, EmptySeq, LenProperties
<1>3. \A f \in DOMAIN stack : stack[f] \in Frame
  BY <1>1
<1>4. Top \in Frame
  BY <1>2, <1>3 DEF Top
<1>5. Top.index \in Plans /\ Top.dep \in Nat \ {0}
  BY <1>4 DEF Frame
<1> QED
  BY <1>1, <1>2, <1>3, <1>4, <1>5, FrontFacts DEF Below

LEMMA SkipDependencyInv ==
    ASSUME IInv, SkipDependency
    PROVE  IInv'
<1> DEFINE e == [Top EXCEPT !.dep = @ + 1]
           n == Len(stack)
<1>0. TypeOK /\ stack # <<>>
  BY DEF IInv, SkipDependency, Looking
<1>1. e \in Frame /\ e.index = Top.index /\ e.dep = Top.dep + 1
  BY <1>0, TopFacts, SMTT(30) DEF Frame
<1>2. /\ stack' \in Seq(Frame)
      /\ DOMAIN stack' = 1..n /\ DOMAIN stack = 1..n /\ n \in Nat \ {0}
      /\ \A j \in 1..(n - 1) : stack'[j] = stack[j]
      /\ stack'[n] = e
      /\ stack[n] = Top
  <2>1. stack' = Append(Below, e)
    BY DEF SkipDependency
  <2>2. (n - 1) + 1 = n
    BY <1>0, TopFacts
  <2>3. Len(Below) + 1 = n /\ DOMAIN Below = 1..(n - 1) /\ Len(Below) = n - 1
    BY <2>2, <1>0, TopFacts, Zenon
  <2>4. Below \in Seq(Frame) /\ e \in Frame
    BY <1>0, <1>1, TopFacts
  <2> HIDE DEF e, n
  <2>5. /\ stack' \in Seq(Frame)
        /\ DOMAIN stack' = 1..(Len(Below) + 1)
        /\ \A j \in 1..Len(Below) : stack'[j] = Below[j]
        /\ stack'[Len(Below) + 1] = e
    BY <2>1, <2>4, AppendFacts
  <2>6. n \in Nat \ {0} /\ DOMAIN stack = 1..n /\ stack[n] = Top
    BY <1>0, TopFacts DEF Top, n
  <2>7. \A j \in 1..(n - 1) : Below[j] = stack[j]
    BY <2>3, <1>0, TopFacts
  <2> QED
    BY <2>3, <2>5, <2>6, <2>7
<1> HIDE DEF e, n
<1>3. TypeOK'
  BY <1>2 DEF IInv, TypeOK, SkipDependency, Frame
<1>4. OrderIsDone' /\ NoPlanTwice' /\ LoopPassed' /\ DependencyFirst'
  BY DEF IInv, SkipDependency, OrderIsDone, NoPlanTwice, LoopPassed, DependencyFirst
<1>5. \A f \in 1..n : stack'[f].index = stack[f].index
  <2> TAKE f \in 1..n
  <2>1. CASE f = n
    BY <2>1, <1>1, <1>2
  <2>2. CASE f # n
    BY <2>2, <1>2
  <2> QED
    BY <2>1, <2>2
<1>6. ActiveOnce'
  BY <1>2, <1>5 DEF IInv, ActiveOnce, SkipDependency
<1>7. PassedAreDone'
  <2> SUFFICES ASSUME NEW f \in 1..n,
                      NEW d \in DOMAIN deps[stack[f].index],
                      d < stack'[f].dep, deps[stack[f].index][d] # 0
               PROVE  state[deps[stack[f].index][d]] = 2
    BY <1>2, <1>5 DEF PassedAreDone, SkipDependency
  <2>1. CASE f # n
    BY <2>1, <1>2 DEF IInv, PassedAreDone
  <2>2. CASE f = n /\ d = Top.dep
    BY <2>2, <1>2 DEF SkipDependency, Dependency
  <2>3. CASE f = n /\ d # Top.dep
    <3>1. d \in Nat
      <4>1. deps[Top.index] \in Seq(0..count)
        BY <1>0, TopFacts, SMTT(30) DEF TypeOK
      <4> QED
        BY <4>1, <1>2, <2>3
    <3>2. d < stack[f].dep
      BY <2>3, <3>1, <1>0, <1>1, <1>2, TopFacts
    <3> QED
      BY <3>2, <1>2 DEF IInv, PassedAreDone
  <2> QED
    BY <2>1, <2>2, <2>3
<1> QED
  BY <1>3, <1>4, <1>6, <1>7 DEF IInv

\* A plan all of whose dependencies are done is appended to the order.
LEMMA LeaveInv ==
    ASSUME IInv, Leave
    PROVE  IInv'
<1> DEFINE p == Top.index
           n == Len(stack)
           m == Len(order)
<1>0. TypeOK /\ stack # <<>>
  BY DEF IInv, Leave
<1>1. /\ n \in Nat \ {0} /\ p \in Plans /\ stack[n] = Top
      /\ DOMAIN stack = 1..n /\ DOMAIN stack' = 1..(n - 1)
      /\ stack' \in Seq(Frame)
      /\ \A f \in 1..(n - 1) : stack'[f] = stack[f]
      /\ \A f \in 1..n : stack[f] \in Frame
  BY <1>0, TopFacts, SMTT(30) DEF Leave, Top
<1>2. /\ order' \in Seq(Plans) /\ m \in Nat
      /\ DOMAIN order = 1..m /\ DOMAIN order' = 1..(m + 1)
      /\ \A k \in 1..m : order'[k] = order[k] /\ order[k] \in Plans
      /\ order'[m + 1] = p
  <2>1. order \in Seq(Plans) /\ order' = Append(order, p)
    BY <1>0 DEF TypeOK, Leave
  <2>2. m \in Nat /\ DOMAIN order = 1..m /\ \A k \in 1..m : order[k] \in Plans
    BY <2>1, LenProperties, ElementOfSeq
  <2> HIDE DEF p
  <2> QED
    BY <1>1, <2>1, <2>2, AppendFacts
<1>3. /\ state' \in [Plans -> 0..2]
      /\ state'[p] = 2
      /\ \A q \in Plans : q # p => state'[q] = state[q]
      /\ \A q \in Plans : state[q] = 2 => state'[q] = 2
  BY <1>0, <1>1 DEF TypeOK, Leave
<1>4. UNCHANGED <<deps, i, rc>>
  BY DEF Leave
<1>5. deps[p] \in Seq(0..count) /\ Top.dep > Len(deps[p]) /\ Top.dep \in Nat
  BY <1>0, <1>1, TopFacts, Zenon DEF TypeOK, Leave
<1>6. state[p] = 1
  BY <1>1 DEF IInv, ActiveOnce
<1>7. TypeOK'
  BY <1>0, <1>1, <1>2, <1>3, <1>4, SMTT(30) DEF TypeOK, Frame
<1> HIDE DEF p, n, m
<1>8. OrderIsDone'
  BY <1>2, <1>3 DEF IInv, OrderIsDone
<1>9. \A k \in 1..m : order[k] # p
  BY <1>2, <1>6 DEF IInv, OrderIsDone
<1>10. NoPlanTwice'
  BY <1>2, <1>9 DEF IInv, NoPlanTwice
<1>11. LoopPassed'
  BY <1>3, <1>4 DEF IInv, LoopPassed
<1>12. \A f \in 1..(n - 1) : stack[f].index \in Plans /\ stack[f].index # p
  <2> TAKE f \in 1..(n - 1)
  <2>1. f \in 1..n /\ f # n /\ n \in 1..n
    BY <1>1
  <2>2. stack[f].index \in Plans
    BY <1>1, <2>1 DEF Frame
  <2> QED
    BY <1>1, <2>1, <2>2 DEF IInv, ActiveOnce, p
<1>13. ActiveOnce'
  BY <1>1, <1>3, <1>12, SMTT(30) DEF IInv, ActiveOnce
<1>14. PassedAreDone'
  <2> SUFFICES ASSUME NEW f \in 1..(n - 1),
                      NEW d \in DOMAIN deps[stack[f].index],
                      d < stack[f].dep, deps[stack[f].index][d] # 0
               PROVE  state'[deps[stack[f].index][d]] = 2
    BY <1>1, <1>4 DEF PassedAreDone
  <2>1. f \in 1..n
    BY <1>1
  <2>2. state[deps[stack[f].index][d]] = 2
    BY <1>1, <2>1 DEF IInv, PassedAreDone
  <2>3. deps[stack[f].index] \in Seq(0..count)
    BY <1>0, <1>12 DEF TypeOK
  <2>4. deps[stack[f].index][d] \in Plans
    BY <2>3, OrderAssumption DEF Plans
  <2> QED
    BY <1>3, <2>2, <2>4
<1>15. DependencyFirst'
  <2> SUFFICES ASSUME NEW k \in 1..(m + 1),
                      NEW d \in DOMAIN deps[order'[k]],
                      deps[order'[k]][d] # 0
               PROVE  \E j \in 1..(k - 1) : order'[j] = deps[order'[k]][d]
    BY <1>2, <1>4 DEF DependencyFirst
  <2>1. CASE k # m + 1
    BY <2>1, <1>2 DEF IInv, DependencyFirst
  <2>2. CASE k = m + 1
    <3>1. order'[k] = p /\ d \in DOMAIN deps[p] /\ deps[p][d] # 0
      BY <2>2, <1>2
    <3>2. d < Top.dep /\ deps[p][d] \in Plans
      BY <3>1, <1>5, OrderAssumption DEF Plans
    <3>3. state[deps[p][d]] = 2
      BY <3>1, <3>2, <1>1 DEF IInv, PassedAreDone, p
    <3>4. PICK j \in 1..m : order[j] = deps[p][d]
      BY <3>2, <3>3, <1>2 DEF IInv, OrderIsDone
    <3>5. j \in 1..(k - 1) /\ order'[j] = deps[order'[k]][d]
      BY <3>1, <3>4, <2>2, <1>2
    <3> QED
      BY <3>5
  <2> QED
    BY <2>1, <2>2
<1> QED
  BY <1>7, <1>8, <1>10, <1>11, <1>13, <1>14, <1>15 DEF IInv

LEMMA NextInv == IInv /\ [Next]_vars => IInv'
<1> SUFFICES ASSUME IInv, [Next]_vars
             PROVE  IInv'
  OBVIOUS
<1>1. CASE VisitNext
  <2>1. i \in Plans
    BY <1>1, OrderAssumption DEF VisitNext, IInv, TypeOK, Plans
  <2> QED
    BY <1>1, <2>1, EnterInv DEF VisitNext
<1>2. CASE SkipNext
  <2>1. i' = i + 1 /\ i \in 1..count /\ state[i] = 2 /\ rc = "running"
    BY <1>2, OrderAssumption DEF SkipNext, IInv, TypeOK
  <2>2. UNCHANGED <<deps, state, stack, order, rc>>
    BY <1>2 DEF SkipNext
  <2>3. TypeOK'
    BY <2>1, <2>2, OrderAssumption DEF IInv, TypeOK
  <2>4. LoopPassed'
    BY <2>1, <2>2, OrderAssumption DEF IInv, LoopPassed, Plans
  <2>5. OrderIsDone' /\ NoPlanTwice' /\ ActiveOnce' /\ PassedAreDone'
        /\ DependencyFirst'
    BY <2>2 DEF IInv, OrderIsDone, NoPlanTwice, ActiveOnce, PassedAreDone,
                DependencyFirst
  <2> QED
    BY <2>3, <2>4, <2>5 DEF IInv
<1>3. CASE VisitDependency
  <2>1. TypeOK /\ stack # <<>> /\ Top.dep <= Len(deps[Top.index]) /\ Dependency # 0
    BY <1>3 DEF IInv, VisitDependency, Looking
  <2>2. deps[Top.index] \in Seq(0..count) /\ Top.dep \in Nat \ {0}
    BY <2>1, TopFacts DEF TypeOK
  <2>3. Dependency \in Plans
    BY <2>1, <2>2, OrderAssumption DEF Dependency, Plans
  <2> QED
    BY <1>3, <2>3, EnterInv DEF VisitDependency
<1>4. CASE SkipDependency
  BY <1>4, SkipDependencyInv
<1>5. CASE Circular
  BY <1>5 DEF Circular, IInv, TypeOK, OrderIsDone, NoPlanTwice, ActiveOnce,
              PassedAreDone, LoopPassed, DependencyFirst
<1>6. CASE Leave
  BY <1>6, LeaveInv
<1>7. CASE Finish
  BY <1>7 DEF Finish, IInv, TypeOK, OrderIsDone, NoPlanTwice, ActiveOnce,
              PassedAreDone, LoopPassed, DependencyFirst
<1>8. CASE UNCHANGED vars
  BY <1>8 DEF vars, IInv, TypeOK, OrderIsDone, NoPlanTwice, ActiveOnce,
              PassedAreDone, LoopPassed, DependencyFirst
<1> QED
  BY <1>1, <1>2, <1>3, <1>4, <1>5, <1>6, <1>7, <1>8 DEF Next, Returned

\* The walk of visit_install_plan keeps the inductive invariant, whatever the
\* plans and their dependencies.
THEOREM OrderInvariance == Spec => []IInv
BY InitInv, NextInv, PTL DEF Spec

\* build_install_order keeps the promise of its comment: every planned
\* dependency stands before its dependants.
THEOREM DependencyFirstHolds == Spec => []DependencyFirst
<1>1. IInv => DependencyFirst
  BY DEF IInv
<1> QED
  BY <1>1, OrderInvariance, PTL

\* The order build_install_order returns has every plan exactly once.
THEOREM EveryPlanOnceHolds == Spec => []EveryPlanOnce
<1>1. IInv => EveryPlanOnce
  <2> SUFFICES ASSUME IInv
               PROVE  rc = "ok" => \A p \in Plans : \E k \in DOMAIN order : order[k] = p
    BY DEF IInv, NoPlanTwice, EveryPlanOnce
  <2>1. rc = "ok" => \A p \in Plans : state[p] = 2
    BY OrderAssumption DEF IInv, LoopPassed, Plans
  <2> QED
    BY <2>1 DEF IInv, OrderIsDone
<1> QED
  BY <1>1, OrderInvariance, PTL

-----------------------------------------------------------------------------
(* Cycles.                                                                 *)

LEMMA LeastNat ==
    ASSUME NEW T \in SUBSET Nat, T # {}
    PROVE  \E x \in T : \A y \in T : x <= y
<1> DEFINE R == OpToRel(<, Nat)
<1>1. PICK x \in T : \A y \in T : ~ (<<y, x>> \in R)
  BY NatLessThanWellFounded, WFMin, Zenon
<1>2. R = {ss \in Nat \X Nat : ss[1] < ss[2]}
  BY Zenon DEF OpToRel
<1> HIDE DEF R
<1>3. ASSUME NEW y \in T PROVE x <= y
  <2>1. ~ (<<y, x>> \in R)
    BY <1>1
  <2> QED
    BY <1>2, <2>1
<1> QED
  BY <1>3

Edge(p, q) == \E d \in DOMAIN deps[p] : deps[p][d] = q

\* w leads from p to q over m dependencies.
Walk(p, q, m, w) ==
    /\ w \in [0..m -> Plans]
    /\ w[0] = p /\ w[m] = q
    /\ \A k \in 1..m : Edge(w[k - 1], w[k])

Linked(n, p, q) == \E m \in 1..(n + 1) : \E w \in [0..m -> Plans] : Walk(p, q, m, w)

LEMMA LinkedStep ==
    ASSUME NEW n \in Nat, NEW p \in Plans, NEW q \in Plans
    PROVE  Linked(n, p, q) <=>
             \/ Edge(p, q)
             \/ n > 0 /\ \E r \in Plans : Linked(n - 1, p, r) /\ Edge(r, q)
<1>1. ASSUME Edge(p, q) PROVE Linked(n, p, q)
  <2> DEFINE w == [k \in 0..1 |-> IF k = 0 THEN p ELSE q]
  <2>1. w \in [0..1 -> Plans] /\ w[0] = p /\ w[1] = q
    OBVIOUS
  <2>2. \A k \in 1..1 : k - 1 = 0 /\ k = 1
    OBVIOUS
  <2> HIDE DEF w
  <2>3. Walk(p, q, 1, w)
    BY <1>1, <2>1, <2>2 DEF Walk
  <2>4. 1 \in 1..(n + 1)
    OBVIOUS
  <2> QED
    BY <2>1, <2>3, <2>4, Zenon DEF Linked
<1>2. ASSUME n > 0, NEW r \in Plans, Linked(n - 1, p, r), Edge(r, q) PROVE Linked(n, p, q)
  <2>1. PICK m \in 1..(n - 1 + 1) : \E v \in [0..m -> Plans] : Walk(p, r, m, v)
    BY <1>2 DEF Linked
  <2>2. PICK v \in [0..m -> Plans] : Walk(p, r, m, v)
    BY <2>1
  <2>3. m \in Nat /\ m + 1 \in 1..(n + 1) /\ m + 1 - 1 = m /\ m >= 1
    BY <2>1
  <2> DEFINE w == [k \in 0..(m + 1) |-> IF k = m + 1 THEN q ELSE v[k]]
  <2>4. w \in [0..(m + 1) -> Plans] /\ w[0] = p /\ w[m + 1] = q /\ w[m] = r
    BY <2>2, <2>3 DEF Walk
  <2>5. \A k \in 1..m : w[k - 1] = v[k - 1] /\ w[k] = v[k]
    BY <2>3
  <2> HIDE DEF w
  <2>6. ASSUME NEW k \in 1..(m + 1) PROVE Edge(w[k - 1], w[k])
    <3>1. CASE k = m + 1
      BY <1>2, <2>3, <2>4, <3>1
    <3>2. CASE k # m + 1
      <4>1. k \in 1..m
        BY <2>3, <3>2
      <4> QED
        BY <2>2, <2>5, <4>1 DEF Walk
    <3> QED
      BY <3>1, <3>2
  <2>7. Walk(p, q, m + 1, w)
    BY <2>4, <2>6 DEF Walk
  <2> QED
    BY <2>3, <2>4, <2>7 DEF Linked
<1>3. ASSUME Linked(n, p, q), ~ Edge(p, q)
      PROVE  n > 0 /\ \E r \in Plans : Linked(n - 1, p, r) /\ Edge(r, q)
  <2>1. PICK m \in 1..(n + 1) : \E v \in [0..m -> Plans] : Walk(p, q, m, v)
    BY <1>3 DEF Linked
  <2>2. PICK w \in [0..m -> Plans] : Walk(p, q, m, w)
    BY <2>1
  <2>3. m # 1
    <3> SUFFICES ASSUME m = 1 PROVE FALSE
      OBVIOUS
    <3>1. Edge(w[1 - 1], w[1]) /\ w[0] = p /\ w[1] = q
      BY <2>2 DEF Walk
    <3>2. 1 - 1 = 0
      OBVIOUS
    <3> QED
      BY <1>3, <3>1, <3>2
  <2>4. m \in Nat /\ m - 1 \in 1..(n - 1 + 1) /\ n > 0 /\ m \in 1..m
    BY <2>1, <2>3
  <2> DEFINE v == [k \in 0..(m - 1) |-> w[k]]
  <2>5. /\ v \in [0..(m - 1) -> Plans] /\ v[0] = p /\ v[m - 1] = w[m - 1]
        /\ w[m - 1] \in Plans
        /\ \A k \in 1..(m - 1) : v[k - 1] = w[k - 1] /\ v[k] = w[k] /\ k \in 1..m
    BY <2>2, <2>4 DEF Walk
  <2> HIDE DEF v
  <2>6. Walk(p, w[m - 1], m - 1, v)
    BY <2>2, <2>5 DEF Walk
  <2>7. Linked(n - 1, p, w[m - 1])
    BY <2>4, <2>5, <2>6 DEF Linked
  <2>8. Edge(w[m - 1], q)
    BY <2>2, <2>4 DEF Walk
  <2> QED
    BY <2>4, <2>5, <2>7, <2>8
<1> QED
  BY <1>1, <1>2, <1>3

\* What the recursive definition of the properties computes.
LEMMA ReachesIs ==
    ASSUME NEW n \in Nat, NEW p \in Plans
    PROVE  Reaches[n][p] = {q \in Plans : Linked(n, p, q)}
<1> DEFINE Body(f) == [k \in Nat |-> [s \in Plans |-> {q \in Plans :
                \/ \E d \in DOMAIN deps[s] : deps[s][d] = q
                \/ k > 0 /\ \E r \in f[k - 1][s] :
                                \E d \in DOMAIN deps[r] : deps[r][d] = q}]]
           g == [k \in Nat |-> [s \in Plans |-> {q \in Plans : Linked(k, s, q)}]]
<1>1. g = Body(g)
  <2>1. ASSUME NEW k \in Nat, NEW s \in Plans
        PROVE  g[k][s] = Body(g)[k][s]
    <3>1. ASSUME NEW q \in Plans
          PROVE  Linked(k, s, q) <=>
                    \/ \E d \in DOMAIN deps[s] : deps[s][d] = q
                    \/ k > 0 /\ \E r \in g[k - 1][s] :
                                    \E d \in DOMAIN deps[r] : deps[r][d] = q
      <4>1. k > 0 => k - 1 \in Nat
        OBVIOUS
      <4>2. k > 0 => g[k - 1][s] = {r \in Plans : Linked(k - 1, s, r)}
        BY <4>1
      <4> HIDE DEF g
      <4> QED
        BY <4>2, LinkedStep DEF Edge
    <3>2. g[k][s] = {q \in Plans : Linked(k, s, q)}
      OBVIOUS
    <3> HIDE DEF g
    <3>3. Body(g)[k][s] = {q \in Plans : Linked(k, s, q)}
      BY <3>1
    <3> QED
      BY <3>2, <3>3
  <2> QED
    BY <2>1, Zenon
<1>2. Reaches = CHOOSE f : f = Body(f)
  BY DEF Reaches
<1> HIDE DEF g
<1>3. Reaches = Body(Reaches)
  BY <1>1, <1>2, ZenonT(60)
<1> DEFINE Bad == {k \in Nat : Reaches[k] # g[k]}
<1>4. Bad = {}
  <2> SUFFICES ASSUME Bad # {} PROVE FALSE
    OBVIOUS
  <2>1. PICK k \in Bad : \A j \in Bad : k <= j
    BY LeastNat, Zenon
  <2>2. k > 0 => k - 1 \in Nat /\ Reaches[k - 1] = g[k - 1]
    BY <2>1
  <2>3. Body(Reaches)[k] = Body(g)[k]
    BY <2>1, <2>2
  <2>4. Reaches[k] = g[k]
    BY <1>1, <1>3, <2>3, Zenon
  <2> QED
    BY <2>1, <2>4
<1> QED
  BY <1>4, ZenonT(60) DEF g

-----------------------------------------------------------------------------
\* Every plan being visited has an active call.
VisitedActive ==
    \A p \in Plans : state[p] = 1 => \E f \in DOMAIN stack : stack[f].index = p

\* Every active call was made for the dependency its caller looks at.
ChainKept ==
    \A f \in 1..(Len(stack) - 1) :
        LET p == stack[f].index IN
        stack[f].dep \in DOMAIN deps[p] /\ deps[p][stack[f].dep] = stack[f + 1].index

Cyclic == \E p \in Plans : Linked(count, p, p)

LEMMA CyclicKept ==
    ASSUME deps' = deps
    PROVE  Cyclic' <=> Cyclic
<1>1. \A p, q : Edge(p, q)' <=> Edge(p, q)
  BY DEF Edge
<1>2. \A p, q, m, w : Walk(p, q, m, w)' <=> Walk(p, q, m, w)
  BY <1>1, Zenon DEF Walk
<1>3. \A n, p, q : Linked(n, p, q)' <=> Linked(n, p, q)
  BY <1>2, Zenon DEF Linked
<1> QED
  BY <1>3, Zenon DEF Cyclic

CycleInv == VisitedActive /\ ChainKept /\ (rc = "circular" => Cyclic)

LEMMA CycleInit == Init => CycleInv
  BY DEF Init, CycleInv, VisitedActive, ChainKept

LEMMA EnterCycle ==
    ASSUME IInv, CycleInv, NEW p \in Plans, Enter(p),
           stack # <<>> => Looking /\ Dependency = p
    PROVE  CycleInv'
<1> DEFINE n == Len(stack)
<1>1. stack \in Seq(Frame) /\ [index |-> p, dep |-> 1] \in Frame
  BY DEF IInv, TypeOK, Frame
<1>2. /\ DOMAIN stack = 1..n /\ n \in Nat
      /\ Len(stack') = n + 1 /\ DOMAIN stack' = 1..(n + 1)
      /\ \A j \in 1..n : stack'[j] = stack[j]
      /\ stack'[n + 1].index = p
  BY <1>1, AppendFacts DEF Enter
<1>3. state' = [state EXCEPT ![p] = 1] /\ state \in [Plans -> 0..2]
      /\ deps' = deps /\ rc' = rc
  BY DEF IInv, TypeOK, Enter
<1>4. n # 0 => /\ stack[n].dep \in DOMAIN deps[stack[n].index]
               /\ deps[stack[n].index][stack[n].dep] = p
  <2> SUFFICES ASSUME n # 0 PROVE /\ Top.dep \in DOMAIN deps[Top.index]
                                  /\ deps[Top.index][Top.dep] = p
    BY DEF Top
  <2>1. TypeOK /\ stack # <<>>
    BY <1>1, EmptySeq DEF IInv
  <2>2. Top.dep \in Nat \ {0} /\ deps[Top.index] \in Seq(0..count)
    BY <2>1, TopFacts DEF TypeOK
  <2>3. Top.dep <= Len(deps[Top.index]) /\ deps[Top.index][Top.dep] = p
    BY <2>1 DEF Looking, Dependency
  <2> QED
    BY <2>2, <2>3, LenProperties
<1> HIDE DEF n
<1>5. VisitedActive'
  <2> SUFFICES ASSUME NEW q \in Plans, state'[q] = 1
               PROVE  \E f \in 1..(n + 1) : stack'[f].index = q
    BY <1>2 DEF VisitedActive
  <2>1. CASE q = p
    BY <1>2, <2>1
  <2>2. CASE q # p
    BY <1>2, <1>3, <2>2 DEF CycleInv, VisitedActive
  <2> QED
    BY <2>1, <2>2
<1>6. ChainKept'
  <2> SUFFICES ASSUME NEW f \in 1..n
               PROVE  /\ stack'[f].dep \in DOMAIN deps[stack'[f].index]
                      /\ deps[stack'[f].index][stack'[f].dep] = stack'[f + 1].index
    BY <1>2, <1>3 DEF ChainKept
  <2>1. CASE f = n
    BY <1>2, <1>4, <2>1
  <2>2. CASE f # n
    <3>1. f \in 1..(n - 1) /\ f + 1 \in 1..n
      BY <1>2, <2>2
    <3> QED
      BY <1>2, <3>1 DEF CycleInv, ChainKept, n
  <2> QED
    BY <2>1, <2>2
<1> QED
  BY <1>3, <1>5, <1>6, CyclicKept DEF CycleInv

LEMMA SkipCycle ==
    ASSUME IInv, CycleInv, SkipDependency
    PROVE  CycleInv'
<1> DEFINE e == [Top EXCEPT !.dep = @ + 1]
           n == Len(stack)
<1>0. TypeOK /\ stack # <<>>
  BY DEF IInv, SkipDependency, Looking
<1>1. e \in Frame /\ e.index = Top.index /\ Below \in Seq(Frame) /\ n \in Nat \ {0}
      /\ Len(Below) = n - 1 /\ Len(Below) + 1 = n
  <2>1. Top \in Frame /\ Top.dep \in Nat \ {0}
    BY <1>0, TopFacts
  <2>2. e \in Frame /\ e.index = Top.index
    BY <2>1 DEF Frame
  <2>3. Below \in Seq(Frame) /\ n \in Nat \ {0} /\ Len(Below) = n - 1
    BY <1>0, TopFacts, Zenon
  <2>4. Len(Below) + 1 = n
    BY <2>3
  <2> QED
    BY <2>2, <2>3, <2>4
<1>2. /\ DOMAIN stack = 1..n /\ stack[n] = Top
      /\ \A f \in 1..(n - 1) : Below[f] = stack[f]
  BY <1>0, TopFacts DEF Top
<1> HIDE DEF e
<1>3. /\ Len(stack') = n /\ DOMAIN stack' = 1..n
      /\ \A f \in 1..(n - 1) : stack'[f] = stack[f]
      /\ stack'[n] = e
  <2>1. stack' = Append(Below, e)
    BY DEF SkipDependency, e
  <2> QED
    BY <1>1, <1>2, <2>1, AppendFacts
<1> HIDE DEF n
<1>4. \A f \in 1..n : stack'[f].index = stack[f].index
  <2> TAKE f \in 1..n
  <2>1. CASE f = n
    BY <1>1, <1>2, <1>3, <2>1
  <2>2. CASE f # n
    BY <1>1, <1>3, <2>2
  <2> QED
    BY <2>1, <2>2
<1>5. VisitedActive'
  BY <1>2, <1>3, <1>4 DEF CycleInv, VisitedActive, SkipDependency
<1>6. ChainKept'
  <2>1. \A f \in 1..(n - 1) : f \in 1..n /\ f + 1 \in 1..n
    BY <1>1
  <2> QED
    BY <1>3, <1>4, <2>1 DEF CycleInv, ChainKept, SkipDependency, n
<1> QED
  BY <1>5, <1>6, CyclicKept DEF CycleInv, SkipDependency

LEMMA LeaveCycle ==
    ASSUME IInv, CycleInv, Leave
    PROVE  CycleInv'
<1> DEFINE n == Len(stack)
<1>0. TypeOK /\ stack # <<>>
  BY DEF IInv, Leave
<1>1. /\ n \in Nat \ {0} /\ Top.index \in Plans /\ stack[n] = Top
      /\ DOMAIN stack = 1..n /\ DOMAIN stack' = 1..(n - 1) /\ Len(stack') = n - 1
      /\ \A f \in 1..(n - 1) : stack'[f] = stack[f]
  BY <1>0, TopFacts, Zenon DEF Leave, Top
<1>2. /\ state' = [state EXCEPT ![Top.index] = 2] /\ state \in [Plans -> 0..2]
      /\ deps' = deps /\ rc' = rc
  BY <1>0 DEF TypeOK, Leave
<1> HIDE DEF n
<1>3. VisitedActive'
  <2> SUFFICES ASSUME NEW q \in Plans, state'[q] = 1
               PROVE  \E f \in 1..(n - 1) : stack'[f].index = q
    BY <1>1 DEF VisitedActive
  <2>1. q # Top.index /\ state[q] = 1
    BY <1>1, <1>2
  <2>2. PICK f \in 1..n : stack[f].index = q
    BY <1>1, <2>1 DEF CycleInv, VisitedActive
  <2>3. f \in 1..(n - 1)
    BY <1>1, <2>1, <2>2
  <2> QED
    BY <1>1, <2>2, <2>3
<1>4. ChainKept'
  <2>1. \A f \in 1..(n - 1 - 1) : f \in 1..(n - 1) /\ f + 1 \in 1..(n - 1)
    BY <1>1
  <2> QED
    BY <1>1, <1>2, <2>1 DEF CycleInv, ChainKept, n
<1> QED
  BY <1>2, <1>3, <1>4, CyclicKept DEF CycleInv

\* Active calls are for different plans.
LEMMA StackBound ==
    ASSUME IInv, stack # <<>>
    PROVE  Len(stack) <= count
<1> DEFINE n == Len(stack)
           h == [f \in 1..n |-> stack[f].index]
<1>1. /\ n \in Nat /\ DOMAIN stack = 1..n
      /\ \A f \in 1..n : stack[f].index \in Plans
  BY TopFacts, Zenon DEF IInv, Frame
<1>2. h \in Injection(1..n, Plans)
  BY <1>1 DEF IInv, ActiveOnce, Injection, IsInjective
<1> HIDE DEF h, n
<1>3. Cardinality(1..n) = n /\ IsFiniteSet(Plans) /\ Cardinality(Plans) = count
  BY <1>1, OrderAssumption, FS_Interval DEF Plans
<1>4. Cardinality(1..n) <= Cardinality(Plans)
  BY <1>2, <1>3, FS_Injection
<1> QED
  BY <1>3, <1>4 DEF n

LEMMA CircularCycle ==
    ASSUME IInv, CycleInv, Circular
    PROVE  Cyclic
<1> DEFINE n == Len(stack)
           D == Dependency
<1>0. TypeOK /\ stack # <<>> /\ state[D] = 1
  BY DEF IInv, Circular, Looking
<1>1. n \in Nat \ {0} /\ DOMAIN stack = 1..n /\ stack[n] = Top
      /\ \A f \in 1..n : stack[f].index \in Plans
  BY <1>0, TopFacts, Zenon DEF Top, Frame
<1>2. /\ Top.dep \in DOMAIN deps[Top.index] /\ deps[Top.index][Top.dep] = D
      /\ D \in Plans
  <2>1. Top.dep \in Nat \ {0} /\ deps[Top.index] \in Seq(0..count)
    BY <1>0, TopFacts DEF TypeOK
  <2>2. Top.dep <= Len(deps[Top.index]) /\ deps[Top.index][Top.dep] = D /\ D # 0
    BY DEF Circular, Looking, Dependency
  <2>3. Top.dep \in DOMAIN deps[Top.index]
    BY <2>1, <2>2, LenProperties
  <2> QED
    BY <2>1, <2>2, <2>3, EntryFacts
<1>3. n <= count
  BY <1>0, StackBound
<1> HIDE DEF D, n
<1>4. PICK f \in 1..n : stack[f].index = D
  BY <1>0, <1>1, <1>2 DEF CycleInv, VisitedActive
<1> DEFINE m == n - f + 1
           w == [k \in 0..m |-> IF k = m THEN D ELSE stack[f + k].index]
<1>5. /\ m \in 1..(count + 1) /\ m \in Nat /\ f + (m - 1) = n /\ m - 1 # m
      /\ f + 0 = f /\ 0 # m
      /\ \A k \in 0..m : k # m => f + k \in 1..n
      /\ \A k \in 1..m : /\ k - 1 \in 0..m /\ k \in 0..m /\ k - 1 # m
                         /\ k # m => f + (k - 1) \in 1..(n - 1)
                                     /\ f + (k - 1) + 1 = f + k
  BY <1>1, <1>3, <1>4, OrderAssumption
<1>6. w \in [0..m -> Plans] /\ w[0] = D /\ w[m] = D
  BY <1>1, <1>2, <1>4, <1>5
<1>7. ASSUME NEW k \in 1..m PROVE Edge(w[k - 1], w[k])
  <2>1. w[k - 1] = stack[f + (k - 1)].index
    BY <1>5
  <2>2. CASE k = m
    <3>1. w[k - 1] = Top.index /\ w[k] = D
      BY <1>1, <1>5, <2>1, <2>2
    <3> QED
      BY <1>2, <3>1, Zenon DEF Edge
  <2>3. CASE k # m
    <3>1. /\ w[k] = stack[f + (k - 1) + 1].index
          /\ f + (k - 1) \in 1..(n - 1)
      BY <1>5, <2>3
    <3> HIDE DEF m, w
    <3> QED
      BY <2>1, <3>1, Zenon DEF CycleInv, ChainKept, Edge, n
  <2> QED
    BY <2>2, <2>3
<1>8. m \in 1..(count + 1)
  BY <1>5
<1> HIDE DEF m, w
<1>9. Walk(D, D, m, w)
  BY <1>6, <1>7 DEF Walk
<1> QED
  BY <1>2, <1>6, <1>8, <1>9 DEF Cyclic, Linked

LEMMA CycleStep ==
    ASSUME IInv, CycleInv, [Next]_vars
    PROVE  CycleInv'
<1>1. CASE VisitNext
  <2>1. i \in Plans
    BY <1>1, OrderAssumption DEF VisitNext, IInv, TypeOK, Plans
  <2> QED
    BY <1>1, <2>1, EnterCycle DEF VisitNext
<1>2. CASE VisitDependency
  <2>1. TypeOK /\ stack # <<>> /\ Looking /\ Dependency # 0
    BY <1>2 DEF IInv, VisitDependency, Looking
  <2>2. deps[Top.index] \in Seq(0..count) /\ Top.dep \in Nat \ {0}
    BY <2>1, TopFacts DEF TypeOK
  <2>3. Dependency \in Plans
    BY <2>1, <2>2, OrderAssumption DEF Dependency, Plans, Looking
  <2> QED
    BY <1>2, <2>1, <2>3, EnterCycle DEF VisitDependency
<1>3. CASE SkipDependency
  BY <1>3, SkipCycle
<1>4. CASE Leave
  BY <1>4, LeaveCycle
<1>5. CASE Circular
  <2>1. Cyclic
    BY <1>5, CircularCycle
  <2>2. UNCHANGED <<deps, i, state, stack, order>>
    BY <1>5 DEF Circular
  <2> QED
    BY <2>1, <2>2, CyclicKept DEF CycleInv, VisitedActive, ChainKept
<1>6. CASE SkipNext \/ Finish \/ UNCHANGED vars
  <2>1. UNCHANGED <<deps, state, stack>> /\ (rc' = "circular" => rc = "circular")
    BY <1>6 DEF SkipNext, Finish, vars
  <2> QED
    BY <2>1, CyclicKept DEF CycleInv, VisitedActive, ChainKept
<1> QED
  BY <1>1, <1>2, <1>3, <1>4, <1>5, <1>6 DEF Next, Returned

\* Along a walk the positions in a complete order decrease.
LEMMA OrderNoCycle ==
    ASSUME IInv, rc = "ok"
    PROVE  ~ Cyclic
<1> SUFFICES ASSUME NEW p \in Plans, Linked(count, p, p) PROVE FALSE
  BY DEF Cyclic
<1>1. PICK m \in 1..(count + 1) : \E v \in [0..m -> Plans] : Walk(p, p, m, v)
  BY DEF Linked
<1>2. PICK w \in [0..m -> Plans] : Walk(p, p, m, w)
  BY <1>1
<1>3. m \in Nat /\ m >= 1 /\ DOMAIN order \subseteq Nat /\ 0 \in 0..m /\ m \in 0..m
  BY <1>1, LenProperties, SMTT(30) DEF IInv, TypeOK
<1>4. \A q \in Plans : \E k \in DOMAIN order : order[k] = q
  <2>1. \A q \in Plans : state[q] = 2
    BY OrderAssumption DEF IInv, LoopPassed, Plans
  <2> QED
    BY <2>1 DEF IInv, OrderIsDone
<1> DEFINE T == {k \in DOMAIN order : \E j \in 1..m : order[k] = w[j]}
<1>5. T \in SUBSET Nat /\ T # {}
  <2>1. PICK k \in DOMAIN order : order[k] = w[m]
    BY <1>3, <1>4
  <2>2. m \in 1..m
    BY <1>3
  <2> QED
    BY <1>3, <2>1, <2>2
<1>6. PICK k \in T : \A l \in T : k <= l
  BY <1>5, LeastNat, Zenon
<1>7. PICK j \in 1..m : order[k] = w[j]
  BY <1>6
<1>8. \E h \in 1..m : Edge(w[j], w[h])
  <2>1. CASE j = m
    <3>1. Edge(w[1 - 1], w[1]) /\ w[0] = p /\ w[m] = p /\ 1 \in 1..m
      BY <1>2, <1>3 DEF Walk
    <3>2. 1 - 1 = 0
      OBVIOUS
    <3> QED
      BY <2>1, <3>1, <3>2
  <2>2. CASE j # m
    <3>1. j + 1 \in 1..m /\ j + 1 - 1 = j
      BY <1>3, <2>2
    <3>2. Edge(w[j + 1 - 1], w[j + 1])
      BY <1>2, <3>1 DEF Walk
    <3> QED
      BY <3>1, <3>2
  <2> QED
    BY <2>1, <2>2
<1>9. PICK h \in 1..m : Edge(w[j], w[h])
  BY <1>8
<1>10. PICK d \in DOMAIN deps[order[k]] : deps[order[k]][d] = w[h]
  BY <1>7, <1>9 DEF Edge
<1>11. w[h] # 0
  <2>1. w[h] \in Plans
    BY <1>2, <1>3
  <2> QED
    BY <2>1, OrderAssumption DEF Plans
<1>12. PICK l \in 1..(k - 1) : order[l] = w[h]
  BY <1>6, <1>10, <1>11 DEF IInv, DependencyFirst
<1>13. l \in DOMAIN order /\ l < k
  <2>1. DOMAIN order = 1..Len(order) /\ Len(order) \in Nat
    BY LenProperties DEF IInv, TypeOK
  <2>2. k \in 1..Len(order)
    BY <1>6, <2>1
  <2> QED
    BY <1>12, <2>1, <2>2
<1>14. l \in T
  BY <1>12, <1>13
<1> QED
  BY <1>3, <1>5, <1>6, <1>13, <1>14

\* build_install_order refuses a set of packages as circular exactly when its
\* dependencies have a cycle.
THEOREM CircularIsCycleHolds == Spec => []CircularIsCycle
<1>1. Init => CycleInv
  BY CycleInit
<1>2. IInv /\ CycleInv /\ [Next]_vars => CycleInv'
  BY CycleStep
<1>3. IInv /\ CycleInv => CircularIsCycle
  <2> SUFFICES ASSUME IInv, CycleInv PROVE CircularIsCycle
    OBVIOUS
  <2>1. Cyclic <=> \E p \in Plans : p \in Reaches[count][p]
    BY OrderAssumption, ReachesIs DEF Cyclic
  <2>2. rc = "circular" => Cyclic
    BY DEF CycleInv
  <2>3. rc = "ok" => ~ Cyclic
    BY OrderNoCycle
  <2>4. rc \in {"running", "ok", "circular"}
    BY DEF IInv, TypeOK
  <2> QED
    BY <2>1, <2>2, <2>3, <2>4, Zenon DEF CircularIsCycle
<1> QED
  BY <1>1, <1>2, <1>3, OrderInvariance, PTL DEF Spec
=============================================================================
