---------------------------- MODULE LegacyOrder ----------------------------
(***************************************************************************)
(* build_install_order (tools/syspckg-old/main.c): the depth-first walk    *)
(* that puts the planned packages into the order in which they are staged  *)
(* and their hooks run.                                                    *)
(*                                                                         *)
(* Plans are numbered as in the array; deps[p] lists, entry by entry of    *)
(* the package's dependencies, the plan find_plan_by_dependency returns,   *)
(* or 0 when it returns -1. The recursion of visit_install_plan is a stack *)
(* of frames: a plan and the position in its dependencies.                 *)
(***************************************************************************)
EXTENDS Integers, Sequences

CONSTANTS
    count,      \* number of plans
    Graphs      \* the dependency lists considered

Plans == 1..count

ASSUME OrderAssumption ==
    /\ count \in Nat
    /\ Graphs \subseteq [Plans -> Seq(0..count)]

VARIABLES
    deps,       \* dependencies of every plan
    i,          \* loop of build_install_order
    state,      \* 0 unseen, 1 being visited, 2 done
    stack,      \* active calls of visit_install_plan, the innermost last
    order,      \* plans in installation order
    rc          \* "running", "ok" or "circular"

vars == <<deps, i, state, stack, order, rc>>

TypeOK ==
    /\ deps \in [Plans -> Seq(0..count)]
    /\ i \in 1..(count + 1)
    /\ state \in [Plans -> 0..2]
    /\ stack \in Seq([index : Plans, dep : Nat \ {0}])
    /\ order \in Seq(Plans)
    /\ rc \in {"running", "ok", "circular"}

Top == stack[Len(stack)]

\* The stack below the innermost call.
Below == SubSeq(stack, 1, Len(stack) - 1)

\* The plan the innermost call looks at.
Dependency == deps[Top.index][Top.dep]

Init ==
    /\ deps \in Graphs
    /\ i = 1
    /\ state = [p \in Plans |-> 0]
    /\ stack = <<>>
    /\ order = <<>>
    /\ rc = "running"

\* visit_install_plan(p) for an unseen plan.
Enter(p) ==
    /\ state[p] = 0
    /\ state' = [state EXCEPT ![p] = 1]
    /\ stack' = Append(stack, [index |-> p, dep |-> 1])
    /\ UNCHANGED <<deps, i, order, rc>>

\* The loop starts with plan i.
VisitNext ==
    /\ rc = "running" /\ stack = <<>> /\ i <= count
    /\ Enter(i)

\* Plan i was reached from an earlier one.
SkipNext ==
    /\ rc = "running" /\ stack = <<>> /\ i <= count
    /\ state[i] = 2
    /\ i' = i + 1
    /\ UNCHANGED <<deps, state, stack, order, rc>>

\* The innermost call has a dependency left to look at.
Looking == rc = "running" /\ stack # <<>> /\ Top.dep <= Len(deps[Top.index])

\* Faulty variant of VisitDependency: the dependant goes into the order first.
VisitEarly ==
    /\ Looking /\ Dependency # 0
    /\ state[Dependency] = 0
    /\ state' = [state EXCEPT ![Dependency] = 1]
    /\ stack' = Append(stack, [index |-> Dependency, dep |-> 1])
    /\ order' = Append(order, Top.index)
    /\ UNCHANGED <<deps, i, rc>>

VisitDependency == Looking /\ Dependency # 0 /\ Enter(Dependency)

\* Faulty variant of SkipDependency: the call does not go on to the next one.
SkipUnadvanced ==
    /\ Looking
    /\ Dependency # 0 => state[Dependency] = 2
    /\ UNCHANGED vars

\* The dependency is not planned, or done.
SkipDependency ==
    /\ Looking
    /\ Dependency # 0 => state[Dependency] = 2
    /\ stack' = Append(Below, [Top EXCEPT !.dep = @ + 1])
    /\ UNCHANGED <<deps, i, state, order, rc>>

\* Faulty variant of Circular: every plan seen before is taken for a cycle.
CircularIfSeen ==
    /\ Looking /\ Dependency # 0
    /\ state[Dependency] # 0
    /\ rc' = "circular"
    /\ UNCHANGED <<deps, i, state, stack, order>>

\* The dependency is being visited: -1 is returned through all calls.
Circular ==
    /\ Looking /\ Dependency # 0
    /\ state[Dependency] = 1
    /\ rc' = "circular"
    /\ UNCHANGED <<deps, i, state, stack, order>>

\* Faulty variant of Leave: the plan is not marked as done.
LeaveUnmarked ==
    /\ rc = "running" /\ stack # <<>> /\ Top.dep > Len(deps[Top.index])
    /\ state' = [state EXCEPT ![Top.index] = 0]
    /\ order' = Append(order, Top.index)
    /\ stack' = Below
    /\ UNCHANGED <<deps, i, rc>>

\* All dependencies are done: so is the plan, and the caller looks again at the
\* dependency it came from, which is now done.
Leave ==
    /\ rc = "running" /\ stack # <<>> /\ Top.dep > Len(deps[Top.index])
    /\ state' = [state EXCEPT ![Top.index] = 2]
    /\ order' = Append(order, Top.index)
    /\ stack' = Below
    /\ UNCHANGED <<deps, i, rc>>

Finish ==
    /\ rc = "running" /\ stack = <<>> /\ i = count + 1
    /\ rc' = "ok"
    /\ UNCHANGED <<deps, i, state, stack, order>>

Returned == rc # "running" /\ UNCHANGED vars

Next ==
    \/ VisitNext \/ SkipNext \/ VisitDependency \/ SkipDependency \/ Circular
    \/ Leave \/ Finish \/ Returned

Spec == Init /\ [][Next]_vars

FairSpec == Spec /\ WF_vars(Next)

-----------------------------------------------------------------------------
(* Properties.                                                             *)

\* "Return a dependency-first order": every planned dependency of a plan stands
\* before it, whatever the order of the plans and of their dependencies.
DependencyFirst ==
    \A k \in DOMAIN order :
        \A d \in DOMAIN deps[order[k]] :
            deps[order[k]][d] # 0 =>
                \E j \in 1..(k - 1) : order[j] = deps[order[k]][d]

\* A returned order names every plan exactly once: none is left out of the
\* installation and no hook runs twice.
EveryPlanOnce ==
    /\ \A j, k \in DOMAIN order : order[j] = order[k] => j = k
    /\ rc = "ok" => \A p \in Plans : \E k \in DOMAIN order : order[k] = p

\* p depends on q over at most n further plans.
Reaches[n \in Nat] ==
    [p \in Plans |-> {q \in Plans :
        \/ \E d \in DOMAIN deps[p] : deps[p][d] = q
        \/ n > 0 /\ \E r \in Reaches[n - 1][p] :
                        \E d \in DOMAIN deps[r] : deps[r][d] = q}]

\* A set of packages is refused as circular exactly when it is: a package shared
\* by two dependants is no cycle.
CircularIsCycle ==
    rc # "running" =>
        (rc = "circular" <=> \E p \in Plans : p \in Reaches[count][p])

\* The walk ends for every graph, cyclic ones included.
WalkEnds == <>(rc # "running")
=============================================================================
