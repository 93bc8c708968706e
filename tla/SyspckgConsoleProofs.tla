------------------------ MODULE SyspckgConsoleProofs ------------------------
(***************************************************************************)
(* Proofs of the properties of SyspckgConsole.                             *)
(*                                                                         *)
(* ControlInv relates the place of the command, the thread of the spinner, *)
(* libdnf5's thread, the lifetime of the activity and the status line.     *)
(* ProgressInv relates the counters to the plans of the repositories; it   *)
(* needs that a repository whose transfer failed is never loaded.          *)
(***************************************************************************)
EXTENDS SyspckgConsole, FiniteSetTheorems, TLAPS

Calls == {"acquire", "write", "exchange", "join"}

\* Where the command goes on when the call it makes has returned.
Cont == IF pc \in Calls THEN call.next ELSE pc

\* Places at which libdnf5's thread may run, in the lifetime of the metadata
\* activity, and at which the thread of any spinner may run.
Loading  == {"load", "ended", "count"}
Metadata == Loading \cup {"lock", "finish", "unset"}
Spinning == Metadata \cup {"resolving", "callbacks"}

\* Calls are not nested; stop() and the progress lines have few callers.
CallsKept ==
    /\ call.next \notin Calls
    /\ pc \in {"exchange", "join"} =>
            /\ call.what = "clear"
            /\ call.next \in {"thrown", "report", "resolved", "finished", "error"}
    /\ pc \in {"acquire", "write"} =>
            /\ call.what \in {"log", "draw", "clear"}
            /\ call.what = "draw" => call.next \in {"transfer", "arrived"}

\* The thread of a spinner lives while its flag is set or it is joined, as
\* long as the object, and only between its construction and its join.
WorkerKept ==
    /\ running_ => worker # "none"
    /\ worker # "none" => running_ \/ pc = "join"
    /\ pc = "join" => ~running_
    /\ worker # "none" => activity # "none"
    /\ worker # "none" => Cont \in Spinning \/ pc \in {"exchange", "join"}

\* The activity lives while its callbacks, and libdnf5's thread, may run.
ActivityKept ==
    /\ Cont \in Metadata => activity = "metadata"
    /\ loader # "none" => Cont \in Loading

\* A status line is there when the flag says so, and not where the command
\* prints without the mutex.
LineKept ==
    /\ status_line_active \in BOOLEAN
    /\ terminal = IF status_line_active THEN "status" ELSE "clean"
    /\ status_line_active => tty
    /\ pc \in {"print", "details"} => terminal = "clean"

ControlInv == CallsKept /\ WorkerKept /\ ActivityKept /\ LineKept /\ NoDangling

-----------------------------------------------------------------------------
LEMMA ControlInit ==
    ASSUME Init
    PROVE  ControlInv
BY Zenon DEF Init, ControlInv, CallsKept, WorkerKept, ActivityKept, LineKept, NoDangling,
       Cont, Calls, Loading, Metadata, Spinning

LEMMA ControlStep ==
    ASSUME ControlInv, [Next]_vars
    PROVE  ControlInv'
<1> USE DEF ControlInv, CallsKept, WorkerKept, ActivityKept, LineKept, NoDangling,
            Cont, Calls, Loading, Metadata, Spinning, Goto, screen, main, spinner,
            external
<1>1. CASE Acquire
  BY <1>1, ZenonT(60) DEF Acquire
<1>2. CASE Write
  BY <1>2, ZenonT(60) DEF Write, log_line, render_status_line, clear_status_line_locked, Garble
<1>3. CASE Exchange
  BY <1>3, Zenon DEF Exchange
<1>4. CASE Join
  BY <1>4, Zenon DEF Join
<1>5. CASE Create
  BY <1>5 DEF Create, Construct, PrintThen
<1>6. CASE LockSystemRepo
  BY <1>6, Zenon DEF LockSystemRepo
<1>7. CASE LockFails
  BY <1>7, Zenon DEF LockFails, Stop
<1>8. CASE \E r \in Repos : QueueMetadata(r) \/ Fetched(r)
  BY <1>8 DEF QueueMetadata, Fetched, PrintThen
<1>9. CASE repository_finished
  <2>1. ~ misused'
    BY <1>9, Zenon DEF repository_finished, Callback, repository_metadata
  <2> QED
    BY <1>9, <2>1 DEF repository_finished, Ended, PrintThen
<1>10. CASE Count
  BY <1>10 DEF Count, PrintThen
<1>11. CASE LoadRepos
  BY <1>11, Zenon DEF LoadRepos
<1>12. CASE LoadFails
  BY <1>12, Zenon DEF LoadFails, Stop
<1>13. CASE finish_processing
  BY <1>13, Zenon DEF finish_processing
<1>14. CASE Unset
  BY <1>14, Zenon DEF Unset, Stop
<1>15. CASE Report
  BY <1>15 DEF Report, PrintThen
<1>16. CASE Leave
  BY <1>16 DEF Leave, PrintThen
<1>17. CASE Resolve
  BY <1>17 DEF Resolve, Construct, PrintThen
<1>18. CASE Resolving
  BY <1>18 DEF Resolving, Stop
<1>19. CASE Resolved
  BY <1>19 DEF Resolved, PrintThen
<1>20. CASE PrintTransaction
  BY <1>20 DEF PrintTransaction, PrintThen, Garble
<1>21. CASE StartArchive
  BY <1>21, Zenon DEF StartArchive, Draw, PrintThen
<1>22. CASE EndArchive
  <2>1. ~ misused'
    BY <1>22, Zenon DEF EndArchive, Callback, repository_metadata
  <2> QED
    BY <1>22, <2>1 DEF EndArchive, Ended, PrintThen
<1>23. CASE Arrived
  BY <1>23, Zenon DEF Arrived, PrintThen
<1>24. CASE mirror_failure
  BY <1>24, Zenon DEF mirror_failure, PrintThen
<1>25. CASE Retry
  BY <1>25, Zenon DEF Retry, Draw, PrintThen
<1>26. CASE Downloaded
  BY <1>26 DEF Downloaded, PrintThen
<1>27. CASE RunTransaction
  BY <1>27 DEF RunTransaction, Construct, PrintThen
<1>28. CASE TransactionCallback
  BY <1>28, Zenon DEF TransactionCallback, PrintThen
<1>29. CASE TransactionEnds
  BY <1>29 DEF TransactionEnds, Stop
<1>30. CASE Finished
  BY <1>30 DEF Finished, PrintThen
<1>31. CASE Details
  BY <1>31, Zenon DEF Details, Garble
<1>32. CASE Loop
  BY <1>32, ZenonT(60) DEF Loop, OfObject
<1>33. CASE Look
  BY <1>33, ZenonT(60) DEF Look, OfObject
<1>34. CASE WorkerAcquire
  BY <1>34 DEF WorkerAcquire
<1>35. CASE WorkerDraw
  BY <1>35, Zenon DEF WorkerDraw, render_status_line
<1>36. CASE \E r \in Repos : TakeRepo(r)
  BY <1>36 DEF TakeRepo
<1>37. CASE processing_item
  BY <1>37, Zenon DEF processing_item
<1>38. CASE LoaderAcquire
  BY <1>38, Zenon DEF LoaderAcquire
<1>39. CASE LoaderWrite
  BY <1>39, Zenon DEF LoaderWrite, log_line, Garble
<1>40. CASE RepoLoaded
  BY <1>40, Zenon DEF RepoLoaded
<1>41. CASE UNCHANGED vars
  BY <1>41 DEF vars
<1> QED
  BY <1>1, <1>2, <1>3, <1>4, <1>5, <1>6, <1>7, <1>8, <1>9, <1>10, <1>11, <1>12, <1>13, <1>14,
     <1>15, <1>16, <1>17, <1>18, <1>19, <1>20, <1>21, <1>22, <1>23, <1>24, <1>25, <1>26, <1>27,
     <1>28, <1>29, <1>30, <1>31, <1>32, <1>33, <1>34, <1>35, <1>36, <1>37, <1>38, <1>39, <1>40,
     <1>41, ZenonT(60)
     DEF Next, Command, Spinner, Loader, Done

-----------------------------------------------------------------------------
(* What recalculate_processing_total_locked computes.                      *)

LEMMA LeastNat ==
    ASSUME NEW T \in SUBSET Nat, T # {}
    PROVE  \E x \in T : \A y \in T : x <= y
<1> DEFINE R == OpToRel(<, Nat)
<1>1. PICK x \in T : \A y \in T : ~ (<<y, x>> \in R)
  BY NatLessThanWellFounded, WFMin, Zenon
<1>2. R = {ss \in Nat \X Nat : ss[1] < ss[2]}
  BY Zenon DEF OpToRel
<1> HIDE DEF R
<1>3. ASSUME NEW y \in T PROVE x <= y
  <2>1. ~ (<<y, x>> \in R)
    BY <1>1, Zenon
  <2> QED
    BY <1>2, <2>1
<1> QED
  BY <1>3, Zenon

\* Induction over finite sets, on the set of the counterexamples.
LEMMA NoLeastSet ==
    ASSUME NEW S, IsFiniteSet(S), NEW Bad \in SUBSET (SUBSET S), {} \notin Bad,
           \A s \in Bad : s # {} => \E x \in s : s \ {x} \in Bad
    PROVE  Bad = {}
<1> SUFFICES ASSUME Bad # {} PROVE FALSE
  BY Zenon
<1> DEFINE T == {Cardinality(s) : s \in Bad}
<1>1. \A s \in SUBSET S : IsFiniteSet(s) /\ Cardinality(s) \in Nat
  BY FS_Subset, FS_CardinalityType, Zenon
<1>2. T \in SUBSET Nat /\ T # {}
  BY <1>1, Zenon
<1>3. PICK n \in T : \A m \in T : n <= m
  BY <1>2, LeastNat, Zenon
<1>4. PICK s \in Bad : Cardinality(s) = n
  BY <1>3, Zenon
<1>5. PICK x \in s : s \ {x} \in Bad
  BY <1>4, Zenon
<1>6. Cardinality(s \ {x}) = n - 1
  BY <1>1, <1>4, <1>5, FS_RemoveElement, Zenon
<1>7. n \in Nat /\ n <= n - 1
  BY <1>2, <1>3, <1>5, <1>6, Zenon
<1> QED
  BY <1>7

\* The planned items of a set of repositories, each with its repository.
Part(plans, s) == {i \in Repos \X Items : i[1] \in s /\ i[2] \in plans[i[1]]}

ArePlans(plans) ==
    plans \in [Repos -> SUBSET Items] /\ \A r \in Repos : IsFiniteSet(plans[r])

LEMMA OnePlan ==
    ASSUME NEW plans, ArePlans(plans), NEW x \in Repos
    PROVE  /\ IsFiniteSet({x} \X plans[x])
           /\ Cardinality({x} \X plans[x]) = Cardinality(plans[x])
<1>1. IsFiniteSet(plans[x]) /\ Cardinality(plans[x]) \in Nat
  BY FS_CardinalityType, Zenon DEF ArePlans
<1>2. IsFiniteSet({x}) /\ Cardinality({x}) = 1
  BY FS_Singleton, Zenon
<1>3. /\ IsFiniteSet({x} \X plans[x])
      /\ Cardinality({x} \X plans[x]) = Cardinality({x}) * Cardinality(plans[x])
  BY <1>1, <1>2, FS_Product, Zenon
<1> QED
  BY <1>1, <1>2, <1>3

LEMMA PartStep ==
    ASSUME NEW plans, ArePlans(plans), NEW s \in SUBSET Repos, NEW x \in s,
           IsFiniteSet(Part(plans, s \ {x}))
    PROVE  /\ IsFiniteSet(Part(plans, s))
           /\ Cardinality(Part(plans, s))
                = Cardinality(plans[x]) + Cardinality(Part(plans, s \ {x}))
<1> DEFINE A == Part(plans, s \ {x})
           B == {x} \X plans[x]
<1>1. IsFiniteSet(plans[x]) /\ plans[x] \in SUBSET Items /\ Cardinality(plans[x]) \in Nat
  BY FS_CardinalityType, Zenon DEF ArePlans
<1>2. IsFiniteSet(B) /\ Cardinality(B) = Cardinality(plans[x])
  BY OnePlan, Zenon
<1>3. Part(plans, s) = A \cup B
  BY <1>1, Zenon DEF Part
<1>4. A \cap B = {}
  BY Zenon DEF Part
<1>5. Cardinality(A) \in Nat /\ Cardinality({}) = 0
  BY FS_CardinalityType, FS_EmptySet, Zenon
<1> HIDE DEF A, B
<1>6. /\ IsFiniteSet(A \cup B)
      /\ Cardinality(A \cup B) = Cardinality(A) + Cardinality(B) - Cardinality(A \cap B)
  <2>1. IsFiniteSet(A)
    BY Zenon DEF A
  <2> QED
    BY <1>2, <2>1, FS_Union, Zenon
<1>7. /\ IsFiniteSet(Part(plans, s))
      /\ Cardinality(Part(plans, s)) = Cardinality(plans[x]) + Cardinality(A)
  <2>1. Cardinality(A \cap B) = 0
    BY <1>4, <1>5, Zenon
  <2>2. Cardinality(A \cup B) = Cardinality(plans[x]) + Cardinality(A)
    BY <1>1, <1>2, <1>5, <1>6, <2>1
  <2> QED
    BY <1>3, <1>6, <2>2, Zenon
<1> QED
  BY <1>7, Zenon DEF A

LEMMA PartFinite ==
    ASSUME NEW plans, ArePlans(plans)
    PROVE  \A s \in SUBSET Repos : IsFiniteSet(Part(plans, s))
<1> DEFINE Bad == {s \in SUBSET Repos : ~ IsFiniteSet(Part(plans, s))}
<1>1. IsFiniteSet(Part(plans, {}))
  <2>1. Part(plans, {}) = {}
    BY Zenon DEF Part
  <2> QED
    BY <2>1, FS_EmptySet, Zenon
<1>2. ASSUME NEW s \in Bad, s # {} PROVE \E x \in s : s \ {x} \in Bad
  BY <1>2, PartStep, Zenon
<1>3. Bad = {}
  <2>1. IsFiniteSet(Repos)
    BY ConsoleAssumption, Zenon
  <2>2. Bad \in SUBSET (SUBSET Repos) /\ {} \notin Bad
    BY <1>1, Zenon
  <2> HIDE DEF Bad
  <2> QED
    BY <1>2, <2>1, <2>2, NoLeastSet, Zenon
<1> QED
  BY <1>3, Zenon

\* The sum over the repositories that did not fail is the number of the items
\* planned for them.
LEMMA TotalIs ==
    ASSUME NEW plans, ArePlans(plans), NEW without \in SUBSET Repos
    PROVE  Total(plans, without) = Cardinality(Part(plans, Repos \ without))
<1> DEFINE S == Repos \ without
           Pick(s) == CHOOSE x \in s : TRUE
           Body(f) == [s \in SUBSET S |->
                IF s = {} THEN 0 ELSE Cardinality(plans[Pick(s)]) + f[s \ {Pick(s)}]]
           f0 == CHOOSE f : f = Body(f)
           g == [s \in SUBSET S |-> Cardinality(Part(plans, s))]
<1>1. Total(plans, without) = f0[S]
  BY Zenon DEF Total, MapThenSumSet, MapThenFoldSet
<1>2. Cardinality(Part(plans, {})) = 0
  <2>1. Part(plans, {}) = {}
    BY Zenon DEF Part
  <2> QED
    BY <2>1, FS_EmptySet, Zenon
<1>3. ASSUME NEW s \in SUBSET S, s # {}
      PROVE  /\ Pick(s) \in s /\ s \ {Pick(s)} \in SUBSET S
             /\ Cardinality(Part(plans, s))
                  = Cardinality(plans[Pick(s)]) + Cardinality(Part(plans, s \ {Pick(s)}))
  <2>1. Pick(s) \in s
    BY <1>3, Zenon
  <2> HIDE DEF Pick
  <2>2. s \in SUBSET Repos /\ s \ {Pick(s)} \in SUBSET Repos
    BY Zenon
  <2> QED
    BY <2>1, <2>2, PartFinite, PartStep
<1> HIDE DEF Pick
<1>4. g = Body(g)
  <2>1. ASSUME NEW s \in SUBSET S
        PROVE  g[s] = IF s = {} THEN 0
                      ELSE Cardinality(plans[Pick(s)]) + g[s \ {Pick(s)}]
    BY <1>2, <1>3, Zenon
  <2> QED
    BY <2>1, Zenon
<1>5. f0 = Body(f0)
  <2> HIDE DEF g
  <2> QED
    BY <1>4, Zenon
<1> HIDE DEF f0
<1>6. ASSUME NEW s \in SUBSET S
      PROVE  f0[s] = IF s = {} THEN 0
                     ELSE Cardinality(plans[Pick(s)]) + f0[s \ {Pick(s)}]
  BY <1>5, Zenon
<1> DEFINE Bad == {s \in SUBSET S : f0[s] # Cardinality(Part(plans, s))}
<1>7. {} \notin Bad
  BY <1>2, <1>6, Zenon
<1>8. ASSUME NEW s \in Bad, s # {} PROVE \E x \in s : s \ {x} \in Bad
  BY <1>3, <1>6, <1>8, Zenon
<1>9. Bad = {}
  <2>1. IsFiniteSet(S)
    BY ConsoleAssumption, FS_Subset, Zenon
  <2>2. Bad \in SUBSET (SUBSET S)
    BY Zenon
  <2> HIDE DEF Bad
  <2> QED
    BY <1>7, <1>8, <2>1, <2>2, NoLeastSet, Zenon
<1> QED
  BY <1>1, <1>9, Zenon

-----------------------------------------------------------------------------
(* The progress of the repositories.                                       *)

Fetching == Loading \cup {"create", "lock"}
Busy     == {"item", "acquire", "write"}

RepoTypes ==
    /\ loading \in [repo : Repos, items : Seq(Items)]
    /\ course \in [Repos -> {"waiting", "fetched", "loaded", "dropped"}]
    /\ ended \in [repo : Repos, success : BOOLEAN]
    /\ finished \in SUBSET Repos /\ failed \in SUBSET finished
    /\ completed_ \in Nat
    /\ processed_per_repo_ \in [Repos -> Nat]

\* A repository that failed is not loaded, and the transfers of one that is
\* loaded have ended.
CourseKept ==
    /\ Cont = "ended" => course[ended.repo] = "waiting"
    /\ \A r \in failed : course[r] = "dropped"
    /\ loader \in Busy => course[loading.repo] = "fetched"
    /\ Cont \in Fetching =>
            \A i \in processed_items_ : course[i[1]] \in {"fetched", "loaded"}

\* The total counts the plans of the repositories that did not fail; only
\* planned items of these are processed.
ItemsKept ==
    /\ ArePlans(plans_)
    /\ processing_total_ = Total(plans_, failed)
    /\ processed_items_ \in SUBSET Part(plans_, Repos \ failed)

Of(items, r) == {i \in items : i[1] = r}

CountsKept ==
    /\ shown.processed <= shown.total
    /\ \A r \in Repos : processed_per_repo_[r] = Cardinality(Of(processed_items_, r))
    /\ completed_ + (IF Cont = "count" THEN 1 ELSE 0) = Cardinality(finished)

ProgressInv == RepoTypes /\ CourseKept /\ ItemsKept /\ CountsKept

\* A step that is about something else.
Quiet ==
    /\ UNCHANGED <<loading, course, ended, finished, failed, completed_, progress, shown>>
    /\ Cont' = "ended" => Cont = "ended"
    /\ Cont' = "count" <=> Cont = "count"
    /\ Cont' \in Fetching => Cont \in Fetching
    /\ loader' \in Busy => loader \in Busy

LEMMA QuietOrProgress ==
    ASSUME ControlInv, [Next]_vars
    PROVE  \/ Quiet
           \/ \E r \in Repos : QueueMetadata(r) \/ Fetched(r)
           \/ repository_finished
           \/ Count
           \/ \E r \in Repos : TakeRepo(r)
           \/ processing_item
           \/ RepoLoaded
           \/ finish_processing
           \/ Look
<1>0. CallsKept
  BY Zenon DEF ControlInv
<1> USE <1>0 DEF CallsKept, Quiet, Cont, Calls, Loading, Fetching, Busy, Goto, main,
            spinner, external, repos
<1>1. CASE Acquire
  BY <1>1, Zenon DEF Acquire
<1>2. CASE Write
  BY <1>2, Zenon DEF Write
<1>3. CASE Exchange
  BY <1>3, Zenon DEF Exchange
<1>4. CASE Join
  BY <1>4, Zenon DEF Join
<1>5. CASE Create
  BY <1>5 DEF Create, Construct, PrintThen
<1>6. CASE LockSystemRepo
  BY <1>6, Zenon DEF LockSystemRepo
<1>7. CASE LockFails
  BY <1>7, Zenon DEF LockFails, Stop
<1>8. CASE LoadRepos
  BY <1>8, Zenon DEF LoadRepos
<1>9. CASE LoadFails
  BY <1>9, Zenon DEF LoadFails, Stop
<1>10. CASE Unset
  BY <1>10, Zenon DEF Unset, Stop
<1>11. CASE Report
  BY <1>11 DEF Report, PrintThen
<1>12. CASE Leave
  BY <1>12 DEF Leave, PrintThen
<1>13. CASE Resolve
  BY <1>13 DEF Resolve, Construct, PrintThen
<1>14. CASE Resolving
  BY <1>14 DEF Resolving, Stop
<1>15. CASE Resolved
  BY <1>15 DEF Resolved, PrintThen
<1>16. CASE PrintTransaction
  BY <1>16 DEF PrintTransaction, PrintThen
<1>17. CASE StartArchive
  BY <1>17, Zenon DEF StartArchive, Draw, PrintThen
<1>18. CASE EndArchive
  BY <1>18 DEF EndArchive, PrintThen
<1>19. CASE Arrived
  BY <1>19, Zenon DEF Arrived, PrintThen
<1>20. CASE mirror_failure
  BY <1>20, Zenon DEF mirror_failure, PrintThen
<1>21. CASE Retry
  BY <1>21, Zenon DEF Retry, Draw, PrintThen
<1>22. CASE Downloaded
  BY <1>22 DEF Downloaded, PrintThen
<1>23. CASE RunTransaction
  BY <1>23 DEF RunTransaction, Construct, PrintThen
<1>24. CASE TransactionCallback
  BY <1>24, Zenon DEF TransactionCallback, PrintThen
<1>25. CASE TransactionEnds
  BY <1>25 DEF TransactionEnds, Stop
<1>26. CASE Finished
  BY <1>26 DEF Finished, PrintThen
<1>27. CASE Details
  BY <1>27, Zenon DEF Details
<1>28. CASE Loop
  BY <1>28, Zenon DEF Loop
<1>29. CASE WorkerAcquire
  BY <1>29, Zenon DEF WorkerAcquire
<1>30. CASE WorkerDraw
  BY <1>30, Zenon DEF WorkerDraw
<1>31. CASE LoaderAcquire
  BY <1>31, Zenon DEF LoaderAcquire
<1>32. CASE LoaderWrite
  BY <1>32, Zenon DEF LoaderWrite
<1>33. CASE UNCHANGED vars
  BY <1>33, Zenon DEF vars, progress
<1> QED
  BY <1>1, <1>2, <1>3, <1>4, <1>5, <1>6, <1>7, <1>8, <1>9, <1>10, <1>11, <1>12, <1>13, <1>14,
     <1>15, <1>16, <1>17, <1>18, <1>19, <1>20, <1>21, <1>22, <1>23, <1>24, <1>25, <1>26, <1>27,
     <1>28, <1>29, <1>30, <1>31, <1>32, <1>33, ZenonT(60)
     DEF Next, Command, Spinner, Loader, Done

\* The items processed are at most the total.
LEMMA ProcessedFacts ==
    ASSUME RepoTypes, ItemsKept
    PROVE  /\ IsFiniteSet(processed_items_)
           /\ Cardinality(processed_items_) \in Nat /\ processing_total_ \in Nat
           /\ Cardinality(processed_items_) <= processing_total_
<1> DEFINE P == Part(plans_, Repos \ failed)
<1>1. ArePlans(plans_) /\ failed \in SUBSET Repos /\ Repos \ failed \in SUBSET Repos
  BY Zenon DEF RepoTypes, ItemsKept
<1>2. IsFiniteSet(P) /\ processing_total_ = Cardinality(P)
  BY <1>1, PartFinite, TotalIs, Zenon DEF ItemsKept
<1>3. processed_items_ \in SUBSET P
  BY Zenon DEF ItemsKept
<1> HIDE DEF P
<1> QED
  BY <1>2, <1>3, FS_Subset, FS_CardinalityType, Zenon

LEMMA ProgressInit ==
    ASSUME Init
    PROVE  ProgressInv
<1> USE DEF Init
<1>1. RepoTypes
  BY DEF RepoTypes
<1>2. CourseKept
  BY DEF CourseKept, Busy
<1>3. ItemsKept
  <2>1. Planned \in SUBSET Items /\ IsFiniteSet(Planned)
    BY ConsoleAssumption, Zenon DEF Items
  <2>2. ArePlans(plans_)
    BY <2>1, Zenon DEF ArePlans
  <2> QED
    BY <2>2, Zenon DEF ItemsKept
<1>4. CountsKept
  <2>1. Cardinality({}) = 0
    BY FS_EmptySet, Zenon
  <2>2. \A r \in Repos : Of(processed_items_, r) = {}
    BY Zenon DEF Of
  <2>3. Cont = "create"
    BY Zenon DEF Cont, Calls
  <2>4. \A r \in Repos : processed_per_repo_[r] = Cardinality(Of(processed_items_, r))
    BY <2>1, <2>2, Zenon
  <2>5. completed_ + (IF Cont = "count" THEN 1 ELSE 0) = Cardinality(finished)
    BY <2>1, <2>3
  <2>6. shown.processed <= shown.total
    OBVIOUS
  <2> QED
    BY <2>4, <2>5, <2>6, Zenon DEF CountsKept
<1> QED
  BY <1>1, <1>2, <1>3, <1>4, Zenon DEF ProgressInv

LEMMA QuietStep ==
    ASSUME ProgressInv, Quiet
    PROVE  ProgressInv'
<1> USE DEF ProgressInv, Quiet, progress
<1>1. RepoTypes'
  BY Zenon DEF RepoTypes
<1>2. CourseKept'
  BY Zenon DEF CourseKept
<1>3. ItemsKept'
  BY Zenon DEF ItemsKept
<1>4. CountsKept'
  BY Zenon DEF CountsKept
<1> QED
  BY <1>1, <1>2, <1>3, <1>4, Zenon

LEMMA QueueStep ==
    ASSUME ProgressInv, NEW r \in Repos, QueueMetadata(r)
    PROVE  ProgressInv'
<1> USE DEF QueueMetadata, PrintThen, repos, progress, spinner
<1>0. Cont = "load" /\ Cont' = "ended"
  BY Zenon DEF Cont, Calls
<1>1. RepoTypes'
  BY DEF ProgressInv, RepoTypes
<1>2. CourseKept'
  BY <1>0 DEF ProgressInv, CourseKept, Fetching, Loading
<1>3. ItemsKept'
  BY Zenon DEF ProgressInv, ItemsKept
<1>4. CountsKept'
  BY <1>0, Zenon DEF ProgressInv, CountsKept
<1> QED
  BY <1>1, <1>2, <1>3, <1>4, Zenon DEF ProgressInv

LEMMA FetchedStep ==
    ASSUME ProgressInv, NEW r \in Repos, Fetched(r)
    PROVE  ProgressInv'
<1> USE DEF Fetched, main, repos, progress, spinner
<1>0. Cont = "load" /\ Cont' = "load"
  BY Zenon DEF Cont, Calls
<1>1. RepoTypes'
  BY Zenon DEF ProgressInv, RepoTypes
<1>2. CourseKept'
  BY <1>0 DEF ProgressInv, CourseKept, RepoTypes, Fetching, Loading
<1>3. ItemsKept'
  BY Zenon DEF ProgressInv, ItemsKept
<1>4. CountsKept'
  BY <1>0, Zenon DEF ProgressInv, CountsKept
<1> QED
  BY <1>1, <1>2, <1>3, <1>4, Zenon DEF ProgressInv

LEMMA FinishedStep ==
    ASSUME ProgressInv, repository_finished
    PROVE  ProgressInv'
<1> DEFINE r == ended.repo
<1>0. /\ r \in Repos /\ course[r] = "waiting" /\ r \notin failed
      /\ Cont = "ended" /\ Cont' \in {"count", "load"}
      /\ Cont' = "count" <=> r \notin finished
  BY DEF ProgressInv, RepoTypes, CourseKept, Cont, Calls, repository_finished, Goto,
         PrintThen
<1>1. /\ finished' = finished \cup {r}
      /\ failed' = failed \/ (failed' = failed \cup {r} /\ ~ ended.success)
      /\ processing_total_' = Total(plans_, failed')
  BY Zenon DEF ProgressInv, RepoTypes, ItemsKept, repository_finished
<1>2. RepoTypes'
  BY <1>0, <1>1, Zenon DEF ProgressInv, RepoTypes, repository_finished, Ended
<1>3. CourseKept'
  <2>1. \A s \in Repos : course'[s] = IF s = r /\ ~ ended.success THEN "dropped" ELSE course[s]
    BY Zenon DEF ProgressInv, RepoTypes, repository_finished, Ended
  <2>2. \A s \in failed' : course'[s] = "dropped"
    BY <1>0, <1>1, <2>1 DEF ProgressInv, RepoTypes, CourseKept
  <2>3. loader \in Busy => loading.repo \in Repos /\ course[loading.repo] = "fetched"
    BY Zenon DEF ProgressInv, RepoTypes, CourseKept
  <2>4. \A i \in processed_items_ : i[1] \in Repos /\ course[i[1]] \in {"fetched", "loaded"}
    BY <1>0, Zenon DEF ProgressInv, CourseKept, ItemsKept, Part, Fetching, Loading
  <2> QED
    BY <1>0, <2>1, <2>2, <2>3, <2>4, Zenon DEF CourseKept, repository_finished
<1>4. ItemsKept'
  <2>1. plans_' = plans_ /\ processed_items_' = processed_items_
    BY Zenon DEF repository_finished
  <2>2. \A i \in processed_items_ : i[1] # r
    BY <1>0, Zenon DEF ProgressInv, CourseKept, Fetching, Loading
  <2>3. processed_items_ \in SUBSET Part(plans_, Repos \ failed')
    BY <1>1, <2>2, Zenon DEF ProgressInv, ItemsKept, Part
  <2> QED
    BY <1>1, <2>1, <2>3, Zenon DEF ProgressInv, ItemsKept
<1>5. CountsKept'
  <2>1. IsFiniteSet(finished) /\ Cardinality(finished) \in Nat
    BY ConsoleAssumption, FS_Subset, FS_CardinalityType, Zenon DEF ProgressInv, RepoTypes
  <2>2. Cardinality(finished') = IF r \in finished THEN Cardinality(finished)
                                 ELSE Cardinality(finished) + 1
    BY <1>1, <2>1, FS_AddElement, Zenon
  <2>3. completed_' = completed_ /\ completed_ = Cardinality(finished)
    BY <1>0, <2>1 DEF ProgressInv, RepoTypes, CountsKept, repository_finished
  <2>4. /\ UNCHANGED <<shown, processed_per_repo_, processed_items_>>
        /\ Cont' = "count" <=> r \notin finished
    BY <1>0, Zenon DEF repository_finished, spinner
  <2> QED
    BY <2>1, <2>2, <2>3, <2>4 DEF ProgressInv, CountsKept
<1> QED
  BY <1>2, <1>3, <1>4, <1>5, Zenon DEF ProgressInv

LEMMA CountStep ==
    ASSUME ProgressInv, Count
    PROVE  ProgressInv'
<1> USE DEF Count, external, progress, spinner
<1>0. Cont = "count" /\ Cont' = "load"
  BY DEF Cont, Calls, Goto, PrintThen
<1>1. RepoTypes'
  BY DEF ProgressInv, RepoTypes
<1>2. CourseKept'
  BY <1>0, Zenon DEF ProgressInv, CourseKept, Fetching, Loading
<1>3. ItemsKept'
  BY Zenon DEF ProgressInv, ItemsKept
<1>4. CountsKept'
  BY <1>0 DEF ProgressInv, CountsKept, RepoTypes
<1> QED
  BY <1>1, <1>2, <1>3, <1>4, Zenon DEF ProgressInv

LEMMA TakeStep ==
    ASSUME ProgressInv, NEW r \in Repos, TakeRepo(r)
    PROVE  ProgressInv'
<1> USE DEF TakeRepo, main, repos, progress, spinner
<1>0. Cont' = Cont
  BY Zenon DEF Cont
<1>1. RepoTypes'
  <2>1. PICK l \in Loads : loading' = [repo |-> r, items |-> l]
    BY Zenon
  <2>2. l \in Seq(Items)
    <3>1. l \in Seq(STRING)
      BY ConsoleAssumption, Zenon
    <3>2. \A k \in DOMAIN l : l[k] \in Items
      BY DEF Items
    <3> QED
      BY <3>1, <3>2
  <2> QED
    BY <2>1, <2>2, Zenon DEF ProgressInv, RepoTypes
<1>2. CourseKept'
  BY <1>0 DEF ProgressInv, CourseKept
<1>3. ItemsKept'
  BY Zenon DEF ProgressInv, ItemsKept
<1>4. CountsKept'
  BY <1>0, Zenon DEF ProgressInv, CountsKept
<1> QED
  BY <1>1, <1>2, <1>3, <1>4, Zenon DEF ProgressInv

LEMMA LoadedStep ==
    ASSUME ProgressInv, RepoLoaded
    PROVE  ProgressInv'
<1> USE DEF RepoLoaded, main, repos, progress, spinner
<1>0. Cont' = Cont
  BY Zenon DEF Cont
<1>1. RepoTypes'
  BY Zenon DEF ProgressInv, RepoTypes
<1>2. CourseKept'
  BY <1>0 DEF ProgressInv, CourseKept, RepoTypes, Busy
<1>3. ItemsKept'
  BY Zenon DEF ProgressInv, ItemsKept
<1>4. CountsKept'
  BY <1>0, Zenon DEF ProgressInv, CountsKept
<1> QED
  BY <1>1, <1>2, <1>3, <1>4, Zenon DEF ProgressInv

LEMMA LookStep ==
    ASSUME ProgressInv, Look
    PROVE  ProgressInv'
<1> USE DEF Look, main, repos, progress, external
<1>0. Cont' = Cont
  BY Zenon DEF Cont
<1>1. RepoTypes'
  BY Zenon DEF ProgressInv, RepoTypes
<1>2. CourseKept'
  BY <1>0, Zenon DEF ProgressInv, CourseKept
<1>3. ItemsKept'
  BY Zenon DEF ProgressInv, ItemsKept
<1>4. CountsKept'
  BY <1>0, ProcessedFacts, Zenon DEF ProgressInv, CountsKept
<1> QED
  BY <1>1, <1>2, <1>3, <1>4, Zenon DEF ProgressInv

LEMMA ItemStep ==
    ASSUME ProgressInv, processing_item
    PROVE  ProgressInv'
<1> DEFINE r == loading.repo
           item == Head(loading.items)
<1>0. /\ r \in Repos /\ item \in Items /\ course[r] = "fetched" /\ r \notin failed
      /\ loading' \in [repo : Repos, items : Seq(Items)] /\ loading'.repo = r
  <2>1. loading.items \in Seq(Items) /\ loading.items # <<>>
    BY Zenon DEF ProgressInv, RepoTypes, processing_item
  <2>2. item \in Items /\ Tail(loading.items) \in Seq(Items)
    BY <2>1
  <2>3. r \in Repos /\ course[r] = "fetched" /\ r \notin failed
    BY Zenon DEF ProgressInv, RepoTypes, CourseKept, Busy, processing_item
  <2>4. loading' = [loading EXCEPT !.items = Tail(loading.items)]
    BY Zenon DEF processing_item
  <2> QED
    BY <2>2, <2>3, <2>4, Zenon DEF ProgressInv, RepoTypes
<1>1. /\ plans_' = [plans_ EXCEPT ![r] = plans_[r] \cup {item}]
      /\ processing_total_' = IF item \in plans_[r] THEN processing_total_
                              ELSE Total(plans_', failed)
      /\ processed_items_' = processed_items_ \cup {<<r, item>>}
      /\ processed_per_repo_' =
            IF <<r, item>> \in processed_items_ THEN processed_per_repo_
            ELSE [processed_per_repo_ EXCEPT ![r] = processed_per_repo_[r] + 1]
      /\ loader = "item"
      /\ UNCHANGED <<course, ended, finished, failed, completed_, shown>>
  BY Zenon DEF processing_item, spinner, repos
<1>2. Cont' = Cont
  BY Zenon DEF Cont, processing_item, main
<1>3. RepoTypes'
  BY <1>0, <1>1 DEF ProgressInv, RepoTypes
<1>4. CourseKept'
  BY <1>0, <1>1, <1>2 DEF ProgressInv, CourseKept, Busy
<1>5. ItemsKept'
  <2>1. ArePlans(plans_) /\ IsFiniteSet(plans_[r])
    BY <1>0, Zenon DEF ProgressInv, ItemsKept, ArePlans
  <2>2. IsFiniteSet(plans_[r] \cup {item})
    BY <2>1, FS_AddElement, Zenon
  <2>3. ArePlans(plans_')
    BY <1>0, <1>1, <2>1, <2>2, Zenon DEF ArePlans
  <2>4. processing_total_' = Total(plans_', failed)
    <3>1. CASE item \in plans_[r]
      <4>1. plans_' = plans_
        BY <1>1, <2>1, <3>1, Zenon DEF ArePlans
      <4> QED
        BY <1>1, <3>1, <4>1, Zenon DEF ProgressInv, ItemsKept
    <3> QED
      BY <1>1, <3>1, Zenon
  <2>5. processed_items_' \in SUBSET Part(plans_', Repos \ failed)
    <3>1. <<r, item>> \in Part(plans_', Repos \ failed)
      BY <1>0, <1>1, <2>1, Zenon DEF Part, ArePlans
    <3>2. Part(plans_, Repos \ failed) \subseteq Part(plans_', Repos \ failed)
      BY <1>0, <1>1, <2>1, Zenon DEF Part, ArePlans
    <3> QED
      BY <1>1, <3>1, <3>2, Zenon DEF ProgressInv, ItemsKept
  <2> QED
    BY <1>1, <2>3, <2>4, <2>5, Zenon DEF ItemsKept
<1>6. CountsKept'
  <2>1. IsFiniteSet(Of(processed_items_, r)) /\ Cardinality(Of(processed_items_, r)) \in Nat
    BY ProcessedFacts, FS_Subset, FS_CardinalityType, Zenon DEF ProgressInv, Of
  <2>2. /\ Of(processed_items_', r) = Of(processed_items_, r) \cup {<<r, item>>}
        /\ \A s \in Repos \ {r} : Of(processed_items_', s) = Of(processed_items_, s)
        /\ <<r, item>> \in Of(processed_items_, r) <=> <<r, item>> \in processed_items_
    BY <1>1 DEF Of
  <2>3. Cardinality(Of(processed_items_', r)) =
            IF <<r, item>> \in processed_items_ THEN Cardinality(Of(processed_items_, r))
            ELSE Cardinality(Of(processed_items_, r)) + 1
    <3> DEFINE O == Of(processed_items_, r)
               i == <<r, item>>
    <3>1. IsFiniteSet(O) /\ Of(processed_items_', r) = O \cup {i}
      BY <2>1, <2>2, Zenon
    <3>2. i \in O <=> i \in processed_items_
      BY <2>2, Zenon
    <3> HIDE DEF O, i
    <3>3. Cardinality(O \cup {i}) = IF i \in O THEN Cardinality(O) ELSE Cardinality(O) + 1
      BY <3>1, FS_AddElement, Zenon
    <3>4. Cardinality(Of(processed_items_', r)) =
            IF i \in processed_items_ THEN Cardinality(O) ELSE Cardinality(O) + 1
      BY <3>1, <3>2, <3>3, Zenon
    <3> QED
      BY <3>4, Zenon DEF O, i
  <2>4. \A s \in Repos : processed_per_repo_'[s] = Cardinality(Of(processed_items_', s))
    BY <1>0, <1>1, <2>2, <2>3, Zenon DEF ProgressInv, CountsKept, RepoTypes
  <2> QED
    BY <1>1, <1>2, <2>4, Zenon DEF ProgressInv, CountsKept
<1> QED
  BY <1>3, <1>4, <1>5, <1>6, Zenon DEF ProgressInv

LEMMA FinishStep ==
    ASSUME ProgressInv, finish_processing
    PROVE  ProgressInv'
<1> DEFINE P == Part(plans_, Repos \ failed)
<1>0. Cont = "finish" /\ Cont' = "unset"
  BY Zenon DEF Cont, Calls, finish_processing, Goto
<1>1. processed_items_' = P
  BY Zenon DEF ProgressInv, ItemsKept, finish_processing, Part
<1>2. /\ processed_per_repo_' = [r \in Repos |->
            IF r \in failed THEN processed_per_repo_[r] ELSE Cardinality(plans_[r])]
      /\ UNCHANGED <<plans_, processing_total_, shown, loader, loading, course, ended,
                     finished, failed, completed_>>
  BY Zenon DEF finish_processing, spinner, external, repos
<1>3. RepoTypes'
  <2>1. \A r \in Repos : Cardinality(plans_[r]) \in Nat
    BY FS_CardinalityType, Zenon DEF ProgressInv, ItemsKept, ArePlans
  <2> QED
    BY <1>2, <2>1, Zenon DEF ProgressInv, RepoTypes
<1>4. CourseKept'
  BY <1>0, <1>2, Zenon DEF ProgressInv, CourseKept, Fetching, Loading
<1>5. ItemsKept'
  BY <1>1, <1>2, Zenon DEF ProgressInv, ItemsKept
<1>6. CountsKept'
  <2>1. ASSUME NEW r \in Repos
        PROVE  processed_per_repo_'[r] = Cardinality(Of(processed_items_', r))
    <3>1. CASE r \in failed
      <4>1. Of(processed_items_', r) = Of(processed_items_, r)
        BY <1>1, <3>1, Zenon DEF ProgressInv, ItemsKept, Of, Part
      <4> QED
        BY <1>2, <3>1, <4>1, Zenon DEF ProgressInv, CountsKept
    <3>2. CASE r \notin failed
      <4>1. Of(processed_items_', r) = {r} \X plans_[r]
        BY <1>1, <3>2, Zenon DEF ProgressInv, ItemsKept, ArePlans, Of, Part
      <4>2. Cardinality({r} \X plans_[r]) = Cardinality(plans_[r])
        BY OnePlan, Zenon DEF ProgressInv, ItemsKept
      <4> QED
        BY <1>2, <3>2, <4>1, <4>2, Zenon
    <3> QED
      BY <3>1, <3>2, Zenon
  <2> QED
    BY <1>0, <1>2, <2>1, Zenon DEF ProgressInv, CountsKept
<1> QED
  BY <1>3, <1>4, <1>5, <1>6, Zenon DEF ProgressInv

-----------------------------------------------------------------------------
(* The theorems.                                                           *)

LEMMA ControlHolds == Spec => []ControlInv
<1>1. Init => ControlInv
  BY ControlInit, Zenon
<1>2. ControlInv /\ [Next]_vars => ControlInv'
  BY ControlStep, Zenon
<1> QED
  BY <1>1, <1>2, PTL DEF Spec

LEMMA ProgressHolds == Spec => []ProgressInv
<1>1. Init => ProgressInv
  BY ProgressInit, Zenon
<1>2. ControlInv /\ ProgressInv /\ [Next]_vars => ProgressInv'
  <2> SUFFICES ASSUME ControlInv, ProgressInv, [Next]_vars PROVE ProgressInv'
    BY Zenon
  <2> QED
    BY QuietOrProgress, QuietStep, QueueStep, FetchedStep, FinishedStep, CountStep,
       TakeStep, ItemStep, LoadedStep, FinishStep, LookStep, Zenon
<1> QED
  BY <1>1, <1>2, ControlHolds, PTL DEF Spec

\* The lines of the log, the tables, the question and the error details never
\* land behind a status line, in every interleaving of the three threads and on
\* the paths of the exceptions.
THEOREM NotGarbledHolds == Spec => []NotGarbled
<1>1. ControlInv => NotGarbled
  BY Zenon DEF ControlInv, LineKept, NotGarbled
<1> QED
  BY <1>1, ControlHolds, PTL

\* No thread, callback or logger uses a MetadataActivity or a spinner that is
\* destroyed: stop() joins the thread on every path to a destructor, and
\* libdnf5's thread has ended on every path that leaves load_repos.
THEOREM NoDanglingHolds == Spec => []NoDangling
<1>1. ControlInv => NoDangling
  BY Zenon DEF ControlInv
<1> QED
  BY <1>1, ControlHolds, PTL

\* The progress that is drawn never exceeds its total and its counters agree,
\* for any number of repositories, items and transfers.
THEOREM ProgressConsistentHolds == Spec => []ProgressConsistent
<1>1. ProgressInv => ProgressConsistent
  <2> SUFFICES ASSUME ProgressInv PROVE ProgressConsistent
    BY Zenon
  <2>1. Cardinality(processed_items_) <= processing_total_
    BY ProcessedFacts, Zenon DEF ProgressInv
  <2>2. /\ shown.processed <= shown.total
        /\ \A r \in Repos :
            processed_per_repo_[r] = Cardinality({i \in processed_items_ : i[1] = r})
    BY Zenon DEF ProgressInv, CountsKept, Of
  <2>3. completed_ <= Cardinality(Repos)
    <3>1. /\ Cardinality(finished) <= Cardinality(Repos)
          /\ Cardinality(finished) \in Nat /\ Cardinality(Repos) \in Nat
      BY ConsoleAssumption, FS_Subset, FS_CardinalityType, Zenon DEF ProgressInv, RepoTypes
    <3> QED
      BY <3>1 DEF ProgressInv, RepoTypes, CountsKept
  <2> QED
    BY <2>1, <2>2, <2>3, Zenon DEF ProgressConsistent
<1> QED
  BY <1>1, ProgressHolds, PTL

=============================================================================
