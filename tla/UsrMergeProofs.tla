--------------------------- MODULE UsrMergeProofs ---------------------------
(* What the merge of a legacy tree below /usr keeps, for all trees, any    *)
(* number of bootstraps, every order of the entries and every failure.     *)
EXTENDS UsrMerge, SequenceTheorems, WellFoundedInduction, TLAPS

Frame == [dir : Nodes, todo : SUBSET Paths]

-----------------------------------------------------------------------------
(* The invariant.                                                          *)

\* Where the merge is says what the legacy path is, and the walk of the legacy
\* path itself is the outermost one.
PathAtPc ==
    /\ pc \in {"idle", "link", "done"} => stack = <<>>
    /\ pc = "enter" => (at = Root <=> stack = <<>>)
    /\ pc \in {"copy", "remove"} => (at = Root <=> stack = <<>>)
    /\ \A k \in DOMAIN stack : stack[k].dir = Root <=> k = 1
    /\ pc = "enter" \/ stack # <<>> => path = "dir"
    /\ pc = "remove" /\ at = Root => path = "other"
    /\ pc = "copy" => at # Root
    /\ pc = "link" => path = "gone"
    /\ pc = "done" => path = "link"

\* The entry that a step works on.
EntryAtPc ==
    /\ pc = "enter" => legacy[at] = "dir"
    /\ pc = "copy" => legacy[at] # "dir" /\ usr[at] = "torn"
    /\ pc = "remove" /\ at # Root => legacy[at] # "dir" /\ usr[at] = legacy[at]
    /\ pc \in {"copy", "remove"} /\ at # Root /\ legacy[at] = "absent" =>
           legacy0[at] = "absent"
    /\ \A k \in DOMAIN stack : usr[stack[k].dir] = "dir"

\* An entry of the legacy tree stays as it was until it goes, and then there is
\* something below /usr; what comes there has come from the legacy tree.
EntriesKept ==
    \A p \in Paths :
        /\ legacy[p] \in {"absent", legacy0[p]}
        /\ usr0[p] # "absent" => usr[p] = usr0[p]
        /\ usr0[p] = "absent" => usr[p] \in {"absent", "torn", legacy0[p]}
        /\ legacy[p] = "absent" /\ legacy0[p] # "absent" => usr[p] # "absent"

IInv ==
    /\ TypeOK
    /\ IsTree(legacy)
    /\ PathAtPc
    /\ EntryAtPc
    /\ EntriesKept

-----------------------------------------------------------------------------
(* Lemmas.                                                                 *)

\* The induction over paths is an argument about a shortest one.
LEMMA LeastNat ==
    ASSUME NEW T \in SUBSET Nat, T # {}
    PROVE  \E x \in T : \A y \in T : x <= y
<1> DEFINE R == OpToRel(<, Nat)
<1>1. PICK x \in T : \A y \in T : ~ (<<y, x>> \in R)
  BY NatLessThanWellFounded, WFMin, Zenon
<1>2. R = {ss \in Nat \X Nat : ss[1] < ss[2]}
  BY Zenon DEF OpToRel
<1> HIDE DEF R
<1>3. ASSUME NEW y \in T PROVE x <= y
  <2>1. ~ (<<y, x>> \in R)
    BY <1>1, Zenon
  <2> QED
    BY <1>2, <2>1
<1> QED
  BY <1>3, Zenon

LEMMA FrontFacts ==
    ASSUME NEW S, NEW s \in Seq(S), s # <<>>
    PROVE  /\ Front(s) \in Seq(S)
           /\ Len(s) \in Nat \ {0} /\ DOMAIN s = 1..Len(s)
           /\ Len(Front(s)) = Len(s) - 1 /\ DOMAIN Front(s) = 1..(Len(s) - 1)
           /\ \A k \in 1..(Len(s) - 1) : Front(s)[k] = s[k]
           /\ Last(s) = s[Len(s)] /\ Last(s) \in S
<1>1. Len(s) \in Nat /\ Len(s) # 0 /\ DOMAIN s = 1..Len(s)
  BY EmptySeq, LenProperties, Zenon
<1>2. \A i \in 1..Len(s) : s[i] \in S
  BY ElementOfSeq, Zenon
<1>3. /\ Front(s) \in Seq(S)
      /\ Len(Front(s)) = Len(s) - 1
      /\ \A k \in 1..(Len(s) - 1) : Front(s)[k] = s[k]
  BY <1>1, <1>2, SubSeqProperties DEF Front
<1>4. DOMAIN Front(s) = 1..(Len(s) - 1)
  BY <1>3, LenProperties, Zenon
<1> QED
  BY <1>1, <1>2, <1>3, <1>4 DEF Last

\* A tree without its root is empty.
LEMMA NoTreeWithoutRoot ==
    ASSUME NEW tree, IsTree(tree), tree[Root] # "dir"
    PROVE  \A p \in Paths : tree[p] = "absent"
<1> SUFFICES ASSUME NEW q \in Paths, tree[q] # "absent" PROVE FALSE
  BY Zenon
<1> DEFINE There == {p \in Paths : tree[p] # "absent"}
           T == {Len(p) : p \in There}
<1>1. \A p \in Paths : p \in Seq(STRING) /\ p # <<>> /\ Len(p) \in Nat
  <2>1. \A p \in Paths : p \in Seq(STRING) /\ p # <<>>
    BY UsrMergeAssumption, Zenon
  <2> QED
    BY <2>1, LenProperties, Zenon
<1>2. T \in SUBSET Nat /\ T # {}
  BY <1>1, Zenon
<1>3. PICK n \in T : \A m \in T : n <= m
  BY <1>2, LeastNat, Zenon
<1>4. PICK p \in There : Len(p) = n
  BY <1>3, Zenon
<1>5. tree[Front(p)] = "dir" /\ Front(p) \in Paths
  BY <1>4, UsrMergeAssumption, Zenon DEF IsTree, Root
<1>6. Front(p) \in There /\ Len(Front(p)) = n - 1 /\ n \in Nat
  BY <1>1, <1>4, <1>5, FrontFacts, Zenon
<1> QED
  BY <1>3, <1>6

LEMMA AppendFacts ==
    ASSUME NEW S, NEW s \in Seq(S), NEW e \in S
    PROVE  /\ Append(s, e) \in Seq(S) /\ Append(s, e) # <<>>
           /\ DOMAIN s = 1..Len(s) /\ Len(s) \in Nat
           /\ DOMAIN Append(s, e) = 1..(Len(s) + 1)
           /\ \A k \in 1..Len(s) : Append(s, e)[k] = s[k]
           /\ Append(s, e)[Len(s) + 1] = e
<1>1. DOMAIN s = 1..Len(s) /\ Len(s) \in Nat
  BY LenProperties, Zenon
<1>2. /\ Append(s, e) \in Seq(S) /\ Append(s, e) # <<>>
      /\ Len(Append(s, e)) = Len(s) + 1
      /\ \A k \in 1..Len(s) : Append(s, e)[k] = s[k]
      /\ Append(s, e)[Len(s) + 1] = e
  BY AppendProperties
<1> QED
  BY <1>1, <1>2, LenProperties, Zenon

\* Taking an entry leaves the directories of the walk as they are.
LEMMA EntryFacts ==
    ASSUME TypeOK, NEW p \in Paths, Entry(p)
    PROVE  /\ stack' \in Seq(Frame) /\ stack # <<>> /\ stack' # <<>>
           /\ DOMAIN stack' = DOMAIN stack
           /\ \A k \in DOMAIN stack : stack'[k].dir = stack[k].dir
           /\ at' = p /\ pc = "walk" /\ p # Root /\ p \in Nodes
<1> DEFINE e == [Top EXCEPT !.todo = @ \ {p}]
           f == Front(stack)
<1>1. stack \in Seq(Frame) /\ stack # <<>> /\ stack' = Append(f, e)
  BY Zenon DEF TypeOK, Frame, Entry
<1>2. /\ f \in Seq(Frame)
      /\ Len(stack) \in Nat \ {0} /\ DOMAIN stack = 1..Len(stack)
      /\ Len(f) = Len(stack) - 1
      /\ \A k \in 1..(Len(stack) - 1) : f[k] = stack[k]
      /\ Top = stack[Len(stack)] /\ Top \in Frame
  BY <1>1, FrontFacts, Zenon DEF Top
<1>3. e \in Frame /\ e.dir = Top.dir
  BY <1>2, Zenon DEF Frame
<1> HIDE DEF e, f
<1>4. /\ stack' \in Seq(Frame) /\ stack' # <<>>
      /\ DOMAIN stack' = 1..(Len(f) + 1)
      /\ \A k \in 1..Len(f) : stack'[k] = f[k]
      /\ stack'[Len(f) + 1] = e
  <2>1. f \in Seq(Frame) /\ e \in Frame
    BY <1>2, <1>3, Zenon
  <2>2. /\ Append(f, e) \in Seq(Frame) /\ Append(f, e) # <<>>
        /\ DOMAIN Append(f, e) = 1..(Len(f) + 1)
        /\ \A k \in 1..Len(f) : Append(f, e)[k] = f[k]
        /\ Append(f, e)[Len(f) + 1] = e
    BY <2>1, AppendFacts
  <2> QED
    BY <1>1, <2>2, Zenon
<1>5. DOMAIN stack' = DOMAIN stack
  BY <1>2, <1>4
<1>6. ASSUME NEW k \in DOMAIN stack PROVE stack'[k].dir = stack[k].dir
  <2>1. CASE k \in 1..(Len(stack) - 1)
    BY <2>1, <1>2, <1>4, Zenon
  <2>2. CASE k = Len(stack)
    BY <2>2, <1>2, <1>3, <1>4
  <2> QED
    BY <2>1, <2>2, <1>2
<1>7. at' = p /\ pc = "walk" /\ p # Root /\ p \in Nodes
  BY UsrMergeAssumption, Zenon DEF Entry, Root, Nodes
<1> QED
  BY <1>1, <1>4, <1>5, <1>6, <1>7, Zenon

LEMMA EnterFacts ==
    ASSUME TypeOK, Enter
    PROVE  /\ stack' \in Seq(Frame) /\ stack' # <<>>
           /\ Len(stack) \in Nat /\ DOMAIN stack = 1..Len(stack)
           /\ DOMAIN stack' = 1..(Len(stack) + 1)
           /\ \A k \in 1..Len(stack) : stack'[k] = stack[k]
           /\ stack'[Len(stack) + 1].dir = at
           /\ stack = <<>> <=> Len(stack) = 0
<1> DEFINE e == [dir |-> at, todo |-> Children(legacy, at)]
<1>1. stack \in Seq(Frame) /\ e \in Frame /\ e.dir = at /\ stack' = Append(stack, e)
  BY Zenon DEF TypeOK, Frame, Enter, Children
<1> HIDE DEF e
<1>2. stack = <<>> <=> Len(stack) = 0
  BY <1>1, EmptySeq, Zenon
<1> QED
  BY <1>1, <1>2, AppendFacts

LEMMA LeaveFacts ==
    ASSUME TypeOK, PathAtPc, RemoveDirectory
    PROVE  /\ stack' \in Seq(Frame) /\ stack # <<>>
           /\ DOMAIN stack' \subseteq DOMAIN stack
           /\ \A k \in DOMAIN stack' : stack'[k] = stack[k]
           /\ Top \in Frame /\ \E k \in DOMAIN stack : Top = stack[k]
           /\ Top.dir = Root <=> stack' = <<>>
<1>1. stack \in Seq(Frame) /\ stack # <<>> /\ stack' = Front(stack)
  BY Zenon DEF TypeOK, Frame, RemoveDirectory
<1>2. /\ Front(stack) \in Seq(Frame)
      /\ Len(stack) \in Nat \ {0} /\ DOMAIN stack = 1..Len(stack)
      /\ Len(Front(stack)) = Len(stack) - 1
      /\ DOMAIN Front(stack) = 1..(Len(stack) - 1)
      /\ \A k \in 1..(Len(stack) - 1) : Front(stack)[k] = stack[k]
      /\ Top = stack[Len(stack)] /\ Top \in Frame
  BY <1>1, FrontFacts, Zenon DEF Top
<1>3. Front(stack) = <<>> <=> Len(Front(stack)) = 0
  BY <1>2, EmptySeq, Zenon
<1>4. Top.dir = Root <=> Len(stack) = 1
  BY <1>2 DEF PathAtPc
<1> QED
  BY <1>1, <1>2, <1>3, <1>4

LEMMA InitInv == Init => IInv
<1> SUFFICES ASSUME Init PROVE IInv
  BY Zenon
<1> USE DEF Init
<1>1. TypeOK
  <2>1. Root \in Nodes /\ stack \in Seq([dir : Nodes, todo : SUBSET Paths])
    BY DEF Nodes
  <2>2. usr \in [Nodes -> Entries]
    BY Zenon DEF Entries
  <2>3. runs \in 0..MaxRuns
    BY UsrMergeAssumption
  <2> QED
    BY <2>1, <2>2, <2>3, Zenon DEF TypeOK
<1>2. PathAtPc /\ EntryAtPc
  BY DEF PathAtPc, EntryAtPc
<1>3. EntriesKept
  BY Zenon DEF EntriesKept, Nodes
<1> QED
  BY <1>1, <1>2, <1>3, Zenon DEF IInv

LEMMA TypeStep ==
    ASSUME IInv, [Next]_vars
    PROVE  TypeOK'
<1>0. TypeOK /\ Root \in Nodes /\ Paths \subseteq Nodes
  BY Zenon DEF IInv, Nodes, Root
<1> USE DEF TypeOK, Goto, disk, past, walk
<1>1. CASE Begin
  <2>1. pc' \in {"enter", "done", "remove", "link"} /\ at' = Root /\ stack' = stack
    BY <1>0, <1>1, Zenon DEF Begin
  <2>2. runs' \in 0..MaxRuns
    BY <1>0, <1>1, UsrMergeAssumption DEF Begin
  <2> QED
    BY <1>0, <1>1, <2>1, <2>2, Zenon DEF Begin
<1>2. CASE RemoveLink
  <2>1. path = "other"
    BY <1>2, Zenon DEF RemoveLink, IInv, PathAtPc
  <2> QED
    BY <1>0, <1>2, <2>1, Zenon DEF RemoveLink
<1>3. CASE CreateTarget
  <2>1. usr' \in [Nodes -> Entries]
    BY <1>0, <1>3, Zenon DEF CreateTarget, Entries
  <2> QED
    BY <1>0, <1>3, <2>1, Zenon DEF CreateTarget
<1>4. CASE CreateLink
  <2>1. path = "gone"
    BY <1>4, Zenon DEF CreateLink, IInv, PathAtPc
  <2> QED
    BY <1>0, <1>4, <2>1, Zenon DEF CreateLink
<1>5. CASE Enter
  <2>1. stack' \in Seq(Frame)
    BY <1>0, <1>5, EnterFacts, Zenon
  <2>2. usr' \in [Nodes -> Entries]
    BY <1>0, <1>5, Zenon DEF Enter, Entries
  <2> QED
    BY <1>0, <1>5, <2>1, <2>2, Zenon DEF Enter, Frame
<1>6. CASE CopyFile
  <2>1. usr' \in [Nodes -> Entries]
    BY <1>0, <1>6, Zenon DEF CopyFile, Entries
  <2> QED
    BY <1>0, <1>6, <2>1, Zenon DEF CopyFile
<1>7. CASE RemoveMigrated
  BY <1>0, <1>7, Zenon DEF RemoveMigrated
<1>8. CASE RemoveDirectory
  <2>1. stack' \in Seq(Frame) /\ Top \in Frame
    BY <1>0, <1>8, LeaveFacts, Zenon DEF IInv
  <2>2. Top.dir \in Nodes
    BY <2>1, Zenon DEF Frame
  <2>3. /\ path' = IF Top.dir = Root THEN "gone" ELSE path
        /\ pc' = IF Top.dir = Root THEN "link" ELSE pc
    BY <1>8, Zenon DEF RemoveDirectory
  <2>4. Top.dir # Root => path' = path /\ legacy'[Root] = legacy[Root]
    BY <1>0, <1>8, <2>2, <2>3, Zenon DEF RemoveDirectory
  <2>5. Top.dir = Root => path' = "gone" /\ legacy'[Root] = "absent"
    BY <1>0, <1>8, <2>2, <2>3, Zenon DEF RemoveDirectory
  <2>6. legacy' \in [Nodes -> {"absent", "dir"} \cup Moved]
    BY <1>0, <1>8, <2>2, Zenon DEF RemoveDirectory
  <2> QED
    BY <1>0, <1>8, <2>1, <2>3, <2>4, <2>5, <2>6, Zenon DEF RemoveDirectory, Frame
<1>9. CASE Throw
  BY <1>0, <1>9 DEF Throw
<1>10. CASE Return
  BY <1>0, <1>10, Zenon DEF Return
<1>11. CASE UNCHANGED vars
  BY <1>0, <1>11, Zenon DEF vars
<1>12. ASSUME NEW p \in Paths, EnterChild(p) PROVE TypeOK'
  <2>1. stack' \in Seq(Frame) /\ at' \in Nodes /\ p # Root /\ p \in Nodes /\ pc = "walk"
    BY <1>0, <1>12, EntryFacts, Zenon DEF EnterChild
  <2>2. usr' \in [Nodes -> Entries]
    BY <1>0, <1>12, <2>1, Zenon DEF EnterChild, Entries
  <2>3. /\ legacy' \in [Nodes -> {"absent", "dir"} \cup Moved]
        /\ legacy'[Root] = legacy[Root]
    BY <1>0, <1>12, <2>1, Zenon DEF EnterChild
  <2> QED
    BY <1>0, <1>12, <2>1, <2>2, <2>3, Zenon DEF EnterChild, Frame
<1>13. ASSUME NEW p \in Paths, Duplicate(p) PROVE TypeOK'
  <2>1. stack' \in Seq(Frame) /\ at' \in Nodes /\ p # Root /\ p \in Nodes /\ pc = "walk"
    BY <1>0, <1>13, EntryFacts, Zenon DEF Duplicate
  <2>2. usr' \in [Nodes -> Entries]
    BY <1>0, <1>13, <2>1, Zenon DEF Duplicate, Entries
  <2>3. /\ legacy' \in [Nodes -> {"absent", "dir"} \cup Moved]
        /\ legacy'[Root] = legacy[Root]
    BY <1>0, <1>13, <2>1, Zenon DEF Duplicate
  <2> QED
    BY <1>0, <1>13, <2>1, <2>2, <2>3, Zenon DEF Duplicate, Frame
<1>14. ASSUME NEW p \in Paths, Rename(p) PROVE TypeOK'
  <2>1. stack' \in Seq(Frame) /\ at' \in Nodes /\ p # Root /\ p \in Nodes /\ pc = "walk"
    BY <1>0, <1>14, EntryFacts, Zenon DEF Rename
  <2>2. usr' \in [Nodes -> Entries]
    BY <1>0, <1>14, <2>1, Zenon DEF Rename, Entries
  <2>3. /\ legacy' \in [Nodes -> {"absent", "dir"} \cup Moved]
        /\ legacy'[Root] = legacy[Root]
    BY <1>0, <1>14, <2>1, Zenon DEF Rename
  <2> QED
    BY <1>0, <1>14, <2>1, <2>2, <2>3, Zenon DEF Rename, Frame
<1>15. ASSUME NEW p \in Paths, RenameFails(p) PROVE TypeOK'
  <2>1. stack' \in Seq(Frame) /\ at' \in Nodes /\ p # Root /\ p \in Nodes /\ pc = "walk"
    BY <1>0, <1>15, EntryFacts, Zenon DEF RenameFails
  <2>2. usr' \in [Nodes -> Entries]
    BY <1>0, <1>15, <2>1, Zenon DEF RenameFails, Entries
  <2>3. /\ legacy' \in [Nodes -> {"absent", "dir"} \cup Moved]
        /\ legacy'[Root] = legacy[Root]
    BY <1>0, <1>15, <2>1, Zenon DEF RenameFails
  <2> QED
    BY <1>0, <1>15, <2>1, <2>2, <2>3, Zenon DEF RenameFails, Frame
<1> QED
  BY <1>1, <1>2, <1>3, <1>4, <1>5, <1>6, <1>7, <1>8, <1>9, <1>10, <1>11, <1>12, <1>13, <1>14,
     <1>15, Zenon DEF Next, Step, Ended

LEMMA TreeStep ==
    ASSUME IInv, [Next]_vars
    PROVE  IsTree(legacy)'
<1>0. TypeOK /\ IsTree(legacy) /\ EntryAtPc /\ PathAtPc /\ Root \in Nodes /\ Paths \subseteq Nodes
  BY Zenon DEF IInv, Nodes, Root
\* Removing what is not a directory leaves a tree.
<1>00. ASSUME NEW q \in Nodes, legacy[q] # "dir", legacy' = [legacy EXCEPT ![q] = "absent"]
       PROVE  IsTree(legacy')
  BY <1>0, <1>00, UsrMergeAssumption, Zenon DEF TypeOK, IsTree, Nodes, Root
<1> USE DEF IsTree, Goto, disk, past, walk
<1>1. CASE Begin
  BY <1>0, <1>1, Zenon DEF Begin
<1>2. CASE RemoveLink
  BY <1>0, <1>2, Zenon DEF RemoveLink
<1>3. CASE CreateTarget
  BY <1>0, <1>3, Zenon DEF CreateTarget
<1>4. CASE CreateLink
  BY <1>0, <1>4, Zenon DEF CreateLink
<1>5. CASE Enter
  BY <1>0, <1>5, Zenon DEF Enter
<1>6. CASE CopyFile
  BY <1>0, <1>6, Zenon DEF CopyFile
<1>7. CASE RemoveMigrated
  <2>1. at \in Nodes /\ legacy[at] # "dir"
    BY <1>0, <1>7, Zenon DEF RemoveMigrated, EntryAtPc, TypeOK
  <2> QED
    BY <1>00, <1>7, <2>1, Zenon DEF RemoveMigrated
<1>8. CASE RemoveDirectory
  <2>1. Top.dir \in Nodes
    BY <1>0, <1>8, LeaveFacts, Zenon DEF Frame
  <2>2. \A q \in Paths : Front(q) = Top.dir => legacy[q] = "absent"
    BY <1>8, Zenon DEF RemoveDirectory, Children
  <2> QED
    BY <1>0, <1>8, <2>1, <2>2, UsrMergeAssumption, Zenon DEF RemoveDirectory, TypeOK, Nodes, Root
<1>9. CASE Throw
  BY <1>0, <1>9, Zenon DEF Throw
<1>10. CASE Return
  BY <1>0, <1>10, Zenon DEF Return
<1>11. CASE UNCHANGED vars
  BY <1>0, <1>11, Zenon DEF vars
<1>12. ASSUME NEW p \in Paths, EnterChild(p) PROVE IsTree(legacy)'
  BY <1>0, <1>12, Zenon DEF EnterChild
<1>13. ASSUME NEW p \in Paths, Duplicate(p) PROVE IsTree(legacy)'
  BY <1>0, <1>00, <1>13, Zenon DEF Duplicate
<1>14. ASSUME NEW p \in Paths, Rename(p) PROVE IsTree(legacy)'
  BY <1>0, <1>00, <1>14, Zenon DEF Rename
<1>15. ASSUME NEW p \in Paths, RenameFails(p) PROVE IsTree(legacy)'
  BY <1>0, <1>15, Zenon DEF RenameFails
<1> QED
  BY <1>1, <1>2, <1>3, <1>4, <1>5, <1>6, <1>7, <1>8, <1>9, <1>10, <1>11, <1>12, <1>13, <1>14,
     <1>15, Zenon DEF Next, Step, Ended

LEMMA PathStep ==
    ASSUME IInv, [Next]_vars
    PROVE  PathAtPc'
<1>0. TypeOK /\ PathAtPc /\ Root \in Nodes
  BY Zenon DEF IInv, Nodes, Root
<1> USE DEF PathAtPc, Goto, disk, past, walk
<1>1. CASE Begin
  <2>1. /\ pc' = "enter" => path = "dir"
        /\ pc' = "done" => path = "link"
        /\ pc' = "remove" => path = "other"
        /\ pc' = "link" => path = "gone"
        /\ pc' \in {"enter", "done", "remove", "link"}
    BY <1>0, <1>1, Zenon DEF Begin, TypeOK
  <2>2. path' = path /\ at' = Root /\ stack = <<>> /\ stack' = <<>>
    BY <1>0, <1>1, Zenon DEF Begin
  <2> QED
    BY <2>1, <2>2
<1>2. CASE RemoveLink
  BY <1>0, <1>2, Zenon DEF RemoveLink
<1>3. CASE CreateTarget
  BY <1>0, <1>3, Zenon DEF CreateTarget
<1>4. CASE CreateLink
  BY <1>0, <1>4, Zenon DEF CreateLink
<1>5. CASE Enter
  <2>1. /\ stack' # <<>>
        /\ Len(stack) \in Nat /\ DOMAIN stack = 1..Len(stack)
        /\ DOMAIN stack' = 1..(Len(stack) + 1)
        /\ \A k \in 1..Len(stack) : stack'[k] = stack[k]
        /\ stack'[Len(stack) + 1].dir = at
        /\ at = Root <=> Len(stack) = 0
    BY <1>0, <1>5, EnterFacts, Zenon DEF Enter
  <2>2. \A k \in DOMAIN stack' : stack'[k].dir = Root <=> k = 1
    BY <1>0, <2>1
  <2> QED
    BY <1>0, <1>5, <2>1, <2>2, Zenon DEF Enter
<1>6. CASE CopyFile
  BY <1>0, <1>6, Zenon DEF CopyFile
<1>7. CASE RemoveMigrated
  BY <1>0, <1>7, Zenon DEF RemoveMigrated
<1>8. CASE RemoveDirectory
  <2>1. /\ DOMAIN stack' \subseteq DOMAIN stack /\ stack # <<>>
        /\ \A k \in DOMAIN stack' : stack'[k] = stack[k]
        /\ Top.dir = Root <=> stack' = <<>>
    BY <1>0, <1>8, LeaveFacts, Zenon
  <2>2. \A k \in DOMAIN stack' : stack'[k].dir = Root <=> k = 1
    BY <1>0, <2>1, Zenon
  <2> QED
    BY <1>0, <1>8, <2>1, <2>2, Zenon DEF RemoveDirectory
<1>9. CASE Throw
  BY <1>0, <1>9 DEF Throw
<1>10. CASE Return
  BY <1>0, <1>10, Zenon DEF Return
<1>11. CASE UNCHANGED vars
  BY <1>0, <1>11, Zenon DEF vars
<1>12. ASSUME NEW p \in Paths, EnterChild(p) PROVE PathAtPc'
  <2>1. /\ stack # <<>> /\ stack' # <<>> /\ DOMAIN stack' = DOMAIN stack
        /\ \A k \in DOMAIN stack : stack'[k].dir = stack[k].dir
        /\ at' = p /\ pc = "walk" /\ p # Root
    BY <1>0, <1>12, EntryFacts, Zenon DEF EnterChild
  <2> QED
    BY <1>0, <1>12, <2>1, Zenon DEF EnterChild
<1>13. ASSUME NEW p \in Paths, Duplicate(p) PROVE PathAtPc'
  <2>1. /\ stack # <<>> /\ stack' # <<>> /\ DOMAIN stack' = DOMAIN stack
        /\ \A k \in DOMAIN stack : stack'[k].dir = stack[k].dir
        /\ at' = p /\ pc = "walk" /\ p # Root
    BY <1>0, <1>13, EntryFacts, Zenon DEF Duplicate
  <2> QED
    BY <1>0, <1>13, <2>1, Zenon DEF Duplicate
<1>14. ASSUME NEW p \in Paths, Rename(p) PROVE PathAtPc'
  <2>1. /\ stack # <<>> /\ stack' # <<>> /\ DOMAIN stack' = DOMAIN stack
        /\ \A k \in DOMAIN stack : stack'[k].dir = stack[k].dir
        /\ at' = p /\ pc = "walk" /\ p # Root
    BY <1>0, <1>14, EntryFacts, Zenon DEF Rename
  <2> QED
    BY <1>0, <1>14, <2>1, Zenon DEF Rename
<1>15. ASSUME NEW p \in Paths, RenameFails(p) PROVE PathAtPc'
  <2>1. /\ stack # <<>> /\ stack' # <<>> /\ DOMAIN stack' = DOMAIN stack
        /\ \A k \in DOMAIN stack : stack'[k].dir = stack[k].dir
        /\ at' = p /\ pc = "walk" /\ p # Root
    BY <1>0, <1>15, EntryFacts, Zenon DEF RenameFails
  <2> QED
    BY <1>0, <1>15, <2>1, Zenon DEF RenameFails
<1> QED
  BY <1>1, <1>2, <1>3, <1>4, <1>5, <1>6, <1>7, <1>8, <1>9, <1>10, <1>11, <1>12, <1>13, <1>14,
     <1>15, Zenon DEF Next, Step, Ended

LEMMA EntryStep ==
    ASSUME IInv, [Next]_vars
    PROVE  EntryAtPc'
<1>0. TypeOK /\ PathAtPc /\ EntryAtPc /\ EntriesKept /\ Root \in Nodes /\ Paths \subseteq Nodes
  BY Zenon DEF IInv, Nodes, Root
<1>00. \A k \in DOMAIN stack : stack[k].dir \in Nodes
  <2>1. stack \in Seq(Frame)
    BY <1>0, Zenon DEF TypeOK, Frame
  <2>2. \A k \in DOMAIN stack : stack[k] \in Frame
    BY <2>1, ElementOfSeq, LenProperties, Zenon
  <2> QED
    BY <2>2, Zenon DEF Frame
<1> USE DEF EntryAtPc, Goto, disk, past, walk
<1>1. CASE Begin
  <2>1. /\ pc' = "enter" => path = "dir"
        /\ pc' \in {"enter", "done", "remove", "link"}
    BY <1>0, <1>1, Zenon DEF Begin, TypeOK
  <2>2. at' = Root /\ stack' = <<>> /\ UNCHANGED <<legacy, usr, legacy0>>
    BY <1>0, <1>1, Zenon DEF Begin, PathAtPc
  <2> QED
    BY <1>0, <2>1, <2>2 DEF TypeOK
<1>2. CASE RemoveLink
  BY <1>0, <1>2, Zenon DEF RemoveLink, PathAtPc
<1>3. CASE CreateTarget
  BY <1>0, <1>3 DEF CreateTarget, PathAtPc
<1>4. CASE CreateLink
  BY <1>0, <1>4, Zenon DEF CreateLink, PathAtPc
<1>5. CASE Enter
  <2>1. /\ Len(stack) \in Nat /\ DOMAIN stack = 1..Len(stack)
        /\ DOMAIN stack' = 1..(Len(stack) + 1)
        /\ \A k \in 1..Len(stack) : stack'[k] = stack[k]
        /\ stack'[Len(stack) + 1].dir = at
    BY <1>0, <1>5, EnterFacts, Zenon
  <2>2. at \in Nodes /\ usr'[at] = "dir" /\ \A q \in Nodes : usr[q] = "dir" => usr'[q] = "dir"
    BY <1>0, <1>5, Zenon DEF Enter, TypeOK
  <2>3. \A k \in DOMAIN stack' : usr'[stack'[k].dir] = "dir"
    BY <1>0, <1>00, <2>1, <2>2
  <2> QED
    BY <1>5, <2>3, Zenon DEF Enter
<1>6. CASE CopyFile
  <2>1. at \in Nodes /\ usr[at] = "torn" /\ usr'[at] = legacy[at]
    BY <1>0, <1>6, Zenon DEF CopyFile, TypeOK
  <2>2. \A k \in DOMAIN stack : usr'[stack[k].dir] = "dir"
    BY <1>0, <1>00, <1>6, <2>1, Zenon DEF CopyFile, TypeOK
  <2> QED
    BY <1>0, <1>6, <2>1, <2>2, Zenon DEF CopyFile
<1>7. CASE RemoveMigrated
  BY <1>0, <1>7, Zenon DEF RemoveMigrated, PathAtPc
<1>8. CASE RemoveDirectory
  <2>1. /\ DOMAIN stack' \subseteq DOMAIN stack
        /\ \A k \in DOMAIN stack' : stack'[k] = stack[k]
    BY <1>0, <1>8, LeaveFacts, Zenon
  <2> QED
    BY <1>0, <1>8, <2>1, Zenon DEF RemoveDirectory
<1>9. CASE Throw
  BY <1>0, <1>9 DEF Throw, PathAtPc
<1>10. CASE Return
  BY <1>0, <1>10, Zenon DEF Return, PathAtPc
<1>11. CASE UNCHANGED vars
  BY <1>0, <1>11, Zenon DEF vars
<1>12. ASSUME NEW p \in Paths, EnterChild(p) PROVE EntryAtPc'
  <2>1. /\ DOMAIN stack' = DOMAIN stack
        /\ \A k \in DOMAIN stack : stack'[k].dir = stack[k].dir
        /\ at' = p /\ pc = "walk" /\ p \in Nodes
    BY <1>0, <1>12, EntryFacts, Zenon DEF EnterChild
  <2>2. \A k \in DOMAIN stack' : usr'[stack'[k].dir] = "dir"
    BY <1>0, <1>00, <1>12, <2>1, Zenon DEF EnterChild, TypeOK
  <2> QED
    BY <1>0, <1>12, <2>1, <2>2, Zenon DEF EnterChild
<1>13. ASSUME NEW p \in Paths, Duplicate(p) PROVE EntryAtPc'
  <2>1. /\ DOMAIN stack' = DOMAIN stack
        /\ \A k \in DOMAIN stack : stack'[k].dir = stack[k].dir
        /\ at' = p /\ pc = "walk" /\ p \in Nodes
    BY <1>0, <1>13, EntryFacts, Zenon DEF Duplicate
  <2>2. \A k \in DOMAIN stack' : usr'[stack'[k].dir] = "dir"
    BY <1>0, <1>00, <1>13, <2>1, Zenon DEF Duplicate, TypeOK
  <2> QED
    BY <1>0, <1>13, <2>1, <2>2, Zenon DEF Duplicate
<1>14. ASSUME NEW p \in Paths, Rename(p) PROVE EntryAtPc'
  <2>1. /\ DOMAIN stack' = DOMAIN stack
        /\ \A k \in DOMAIN stack : stack'[k].dir = stack[k].dir
        /\ at' = p /\ pc = "walk" /\ p \in Nodes
    BY <1>0, <1>14, EntryFacts, Zenon DEF Rename
  <2>2. \A k \in DOMAIN stack' : usr'[stack'[k].dir] = "dir"
    BY <1>0, <1>00, <1>14, <2>1, Zenon DEF Rename, TypeOK
  <2> QED
    BY <1>0, <1>14, <2>1, <2>2, Zenon DEF Rename
<1>15. ASSUME NEW p \in Paths, RenameFails(p) PROVE EntryAtPc'
  <2>1. /\ DOMAIN stack' = DOMAIN stack
        /\ \A k \in DOMAIN stack : stack'[k].dir = stack[k].dir
        /\ at' = p /\ pc = "walk" /\ p \in Nodes
    BY <1>0, <1>15, EntryFacts, Zenon DEF RenameFails
  <2>2. \A k \in DOMAIN stack' : usr'[stack'[k].dir] = "dir"
    <3>1. usr[p] = "absent" /\ \A q \in Nodes : q # p => usr'[q] = usr[q]
      BY <1>0, <1>15, <2>1, Zenon DEF RenameFails, TypeOK
    <3> QED
      BY <1>0, <1>00, <2>1, <3>1, Zenon
  <2>3. /\ legacy[p] # "dir" /\ usr[p] = "absent" /\ legacy' = legacy /\ legacy0' = legacy0
        /\ pc' = "copy" => usr'[p] = "torn"
        /\ pc' = "remove" => usr'[p] = legacy[p]
        /\ pc' \in {"copy", "remove"}
    BY <1>0, <1>15, <2>1, Zenon DEF RenameFails, TypeOK
  <2>4. legacy[p] = "absent" => legacy0[p] = "absent"
    BY <1>0, <2>3, Zenon DEF EntriesKept
  <2> QED
    BY <2>1, <2>2, <2>3, <2>4, Zenon
<1> QED
  BY <1>1, <1>2, <1>3, <1>4, <1>5, <1>6, <1>7, <1>8, <1>9, <1>10, <1>11, <1>12, <1>13, <1>14,
     <1>15, Zenon DEF Next, Step, Ended

LEMMA KeptStep ==
    ASSUME IInv, [Next]_vars
    PROVE  EntriesKept'
<1>0. TypeOK /\ PathAtPc /\ EntryAtPc /\ EntriesKept /\ Root \in Nodes /\ Paths \subseteq Nodes
  BY Zenon DEF IInv, Nodes, Root
<1>00. Root \notin Paths
  BY UsrMergeAssumption, Zenon DEF Root
<1> USE DEF EntriesKept, Goto, disk, past, walk, TypeOK
<1>1. CASE Begin
  BY <1>0, <1>1, Zenon DEF Begin
<1>2. CASE RemoveLink
  BY <1>0, <1>2, Zenon DEF RemoveLink
<1>3. CASE CreateTarget
  BY <1>0, <1>00, <1>3, Zenon DEF CreateTarget
<1>4. CASE CreateLink
  BY <1>0, <1>4, Zenon DEF CreateLink
<1>5. CASE Enter
  <2>1. at \in Nodes /\ legacy[at] = "dir" /\ usr[at] \in {"absent", "dir"}
    BY <1>0, <1>5, Zenon DEF Enter, EntryAtPc
  <2> QED
    BY <1>0, <1>5, <2>1, Zenon DEF Enter
<1>6. CASE CopyFile
  <2>1. /\ at \in Nodes /\ at # Root /\ usr[at] = "torn"
        /\ legacy[at] = "absent" => legacy0[at] = "absent"
    BY <1>0, <1>6, Zenon DEF CopyFile, EntryAtPc, PathAtPc
  <2>2. usr0[at] # "torn"
    BY <1>0, <2>1, Zenon DEF Own
  <2> QED
    BY <1>0, <1>6, <2>1, <2>2, Zenon DEF CopyFile
<1>7. CASE RemoveMigrated
  <2>1. /\ at \in Nodes /\ usr[at] = legacy[at]
        /\ legacy[at] = "absent" => legacy0[at] = "absent"
    BY <1>0, <1>7, Zenon DEF RemoveMigrated, EntryAtPc
  <2> QED
    BY <1>0, <1>7, <2>1, Zenon DEF RemoveMigrated
<1>8. CASE RemoveDirectory
  <2>1. Top.dir \in Nodes /\ usr[Top.dir] = "dir"
    BY <1>0, <1>8, LeaveFacts, Zenon DEF Frame, EntryAtPc
  <2> QED
    BY <1>0, <1>8, <2>1, Zenon DEF RemoveDirectory
<1>9. CASE Throw
  BY <1>0, <1>9, Zenon DEF Throw
<1>10. CASE Return
  BY <1>0, <1>10, Zenon DEF Return
<1>11. CASE UNCHANGED vars
  BY <1>0, <1>11, Zenon DEF vars
<1>12. ASSUME NEW p \in Paths, EnterChild(p) PROVE EntriesKept'
  BY <1>0, <1>12, Zenon DEF EnterChild
<1>13. ASSUME NEW p \in Paths, Duplicate(p) PROVE EntriesKept'
  BY <1>0, <1>13, Zenon DEF Duplicate
<1>14. ASSUME NEW p \in Paths, Rename(p) PROVE EntriesKept'
  BY <1>0, <1>14, Zenon DEF Rename
<1>15. ASSUME NEW p \in Paths, RenameFails(p) PROVE EntriesKept'
  BY <1>0, <1>15, ZenonT(60) DEF RenameFails
<1> QED
  BY <1>1, <1>2, <1>3, <1>4, <1>5, <1>6, <1>7, <1>8, <1>9, <1>10, <1>11, <1>12, <1>13, <1>14,
     <1>15, Zenon DEF Next, Step, Ended

LEMMA IInvHolds == Spec => []IInv
<1>1. IInv /\ [Next]_vars => IInv'
  BY TypeStep, TreeStep, PathStep, EntryStep, KeptStep, Zenon DEF IInv
<1> QED
  BY InitInv, <1>1, PTL DEF Spec

-----------------------------------------------------------------------------
(* Theorems.                                                               *)

\* A file of the legacy tree is in that tree or below /usr at any moment,
\* wherever merge_bootstrap_tree was cut in a rename, a copy or a removal,
\* unless /usr had an entry of its name or the copy was cut short.
THEOREM NothingLostHolds == Spec => []NothingLost
<1>1. IInv => NothingLost
  BY Zenon DEF IInv, EntriesKept, NothingLost, Moved
<1> QED
  BY <1>1, IInvHolds, PTL

\* A merge that has come to its end has moved everything, for every tree, every
\* order of the directory_iterator and every number of failures before. That
\* nothing is left follows from the links between entries and their directories,
\* by induction over the length of the paths.
THEOREM MergedAsDefinedHolds == Spec => []MergedAsDefined
<1>1. IInv => MergedAsDefined
  <2> SUFFICES ASSUME IInv, pc = "done" PROVE MergedAsDefined
    BY Zenon DEF MergedAsDefined
  <2>1. legacy[Root] # "dir"
    BY Zenon DEF IInv, PathAtPc, TypeOK
  <2>2. \A p \in Paths : legacy[p] = "absent"
    BY <2>1, NoTreeWithoutRoot, Zenon DEF IInv
  <2>3. \A p \in Paths : usr[p] \in {Merge[p], "torn"}
    BY <2>2, Zenon DEF IInv, EntriesKept, Merge, Nodes
  <2> QED
    BY <2>2, <2>3, Zenon DEF MergedAsDefined
<1> QED
  BY <1>1, IInvHolds, PTL

\* merge_bootstrap_tree never changes what is complete below /usr.
THEOREM UsrKeptHolds == Spec => UsrKept
<1>1. IInv /\ [Next]_vars => CompleteStays
  <2> SUFFICES ASSUME IInv, [Next]_vars PROVE CompleteStays
    BY Zenon
  <2>1. TypeOK /\ EntryAtPc
    BY Zenon DEF IInv
  <2> USE DEF CompleteStays, TypeOK, disk
  <2>2. CASE Enter
    BY <2>1, <2>2, Zenon DEF Enter
  <2>3. CASE CopyFile
    BY <2>1, <2>3, Zenon DEF CopyFile, EntryAtPc
  <2>4. CASE CreateTarget
    BY <2>1, <2>4, Zenon DEF CreateTarget
  <2>5. ASSUME NEW p \in Paths, Rename(p) \/ RenameFails(p) PROVE CompleteStays
    BY <2>1, <2>5, Zenon DEF Rename, RenameFails
  <2>6. ASSUME NEW p \in Paths, EnterChild(p) \/ Duplicate(p) PROVE CompleteStays
    BY <2>6, Zenon DEF EnterChild, Duplicate
  <2>7. CASE \/ Begin \/ RemoveLink \/ CreateLink \/ RemoveMigrated \/ RemoveDirectory
             \/ Throw \/ Return \/ UNCHANGED vars
    BY <2>7, Zenon DEF Begin, RemoveLink, CreateLink, RemoveMigrated, RemoveDirectory,
                Throw, Return, vars
  <2> QED
    BY <2>2, <2>3, <2>4, <2>5, <2>6, <2>7, Zenon DEF Next, Step, Ended
<1> QED
  BY <1>1, IInvHolds, PTL DEF Spec, UsrKept

\* The walk file by file keeps the promise that SyspckgGoal relies on: a legacy
\* path goes from a directory or a wrong symlink to nothing, from nothing to the
\* right link, and stays one.
THEOREM MergedPathsImplemented == Spec => ImplementsMergedPaths
<1> DEFINE now == [d \in {Root} |-> path]
<1>1. Init => Abstract!Init
  BY Zenon DEF Init, Abstract!Init
<1>2. IInv /\ [Next]_vars => [Abstract!Next]_now
  <2> SUFFICES ASSUME IInv, [Next]_vars PROVE Abstract!Next \/ now' = now
    BY Zenon
  <2>1. PathAtPc
    BY Zenon DEF IInv
  <2> USE DEF Goto, disk, Abstract!Next, Abstract!Remove, Abstract!Link
  <2>2. CASE RemoveLink
    BY <2>1, <2>2, Zenon DEF RemoveLink, PathAtPc
  <2>3. CASE CreateLink
    BY <2>1, <2>3, Zenon DEF CreateLink, PathAtPc
  <2>4. CASE RemoveDirectory
    <3>1. path = "dir"
      BY <2>1, <2>4, Zenon DEF RemoveDirectory, PathAtPc
    <3> QED
      BY <2>4, <3>1, Zenon DEF RemoveDirectory
  <2>5. ASSUME NEW p \in Paths, EnterChild(p) \/ Duplicate(p) \/ Rename(p) \/ RenameFails(p)
        PROVE  now' = now
    BY <2>5, Zenon DEF EnterChild, Duplicate, Rename, RenameFails
  <2>6. CASE \/ Begin \/ CreateTarget \/ Enter \/ CopyFile \/ RemoveMigrated \/ Throw
             \/ Return \/ UNCHANGED vars
    BY <2>6, Zenon DEF Begin, CreateTarget, Enter, CopyFile, RemoveMigrated, Throw, Return, vars
  <2> QED
    BY <2>2, <2>3, <2>4, <2>5, <2>6, Zenon DEF Next, Step, Ended
<1> QED
  BY <1>1, <1>2, IInvHolds, PTL DEF Spec, ImplementsMergedPaths, Abstract!Spec
=============================================================================
