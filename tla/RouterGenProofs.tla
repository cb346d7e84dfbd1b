-------------------------- MODULE RouterGenProofs --------------------------
(***************************************************************************)
(* Proofs about RouterGen, for any number of runs and any sources.         *)
(*                                                                         *)
(* The router file is replaced as a whole, and only a killed run leaves a  *)
(* temporary file.  What makes the rename safe is that a run only gets to  *)
(* it with a file that is written to its end (Ready).                      *)
(*                                                                         *)
(* A run that nobody edited under renders all routes or none.  The walk    *)
(* keeps every file of the directories it could read found or among those  *)
(* it still has to parse (WalkInv); so the second phase sees all of them   *)
(* (FoundInv), and what it flattens in path order has each function at its *)
(* place (AllComplete).                                                    *)
(***************************************************************************)
EXTENDS RouterGen, FiniteSetTheorems, WellFoundedInduction, TLAPS

Ready == \A r \in Runs : pc[r] = "rename" => temp[r] = "full"
\* There is a temporary file only between its creation and its removal.
InUse == \A r \in Runs :
            pc[r] \in {"idle", "walk", "range", "render", "create", "end"} => temp[r] = "none"
TreeIsFunction == tree = [f \in Files |-> tree[f]]

IInv == TypeOK /\ OutputWhole /\ InUse /\ Ready /\ TreeIsFunction

States == {"idle"} \cup Active \cup Over

\* Before the first run there is no temporary file and the router file is whole.
THEOREM InitHolds == Init => IInv
  <1> SUFFICES ASSUME Init PROVE IInv
    OBVIOUS
  <1>1. Len(Dirs) \in Nat
    BY FilesAssumption
  <1>2. TypeOK
    BY <1>1 DEF Init, TypeOK, Active, Over
  <1>3. OutputWhole /\ InUse /\ Ready /\ TreeIsFunction
    BY DEF Init, OutputWhole, InUse, Ready, TreeIsFunction
  <1> QED
    BY <1>2, <1>3 DEF IInv

\* A step of a run up to the temporary file, or its end by a kill or a panic.
LEMMA QuietStep ==
    ASSUME IInv, NEW r \in Runs, NEW l \in States, pc[r] \in {"idle"} \cup Active, Goto(r, l),
           UNCHANGED Disk, dir' \in [Runs -> 0 .. Len(Dirs)], UNCHANGED readable,
           calm' \in [Runs -> BOOLEAN], alone' \in [Runs -> BOOLEAN],
           \/ l = "dead"
           \/ /\ pc[r] \in {"idle", "walk", "range", "render", "create"}
              /\ l \in {"walk", "range", "render", "create", "end"}
    PROVE  IInv'
  <1>1. pc \in [Runs -> States] /\ pc' = [pc EXCEPT ![r] = l]
    BY DEF IInv, TypeOK, Goto, States
  <1>2. pc' \in [Runs -> States] /\ pc'[r] = l /\ \A s \in Runs \ {r} : pc'[s] = pc[s]
    BY <1>1
  <1>3. tree' = tree /\ temp' = temp /\ out' = out
    BY DEF Disk
  <1>4. TypeOK'
    BY <1>2, <1>3 DEF IInv, TypeOK, InUse, States, Active
  <1>5. OutputWhole'
    BY <1>2, <1>3 DEF IInv, TypeOK, OutputWhole, Active
  <1>6. InUse' /\ Ready' /\ TreeIsFunction'
    BY <1>2, <1>3 DEF IInv, InUse, Ready, TreeIsFunction
  <1> QED
    BY <1>4, <1>5, <1>6 DEF IInv

\* A step of writeGeneratedFile.
LEMMA FileStep ==
    ASSUME IInv, NEW r \in Runs, NEW l \in States, NEW t \in {"none", "torn", "full"},
           pc[r] \in Active, Goto(r, l), temp' = [temp EXCEPT ![r] = t],
           UNCHANGED <<tree, runVars, Ghosts>>,
           \/ UNCHANGED out
           \/ out' = [run |-> r, whole |-> TRUE] /\ l = "end",
           t = "full" => l \in {"rename", "remove"},
           l = "rename" => t = "full",
           l \in {"idle", "walk", "range", "render", "create", "end"} => t = "none"
    PROVE  IInv'
  <1>1. /\ pc' \in [Runs -> States] /\ pc'[r] = l /\ (\A s \in Runs \ {r} : pc'[s] = pc[s])
        /\ temp' \in [Runs -> {"none", "torn", "full"}] /\ temp'[r] = t
        /\ \A s \in Runs \ {r} : temp'[s] = temp[s]
    BY DEF IInv, TypeOK, Goto, States
  <1>2. out' \in [run : Runs \cup {NoRun}, whole : BOOLEAN]
    <2>1. [run |-> r, whole |-> TRUE] \in [run : Runs \cup {NoRun}, whole : BOOLEAN]
      OBVIOUS
    <2> QED
      BY <2>1 DEF IInv, TypeOK
  <1>3. UNCHANGED <<tree, dir, readable, calm, alone>>
    BY DEF runVars, Ghosts
  <1>4. TypeOK'
    BY <1>1, <1>2, <1>3 DEF IInv, TypeOK, States
  <1>5. OutputWhole'
    BY <1>1 DEF IInv, TypeOK, OutputWhole, Active
  <1>6. InUse' /\ Ready' /\ TreeIsFunction'
    BY <1>1, <1>3 DEF IInv, InUse, Ready, TreeIsFunction
  <1> QED
    BY <1>4, <1>5, <1>6 DEF IInv

\* The files a walk can see are among those of its directory.
Seen(d, unread) == (DOMAIN d.package \cup (IF d.output THEN Runs ELSE {})) \ UNION unread

\* A directory that a walk reads has added what it sees to what the run could read.
LEMMA WalkStep ==
    ASSUME TypeOK, NEW r \in Runs, WalkDir(r)
    PROVE  readable' \in [Runs -> SUBSET Walked]
  <1>1. CASE UNCHANGED readable
    BY <1>1 DEF TypeOK
  <1>2. ASSUME NEW unread,
               readable' = [readable EXCEPT
                   ![r] = @ \cup (Files \cap Seen(Dirs[dir[r] + 1], unread))]
        PROVE  readable' \in [Runs -> SUBSET Walked]
    <2>1. dir[r] \in Nat /\ dir[r] < Len(Dirs) /\ Len(Dirs) \in Nat /\ DOMAIN Dirs = 1 .. Len(Dirs)
      BY FilesAssumption DEF TypeOK, WalkDir
    <2>2. dir[r] + 1 \in DOMAIN Dirs
      BY <2>1
    <2>3. Files \cap Seen(Dirs[dir[r] + 1], unread) \subseteq DOMAIN Dirs[dir[r] + 1].package
      BY FilesAssumption DEF Seen
    <2>4. DOMAIN Dirs[dir[r] + 1].package \subseteq Walked
      BY <2>2 DEF Walked
    <2>5. readable[r] \cup (Files \cap Seen(Dirs[dir[r] + 1], unread)) \in SUBSET Walked
      BY <2>3, <2>4 DEF TypeOK
    <2> QED
      BY <1>2, <2>5 DEF TypeOK
  <1> QED
    BY <1>1, <1>2 DEF WalkDir, Seen

\* Every step of the generator, failures and kills included, keeps the disk in order.
LEMMA RunStep ==
    ASSUME IInv, NEW r \in Runs, Run(r) \/ Kill(r) PROVE IInv'
  <1>1. /\ dir \in [Runs -> 0 .. Len(Dirs)] /\ calm \in [Runs -> BOOLEAN]
        /\ alone \in [Runs -> BOOLEAN] /\ Len(Dirs) \in Nat
        /\ temp[r] \in {"none", "torn", "full"} /\ temp = [temp EXCEPT ![r] = temp[r]]
    BY FilesAssumption DEF IInv, TypeOK
  <1>2. CASE MakeRouter(r)
    <2>1. alone' \in [Runs -> BOOLEAN]
      BY <1>2 DEF MakeRouter
    <2> QED
      BY <1>1, <1>2, <2>1, QuietStep DEF MakeRouter, runVars, States, Active, Over
  <1>3. CASE WalkDir(r)
    <2>1. CASE UNCHANGED pc
      <3>0. /\ dir[r] < Len(Dirs) /\ UNCHANGED <<Disk, calm, alone>>
            /\ UNCHANGED dir \/ dir' = [dir EXCEPT ![r] = dir[r] + 1]
        BY <1>3 DEF WalkDir
      <3>1. dir' \in [Runs -> 0 .. Len(Dirs)] /\ UNCHANGED <<Disk, calm, alone>>
        BY <1>1, <3>0
      <3>2. readable' \in [Runs -> SUBSET Walked]
        BY <1>1, <1>3, WalkStep DEF IInv
      <3>3. TypeOK' /\ OutputWhole'
        BY <2>1, <3>1, <3>2 DEF IInv, TypeOK, OutputWhole, Disk
      <3>4. InUse' /\ Ready' /\ TreeIsFunction'
        BY <2>1, <3>1 DEF IInv, InUse, Ready, TreeIsFunction, Disk
      <3> QED
        BY <3>3, <3>4 DEF IInv
    <2>2. CASE Vanished(r) /\ UNCHANGED <<dir, packageDir, readable>>
      BY <1>1, <1>3, <2>2, QuietStep DEF WalkDir, Vanished, States, Active, Over
    <2> QED
      BY <1>3, <2>1, <2>2 DEF WalkDir
  <1>12. CASE WalkEnd(r)
    BY <1>1, <1>12, QuietStep DEF WalkEnd, States, Active, Ghosts
  <1>4. CASE ParseFile(r)
    <2>1. /\ pc[r] = "walk" /\ UNCHANGED <<Disk, dir, Ghosts>>
          /\ UNCHANGED pc \/ Goto(r, "render") \/ Goto(r, "dead")
      BY <1>4 DEF ParseFile, Parsed, ParseError, Vanished
    <2>2. CASE UNCHANGED pc
      <3>1. TypeOK' /\ OutputWhole'
        BY <2>1, <2>2 DEF IInv, TypeOK, OutputWhole, Disk, Ghosts
      <3>2. InUse' /\ Ready' /\ TreeIsFunction'
        BY <2>1, <2>2 DEF IInv, InUse, Ready, TreeIsFunction, Disk
      <3> QED
        BY <3>1, <3>2 DEF IInv
    <2> QED
      BY <1>1, <2>1, <2>2, QuietStep DEF States, Active, Over, Ghosts
  <1>5. CASE ParseRouters(r)
    BY <1>1, <1>5, QuietStep DEF ParseRouters, States, Active, Over, Ghosts
  <1>6. CASE Render(r)
    <2>1. Goto(r, "create") \/ Goto(r, "end")
      BY <1>6 DEF Render
    <2> QED
      BY <1>1, <1>6, <2>1, QuietStep DEF Render, States, Active, Over, Ghosts
  <1>7. CASE CreateTemp(r)
    <2>1. CASE temp' = [temp EXCEPT ![r] = "torn"] /\ Goto(r, "write")
      BY <1>7, <2>1, FileStep DEF CreateTemp, States, Active
    <2>2. CASE Goto(r, "end") /\ UNCHANGED temp
      BY <1>1, <1>7, <2>2, QuietStep DEF CreateTemp, States, Active, Over, Disk, runVars, Ghosts
    <2> QED
      BY <1>7, <2>1, <2>2 DEF CreateTemp
  <1>8. CASE Write(r)
    <2>1. CASE temp' = [temp EXCEPT ![r] = "full"] /\ Goto(r, "rename")
      BY <1>8, <2>1, FileStep DEF Write, States, Active
    <2>2. CASE \E t \in {"torn", "full"} : temp' = [temp EXCEPT ![r] = t] /\ Goto(r, "remove")
      BY <1>8, <2>2, FileStep DEF Write, States, Active
    <2> QED
      BY <1>8, <2>1, <2>2 DEF Write
  <1>9. CASE Rename(r)
    <2>1. pc[r] = "rename" /\ temp[r] = "full" /\ UNCHANGED <<tree, runVars, Ghosts>>
      BY <1>9 DEF Rename, IInv, Ready
    <2>2. CASE out' = [run |-> r, whole |-> TRUE] /\ temp' = [temp EXCEPT ![r] = "none"]
               /\ Goto(r, "end")
      BY <2>1, <2>2, FileStep DEF States, Active, Over
    <2>3. CASE Goto(r, "remove") /\ UNCHANGED <<out, temp>>
      <3>1. temp' = [temp EXCEPT ![r] = "full"]
        BY <1>1, <2>1, <2>3
      <3> QED
        BY <2>1, <2>3, <3>1, FileStep DEF States, Active
    <2> QED
      BY <1>9, <2>1, <2>2, <2>3 DEF Rename
  <1>10. CASE RemoveTemp(r)
    BY <1>10, FileStep DEF RemoveTemp, States, Active, Over
  <1>11. CASE Kill(r)
    BY <1>1, <1>11, QuietStep DEF Kill, States, Over, runVars, Ghosts
  <1> QED
    BY <1>2, <1>3, <1>4, <1>5, <1>6, <1>7, <1>8, <1>9, <1>10, <1>11, <1>12 DEF Run

\* An edit touches a source alone.
LEMMA EditStep ==
    ASSUME IInv, NEW f \in Files, Edit(f) PROVE IInv'
  <1>1. PICK t \in Texts[f] : tree' = [tree EXCEPT ![f] = t]
    BY DEF Edit
  <1>2. /\ DOMAIN tree' = Files /\ tree' = [g \in Files |-> tree'[g]]
        /\ \A g \in Files : tree'[g] \in Texts[g]
    BY <1>1 DEF IInv, TypeOK, TreeIsFunction
  <1>3. calm' \in [Runs -> BOOLEAN]
    BY DEF Edit, IInv, TypeOK
  <1>4. UNCHANGED <<temp, out, pc, dir, readable, alone>>
    BY DEF Edit, runVars
  <1> QED
    BY <1>2, <1>3, <1>4 DEF IInv, TypeOK, OutputWhole, InUse, Ready, TreeIsFunction

\* In every behaviour the router file is whole and temporary files are where they
\* belong: the invariant the next three theorems follow from.
THEOREM Inductive == Spec => []IInv
  <1>1. IInv /\ [Next]_vars => IInv'
    <2>1. IInv /\ UNCHANGED vars => IInv'
      BY DEF vars, runVars, Ghosts, IInv, TypeOK, OutputWhole, InUse, Ready, TreeIsFunction
    <2> QED
      BY <2>1, RunStep, EditStep DEF Next
  <1> QED
    BY <1>1, InitHolds, PTL DEF Spec

\* The types of the disk and of the runs.
THEOREM TypeCorrect == Spec => []TypeOK
  BY Inductive, PTL DEF IInv

\* However many runs overlap, fail or are killed, the router file is never a part
\* of a text.
THEOREM ReplacedAtomically == Spec => []OutputWhole
  BY Inductive, PTL DEF IInv

\* A run that was not killed leaves no temporary file.
THEOREM NoLitter == Spec => []TempsRemoved
  <1>1. IInv => TempsRemoved
    BY DEF IInv, InUse, TempsRemoved
  <1> QED
    BY <1>1, Inductive, PTL
-----------------------------------------------------------------------------
(* Finite orders and induction.                                            *)

\* A set of numbers has a least element.
LEMMA Least == ASSUME NEW S, S \subseteq Nat, S # {} PROVE \E m \in S : \A j \in S : m <= j
<1> DEFINE R == {ss \in Nat \X Nat : ss[1] < ss[2]}
<1>1. IsWellFoundedOn(R, Nat)
  BY NatLessThanWellFounded, Zenon DEF OpToRel
<1> HIDE DEF R
<1>2. PICK m \in S : \A j \in S : <<j, m>> \notin R
  BY <1>1, WFMin
<1>3. ASSUME NEW j \in S PROVE m <= j
  <2>1. m \in Nat /\ j \in Nat /\ <<j, m>> \in Nat \X Nat
    OBVIOUS
  <2>2. ~(<<j, m>>[1] < <<j, m>>[2])
    BY <1>2, <2>1 DEF R
  <2> QED
    BY <2>1, <2>2
<1> QED
  BY <1>3

\* Induction over a set of numbers: a least one outside would have no reason.
LEMMA SetInduction ==
    ASSUME NEW G, 0 \in G, \A n \in Nat : n \in G => n + 1 \in G
    PROVE  \A n \in Nat : n \in G
<1> DEFINE B == {n \in Nat : n \notin G}
<1> SUFFICES ASSUME B # {} PROVE FALSE
  OBVIOUS
<1>1. PICK n \in B : \A j \in B : n <= j
  BY Least
<1>2. n \in Nat /\ n # 0 /\ n - 1 \in Nat /\ (n - 1) + 1 = n /\ ~(n <= n - 1)
  OBVIOUS
<1>3. n - 1 \in B
  BY <1>2
<1> QED
  BY <1>1, <1>2, <1>3

\* How many elements of S come before x or are x.
Rank(S, Le, x) == Cardinality({y \in S : <<y, x>> \in Le})

\* In a finite total order the ranks number the elements.
LEMMA RankNumbers ==
    ASSUME NEW S, IsFiniteSet(S), NEW Le,
           \A x \in S : <<x, x>> \in Le,
           \A x, y \in S : <<x, y>> \in Le \/ <<y, x>> \in Le,
           \A x, y \in S : <<x, y>> \in Le /\ <<y, x>> \in Le => x = y,
           \A x, y, z \in S : <<x, y>> \in Le /\ <<y, z>> \in Le => <<x, z>> \in Le
    PROVE  /\ \A x \in S : Rank(S, Le, x) \in 1 .. Cardinality(S)
           /\ \A x, y \in S : Rank(S, Le, x) <= Rank(S, Le, y) <=> <<x, y>> \in Le
           /\ \A i \in 1 .. Cardinality(S) : \E x \in S : Rank(S, Le, x) = i
<1> DEFINE Below(x) == {y \in S : <<y, x>> \in Le}
<1>1. Cardinality(S) \in Nat
  BY FS_CardinalityType
<1>2. \A x \in S : /\ IsFiniteSet(Below(x)) /\ Rank(S, Le, x) \in Nat
                   /\ Rank(S, Le, x) <= Cardinality(S)
  <2> TAKE x \in S
  <2>1. Below(x) \in SUBSET S
    OBVIOUS
  <2>2. IsFiniteSet(Below(x)) /\ Cardinality(Below(x)) <= Cardinality(S)
    BY <2>1, FS_Subset
  <2> QED
    BY <2>2, FS_CardinalityType DEF Rank
<1>0. \A x \in S : Rank(S, Le, x) \in Nat /\ Rank(S, Le, x) <= Cardinality(S)
  BY <1>2
<1>3. \A x \in S : Rank(S, Le, x) # 0
  <2> TAKE x \in S
  <2>1. x \in Below(x)
    OBVIOUS
  <2> QED
    BY <1>2, <2>1, FS_EmptySet DEF Rank
<1>4. ASSUME NEW x \in S, NEW y \in S, <<x, y>> \in Le
      PROVE  Rank(S, Le, x) <= Rank(S, Le, y)
  <2>1. Below(x) \in SUBSET Below(y)
    BY <1>4
  <2> QED
    BY <1>2, <2>1, FS_Subset DEF Rank
<1>5. ASSUME NEW x \in S, NEW y \in S, <<x, y>> \in Le, Rank(S, Le, y) <= Rank(S, Le, x)
      PROVE  x = y
  <2>1. Below(x) \in SUBSET Below(y)
    BY <1>5
  <2>2. Rank(S, Le, x) = Rank(S, Le, y)
    <3>1. Rank(S, Le, x) <= Rank(S, Le, y)
      BY <1>4, <1>5
    <3> HIDE DEF Below
    <3> QED
      BY <1>0, <1>5, <3>1
  <2>3. Below(x) = Below(y)
    BY <1>2, <2>1, <2>2, FS_Subset DEF Rank
  <2>4. y \in Below(y)
    OBVIOUS
  <2> QED
    BY <1>5, <2>3, <2>4
<1>6. \A x, y \in S : Rank(S, Le, x) <= Rank(S, Le, y) <=> <<x, y>> \in Le
  BY <1>4, <1>5
<1>7. \A i \in 1 .. Cardinality(S) : \E x \in S : Rank(S, Le, x) = i
  <2> DEFINE f == [x \in S |-> Rank(S, Le, x)]
  <2>1. ASSUME NEW x \in S, NEW y \in S, f[x] = f[y] PROVE x = y
    <3>1. Rank(S, Le, x) <= Rank(S, Le, y) /\ Rank(S, Le, y) <= Rank(S, Le, x)
      BY <1>0, <2>1
    <3> QED
      BY <1>6, <3>1
  <2>0. \A x \in S : f[x] \in 1 .. Cardinality(S)
    BY <1>0, <1>1, <1>3
  <2>2. f \in Injection(S, 1 .. Cardinality(S))
    BY <2>0, <2>1 DEF Injection, IsInjective
  <2>3. IsFiniteSet(1 .. Cardinality(S)) /\ Cardinality(1 .. Cardinality(S)) = Cardinality(S)
    BY <1>1, FS_Interval
  <2>4. f \in Surjection(S, 1 .. Cardinality(S))
    BY <2>2, <2>3, FS_Injection
  <2> QED
    BY <2>4 DEF Surjection
<1>8. \A x \in S : Rank(S, Le, x) \in 1 .. Cardinality(S)
  BY <1>0, <1>1, <1>3
<1> QED
  BY <1>6, <1>7, <1>8

\* InOrder lists every element once, in the order of its path.
LEMMA InOrderLists ==
    ASSUME NEW S, IsFiniteSet(S), NEW path \in [S -> Nat],
           \A x, y \in S : path[x] = path[y] => x = y
    PROVE  /\ Cardinality(S) \in Nat
           /\ InOrder(S, path) \in [1 .. Cardinality(S) -> S]
           /\ \A i, j \in 1 .. Cardinality(S) :
                 i < j => path[InOrder(S, path)[i]] < path[InOrder(S, path)[j]]
           /\ \A x \in S : \E i \in 1 .. Cardinality(S) : InOrder(S, path)[i] = x
<1> DEFINE n == Cardinality(S)
           Le == {xy \in S \X S : path[xy[1]] <= path[xy[2]]}
           s == [i \in 1 .. n |-> CHOOSE x \in S : Rank(S, Le, x) = i]
           Sorted(q) == \A i, j \in DOMAIN q : i < j => path[q[i]] < path[q[j]]
<1>1. n \in Nat
  BY FS_CardinalityType
<1>2. \A x, y \in S : <<x, y>> \in Le <=> path[x] <= path[y]
  OBVIOUS
<1> HIDE DEF Le
<1>3. /\ \A x, y \in S : Rank(S, Le, x) <= Rank(S, Le, y) <=> <<x, y>> \in Le
      /\ \A i \in 1 .. n : \E x \in S : Rank(S, Le, x) = i
  <2>1. \A x \in S : path[x] \in Nat
    OBVIOUS
  <2>2. /\ \A x \in S : <<x, x>> \in Le
        /\ \A x, y \in S : <<x, y>> \in Le \/ <<y, x>> \in Le
    BY <1>2, <2>1
  <2>3. \A x, y \in S : <<x, y>> \in Le /\ <<y, x>> \in Le => x = y
    BY <1>2, <2>1
  <2>4. \A x, y, z \in S : <<x, y>> \in Le /\ <<y, z>> \in Le => <<x, z>> \in Le
    BY <1>2, <2>1
  <2> QED
    BY <2>2, <2>3, <2>4, RankNumbers
<1>4. \A i \in 1 .. n : s[i] \in S /\ Rank(S, Le, s[i]) = i
  BY <1>3
<1>5. s \in [1 .. n -> S]
  BY <1>4
<1> HIDE DEF s
<1>6. Sorted(s)
  <2> SUFFICES ASSUME NEW i \in 1 .. n, NEW j \in 1 .. n, i < j, path[s[j]] <= path[s[i]]
               PROVE  FALSE
    BY <1>5
  <2>1. s[i] \in S /\ s[j] \in S /\ Rank(S, Le, s[i]) = i /\ Rank(S, Le, s[j]) = j
    BY <1>4
  <2>2. Rank(S, Le, s[j]) <= Rank(S, Le, s[i])
    BY <1>2, <1>3, <2>1
  <2> QED
    BY <1>1, <2>1, <2>2
<1>7. InOrder(S, path) \in [1 .. n -> S] /\ Sorted(InOrder(S, path))
  BY <1>5, <1>6 DEF InOrder
<1> DEFINE t == InOrder(S, path)
<1> HIDE DEF t, n
<1>8. t \in [1 .. n -> S] /\ Sorted(t)
  BY <1>7 DEF t
<1>9. t \in Injection(1 .. n, S)
  <2>1. ASSUME NEW i \in 1 .. n, NEW j \in 1 .. n, t[i] = t[j] PROVE i = j
    BY <1>1, <1>8, <2>1
  <2> QED
    BY <1>8, <2>1 DEF Injection, IsInjective
<1>10. IsFiniteSet(1 .. n) /\ Cardinality(1 .. n) = n
  BY <1>1, FS_Interval
<1>11. t \in Surjection(1 .. n, S)
  BY <1>9, <1>10, FS_Injection DEF n
<1>12. \A x \in S : \E i \in 1 .. n : t[i] = x
  BY <1>11 DEF Surjection
<1> QED
  BY <1>1, <1>8, <1>12 DEF t, n
-----------------------------------------------------------------------------
(* FlattenSeq, one sequence at a time.                                     *)

IsFlatten(f, seqs, n) ==
    f = [i \in 1 .. n |-> IF i = 1 THEN seqs[i] ELSE f[i - 1] \o seqs[i]]

\* The function that joins the first n sequences exists.
LEMMA FlattenExists == ASSUME NEW seqs PROVE \A n \in Nat : \E f : IsFlatten(f, seqs, n)
<1> DEFINE G == {n \in Nat : \E f : IsFlatten(f, seqs, n)}
<1>1. 0 \in G
  <2>1. IsFlatten([i \in 1 .. 0 |-> 0], seqs, 0)
    BY DEF IsFlatten
  <2> QED
    BY <2>1
<1>2. ASSUME NEW n \in Nat, n \in G PROVE n + 1 \in G
  <2>1. PICK f : IsFlatten(f, seqs, n)
    BY <1>2
  <2> DEFINE last == IF n + 1 = 1 THEN seqs[n + 1] ELSE f[n] \o seqs[n + 1]
             g == [i \in 1 .. n + 1 |-> IF i = n + 1 THEN last ELSE f[i]]
  <2>2. ASSUME NEW i \in 1 .. n + 1
        PROVE  g[i] = IF i = 1 THEN seqs[i] ELSE g[i - 1] \o seqs[i]
    <3>1. CASE i = n + 1
      <4>1. n + 1 # 1 => n \in 1 .. n + 1 /\ g[n] = f[n] /\ i - 1 = n
        BY <3>1
      <4> QED
        BY <3>1, <4>1
    <3>2. CASE i # n + 1
      <4>1. i \in 1 .. n /\ g[i] = f[i] /\ (i # 1 => i - 1 \in 1 .. n + 1 /\ g[i - 1] = f[i - 1])
        BY <3>2
      <4>2. f[i] = IF i = 1 THEN seqs[i] ELSE f[i - 1] \o seqs[i]
        BY <2>1, <4>1 DEF IsFlatten
      <4> QED
        BY <4>1, <4>2
    <3> QED
      BY <3>1, <3>2
  <2>3. g = [i \in 1 .. n + 1 |-> g[i]]
    OBVIOUS
  <2> HIDE DEF g
  <2>4. IsFlatten(g, seqs, n + 1)
    BY <2>2, <2>3, Zenon DEF IsFlatten
  <2> QED
    BY <2>4
<1> HIDE DEF G
<1>3. \A n \in Nat : n \in G
  BY <1>1, <1>2, SetInduction
<1> QED
  BY <1>3 DEF G

\* FlattenSeq is its last value.
LEMMA FlattenIs ==
    ASSUME NEW seqs, Len(seqs) \in Nat, Len(seqs) # 0
    PROVE  \E f : IsFlatten(f, seqs, Len(seqs)) /\ FlattenSeq(seqs) = f[Len(seqs)]
<1> DEFINE n == Len(seqs)
           f == CHOOSE g : g = [i \in 1 .. n |-> IF i = 1 THEN seqs[i] ELSE g[i - 1] \o seqs[i]]
<1>1. \E g : g = [i \in 1 .. n |-> IF i = 1 THEN seqs[i] ELSE g[i - 1] \o seqs[i]]
  BY FlattenExists DEF IsFlatten
<1>2. f = [i \in 1 .. n |-> IF i = 1 THEN seqs[i] ELSE f[i - 1] \o seqs[i]]
  BY <1>1, Zenon
<1>3. FlattenSeq(seqs) = f[n]
  BY DEF FlattenSeq
<1> HIDE DEF f
<1>4. IsFlatten(f, seqs, n)
  BY <1>2 DEF IsFlatten
<1> QED
  BY <1>3, <1>4
-----------------------------------------------------------------------------
(* What a walk has found in the files W, and the order L it is taken in.   *)

AllParse(W) == \A f \in W : tree[f].parses

\* fs is what the sources W were found to be, each at least once.
Collected(fs, W) ==
    /\ AllParse(W)
    /\ \A f \in W : \E x \in fs : x.path = f
    /\ \A x \in fs : /\ x.path \in W
                     /\ x = [path |-> x.path, package |-> x.package, funcs |-> tree[x.path].funcs]

OnePackage(fs) == \A x, y \in fs : x.path = y.path => x.package = y.package

PackageOf(L, f) == L[CHOOSE i \in DOMAIN L : L[i].path = f].package
AstFile(L, f)   == [path |-> f, package |-> PackageOf(L, f), funcs |-> tree[f].funcs]

\* L lists the sources W, each once, in the order of their paths.
Lists(L, W) ==
    /\ Len(L) \in Nat /\ DOMAIN L = 1 .. Len(L)
    /\ \A i \in 1 .. Len(L) : L[i].path \in W /\ L[i] = AstFile(L, L[i].path)
    /\ \A i, j \in 1 .. Len(L) : i < j => L[i].path < L[j].path
    /\ \A f \in W : \E i \in 1 .. Len(L) : L[i].path = f

-----------------------------------------------------------------------------
(* The functions of the sources, numbered.                                 *)

TreeOK == \A f \in Files : tree[f] \in Texts[f]

AllFuncs(W)   == UNION {{f} \X DOMAIN tree[f].funcs : f \in W}
FuncOf(p)     == tree[p[1]].funcs[p[2]]
UpTo(W, p)    == {q \in AllFuncs(W) : q[1] < p[1] \/ (q[1] = p[1] /\ q[2] <= p[2])}
Place(W, p)   == Cardinality(UpTo(W, p))
Before(W, f)  == {q \in AllFuncs(W) : q[1] < f}
RouteOf(L, p) == [fn |-> FuncOf(p).fn, package |-> PackageOf(L, p[1]),
               limit |-> FindLimit(FuncOf(p).words)]
RouteSet(W, L)== {RouteOf(L, p) : p \in AllFuncs(W)}

\* The walked files are finitely many.
LEMMA WalkedFinite ==
    ASSUME NEW W \in SUBSET Walked
    PROVE  IsFiniteSet(W) /\ W \subseteq Files /\ W \subseteq Nat
<1> DEFINE f == [d \in DOMAIN Dirs |-> DOMAIN Dirs[d].package]
           T == {DOMAIN Dirs[d].package : d \in DOMAIN Dirs}
<1>1. DOMAIN Dirs = 1 .. Len(Dirs) /\ Len(Dirs) \in Nat
  BY FilesAssumption
<1>2. IsFiniteSet(DOMAIN Dirs)
  BY <1>1, FS_Interval
<1>3. f \in Surjection(DOMAIN Dirs, T)
  BY DEF Surjection
<1>4. IsFiniteSet(T)
  BY <1>2, <1>3, FS_Surjection
<1>5. \A U \in T : IsFiniteSet(U) /\ U \subseteq Files
  BY FilesAssumption DEF Range
<1>6. IsFiniteSet(UNION T)
  BY <1>4, <1>5, FS_UNION
<1>7. UNION T \subseteq Files
  BY <1>5
<1>8. IsFiniteSet(W)
  BY <1>6, FS_Subset DEF Walked
<1> QED
  BY <1>7, <1>8, FilesAssumption DEF Walked

\* The functions of a file are numbered from one.
LEMMA FuncsAreSeq ==
    ASSUME TreeOK, NEW W \in SUBSET Walked, NEW f \in W
    PROVE  /\ f \in Nat /\ Len(tree[f].funcs) \in Nat
           /\ DOMAIN tree[f].funcs = 1 .. Len(tree[f].funcs)
<1>1. f \in Files
  BY WalkedFinite
<1>2. tree[f].funcs \in Seq(Range(tree[f].funcs))
  BY <1>1, FilesAssumption DEF TreeOK
<1> QED
  BY <1>1, <1>2, FilesAssumption

\* A function is a walked file and a place in it.
LEMMA PairsOfFuncs ==
    ASSUME TreeOK, NEW W \in SUBSET Walked, NEW p
    PROVE  p \in AllFuncs(W) <=> \E f \in W, j \in Nat :
                                 p = <<f, j>> /\ j \in 1 .. Len(tree[f].funcs)
BY FuncsAreSeq DEF AllFuncs

\* Its file and place are numbers.
LEMMA FuncTypes ==
    ASSUME TreeOK, NEW W \in SUBSET Walked, NEW p \in AllFuncs(W)
    PROVE  /\ p[1] \in W /\ p[1] \in Nat /\ p[2] \in Nat
           /\ p[2] \in 1 .. Len(tree[p[1]].funcs) /\ p = <<p[1], p[2]>>
<1>1. PICK f \in W, j \in Nat : p = <<f, j>> /\ j \in 1 .. Len(tree[f].funcs)
  BY PairsOfFuncs
<1>2. W \subseteq Nat
  BY WalkedFinite
<1> QED
  BY <1>1, <1>2

\* The functions of one file are finitely many.
LEMMA OneFile ==
    ASSUME NEW f, NEW m \in Nat
    PROVE  IsFiniteSet({f} \X (1 .. m)) /\ Cardinality({f} \X (1 .. m)) = m
<1>1. IsFiniteSet(1 .. m) /\ Cardinality(1 .. m) = m
  BY FS_Interval
<1>2. IsFiniteSet({f}) /\ Cardinality({f}) = 1
  BY FS_Singleton
<1>3. /\ IsFiniteSet({f} \X (1 .. m))
      /\ Cardinality({f} \X (1 .. m)) = Cardinality({f}) * Cardinality(1 .. m)
  BY <1>1, <1>2, FS_Product
<1> QED
  BY <1>1, <1>2, <1>3

\* All functions are finitely many.
LEMMA FuncsFinite == ASSUME TreeOK, NEW W \in SUBSET Walked PROVE IsFiniteSet(AllFuncs(W))
<1> DEFINE g == [f \in W |-> {f} \X DOMAIN tree[f].funcs]
           T == {{f} \X DOMAIN tree[f].funcs : f \in W}
<1>1. g \in Surjection(W, T)
  BY DEF Surjection
<1>2. IsFiniteSet(T)
  BY <1>1, WalkedFinite, FS_Surjection
<1>3. ASSUME NEW f \in W PROVE IsFiniteSet({f} \X DOMAIN tree[f].funcs)
  BY FuncsAreSeq, OneFile
<1>4. IsFiniteSet(UNION T)
  BY <1>2, <1>3, FS_UNION
<1> QED
  BY <1>4 DEF AllFuncs

\* Places number the functions, file by file.
LEMMA Places ==
    ASSUME TreeOK, NEW W \in SUBSET Walked
    PROVE  /\ Cardinality(AllFuncs(W)) \in Nat
           /\ \A p \in AllFuncs(W) : Place(W, p) \in 1 .. Cardinality(AllFuncs(W))
           /\ \A p, q \in AllFuncs(W) : Place(W, p) = Place(W, q) => p = q
           /\ \A i \in 1 .. Cardinality(AllFuncs(W)) : \E p \in AllFuncs(W) : Place(W, p) = i
<1> DEFINE S == AllFuncs(W)
           Le == {qp \in S \X S : \/ qp[1][1] < qp[2][1]
                                  \/ qp[1][1] = qp[2][1] /\ qp[1][2] <= qp[2][2]}
<1>1. \A p \in S : p[1] \in Nat /\ p[2] \in Nat /\ p = <<p[1], p[2]>>
  BY FuncTypes
<1>2. \A q, p \in S : <<q, p>> \in Le <=> q[1] < p[1] \/ (q[1] = p[1] /\ q[2] <= p[2])
  OBVIOUS
<1>3. IsFiniteSet(S)
  BY FuncsFinite
<1>4. \A p \in S : UpTo(W, p) = {q \in S : <<q, p>> \in Le}
  BY DEF UpTo
<1>5. \A p \in S : Place(W, p) = Rank(S, Le, p)
  BY <1>4 DEF Place, Rank
<1> HIDE DEF Le, S
<1>6. /\ \A x \in S : <<x, x>> \in Le
      /\ \A x, y \in S : <<x, y>> \in Le \/ <<y, x>> \in Le
  BY <1>1, <1>2
<1>7. \A x, y \in S : <<x, y>> \in Le /\ <<y, x>> \in Le => x = y
  <2> SUFFICES ASSUME NEW x \in S, NEW y \in S, <<x, y>> \in Le, <<y, x>> \in Le PROVE x = y
    OBVIOUS
  <2>1. x[1] = y[1] /\ x[2] = y[2]
    BY <1>1, <1>2
  <2> QED
    BY <1>1, <2>1
<1>8. \A x, y, z \in S : <<x, y>> \in Le /\ <<y, z>> \in Le => <<x, z>> \in Le
  BY <1>1, <1>2
<1>9. /\ \A x \in S : Rank(S, Le, x) \in 1 .. Cardinality(S)
      /\ \A x, y \in S : Rank(S, Le, x) <= Rank(S, Le, y) <=> <<x, y>> \in Le
      /\ \A i \in 1 .. Cardinality(S) : \E x \in S : Rank(S, Le, x) = i
  BY <1>3, <1>6, <1>7, <1>8, RankNumbers
<1>10. Cardinality(S) \in Nat
  BY <1>3, FS_CardinalityType
<1>11. ASSUME NEW p \in S, NEW q \in S, Place(W, p) = Place(W, q) PROVE p = q
  <2>1. Rank(S, Le, p) \in Nat /\ Rank(S, Le, p) = Rank(S, Le, q)
    BY <1>5, <1>9, <1>10, <1>11
  <2>2. Rank(S, Le, p) <= Rank(S, Le, q) /\ Rank(S, Le, q) <= Rank(S, Le, p)
    BY <2>1
  <2> QED
    BY <1>7, <1>9, <2>2
<1> QED
  BY <1>5, <1>9, <1>10, <1>11 DEF S

\* A function's place: behind those of the files before its own.
LEMMA PlaceInFile ==
    ASSUME TreeOK, NEW W \in SUBSET Walked, NEW p \in AllFuncs(W)
    PROVE  /\ Cardinality(Before(W, p[1])) \in Nat
           /\ Place(W, p) = Cardinality(Before(W, p[1])) + p[2]
<1> DEFINE f == p[1]
           j == p[2]
           A == Before(W, f)
           B == {f} \X (1 .. j)
<1>1. f \in W /\ f \in Nat /\ j \in Nat /\ j \in 1 .. Len(tree[f].funcs)
  BY FuncTypes
<1>2. Len(tree[f].funcs) \in Nat
  BY <1>1, FuncsAreSeq
<1>3. B \subseteq AllFuncs(W)
  <2> SUFFICES ASSUME NEW k \in 1 .. j PROVE <<f, k>> \in AllFuncs(W)
    OBVIOUS
  <2>1. k \in Nat /\ k \in 1 .. Len(tree[f].funcs)
    BY <1>1, <1>2
  <2> QED
    BY <1>1, <2>1, PairsOfFuncs
<1>4. \A q \in AllFuncs(W) : q = <<q[1], q[2]>> /\ q[1] \in Nat /\ q[2] \in Nat /\ q[2] >= 1
  <2> TAKE q \in AllFuncs(W)
  <2>1. /\ q[1] \in W /\ q[1] \in Nat /\ q[2] \in Nat /\ q = <<q[1], q[2]>>
        /\ q[2] \in 1 .. Len(tree[q[1]].funcs)
    BY FuncTypes
  <2>2. Len(tree[q[1]].funcs) \in Nat
    BY <2>1, FuncsAreSeq
  <2> QED
    BY <2>1, <2>2
<1>5. UpTo(W, p) = A \cup B
  <2>1. ASSUME NEW q \in UpTo(W, p) PROVE q \in A \cup B
    BY <1>1, <1>4, <2>1 DEF UpTo, Before
  <2>2. ASSUME NEW q \in A PROVE q \in UpTo(W, p)
    BY <2>2 DEF UpTo, Before
  <2>3. ASSUME NEW q \in B PROVE q \in UpTo(W, p)
    BY <1>1, <1>3, <2>3 DEF UpTo
  <2> QED
    BY <2>1, <2>2, <2>3
<1>6. A \cap B = {}
  BY <1>1 DEF Before
<1>7. IsFiniteSet(A) /\ Cardinality(A) \in Nat
  <2>1. A \in SUBSET AllFuncs(W)
    BY DEF Before
  <2> QED
    BY <2>1, FuncsFinite, FS_Subset, FS_CardinalityType
<1>8. IsFiniteSet(B) /\ Cardinality(B) = j
  BY <1>1, OneFile
<1> HIDE DEF A, B
<1>9. Cardinality(A \cup B) = Cardinality(A) + Cardinality(B) - Cardinality(A \cap B)
  BY <1>7, <1>8, FS_Union
<1>10. Cardinality(A \cap B) = 0
  BY <1>6, FS_EmptySet
<1>11. Place(W, p) = Cardinality(A) + j
  BY <1>1, <1>5, <1>7, <1>8, <1>9, <1>10 DEF Place
<1> QED
  BY <1>7, <1>11 DEF A

\* The functions of the files up to f.
Through(W, f) == {q \in AllFuncs(W) : q[1] <= f}

\* The functions up to a file, and those before it, differ by its own.
LEMMA ThroughCount ==
    ASSUME TreeOK, NEW W \in SUBSET Walked, NEW f \in W
    PROVE  /\ Cardinality(Before(W, f)) \in Nat
           /\ Cardinality(Through(W, f)) = Cardinality(Before(W, f)) + Len(tree[f].funcs)
<1> DEFINE m == Len(tree[f].funcs)
           A == Before(W, f)
           B == {f} \X (1 .. m)
<1>1. f \in Nat /\ m \in Nat
  BY FuncsAreSeq
<1>2. B \subseteq AllFuncs(W)
  BY PairsOfFuncs
<1>3. Through(W, f) = A \cup B
  <2>1. ASSUME NEW q \in Through(W, f) PROVE q \in A \cup B
    <3>1. q[1] \in Nat /\ q[2] \in 1 .. Len(tree[q[1]].funcs) /\ q = <<q[1], q[2]>> /\ q[1] <= f
      BY <2>1, FuncTypes DEF Through
    <3> QED
      BY <1>1, <2>1, <3>1 DEF Through, Before
  <2>2. ASSUME NEW q \in A PROVE q \in Through(W, f)
    BY <1>1, <2>2, FuncTypes DEF Through, Before
  <2>3. ASSUME NEW q \in B PROVE q \in Through(W, f)
    BY <1>1, <1>2, <2>3 DEF Through
  <2> QED
    BY <2>1, <2>2, <2>3
<1>4. A \cap B = {}
  BY <1>1 DEF Before
<1>5. IsFiniteSet(A) /\ Cardinality(A) \in Nat
  <2>1. A \in SUBSET AllFuncs(W)
    BY DEF Before
  <2> QED
    BY <2>1, FuncsFinite, FS_Subset, FS_CardinalityType
<1>6. IsFiniteSet(B) /\ Cardinality(B) = m
  BY <1>1, OneFile
<1> HIDE DEF A, B, m
<1>7. Cardinality(A \cup B) = Cardinality(A) + Cardinality(B) - Cardinality(A \cap B)
  BY <1>5, <1>6, FS_Union
<1>8. Cardinality(A \cap B) = 0
  BY <1>4, FS_EmptySet
<1>9. Cardinality(Through(W, f)) = Cardinality(A) + m
  BY <1>1, <1>3, <1>5, <1>6, <1>7, <1>8
<1> QED
  BY <1>5, <1>9 DEF A, m

\* In path order, sources with one package path each are listed once each.
LEMMA FoundListed ==
    ASSUME NEW W \in SUBSET Walked, NEW fs, Collected(fs, W), OnePackage(fs),
           NEW L \in [1 .. Cardinality(fs) -> fs], IsInjective(L),
           \A i, j \in DOMAIN L : i < j => L[i].path <= L[j].path
    PROVE  Lists(L, W)
<1> DEFINE g == [f \in W |-> CHOOSE x \in fs : x.path = f]
           n == Cardinality(fs)
<1>1. \A x, y \in fs : x.path = y.path => x = y
  BY DEF Collected, OnePackage
<1>2. \A x \in fs : x.path \in W /\ x.path \in Nat
  BY WalkedFinite DEF Collected
<1>3. \A f \in W : g[f] \in fs /\ g[f].path = f
  BY DEF Collected
<1>4. \A x \in fs : g[x.path] = x
  BY <1>1, <1>2, <1>3
<1>5. g \in [W -> fs]
  BY <1>3
<1> HIDE DEF g
<1>6. g \in Surjection(W, fs)
  BY <1>2, <1>4, <1>5 DEF Surjection
<1>7. IsFiniteSet(fs) /\ n \in Nat
  BY <1>6, WalkedFinite, FS_Surjection, FS_CardinalityType
<1>8. DOMAIN L = 1 .. n /\ Len(L) = n
  BY <1>7
<1>9. L \in Surjection(1 .. n, fs)
  <2>1. IsFiniteSet(1 .. n) /\ Cardinality(1 .. n) = n
    BY <1>7, FS_Interval
  <2>2. L \in Injection(1 .. n, fs)
    BY <1>8 DEF Injection
  <2> QED
    BY <1>7, <2>1, <2>2, FS_Injection
<1>10. \A x \in fs : \E i \in 1 .. n : L[i] = x
  BY <1>9 DEF Surjection
<1>11. ASSUME NEW i \in 1 .. n, NEW j \in 1 .. n, i < j PROVE L[i].path < L[j].path
  <2>1. L[i] \in fs /\ L[j] \in fs /\ L[i].path <= L[j].path /\ L[i] # L[j]
    BY <1>7, <1>8, <1>11 DEF IsInjective
  <2> QED
    BY <1>1, <1>2, <2>1
<1>12. ASSUME NEW i \in 1 .. n PROVE L[i].path \in W /\ L[i] = AstFile(L, L[i].path)
  <2> DEFINE k == CHOOSE k \in DOMAIN L : L[k].path = L[i].path
  <2>1. k \in 1 .. n /\ L[k].path = L[i].path
    BY <1>8
  <2>2. L[i] \in fs /\ L[k] = L[i]
    BY <1>1, <2>1
  <2>3. PackageOf(L, L[i].path) = L[i].package
    BY <2>2 DEF PackageOf
  <2> QED
    BY <2>2, <2>3 DEF Collected, AstFile
<1>13. ASSUME NEW f \in W PROVE \E i \in 1 .. n : L[i].path = f
  BY <1>3, <1>10
<1> QED
  BY <1>7, <1>8, <1>11, <1>12, <1>13 DEF Lists

\* The functions before a listed file are those of the files listed before it.
LEMMA BeforeListed ==
    ASSUME TreeOK, NEW W \in SUBSET Walked, NEW L, Lists(L, W)
    PROVE  /\ 1 \in 1 .. Len(L) => Before(W, L[1].path) = {}
           /\ \A k \in Nat : k # 0 /\ k + 1 \in 1 .. Len(L) =>
                 Before(W, L[k + 1].path) = Through(W, L[k].path)
<1>1. \A q \in AllFuncs(W) : \E i \in 1 .. Len(L) : L[i].path = q[1]
  BY FuncTypes DEF Lists
<1>2. /\ Len(L) \in Nat /\ \A i \in 1 .. Len(L) : L[i].path \in Nat
      /\ \A i, j \in 1 .. Len(L) : i < j => L[i].path < L[j].path
  BY WalkedFinite DEF Lists
<1>3. 1 \in 1 .. Len(L) => Before(W, L[1].path) = {}
  <2> SUFFICES ASSUME 1 \in 1 .. Len(L), NEW q \in AllFuncs(W), q[1] < L[1].path PROVE FALSE
    BY DEF Before
  <2>1. PICK i \in 1 .. Len(L) : L[i].path = q[1]
    BY <1>1
  <2>2. i = 1 \/ 1 < i
    BY <1>2
  <2> QED
    BY <1>2, <2>1, <2>2
<1>4. ASSUME NEW k \in Nat, k # 0, k + 1 \in 1 .. Len(L)
      PROVE  Before(W, L[k + 1].path) = Through(W, L[k].path)
  <2>1. k \in 1 .. Len(L) /\ k < k + 1
    BY <1>2, <1>4
  <2>2. L[k].path < L[k + 1].path
    BY <1>2, <1>4, <2>1
  <2>3. ASSUME NEW q \in AllFuncs(W) PROVE q[1] < L[k + 1].path <=> q[1] <= L[k].path
    <3>1. PICK i \in 1 .. Len(L) : L[i].path = q[1]
      BY <1>1
    <3>2. i < k \/ i = k \/ i = k + 1 \/ k + 1 < i
      BY <1>2
    <3> QED
      BY <1>2, <1>4, <2>1, <2>2, <3>1, <3>2
  <2> QED
    BY <2>3 DEF Before, Through
<1> QED
  BY <1>3, <1>4

\* The routes of a file are those of its functions, in their order.
LEMMA ParsedFile ==
    ASSUME TreeOK, NEW W \in SUBSET Walked, NEW L, Lists(L, W), NEW i \in 1 .. Len(L)
    PROVE  LET f == L[i].path
               x == ParseRouterAPIInfo(L[i])
           IN  /\ f \in W /\ x \in Seq(RouteSet(W, L))
               /\ Len(x) \in Nat /\ Len(x) = Len(tree[f].funcs)
               /\ \A p \in AllFuncs(W) : p[1] = f => p[2] \in 1 .. Len(x) /\ x[p[2]] = RouteOf(L, p)
<1> DEFINE f == L[i].path
           m == Len(tree[f].funcs)
           x == ParseRouterAPIInfo(L[i])
           route(j) == [fn |-> tree[f].funcs[j].fn, package |-> PackageOf(L, f),
                        limit |-> FindLimit(tree[f].funcs[j].words)]
<1>1. f \in W /\ L[i] = AstFile(L, f)
  BY DEF Lists
<1>2. m \in Nat /\ DOMAIN tree[f].funcs = 1 .. m
  BY <1>1, FuncsAreSeq
<1>3. L[i].funcs = tree[f].funcs /\ L[i].package = PackageOf(L, f)
  BY <1>1 DEF AstFile
<1>4. x = [j \in 1 .. m |-> route(j)]
  BY <1>2, <1>3 DEF ParseRouterAPIInfo
<1>5. \A j \in 1 .. m : <<f, j>> \in AllFuncs(W) /\ RouteOf(L, <<f, j>>) = route(j)
  BY <1>1, PairsOfFuncs DEF RouteOf, FuncOf
<1> HIDE DEF x, f, m, route
<1>6. x \in Seq(RouteSet(W, L)) /\ Len(x) = m
  <2>1. \A j \in 1 .. m : route(j) \in RouteSet(W, L)
    BY <1>5 DEF RouteSet
  <2>2. x \in [1 .. m -> RouteSet(W, L)]
    BY <1>4, <2>1
  <2> QED
    BY <1>2, <2>2
<1>7. ASSUME NEW p \in AllFuncs(W), p[1] = f PROVE p[2] \in 1 .. m /\ x[p[2]] = RouteOf(L, p)
  <2>1. p[2] \in 1 .. m /\ p = <<f, p[2]>>
    BY <1>7, FuncTypes DEF m
  <2> QED
    BY <1>4, <1>5, <2>1
<1> QED
  BY <1>1, <1>2, <1>6, <1>7 DEF x, f, m

\* What is flattened after k files: each function at its place.
Prefix(W, L, s, k) ==
    LET f == L[k].path
    IN  /\ s \in Seq(RouteSet(W, L))
        /\ Len(s) = Cardinality(Through(W, f))
        /\ \A p \in Through(W, f) : s[Place(W, p)] = RouteOf(L, p)

\* One more file appends its routes at the places of its functions.
LEMMA PrefixNext ==
    ASSUME TreeOK, NEW W \in SUBSET Walked, NEW L, Lists(L, W),
           NEW i \in 1 .. Len(L), NEW s \in Seq(RouteSet(W, L)),
           Len(s) = Cardinality(Before(W, L[i].path)),
           \A p \in Before(W, L[i].path) : s[Place(W, p)] = RouteOf(L, p)
    PROVE  Prefix(W, L, s \o ParseRouterAPIInfo(L[i]), i)
<1> DEFINE f == L[i].path
           x == ParseRouterAPIInfo(L[i])
           n == Len(s)
<1>1. /\ f \in W /\ x \in Seq(RouteSet(W, L)) /\ Len(x) \in Nat /\ Len(x) = Len(tree[f].funcs)
      /\ \A p \in AllFuncs(W) : p[1] = f => p[2] \in 1 .. Len(x) /\ x[p[2]] = RouteOf(L, p)
  BY ParsedFile
<1>2. n \in Nat /\ n = Cardinality(Before(W, f)) /\ Cardinality(Through(W, f)) = n + Len(x)
  BY <1>1, ThroughCount
<1>3. \A p \in Before(W, f) : s[Place(W, p)] = RouteOf(L, p)
  OBVIOUS
<1>4. f \in Nat
  BY <1>1, WalkedFinite
<1> HIDE DEF f, x, n
<1>5. s \o x \in Seq(RouteSet(W, L)) /\ Len(s \o x) = n + Len(x)
  <2>1. s \in Seq(RouteSet(W, L)) /\ x \in Seq(RouteSet(W, L))
    BY <1>1
  <2>2. s \o x \in Seq(RouteSet(W, L))
    BY <2>1
  <2>3. Len(s \o x) = Len(s) + Len(x)
    BY <2>1
  <2> QED
    BY <2>2, <2>3 DEF n
<1>6. ASSUME NEW p \in Through(W, f) PROVE (s \o x)[Place(W, p)] = RouteOf(L, p)
  <2>1. p \in AllFuncs(W) /\ p[1] \in Nat /\ p[1] <= f
    BY <1>6, FuncTypes DEF Through
  <2>2. CASE p[1] = f
    <3>1. Place(W, p) = n + p[2] /\ p[2] \in 1 .. Len(x) /\ x[p[2]] = RouteOf(L, p)
      BY <1>1, <1>2, <2>1, <2>2, PlaceInFile
    <3> QED
      BY <1>1, <1>2, <3>1 DEF n
  <2>3. CASE p[1] # f
    <3>1. p \in Before(W, f)
      BY <1>4, <2>1, <2>3 DEF Before
    <3>2. UpTo(W, p) \in SUBSET Before(W, f)
      <4> SUFFICES ASSUME NEW q \in UpTo(W, p) PROVE q \in Before(W, f)
        OBVIOUS
      <4>1. q \in AllFuncs(W) /\ q[1] \in Nat /\ q[1] <= p[1]
        BY <2>1, FuncTypes DEF UpTo
      <4> QED
        BY <1>4, <2>1, <2>3, <4>1 DEF Before
    <3>3. IsFiniteSet(Before(W, f))
      <4>1. Before(W, f) \in SUBSET AllFuncs(W)
        BY DEF Before
      <4> QED
        BY <4>1, FuncsFinite, FS_Subset
    <3>4. Place(W, p) <= n
      BY <1>2, <3>2, <3>3, FS_Subset DEF Place
    <3>5. Place(W, p) \in Nat /\ Place(W, p) >= 1
      BY <2>1, Places
    <3>6. s[Place(W, p)] = RouteOf(L, p)
      BY <1>3, <3>1
    <3> QED
      BY <1>1, <1>2, <3>4, <3>5, <3>6 DEF n
  <2> QED
    BY <2>2, <2>3
<1> QED
  BY <1>2, <1>5, <1>6 DEF Prefix, f, x

\* So the routes of the first n files are at the places of their functions.
LEMMA FlattenPrefix ==
    ASSUME TreeOK, NEW W \in SUBSET Walked, NEW L, Lists(L, W),
           NEW seqs, seqs = [i \in 1 .. Len(L) |-> ParseRouterAPIInfo(L[i])],
           NEW f, IsFlatten(f, seqs, Len(L))
    PROVE  \A k \in 1 .. Len(L) : Prefix(W, L, f[k], k)
<1> DEFINE G == {k \in Nat : k \in 1 .. Len(L) => Prefix(W, L, f[k], k)}
<1>0. Len(L) \in Nat
  BY DEF Lists
<1>1. 0 \in G
  OBVIOUS
<1>2. ASSUME NEW k \in Nat, k \in G PROVE k + 1 \in G
  <2> SUFFICES ASSUME k + 1 \in 1 .. Len(L) PROVE Prefix(W, L, f[k + 1], k + 1)
    OBVIOUS
  <2>1. seqs[k + 1] = ParseRouterAPIInfo(L[k + 1])
    OBVIOUS
  <2>2. CASE k = 0
    <3>1. f[1] = ParseRouterAPIInfo(L[1]) /\ 1 \in 1 .. Len(L)
      BY <2>1, <2>2 DEF IsFlatten
    <3>2. <<>> \in Seq(RouteSet(W, L)) /\ Len(<<>>) = 0
      OBVIOUS
    <3>3. Before(W, L[1].path) = {} /\ Cardinality({}) = 0
      BY <3>1, BeforeListed, FS_EmptySet
    <3>4. Prefix(W, L, <<>> \o ParseRouterAPIInfo(L[1]), 1)
      BY <3>1, <3>2, <3>3, PrefixNext
    <3>5. ParseRouterAPIInfo(L[1]) \in Seq(RouteSet(W, L))
      BY <3>1, ParsedFile
    <3>6. <<>> \o ParseRouterAPIInfo(L[1]) = ParseRouterAPIInfo(L[1])
      BY <3>5
    <3> QED
      BY <2>2, <3>1, <3>4, <3>6
  <2>3. CASE k # 0
    <3>0. k + 1 # 1 /\ (k + 1) - 1 = k
      BY <2>3
    <3>1. f[k + 1] = f[k] \o ParseRouterAPIInfo(L[k + 1])
      <4>1. f[k + 1] = IF k + 1 = 1 THEN seqs[k + 1] ELSE f[(k + 1) - 1] \o seqs[k + 1]
        BY Zenon DEF IsFlatten
      <4> QED
        BY <2>1, <3>0, <4>1
    <3>2. Prefix(W, L, f[k], k)
      BY <1>0, <1>2, <2>3
    <3>3. Before(W, L[k + 1].path) = Through(W, L[k].path)
      BY <2>3, BeforeListed
    <3>4. /\ f[k] \in Seq(RouteSet(W, L)) /\ Len(f[k]) = Cardinality(Before(W, L[k + 1].path))
          /\ \A p \in Before(W, L[k + 1].path) : f[k][Place(W, p)] = RouteOf(L, p)
      BY <3>2, <3>3 DEF Prefix
    <3> QED
      BY <3>1, <3>4, PrefixNext
  <2> QED
    BY <2>2, <2>3
<1> HIDE DEF G
<1>3. \A k \in Nat : k \in G
  BY <1>1, <1>2, SetInduction
<1> QED
  BY <1>0, <1>3 DEF G

\* All routes: those of all functions, each at its place.
LEMMA RoutesPlaced ==
    ASSUME TreeOK, NEW W \in SUBSET Walked, NEW L, Lists(L, W)
    PROVE  /\ RoutesOf(L) \in Seq(RouteSet(W, L))
           /\ Len(RoutesOf(L)) = Cardinality(AllFuncs(W))
           /\ \A p \in AllFuncs(W) : RoutesOf(L)[Place(W, p)] = RouteOf(L, p)
<1> DEFINE seqs == [i \in 1 .. Len(L) |-> ParseRouterAPIInfo(L[i])]
<1>1. /\ Len(L) \in Nat /\ DOMAIN L = 1 .. Len(L)
      /\ \A i \in 1 .. Len(L) : L[i].path \in W
      /\ \A i, j \in 1 .. Len(L) : i < j => L[i].path < L[j].path
      /\ \A f \in W : \E i \in 1 .. Len(L) : L[i].path = f
  BY DEF Lists
<1>2. RoutesOf(L) = FlattenSeq(seqs)
  BY <1>1 DEF RoutesOf
<1>3. seqs \in Seq(Seq(RouteSet(W, L))) /\ Len(seqs) = Len(L)
  <2>1. \A i \in 1 .. Len(L) : seqs[i] \in Seq(RouteSet(W, L))
    BY ParsedFile
  <2>2. seqs \in [1 .. Len(L) -> Seq(RouteSet(W, L))]
    BY <2>1
  <2> HIDE DEF seqs
  <2> QED
    BY <1>1, <2>2
<1>4. CASE Len(L) = 0
  <2>1. AllFuncs(W) = {}
    BY <1>1, <1>4 DEF AllFuncs
  <2>2. RoutesOf(L) = <<>>
    BY <1>2, <1>3, <1>4 DEF FlattenSeq
  <2> QED
    BY <2>1, <2>2, FS_EmptySet
<1>5. CASE Len(L) # 0
  <2> HIDE DEF seqs
  <2>1. PICK f : IsFlatten(f, seqs, Len(L)) /\ FlattenSeq(seqs) = f[Len(L)]
    BY <1>1, <1>3, <1>5, FlattenIs
  <2>2. Prefix(W, L, f[Len(L)], Len(L))
    <3>1. \A k \in 1 .. Len(L) : Prefix(W, L, f[k], k)
      BY <2>1, FlattenPrefix DEF seqs
    <3> QED
      BY <1>1, <1>5, <3>1
  <2>3. Through(W, L[Len(L)].path) = AllFuncs(W)
    <3> SUFFICES ASSUME NEW q \in AllFuncs(W) PROVE q[1] <= L[Len(L)].path
      BY DEF Through
    <3>1. PICK i \in 1 .. Len(L) : L[i].path = q[1]
      BY <1>1, FuncTypes
    <3>0. Len(L) \in 1 .. Len(L)
      BY <1>1, <1>5
    <3>2. L[i].path \in Nat /\ L[Len(L)].path \in Nat
      BY <1>1, <3>0, WalkedFinite
    <3> DEFINE n == Len(L)
    <3>3. n \in Nat /\ i \in 1 .. n /\ n \in 1 .. n
      BY <1>1, <3>0
    <3>4. \A j \in 1 .. n : j < n => L[j].path < L[n].path
      BY <1>1, <3>3
    <3> HIDE DEF n
    <3>5. i = n \/ i < n
      BY <3>3
    <3>6. L[i].path <= L[n].path
      BY <3>2, <3>3, <3>4, <3>5 DEF n
    <3> QED
      BY <3>1, <3>6 DEF n
  <2> QED
    BY <1>2, <2>1, <2>2, <2>3 DEF Prefix
<1> QED
  BY <1>4, <1>5

-----------------------------------------------------------------------------
(* The text of all routes is what a reader of the sources expects.         *)

Name(p)  == Word(FuncOf(p).words, 3)
First(W, n) == CHOOSE p \in AllFuncs(W) :
               Name(p) = n /\ \A q \in AllFuncs(W) : Name(q) = n => Place(W, p) <= Place(W, q)

\* What Complete asks of a text, in the terms of this module.
LEMMA CompleteIs ==
    ASSUME NEW t, NEW W, AllParse(W),
           Len(t.routes) = Cardinality(AllFuncs(W)),
           \A p \in AllFuncs(W) : /\ t.routes[Place(W, p)].fn = FuncOf(p).fn
                               /\ t.routes[Place(W, p)].limit.name = Name(p),
           DOMAIN t.limiters = {Name(p) : p \in AllFuncs(W)} \ {""},
           \A n \in DOMAIN t.limiters : t.limiters[n] = FindLimit(FuncOf(First(W, n)).words)
    PROVE  Complete(t, W)
BY Zenon DEF Complete, AllParse, AllFuncs, Place, UpTo, FuncOf, Name, First

\* The route at the place of a function is that of the function.
LEMMA RouteAt ==
    ASSUME TreeOK, NEW W \in SUBSET Walked, NEW L, Lists(L, W)
    PROVE  /\ DOMAIN RoutesOf(L) = 1 .. Cardinality(AllFuncs(W))
           /\ \A p \in AllFuncs(W) :
                 /\ Place(W, p) \in DOMAIN RoutesOf(L)
                 /\ RoutesOf(L)[Place(W, p)].fn = FuncOf(p).fn
                 /\ RoutesOf(L)[Place(W, p)].limit = FindLimit(FuncOf(p).words)
                 /\ RoutesOf(L)[Place(W, p)].limit.name = Name(p)
           /\ \A i \in DOMAIN RoutesOf(L) : \E p \in AllFuncs(W) : Place(W, p) = i
<1>1. DOMAIN RoutesOf(L) = 1 .. Cardinality(AllFuncs(W))
  BY RoutesPlaced
<1>2. \A p \in AllFuncs(W) : /\ Place(W, p) \in DOMAIN RoutesOf(L)
                             /\ RoutesOf(L)[Place(W, p)] = RouteOf(L, p)
  BY <1>1, Places, RoutesPlaced
<1>3. \A p \in AllFuncs(W) : /\ RouteOf(L, p).fn = FuncOf(p).fn
                          /\ RouteOf(L, p).limit = FindLimit(FuncOf(p).words)
                          /\ RouteOf(L, p).limit.name = Name(p)
  BY DEF RouteOf, FindLimit, Name
<1> QED
  BY <1>1, <1>2, <1>3, Places

FirstLimit(rs, n) ==
    LET named == {i \in DOMAIN rs : rs[i].limit.name = n}
    IN  rs[CHOOSE i \in named : \A j \in named : i <= j].limit

\* The first route with a limit's name is that of the first function with it.
LEMMA FirstNamed ==
    ASSUME TreeOK, NEW W \in SUBSET Walked, NEW L, Lists(L, W),
           NEW n \in {Name(p) : p \in AllFuncs(W)}
    PROVE  FirstLimit(RoutesOf(L), n) = FindLimit(FuncOf(First(W, n)).words)
<1> DEFINE named == {i \in DOMAIN RoutesOf(L) : RoutesOf(L)[i].limit.name = n}
           least == CHOOSE i \in named : \A j \in named : i <= j
<1>1. \A p \in AllFuncs(W) : Name(p) = n => Place(W, p) \in named
  BY RouteAt
<1>2. named \subseteq Nat
  BY RouteAt, Places
<1>3. named # {}
  BY <1>1
<1> HIDE DEF named
<1>4. least \in named /\ \A j \in named : least <= j
  BY <1>2, <1>3, Least
<1> HIDE DEF least
<1>5. PICK p \in AllFuncs(W) : Place(W, p) = least
  BY <1>4, RouteAt DEF named
<1>6. Name(p) = n
  BY <1>4, <1>5, RouteAt DEF named
<1>7. \A q \in AllFuncs(W) : Name(q) = n => Place(W, p) <= Place(W, q)
  BY <1>1, <1>4, <1>5
<1> DEFINE f == First(W, n)
<1>8. /\ f \in AllFuncs(W) /\ Name(f) = n
      /\ \A q \in AllFuncs(W) : Name(q) = n => Place(W, f) <= Place(W, q)
  BY <1>6, <1>7, Zenon DEF First
<1> HIDE DEF f
<1>9. Place(W, f) = least
  <2>1. Place(W, f) \in Nat /\ Place(W, p) \in Nat
    BY <1>8, Places
  <2>2. Place(W, f) <= Place(W, p) /\ Place(W, p) <= Place(W, f)
    BY <1>6, <1>7, <1>8
  <2> QED
    BY <1>5, <2>1, <2>2
<1>10. RoutesOf(L)[least].limit = FindLimit(FuncOf(f).words)
  BY <1>8, <1>9, RouteAt
<1> QED
  BY <1>10 DEF FirstLimit, least, named, f

\* If every source parses, the text of all routes is complete.
LEMMA AllComplete ==
    ASSUME TreeOK, NEW W \in SUBSET Walked, NEW L, Lists(L, W), AllParse(W)
    PROVE  Complete(Rendered(RoutesOf(L)), W)
<1> DEFINE R == RoutesOf(L)
           t == Rendered(R)
           names == {R[i].limit.name : i \in DOMAIN R} \ {""}
<1>1. t.routes = [i \in DOMAIN R |-> [R[i] EXCEPT !.limit = Limiter(R[i].limit)]]
  BY DEF Rendered
<1>2. t.limiters = Limits(R)
  BY DEF Rendered
<1>3. DOMAIN t.limiters = names
  BY <1>2 DEF Limits
<1>4. \A n \in names : t.limiters[n] = FirstLimit(R, n)
  BY <1>2 DEF Limits, FirstLimit
<1> HIDE DEF t
<1>5. names = {Name(p) : p \in AllFuncs(W)} \ {""}
  <2>1. /\ \A p \in AllFuncs(W) : Place(W, p) \in DOMAIN R /\ R[Place(W, p)].limit.name = Name(p)
        /\ \A i \in DOMAIN R : \E p \in AllFuncs(W) : Place(W, p) = i
    BY RouteAt
  <2> HIDE DEF R
  <2> QED
    BY <2>1
<1>6. \A n \in names : t.limiters[n] = FindLimit(FuncOf(First(W, n)).words)
  <2> SUFFICES ASSUME NEW n \in names
               PROVE  t.limiters[n] = FindLimit(FuncOf(First(W, n)).words)
    OBVIOUS
  <2>1. n \in {Name(p) : p \in AllFuncs(W)}
    BY <1>5
  <2>2. FirstLimit(RoutesOf(L), n) = FindLimit(FuncOf(First(W, n)).words)
    BY <2>1, FirstNamed
  <2> QED
    BY <1>4, <2>2
<1>7. Len(t.routes) = Cardinality(AllFuncs(W))
  <2>1. DOMAIN t.routes = 1 .. Cardinality(AllFuncs(W)) /\ Cardinality(AllFuncs(W)) \in Nat
    BY <1>1, RouteAt, Places
  <2>2. t.routes = [i \in 1 .. Cardinality(AllFuncs(W)) |-> t.routes[i]]
    BY <1>1, <2>1
  <2> QED
    BY <2>1, <2>2
<1>8. ASSUME NEW p \in AllFuncs(W)
      PROVE  t.routes[Place(W, p)].fn = FuncOf(p).fn /\ t.routes[Place(W, p)].limit.name = Name(p)
  <2>1. /\ Place(W, p) \in DOMAIN R /\ R[Place(W, p)] = RouteOf(L, p)
        /\ t.routes[Place(W, p)] = [R[Place(W, p)] EXCEPT !.limit = Limiter(R[Place(W, p)].limit)]
    BY <1>1, RouteAt, RoutesPlaced
  <2>2. R[Place(W, p)].fn = FuncOf(p).fn /\ R[Place(W, p)].limit = FindLimit(FuncOf(p).words)
    BY RouteAt
  <2>3. Limiter(FindLimit(FuncOf(p).words)).name = Name(p)
    BY DEF Limiter, FindLimit, Name
  <2>4. t.routes[Place(W, p)] = [fn |-> FuncOf(p).fn, package |-> PackageOf(L, p[1]),
                              limit |-> Limiter(FindLimit(FuncOf(p).words))]
    BY <2>1 DEF RouteOf
  <2> QED
    BY <2>3, <2>4
<1>9. DOMAIN t.limiters = {Name(p) : p \in AllFuncs(W)} \ {""}
  BY <1>3, <1>5
<1>10. \A n \in DOMAIN t.limiters : t.limiters[n] = FindLimit(FuncOf(First(W, n)).words)
  BY <1>3, <1>6
<1>11. Complete(t, W)
  BY <1>7, <1>8, <1>9, <1>10, CompleteIs
<1> QED
  BY <1>11 DEF t

-----------------------------------------------------------------------------
(* The walk, and the routes of a run.                                      *)

Domains == DOMAIN todo = Runs /\ DOMAIN found = Runs /\ DOMAIN routes = Runs /\ DOMAIN text = Runs

\* Routes and text as the second and the third phase make them of what was found.
HasRoutes(r, rs) == Collected(found[r], readable[r]) /\ rs \in RangeFiles(found[r])
HasText(r)       == \E rs : HasRoutes(r, rs) /\ text[r] = Rendered(rs)

\* The files left to a walk are among those it can read.
TodoInv(r) ==
    /\ todo[r] \in Seq(Files \cup Runs)
    /\ \A i \in DOMAIN todo[r] : todo[r][i] \in Files => todo[r][i] \in readable[r]

\* What a run has not come to yet.
StartInv(r) ==
    /\ pc[r] = "idle" => todo[r] = <<>> /\ found[r] = {} /\ readable[r] = {}
    /\ pc[r] \in {"idle", "walk", "range"} => routes[r] = <<>>
    /\ pc[r] \in {"idle", "walk", "range", "render"} => text[r] = Empty

\* What is found is a source; every file that can be read is found or about to be.
WalkInv(r) ==
    calm[r] /\ pc[r] = "walk" =>
        /\ \A x \in found[r] :
              /\ x.path \in readable[r] /\ tree[x.path].parses
              /\ x = [path |-> x.path, package |-> x.package, funcs |-> tree[x.path].funcs]
        /\ \A f \in readable[r] :
              (\E x \in found[r] : x.path = f) \/ \E k \in DOMAIN todo[r] : todo[r][k] = f

\* The routes are those of all sources, or none.
FoundInv(r) ==
    calm[r] =>
        /\ pc[r] = "range" => Collected(found[r], readable[r])
        /\ pc[r] = "render" /\ routes[r] # <<>> => HasRoutes(r, routes[r])
        /\ Finished(r) => HasText(r)

RunInv(r) == TodoInv(r) /\ StartInv(r) /\ WalkInv(r) /\ FoundInv(r)

\* A run that is alone meets no temporary file, and has all routes unless a
\* source does not parse.
AloneInv(r) ==
    alone[r] =>
        /\ pc[r] \in Active => \A s \in Runs \ {r} : pc[s] \notin Active /\ temp[s] = "none"
        /\ pc[r] = "walk" => \A i \in DOMAIN todo[r] : todo[r][i] \in Files
        /\ calm[r] /\ AllParse(readable[r]) =>
              /\ pc[r] = "render" => HasRoutes(r, routes[r])
              /\ pc[r] \in {"create", "write", "rename", "remove"} => HasText(r)
              /\ r # NoRun /\ out.run = r => HasText(r)

RoutesInv == Domains /\ \A r \in Runs : RunInv(r) /\ AloneInv(r)

\* No run has begun.
LEMMA RoutesInit == Init => RoutesInv
<1> SUFFICES ASSUME Init PROVE RoutesInv
  OBVIOUS
<1>1. Domains
  BY DEF Init, Domains
<1>2. ASSUME NEW r \in Runs PROVE RunInv(r) /\ AloneInv(r)
  <2>1. /\ pc[r] = "idle" /\ todo[r] = <<>> /\ found[r] = {} /\ readable[r] = {}
        /\ routes[r] = <<>> /\ text[r] = Empty /\ out.run = NoRun
    BY DEF Init
  <2> QED
    BY <2>1 DEF RunInv, AloneInv, TodoInv, StartInv, WalkInv, FoundInv, Finished, Active
<1> QED
  BY <1>1, <1>2 DEF RoutesInv

\* While the sources and what a run has found of them stay, so do its routes.
LEMMA SameFound ==
    ASSUME UNCHANGED tree, NEW r, found'[r] = found[r], readable'[r] = readable[r]
    PROVE  /\ Collected(found[r], readable[r])' <=> Collected(found[r], readable[r])
           /\ AllParse(readable[r])' <=> AllParse(readable[r])
           /\ routes'[r] = routes[r] => (HasRoutes(r, routes[r])' <=> HasRoutes(r, routes[r]))
           /\ text'[r] = text[r] => (HasText(r)' <=> HasText(r))
<1>1. Collected(found[r], readable[r])' <=> Collected(found[r], readable[r])
  BY DEF Collected, AllParse
<1>2. AllParse(readable[r])' <=> AllParse(readable[r])
  BY DEF AllParse
<1>3. RangeFiles(found[r])' = RangeFiles(found[r])
  OBVIOUS
<1>4. routes'[r] = routes[r] => (HasRoutes(r, routes[r])' <=> HasRoutes(r, routes[r]))
  BY <1>1, <1>3 DEF HasRoutes
<1>5. ASSUME NEW rs PROVE HasRoutes(r, rs)' <=> HasRoutes(r, rs)
  BY <1>1, <1>3 DEF HasRoutes
<1>6. text'[r] = text[r] => (HasText(r)' <=> HasText(r))
  BY <1>5 DEF HasText
<1> QED
  BY <1>1, <1>2, <1>4, <1>6

\* A run that does nothing, while the sources stay or it has not begun.
LEMMA RunStays ==
    ASSUME NEW r \in Runs, RunInv(r), pc'[r] = pc[r], todo'[r] = todo[r], found'[r] = found[r],
           readable'[r] = readable[r], routes'[r] = routes[r], text'[r] = text[r],
           \/ UNCHANGED tree /\ calm'[r] = calm[r]
           \/ calm'[r] => pc[r] = "idle"
    PROVE  RunInv(r)'
<1>1. TodoInv(r)' /\ StartInv(r)'
  BY DEF RunInv, TodoInv, StartInv
<1>2. CASE UNCHANGED tree /\ calm'[r] = calm[r]
  <2>1. WalkInv(r)'
    BY <1>2 DEF RunInv, WalkInv
  <2>2. FoundInv(r)'
    BY <1>2, SameFound DEF RunInv, FoundInv, Finished
  <2> QED
    BY <1>1, <2>1, <2>2 DEF RunInv
<1>3. CASE calm'[r] => pc[r] = "idle"
  BY <1>1, <1>3 DEF RunInv, WalkInv, FoundInv, Finished
<1> QED
  BY <1>2, <1>3

\* The other runs, at a step of an active one: none of them is active and alone.
LEMMA OthersAlone ==
    ASSUME IInv, RoutesInv, NEW q \in Runs, pc[q] \in Active,
           NEW r \in Runs, r # q, pc'[r] = pc[r], text'[r] = text[r], found'[r] = found[r],
           readable'[r] = readable[r], alone'[r] = alone[r], calm'[r] = calm[r], UNCHANGED tree,
           out' = out \/ out'.run = q
    PROVE  AloneInv(r)'
<1>1. AloneInv(r)
  BY DEF RoutesInv
<1>2. alone[r] => pc[r] \notin Active
  BY <1>1 DEF AloneInv
<1>3. pc[r] = "walk" => pc[r] \in Active
  BY DEF Active
<1>4. pc[r] \in {"render", "create", "write", "rename", "remove"} => pc[r] \in Active
  BY DEF Active
<1>5. out'.run = r => out.run = r
  OBVIOUS
<1> QED
  BY <1>1, <1>2, <1>3, <1>4, <1>5, SameFound DEF AloneInv

\* The walk finds the files that it sees, and the temporary files among them.
LEMMA ListingIs ==
    ASSUME NEW d \in Range(Dirs), NEW unread
    PROVE  LET seen == Seen(d, unread)
           IN  /\ Listing(seen) \in Seq(Files \cup Runs)
               /\ \A i \in DOMAIN Listing(seen) :
                     \/ Listing(seen)[i] \in Files \cap seen
                     \/ Listing(seen)[i] \in Runs /\ temp[Listing(seen)[i]] # "none"
               /\ \A f \in Files \cap seen : \E i \in DOMAIN Listing(seen) : Listing(seen)[i] = f
<1> DEFINE seen == Seen(d, unread)
           P == Files \cap seen
           T == {r \in Runs \cap seen : temp[r] # "none"}
           a == SetToSeq(T)
           b == InOrder(P, [f \in P |-> f])
<1>1. P \subseteq Files /\ P \subseteq Nat /\ IsFiniteSet(P) /\ IsFiniteSet(T)
  <2>1. T \in SUBSET Runs /\ P \in SUBSET DOMAIN d.package
    BY FilesAssumption DEF Seen
  <2> QED
    BY <2>1, FilesAssumption, FS_Subset
<1>2. /\ Cardinality(P) \in Nat /\ b \in [1 .. Cardinality(P) -> P]
      /\ \A f \in P : \E i \in 1 .. Cardinality(P) : b[i] = f
  <2> DEFINE path == [f \in P |-> f]
  <2>1. path \in [P -> Nat] /\ \A x, y \in P : path[x] = path[y] => x = y
    BY <1>1
  <2> HIDE DEF path, P
  <2>2. /\ Cardinality(P) \in Nat /\ InOrder(P, path) \in [1 .. Cardinality(P) -> P]
        /\ \A f \in P : \E i \in 1 .. Cardinality(P) : InOrder(P, path)[i] = f
    <3>1. IsFiniteSet(P)
      BY <1>1
    <3> QED
      BY <2>1, <3>1, InOrderLists
  <2>3. b = InOrder(P, path)
    BY DEF path
  <2> HIDE DEF b
  <2> QED
    BY <2>2, <2>3
<1>3. a \in Seq(T)
  <2>1. PICK n \in Nat : ExistsBijection(1 .. n, T)
    BY <1>1, FS_NatBijection
  <2>2. Cardinality(T) = n
    BY <2>1, FS_CountingElements
  <2>3. \E f \in [1 .. Cardinality(T) -> T] : IsInjective(f)
    BY <2>1, <2>2 DEF ExistsBijection, Bijection, Injection
  <2>4. SetToSeq(T) \in [1 .. Cardinality(T) -> T]
    BY <2>3 DEF SetToSeq
  <2> HIDE DEF T
  <2> QED
    BY <2>2, <2>4
<1>4. Listing(seen) = a \o b
  BY DEF Listing
<1>5. T \subseteq Runs /\ \A r \in T : temp[r] # "none"
  OBVIOUS
<1>6. P = Files \cap seen
  OBVIOUS
<1> HIDE DEF P, T, a, b, seen
<1>7. b \in Seq(P) /\ DOMAIN b = 1 .. Cardinality(P) /\ Len(b) = Cardinality(P)
  BY <1>2
<1> DEFINE S == Files \cup Runs
           x == a \o b
<1>8. a \in Seq(S) /\ b \in Seq(S) /\ Len(a) \in Nat /\ Len(b) \in Nat
  <2>1. T \subseteq S /\ P \subseteq S
    BY <1>1, <1>5
  <2> HIDE DEF S
  <2>2. a \in Seq(S) /\ Len(a) \in Nat
    BY <1>3, <2>1
  <2>3. b \in Seq(S) /\ Len(b) \in Nat
    BY <1>7, <2>1
  <2> QED
    BY <2>2, <2>3
<1>9. x \in Seq(S) /\ DOMAIN x = 1 .. Len(a) + Len(b)
  BY <1>8
<1>10. \A i \in 1 .. Len(a) + Len(b) :
          x[i] = IF i <= Len(a) THEN a[i] ELSE b[i - Len(a)]
  BY <1>8
<1> HIDE DEF x
<1>11. ASSUME NEW i \in DOMAIN x PROVE x[i] \in P \/ (x[i] \in Runs /\ temp[x[i]] # "none")
  <2>1. CASE i <= Len(a)
    <3>1. a[i] \in T
      BY <1>3, <1>8, <1>9, <2>1
    <3> QED
      BY <1>5, <1>9, <1>10, <2>1, <3>1
  <2>2. CASE ~(i <= Len(a))
    <3>1. i - Len(a) \in 1 .. Len(b)
      BY <1>8, <1>9, <2>2
    <3>2. b[i - Len(a)] \in P
      BY <1>7, <3>1
    <3> QED
      BY <1>9, <1>10, <2>2, <3>2
  <2> QED
    BY <2>1, <2>2
<1>12. ASSUME NEW f \in P PROVE \E i \in DOMAIN x : x[i] = f
  <2>1. PICK j \in 1 .. Len(b) : b[j] = f
    BY <1>2, <1>7
  <2>2. Len(a) + j \in 1 .. Len(a) + Len(b) /\ ~(Len(a) + j <= Len(a)) /\ (Len(a) + j) - Len(a) = j
    BY <1>8
  <2> QED
    BY <1>9, <1>10, <2>1, <2>2
<1> QED
  BY <1>4, <1>6, <1>9, <1>11, <1>12 DEF x, seen

\* A step of run r, as the others see it.
Elsewhere(r) ==
    /\ Domains'
    /\ \A s \in Runs \ {r} :
          /\ pc'[s] = pc[s] /\ todo'[s] = todo[s] /\ found'[s] = found[s]
          /\ readable'[s] = readable[s]
          /\ routes'[s] = routes[s] /\ text'[s] = text[s] /\ temp'[s] = temp[s]
    /\ UNCHANGED <<tree, calm, alone>>
    /\ out' = out \/ out'.run = r

\* A step of a run has to keep the invariant for that run alone.
LEMMA StepOf ==
    ASSUME IInv, RoutesInv, NEW r \in Runs, pc[r] \in Active, Elsewhere(r),
           RunInv(r)' /\ AloneInv(r)'
    PROVE  RoutesInv'
<1>1. ASSUME NEW s \in Runs, s # r PROVE RunInv(s)' /\ AloneInv(s)'
  <2>1. /\ pc'[s] = pc[s] /\ todo'[s] = todo[s] /\ found'[s] = found[s]
        /\ readable'[s] = readable[s] /\ routes'[s] = routes[s] /\ text'[s] = text[s]
        /\ alone'[s] = alone[s] /\ calm'[s] = calm[s] /\ UNCHANGED tree
        /\ out' = out \/ out'.run = r
    BY <1>1 DEF Elsewhere
  <2>2. RunInv(s)'
    <3>1. RunInv(s)
      BY DEF RoutesInv
    <3> QED
      BY <2>1, <3>1, RunStays
  <2>3. AloneInv(s)'
    BY <1>1, <2>1, OthersAlone
  <2> QED
    BY <2>2, <2>3
<1> QED
  BY <1>1 DEF RoutesInv, Elsewhere

\* What a run that is alone must keep at its own step.
LEMMA AloneStep ==
    ASSUME IInv, RoutesInv, NEW r \in Runs, pc[r] \in Active, Elsewhere(r),
           alone[r] /\ pc'[r] = "walk" => \A i \in DOMAIN todo'[r] : todo'[r][i] \in Files,
           alone[r] /\ calm[r] /\ AllParse(readable[r])' =>
              /\ pc'[r] = "render" => HasRoutes(r, routes[r])'
              /\ pc'[r] \in {"create", "write", "rename", "remove"} => HasText(r)'
              /\ r # NoRun /\ out'.run = r => HasText(r)'
    PROVE  AloneInv(r)'
<1>1. alone[r] => \A s \in Runs \ {r} : pc[s] \notin Active /\ temp[s] = "none"
  BY DEF RoutesInv, AloneInv
<1>2. /\ alone'[r] = alone[r] /\ calm'[r] = calm[r]
      /\ \A s \in Runs \ {r} : pc'[s] = pc[s] /\ temp'[s] = temp[s]
  BY DEF Elsewhere
<1> QED
  BY <1>1, <1>2 DEF AloneInv

\* An active run has not replaced the router file.
LEMMA NotOut ==
    ASSUME IInv, NEW r \in Runs, pc[r] \in Active \cup {"idle"}
    PROVE  ~(r # NoRun /\ out.run = r)
BY DEF IInv, OutputWhole, Active

\* Domains of the runs' local variables.
LEMMA Locals ==
    ASSUME IInv, RoutesInv, NEW r \in Runs
    PROVE  /\ DOMAIN pc = Runs /\ DOMAIN dir = Runs /\ DOMAIN temp = Runs
           /\ DOMAIN todo = Runs /\ DOMAIN found = Runs /\ DOMAIN readable = Runs
           /\ DOMAIN routes = Runs /\ DOMAIN text = Runs
           /\ dir[r] \in 0 .. Len(Dirs) /\ Len(Dirs) \in Nat /\ DOMAIN Dirs = 1 .. Len(Dirs)
           /\ readable[r] \in SUBSET Walked
BY FilesAssumption DEF IInv, TypeOK, RoutesInv, Domains

\* MakeRouter begins with nothing found, and ends the solitude of the others.
LEMMA RoutesMake == ASSUME IInv, RoutesInv, NEW r \in Runs, MakeRouter(r) PROVE RoutesInv'
<1>1. /\ pc[r] = "idle" /\ pc'[r] \in {"walk", "end"}
      /\ \A s \in Runs \ {r} : pc'[s] = pc[s]
      /\ UNCHANGED <<Disk, runVars, readable, calm>>
  BY Locals DEF MakeRouter, Goto
<1>2. /\ UNCHANGED <<tree, temp, out, todo, found, readable, routes, text, calm>>
  BY <1>1 DEF Disk, runVars
<1>3. Domains'
  BY <1>2 DEF RoutesInv, Domains
<1>4. ASSUME NEW s \in Runs PROVE RunInv(s)'
  <2>1. RunInv(s)
    BY DEF RoutesInv
  <2>2. CASE s # r
    BY <1>1, <1>2, <2>1, <2>2, RunStays
  <2>3. CASE s = r
    <3>1. /\ todo[r] = <<>> /\ found[r] = {} /\ readable[r] = {}
          /\ routes[r] = <<>> /\ text[r] = Empty
      BY <1>1, <2>1, <2>3 DEF RunInv, StartInv
    <3>2. TodoInv(r)' /\ StartInv(r)'
      BY <1>1, <1>2, <2>1, <2>3, <3>1 DEF RunInv, TodoInv, StartInv
    <3>3. WalkInv(r)' /\ FoundInv(r)'
      BY <1>1, <1>2, <3>1 DEF WalkInv, FoundInv, Finished
    <3> QED
      BY <2>3, <3>2, <3>3 DEF RunInv
  <2> QED
    BY <2>2, <2>3
<1>5. ASSUME NEW s \in Runs PROVE AloneInv(s)'
  <2>1. AloneInv(s)
    BY DEF RoutesInv
  <2>2. CASE s # r
    <3>1. alone'[s] => alone[s] /\ pc[s] \notin Active
      BY <2>2 DEF MakeRouter
    <3>2. pc[s] \notin Active =>
              pc[s] \notin {"walk", "render", "create", "write", "rename", "remove"}
      BY DEF Active
    <3> QED
      BY <1>1, <1>2, <2>1, <2>2, <3>1, <3>2, SameFound DEF AloneInv
  <2>3. CASE s = r
    <3>1. alone'[r] => \A q \in Runs : pc[q] \notin Active /\ temp[q] = "none"
      BY DEF MakeRouter
    <3>2. todo[r] = <<>>
      BY <1>1 DEF RoutesInv, RunInv, StartInv
    <3>3. ~(r # NoRun /\ out.run = r)
      BY <1>1, NotOut
    <3> QED
      BY <1>1, <1>2, <2>3, <3>1, <3>2, <3>3 DEF AloneInv
  <2> QED
    BY <2>2, <2>3
<1> QED
  BY <1>3, <1>4, <1>5 DEF RoutesInv

\* The names of the next directory come on the list, as far as it can be read.
LEMMA RoutesWalk == ASSUME IInv, RoutesInv, NEW r \in Runs, WalkDir(r) PROVE RoutesInv'
<1>1. /\ pc[r] = "walk" /\ pc[r] \in Active /\ todo[r] = <<>> /\ dir[r] < Len(Dirs)
      /\ UNCHANGED <<tree, temp, out, routes, text, calm, alone>>
      /\ RunInv(r) /\ AloneInv(r)
  BY DEF WalkDir, Disk, Active, RoutesInv
<1>2. routes[r] = <<>> /\ text[r] = Empty
  BY <1>1 DEF RunInv, StartInv
<1>3. ~(r # NoRun /\ out'.run = r)
  BY <1>1, NotOut
<1> DEFINE d == Dirs[dir[r] + 1]
<1>4. ASSUME NEW unread, UNCHANGED <<pc, found>>,
             todo' = [todo EXCEPT ![r] = Listing(Seen(d, unread))],
             readable' = [readable EXCEPT ![r] = @ \cup (Files \cap Seen(d, unread))]
      PROVE  RoutesInv'
  <2>1. d \in Range(Dirs)
    <3>1. dir[r] + 1 \in DOMAIN Dirs
      BY <1>1, Locals
    <3> QED
      BY <3>1 DEF Range
  <2> HIDE DEF d
  <2> DEFINE seen == Seen(d, unread)
  <2>2. todo'[r] = Listing(seen) /\ readable'[r] = readable[r] \cup (Files \cap seen)
    BY <1>4, Locals
  <2>3. Elsewhere(r)
    BY <1>1, <1>4, Locals DEF Elsewhere, Domains
  <2>4. /\ todo'[r] \in Seq(Files \cup Runs)
        /\ \A i \in DOMAIN todo'[r] :
              \/ todo'[r][i] \in Files \cap seen
              \/ todo'[r][i] \in Runs /\ temp[todo'[r][i]] # "none"
        /\ \A f \in Files \cap seen : \E i \in DOMAIN todo'[r] : todo'[r][i] = f
    BY <2>1, <2>2, ListingIs
  <2> HIDE DEF seen
  <2>5. Runs \cap Files = {}
    BY FilesAssumption
  <2>6. TodoInv(r)'
    BY <2>2, <2>4, <2>5 DEF TodoInv
  <2>7. StartInv(r)' /\ FoundInv(r)'
    BY <1>1, <1>2, <1>4 DEF StartInv, FoundInv, Finished
  <2>8. WalkInv(r)'
    <3>1. calm[r] => /\ \A x \in found[r] :
                           /\ x.path \in readable[r] /\ tree[x.path].parses
                           /\ x = [path |-> x.path, package |-> x.package,
                                   funcs |-> tree[x.path].funcs]
                     /\ \A f \in readable[r] : \E x \in found[r] : x.path = f
      BY <1>1 DEF RunInv, WalkInv
    <3> QED
      BY <1>1, <1>4, <2>2, <2>4, <3>1 DEF WalkInv
  <2>9. AloneInv(r)'
    <3>1. alone[r] => \A s \in Runs : temp[s] = "none"
      BY <1>1 DEF AloneInv, IInv, InUse
    <3>2. alone[r] => \A i \in DOMAIN todo'[r] : todo'[r][i] \in Files
      BY <2>4, <3>1
    <3> QED
      BY <1>1, <1>3, <1>4, <2>3, <3>2, AloneStep
  <2> QED
    BY <1>1, <2>3, <2>6, <2>7, <2>8, <2>9, StepOf DEF RunInv
<1>5. CASE Vanished(r) /\ UNCHANGED readable
  <2>1. pc'[r] = "dead" /\ Elsewhere(r) /\ UNCHANGED <<found, todo>>
    BY <1>1, <1>5, Locals DEF Vanished, Goto, Elsewhere, Domains
  <2>2. RunInv(r)'
    BY <1>1, <1>2, <1>5, <2>1 DEF RunInv, TodoInv, StartInv, WalkInv, FoundInv, Finished
  <2>3. AloneInv(r)'
    BY <1>1, <1>3, <2>1, AloneStep
  <2> QED
    BY <1>1, <2>1, <2>2, <2>3, StepOf
<1> QED
  BY <1>4, <1>5 DEF WalkDir, Seen

\* Behind the last directory all sources are found.
LEMMA RoutesWalkEnd == ASSUME IInv, RoutesInv, NEW r \in Runs, WalkEnd(r) PROVE RoutesInv'
<1>1. /\ pc[r] = "walk" /\ pc[r] \in Active /\ todo[r] = <<>>
      /\ UNCHANGED <<tree, temp, out, todo, found, readable, routes, text, calm, alone>>
      /\ RunInv(r) /\ AloneInv(r)
  BY DEF WalkEnd, Disk, Ghosts, Active, RoutesInv
<1>2. routes[r] = <<>> /\ text[r] = Empty
  BY <1>1 DEF RunInv, StartInv
<1>3. ~(r # NoRun /\ out'.run = r)
  BY <1>1, NotOut
<1>4. pc'[r] = "range" /\ Elsewhere(r)
  BY <1>1, Locals DEF WalkEnd, Goto, Elsewhere, Domains
<1>5. TodoInv(r)' /\ StartInv(r)' /\ WalkInv(r)'
  BY <1>1, <1>2, <1>4 DEF RunInv, TodoInv, StartInv, WalkInv
<1>6. calm[r] => Collected(found[r], readable[r])
  <2> SUFFICES ASSUME calm[r] PROVE Collected(found[r], readable[r])
    OBVIOUS
  <2>1. /\ \A x \in found[r] :
              /\ x.path \in readable[r] /\ tree[x.path].parses
              /\ x = [path |-> x.path, package |-> x.package, funcs |-> tree[x.path].funcs]
        /\ \A f \in readable[r] : \E x \in found[r] : x.path = f
    BY <1>1 DEF RunInv, WalkInv
  <2> QED
    BY <2>1 DEF Collected, AllParse
<1>7. FoundInv(r)'
  BY <1>1, <1>4, <1>6, SameFound DEF FoundInv, Finished
<1>8. AloneInv(r)'
  BY <1>1, <1>3, <1>4, AloneStep
<1> QED
  BY <1>1, <1>4, <1>5, <1>7, <1>8, StepOf DEF RunInv

\* A file that is collected is found, and what was found before still is.
LEMMA CollectIs ==
    ASSUME NEW fs, NEW f, NEW package
    PROVE  LET new == [path |-> f, package |-> package, funcs |-> tree[f].funcs]
           IN  /\ fs \subseteq CollectAstFile(fs, f, package)
               /\ CollectAstFile(fs, f, package) \subseteq fs \cup {new}
               /\ \E x \in CollectAstFile(fs, f, package) : x.path = f
<1> DEFINE new == [path |-> f, package |-> package, funcs |-> tree[f].funcs]
<1>1. CASE \E x \in fs : x.path = f /\ x.package = package
  <2>1. CollectAstFile(fs, f, package) = fs
    BY <1>1 DEF CollectAstFile
  <2> QED
    BY <1>1, <2>1
<1>2. CASE ~\E x \in fs : x.path = f /\ x.package = package
  <2>1. CollectAstFile(fs, f, package) = fs \cup {new}
    BY <1>2 DEF CollectAstFile
  <2>2. new.path = f
    OBVIOUS
  <2> QED
    BY <2>1, <2>2
<1> QED
  BY <1>1, <1>2

\* A file goes from the list to the files found, or the walk ends without routes.
LEMMA RoutesParseFile == ASSUME IInv, RoutesInv, NEW r \in Runs, ParseFile(r) PROVE RoutesInv'
<1> DEFINE f == Head(todo[r])
           package == packageDir[r][f]
<1>1. /\ pc[r] = "walk" /\ pc[r] \in Active /\ todo[r] # <<>>
      /\ UNCHANGED <<tree, temp, out, readable, routes, text, calm, alone>>
      /\ RunInv(r) /\ AloneInv(r)
  BY DEF ParseFile, Disk, Ghosts, Active, RoutesInv
<1>2. routes[r] = <<>> /\ text[r] = Empty
  BY <1>1 DEF RunInv, StartInv
<1>3. ~(r # NoRun /\ out'.run = r)
  BY <1>1, NotOut
<1>4. /\ todo[r] \in Seq(Files \cup Runs) /\ Len(todo[r]) \in Nat
      /\ DOMAIN todo[r] = 1 .. Len(todo[r]) /\ 1 \in DOMAIN todo[r] /\ f = todo[r][1]
      /\ Tail(todo[r]) \in Seq(Files \cup Runs)
      /\ DOMAIN Tail(todo[r]) = 1 .. Len(todo[r]) - 1
      /\ \A k \in 1 .. Len(todo[r]) - 1 : Tail(todo[r])[k] = todo[r][k + 1]
  BY <1>1 DEF RunInv, TodoInv
<1>5. f \in Files => f \in readable[r]
  BY <1>1, <1>4 DEF RunInv, TodoInv
<1>6. Runs \cap Files = {} /\ readable[r] \subseteq Files
  BY FilesAssumption, WalkedFinite, Locals
<1> HIDE DEF f, package
<1>7. ASSUME NEW fs, Parsed(r, fs),
             \/ fs = CollectAstFile(found[r], f, package) /\ f \in Files /\ tree[f].parses
             \/ fs = found[r] /\ f \in Runs
      PROVE  RoutesInv'
  <2>1. /\ pc' = pc /\ found' = [found EXCEPT ![r] = fs]
        /\ todo' = [todo EXCEPT ![r] = Tail(todo[r])]
    BY <1>7 DEF Parsed
  <2>2. found'[r] = fs /\ todo'[r] = Tail(todo[r])
    BY <2>1, Locals
  <2>3. Elsewhere(r)
    BY <1>1, <2>1, Locals DEF Elsewhere, Domains
  <2>4. TodoInv(r)'
    <3>1. \A k \in DOMAIN todo'[r] : k + 1 \in DOMAIN todo[r] /\ todo'[r][k] = todo[r][k + 1]
      BY <1>4, <2>2
    <3>2. todo'[r] \in Seq(Files \cup Runs)
      BY <1>4, <2>2
    <3> QED
      BY <1>1, <3>1, <3>2 DEF RunInv, TodoInv
  <2>5. StartInv(r)' /\ FoundInv(r)'
    BY <1>1, <1>2, <2>1 DEF StartInv, FoundInv, Finished
  <2>6. calm[r] => /\ \A x \in fs :
                         /\ x.path \in readable[r] /\ tree[x.path].parses
                         /\ x = [path |-> x.path, package |-> x.package,
                                 funcs |-> tree[x.path].funcs]
                   /\ found[r] \subseteq fs
                   /\ f \in Files => \E x \in fs : x.path = f
    <3>1. calm[r] => \A x \in found[r] :
                        /\ x.path \in readable[r] /\ tree[x.path].parses
                        /\ x = [path |-> x.path, package |-> x.package,
                                funcs |-> tree[x.path].funcs]
      BY <1>1 DEF RunInv, WalkInv
    <3>2. CASE f \in Files
      <4> DEFINE new == [path |-> f, package |-> package, funcs |-> tree[f].funcs]
      <4>1. /\ found[r] \subseteq fs /\ fs \subseteq found[r] \cup {new}
            /\ \E x \in fs : x.path = f
        BY <1>6, <1>7, <3>2, CollectIs
      <4>2. /\ new.path \in readable[r] /\ tree[new.path].parses
            /\ new = [path |-> new.path, package |-> new.package, funcs |-> tree[new.path].funcs]
        BY <1>5, <1>6, <1>7, <3>2
      <4> HIDE DEF new
      <4> QED
        BY <3>1, <4>1, <4>2
    <3>3. CASE f \notin Files
      BY <1>7, <3>1, <3>3
    <3> QED
      BY <3>2, <3>3
  <2>7. WalkInv(r)'
    <3> SUFFICES ASSUME calm[r], NEW g \in readable[r]
                 PROVE  (\E x \in fs : x.path = g) \/ \E k \in DOMAIN todo'[r] : todo'[r][k] = g
      BY <1>1, <2>2, <2>6 DEF WalkInv
    <3>1. (\E x \in found[r] : x.path = g) \/ \E k \in DOMAIN todo[r] : todo[r][k] = g
      BY <1>1 DEF RunInv, WalkInv
    <3>2. CASE \E x \in found[r] : x.path = g
      BY <2>6, <3>2
    <3>3. CASE \E k \in DOMAIN todo[r] : todo[r][k] = g
      <4>1. PICK k \in DOMAIN todo[r] : todo[r][k] = g
        BY <3>3
      <4>2. CASE k = 1
        <5>1. g = f /\ g \in Files
          BY <1>4, <1>6, <4>1, <4>2
        <5> QED
          BY <2>6, <5>1
      <4>3. CASE k # 1
        <5>1. k - 1 \in DOMAIN todo'[r] /\ todo'[r][k - 1] = g
          BY <1>4, <2>2, <4>1, <4>3
        <5> QED
          BY <5>1
      <4> QED
        BY <4>2, <4>3
    <3> QED
      BY <3>1, <3>2, <3>3
  <2>8. AloneInv(r)'
    <3>1. alone[r] => \A i \in DOMAIN todo[r] : todo[r][i] \in Files
      BY <1>1 DEF AloneInv
    <3>2. alone[r] => \A i \in DOMAIN todo'[r] : todo'[r][i] \in Files
      BY <1>4, <2>2, <3>1
    <3> QED
      BY <1>1, <1>3, <2>1, <2>3, <3>2, AloneStep
  <2> QED
    BY <1>1, <2>3, <2>4, <2>5, <2>7, <2>8, StepOf DEF RunInv
<1>8. ASSUME NEW l \in {"render", "dead"}, Goto(r, l), UNCHANGED <<found, todo>>,
             l = "render" => (f \in Files /\ ~tree[f].parses) \/ f \in Runs
      PROVE  RoutesInv'
  <2>1. pc' = [pc EXCEPT ![r] = l]
    BY <1>8 DEF Goto
  <2>2. pc'[r] = l /\ Elsewhere(r)
    BY <1>1, <1>8, <2>1, Locals DEF Elsewhere, Domains
  <2>3. RunInv(r)'
    BY <1>1, <1>2, <1>8, <2>2 DEF RunInv, TodoInv, StartInv, WalkInv, FoundInv, Finished
  <2>4. alone[r] /\ l = "render" => ~AllParse(readable[r])'
    <3>1. alone[r] => f \in Files
      BY <1>1, <1>4 DEF AloneInv
    <3>2. AllParse(readable[r])' <=> AllParse(readable[r])
      BY <1>1, <1>8, SameFound
    <3> QED
      BY <1>5, <1>6, <1>8, <3>1, <3>2 DEF AllParse
  <2>5. AloneInv(r)'
    BY <1>1, <1>3, <1>8, <2>2, <2>4, AloneStep
  <2> QED
    BY <1>1, <2>2, <2>3, <2>5, StepOf
<1> QED
  <2>1. CASE Vanished(r)
    BY <1>8, <2>1 DEF Vanished
  <2>2. CASE f \in Files /\ IF tree[f].parses
                            THEN Parsed(r, CollectAstFile(found[r], f, package))
                            ELSE ParseError(r)
    BY <1>7, <1>8, <2>2 DEF ParseError
  <2>3. CASE f \in Runs /\ (Parsed(r, found[r]) \/ ParseError(r))
    BY <1>7, <1>8, <2>3 DEF ParseError
  <2> QED
    BY <2>1, <2>2, <2>3, Zenon DEF ParseFile, f, package

\* What has been found becomes the routes.
LEMMA RoutesRange == ASSUME IInv, RoutesInv, NEW r \in Runs, ParseRouters(r) PROVE RoutesInv'
<1>1. /\ pc[r] = "range" /\ pc[r] \in Active
      /\ UNCHANGED <<tree, temp, out, todo, found, readable, text, calm, alone>>
      /\ RunInv(r)
  BY DEF ParseRouters, Disk, Ghosts, Active, RoutesInv
<1>2. routes[r] = <<>> /\ text[r] = Empty
  BY <1>1 DEF RunInv, StartInv
<1>3. ~(r # NoRun /\ out'.run = r)
  BY <1>1, NotOut
<1>4. PICK l \in {"dead", "render"} :
         /\ pc' = [pc EXCEPT ![r] = l]
         /\ \/ l = "dead" /\ UNCHANGED routes
            \/ l = "render" /\ \E rs \in RangeFiles(found[r]) : routes' = [routes EXCEPT ![r] = rs]
  BY DEF ParseRouters, Goto
<1>5. /\ pc'[r] = l /\ Elsewhere(r)
      /\ l = "dead" => routes'[r] = <<>>
      /\ l = "render" => routes'[r] \in RangeFiles(found[r])
  BY <1>1, <1>2, <1>4, Locals DEF Elsewhere, Domains
<1>6. calm[r] /\ l = "render" => HasRoutes(r, routes[r])'
  <2>1. calm[r] => Collected(found[r], readable[r])'
    BY <1>1, SameFound DEF RunInv, FoundInv
  <2>2. l = "render" => routes'[r] \in RangeFiles(found[r])'
    BY <1>1, <1>5
  <2> QED
    BY <2>1, <2>2 DEF HasRoutes
<1>7. RunInv(r)'
  <2>1. TodoInv(r)' /\ StartInv(r)' /\ WalkInv(r)'
    BY <1>1, <1>2, <1>5 DEF RunInv, TodoInv, StartInv, WalkInv
  <2>2. FoundInv(r)'
    BY <1>1, <1>5, <1>6 DEF FoundInv, Finished
  <2> QED
    BY <2>1, <2>2 DEF RunInv
<1>8. AloneInv(r)'
  BY <1>1, <1>3, <1>5, <1>6, AloneStep
<1> QED
  BY <1>1, <1>5, <1>7, <1>8, StepOf

\* The routes become the text.
LEMMA RoutesRender == ASSUME IInv, RoutesInv, NEW r \in Runs, Render(r) PROVE RoutesInv'
<1>1. /\ pc[r] = "render" /\ pc[r] \in Active
      /\ UNCHANGED <<tree, temp, out, todo, found, readable, routes, calm, alone>>
      /\ text' = [text EXCEPT ![r] = Rendered(routes[r])]
      /\ RunInv(r) /\ AloneInv(r)
  BY DEF Render, Disk, Ghosts, Active, RoutesInv
<1>2. ~(r # NoRun /\ out.run = r)
  BY <1>1, NotOut
<1>3. PICK l \in {"create", "end"} : pc' = [pc EXCEPT ![r] = l]
  BY DEF Render, Goto
<1>4. pc'[r] = l /\ text'[r] = Rendered(routes[r]) /\ Elsewhere(r)
  BY <1>1, <1>3, Locals DEF Elsewhere, Domains
<1>5. text'[r] # Empty => routes[r] # <<>>
  BY <1>4 DEF Empty
<1>6. HasRoutes(r, routes[r]) => HasText(r)'
  <2>1. HasRoutes(r, routes[r]) => HasRoutes(r, routes[r])'
    BY <1>1, SameFound
  <2>2. ASSUME HasRoutes(r, routes[r])' PROVE \E rs : HasRoutes(r, rs)' /\ text'[r] = Rendered(rs)
    BY <1>1, <1>4, <2>2 DEF HasRoutes
  <2> QED
    BY <2>1, <2>2 DEF HasText
<1>7. RunInv(r)'
  <2>1. TodoInv(r)' /\ StartInv(r)' /\ WalkInv(r)'
    BY <1>1, <1>4 DEF RunInv, TodoInv, StartInv, WalkInv
  <2>2. calm[r] /\ text'[r] # Empty => HasText(r)'
    BY <1>1, <1>5, <1>6 DEF RunInv, FoundInv
  <2>3. Empty' = Empty
    BY DEF Empty
  <2>4. FoundInv(r)'
    BY <1>1, <1>4, <2>2, <2>3 DEF FoundInv, Finished
  <2> QED
    BY <2>1, <2>4 DEF RunInv
<1>8. alone[r] /\ calm[r] /\ AllParse(readable[r])' => HasText(r)'
  <2>1. AllParse(readable[r])' <=> AllParse(readable[r])
    BY <1>1, SameFound
  <2> QED
    BY <1>1, <1>6, <2>1 DEF AloneInv
<1>9. AloneInv(r)'
  BY <1>1, <1>2, <1>4, <1>8, AloneStep
<1> QED
  BY <1>1, <1>4, <1>7, <1>9, StepOf

\* The text is what it was: a step of writeGeneratedFile, or a kill.
LEMMA RoutesFile ==
    ASSUME IInv, RoutesInv, NEW r \in Runs, pc[r] \in Active,
           NEW l \in {"write", "rename", "remove", "end", "dead"}, Goto(r, l),
           pc[r] \in {"create", "write", "rename", "remove"} \/ (l = "dead" /\ UNCHANGED out),
           \A s \in Runs \ {r} : temp'[s] = temp[s],
           out' = out \/ out'.run = r,
           UNCHANGED <<tree, runVars, Ghosts>>
    PROVE  RoutesInv'
<1>1. /\ UNCHANGED <<tree, todo, found, readable, routes, text, calm, alone>>
      /\ RunInv(r) /\ AloneInv(r)
  BY DEF runVars, Ghosts, RoutesInv
<1>2. ~(r # NoRun /\ out.run = r)
  BY NotOut
<1>3. pc'[r] = l /\ Elsewhere(r)
  BY <1>1, Locals DEF Elsewhere, Domains, Goto
<1>4. RunInv(r)'
  <2>1. TodoInv(r)' /\ StartInv(r)' /\ WalkInv(r)'
    BY <1>1, <1>3 DEF RunInv, TodoInv, StartInv, WalkInv
  <2>2. FoundInv(r)'
    BY <1>1, <1>3, SameFound DEF RunInv, FoundInv, Finished
  <2> QED
    BY <2>1, <2>2 DEF RunInv
<1>5. /\ alone[r] /\ calm[r] /\ AllParse(readable[r])'
            /\ pc[r] \in {"create", "write", "rename", "remove"} => HasText(r)'
      /\ l = "dead" => l \notin {"create", "write", "rename", "remove"}
  BY <1>1, SameFound DEF AloneInv
<1>6. AloneInv(r)'
  BY <1>2, <1>3, <1>5, AloneStep
<1> QED
  BY <1>3, <1>4, <1>6, StepOf

\* Every step of the generator keeps the invariant of the routes.
LEMMA RoutesRun == ASSUME IInv, RoutesInv, NEW r \in Runs, Run(r) \/ Kill(r) PROVE RoutesInv'
<1>1. DOMAIN temp = Runs
  BY Locals
<1>2. CASE CreateTemp(r)
  <2>1. PICK l \in {"write", "end"} : Goto(r, l)
    BY <1>2 DEF CreateTemp
  <2>2. pc[r] = "create" /\ (\A s \in Runs \ {r} : temp'[s] = temp[s])
    BY <1>1, <1>2 DEF CreateTemp
  <2> QED
    BY <1>2, <2>1, <2>2, RoutesFile DEF CreateTemp, Active
<1>3. CASE Write(r)
  <2>1. PICK l \in {"rename", "remove"} : Goto(r, l)
    BY <1>3 DEF Write
  <2>2. pc[r] = "write" /\ (\A s \in Runs \ {r} : temp'[s] = temp[s])
    BY <1>1, <1>3 DEF Write
  <2> QED
    BY <1>3, <2>1, <2>2, RoutesFile DEF Write, Active
<1>4. CASE Rename(r)
  <2>1. PICK l \in {"end", "remove"} : Goto(r, l)
    BY <1>4 DEF Rename
  <2>2. /\ pc[r] = "rename" /\ (\A s \in Runs \ {r} : temp'[s] = temp[s])
        /\ out' = out \/ out'.run = r
    BY <1>1, <1>4 DEF Rename
  <2> QED
    BY <1>4, <2>1, <2>2, RoutesFile DEF Rename, Active
<1>5. CASE RemoveTemp(r)
  <2>1. pc[r] = "remove" /\ Goto(r, "end") /\ (\A s \in Runs \ {r} : temp'[s] = temp[s])
    BY <1>1, <1>5 DEF RemoveTemp
  <2> QED
    BY <1>5, <2>1, RoutesFile DEF RemoveTemp, Active
<1>6. CASE Kill(r)
  BY <1>6, RoutesFile DEF Kill, Disk
<1> QED
  BY <1>2, <1>3, <1>4, <1>5, <1>6, RoutesMake, RoutesWalk, RoutesWalkEnd,
     RoutesParseFile, RoutesRange, RoutesRender DEF Run

\* An edit leaves a run calm that has not begun, and only such a run.
LEMMA RoutesEdit == ASSUME IInv, RoutesInv, NEW f \in Files, Edit(f) PROVE RoutesInv'
<1>1. /\ UNCHANGED <<temp, out, pc, todo, found, readable, routes, text, alone>>
      /\ \A r \in Runs : calm'[r] => pc[r] = "idle"
  BY DEF Edit, runVars
<1>2. ASSUME NEW r \in Runs PROVE RunInv(r)' /\ AloneInv(r)'
  <2>1. RunInv(r) /\ AloneInv(r)
    BY DEF RoutesInv
  <2>2. RunInv(r)'
    BY <1>1, <2>1, RunStays
  <2>3. calm'[r] => /\ pc'[r] \notin {"render", "create", "write", "rename", "remove"}
                    /\ ~(r # NoRun /\ out'.run = r)
    BY <1>1, NotOut
  <2>4. AloneInv(r)'
    BY <1>1, <2>1, <2>3 DEF AloneInv
  <2> QED
    BY <2>2, <2>4
<1> QED
  BY <1>1, <1>2 DEF RoutesInv, Domains

\* In every behaviour, a run that nobody edited under has found, kept and rendered
\* all sources or none: the invariant the last two theorems follow from.
THEOREM RoutesInductive == Spec => [](IInv /\ RoutesInv)
<1>1. IInv /\ RoutesInv /\ [Next]_vars => RoutesInv'
  <2>1. ASSUME RoutesInv, UNCHANGED vars PROVE RoutesInv'
    <3>1. UNCHANGED <<tree, temp, out, pc, todo, found, readable, routes, text, calm, alone>>
      BY <2>1 DEF vars, runVars, Ghosts
    <3>2. ASSUME NEW r \in Runs PROVE RunInv(r)' /\ AloneInv(r)'
      <4>1. RunInv(r) /\ AloneInv(r)
        BY <2>1 DEF RoutesInv
      <4> QED
        BY <3>1, <4>1, RunStays, SameFound DEF AloneInv
    <3> QED
      BY <2>1, <3>1, <3>2 DEF RoutesInv, Domains
  <2>2. IInv /\ RoutesInv /\ Next => RoutesInv'
    BY RoutesRun, RoutesEdit DEF Next
  <2> QED
    BY <2>1, <2>2
<1> QED
  BY <1>1, Inductive, RoutesInit, PTL DEF Spec

\* The text of what was found of the sources, under one package path each, is complete.
LEMMA TextComplete ==
    ASSUME TreeOK, NEW r \in Runs, readable[r] \in SUBSET Walked, HasText(r), OnePackageEach(r)
    PROVE  Complete(text[r], readable[r])
<1> DEFINE fs == found[r]
           W == readable[r]
<1>1. PICK rs \in RangeFiles(fs) : Collected(fs, W) /\ text[r] = Rendered(rs)
  BY DEF HasText, HasRoutes
<1>2. PICK L \in [1 .. Cardinality(fs) -> fs] :
         /\ IsInjective(L) /\ rs = RoutesOf(L)
         /\ \A i, j \in DOMAIN L : i < j => L[i].path <= L[j].path
  BY <1>1 DEF RangeFiles
<1>3. OnePackage(fs)
  BY DEF OnePackageEach, OnePackage
<1> HIDE DEF fs, W
<1>4. Lists(L, W)
  BY <1>1, <1>2, <1>3, FoundListed DEF W
<1>5. Complete(Rendered(RoutesOf(L)), W)
  BY <1>1, <1>4, AllComplete DEF W, Collected
<1> QED
  BY <1>1, <1>2, <1>5 DEF W

\* All routes or none: the text of a run that nobody edited under is that of no
\* route, or lists every function of every source it could read in order and once,
\* with its limit, whatever the other runs did next to it and whatever they left;
\* unless a file was found under two package paths.
THEOREM RendersAllOrNothing == Spec => []AllOrNothing
<1>1. IInv /\ RoutesInv => AllOrNothing
  BY TextComplete DEF IInv, TypeOK, TreeOK, RoutesInv, RunInv, FoundInv, AllOrNothing
<1> QED
  BY <1>1, RoutesInductive, PTL

\* A run on its own writes every route of the directories it could read, unless a
\* source does not parse or was found under two package paths.
THEOREM AloneWritesAll == Spec => []AloneIsComplete
<1>1. IInv /\ RoutesInv => AloneIsComplete
  <2> DEFINE r == out.run
  <2> SUFFICES ASSUME IInv, RoutesInv, r # NoRun, calm[r], alone[r], OnePackageEach(r),
                      AllParse(readable[r])
               PROVE  Complete(text[r], readable[r])
    BY DEF AloneIsComplete, AllParse
  <2>1. r \in Runs
    BY DEF IInv, TypeOK
  <2>2. HasText(r)
    BY <2>1 DEF RoutesInv, AloneInv
  <2> QED
    BY <2>1, <2>2, TextComplete DEF IInv, TypeOK, TreeOK
<1> QED
  BY <1>1, RoutesInductive, PTL
=============================================================================
