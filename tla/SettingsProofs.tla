---------------------------- MODULE SettingsProofs ----------------------------
(***************************************************************************)
(* Theorems about Settings, for any number of instances of the program,    *)
(* lists of any length, any files and addresses, and windows and monitors  *)
(* of any place and size.                                                  *)
(***************************************************************************)
EXTENDS Settings, TLAPS, FiniteSetTheorems, SequenceTheorems, WellFoundedInduction

(***************************************************************************)
(* One axis of the clamping.  The length is brought between the least and  *)
(* the work area's, in this order; after that moving back from the near    *)
(* edge cannot push the far one out again.                                 *)
(***************************************************************************)
LEMMA AxisInside ==
  ASSUME NEW lo \in Int, NEW hi \in Int, NEW wlo \in Int, NEW whi \in Int,
         NEW least \in Nat, lo < hi, wlo < whi
  PROVE  LET length == Length(lo, hi, wlo, whi, least)
             near == Near(lo, length, wlo, whi)
         IN  wlo <= near /\ near <= near + length /\ near + length <= whi
  <1> DEFINE length == Length(lo, hi, wlo, whi, least)
  <1>1. length \in Int /\ 0 <= length /\ length <= whi - wlo
    BY DEF Length
  <1> HIDE DEF length
  <1>2. /\ wlo <= Near(lo, length, wlo, whi)
        /\ Near(lo, length, wlo, whi) + length <= whi
        /\ Near(lo, length, wlo, whi) \in Int
    BY <1>1 DEF Near
  <1>3. Near(lo, length, wlo, whi) <= Near(lo, length, wlo, whi) + length
    BY <1>1, <1>2
  <1> QED BY <1>2, <1>3 DEF length

LEMMA ClampInside ==
  ASSUME NEW rc \in Rect, NEW work \in Works, rc.left < rc.right, rc.top < rc.bottom
  PROVE  Inside(Clamp(rc, work), work)
  <1>1. /\ work \in Rect /\ work.left < work.right /\ work.top < work.bottom
        /\ MinWidth \in Nat /\ MinHeight \in Nat
    BY PlacesAssumption DEF PlacesAssumption
  <1>2. /\ rc.left \in Int /\ rc.right \in Int /\ rc.top \in Int /\ rc.bottom \in Int
        /\ work.left \in Int /\ work.right \in Int /\ work.top \in Int /\ work.bottom \in Int
    BY <1>1 DEF Rect
  <1> DEFINE width == Length(rc.left, rc.right, work.left, work.right, MinWidth)
             height == Length(rc.top, rc.bottom, work.top, work.bottom, MinHeight)
             left == Near(rc.left, width, work.left, work.right)
             top == Near(rc.top, height, work.top, work.bottom)
  <1>3. work.left <= left /\ left <= left + width /\ left + width <= work.right
    BY <1>1, <1>2, AxisInside
  <1>4. work.top <= top /\ top <= top + height /\ top + height <= work.bottom
    BY <1>1, <1>2, AxisInside
  <1>5. Clamp(rc, work) = [left |-> left, top |-> top,
                           right |-> left + width, bottom |-> top + height]
    BY DEF Clamp
  <1> HIDE DEF width, height, left, top
  <1> QED BY <1>3, <1>4, <1>5 DEF Inside

-----------------------------------------------------------------------------
(***************************************************************************)
(* The place of a window is written whole, by SaveWindowPlacement() only:  *)
(* what the lists and the history write are other keys.                    *)
(***************************************************************************)
Files == {"exe", "user"}

\* A sequence of writes that leave the window's place alone.
LeavesPlace(todo) ==
  \E S : todo \in Seq(S) /\ \A w \in S : w.key # PlaceKey

PlaceInv ==
  /\ DOMAIN ini = Files
  /\ \A f \in Files : DOMAIN ini[f] = Keys /\ ini[f][PlaceKey] \in Rects \union {Empty}
  /\ DOMAIN prog = Insts
  /\ \A i \in Insts :
       /\ DOMAIN prog[i] = DOMAIN Off
       /\ prog[i].file \in Files
       /\ LeavesPlace(prog[i].todo)
       /\ prog[i].win # Empty => Inside(prog[i].win, prog[i].work)

\* A function on 1 .. n is a sequence of its values.
LEMMA ListLeavesPlace ==
  ASSUME NEW n \in Nat, NEW todo, DOMAIN todo = 1 .. n,
         todo = [k \in 1 .. n |-> todo[k]],
         \A k \in 1 .. n : todo[k].key # PlaceKey
  PROVE  LeavesPlace(todo)
  <1> DEFINE S == {todo[k] : k \in 1 .. n}
  <1>1. todo \in Seq(S)
    OBVIOUS
  <1>2. \A w \in S : w.key # PlaceKey
    OBVIOUS
  <1> QED BY <1>1, <1>2 DEF LeavesPlace

LEMMA OffSound ==
  DOMAIN Off = {"on", "file", "list", "todo", "win", "work", "log", "before", "saved", "alone"}
  /\ Off.file \in Files /\ LeavesPlace(Off.todo) /\ Off.win = Empty
  <1>1. LeavesPlace(<<>>)
    <2> DEFINE todo == [k \in 1 .. 0 |-> k]
    <2>1. todo = <<>>
      OBVIOUS
    <2>2. DOMAIN todo = 1 .. 0 /\ todo = [k \in 1 .. 0 |-> todo[k]]
      OBVIOUS
    <2>3. 0 \in Nat /\ \A k \in 1 .. 0 : todo[k].key # PlaceKey
      OBVIOUS
    <2> HIDE DEF todo
    <2>4. LeavesPlace(todo)
      BY <2>2, <2>3, ListLeavesPlace
    <2> QED BY <2>1, <2>4
  <1> QED BY <1>1 DEF Off, Files

LEMMA SavesListLeaves ==
  ASSUME NEW list
  PROVE  LeavesPlace(SavesList(list))
  <1> DEFINE todo == SavesList(list)
  <1>1. 4 * MaxItems \in Nat
    BY BoundsAssumption DEF BoundsAssumption
  <1>2. todo = [k \in 1 .. 4 * MaxItems |-> todo[k]] /\ DOMAIN todo = 1 .. 4 * MaxItems
    BY DEF SavesList
  <1>3. ASSUME NEW k \in 1 .. 4 * MaxItems
        PROVE  todo[k].key # PlaceKey
    <2> DEFINE m == ((k - 1) % 4) + 1
    <2>1. m \in 1 .. 4
      BY <1>1
    <2> HIDE DEF m
    <2>2. Fields[m] \in {"type", "path", "host", "port"}
      BY <2>1 DEF Fields
    <2>3. todo[k].key = <<Fields[m], ((k - 1) \div 4) + 1>>
      BY DEF SavesList, m
    <2> QED BY <2>2, <2>3 DEF PlaceKey
  <1> HIDE DEF todo
  <1>4. LeavesPlace(todo)
    BY <1>1, <1>2, <1>3, ListLeavesPlace
  <1> QED BY <1>4 DEF todo

LEMMA SavesHistoryLeaves ==
  ASSUME NEW hist
  PROVE  LeavesPlace(SavesHistory(hist))
  <1> DEFINE todo == SavesHistory(hist)
  <1>1. MaxHosts \in Nat
    BY BoundsAssumption DEF BoundsAssumption
  <1>2. todo = [k \in 1 .. MaxHosts |-> todo[k]] /\ DOMAIN todo = 1 .. MaxHosts
    BY DEF SavesHistory
  <1>3. \A k \in 1 .. MaxHosts : todo[k].key # PlaceKey
    BY DEF SavesHistory, PlaceKey
  <1> HIDE DEF todo
  <1>4. LeavesPlace(todo)
    BY <1>1, <1>2, <1>3, ListLeavesPlace
  <1> QED BY <1>4 DEF todo

-----------------------------------------------------------------------------
(* LoadWindowPlacement(): what is read was written whole, or is not there. *)
LEMMA PlacedInside ==
  ASSUME PlaceInv, NEW work \in Works, Placed(Get(PlaceKey), work) # Empty
  PROVE  Inside(Placed(Get(PlaceKey), work), work)
  <1>1. Get(PlaceKey) \in Rects \union {Empty}
    BY DEF PlaceInv, Files, Get
  <1>2. Rects \subseteq Rect
    BY PlacesAssumption DEF PlacesAssumption
  <1> QED BY <1>1, <1>2, ClampInside DEF Placed

LEMMA StepPlace ==
  ASSUME PlaceInv, [Next]_vars
  PROVE  PlaceInv'
  <1> USE OffSound
  <1>1. CASE UNCHANGED vars
    BY <1>1 DEF PlaceInv, vars, LeavesPlace
  <1>2. ASSUME NEW i \in Insts, NEW writable \in BOOLEAN, NEW work \in Works,
               Start(i, writable, work)
        PROVE  PlaceInv'
    <2> DEFINE p == [Off EXCEPT !.on = TRUE, !.file = WriteFile(writable), !.list = Load,
                                !.work = work, !.win = Placed(Get(PlaceKey), work)]
    <2>1. /\ DOMAIN p = DOMAIN Off /\ p.todo = Off.todo /\ p.file = WriteFile(writable)
          /\ p.work = work /\ p.win = Placed(Get(PlaceKey), work)
      OBVIOUS
    <2>2. p.file \in Files
      BY <2>1 DEF WriteFile, Files
    <2>3. p.win # Empty => Inside(p.win, p.work)
      BY <2>1, PlacedInside
    <2>4. prog' = [prog EXCEPT ![i] = p] /\ ini' = ini
      BY <1>2 DEF Start
    <2> HIDE DEF p
    <2> QED BY <2>1, <2>2, <2>3, <2>4 DEF PlaceInv
  <1>3. ASSUME NEW i \in Insts, NEW e, AddRecent(i, e)
        PROVE  PlaceInv'
    <2> DEFINE list == MoveToFront(e, prog[i].list, MaxItems)
               todo == SavesList(list)
               p == [prog[i] EXCEPT !.list = list, !.todo = todo, !.saved = TRUE,
                                    !.log = <<e>> \o @, !.before = Load, !.alone = TRUE]
    <2>1. LeavesPlace(todo)
      BY SavesListLeaves
    <2> HIDE DEF todo
    <2>2. /\ DOMAIN p = DOMAIN prog[i] /\ p.todo = todo /\ p.file = prog[i].file
          /\ p.win = prog[i].win /\ p.work = prog[i].work
      BY DEF PlaceInv
    <2>3. prog' = [prog EXCEPT ![i] = p] /\ ini' = ini
      BY <1>3 DEF AddRecent, todo
    <2> HIDE DEF p
    <2> QED BY <2>1, <2>2, <2>3 DEF PlaceInv
  <1>4. ASSUME NEW i \in Insts, NEW a, Connected(i, a)
        PROVE  PlaceInv'
    <2> DEFINE todo == SavesHistory(MoveToFront(a, LoadHistory, MaxHosts))
               p == [prog[i] EXCEPT !.todo = todo]
    <2>1. LeavesPlace(todo)
      BY SavesHistoryLeaves
    <2> HIDE DEF todo
    <2>2. /\ DOMAIN p = DOMAIN prog[i] /\ p.todo = todo /\ p.file = prog[i].file
          /\ p.win = prog[i].win /\ p.work = prog[i].work
      BY DEF PlaceInv
    <2>3. prog' = [prog EXCEPT ![i] = p] /\ ini' = ini
      BY <1>4 DEF Connected, todo
    <2> HIDE DEF p
    <2> QED BY <2>1, <2>2, <2>3 DEF PlaceInv
  <1>5. ASSUME NEW i \in Insts, Write(i)
        PROVE  PlaceInv'
    <2> DEFINE w == Head(prog[i].todo)
    <2>1. PICK S : prog[i].todo \in Seq(S) /\ \A x \in S : x.key # PlaceKey
      BY DEF PlaceInv, LeavesPlace
    <2>2. prog[i].todo # <<>>
      BY <1>5 DEF Write
    <2>3. w.key # PlaceKey /\ Tail(prog[i].todo) \in Seq(S)
      BY <2>1, <2>2
    <2>4. LeavesPlace(Tail(prog[i].todo))
      BY <2>1, <2>3 DEF LeavesPlace
    <2>5. ini' = [ini EXCEPT ![prog[i].file][w.key] = w.val]
      BY <1>5 DEF Write
    <2> HIDE DEF w
    <2>6. /\ DOMAIN ini' = Files
          /\ \A f \in Files : DOMAIN ini'[f] = Keys /\ ini'[f][PlaceKey] \in Rects \union {Empty}
      <3>1. PlaceKey \in Keys
        BY DEF Keys
      <3> QED BY <2>3, <2>5, <3>1 DEF PlaceInv
    <2>7. ASSUME NEW j \in Insts
          PROVE  /\ DOMAIN prog'[j] = DOMAIN prog[j] /\ LeavesPlace(prog'[j].todo)
                 /\ prog'[j].file = prog[j].file
                 /\ prog'[j].win = prog[j].win /\ prog'[j].work = prog[j].work
      <3>1. CASE j = i
        <4>1. prog'[j] = [prog[i] EXCEPT !.todo = Tail(@)]
          BY <1>5, <3>1 DEF Write
        <4> QED BY <2>4, <3>1, <4>1 DEF PlaceInv
      <3>2. CASE j # i
        <4>1. prog'[j] = [prog[j] EXCEPT !.alone = FALSE]
          BY <1>5, <3>2 DEF Write
        <4> QED BY <4>1 DEF PlaceInv
      <3> QED BY <3>1, <3>2
    <2>8. DOMAIN prog' = Insts
      BY <1>5 DEF Write
    <2> QED BY <2>6, <2>7, <2>8 DEF PlaceInv
  <1>6. ASSUME NEW i \in Insts, NEW rc \in Rects, Quit(i, rc)
        PROVE  PlaceInv'
    <2>1. PlaceKey \in Keys
      BY DEF Keys
    <2> QED BY <1>6, <2>1 DEF Quit, PlaceInv
  <1>7. ASSUME NEW i \in Insts, Kill(i)
        PROVE  PlaceInv'
    BY <1>7 DEF Kill, PlaceInv
  <1> QED BY <1>1, <1>2, <1>3, <1>4, <1>5, <1>6, <1>7 DEF Next

(* Whatever place and monitors: the window comes back wholly on the work   *)
(* area it is nearest to (LoadWindowPlacement(), which clamps what it read *)
(* with ClampWindowRectToNearestWorkArea()).                               *)
THEOREM WindowStaysOnScreen == Spec => []WindowOnScreen
  <1>1. Init => PlaceInv
    <2>1. PlaceKey \in Keys
      BY DEF Keys
    <2> QED BY <2>1, OffSound DEF Init, PlaceInv, Files
  <1>2. PlaceInv /\ [Next]_vars => PlaceInv'
    BY StepPlace
  <1>3. PlaceInv => WindowOnScreen
    BY DEF PlaceInv, WindowOnScreen
  <1> QED BY <1>1, <1>2, <1>3, PTL DEF Spec

-----------------------------------------------------------------------------
(***************************************************************************)
(* Places in their order.  Induction is over a set of numbers.             *)
(***************************************************************************)
LEMMA LeastNumber ==
  ASSUME NEW T, T \subseteq Nat, T # {}
  PROVE  \E x \in T : \A y \in T : x <= y
  <1> DEFINE R == OpToRel(<, Nat)
  <1>1. IsWellFoundedOn(R, Nat)
    BY NatLessThanWellFounded
  <1> HIDE DEF R
  <1>2. PICK x \in T : \A y \in T : ~ (<<y, x>> \in R)
    BY <1>1, WFMin
  <1>3. ASSUME NEW y \in T PROVE x <= y
    <2>1. <<y, x>> \notin R
      BY <1>2
    <2>2. x \in Nat /\ y \in Nat
      OBVIOUS
    <2>3. ~(y < x)
      BY <2>1, <2>2 DEF R, OpToRel
    <2> QED BY <2>2, <2>3
  <1> QED BY <1>3

LEMMA Induction ==
  ASSUME NEW S, 0 \in S, \A n \in Nat : n \in S => n + 1 \in S
  PROVE  \A n \in Nat : n \in S
  <1> SUFFICES ASSUME Nat \ S # {} PROVE FALSE
    OBVIOUS
  <1>1. PICK x \in Nat \ S : \A y \in Nat \ S : x <= y
    BY LeastNumber
  <1>2. x # 0 /\ x - 1 \in Nat
    BY <1>1
  <1>3. x - 1 \in S
    BY <1>1, <1>2
  <1> QED BY <1>1, <1>2, <1>3

\* f has the members of S in their order.
Lists(f, n, S) ==
  /\ f \in [1 .. n -> S]
  /\ \A j, k \in 1 .. n : j < k => f[j] < f[k]
  /\ \A x \in S : \E k \in 1 .. n : f[k] = x

LEMMA ListExists ==
  ASSUME NEW n \in Nat
  PROVE  \A S \in SUBSET Nat : IsFiniteSet(S) /\ Cardinality(S) = n => \E f : Lists(f, n, S)
  <1> DEFINE Can(m) == \A S \in SUBSET Nat : IsFiniteSet(S) /\ Cardinality(S) = m => \E f : Lists(f, m, S)
             A == {m \in Nat : Can(m)}
  <1>1. 0 \in A
    <2> SUFFICES ASSUME NEW S \in SUBSET Nat, IsFiniteSet(S), Cardinality(S) = 0
                 PROVE  \E f : Lists(f, 0, S)
      OBVIOUS
    <2>1. S = {}
      BY FS_EmptySet
    <2>2. Lists([k \in 1 .. 0 |-> k], 0, S)
      BY <2>1 DEF Lists
    <2> QED BY <2>2
  <1>2. ASSUME NEW m \in Nat, m \in A PROVE m + 1 \in A
    <2> SUFFICES ASSUME NEW S \in SUBSET Nat, IsFiniteSet(S), Cardinality(S) = m + 1
                 PROVE  \E f : Lists(f, m + 1, S)
      OBVIOUS
    <2>1. S # {}
      BY FS_EmptySet
    <2>2. PICK x \in S : \A y \in S : x <= y
      BY <2>1, LeastNumber
    <2>3. IsFiniteSet(S \ {x}) /\ Cardinality(S \ {x}) = m /\ S \ {x} \in SUBSET Nat
      BY FS_RemoveElement
    <2>4. PICK f : Lists(f, m, S \ {x})
      BY <1>2, <2>3
    <2> DEFINE g == [k \in 1 .. m + 1 |-> IF k = 1 THEN x ELSE f[k - 1]]
    <2>5. \A k \in 1 .. m + 1 : k # 1 => k - 1 \in 1 .. m /\ g[k] = f[k - 1] /\ f[k - 1] \in S \ {x}
      BY <2>4 DEF Lists
    <2>6. g[1] = x /\ 1 \in 1 .. m + 1 /\ DOMAIN g = 1 .. m + 1
      OBVIOUS
    <2>7. g \in [1 .. m + 1 -> S]
      BY <2>5
    <2> HIDE DEF g
    <2>8. ASSUME NEW j \in 1 .. m + 1, NEW k \in 1 .. m + 1, j < k PROVE g[j] < g[k]
      <3>1. CASE j = 1
        <4>1. g[k] \in S \ {x} /\ g[j] = x
          BY <2>5, <2>6, <2>8, <3>1
        <4>2. x <= g[k] /\ x \in Nat /\ g[k] \in Nat /\ g[k] # x
          BY <2>2, <4>1
        <4> QED BY <4>1, <4>2
      <3>2. CASE j # 1
        BY <2>4, <2>5, <2>8, <3>2 DEF Lists
      <3> QED BY <3>1, <3>2
    <2>9. ASSUME NEW y \in S PROVE \E k \in 1 .. m + 1 : g[k] = y
      <3>1. CASE y = x
        BY <2>6, <3>1
      <3>2. CASE y # x
        <4>1. PICK k \in 1 .. m : f[k] = y
          BY <2>4, <3>2 DEF Lists
        <4>2. k + 1 \in 1 .. m + 1 /\ k + 1 # 1 /\ (k + 1) - 1 = k
          OBVIOUS
        <4> QED BY <2>5, <4>1, <4>2
      <3> QED BY <3>1, <3>2
    <2>10. Lists(g, m + 1, S)
      BY <2>7, <2>8, <2>9 DEF Lists
    <2> QED BY <2>10
  <1>3. n \in A
    <2> HIDE DEF A
    <2> QED BY <1>1, <1>2, Induction
  <1> QED BY <1>3

(* Where one set is the beginning of another, so are their lists.          *)
LEMMA ListsAgree ==
  ASSUME NEW A \in SUBSET Nat, NEW B \in SUBSET Nat, A \subseteq B,
         \A x \in B, y \in A : x <= y => x \in A,
         NEW m \in Nat, NEW n \in Nat, NEW f, NEW g, Lists(f, m, A), Lists(g, n, B)
  PROVE  m <= n /\ \A k \in 1 .. m : f[k] = g[k]
  <1> DEFINE S == {i \in Nat : \A k \in 1 .. m : k <= i => k <= n /\ f[k] = g[k]}
  <1>0. /\ \A k \in 1 .. m : f[k] \in A /\ f[k] \in Nat
        /\ \A k \in 1 .. n : g[k] \in B /\ g[k] \in Nat
    BY DEF Lists
  <1>1. 0 \in S
    OBVIOUS
  <1>2. ASSUME NEW i \in Nat, i \in S PROVE i + 1 \in S
    <2> SUFFICES ASSUME NEW k \in 1 .. m, k = i + 1 PROVE k <= n /\ f[k] = g[k]
      BY <1>2
    <2>1. \A j \in 1 .. m : j < k => j <= n /\ f[j] = g[j] /\ f[j] < f[k]
      BY <1>2 DEF Lists
    <2>2. PICK p \in 1 .. n : g[p] = f[k]
      BY <1>0 DEF Lists
    <2>3. ~(p < k)
      <3> SUFFICES ASSUME p < k PROVE FALSE
        OBVIOUS
      <3>1. p \in 1 .. m
        OBVIOUS
      <3>2. f[p] = g[p] /\ f[p] < f[k]
        BY <2>1, <3>1
      <3> QED BY <1>0, <2>2, <3>1, <3>2
    <2>4. k \in 1 .. n
      BY <2>3
    <2>5. g[k] <= g[p]
      <3>1. CASE k = p
        BY <1>0, <3>1
      <3>2. CASE k # p
        BY <1>0, <2>3, <2>4, <3>2 DEF Lists
      <3> QED BY <3>1, <3>2
    <2>6. g[k] \in A
      BY <1>0, <2>2, <2>4, <2>5
    <2>7. PICK q \in 1 .. m : f[q] = g[k]
      BY <2>6 DEF Lists
    <2>8. ~(q < k)
      <3> SUFFICES ASSUME q < k PROVE FALSE
        OBVIOUS
      <3>1. q \in 1 .. n /\ f[q] = g[q]
        BY <2>1
      <3>2. g[q] < g[k]
        BY <2>4, <3>1 DEF Lists
      <3> QED BY <1>0, <2>4, <2>7, <3>1, <3>2
    <2>9. f[k] <= f[q]
      <3>1. CASE k = q
        BY <1>0, <3>1
      <3>2. CASE k # q
        BY <1>0, <2>8, <3>2 DEF Lists
      <3> QED BY <3>1, <3>2
    <2> QED BY <1>0, <2>2, <2>4, <2>5, <2>7, <2>9
  <1>3. \A i \in Nat : i \in S
    <2> HIDE DEF S
    <2> QED BY <1>1, <1>2, Induction
  <1>4. m \in S
    BY <1>3
  <1>5. m = 0 \/ m \in 1 .. m
    OBVIOUS
  <1> QED BY <1>4, <1>5

LEMMA InOrderLists ==
  ASSUME NEW S \in SUBSET Nat, IsFiniteSet(S)
  PROVE  Cardinality(S) \in Nat /\ Lists(InOrder(S), Cardinality(S), S)
  <1> DEFINE n == Cardinality(S)
             Rising(f) == \A j, k \in DOMAIN f : j < k => f[j] < f[k]
  <1>1. n \in Nat
    BY FS_CardinalityType
  <1>2. PICK f : Lists(f, n, S)
    BY <1>1, ListExists
  <1>3. f \in [1 .. n -> S] /\ Rising(f)
    BY <1>2 DEF Lists
  <1> DEFINE at == CHOOSE g \in [1 .. n -> S] : Rising(g)
  <1>4. at \in [1 .. n -> S] /\ Rising(at)
    BY <1>3
  <1>5. at = InOrder(S)
    BY DEF InOrder
  <1> HIDE DEF at
  <1>6. IsInjective(at)
    <2>1. ASSUME NEW j \in 1 .. n, NEW k \in 1 .. n, at[j] = at[k] PROVE j = k
      <3>1. at[j] \in Nat /\ at[k] \in Nat
        BY <1>4
      <3> QED BY <1>4, <2>1, <3>1
    <2> QED BY <1>4, <2>1 DEF IsInjective
  <1>7. at \in Injection(1 .. n, S)
    BY <1>4, <1>6 DEF Injection
  <1>8. Cardinality(1 .. n) = n
    BY <1>1, FS_Interval
  <1>9. at \in Surjection(1 .. n, S)
    BY <1>7, <1>8, FS_Injection
  <1>10. \A x \in S : \E k \in 1 .. n : at[k] = x
    BY <1>9 DEF Surjection
  <1> QED BY <1>1, <1>4, <1>5, <1>10 DEF Lists

LEMMA InOrderIs ==
  ASSUME NEW S \in SUBSET Nat, IsFiniteSet(S), NEW n \in Nat, NEW f, Lists(f, n, S)
  PROVE  n = Cardinality(S) /\ InOrder(S) = f
  <1> DEFINE c == Cardinality(S)
             g == InOrder(S)
  <1>1. c \in Nat /\ Lists(g, c, S)
    BY InOrderLists
  <1> HIDE DEF c, g
  <1> DEFINE Begins == \A x \in S, y \in S : x <= y => x \in S
  <1>0. S \in SUBSET Nat /\ S \subseteq S /\ Begins
    OBVIOUS
  <1>2. ASSUME NEW m \in Nat, NEW l \in Nat, NEW h, NEW k, Lists(h, m, S), Lists(k, l, S)
        PROVE  m <= l /\ \A j \in 1 .. m : h[j] = k[j]
    BY <1>0, <1>2, ListsAgree
  <1>3. n <= c /\ c <= n /\ \A j \in 1 .. n : f[j] = g[j]
    BY <1>1, <1>2
  <1>4. n = c
    BY <1>1, <1>3
  <1>5. f = g
    BY <1>1, <1>3, <1>4 DEF Lists
  <1> QED BY <1>4, <1>5 DEF c, g

(* What is left of a list, in its order.                                   *)
LEMMA SiftSound ==
  ASSUME NEW T, NEW s \in Seq(T), NEW P, P \subseteq DOMAIN s
  PROVE  LET c == Cardinality(P)
             at == InOrder(P)
         IN  /\ P \in SUBSET Nat /\ IsFiniteSet(P) /\ c \in 0 .. Len(s)
             /\ Lists(at, c, P)
             /\ Sift(s, P) \in Seq(T) /\ Len(Sift(s, P)) = c
             /\ \A k \in 1 .. c : at[k] \in P /\ Sift(s, P)[k] = s[at[k]]
             /\ ToSet(Sift(s, P)) = {s[n] : n \in P}
  <1> DEFINE c == Cardinality(P)
             at == InOrder(P)
             r == Sift(s, P)
  <1>1. Len(s) \in Nat /\ DOMAIN s = 1 .. Len(s)
    OBVIOUS
  <1>2. IsFiniteSet(P) /\ c <= Len(s) /\ P \in SUBSET Nat
    <2>1. \A n \in Nat : IsFiniteSet(1 .. n) /\ Cardinality(1 .. n) = n
      BY FS_Interval
    <2>2. P \in SUBSET (1 .. Len(s))
      BY <1>1
    <2> QED BY <2>1, <2>2, FS_Subset
  <1>3. c \in Nat /\ Lists(at, c, P)
    BY <1>2, InOrderLists
  <1>4. r = [n \in DOMAIN at |-> s[at[n]]]
    BY DEF Sift
  <1> HIDE DEF c, at, r
  <1>5. DOMAIN at = 1 .. c /\ \A k \in 1 .. c : at[k] \in P
    BY <1>3 DEF Lists
  <1>6. r = [n \in 1 .. c |-> s[at[n]]] /\ \A k \in 1 .. c : s[at[k]] \in T
    BY <1>4, <1>5
  <1>7. r \in Seq(T) /\ Len(r) = c
    BY <1>3, <1>6
  <1>8. ToSet(r) = {s[n] : n \in P}
    BY <1>3, <1>5, <1>6 DEF ToSet, Lists
  <1> QED BY <1>2, <1>3, <1>5, <1>6, <1>7, <1>8 DEF c, at, r

\* The places 1 to n come first.
LEMMA FirstPlaces ==
  ASSUME NEW P \in SUBSET (Nat \ {0}), IsFiniteSet(P), NEW n \in Nat, 1 .. n \subseteq P
  PROVE  /\ Cardinality(P) \in Nat /\ n <= Cardinality(P)
         /\ \A k \in 1 .. n : InOrder(P)[k] = k
  <1> DEFINE f == [k \in 1 .. n |-> k]
             c == Cardinality(P)
             at == InOrder(P)
  <1>1. c \in Nat /\ Lists(at, c, P)
    BY InOrderLists
  <1>2. Lists(f, n, 1 .. n) /\ \A k \in 1 .. n : f[k] = k
    BY DEF Lists
  <1> HIDE DEF f, c, at
  <1>3. 1 .. n \in SUBSET Nat /\ P \in SUBSET Nat /\ \A x \in P, y \in 1 .. n : x <= y => x \in 1 .. n
    OBVIOUS
  <1>4. n <= c /\ \A k \in 1 .. n : f[k] = at[k]
    BY <1>1, <1>2, <1>3, ListsAgree
  <1> QED BY <1>1, <1>2, <1>4 DEF c, at

Others(s, e) == {n \in DOMAIN s : s[n] # e}

LEMMA WithoutSound ==
  ASSUME NEW T, NEW s \in Seq(T), NEW e
  PROVE  /\ Without(s, e) \in Seq(T) /\ Len(Without(s, e)) <= Len(s)
         /\ ToSet(Without(s, e)) = ToSet(s) \ {e}
  <1> DEFINE P == Others(s, e)
  <1>1. P \subseteq DOMAIN s /\ {s[n] : n \in P} = ToSet(s) \ {e}
    BY DEF Others, ToSet
  <1>2. Without(s, e) = Sift(s, P)
    BY DEF Without, Others
  <1> HIDE DEF P
  <1>3. Cardinality(P) \in 0 .. Len(s) /\ Sift(s, P) \in Seq(T) /\ Len(Sift(s, P)) = Cardinality(P)
    BY <1>1, SiftSound
  <1>4. ToSet(Sift(s, P)) = {s[n] : n \in P}
    BY <1>1, SiftSound
  <1> QED BY <1>1, <1>2, <1>3, <1>4

\* Add() and SaveHistory(): the entry, then as much of the others as there is room for.
Moved(r, e, w, max) ==
  /\ Len(r) = IF max <= Len(w) + 1 THEN max ELSE Len(w) + 1
  /\ \A k \in 1 .. Len(r) : r[k] = IF k = 1 THEN e ELSE w[k - 1]

LEMMA MoveToFrontIs ==
  ASSUME NEW T, NEW s \in Seq(T), NEW e \in T, NEW max \in Nat
  PROVE  /\ MoveToFront(e, s, max) \in Seq(T) /\ Without(s, e) \in Seq(T)
         /\ Moved(MoveToFront(e, s, max), e, Without(s, e), max)
  <1> DEFINE w == Without(s, e)
             moved == <<e>> \o w
             n == Min({max, Len(moved)})
  <1>1. w \in Seq(T)
    BY WithoutSound
  <1>2. MoveToFront(e, s, max) = SubSeq(moved, 1, n)
    BY DEF MoveToFront
  <1> HIDE DEF w
  <1>3. /\ moved \in Seq(T) /\ Len(w) \in Nat /\ Len(moved) = Len(w) + 1
        /\ \A k \in 1 .. Len(w) + 1 : moved[k] = IF k = 1 THEN e ELSE w[k - 1]
    BY <1>1
  <1> HIDE DEF moved
  <1>4. n = IF max <= Len(w) + 1 THEN max ELSE Len(w) + 1
    <2>1. \E x \in {max, Len(w) + 1} : \A y \in {max, Len(w) + 1} : x <= y
      BY <1>3
    <2>2. n \in {max, Len(w) + 1} /\ n <= max /\ n <= Len(w) + 1
      BY <1>3, <2>1 DEF Min
    <2> QED BY <1>3, <2>2
  <1> HIDE DEF n
  <1>5. n \in Nat /\ n <= Len(moved)
    BY <1>3, <1>4
  <1>6. /\ SubSeq(moved, 1, n) \in Seq(T) /\ Len(SubSeq(moved, 1, n)) = n
        /\ \A k \in 1 .. n : SubSeq(moved, 1, n)[k] = moved[k]
    BY <1>3, <1>5
  <1> QED BY <1>1, <1>2, <1>3, <1>4, <1>5, <1>6 DEF w, Moved

LEMMA MoveToFrontSet ==
  ASSUME NEW T, NEW s \in Seq(T), NEW e \in T, NEW max \in Nat
  PROVE  /\ ToSet(MoveToFront(e, s, max)) \subseteq ToSet(s) \union {e}
         /\ Len(Without(s, e)) < max => ToSet(MoveToFront(e, s, max)) = ToSet(s) \union {e}
  <1> DEFINE r == MoveToFront(e, s, max)
             w == Without(s, e)
  <1>0. r \in Seq(T) /\ w \in Seq(T) /\ Moved(r, e, w, max)
    BY MoveToFrontIs
  <1>1. /\ r \in Seq(T) /\ w \in Seq(T)
        /\ Len(r) = IF max <= Len(w) + 1 THEN max ELSE Len(w) + 1
        /\ \A k \in 1 .. Len(r) : r[k] = IF k = 1 THEN e ELSE w[k - 1]
    BY <1>0 DEF Moved
  <1>2. ToSet(w) = ToSet(s) \ {e}
    BY WithoutSound
  <1> HIDE DEF r, w
  <1>3. DOMAIN r = 1 .. Len(r) /\ DOMAIN w = 1 .. Len(w) /\ Len(w) \in Nat
    BY <1>1
  <1>4. ASSUME NEW k \in 1 .. Len(r) PROVE r[k] \in ToSet(w) \union {e}
    <2>1. CASE k = 1
      BY <1>1, <2>1
    <2>2. CASE k # 1
      <3>1. k - 1 \in DOMAIN w
        BY <1>1, <1>3, <2>2
      <3> QED BY <1>1, <2>2, <3>1 DEF ToSet
    <2> QED BY <2>1, <2>2
  <1>5. ToSet(r) \subseteq ToSet(w) \union {e}
    BY <1>3, <1>4 DEF ToSet
  <1>6. ASSUME Len(w) < max PROVE ToSet(w) \union {e} \subseteq ToSet(r)
    <2>1. Len(r) = Len(w) + 1
      BY <1>1, <1>3, <1>6
    <2>2. 1 \in DOMAIN r /\ r[1] = e
      BY <1>1, <1>3, <2>1
    <2>3. ASSUME NEW k \in DOMAIN w PROVE w[k] \in ToSet(r)
      <3>1. k + 1 \in DOMAIN r /\ k + 1 # 1 /\ (k + 1) - 1 = k
        BY <1>3, <2>1
      <3>2. r[k + 1] = w[k]
        BY <1>1, <1>3, <3>1
      <3> QED BY <3>1, <3>2 DEF ToSet
    <2> QED BY <2>2, <2>3 DEF ToSet
  <1> QED BY <1>2, <1>5, <1>6 DEF r, w

-----------------------------------------------------------------------------
(***************************************************************************)
(* Types.  A list has whole entries only, whatever a kill has left in the  *)
(* files.                                                                  *)
(***************************************************************************)
Entry == [type : Texts, path : Texts, host : Texts, port : Texts]
Whole == {LocalEntry(p) : p \in Texts \ {Empty}} \union
         {RemoteEntry(r) : r \in [path : Texts \ {Empty}, host : Texts \ {Empty},
                                  port : Texts \ {Empty, NoPort}]}
Writes == [key : Keys \ {PlaceKey}, val : Texts]
Programs == [on : BOOLEAN, file : Files, list : Seq(Whole), todo : Seq(Writes),
             win : Rect \union {Empty}, work : Works \union {Empty},
             log : Seq(Whole), before : Seq(Whole), saved : BOOLEAN, alone : BOOLEAN]

IniType ==
  /\ DOMAIN ini = Files
  /\ \A f \in Files : /\ DOMAIN ini[f] = Keys
                      /\ \A key \in Keys \ {PlaceKey} : ini[f][key] \in Texts
                      /\ ini[f][PlaceKey] \in Rects \union {Empty}
ProgType == prog \in [Insts -> Programs] /\ \A i \in Insts : Len(prog[i].list) <= MaxItems
CountType == /\ starts \in 0 .. MaxStarts /\ adds \in 0 .. MaxAdds
             /\ asked \subseteq Addresses /\ raced \in BOOLEAN
Types == IniType /\ ProgType /\ CountType

LEMMA TextFacts ==
  /\ Empty \in Texts /\ NoPort \in Texts /\ "local" \in Texts /\ "remote" \in Texts
  /\ Empty \notin {NoPort, "local", "remote"} \union Addresses
  /\ Locals \subseteq Texts /\ Addresses \subseteq Texts
  /\ Entries \subseteq Whole /\ Whole \subseteq Entry
  /\ \A e \in Whole : e.type # Empty /\ e.path # Empty
  <1>1. /\ Empty \in Texts /\ NoPort \in Texts /\ "local" \in Texts /\ "remote" \in Texts
        /\ Locals \subseteq Texts /\ Addresses \subseteq Texts
        /\ \A r \in Remotes : r.path \in Texts /\ r.host \in Texts /\ r.port \in Texts
    BY DEF Texts
  <1>2. /\ Empty \notin {NoPort, "local", "remote"} \union Addresses \union Locals
        /\ \A r \in Remotes : Empty \notin {r.path, r.host, r.port} /\ r.port # NoPort
    BY TextsAssumption DEF TextsAssumption
  <1> HIDE DEF NoPort
  <1>3. ASSUME NEW p \in Locals PROVE LocalEntry(p) \in Whole
    BY <1>1, <1>2 DEF Whole
  <1>4. ASSUME NEW r \in Remotes PROVE RemoteEntry(r) \in Whole
    <2> DEFINE q == [path |-> r.path, host |-> r.host, port |-> r.port]
    <2>1. q \in [path : Texts \ {Empty}, host : Texts \ {Empty}, port : Texts \ {Empty, NoPort}]
      BY <1>1, <1>2
    <2>2. RemoteEntry(r) = RemoteEntry(q)
      BY DEF RemoteEntry
    <2> HIDE DEF q
    <2> QED BY <2>1, <2>2 DEF Whole
  <1>5. Whole \subseteq Entry /\ \A e \in Whole : e.type # Empty /\ e.path # Empty
    BY <1>1, <1>2 DEF Whole, Entry, LocalEntry, RemoteEntry
  <1> QED BY <1>1, <1>2, <1>3, <1>4, <1>5 DEF Entries

\* The keys of the three sections.
LEMMA KeyFacts ==
  /\ PlaceKey \in Keys /\ PlaceKey \notin RecentKeys \union HostKeys
  /\ RecentKeys \subseteq Keys /\ HostKeys \subseteq Keys
  /\ RecentKeys \intersect HostKeys = {}
  /\ \A s \in Slots : \A f \in {"type", "path", "host", "port"} : <<f, s>> \in RecentKeys
  /\ \A key \in RecentKeys : \E s \in Slots : \E f \in {"type", "path", "host", "port"} : key = <<f, s>>
  /\ \A h \in 1 .. MaxHosts : <<"addr", h>> \in HostKeys
  /\ \A key \in HostKeys : \E h \in 1 .. MaxHosts : key = <<"addr", h>>
  <1>1. ToSet(Fields) = {"type", "path", "host", "port"}
    BY DEF ToSet, Fields
  <1> QED BY <1>1 DEF Keys, RecentKeys, HostKeys, PlaceKey

LEMMA GetType ==
  ASSUME IniType
  PROVE  /\ \A key \in Keys \ {PlaceKey} : Get(key) \in Texts
         /\ Get(PlaceKey) \in Rects \union {Empty}
  BY DEF IniType, Get, Files

Used == {s \in Slots : SlotCounts(s)}

LEMMA LoadIs ==
  ASSUME IniType
  PROVE  /\ Used \in SUBSET (Nat \ {0}) /\ IsFiniteSet(Used)
         /\ Cardinality(Used) \in 0 .. MaxItems /\ Lists(InOrder(Used), Cardinality(Used), Used)
         /\ Load \in Seq(Whole) /\ Len(Load) = Cardinality(Used)
         /\ \A k \in 1 .. Len(Load) : InOrder(Used)[k] \in Used /\ Load[k] = SlotEntry(InOrder(Used)[k])
         /\ ToSet(Load) = {SlotEntry(s) : s \in Used}
  <1> DEFINE all == [s \in Slots |-> SlotEntry(s)]
  <1>1. MaxItems \in Nat /\ Slots = 1 .. MaxItems
    BY BoundsAssumption DEF BoundsAssumption, Slots
  <1>2. ASSUME NEW s \in Slots
        PROVE  /\ SlotEntry(s) \in Entry /\ (SlotCounts(s) => SlotEntry(s) \in Whole)
    <2>1. /\ Get(<<"type", s>>) \in Texts /\ Get(<<"path", s>>) \in Texts
          /\ Get(<<"host", s>>) \in Texts /\ Get(<<"port", s>>) \in Texts
      BY KeyFacts, GetType
    <2> HIDE DEF NoPort
    <2>2. SlotEntry(s) \in Entry
      BY <2>1, TextFacts DEF SlotEntry, LocalEntry, Entry
    <2>3. ASSUME SlotCounts(s), Get(<<"type", s>>) = "remote" PROVE SlotEntry(s) \in Whole
      <3> DEFINE q == [path |-> Get(<<"path", s>>), host |-> Get(<<"host", s>>),
                       port |-> Get(<<"port", s>>)]
      <3>1. q \in [path : Texts \ {Empty}, host : Texts \ {Empty}, port : Texts \ {Empty, NoPort}]
        BY <2>1, <2>3 DEF SlotCounts
      <3>2. SlotEntry(s) = RemoteEntry(q)
        BY <2>3 DEF SlotEntry, RemoteEntry
      <3> HIDE DEF q
      <3> QED BY <3>1, <3>2 DEF Whole
    <2>4. ASSUME SlotCounts(s), Get(<<"type", s>>) # "remote" PROVE SlotEntry(s) \in Whole
      BY <2>1, <2>4 DEF SlotEntry, SlotCounts, Whole
    <2> QED BY <2>2, <2>3, <2>4
  <1>3. all \in Seq(Entry) /\ Len(all) = MaxItems /\ DOMAIN all = Slots
    BY <1>1, <1>2
  <1>4. Load = Sift(all, Used) /\ Used \subseteq DOMAIN all
    BY <1>3 DEF Load, Used
  <1>5. \A s \in Used : all[s] = SlotEntry(s) /\ all[s] \in Whole
    BY <1>2 DEF Used
  <1> HIDE DEF all
  <1> DEFINE c == Cardinality(Used)
             at == InOrder(Used)
  <1>6. /\ IsFiniteSet(Used) /\ c \in 0 .. MaxItems /\ Lists(at, c, Used)
        /\ Load \in Seq(Entry) /\ Len(Load) = c
        /\ \A k \in 1 .. c : at[k] \in Used /\ Load[k] = all[at[k]]
        /\ ToSet(Load) = {all[n] : n \in Used}
    BY <1>3, <1>4, SiftSound
  <1>7. Used \in SUBSET (Nat \ {0})
    BY <1>1, <1>3, <1>4
  <1> HIDE DEF c, at
  <1>8. \A k \in 1 .. c : at[k] \in Used /\ Load[k] = SlotEntry(at[k]) /\ Load[k] \in Whole
    BY <1>5, <1>6
  <1>9. Load \in Seq(Whole)
    BY <1>6, <1>8
  <1>10. ToSet(Load) = {SlotEntry(s) : s \in Used}
    BY <1>5, <1>6
  <1> QED BY <1>6, <1>7, <1>8, <1>9, <1>10 DEF c, at

Hosts == {h \in 1 .. MaxHosts : Get(<<"addr", h>>) # Empty}

LEMMA LoadHistoryIs ==
  ASSUME IniType
  PROVE  /\ Hosts \in SUBSET Nat /\ IsFiniteSet(Hosts)
         /\ Lists(InOrder(Hosts), Cardinality(Hosts), Hosts)
         /\ LoadHistory \in Seq(Texts \ {Empty}) /\ Len(LoadHistory) = Cardinality(Hosts)
         /\ Cardinality(Hosts) \in 0 .. MaxHosts
         /\ \A k \in 1 .. Len(LoadHistory) : LoadHistory[k] = Get(<<"addr", InOrder(Hosts)[k]>>)
         /\ ToSet(LoadHistory) = {Get(<<"addr", h>>) : h \in Hosts}
  <1> DEFINE all == [h \in 1 .. MaxHosts |-> Get(<<"addr", h>>)]
             c == Cardinality(Hosts)
             at == InOrder(Hosts)
  <1>1. MaxHosts \in Nat
    BY BoundsAssumption DEF BoundsAssumption
  <1>2. \A h \in 1 .. MaxHosts : Get(<<"addr", h>>) \in Texts
    <2>1. \A h \in 1 .. MaxHosts : <<"addr", h>> \in Keys \ {PlaceKey}
      BY KeyFacts
    <2> QED BY <2>1, GetType
  <1>3. all \in Seq(Texts) /\ Len(all) = MaxHosts /\ Hosts \subseteq DOMAIN all
    BY <1>1, <1>2 DEF Hosts
  <1>4. LoadHistory = Sift(all, Hosts)
    BY DEF LoadHistory, Hosts
  <1>5. \A h \in Hosts : all[h] = Get(<<"addr", h>>) /\ all[h] \in Texts \ {Empty}
    BY <1>2 DEF Hosts
  <1> HIDE DEF all
  <1>6. /\ Hosts \in SUBSET Nat /\ IsFiniteSet(Hosts)
        /\ Lists(at, c, Hosts) /\ c \in 0 .. MaxHosts
        /\ LoadHistory \in Seq(Texts) /\ Len(LoadHistory) = c
        /\ \A k \in 1 .. c : at[k] \in Hosts /\ LoadHistory[k] = all[at[k]]
        /\ ToSet(LoadHistory) = {all[n] : n \in Hosts}
    BY <1>3, <1>4, SiftSound
  <1> HIDE DEF c, at
  <1>7. \A k \in 1 .. Len(LoadHistory) : /\ LoadHistory[k] \in Texts \ {Empty}
                                        /\ LoadHistory[k] = Get(<<"addr", at[k]>>)
    BY <1>5, <1>6
  <1>8. LoadHistory \in Seq(Texts \ {Empty})
    <2>1. LoadHistory \in Seq(Texts) /\ \A k \in 1 .. Len(LoadHistory) : LoadHistory[k] \in Texts \ {Empty}
      BY <1>6, <1>7
    <2> HIDE DEF Texts
    <2> QED BY <2>1
  <1>9. ToSet(LoadHistory) = {Get(<<"addr", h>>) : h \in Hosts}
    <2>1. ToSet(LoadHistory) = {all[n] : n \in Hosts} /\ \A h \in Hosts : all[h] = Get(<<"addr", h>>)
      BY <1>5, <1>6
    <2> QED BY <2>1, Zenon
  <1> QED BY <1>6, <1>7, <1>8, <1>9 DEF c, at

LEMMA PlacedType ==
  ASSUME NEW saved \in Rects \union {Empty}, NEW work \in Works
  PROVE  Placed(saved, work) \in Rect \union {Empty}
  <1>1. /\ Rects \subseteq Rect /\ work \in Rect /\ MinWidth \in Nat /\ MinHeight \in Nat
    BY PlacesAssumption DEF PlacesAssumption
  <1>2. ASSUME NEW lo \in Int, NEW hi \in Int, NEW wlo \in Int, NEW whi \in Int, NEW least \in Nat
        PROVE  /\ Length(lo, hi, wlo, whi, least) \in Int
               /\ \A n \in Int : Near(lo, n, wlo, whi) \in Int
    BY DEF Length, Near
  <1>3. ASSUME NEW rc \in Rect PROVE Clamp(rc, work) \in Rect
    <2>1. /\ rc.left \in Int /\ rc.right \in Int /\ rc.top \in Int /\ rc.bottom \in Int
          /\ work.left \in Int /\ work.right \in Int /\ work.top \in Int /\ work.bottom \in Int
      BY <1>1 DEF Rect
    <2> DEFINE width == Length(rc.left, rc.right, work.left, work.right, MinWidth)
               height == Length(rc.top, rc.bottom, work.top, work.bottom, MinHeight)
               left == Near(rc.left, width, work.left, work.right)
               top == Near(rc.top, height, work.top, work.bottom)
    <2>2. width \in Int /\ height \in Int
      BY <1>1, <1>2, <2>1
    <2>3. left \in Int /\ top \in Int
      BY <1>1, <1>2, <2>1, <2>2
    <2>4. Clamp(rc, work) = [left |-> left, top |-> top,
                             right |-> left + width, bottom |-> top + height]
      BY DEF Clamp
    <2> HIDE DEF width, height, left, top
    <2> QED BY <2>2, <2>3, <2>4 DEF Rect
  <1> QED BY <1>1, <1>3 DEF Placed

-----------------------------------------------------------------------------
(***************************************************************************)
(* What a list says of a key, and the key that is written n-th.            *)
(***************************************************************************)
Val(list, key) == IF key[2] <= Len(list) THEN list[key[2]][key[1]] ELSE NoEntry[key[1]]
KeyAt(n) == <<Fields[((n - 1) % 4) + 1], ((n - 1) \div 4) + 1>>
Names == {"type", "path", "host", "port"}

LEMMA KeyAtSound ==
  /\ MaxItems \in Nat /\ Slots = 1 .. MaxItems
  /\ \A n \in 1 .. 4 * MaxItems : /\ KeyAt(n) \in RecentKeys
                                  /\ KeyAt(n)[1] \in Names /\ KeyAt(n)[2] \in Slots
                                  /\ 4 * (KeyAt(n)[2] - 1) < n /\ n <= 4 * KeyAt(n)[2]
                                  /\ KeyAt(n) = <<KeyAt(n)[1], KeyAt(n)[2]>>
  /\ \A s \in Slots, f \in Names : \E n \in 1 .. 4 * MaxItems :
        KeyAt(n) = <<f, s>> /\ 4 * (s - 1) < n /\ n <= 4 * s
  <1>1. MaxItems \in Nat /\ Slots = 1 .. MaxItems
    BY BoundsAssumption DEF BoundsAssumption, Slots
  <1>2. /\ Fields[1] = "type" /\ Fields[2] = "path" /\ Fields[3] = "host" /\ Fields[4] = "port"
        /\ \A m \in 1 .. 4 : Fields[m] \in Names
        /\ \A f \in Names : \E m \in 1 .. 4 : Fields[m] = f
    BY DEF Fields, Names
  <1>3. ASSUME NEW n \in 1 .. 4 * MaxItems
        PROVE  /\ ((n - 1) % 4) + 1 \in 1 .. 4 /\ ((n - 1) \div 4) + 1 \in 1 .. MaxItems
               /\ 4 * ((n - 1) \div 4) < n /\ n <= 4 * (((n - 1) \div 4) + 1)
    BY <1>1
  <1>4. ASSUME NEW n \in 1 .. 4 * MaxItems
        PROVE  /\ KeyAt(n) \in RecentKeys
               /\ KeyAt(n)[1] \in Names /\ KeyAt(n)[2] \in Slots
               /\ 4 * (KeyAt(n)[2] - 1) < n /\ n <= 4 * KeyAt(n)[2]
               /\ KeyAt(n) = <<KeyAt(n)[1], KeyAt(n)[2]>>
    <2> DEFINE m == ((n - 1) % 4) + 1
               s == ((n - 1) \div 4) + 1
    <2>1. m \in 1 .. 4 /\ s \in Slots /\ 4 * (s - 1) < n /\ n <= 4 * s
      BY <1>1, <1>3
    <2>2. KeyAt(n) = <<Fields[m], s>>
      BY DEF KeyAt
    <2> HIDE DEF m, s
    <2>3. Fields[m] \in Names
      BY <1>2, <2>1
    <2>4. <<Fields[m], s>> \in RecentKeys
      BY <2>1, <2>3, KeyFacts DEF Names
    <2> QED BY <2>1, <2>2, <2>3, <2>4
  <1>5. ASSUME NEW s \in Slots, NEW f \in Names
        PROVE  \E n \in 1 .. 4 * MaxItems : KeyAt(n) = <<f, s>> /\ 4 * (s - 1) < n /\ n <= 4 * s
    <2>1. PICK m \in 1 .. 4 : Fields[m] = f
      BY <1>2
    <2> DEFINE n == 4 * (s - 1) + m
    <2>2. /\ n \in 1 .. 4 * MaxItems /\ 4 * (s - 1) < n /\ n <= 4 * s
          /\ ((n - 1) % 4) + 1 = m /\ ((n - 1) \div 4) + 1 = s
      BY <1>1
    <2> HIDE DEF n
    <2> QED BY <2>1, <2>2 DEF KeyAt
  <1> QED BY <1>1, <1>4, <1>5

\* Save(): every key of every slot, once.
LEMMA SavesListIs ==
  ASSUME NEW list \in Seq(Entry)
  PROVE  /\ SavesList(list) \in Seq(Writes) /\ Len(SavesList(list)) = 4 * MaxItems
         /\ \A n \in 1 .. 4 * MaxItems :
              SavesList(list)[n] = [key |-> KeyAt(n), val |-> Val(list, KeyAt(n))]
  <1> DEFINE todo == SavesList(list)
  <1>1. DOMAIN todo = 1 .. 4 * MaxItems /\ todo = [n \in 1 .. 4 * MaxItems |-> todo[n]]
    BY DEF SavesList
  <1>2. ASSUME NEW n \in 1 .. 4 * MaxItems
        PROVE  todo[n] = [key |-> KeyAt(n), val |-> Val(list, KeyAt(n))]
    <2> DEFINE f == Fields[((n - 1) % 4) + 1]
               s == ((n - 1) \div 4) + 1
    <2>1. todo[n] = [key |-> <<f, s>>, val |-> (IF s <= Len(list) THEN list[s] ELSE NoEntry)[f]]
      BY DEF SavesList
    <2>2. KeyAt(n) = <<f, s>>
      BY DEF KeyAt
    <2> HIDE DEF f, s
    <2>3. Val(list, <<f, s>>) = (IF s <= Len(list) THEN list[s] ELSE NoEntry)[f]
      BY DEF Val
    <2> QED BY <2>1, <2>2, <2>3
  <1> HIDE DEF todo
  <1>3. ASSUME NEW n \in 1 .. 4 * MaxItems
        PROVE  todo[n] \in Writes
    <2>1. KeyAt(n) \in Keys \ {PlaceKey} /\ KeyAt(n)[1] \in Names /\ KeyAt(n)[2] \in 1 .. MaxItems
      BY KeyAtSound, KeyFacts
    <2>2. Val(list, KeyAt(n)) \in Texts
      <3>1. NoEntry \in Entry
        BY TextFacts DEF NoEntry, Entry
      <3>2. \A e \in Entry : \A f \in Names : e[f] \in Texts
        BY DEF Entry, Names
      <3>3. KeyAt(n)[2] <= Len(list) => list[KeyAt(n)[2]] \in Entry
        BY <2>1, KeyAtSound
      <3> QED BY <2>1, <3>1, <3>2, <3>3 DEF Val
    <2>3. \A k \in Keys \ {PlaceKey}, v \in Texts : [key |-> k, val |-> v] \in Writes
      BY Zenon DEF Writes
    <2> QED BY <1>2, <2>1, <2>2, <2>3
  <1>4. 4 * MaxItems \in Nat
    BY KeyAtSound
  <1>5. todo \in Seq(Writes) /\ Len(todo) = 4 * MaxItems
    BY <1>1, <1>3, <1>4
  <1> QED BY <1>2, <1>5 DEF todo

HostVal(hist, n) == IF n <= Len(hist) THEN hist[n] ELSE Empty

LEMMA SavesHistoryIs ==
  ASSUME NEW hist \in Seq(Texts)
  PROVE  /\ SavesHistory(hist) \in Seq(Writes) /\ Len(SavesHistory(hist)) = MaxHosts
         /\ \A n \in 1 .. MaxHosts :
              SavesHistory(hist)[n] = [key |-> <<"addr", n>>, val |-> HostVal(hist, n)]
  <1> DEFINE todo == SavesHistory(hist)
  <1>1. MaxHosts \in Nat
    BY BoundsAssumption DEF BoundsAssumption
  <1>2. /\ DOMAIN todo = 1 .. MaxHosts /\ todo = [n \in 1 .. MaxHosts |-> todo[n]]
        /\ \A n \in 1 .. MaxHosts : todo[n] = [key |-> <<"addr", n>>, val |-> HostVal(hist, n)]
    BY DEF SavesHistory, HostVal
  <1>3. ASSUME NEW n \in 1 .. MaxHosts
        PROVE  <<"addr", n>> \in Keys \ {PlaceKey} /\ HostVal(hist, n) \in Texts
    <2>1. HostVal(hist, n) \in Texts
      BY <1>1, TextFacts DEF HostVal
    <2> QED BY <2>1, KeyFacts
  <1> HIDE DEF todo
  <1>4. \A n \in 1 .. MaxHosts : todo[n] \in Writes
    BY <1>2, <1>3 DEF Writes
  <1>5. todo \in Seq(Writes) /\ Len(todo) = MaxHosts
    BY <1>1, <1>2, <1>4
  <1> QED BY <1>2, <1>5 DEF todo

-----------------------------------------------------------------------------
(***************************************************************************)
(* What each action makes of an instance.                                  *)
(***************************************************************************)
Started(writable, work) ==
  [Off EXCEPT !.on = TRUE, !.file = WriteFile(writable), !.list = Load, !.work = work,
              !.win = Placed(Get(PlaceKey), work)]
Adding(p, e) ==
  [p EXCEPT !.list = MoveToFront(e, p.list, MaxItems),
            !.todo = SavesList(MoveToFront(e, p.list, MaxItems)), !.saved = TRUE,
            !.log = <<e>> \o @, !.before = Load, !.alone = TRUE]
Asking(p, a) == [p EXCEPT !.todo = SavesHistory(MoveToFront(a, LoadHistory, MaxHosts))]

LEMMA OffType == Off \in Programs /\ Off.list = <<>> /\ Off.todo = <<>>
  BY DEF Off, Programs, Files

LEMMA ListType ==
  ASSUME NEW list \in Seq(Whole), NEW e \in Whole
  PROVE  /\ list \in Seq(Entry)
         /\ MoveToFront(e, list, MaxItems) \in Seq(Whole)
         /\ Len(MoveToFront(e, list, MaxItems)) <= MaxItems
  <1>1. MaxItems \in Nat
    BY KeyAtSound
  <1>2. Whole \subseteq Entry
    BY TextFacts
  <1> HIDE DEF Whole, Entry
  <1>3. list \in Seq(Entry)
    BY <1>2
  <1>4. /\ MoveToFront(e, list, MaxItems) \in Seq(Whole) /\ Without(list, e) \in Seq(Whole)
        /\ Moved(MoveToFront(e, list, MaxItems), e, Without(list, e), MaxItems)
    BY <1>1, MoveToFrontIs
  <1>5. Len(MoveToFront(e, list, MaxItems)) <= MaxItems
    BY <1>1, <1>4 DEF Moved
  <1> QED BY <1>3, <1>4, <1>5

\* An instance is what its fields are.
LEMMA ProgramIs ==
  ASSUME NEW on \in BOOLEAN, NEW file \in Files, NEW list \in Seq(Whole), NEW todo \in Seq(Writes),
         NEW win \in Rect \union {Empty}, NEW work \in Works \union {Empty},
         NEW log \in Seq(Whole), NEW before \in Seq(Whole), NEW saved \in BOOLEAN,
         NEW alone \in BOOLEAN
  PROVE  [on |-> on, file |-> file, list |-> list, todo |-> todo, win |-> win, work |-> work,
          log |-> log, before |-> before, saved |-> saved, alone |-> alone] \in Programs
  <1> HIDE DEF Files, Whole, Writes, Rect
  <1> QED BY DEF Programs

LEMMA FieldTypes ==
  ASSUME NEW p \in Programs
  PROVE  /\ p.on \in BOOLEAN /\ p.file \in Files /\ p.list \in Seq(Whole) /\ p.todo \in Seq(Writes)
         /\ p.win \in Rect \union {Empty} /\ p.work \in Works \union {Empty}
         /\ p.log \in Seq(Whole) /\ p.before \in Seq(Whole)
         /\ p.saved \in BOOLEAN /\ p.alone \in BOOLEAN
         /\ p = [on |-> p.on, file |-> p.file, list |-> p.list, todo |-> p.todo, win |-> p.win,
                 work |-> p.work, log |-> p.log, before |-> p.before, saved |-> p.saved,
                 alone |-> p.alone]
  <1> HIDE DEF Files, Whole, Writes, Rect
  <1> QED BY DEF Programs

LEMMA StartedType ==
  ASSUME IniType, NEW writable \in BOOLEAN, NEW work \in Works
  PROVE  /\ Started(writable, work) \in Programs
         /\ Len(Started(writable, work).list) <= MaxItems
         /\ Started(writable, work).todo = <<>> /\ Started(writable, work).on
         /\ Started(writable, work).saved = FALSE /\ Started(writable, work).log = <<>>
  <1> DEFINE file == WriteFile(writable)
             list == Load
             win == Placed(Get(PlaceKey), work)
             p == [on |-> TRUE, file |-> file, list |-> list, todo |-> <<>>, win |-> win, work |-> work,
                   log |-> <<>>, before |-> <<>>, saved |-> FALSE, alone |-> TRUE]
  <1>1. list \in Seq(Whole) /\ Len(list) <= MaxItems
    BY LoadIs
  <1>2. win \in Rect \union {Empty}
    BY GetType, PlacedType
  <1>3. file \in Files
    BY DEF WriteFile, Files
  <1>4. Started(writable, work) = [Off EXCEPT !.on = TRUE, !.file = file, !.list = list,
                                              !.work = work, !.win = win]
    BY DEF Started
  <1> HIDE DEF file, list, win
  <1>5. Started(writable, work) = p
    BY <1>4 DEF Off
  <1>6. <<>> \in Seq(Whole) /\ <<>> \in Seq(Writes)
    OBVIOUS
  <1>7. p \in Programs
    BY <1>1, <1>2, <1>3, <1>6, ProgramIs
  <1> QED BY <1>1, <1>5, <1>7

Added(p, e, q) ==
  /\ q.list = MoveToFront(e, p.list, MaxItems) /\ q.todo = SavesList(q.list)
  /\ q.log = <<e>> \o p.log /\ q.before = Load /\ q.saved = TRUE /\ q.alone = TRUE
  /\ q.on = p.on /\ q.file = p.file /\ q.win = p.win /\ q.work = p.work

LEMMA AddingIs ==
  ASSUME IniType, NEW p \in Programs, NEW e \in Whole
  PROVE  Adding(p, e) \in Programs /\ Added(p, e, Adding(p, e)) /\ Len(Adding(p, e).list) <= MaxItems
  <1> DEFINE list == MoveToFront(e, p.list, MaxItems)
             todo == SavesList(list)
             log == <<e>> \o p.log
             before == Load
             q == [on |-> p.on, file |-> p.file, list |-> list, todo |-> todo, win |-> p.win,
                   work |-> p.work, log |-> log, before |-> before, saved |-> TRUE, alone |-> TRUE]
  <1>0. /\ p.on \in BOOLEAN /\ p.file \in Files /\ p.list \in Seq(Whole) /\ p.log \in Seq(Whole)
        /\ p.win \in Rect \union {Empty} /\ p.work \in Works \union {Empty}
        /\ p = [on |-> p.on, file |-> p.file, list |-> p.list, todo |-> p.todo, win |-> p.win,
                work |-> p.work, log |-> p.log, before |-> p.before, saved |-> p.saved,
                alone |-> p.alone]
    BY FieldTypes
  <1>1. list \in Seq(Whole) /\ Len(list) <= MaxItems /\ list \in Seq(Entry)
    BY <1>0, ListType
  <1>2. todo \in Seq(Writes)
    BY <1>1, SavesListIs
  <1>3. before \in Seq(Whole)
    BY LoadIs
  <1>4. log \in Seq(Whole)
    <2> HIDE DEF Whole
    <2> QED BY <1>0
  <1>5. Adding(p, e) = [p EXCEPT !.list = list, !.todo = todo, !.saved = TRUE,
                                 !.log = log, !.before = before, !.alone = TRUE]
    BY DEF Adding
  <1>6. Added(p, e, q)
    BY DEF Added
  <1> HIDE DEF list, todo, log, before
  <1>7. Adding(p, e) = q
    BY <1>0, <1>5
  <1>8. q \in Programs
    <2>1. /\ p.on \in BOOLEAN /\ p.file \in Files
          /\ p.win \in Rect \union {Empty} /\ p.work \in Works \union {Empty}
      BY <1>0
    <2> HIDE DEF Files, Whole, Writes, Rect
    <2> QED BY <1>1, <1>2, <1>3, <1>4, <2>1 DEF Programs
  <1>9. q.list = list
    OBVIOUS
  <1> QED BY <1>1, <1>6, <1>7, <1>8, <1>9

Like(p, q) ==
  /\ q.list = p.list /\ q.log = p.log /\ q.before = p.before /\ q.saved = p.saved
  /\ q.on = p.on /\ q.file = p.file /\ q.win = p.win /\ q.work = p.work

LEMMA TodoIs ==
  ASSUME NEW p \in Programs, NEW todo \in Seq(Writes)
  PROVE  /\ [p EXCEPT !.todo = todo] \in Programs /\ Like(p, [p EXCEPT !.todo = todo])
         /\ [p EXCEPT !.todo = todo].todo = todo /\ [p EXCEPT !.todo = todo].alone = p.alone
  <1> HIDE DEF Files, Whole, Writes, Rect
  <1>1. [p EXCEPT !.todo = todo] \in Programs
    BY DEF Programs
  <1> QED BY <1>1 DEF Programs, Like

LEMMA DisturbedIs ==
  ASSUME NEW p \in Programs
  PROVE  /\ [p EXCEPT !.alone = FALSE] \in Programs /\ Like(p, [p EXCEPT !.alone = FALSE])
         /\ [p EXCEPT !.alone = FALSE].todo = p.todo /\ [p EXCEPT !.alone = FALSE].alone = FALSE
  <1> HIDE DEF Files, Whole, Writes, Rect
  <1>1. [p EXCEPT !.alone = FALSE] \in Programs
    BY DEF Programs
  <1> QED BY <1>1 DEF Programs, Like

LEMMA AskingIs ==
  ASSUME IniType, NEW p \in Programs, NEW a \in Addresses
  PROVE  /\ MoveToFront(a, LoadHistory, MaxHosts) \in Seq(Texts)
         /\ Asking(p, a) \in Programs /\ Like(p, Asking(p, a)) /\ Asking(p, a).alone = p.alone
         /\ Asking(p, a).todo = SavesHistory(MoveToFront(a, LoadHistory, MaxHosts))
  <1> DEFINE hist == MoveToFront(a, LoadHistory, MaxHosts)
             todo == SavesHistory(hist)
  <1>1. hist \in Seq(Texts)
    <2>1. LoadHistory \in Seq(Texts \ {Empty})
      BY LoadHistoryIs
    <2>2. a \in Texts /\ MaxHosts \in Nat
      BY TextFacts, BoundsAssumption DEF BoundsAssumption
    <2> HIDE DEF Texts, hist
    <2>3. LoadHistory \in Seq(Texts)
      BY <2>1
    <2> QED BY <2>2, <2>3, MoveToFrontIs DEF hist
  <1>2. todo \in Seq(Writes)
    BY <1>1, SavesHistoryIs
  <1>3. Asking(p, a) = [p EXCEPT !.todo = todo]
    BY DEF Asking
  <1> HIDE DEF todo, hist
  <1>4. Asking(p, a) \in Programs /\ Like(p, Asking(p, a)) /\ Asking(p, a).alone = p.alone
        /\ Asking(p, a).todo = todo
    BY <1>2, <1>3, TodoIs
  <1> QED BY <1>1, <1>4 DEF hist, todo

\* One key was written.
LEMMA WriteIs ==
  ASSUME Types, NEW i \in Insts, Write(i)
  PROVE  /\ prog[i].todo # <<>> /\ prog[i].todo \in Seq(Writes) /\ prog[i].todo[1] \in Writes
         /\ prog[i].file \in Files
         /\ ini' = [ini EXCEPT ![prog[i].file][prog[i].todo[1].key] = prog[i].todo[1].val]
         /\ prog' \in [Insts -> Programs] /\ \A j \in Insts : Like(prog[j], prog'[j])
         /\ prog'[i].todo = Tail(prog[i].todo) /\ prog'[i].alone = prog[i].alone
         /\ \A j \in Insts \ {i} : prog'[j].todo = prog[j].todo /\ prog'[j].alone = FALSE
  <1>1. prog \in [Insts -> Programs] /\ prog[i].todo # <<>>
    BY DEF Types, ProgType, Write
  <1>2. prog[i] \in Programs
    BY <1>1
  <1>3. prog[i].todo \in Seq(Writes) /\ prog[i].file \in Files
    BY <1>2, FieldTypes
  <1>4. Head(prog[i].todo) = prog[i].todo[1] /\ prog[i].todo[1] \in Writes /\ Tail(prog[i].todo) \in Seq(Writes)
    <2> HIDE DEF Writes
    <2> QED BY <1>1, <1>3
  <1>5. ini' = [ini EXCEPT ![prog[i].file][prog[i].todo[1].key] = prog[i].todo[1].val]
    BY <1>4 DEF Write
  <1> DEFINE todo == Tail(prog[i].todo)
             q == [prog[i] EXCEPT !.todo = todo]
             r(j) == [prog[j] EXCEPT !.alone = FALSE]
  <1>6. prog' = [j \in Insts |-> IF j = i THEN q ELSE r(j)]
    BY DEF Write
  <1> HIDE DEF todo
  <1>7. q \in Programs /\ Like(prog[i], q) /\ q.todo = todo /\ q.alone = prog[i].alone
    BY <1>2, <1>4, TodoIs DEF todo
  <1>8. \A j \in Insts : /\ r(j) \in Programs /\ Like(prog[j], r(j))
                          /\ r(j).todo = prog[j].todo /\ r(j).alone = FALSE
    BY <1>1, DisturbedIs
  <1> HIDE DEF q, r
  <1>9. prog'[i] = q /\ \A j \in Insts \ {i} : prog'[j] = r(j)
    BY <1>6
  <1>10. prog' \in [Insts -> Programs]
    BY <1>6, <1>7, <1>8
  <1>11. \A j \in Insts : Like(prog[j], prog'[j])
    BY <1>7, <1>8, <1>9
  <1>12. /\ prog'[i].todo = Tail(prog[i].todo) /\ prog'[i].alone = prog[i].alone
         /\ \A j \in Insts \ {i} : prog'[j].todo = prog[j].todo /\ prog'[j].alone = FALSE
    BY <1>7, <1>8, <1>9 DEF todo
  <1> QED BY <1>1, <1>3, <1>4, <1>5, <1>10, <1>11, <1>12

LEMMA ProgType1 ==
  ASSUME ProgType, NEW i \in Insts, NEW q \in Programs, Len(q.list) <= MaxItems,
         prog' = [prog EXCEPT ![i] = q]
  PROVE  ProgType' /\ prog'[i] = q /\ \A j \in Insts \ {i} : prog'[j] = prog[j]
  <1> HIDE DEF Programs
  <1> QED BY DEF ProgType

LEMMA StartIs ==
  ASSUME Types, NEW i \in Insts, NEW writable \in BOOLEAN, NEW work \in Works,
         Start(i, writable, work)
  PROVE  /\ ProgType' /\ prog'[i] = Started(writable, work)
         /\ \A j \in Insts \ {i} : prog'[j] = prog[j]
         /\ ini' = ini /\ asked' = asked /\ raced' = raced /\ ~prog[i].on
  <1>1. Started(writable, work) \in Programs /\ Len(Started(writable, work).list) <= MaxItems
    BY StartedType DEF Types
  <1>2. /\ prog' = [prog EXCEPT ![i] = Started(writable, work)]
        /\ ini' = ini /\ asked' = asked /\ raced' = raced /\ ~prog[i].on
    BY DEF Start, Started
  <1> QED BY <1>1, <1>2, ProgType1 DEF Types

LEMMA AddRecentIs ==
  ASSUME Types, NEW i \in Insts, NEW e \in Entries, AddRecent(i, e)
  PROVE  /\ ProgType' /\ e \in Whole /\ prog[i] \in Programs /\ prog'[i] = Adding(prog[i], e)
         /\ Added(prog[i], e, Adding(prog[i], e))
         /\ \A j \in Insts \ {i} : prog'[j] = prog[j]
         /\ ini' = ini /\ asked' = asked /\ raced' = raced
         /\ prog[i].on /\ prog[i].todo = <<>>
  <1>1. prog[i] \in Programs /\ e \in Whole
    BY TextFacts DEF Types, ProgType
  <1>2. Adding(prog[i], e) \in Programs /\ Len(Adding(prog[i], e).list) <= MaxItems
        /\ Added(prog[i], e, Adding(prog[i], e))
    BY <1>1, AddingIs DEF Types
  <1>3. /\ prog' = [prog EXCEPT ![i] = Adding(prog[i], e)]
        /\ ini' = ini /\ asked' = asked /\ raced' = raced
        /\ prog[i].on /\ prog[i].todo = <<>>
    BY DEF AddRecent, Adding, Ready
  <1> QED BY <1>1, <1>2, <1>3, ProgType1 DEF Types

LEMMA ConnectedIs ==
  ASSUME Types, NEW i \in Insts, NEW a \in Addresses, Connected(i, a)
  PROVE  /\ ProgType' /\ prog[i] \in Programs
         /\ Like(prog[i], prog'[i]) /\ prog'[i].alone = prog[i].alone
         /\ MoveToFront(a, LoadHistory, MaxHosts) \in Seq(Texts)
         /\ prog'[i].todo = SavesHistory(MoveToFront(a, LoadHistory, MaxHosts))
         /\ \A j \in Insts \ {i} : prog'[j] = prog[j]
         /\ ini' = ini /\ asked' = asked \union {a} /\ raced' = raced
         /\ prog[i].on /\ prog[i].todo = <<>>
  <1>1. prog[i] \in Programs /\ Len(prog[i].list) <= MaxItems
    BY DEF Types, ProgType
  <1> DEFINE q == Asking(prog[i], a)
  <1>2. /\ q \in Programs /\ Like(prog[i], q) /\ q.alone = prog[i].alone
        /\ MoveToFront(a, LoadHistory, MaxHosts) \in Seq(Texts)
        /\ q.todo = SavesHistory(MoveToFront(a, LoadHistory, MaxHosts))
    BY <1>1, AskingIs DEF Types
  <1>3. /\ prog' = [prog EXCEPT ![i] = q]
        /\ ini' = ini /\ asked' = asked \union {a} /\ raced' = raced
        /\ prog[i].on /\ prog[i].todo = <<>>
    BY DEF Connected, Asking, Ready
  <1> HIDE DEF q
  <1>4. Len(q.list) <= MaxItems
    BY <1>1, <1>2 DEF Like
  <1>5. ProgType' /\ prog'[i] = q /\ \A j \in Insts \ {i} : prog'[j] = prog[j]
    BY <1>2, <1>3, <1>4, ProgType1 DEF Types
  <1> QED BY <1>1, <1>2, <1>3, <1>5

\* Quit() and Kill(): the instance is gone.
LEMMA GoneIs ==
  ASSUME Types, NEW i \in Insts, prog' = [prog EXCEPT ![i] = Off]
  PROVE  ProgType' /\ prog'[i] = Off /\ \A j \in Insts \ {i} : prog'[j] = prog[j]
  <1>1. MaxItems \in Nat
    BY KeyAtSound
  <1>2. Off \in Programs /\ Len(Off.list) <= MaxItems
    BY <1>1, OffType
  <1> QED BY <1>2, ProgType1 DEF Types

LEMMA StepTypes ==
  ASSUME Types, [Next]_vars
  PROVE  Types'
  <1>0. IniType /\ ProgType /\ CountType
    BY DEF Types
  <1>1. CASE UNCHANGED vars
    BY <1>0, <1>1 DEF vars, Types, IniType, ProgType, CountType
  <1>2. ASSUME NEW i \in Insts, NEW writable \in BOOLEAN, NEW work \in Works,
               Start(i, writable, work)
        PROVE  Types'
    <2>1. ProgType' /\ ini' = ini
      BY <1>2, StartIs
    <2>2. CountType'
      BY <1>0, <1>2, BoundsAssumption DEF CountType, Start, BoundsAssumption
    <2> QED BY <1>0, <2>1, <2>2 DEF Types, IniType
  <1>3. ASSUME NEW i \in Insts, NEW e \in Entries, AddRecent(i, e)
        PROVE  Types'
    <2>1. ProgType' /\ ini' = ini
      BY <1>3, AddRecentIs
    <2>2. CountType'
      BY <1>0, <1>3, BoundsAssumption DEF CountType, AddRecent, BoundsAssumption
    <2> QED BY <1>0, <2>1, <2>2 DEF Types, IniType
  <1>4. ASSUME NEW i \in Insts, NEW a \in Addresses, Connected(i, a)
        PROVE  Types'
    <2>1. ProgType' /\ ini' = ini
      BY <1>4, ConnectedIs
    <2>2. CountType'
      BY <1>0, <1>4, BoundsAssumption DEF CountType, Connected, BoundsAssumption
    <2> QED BY <1>0, <2>1, <2>2 DEF Types, IniType
  <1>5. ASSUME NEW i \in Insts, Write(i)
        PROVE  Types'
    <2> DEFINE w == prog[i].todo[1]
    <2>1. /\ w \in Writes /\ prog[i].file \in Files
          /\ ini' = [ini EXCEPT ![prog[i].file][w.key] = w.val]
          /\ prog' \in [Insts -> Programs] /\ \A j \in Insts : Like(prog[j], prog'[j])
      BY <1>5, WriteIs
    <2> HIDE DEF w
    <2>2. w.key \in Keys \ {PlaceKey} /\ w.val \in Texts
      BY <2>1 DEF Writes
    <2>3. IniType'
      BY <1>0, <2>1, <2>2 DEF IniType
    <2>4. ProgType'
      <3>1. \A j \in Insts : prog[j] \in Programs /\ Len(prog[j].list) <= MaxItems
        BY <1>0 DEF ProgType
      <3>2. \A j \in Insts : prog'[j].list = prog[j].list
        BY <2>1 DEF Like
      <3> QED BY <2>1, <3>1, <3>2 DEF ProgType
    <2>5. CountType'
      BY <1>0, <1>5 DEF CountType, Write
    <2> QED BY <2>3, <2>4, <2>5 DEF Types
  <1>6. ASSUME NEW i \in Insts, NEW rc \in Rects, Quit(i, rc)
        PROVE  Types'
    <2>1. ProgType'
      BY <1>6, GoneIs DEF Quit
    <2>2. IniType'
      <3>1. prog[i].file \in Files /\ ini' = [ini EXCEPT ![prog[i].file][PlaceKey] = rc]
        BY <1>0, <1>6 DEF Quit, ProgType, Programs
      <3> QED BY <1>0, <3>1 DEF IniType
    <2>3. CountType'
      BY <1>0, <1>6 DEF CountType, Quit
    <2> QED BY <2>1, <2>2, <2>3 DEF Types
  <1>7. ASSUME NEW i \in Insts, Kill(i)
        PROVE  Types'
    <2>1. ProgType' /\ ini' = ini
      BY <1>7, GoneIs DEF Kill
    <2>2. CountType'
      BY <1>0, <1>7 DEF CountType, Kill
    <2> QED BY <1>0, <2>1, <2>2 DEF Types, IniType
  <1> QED BY <1>1, <1>2, <1>3, <1>4, <1>5, <1>6, <1>7 DEF Next

LEMMA InitTypes == Init => Types
  <1> SUFFICES ASSUME Init PROVE Types
    OBVIOUS
  <1>1. IniType
    BY TextFacts, KeyFacts DEF Init, IniType, Files
  <1>2. ProgType
    BY OffType, KeyAtSound DEF Init, ProgType
  <1>3. CountType
    <2>1. starts = 0 /\ adds = 0 /\ asked = {} /\ raced = FALSE
      BY DEF Init
    <2>2. 0 \in 0 .. MaxStarts /\ 0 \in 0 .. MaxAdds
      BY BoundsAssumption DEF BoundsAssumption
    <2> QED BY <2>1, <2>2 DEF CountType
  <1> QED BY <1>1, <1>2, <1>3 DEF Types

LEMMA TypesHold == Spec => []Types
  <1>1. Types /\ [Next]_vars => Types'
    BY StepTypes
  <1> QED BY <1>1, InitTypes, PTL DEF Spec

(* Whatever was written, by however many instances, killed wherever: the   *)
(* files hold values of their keys, and what an instance has loaded, and   *)
(* is about to write, are entries, no more of them than the list has room  *)
(* for (RecentFileRegistry.cpp:52 and 134, ConnectDlg.cpp:22).             *)
THEOREM ListsStayTyped == Spec => []TypeOK
  <1>1. Types => TypeOK
    <2> SUFFICES ASSUME Types PROVE TypeOK
      OBVIOUS
    <2>1. \A f \in {"exe", "user"} : /\ \A key \in Keys \ {PlaceKey} : ini[f][key] \in Texts
                                     /\ ini[f][PlaceKey] \in Rects \union {Empty}
      BY DEF Types, IniType, Files
    <2>2. ASSUME NEW i \in Insts
          PROVE  /\ prog[i].on \in BOOLEAN /\ prog[i].file \in {"exe", "user"}
                 /\ prog[i].list \in Seq([type : Texts, path : Texts, host : Texts, port : Texts])
                 /\ Len(prog[i].list) <= MaxItems
                 /\ prog[i].todo \in Seq([key : Keys \ {PlaceKey}, val : Texts])
                 /\ prog[i].win \in Rect \union {Empty} /\ prog[i].work \in Works \union {Empty}
      <3>1. prog[i] \in Programs /\ Len(prog[i].list) <= MaxItems
        BY DEF Types, ProgType
      <3>2. prog[i].list \in Seq(Entry)
        <4>1. prog[i].list \in Seq(Whole) /\ Whole \subseteq Entry
          BY <3>1, FieldTypes, TextFacts
        <4> HIDE DEF Whole, Entry
        <4> QED BY <4>1
      <3> QED BY <3>1, <3>2, FieldTypes DEF Entry, Writes, Files
    <2>3. starts \in 0 .. MaxStarts /\ adds \in 0 .. MaxAdds /\ asked \subseteq Addresses
      BY DEF Types, CountType
    <2> QED BY <2>1, <2>2, <2>3 DEF TypeOK
  <1> QED BY <1>1, TypesHold, PTL

-----------------------------------------------------------------------------
(***************************************************************************)
(* Saving.  From Add() on, and until another instance writes, the first    *)
(* keys are the list's in the file, the next ones wait, and the slots none *)
(* of whose keys is written yet are as they were when Add() was called.    *)
(***************************************************************************)
SavedTo(i, d) ==
  /\ \/ /\ Len(prog[i].todo) = 4 * MaxItems - d
        /\ \A k \in 1 .. Len(prog[i].todo) :
             prog[i].todo[k] = [key |-> KeyAt(d + k), val |-> Val(prog[i].list, KeyAt(d + k))]
     \/ /\ d = 4 * MaxItems
        /\ \A k \in 1 .. Len(prog[i].todo) : prog[i].todo[k].key \in HostKeys
  /\ \A n \in 1 .. d : ini[prog[i].file][KeyAt(n)] = Val(prog[i].list, KeyAt(n))
  /\ \A s \in Slots : d <= 4 * (s - 1) /\ SlotCounts(s) => SlotEntry(s) \in ToSet(prog[i].before)

Saving == \A i \in Insts : prog[i].saved /\ prog[i].alone => \E d \in 0 .. 4 * MaxItems : SavedTo(i, d)

LEMMA SlotSame ==
  ASSUME NEW s \in Slots, \A f \in Files : \A n \in Names : ini'[f][<<n, s>>] = ini[f][<<n, s>>]
  PROVE  (SlotCounts(s)' <=> SlotCounts(s)) /\ SlotEntry(s)' = SlotEntry(s)
  <1>1. \A n \in Names : Get(<<n, s>>)' = Get(<<n, s>>)
    BY DEF Get, Files
  <1>2. /\ Get(<<"type", s>>)' = Get(<<"type", s>>) /\ Get(<<"path", s>>)' = Get(<<"path", s>>)
        /\ Get(<<"host", s>>)' = Get(<<"host", s>>) /\ Get(<<"port", s>>)' = Get(<<"port", s>>)
    BY <1>1 DEF Names
  <1>3. SlotCounts(s)' <=> SlotCounts(s)
    BY <1>2 DEF SlotCounts
  <1>4. SlotEntry(s)' = SlotEntry(s)
    BY <1>2 DEF SlotEntry
  <1> QED BY <1>3, <1>4

\* Nothing that concerns the recent files was written.
LEMMA SavedSame ==
  ASSUME NEW i \in Insts, NEW d \in 0 .. 4 * MaxItems, SavedTo(i, d),
         \A f \in Files : \A key \in RecentKeys : ini'[f][key] = ini[f][key],
         prog[i].file \in Files, prog'[i].list = prog[i].list, prog'[i].file = prog[i].file,
         prog'[i].before = prog[i].before,
         \/ prog'[i].todo = prog[i].todo
         \/ d = 4 * MaxItems /\ \A k \in 1 .. Len(prog'[i].todo) : prog'[i].todo[k].key \in HostKeys
  PROVE  SavedTo(i, d)'
  <1>1. \A s \in Slots : (SlotCounts(s)' <=> SlotCounts(s)) /\ SlotEntry(s)' = SlotEntry(s)
    <2>1. \A s \in Slots : \A n \in Names : <<n, s>> \in RecentKeys
      BY KeyFacts DEF Names
    <2> QED BY <2>1, SlotSame
  <1>2. \A n \in 1 .. d : KeyAt(n) \in RecentKeys
    BY KeyAtSound
  <1>3. \A n \in 1 .. d : ini'[prog'[i].file][KeyAt(n)] = Val(prog'[i].list, KeyAt(n))
    BY <1>2 DEF SavedTo
  <1>4. \A s \in Slots : d <= 4 * (s - 1) /\ SlotCounts(s)' => SlotEntry(s)' \in ToSet(prog'[i].before)
    BY <1>1 DEF SavedTo
  <1>5. \/ /\ Len(prog'[i].todo) = 4 * MaxItems - d
           /\ \A k \in 1 .. Len(prog'[i].todo) :
                prog'[i].todo[k] = [key |-> KeyAt(d + k), val |-> Val(prog'[i].list, KeyAt(d + k))]
        \/ /\ d = 4 * MaxItems
           /\ \A k \in 1 .. Len(prog'[i].todo) : prog'[i].todo[k].key \in HostKeys
    <2>1. CASE prog'[i].todo = prog[i].todo
      BY <2>1 DEF SavedTo
    <2> QED BY <2>1
  <1> QED BY <1>3, <1>4, <1>5 DEF SavedTo

\* Add(): nothing is written yet.
LEMMA SavedNone ==
  ASSUME Types, NEW i \in Insts, NEW e \in Entries, AddRecent(i, e)
  PROVE  SavedTo(i, 0)'
  <1> DEFINE q == prog'[i]
  <1>1. /\ q.todo = SavesList(q.list) /\ q.before = Load /\ ini' = ini /\ q \in Programs
    <2>1. /\ ProgType' /\ q = Adding(prog[i], e) /\ Added(prog[i], e, Adding(prog[i], e))
          /\ ini' = ini
      BY AddRecentIs
    <2>2. q.todo = SavesList(q.list) /\ q.before = Load
      BY <2>1 DEF Added
    <2>3. q \in Programs
      BY <2>1 DEF ProgType
    <2> QED BY <2>1, <2>2, <2>3
  <1>2. q.list \in Seq(Entry)
    <2>1. q.list \in Seq(Whole) /\ Whole \subseteq Entry
      BY <1>1, FieldTypes, TextFacts
    <2> HIDE DEF q, Whole, Entry
    <2> QED BY <2>1
  <1> HIDE DEF q
  <1>3. MaxItems \in Nat /\ Len(q.todo) = 4 * MaxItems
    BY <1>1, <1>2, SavesListIs, KeyAtSound
  <1>4. \A k \in 1 .. Len(q.todo) : q.todo[k] = [key |-> KeyAt(k), val |-> Val(q.list, KeyAt(k))]
    BY <1>1, <1>2, <1>3, SavesListIs
  <1>5. \A s \in Slots : SlotCounts(s) => SlotEntry(s) \in ToSet(Load)
    BY LoadIs DEF Types, Used
  <1>6. \A s \in Slots : (SlotCounts(s)' <=> SlotCounts(s)) /\ SlotEntry(s)' = SlotEntry(s)
    BY <1>1, SlotSame
  <1>7. \A k \in 1 .. Len(q.todo) : 0 + k = k
    BY <1>3
  <1>8. \A k \in 1 .. Len(q.todo) : q.todo[k] = [key |-> KeyAt(0 + k), val |-> Val(q.list, KeyAt(0 + k))]
    BY <1>4, <1>7
  <1>9. Len(q.todo) = 4 * MaxItems - 0 /\ 1 .. 0 = {}
    BY <1>3
  <1> QED BY <1>1, <1>5, <1>6, <1>8, <1>9 DEF SavedTo, q

\* One more key.
LEMMA SavedMore ==
  ASSUME Types, NEW i \in Insts, NEW d \in 0 .. 4 * MaxItems, SavedTo(i, d), Write(i),
         prog[i].todo[1].key \notin HostKeys
  PROVE  d + 1 \in 0 .. 4 * MaxItems /\ SavedTo(i, d + 1)'
  <1> DEFINE todo == prog[i].todo
             rest == prog'[i].todo
             file == prog[i].file
             list == prog[i].list
  <1>1. /\ todo # <<>> /\ todo \in Seq(Writes) /\ file \in Files
        /\ ini' = [ini EXCEPT ![file][todo[1].key] = todo[1].val]
        /\ rest = Tail(todo) /\ prog'[i].file = file /\ prog'[i].list = list
        /\ prog'[i].before = prog[i].before
    BY WriteIs DEF Like
  <1>2. DOMAIN ini = Files /\ \A f \in Files : DOMAIN ini[f] = Keys
    BY DEF Types, IniType
  <1> HIDE DEF todo, rest, file, list
  <1>3. /\ Len(todo) \in Nat /\ Len(todo) > 0 /\ Len(rest) = Len(todo) - 1
        /\ \A k \in 1 .. Len(rest) : rest[k] = todo[k + 1]
    <2> HIDE DEF Writes
    <2> QED BY <1>1
  <1>4. MaxItems \in Nat
    BY KeyAtSound
  <1>5. /\ Len(todo) = 4 * MaxItems - d
        /\ \A k \in 1 .. Len(todo) :
             todo[k] = [key |-> KeyAt(d + k), val |-> Val(list, KeyAt(d + k))]
    BY <1>3 DEF SavedTo, todo, list
  <1>6. d + 1 \in 1 .. 4 * MaxItems
    BY <1>3, <1>4, <1>5
  <1>7. todo[1].key = KeyAt(d + 1) /\ todo[1].val = Val(list, KeyAt(d + 1))
    BY <1>3, <1>5
  <1>8. KeyAt(d + 1) \in RecentKeys /\ KeyAt(d + 1) \in Keys
    BY <1>6, KeyAtSound, KeyFacts
  <1>9. ASSUME NEW n \in 1 .. d + 1 PROVE ini'[file][KeyAt(n)] = Val(list, KeyAt(n))
    <2>1. CASE KeyAt(n) = KeyAt(d + 1)
      BY <1>1, <1>2, <1>7, <1>8, <2>1
    <2>2. CASE KeyAt(n) # KeyAt(d + 1)
      <3>1. n # d + 1
        BY <2>2
      <3>2. n \in 1 .. d
        BY <3>1
      <3>3. ini[file][KeyAt(n)] = Val(list, KeyAt(n))
        BY <3>2 DEF SavedTo, file, list
      <3> QED BY <1>1, <1>2, <1>7, <2>2, <3>3
    <2> QED BY <2>1, <2>2
  <1>10. ASSUME NEW s \in Slots, d + 1 <= 4 * (s - 1), SlotCounts(s)'
         PROVE  SlotEntry(s)' \in ToSet(prog[i].before)
    <2>1. KeyAt(d + 1)[2] \in Slots /\ 4 * (KeyAt(d + 1)[2] - 1) < d + 1 /\ Slots = 1 .. MaxItems
      BY <1>6, KeyAtSound
    <2>2. KeyAt(d + 1)[2] # s
      BY <1>4, <1>10, <2>1
    <2>3. \A n \in Names : <<n, s>> # KeyAt(d + 1)
      BY <2>2
    <2>4. \A f \in Files : \A n \in Names : ini'[f][<<n, s>>] = ini[f][<<n, s>>]
      BY <1>1, <1>2, <1>7, <2>3
    <2>5. SlotCounts(s) /\ SlotEntry(s)' = SlotEntry(s)
      BY <1>10, <2>4, SlotSame
    <2>6. d <= 4 * (s - 1)
      BY <1>4, <1>10, <2>1
    <2> QED BY <2>5, <2>6 DEF SavedTo
  <1>11. Len(rest) = 4 * MaxItems - (d + 1)
    BY <1>3, <1>4, <1>5
  <1>12. \A k \in 1 .. Len(rest) :
           rest[k] = [key |-> KeyAt((d + 1) + k), val |-> Val(list, KeyAt((d + 1) + k))]
    <2> SUFFICES ASSUME NEW k \in 1 .. Len(rest)
                 PROVE  rest[k] = [key |-> KeyAt((d + 1) + k), val |-> Val(list, KeyAt((d + 1) + k))]
      OBVIOUS
    <2>1. k + 1 \in 1 .. Len(todo) /\ d + (k + 1) = (d + 1) + k
      BY <1>3
    <2>2. todo[k + 1] = [key |-> KeyAt(d + (k + 1)), val |-> Val(list, KeyAt(d + (k + 1)))]
      BY <1>5, <2>1
    <2> QED BY <1>3, <2>1, <2>2
  <1>13. d + 1 \in 0 .. 4 * MaxItems
    BY <1>6
  <1>14. SavedTo(i, d + 1)'
    BY <1>1, <1>9, <1>10, <1>11, <1>12 DEF SavedTo, rest, file, list
  <1> QED BY <1>13, <1>14

\* What Add() has yet to write is not of the history.
LEMMA HostLeft ==
  ASSUME Types, NEW i \in Insts, NEW d \in 0 .. 4 * MaxItems, SavedTo(i, d),
         \/ prog[i].todo = <<>> \/ prog[i].todo[1].key \in HostKeys
  PROVE  d = 4 * MaxItems /\ \A k \in 1 .. Len(prog[i].todo) : prog[i].todo[k].key \in HostKeys
  <1> DEFINE todo == prog[i].todo
  <1>1. prog[i] \in Programs
    BY DEF Types, ProgType
  <1>2. todo \in Seq(Writes)
    BY <1>1, FieldTypes
  <1>3. MaxItems \in Nat /\ Len(todo) \in Nat
    BY <1>2, KeyAtSound
  <1>4. todo = <<>> => Len(todo) = 0
    OBVIOUS
  <1> HIDE DEF todo
  <1> SUFFICES ASSUME Len(todo) = 4 * MaxItems - d,
                      \A k \in 1 .. Len(todo) :
                        todo[k] = [key |-> KeyAt(d + k), val |-> Val(prog[i].list, KeyAt(d + k))]
               PROVE  d = 4 * MaxItems /\ Len(todo) = 0
    BY DEF SavedTo, todo
  <1>5. Len(todo) = 0
    <2> SUFFICES ASSUME Len(todo) # 0 PROVE FALSE
      OBVIOUS
    <2>1. todo[1].key \in HostKeys
      BY <1>4 DEF todo
    <2>2. 1 \in 1 .. Len(todo) /\ d + 1 \in 1 .. 4 * MaxItems
      BY <1>3
    <2>3. todo[1].key = KeyAt(d + 1)
      BY <2>2
    <2> QED BY <2>1, <2>2, <2>3, KeyAtSound, KeyFacts
  <1> QED BY <1>3, <1>5

LEMMA StepSaving ==
  ASSUME Types, Saving, [Next]_vars
  PROVE  Saving'
  <1>0. \A j \in Insts : prog[j] \in Programs /\ prog[j].file \in Files
    BY FieldTypes DEF Types, ProgType
  <1> SUFFICES ASSUME NEW j \in Insts, prog'[j].saved, prog'[j].alone
               PROVE  \E d \in 0 .. 4 * MaxItems : SavedTo(j, d)'
    BY DEF Saving
  \* Nothing that concerns the instance happened.
  <1>a. ASSUME prog'[j] = prog[j], \A f \in Files : \A key \in RecentKeys : ini'[f][key] = ini[f][key]
        PROVE  \E d \in 0 .. 4 * MaxItems : SavedTo(j, d)'
    <2>1. PICK d \in 0 .. 4 * MaxItems : SavedTo(j, d)
      BY <1>a DEF Saving
    <2>2. SavedTo(j, d)'
      BY <1>0, <1>a, <2>1, SavedSame
    <2> QED BY <2>2
  <1>1. CASE UNCHANGED vars
    BY <1>1, <1>a DEF vars
  <1>2. ASSUME NEW i \in Insts, NEW writable \in BOOLEAN, NEW work \in Works,
               Start(i, writable, work)
        PROVE  \E d \in 0 .. 4 * MaxItems : SavedTo(j, d)'
    <2>1. /\ prog'[i] = Started(writable, work) /\ \A k \in Insts \ {i} : prog'[k] = prog[k]
          /\ ini' = ini /\ Started(writable, work).saved = FALSE
      <3>1. Started(writable, work).saved = FALSE
        BY StartedType DEF Types
      <3> QED BY <1>2, <3>1, StartIs
    <2>2. j # i
      BY <2>1
    <2> QED BY <1>a, <2>1, <2>2
  <1>3. ASSUME NEW i \in Insts, NEW e \in Entries, AddRecent(i, e)
        PROVE  \E d \in 0 .. 4 * MaxItems : SavedTo(j, d)'
    <2>1. CASE j = i
      <3>1. SavedTo(j, 0)' /\ 0 \in 0 .. 4 * MaxItems
        BY <1>3, <2>1, SavedNone, KeyAtSound
      <3> QED BY <3>1
    <2>2. CASE j # i
      BY <1>3, <1>a, <2>2, AddRecentIs
    <2> QED BY <2>1, <2>2
  <1>4. ASSUME NEW i \in Insts, NEW a \in Addresses, Connected(i, a)
        PROVE  \E d \in 0 .. 4 * MaxItems : SavedTo(j, d)'
    <2>1. CASE j = i
      <3> DEFINE hist == MoveToFront(a, LoadHistory, MaxHosts)
      <3>1. /\ Like(prog[i], prog'[i]) /\ prog'[i].alone = prog[i].alone
            /\ hist \in Seq(Texts) /\ prog'[i].todo = SavesHistory(hist)
            /\ ini' = ini /\ prog[i].todo = <<>>
        BY <1>4, ConnectedIs
      <3> HIDE DEF hist
      <3>2. /\ prog'[i].list = prog[i].list /\ prog'[i].file = prog[i].file
            /\ prog'[i].before = prog[i].before /\ prog'[i].saved = prog[i].saved
        BY <3>1 DEF Like
      <3>3. PICK d \in 0 .. 4 * MaxItems : SavedTo(i, d)
        BY <2>1, <3>1, <3>2 DEF Saving
      <3>4. d = 4 * MaxItems
        BY <3>1, <3>3, HostLeft
      <3>5. \A k \in 1 .. Len(prog'[i].todo) : prog'[i].todo[k].key \in HostKeys
        <4>1. /\ Len(SavesHistory(hist)) = MaxHosts
              /\ \A k \in 1 .. MaxHosts :
                   SavesHistory(hist)[k] = [key |-> <<"addr", k>>, val |-> HostVal(hist, k)]
          BY <3>1, SavesHistoryIs
        <4>2. \A k \in 1 .. MaxHosts : SavesHistory(hist)[k].key \in HostKeys
          BY <4>1, KeyFacts
        <4> QED BY <3>1, <4>1, <4>2
      <3>6. SavedTo(i, d)'
        BY <1>0, <3>1, <3>2, <3>3, <3>4, <3>5, SavedSame
      <3> QED BY <2>1, <3>6
    <2>2. CASE j # i
      BY <1>4, <1>a, <2>2, ConnectedIs
    <2> QED BY <2>1, <2>2
  <1>5. ASSUME NEW i \in Insts, Write(i)
        PROVE  \E d \in 0 .. 4 * MaxItems : SavedTo(j, d)'
    <2> DEFINE w == prog[i].todo[1]
    <2>1. /\ prog[i].todo # <<>> /\ prog[i].todo \in Seq(Writes)
          /\ ini' = [ini EXCEPT ![prog[i].file][w.key] = w.val]
          /\ Like(prog[i], prog'[i]) /\ prog'[i].alone = prog[i].alone
          /\ prog'[i].todo = Tail(prog[i].todo)
          /\ \A k \in Insts \ {i} : prog'[k].alone = FALSE
      BY <1>5, WriteIs
    <2>2. j = i
      BY <2>1
    <2>3. /\ prog'[i].list = prog[i].list /\ prog'[i].file = prog[i].file
          /\ prog'[i].before = prog[i].before /\ prog'[i].saved = prog[i].saved
      BY <2>1 DEF Like
    <2>4. PICK d \in 0 .. 4 * MaxItems : SavedTo(i, d)
      BY <2>1, <2>2, <2>3 DEF Saving
    <2>5. CASE w.key \notin HostKeys
      <3>1. d + 1 \in 0 .. 4 * MaxItems /\ SavedTo(i, d + 1)'
        BY <1>5, <2>4, <2>5, SavedMore
      <3> QED BY <2>2, <3>1
    <2>6. CASE w.key \in HostKeys
      <3>1. d = 4 * MaxItems /\ \A k \in 1 .. Len(prog[i].todo) : prog[i].todo[k].key \in HostKeys
        BY <2>4, <2>6, HostLeft
      <3>2. \A k \in 1 .. Len(Tail(prog[i].todo)) :
              k + 1 \in 1 .. Len(prog[i].todo) /\ Tail(prog[i].todo)[k] = prog[i].todo[k + 1]
        <4> HIDE DEF Writes
        <4> QED BY <2>1
      <3>3. \A f \in Files : \A key \in RecentKeys : ini'[f][key] = ini[f][key]
        <4>1. DOMAIN ini = Files /\ \A f \in Files : DOMAIN ini[f] = Keys
          BY DEF Types, IniType
        <4>2. w.key \notin RecentKeys /\ RecentKeys \subseteq Keys
          BY <2>6, KeyFacts
        <4> HIDE DEF w
        <4> QED BY <2>1, <4>1, <4>2
      <3>4. \A k \in 1 .. Len(prog'[i].todo) : prog'[i].todo[k].key \in HostKeys
        BY <2>1, <3>1, <3>2
      <3>5. SavedTo(i, d)'
        BY <1>0, <2>3, <2>4, <3>1, <3>3, <3>4, SavedSame
      <3> QED BY <2>2, <3>5
    <2> QED BY <2>5, <2>6
  <1>6. ASSUME NEW i \in Insts, prog' = [prog EXCEPT ![i] = Off],
               \A f \in Files : \A key \in RecentKeys : ini'[f][key] = ini[f][key]
        PROVE  \E d \in 0 .. 4 * MaxItems : SavedTo(j, d)'
    <2>1. prog'[i] = Off /\ \A k \in Insts \ {i} : prog'[k] = prog[k]
      BY <1>6, GoneIs
    <2>2. Off.saved = FALSE
      BY DEF Off
    <2> QED BY <1>6, <1>a, <2>1, <2>2
  <1>7. ASSUME NEW i \in Insts, NEW rc \in Rects, Quit(i, rc)
        PROVE  \E d \in 0 .. 4 * MaxItems : SavedTo(j, d)'
    <2>1. ini' = [ini EXCEPT ![prog[i].file][PlaceKey] = rc] /\ prog' = [prog EXCEPT ![i] = Off]
      BY <1>7 DEF Quit
    <2>2. DOMAIN ini = Files /\ \A f \in Files : DOMAIN ini[f] = Keys
      BY DEF Types, IniType
    <2>3. \A f \in Files : \A key \in RecentKeys : ini'[f][key] = ini[f][key]
      BY <2>1, <2>2, KeyFacts
    <2> QED BY <1>6, <2>1, <2>3
  <1>8. ASSUME NEW i \in Insts, Kill(i)
        PROVE  \E d \in 0 .. 4 * MaxItems : SavedTo(j, d)'
    BY <1>6, <1>8 DEF Kill
  <1> QED BY <1>1, <1>2, <1>3, <1>4, <1>5, <1>7, <1>8 DEF Next

LEMMA InitSaving == Init => Saving
  BY DEF Init, Saving, Off

LEMMA SavingHolds == Spec => [](Types /\ Saving)
  <1>1. Types /\ Saving /\ [Next]_vars => (Types /\ Saving)'
    BY StepTypes, StepSaving
  <1> QED BY <1>1, InitTypes, InitSaving, PTL DEF Spec

\* A slot that reads as the entry of the list does, counts as this entry.
LEMMA SlotKept ==
  ASSUME NEW list \in Seq(Whole), NEW s \in Slots, s <= Len(list),
         \A f \in Names : list[s][f] # Empty => Get(<<f, s>>) = list[s][f]
  PROVE  SlotCounts(s) /\ SlotEntry(s) = list[s]
  <1> DEFINE e == list[s]
  <1>1. e \in Whole
    <2> HIDE DEF Whole
    <2>1. s \in 1 .. Len(list)
      BY KeyAtSound
    <2> QED BY <2>1
  <1>2. /\ e.type # Empty => Get(<<"type", s>>) = e.type
        /\ e.path # Empty => Get(<<"path", s>>) = e.path
        /\ e.host # Empty => Get(<<"host", s>>) = e.host
        /\ e.port # Empty => Get(<<"port", s>>) = e.port
    BY DEF Names
  <1> HIDE DEF e
  <1>3. Empty \notin {NoPort, "local", "remote"}
    BY TextFacts
  <1>4. ASSUME NEW p \in Texts \ {Empty}, e = LocalEntry(p)
        PROVE  SlotCounts(s) /\ SlotEntry(s) = e
    <2>1. e.type = "local" /\ e.path = p
      BY <1>4 DEF LocalEntry
    <2>2. Get(<<"type", s>>) = "local" /\ Get(<<"path", s>>) = p /\ "local" # "remote"
      BY <1>2, <1>3, <2>1
    <2> QED BY <1>3, <1>4, <2>2 DEF SlotCounts, SlotEntry
  <1>5. ASSUME NEW r \in [path : Texts \ {Empty}, host : Texts \ {Empty},
                          port : Texts \ {Empty, NoPort}], e = RemoteEntry(r)
        PROVE  SlotCounts(s) /\ SlotEntry(s) = e
    <2>1. /\ e.type = "remote" /\ e.path = r.path /\ e.host = r.host /\ e.port = r.port
          /\ r.path # Empty /\ r.host # Empty /\ r.port \notin {Empty, NoPort}
      BY <1>5 DEF RemoteEntry
    <2>2. /\ Get(<<"type", s>>) = "remote" /\ Get(<<"path", s>>) = r.path
          /\ Get(<<"host", s>>) = r.host /\ Get(<<"port", s>>) = r.port
      BY <1>2, <1>3, <2>1
    <2> QED BY <1>3, <1>5, <2>1, <2>2 DEF SlotCounts, SlotEntry, RemoteEntry
  <1>6. SlotCounts(s) /\ SlotEntry(s) = e
    BY <1>1, <1>4, <1>5 DEF Whole
  <1> QED BY <1>6 DEF e

\* Which of the two files is read.
LEMMA ReadFrom ==
  ASSUME Types, NEW i \in Insts, NEW key \in RecentKeys
  PROVE  /\ Unshadowed(i) => Get(key) = ini[prog[i].file][key]
         /\ prog[i].file = "exe" /\ ini["exe"][key] # Empty => Get(key) = ini[prog[i].file][key]
  <1>1. prog[i].file \in {"exe", "user"}
    BY FieldTypes DEF Types, ProgType, Files
  <1> QED BY <1>1 DEF Unshadowed, Elsewhere, Get

\* What a slot reads once its four keys are written.
LEMMA SlotWritten ==
  ASSUME Types, NEW i \in Insts, NEW d \in 0 .. 4 * MaxItems, SavedTo(i, d),
         NEW s \in Slots, 4 * s <= d
  PROVE  /\ Unshadowed(i) => \A f \in Names : Get(<<f, s>>) = Val(prog[i].list, <<f, s>>)
         /\ prog[i].file = "exe" => \A f \in Names : Val(prog[i].list, <<f, s>>) # Empty =>
                                      Get(<<f, s>>) = Val(prog[i].list, <<f, s>>)
  <1>1. ASSUME NEW f \in Names
        PROVE  <<f, s>> \in RecentKeys /\ ini[prog[i].file][<<f, s>>] = Val(prog[i].list, <<f, s>>)
    <2>1. PICK n \in 1 .. 4 * MaxItems : KeyAt(n) = <<f, s>> /\ n <= 4 * s
      BY KeyAtSound
    <2>2. n \in 1 .. d
      BY <2>1, KeyAtSound
    <2>3. ini[prog[i].file][KeyAt(n)] = Val(prog[i].list, KeyAt(n))
      BY <2>2 DEF SavedTo
    <2> QED BY <2>1, <2>3, KeyAtSound
  <1> QED BY <1>1, ReadFrom

\* A slot that is written counts if, and as, the list has it.
LEMMA SlotDone ==
  ASSUME Types, NEW i \in Insts, NEW d \in 0 .. 4 * MaxItems, SavedTo(i, d),
         NEW s \in Slots, 4 * s <= d
  PROVE  /\ Unshadowed(i) \/ prog[i].file = "exe" =>
              (s <= Len(prog[i].list) => SlotCounts(s) /\ SlotEntry(s) = prog[i].list[s])
         /\ Unshadowed(i) /\ SlotCounts(s) => s <= Len(prog[i].list)
  <1> DEFINE list == prog[i].list
  <1>1. list \in Seq(Whole)
    BY FieldTypes DEF Types, ProgType
  <1>2. s <= Len(list) => \A f \in Names : Val(list, <<f, s>>) = list[s][f]
    BY DEF Val
  <1>3. ~(s <= Len(list)) => Val(list, <<"type", s>>) = Empty
    BY DEF Val, NoEntry
  <1>4. /\ Unshadowed(i) => \A f \in Names : Get(<<f, s>>) = Val(list, <<f, s>>)
        /\ prog[i].file = "exe" => \A f \in Names : Val(list, <<f, s>>) # Empty =>
                                     Get(<<f, s>>) = Val(list, <<f, s>>)
    BY SlotWritten
  <1> HIDE DEF list
  <1>5. ASSUME Unshadowed(i) \/ prog[i].file = "exe", s <= Len(list)
        PROVE  SlotCounts(s) /\ SlotEntry(s) = list[s]
    <2>1. \A f \in Names : list[s][f] # Empty => Get(<<f, s>>) = list[s][f]
      BY <1>2, <1>4, <1>5
    <2> QED BY <1>1, <1>5, <2>1, SlotKept
  <1>6. ASSUME Unshadowed(i), SlotCounts(s), ~(s <= Len(list)) PROVE FALSE
    <2>1. Get(<<"type", s>>) = Empty
      BY <1>3, <1>4, <1>6 DEF Names
    <2> QED BY <1>6, <2>1 DEF SlotCounts
  <1> QED BY <1>5, <1>6 DEF list

LEMMA SavedLoads ==
  ASSUME Types, Saving
  PROVE  SavedIsLoaded
  <1> SUFFICES ASSUME NEW i \in Insts, Ready(i), prog[i].saved, prog[i].alone
               PROVE  /\ Unshadowed(i) => Load = prog[i].list
                      /\ prog[i].file = "exe" => IsPrefix(prog[i].list, Load)
    BY DEF SavedIsLoaded
  <1> DEFINE list == prog[i].list
             at == InOrder(Used)
             c == Cardinality(Used)
  <1>1. PICK d \in 0 .. 4 * MaxItems : SavedTo(i, d)
    BY DEF Saving
  <1>2. d = 4 * MaxItems
    BY <1>1, HostLeft DEF Ready
  <1>3. MaxItems \in Nat /\ Slots = 1 .. MaxItems
    BY KeyAtSound
  <1>4. list \in Seq(Whole) /\ Len(list) \in 0 .. MaxItems
    <2>1. prog[i] \in Programs /\ Len(list) <= MaxItems
      BY DEF Types, ProgType
    <2>2. list \in Seq(Whole)
      BY <2>1, FieldTypes
    <2> HIDE DEF list, Whole
    <2> QED BY <1>3, <2>1, <2>2
  <1>5. /\ Used \in SUBSET (Nat \ {0}) /\ IsFiniteSet(Used) /\ c \in 0 .. MaxItems
        /\ Load \in Seq(Whole) /\ Len(Load) = c
        /\ \A k \in 1 .. Len(Load) : Load[k] = SlotEntry(at[k])
    BY LoadIs DEF Types
  <1>6. ASSUME Unshadowed(i) \/ prog[i].file = "exe"
        PROVE  /\ 1 .. Len(list) \subseteq Used /\ Len(list) <= Len(Load)
               /\ \A k \in 1 .. Len(list) : Load[k] = list[k]
    <2>1. \A s \in 1 .. Len(list) : SlotCounts(s) /\ SlotEntry(s) = list[s] /\ s \in Slots
      BY <1>1, <1>2, <1>3, <1>4, <1>6, SlotDone
    <2>2. 1 .. Len(list) \subseteq Used
      BY <2>1 DEF Used
    <2>3. Len(list) \in Nat
      BY <1>4
    <2> HIDE DEF list, at, c
    <2>4. Len(list) <= c /\ \A k \in 1 .. Len(list) : at[k] = k
      BY <1>5, <2>2, <2>3, FirstPlaces DEF at, c
    <2> QED BY <1>4, <1>5, <2>1, <2>2, <2>4
  <1>7. ASSUME Unshadowed(i) PROVE Load = list
    <2>1. \A s \in Used : s \in Slots /\ s <= Len(list) /\ 1 <= s
      BY <1>1, <1>2, <1>3, <1>7, SlotDone DEF Used
    <2> HIDE DEF list, at, c, Whole
    <2>2. 1 .. Len(list) \subseteq Used
      BY <1>6, <1>7
    <2>3. Used = 1 .. Len(list)
      <3>1. \A s \in Used : s \in 1 .. Len(list)
        BY <1>3, <1>4, <2>1
      <3> QED BY <2>2, <3>1
    <2>4. c = Len(list)
      <3>1. \A n \in Nat : Cardinality(1 .. n) = n
        BY FS_Interval
      <3> QED BY <1>4, <2>3, <3>1 DEF c
    <2>5. Len(Load) = Len(list) /\ \A k \in 1 .. Len(list) : Load[k] = list[k]
      BY <1>5, <1>6, <1>7, <2>4
    <2> QED BY <1>4, <1>5, <2>5
  <1>8. ASSUME prog[i].file = "exe" PROVE IsPrefix(list, Load)
    <2>1. Len(list) <= Len(Load) /\ \A k \in 1 .. Len(list) : Load[k] = list[k]
      BY <1>6, <1>8
    <2> HIDE DEF list, at, c, Whole
    <2>2. SubSeq(list, 1, Len(list)) = SubSeq(Load, 1, Len(list))
      BY <1>4, <1>5, <2>1
    <2> QED BY <2>1, <2>2 DEF IsPrefix
  <1> QED BY <1>7, <1>8

LEMMA TearsOne ==
  ASSUME Types, Saving
  PROVE  CrashTearsOneSlot
  <1> SUFFICES ASSUME NEW i \in Insts, prog[i].saved, prog[i].alone, Unshadowed(i)
               PROVE  Cardinality({n \in DOMAIN Load :
                        Load[n] \notin ToSet(prog[i].before) \union ToSet(prog[i].list)}) <= 1
    BY DEF CrashTearsOneSlot
  <1> DEFINE list == prog[i].list
             Torn == {n \in DOMAIN Load : Load[n] \notin ToSet(prog[i].before) \union ToSet(list)}
             at == InOrder(Used)
             c == Cardinality(Used)
  <1>1. PICK d \in 0 .. 4 * MaxItems : SavedTo(i, d)
    BY DEF Saving
  <1>2. MaxItems \in Nat /\ Slots = 1 .. MaxItems
    BY KeyAtSound
  <1>3. list \in Seq(Whole)
    BY FieldTypes DEF Types, ProgType
  <1>4. /\ Lists(at, c, Used) /\ c \in Nat /\ Used \subseteq Nat
        /\ Load \in Seq(Whole) /\ Len(Load) = c
        /\ \A k \in 1 .. Len(Load) : at[k] \in Used /\ Load[k] = SlotEntry(at[k])
    BY LoadIs DEF Types
  <1>5. DOMAIN Load = 1 .. c
    <2> HIDE DEF at, c, Whole
    <2> QED BY <1>4
  \* Only the slot that is being written is neither.
  <1>6. ASSUME NEW n \in Torn PROVE n \in 1 .. c /\ 4 * (at[n] - 1) < d /\ d < 4 * at[n]
    <2> DEFINE s == at[n]
    <2>1. n \in 1 .. c /\ s \in Slots /\ SlotCounts(s) /\ Load[n] = SlotEntry(s)
      BY <1>4, <1>5 DEF Used
    <2>2. SlotEntry(s) \notin ToSet(prog[i].before) /\ SlotEntry(s) \notin ToSet(list)
      BY <2>1
    <2> HIDE DEF s, Torn
    <2>3. ~(d <= 4 * (s - 1))
      BY <1>1, <2>1, <2>2 DEF SavedTo
    <2>4. ~(4 * s <= d)
      <3> SUFFICES ASSUME 4 * s <= d PROVE FALSE
        OBVIOUS
      <3>1. s <= Len(list) /\ SlotEntry(s) = list[s]
        BY <1>1, <2>1, SlotDone
      <3>2. s \in DOMAIN list
        <4> HIDE DEF list, Whole
        <4> QED BY <1>2, <1>3, <2>1, <3>1
      <3>3. list[s] \in ToSet(list)
        BY <3>2 DEF ToSet
      <3> QED BY <2>2, <3>1, <3>3
    <2> QED BY <1>2, <2>1, <2>3, <2>4 DEF s
  <1> HIDE DEF list, Torn, at, c
  <1>7. ASSUME NEW m \in Torn, NEW n \in Torn PROVE m = n
    <2>1. /\ m \in 1 .. c /\ at[m] \in Nat /\ 4 * (at[m] - 1) < d /\ d < 4 * at[m]
          /\ n \in 1 .. c /\ at[n] \in Nat /\ 4 * (at[n] - 1) < d /\ d < 4 * at[n]
      BY <1>4, <1>6 DEF Lists
    <2>2. at[m] = at[n]
      BY <1>2, <2>1
    <2> QED BY <1>4, <2>1, <2>2 DEF Lists
  <1>8. Cardinality(Torn) <= 1
    <2>1. CASE Torn = {}
      BY <2>1, FS_EmptySet
    <2>2. CASE Torn # {}
      <3>1. PICK n : n \in Torn
        BY <2>2
      <3>2. Torn = {n}
        BY <1>7, <3>1
      <3>3. Cardinality({n}) = 1
        BY FS_Singleton
      <3> QED BY <3>2, <3>3
    <2> QED BY <2>1, <2>2
  <1> QED BY <1>8 DEF Torn, list

(* A kill between any two keys of a save: what is loaded next has one      *)
(* entry at most that is neither of the old list nor of the new, since     *)
(* Save() writes the keys entry after entry and nothing else of the slots  *)
(* (RecentFileRegistry.cpp:83).                                            *)
THEOREM OneEntryTorn == Spec => []CrashTearsOneSlot
  <1>1. Types /\ Saving => CrashTearsOneSlot
    BY TearsOne
  <1> QED BY <1>1, SavingHolds, PTL

-----------------------------------------------------------------------------
(***************************************************************************)
(* The newest files.  Moving an entry to the front of a list, and adding   *)
(* it to what was opened, does the same to the beginning of both.          *)
(***************************************************************************)
Distinct(s) == \A m, n \in DOMAIN s : s[m] = s[n] => m = n
Fresh(log) == {n \in DOMAIN log : \A k \in 1 .. n - 1 : log[k] # log[n]}

LEMMA FirstsIs ==
  ASSUME NEW T, NEW log \in Seq(T)
  PROVE  /\ Fresh(log) \in SUBSET Nat /\ IsFiniteSet(Fresh(log))
         /\ Lists(InOrder(Fresh(log)), Cardinality(Fresh(log)), Fresh(log))
         /\ Firsts(log) \in Seq(T) /\ Len(Firsts(log)) = Cardinality(Fresh(log))
         /\ \A k \in 1 .. Len(Firsts(log)) : Firsts(log)[k] = log[InOrder(Fresh(log))[k]]
         /\ Distinct(Firsts(log))
  <1> DEFINE P == Fresh(log)
             at == InOrder(P)
             c == Cardinality(P)
             F == Firsts(log)
  <1>1. F = Sift(log, P) /\ P \subseteq DOMAIN log
    BY DEF Firsts, Fresh
  <1> HIDE DEF P, F
  <1>2. /\ P \in SUBSET Nat /\ IsFiniteSet(P) /\ Lists(at, c, P) /\ c \in Nat
        /\ F \in Seq(T) /\ Len(F) = c
        /\ \A k \in 1 .. c : at[k] \in P /\ F[k] = log[at[k]]
    BY <1>1, SiftSound
  <1> HIDE DEF at, c
  <1>3. DOMAIN F = 1 .. c
    BY <1>2
  <1>4. ASSUME NEW m \in 1 .. c, NEW n \in 1 .. c, F[m] = F[n], m < n PROVE FALSE
    <2>1. at[m] < at[n] /\ log[at[m]] = log[at[n]] /\ at[m] \in P /\ at[n] \in P
      BY <1>2, <1>4 DEF Lists
    <2>2. at[m] \in 1 .. Len(log) /\ at[n] \in 1 .. Len(log)
      BY <1>1, <2>1
    <2>3. at[m] \in 1 .. at[n] - 1
      BY <2>1, <2>2
    <2> QED BY <2>1, <2>3 DEF P, Fresh
  <1>5. Distinct(F)
    <2>1. ASSUME NEW m \in 1 .. c, NEW n \in 1 .. c, F[m] = F[n] PROVE m = n
      BY <1>2, <1>4, <2>1
    <2> QED BY <1>3, <2>1 DEF Distinct
  <1> QED BY <1>2, <1>5 DEF P, at, c, F

LEMMA OthersIs ==
  ASSUME NEW T, NEW s \in Seq(T), NEW e
  PROVE  /\ Others(s, e) \in SUBSET Nat /\ IsFiniteSet(Others(s, e)) /\ Others(s, e) \subseteq 1 .. Len(s)
         /\ Cardinality(Others(s, e)) \in Nat
         /\ Lists(InOrder(Others(s, e)), Cardinality(Others(s, e)), Others(s, e))
         /\ Without(s, e) \in Seq(T) /\ Len(Without(s, e)) = Cardinality(Others(s, e))
         /\ \A k \in 1 .. Len(Without(s, e)) : Without(s, e)[k] = s[InOrder(Others(s, e))[k]]
  <1>1. Without(s, e) = Sift(s, Others(s, e)) /\ Others(s, e) \subseteq DOMAIN s
    BY DEF Without, Others
  <1> HIDE DEF Others
  <1> QED BY <1>1, SiftSound

\* What was opened, each once, after one more.
LEMMA FirstsAfter ==
  ASSUME NEW T, NEW log \in Seq(T), NEW e \in T
  PROVE  Firsts(<<e>> \o log) = <<e>> \o Without(Firsts(log), e)
  <1> DEFINE P == Fresh(log)
             pat == InOrder(P)
             F == Firsts(log)
             Q == Others(F, e)
             qat == InOrder(Q)
             q == Cardinality(Q)
             more == <<e>> \o log
             R == Fresh(more)
             g == [k \in 1 .. q + 1 |-> IF k = 1 THEN 1 ELSE pat[qat[k - 1]] + 1]
  <1>1. /\ P \in SUBSET Nat /\ Lists(pat, Len(F), P) /\ F \in Seq(T) /\ Len(F) \in Nat
        /\ \A k \in 1 .. Len(F) : F[k] = log[pat[k]]
    BY FirstsIs
  <1>2. /\ Lists(qat, q, Q) /\ q \in Nat /\ Q \subseteq 1 .. Len(F)
        /\ Without(F, e) \in Seq(T) /\ Len(Without(F, e)) = q
        /\ \A k \in 1 .. q : Without(F, e)[k] = F[qat[k]]
    BY <1>1, OthersIs
  <1>3. /\ more \in Seq(T) /\ Len(more) = Len(log) + 1 /\ Len(log) \in Nat
        /\ more[1] = e /\ \A n \in 1 .. Len(log) : more[n + 1] = log[n]
    OBVIOUS
  <1>4. \A n \in Q : F[n] # e
    BY DEF Others
  <1>5. \A n \in 1 .. Len(F) : F[n] # e => n \in Q
    BY <1>1 DEF Others
  <1>6. /\ \A n \in P : n \in 1 .. Len(log) /\ \A k \in 1 .. n - 1 : log[k] # log[n]
        /\ \A n \in 1 .. Len(log) : (\A k \in 1 .. n - 1 : log[k] # log[n]) => n \in P
    BY DEF Fresh
  <1>7. /\ \A n \in R : n \in 1 .. Len(more) /\ \A k \in 1 .. n - 1 : more[k] # more[n]
        /\ \A n \in 1 .. Len(more) : (\A k \in 1 .. n - 1 : more[k] # more[n]) => n \in R
    BY <1>3 DEF Fresh
  <1>8. /\ R \in SUBSET Nat /\ IsFiniteSet(R) /\ Firsts(more) \in Seq(T)
        /\ Len(Firsts(more)) = Cardinality(R)
        /\ \A k \in 1 .. Len(Firsts(more)) : Firsts(more)[k] = more[InOrder(R)[k]]
    BY <1>3, FirstsIs
  <1>9. \A k \in 2 .. q + 1 : k - 1 \in 1 .. q /\ g[k] = pat[qat[k - 1]] + 1
    BY <1>2
  <1>10. g[1] = 1 /\ 1 \in 1 .. q + 1 /\ DOMAIN g = 1 .. q + 1
    BY <1>2
  <1>11. g = [k \in 1 .. q + 1 |-> g[k]]
    OBVIOUS
  <1> HIDE DEF P, pat, F, Q, qat, q, more, R, g
  <1>12. /\ \A k \in 1 .. Len(F) : pat[k] \in P /\ pat[k] \in 1 .. Len(log)
         /\ \A k \in 1 .. q : qat[k] \in Q /\ qat[k] \in 1 .. Len(F)
    BY <1>1, <1>2, <1>6 DEF Lists
  \* A place of the longer log is the first one, or a fresh one that moved.
  <1>13. 1 \in R
    BY <1>3, <1>7
  <1>14. ASSUME NEW n \in P, log[n] # e PROVE n + 1 \in R
    <2>1. n \in 1 .. Len(log) /\ n + 1 \in 1 .. Len(more) /\ more[n + 1] = log[n]
      BY <1>3, <1>6
    <2>2. ASSUME NEW k \in 1 .. n PROVE more[k] # more[n + 1]
      <3>1. CASE k = 1
        BY <1>3, <1>14, <2>1, <3>1
      <3>2. CASE k # 1
        <4>1. k - 1 \in 1 .. n - 1 /\ k - 1 \in 1 .. Len(log) /\ (k - 1) + 1 = k
          BY <1>3, <2>1, <3>2
        <4>2. more[k] = log[k - 1] /\ log[k - 1] # log[n]
          BY <1>3, <1>6, <4>1
        <4> QED BY <2>1, <4>2
      <3> QED BY <3>1, <3>2
    <2>3. (n + 1) - 1 = n
      BY <2>1
    <2> QED BY <1>7, <2>1, <2>2, <2>3
  <1>15. ASSUME NEW n \in R, n # 1 PROVE n - 1 \in P /\ log[n - 1] # e
    <2>1. /\ n \in 1 .. Len(more) /\ n - 1 \in 1 .. Len(log) /\ (n - 1) + 1 = n
          /\ more[n] = log[n - 1]
      BY <1>3, <1>7, <1>15
    <2>2. 1 \in 1 .. n - 1
      BY <1>3, <2>1
    <2>3. log[n - 1] # e
      BY <1>3, <1>7, <2>1, <2>2
    <2>4. ASSUME NEW k \in 1 .. (n - 1) - 1 PROVE log[k] # log[n - 1]
      <3>1. k \in 1 .. Len(log) /\ k + 1 \in 1 .. n - 1
        BY <1>3, <2>1
      <3> QED BY <1>3, <1>7, <2>1, <3>1
    <2> QED BY <1>6, <2>1, <2>3, <2>4
  <1>16. Lists(g, q + 1, R)
    <2>1. ASSUME NEW k \in 1 .. q PROVE /\ pat[qat[k]] \in P /\ pat[qat[k]] \in Nat /\ log[pat[qat[k]]] # e
      BY <1>1, <1>4, <1>12
    <2>2. ASSUME NEW k \in 1 .. q + 1 PROVE g[k] \in R
      <3>1. CASE k = 1
        BY <1>10, <1>13, <3>1
      <3>2. CASE k # 1
        <4>1. k \in 2 .. q + 1
          BY <1>2, <3>2
        <4> QED BY <1>9, <1>14, <2>1, <4>1
      <3> QED BY <3>1, <3>2
    <2>3. g \in [1 .. q + 1 -> R]
      BY <1>11, <2>2
    <2>4. ASSUME NEW j \in 1 .. q + 1, NEW k \in 1 .. q + 1, j < k PROVE g[j] < g[k]
      <3>1. k \in 2 .. q + 1 /\ k - 1 \in 1 .. q /\ g[k] = pat[qat[k - 1]] + 1 /\ pat[qat[k - 1]] \in 1 .. Len(log)
        BY <1>2, <1>9, <1>12, <2>4
      <3>2. CASE j = 1
        BY <1>3, <1>10, <3>1, <3>2
      <3>3. CASE j # 1
        <4>1. j \in 2 .. q + 1 /\ j - 1 \in 1 .. q /\ g[j] = pat[qat[j - 1]] + 1 /\ j - 1 < k - 1
          BY <1>2, <1>9, <2>4, <3>3
        <4>2. qat[j - 1] < qat[k - 1]
          BY <1>2, <3>1, <4>1 DEF Lists
        <4>3. pat[qat[j - 1]] < pat[qat[k - 1]]
          BY <1>1, <1>12, <3>1, <4>1, <4>2 DEF Lists
        <4> QED BY <2>1, <3>1, <4>1, <4>3
      <3> QED BY <3>2, <3>3
    <2>5. ASSUME NEW n \in R PROVE \E k \in 1 .. q + 1 : g[k] = n
      <3>1. CASE n = 1
        BY <1>10, <3>1
      <3>2. CASE n # 1
        <4>1. n - 1 \in P /\ log[n - 1] # e /\ n \in Nat
          BY <1>8, <1>15, <3>2
        <4>2. PICK m \in 1 .. Len(F) : pat[m] = n - 1
          BY <1>1, <4>1 DEF Lists
        <4>3. m \in Q
          BY <1>1, <1>5, <4>1, <4>2
        <4>4. PICK k \in 1 .. q : qat[k] = m
          BY <1>2, <4>3 DEF Lists
        <4>5. k + 1 \in 2 .. q + 1 /\ k + 1 \in 1 .. q + 1 /\ (k + 1) - 1 = k
          BY <1>2
        <4>6. g[k + 1] = (n - 1) + 1 /\ (n - 1) + 1 = n
          BY <1>9, <4>1, <4>2, <4>4, <4>5
        <4> QED BY <4>5, <4>6
      <3> QED BY <3>1, <3>2
    <2> QED BY <2>3, <2>4, <2>5 DEF Lists
  <1>17. q + 1 = Cardinality(R) /\ InOrder(R) = g
    <2>1. q + 1 \in Nat
      BY <1>2
    <2> QED BY <1>8, <1>16, <2>1, InOrderIs
  <1>18. ASSUME NEW k \in 1 .. q + 1
         PROVE  Firsts(more)[k] = IF k = 1 THEN e ELSE Without(F, e)[k - 1]
    <2>1. Firsts(more)[k] = more[g[k]]
      BY <1>8, <1>17
    <2>2. CASE k = 1
      BY <1>3, <1>10, <2>1, <2>2
    <2>3. CASE k # 1
      <3>1. k \in 2 .. q + 1
        BY <1>2, <2>3
      <3>2. k - 1 \in 1 .. q /\ g[k] = pat[qat[k - 1]] + 1
        BY <1>9, <3>1
      <3>3. qat[k - 1] \in 1 .. Len(F) /\ pat[qat[k - 1]] \in 1 .. Len(log)
        BY <1>12, <3>2
      <3>4. more[g[k]] = log[pat[qat[k - 1]]]
        BY <1>3, <3>2, <3>3
      <3>5. Without(F, e)[k - 1] = log[pat[qat[k - 1]]]
        BY <1>1, <1>2, <3>2, <3>3
      <3> QED BY <2>1, <2>3, <3>4, <3>5
    <2> QED BY <2>2, <2>3
  <1>19. /\ <<e>> \o Without(F, e) \in Seq(T) /\ Len(<<e>> \o Without(F, e)) = q + 1
         /\ \A k \in 1 .. q + 1 :
              (<<e>> \o Without(F, e))[k] = IF k = 1 THEN e ELSE Without(F, e)[k - 1]
    BY <1>2
  <1>20. Len(Firsts(more)) = q + 1
    BY <1>8, <1>17
  <1>21. Firsts(more) = <<e>> \o Without(F, e)
    BY <1>8, <1>18, <1>19, <1>20
  <1> QED BY <1>21 DEF more, F

LEMMA InOrderAgree ==
  ASSUME NEW A \in SUBSET Nat, NEW B \in SUBSET Nat, IsFiniteSet(A), IsFiniteSet(B), A \subseteq B,
         \A x \in B, y \in A : x <= y => x \in A
  PROVE  /\ Cardinality(A) <= Cardinality(B)
         /\ \A k \in 1 .. Cardinality(A) : InOrder(A)[k] = InOrder(B)[k]
  <1> DEFINE f == InOrder(A)
             g == InOrder(B)
             m == Cardinality(A)
             n == Cardinality(B)
  <1>1. m \in Nat /\ n \in Nat /\ Lists(f, m, A) /\ Lists(g, n, B)
    BY InOrderLists
  <1> HIDE DEF f, g, m, n
  <1>2. m <= n /\ \A k \in 1 .. m : f[k] = g[k]
    BY <1>1, ListsAgree
  <1> QED BY <1>2 DEF f, g, m, n

\* Two lists that begin alike do so without an entry, and lose one place at most.
LEMMA WithoutAgree ==
  ASSUME NEW T, NEW s \in Seq(T), NEW t \in Seq(T), NEW e, NEW c \in Nat,
         c <= Len(s), c <= Len(t), \A k \in 1 .. c : s[k] = t[k], Distinct(s)
  PROVE  \E a \in Nat : /\ a <= Len(Without(s, e)) /\ a <= Len(Without(t, e))
                        /\ \A k \in 1 .. a : Without(s, e)[k] = Without(t, e)[k]
                        /\ c <= a + 1 /\ (c = Len(s) => a = Len(Without(s, e)))
  <1> DEFINE A == {n \in 1 .. c : s[n] # e}
             a == Cardinality(A)
             B == Others(s, e)
             C == Others(t, e)
  <1>1. /\ B \in SUBSET Nat /\ IsFiniteSet(B) /\ Cardinality(B) \in Nat
        /\ Len(Without(s, e)) = Cardinality(B) /\ Without(s, e) \in Seq(T)
        /\ \A k \in 1 .. Len(Without(s, e)) : Without(s, e)[k] = s[InOrder(B)[k]]
    BY OthersIs
  <1>2. /\ C \in SUBSET Nat /\ IsFiniteSet(C) /\ Cardinality(C) \in Nat
        /\ Len(Without(t, e)) = Cardinality(C) /\ Without(t, e) \in Seq(T)
        /\ \A k \in 1 .. Len(Without(t, e)) : Without(t, e)[k] = t[InOrder(C)[k]]
    BY OthersIs
  <1>3. IsFiniteSet(1 .. c) /\ Cardinality(1 .. c) = c
    BY FS_Interval
  <1>4. A \subseteq 1 .. c /\ A \in SUBSET Nat /\ IsFiniteSet(A)
    BY <1>3, FS_Subset
  <1>5. a \in Nat /\ Lists(InOrder(A), a, A)
    BY <1>4, InOrderLists
  <1>6. A \subseteq B /\ \A x \in B, y \in A : x <= y => x \in A
    BY DEF Others
  <1>7. A \subseteq C /\ \A x \in C, y \in A : x <= y => x \in A
    BY DEF Others
  <1>8. c = Len(s) => A = B
    BY DEF Others
  <1>9. ASSUME NEW m \in A PROVE s[m] = t[m]
    BY <1>4, <1>9
  <1>10. c <= a + 1
    <2>1. CASE \E p \in 1 .. c : s[p] = e
      <3>1. PICK p \in 1 .. c : s[p] = e
        BY <2>1
      <3>2. \A n \in 1 .. c : n # p => s[n] # e
        BY <3>1 DEF Distinct
      <3>3. A = (1 .. c) \ {p}
        BY <3>1, <3>2
      <3>4. a = c - 1
        BY <1>3, <3>1, <3>3, FS_RemoveElement
      <3> QED BY <3>4
    <2>2. CASE ~ \E p \in 1 .. c : s[p] = e
      <3>1. A = 1 .. c
        BY <2>2
      <3>2. a = c
        BY <1>3, <3>1
      <3> QED BY <3>2
    <2> QED BY <2>1, <2>2
  <1> HIDE DEF A, a, B, C
  <1>11. a <= Cardinality(B) /\ \A k \in 1 .. a : InOrder(A)[k] = InOrder(B)[k]
    BY <1>1, <1>4, <1>6, InOrderAgree DEF a
  <1>12. a <= Cardinality(C) /\ \A k \in 1 .. a : InOrder(A)[k] = InOrder(C)[k]
    BY <1>2, <1>4, <1>7, InOrderAgree DEF a
  <1>13. ASSUME NEW k \in 1 .. a PROVE Without(s, e)[k] = Without(t, e)[k]
    <2>1. InOrder(A)[k] \in A
      BY <1>5 DEF Lists
    <2>2. k \in 1 .. Len(Without(s, e)) /\ k \in 1 .. Len(Without(t, e))
      BY <1>1, <1>2, <1>5, <1>11, <1>12
    <2>3. Without(s, e)[k] = s[InOrder(A)[k]]
      BY <1>1, <1>11, <2>2
    <2>4. Without(t, e)[k] = t[InOrder(A)[k]]
      BY <1>2, <1>12, <2>2
    <2> QED BY <1>9, <2>1, <2>3, <2>4
  <1>14. c = Len(s) => a = Len(Without(s, e))
    BY <1>1, <1>8 DEF a
  <1> QED BY <1>1, <1>2, <1>5, <1>10, <1>11, <1>12, <1>13, <1>14

\* As much of newest as there is room for is at the top of the list.
OnTop(newest, list) ==
  \A k \in 1 .. Len(newest) : k <= MaxItems => k <= Len(list) /\ list[k] = newest[k]

LEMMA StaysOnTop ==
  ASSUME NEW T, NEW s \in Seq(T), NEW list \in Seq(T), NEW e \in T, Distinct(s),
         Len(list) <= MaxItems, OnTop(s, list)
  PROVE  OnTop(<<e>> \o Without(s, e), MoveToFront(e, list, MaxItems))
  <1> DEFINE c == IF Len(s) <= MaxItems THEN Len(s) ELSE MaxItems
             w == Without(s, e)
             v == Without(list, e)
             r == MoveToFront(e, list, MaxItems)
  <1>0. MaxItems \in Nat /\ Len(s) \in Nat /\ Len(list) \in Nat
    BY KeyAtSound
  <1>1. c \in Nat /\ c <= Len(s) /\ c <= MaxItems /\ (c = Len(s) \/ c = MaxItems)
    BY <1>0
  <1> HIDE DEF c
  <1>2. c <= Len(list) /\ \A k \in 1 .. c : s[k] = list[k]
    <2>1. \A k \in 1 .. c : k <= Len(list) /\ s[k] = list[k]
      BY <1>0, <1>1 DEF OnTop
    <2>2. c = 0 \/ c \in 1 .. c
      BY <1>1
    <2> QED BY <1>0, <2>1, <2>2
  <1>3. PICK a \in Nat : /\ a <= Len(w) /\ a <= Len(v)
                         /\ \A k \in 1 .. a : w[k] = v[k]
                         /\ c <= a + 1 /\ (c = Len(s) => a = Len(w))
    BY <1>1, <1>2, WithoutAgree
  <1>4. r \in Seq(T) /\ v \in Seq(T) /\ Moved(r, e, v, MaxItems)
    BY <1>0, MoveToFrontIs
  <1>5. w \in Seq(T)
    BY WithoutSound
  <1> HIDE DEF w, v, r
  <1>6. /\ Len(r) = IF MaxItems <= Len(v) + 1 THEN MaxItems ELSE Len(v) + 1
        /\ \A k \in 1 .. Len(r) : r[k] = IF k = 1 THEN e ELSE v[k - 1]
    BY <1>4 DEF Moved
  <1>7. /\ Len(<<e>> \o w) = Len(w) + 1 /\ Len(w) \in Nat /\ Len(v) \in Nat
        /\ \A k \in 1 .. Len(w) + 1 : (<<e>> \o w)[k] = IF k = 1 THEN e ELSE w[k - 1]
    BY <1>4, <1>5
  <1>8. ASSUME NEW k \in 1 .. Len(w) + 1, k <= MaxItems
        PROVE  k <= Len(r) /\ r[k] = (<<e>> \o w)[k]
    <2>1. CASE k = 1
      <3>1. 1 \in 1 .. Len(r)
        BY <1>0, <1>6, <1>7, <1>8, <2>1
      <3> QED BY <1>6, <1>7, <2>1, <3>1
    <2>2. CASE k # 1
      <3>1. k - 1 \in 1 .. a
        BY <1>0, <1>1, <1>3, <1>7, <1>8, <2>2
      <3>2. k \in 1 .. Len(r)
        BY <1>0, <1>3, <1>6, <1>7, <1>8, <3>1
      <3>3. r[k] = v[k - 1] /\ (<<e>> \o w)[k] = w[k - 1]
        BY <1>6, <1>7, <2>2, <3>2
      <3> QED BY <1>3, <3>1, <3>2, <3>3
    <2> QED BY <2>1, <2>2
  <1> QED BY <1>7, <1>8 DEF OnTop, w, r

NewestKept == \A i \in Insts : OnTop(Firsts(prog[i].log), prog[i].list)

LEMMA NoneNewest ==
  ASSUME NEW list
  PROVE  OnTop(Firsts(<<>>), list)
  <1>1. <<>> \in Seq(Nat)
    OBVIOUS
  <1>2. Fresh(<<>>) = {}
    BY DEF Fresh
  <1>3. Len(Firsts(<<>>)) = 0
    BY <1>1, <1>2, FirstsIs, FS_EmptySet
  <1> QED BY <1>3 DEF OnTop

LEMMA StepNewest ==
  ASSUME Types, NewestKept, [Next]_vars
  PROVE  NewestKept'
  <1>0. \A j \in Insts : prog[j] \in Programs /\ Len(prog[j].list) <= MaxItems
    BY DEF Types, ProgType
  <1> SUFFICES ASSUME NEW j \in Insts
               PROVE  OnTop(Firsts(prog'[j].log), prog'[j].list)
    BY DEF NewestKept
  <1>a. ASSUME prog'[j].log = prog[j].log, prog'[j].list = prog[j].list
        PROVE  OnTop(Firsts(prog'[j].log), prog'[j].list)
    BY <1>a DEF NewestKept
  <1>1. CASE UNCHANGED vars
    BY <1>1, <1>a DEF vars
  <1>2. ASSUME NEW i \in Insts, NEW writable \in BOOLEAN, NEW work \in Works,
               Start(i, writable, work)
        PROVE  OnTop(Firsts(prog'[j].log), prog'[j].list)
    <2>1. /\ prog'[i] = Started(writable, work) /\ \A k \in Insts \ {i} : prog'[k] = prog[k]
          /\ Started(writable, work).log = <<>>
      <3>1. Started(writable, work).log = <<>>
        BY StartedType DEF Types
      <3> QED BY <1>2, <3>1, StartIs
    <2>2. CASE j = i
      <3>1. prog'[j].log = <<>>
        BY <2>1, <2>2
      <3> QED BY <3>1, NoneNewest
    <2>3. CASE j # i
      BY <1>a, <2>1, <2>3
    <2> QED BY <2>2, <2>3
  <1>3. ASSUME NEW i \in Insts, NEW e \in Entries, AddRecent(i, e)
        PROVE  OnTop(Firsts(prog'[j].log), prog'[j].list)
    <2>1. CASE j = i
      <3> DEFINE log == prog[i].log
                 list == prog[i].list
      <3>1. e \in Whole /\ Added(prog[i], e, prog'[i])
        BY <1>3, AddRecentIs
      <3>2. prog'[i].log = <<e>> \o log /\ prog'[i].list = MoveToFront(e, list, MaxItems)
        BY <3>1 DEF Added
      <3>3. log \in Seq(Whole) /\ list \in Seq(Whole) /\ Len(list) <= MaxItems
        BY <1>0, FieldTypes
      <3>4. OnTop(Firsts(log), list)
        BY DEF NewestKept
      <3> HIDE DEF log, list, Whole
      <3>5. Firsts(log) \in Seq(Whole) /\ Distinct(Firsts(log))
        BY <3>3, FirstsIs
      <3>6. OnTop(<<e>> \o Without(Firsts(log), e), MoveToFront(e, list, MaxItems))
        BY <3>1, <3>3, <3>4, <3>5, StaysOnTop
      <3>7. Firsts(<<e>> \o log) = <<e>> \o Without(Firsts(log), e)
        BY <3>1, <3>3, FirstsAfter
      <3> QED BY <2>1, <3>2, <3>6, <3>7
    <2>2. CASE j # i
      BY <1>3, <1>a, <2>2, AddRecentIs
    <2> QED BY <2>1, <2>2
  <1>4. ASSUME NEW i \in Insts, NEW a \in Addresses, Connected(i, a)
        PROVE  OnTop(Firsts(prog'[j].log), prog'[j].list)
    <2>1. Like(prog[i], prog'[i]) /\ \A k \in Insts \ {i} : prog'[k] = prog[k]
      BY <1>4, ConnectedIs
    <2>2. prog'[i].log = prog[i].log /\ prog'[i].list = prog[i].list
      BY <2>1 DEF Like
    <2> QED BY <1>a, <2>1, <2>2
  <1>5. ASSUME NEW i \in Insts, Write(i)
        PROVE  OnTop(Firsts(prog'[j].log), prog'[j].list)
    <2>1. Like(prog[j], prog'[j])
      BY <1>5, WriteIs
    <2> QED BY <1>a, <2>1 DEF Like
  <1>6. ASSUME NEW i \in Insts, prog' = [prog EXCEPT ![i] = Off]
        PROVE  OnTop(Firsts(prog'[j].log), prog'[j].list)
    <2>1. prog'[i] = Off /\ \A k \in Insts \ {i} : prog'[k] = prog[k]
      BY <1>6, GoneIs
    <2>2. CASE j = i
      <3>1. prog'[j].log = <<>>
        BY <2>1, <2>2 DEF Off
      <3> QED BY <3>1, NoneNewest
    <2>3. CASE j # i
      BY <1>a, <2>1, <2>3
    <2> QED BY <2>2, <2>3
  <1>7. ASSUME NEW i \in Insts, NEW rc \in Rects, Quit(i, rc)
        PROVE  OnTop(Firsts(prog'[j].log), prog'[j].list)
    BY <1>6, <1>7 DEF Quit
  <1>8. ASSUME NEW i \in Insts, Kill(i)
        PROVE  OnTop(Firsts(prog'[j].log), prog'[j].list)
    BY <1>6, <1>8 DEF Kill
  <1> QED BY <1>1, <1>2, <1>3, <1>4, <1>5, <1>7, <1>8 DEF Next

LEMMA NewestTop ==
  ASSUME Types, NewestKept
  PROVE  TopIsNewest
  <1> SUFFICES ASSUME NEW i \in Insts
               PROVE  LET newest == Firsts(prog[i].log)
                      IN  IsPrefix(SubSeq(newest, 1, Min({MaxItems, Len(newest)})), prog[i].list)
    BY DEF TopIsNewest
  <1> DEFINE newest == Firsts(prog[i].log)
             list == prog[i].list
             n == Min({MaxItems, Len(newest)})
             top == SubSeq(newest, 1, n)
  <1>1. prog[i].log \in Seq(Whole) /\ list \in Seq(Whole)
    BY FieldTypes DEF Types, ProgType
  <1>2. MaxItems \in Nat /\ OnTop(newest, list)
    BY KeyAtSound DEF NewestKept
  <1> HIDE DEF list, Whole
  <1>3. newest \in Seq(Whole)
    BY <1>1, FirstsIs
  <1> HIDE DEF newest
  <1>4. n \in Nat /\ n <= MaxItems /\ n <= Len(newest)
    <2>1. \E x \in {MaxItems, Len(newest)} : \A y \in {MaxItems, Len(newest)} : x <= y
      BY <1>2, <1>3
    <2>2. n \in {MaxItems, Len(newest)} /\ n <= MaxItems /\ n <= Len(newest)
      BY <2>1 DEF Min
    <2> QED BY <1>2, <1>3, <2>2
  <1> HIDE DEF n
  <1>5. /\ top \in Seq(Whole) /\ Len(top) = n /\ \A k \in 1 .. n : top[k] = newest[k]
    BY <1>3, <1>4
  <1>6. \A k \in 1 .. n : k <= Len(list) /\ list[k] = newest[k]
    BY <1>2, <1>3, <1>4 DEF OnTop
  <1>7. n <= Len(list)
    BY <1>1, <1>4, <1>6
  <1> HIDE DEF top
  <1>8. SubSeq(top, 1, n) = SubSeq(list, 1, n)
    BY <1>1, <1>4, <1>5, <1>6, <1>7
  <1> QED BY <1>5, <1>7, <1>8 DEF IsPrefix, top, newest, n, list

(* The list of recent files is as the user made it, and loads as it was    *)
(* saved: Add() moves to the front and cuts at MAX_ITEMS whatever was      *)
(* loaded, Save() overwrites every key of every slot, also those of a      *)
(* longer list before (RecentFileRegistry.cpp:83 and 134, config.cpp:101). *)
THEOREM RecentFilesKept == Spec => []RecentKept
  <1>1. Init => NewestKept
    BY NoneNewest DEF Init, NewestKept, Off
  <1>2. Types /\ Saving /\ NewestKept /\ [Next]_vars => NewestKept'
    BY StepNewest
  <1>3. Types /\ Saving /\ NewestKept => RecentKept
    BY NewestTop, SavedLoads DEF RecentKept
  <1> QED BY <1>1, <1>2, <1>3, SavingHolds, PTL DEF Spec

-----------------------------------------------------------------------------
(***************************************************************************)
(* The addresses.  One more is put in front of the distinct ones there     *)
(* are; none is lost while there is room.                                  *)
(***************************************************************************)
LEMMA DistinctLength ==
  ASSUME NEW T, NEW s \in Seq(T), Distinct(s)
  PROVE  IsFiniteSet(ToSet(s)) /\ Cardinality(ToSet(s)) = Len(s)
  <1>1. /\ Len(s) \in Nat /\ DOMAIN s = 1 .. Len(s) /\ s \in [1 .. Len(s) -> ToSet(s)]
        /\ \A x \in ToSet(s) : \E k \in 1 .. Len(s) : s[k] = x
    BY DEF ToSet
  <1>2. IsFiniteSet(1 .. Len(s)) /\ Cardinality(1 .. Len(s)) = Len(s)
    <2>1. \A n \in Nat : IsFiniteSet(1 .. n) /\ Cardinality(1 .. n) = n
      BY FS_Interval
    <2> QED BY <1>1, <2>1
  <1>3. s \in Bijection(1 .. Len(s), ToSet(s))
    BY <1>1 DEF Distinct, Bijection, Injection, IsInjective, Surjection
  <1>4. ExistsBijection(1 .. Len(s), ToSet(s))
    BY <1>3 DEF ExistsBijection
  <1> QED BY <1>2, <1>4, FS_Bijection

LEMMA WithoutDistinct ==
  ASSUME NEW T, NEW s \in Seq(T), NEW e, Distinct(s)
  PROVE  Distinct(Without(s, e))
  <1> DEFINE w == Without(s, e)
             at == InOrder(Others(s, e))
  <1>1. /\ Others(s, e) \subseteq 1 .. Len(s) /\ Len(w) \in Nat
        /\ Lists(at, Len(w), Others(s, e)) /\ w \in Seq(T)
        /\ \A k \in 1 .. Len(w) : w[k] = s[at[k]]
    BY OthersIs
  <1> HIDE DEF w, at
  <1>2. DOMAIN w = 1 .. Len(w) /\ DOMAIN s = 1 .. Len(s)
    BY <1>1
  <1>3. ASSUME NEW m \in 1 .. Len(w), NEW n \in 1 .. Len(w), w[m] = w[n] PROVE m = n
    <2>1. at[m] \in 1 .. Len(s) /\ at[n] \in 1 .. Len(s) /\ s[at[m]] = s[at[n]]
      BY <1>1, <1>3 DEF Lists
    <2>2. at[m] = at[n]
      BY <1>2, <2>1 DEF Distinct
    <2>3. at[m] \in Int /\ at[n] \in Int
      BY <2>1
    <2> QED BY <1>1, <2>2, <2>3 DEF Lists
  <1> QED BY <1>2, <1>3 DEF Distinct, w

LEMMA InFront ==
  ASSUME NEW T, NEW s \in Seq(T), NEW a \in T, NEW max \in Nat, Distinct(s),
         Cardinality(ToSet(s) \union {a}) <= max
  PROVE  /\ MoveToFront(a, s, max) \in Seq(T) /\ Distinct(MoveToFront(a, s, max))
         /\ ToSet(MoveToFront(a, s, max)) = ToSet(s) \union {a}
         /\ Len(MoveToFront(a, s, max)) \in 1 .. max
         /\ MoveToFront(a, s, max)[1] = a
  <1> DEFINE r == MoveToFront(a, s, max)
             w == Without(s, a)
  <1>1. w \in Seq(T) /\ ToSet(w) = ToSet(s) \ {a} /\ Distinct(w)
    BY WithoutSound, WithoutDistinct
  <1>2. r \in Seq(T) /\ Moved(r, a, w, max)
    BY MoveToFrontIs
  <1>3. Len(w) < max => ToSet(r) = ToSet(s) \union {a}
    BY MoveToFrontSet
  <1> HIDE DEF r, w
  <1>4. IsFiniteSet(ToSet(w)) /\ Cardinality(ToSet(w)) = Len(w) /\ Len(w) \in Nat
    <2>1. IsFiniteSet(ToSet(w)) /\ Cardinality(ToSet(w)) = Len(w)
      BY <1>1, DistinctLength
    <2>2. Len(w) \in Nat
      BY <1>1
    <2> QED BY <2>1, <2>2
  <1>5. ToSet(s) \union {a} = ToSet(w) \union {a} /\ a \notin ToSet(w)
    BY <1>1
  <1>6. Cardinality(ToSet(w) \union {a}) = Len(w) + 1
    BY <1>4, <1>5, FS_AddElement
  <1>7. Len(w) + 1 <= max
    BY <1>5, <1>6
  <1>8. /\ Len(r) = Len(w) + 1 /\ DOMAIN r = 1 .. Len(w) + 1
        /\ \A k \in 1 .. Len(w) + 1 : r[k] = IF k = 1 THEN a ELSE w[k - 1]
    BY <1>2, <1>4, <1>7 DEF Moved
  <1>9. DOMAIN w = 1 .. Len(w)
    BY <1>1
  <1>10. \A k \in 1 .. Len(w) + 1 : k # 1 => k - 1 \in DOMAIN w /\ r[k] = w[k - 1] /\ r[k] # a
    <2> SUFFICES ASSUME NEW k \in 1 .. Len(w) + 1, k # 1
                 PROVE  k - 1 \in DOMAIN w /\ r[k] = w[k - 1] /\ r[k] # a
      OBVIOUS
    <2>1. k - 1 \in DOMAIN w /\ r[k] = w[k - 1]
      BY <1>4, <1>8, <1>9
    <2>2. w[k - 1] \in ToSet(w)
      BY <2>1 DEF ToSet
    <2> QED BY <1>5, <2>1, <2>2
  <1>11. ASSUME NEW m \in 1 .. Len(w) + 1, NEW n \in 1 .. Len(w) + 1, r[m] = r[n] PROVE m = n
    <2>1. CASE m = 1 \/ n = 1
      BY <1>8, <1>10, <1>11, <2>1
    <2>2. CASE m # 1 /\ n # 1
      <3>1. m - 1 = n - 1
        BY <1>1, <1>10, <1>11, <2>2 DEF Distinct
      <3> QED BY <1>4, <3>1
    <2> QED BY <2>1, <2>2
  <1>12. Distinct(r)
    BY <1>8, <1>11 DEF Distinct
  <1>13. r[1] = a
    BY <1>4, <1>8
  <1> QED BY <1>2, <1>3, <1>4, <1>7, <1>8, <1>12, <1>13 DEF r

-----------------------------------------------------------------------------
(***************************************************************************)
(* The first address is written first, and never as Empty: a file without  *)
(* it has no addresses at all.                                             *)
(***************************************************************************)
FirstKey == <<"addr", 1>>
Untouched(f) == \A key \in HostKeys : ini[f][key] = Empty
FirstFirst ==
  \A i \in Insts :
    /\ ~prog[i].on => prog[i].todo = <<>>
    /\ \A k \in 1 .. Len(prog[i].todo) :
         prog[i].todo[k].key \in HostKeys =>
           /\ prog[i].todo[k].key = FirstKey => prog[i].todo[k].val # Empty
           /\ ini[prog[i].file][FirstKey] # Empty \/ prog[i].todo[1].key = FirstKey

\* Where there are keys of addresses, the first is one.
LEMMA FirstIsKey ==
  ASSUME NEW key \in HostKeys
  PROVE  FirstKey \in HostKeys /\ FirstKey \in Keys /\ 1 <= MaxHosts
  <1>1. MaxHosts \in Nat
    BY BoundsAssumption DEF BoundsAssumption
  <1>2. PICK h \in 1 .. MaxHosts : key = <<"addr", h>>
    BY KeyFacts
  <1>3. 1 \in 1 .. MaxHosts
    BY <1>1, <1>2
  <1> QED BY <1>1, <1>3, KeyFacts DEF FirstKey

\* One key of a file was written.
LEMMA Wrote ==
  ASSUME Types, NEW i \in Insts, Write(i)
  PROVE  /\ prog[i].file \in Files
         /\ Len(prog[i].todo) \in Nat /\ Len(prog[i].todo) > 0
         /\ prog[i].todo[1].key \in Keys \ {PlaceKey}
         /\ \A f \in Files, key \in Keys :
              ini'[f][key] = IF f = prog[i].file /\ key = prog[i].todo[1].key
                             THEN prog[i].todo[1].val ELSE ini[f][key]
         /\ Len(prog'[i].todo) = Len(prog[i].todo) - 1
         /\ \A k \in 1 .. Len(prog'[i].todo) : /\ k + 1 \in 1 .. Len(prog[i].todo)
                                               /\ prog'[i].todo[k] = prog[i].todo[k + 1]
         /\ \A j \in Insts : prog'[j].file = prog[j].file /\ prog'[j].on = prog[j].on
         /\ \A j \in Insts \ {i} : prog'[j].todo = prog[j].todo
         /\ raced' = (raced \/ \E j \in Insts \ {i} : prog[j].todo # <<>>)
         /\ asked' = asked
  <1> DEFINE todo == prog[i].todo
             w == todo[1]
  <1>1. /\ todo # <<>> /\ todo \in Seq(Writes) /\ w \in Writes /\ prog[i].file \in Files
        /\ ini' = [ini EXCEPT ![prog[i].file][w.key] = w.val]
        /\ \A j \in Insts : Like(prog[j], prog'[j])
        /\ prog'[i].todo = Tail(todo)
        /\ \A j \in Insts \ {i} : prog'[j].todo = prog[j].todo
    BY WriteIs
  <1>2. DOMAIN ini = Files /\ \A f \in Files : DOMAIN ini[f] = Keys
    BY DEF Types, IniType
  <1>3. w.key \in Keys \ {PlaceKey}
    BY <1>1 DEF Writes
  <1> HIDE DEF todo, w
  <1>4. /\ Len(todo) \in Nat /\ Len(todo) > 0 /\ Len(Tail(todo)) = Len(todo) - 1
        /\ \A k \in 1 .. Len(Tail(todo)) : k + 1 \in 1 .. Len(todo) /\ Tail(todo)[k] = todo[k + 1]
    <2> HIDE DEF Writes
    <2> QED BY <1>1
  <1>5. \A f \in Files, key \in Keys :
          ini'[f][key] = IF f = prog[i].file /\ key = w.key THEN w.val ELSE ini[f][key]
    BY <1>1, <1>2, <1>3
  <1>6. \A j \in Insts : prog'[j].file = prog[j].file /\ prog'[j].on = prog[j].on
    BY <1>1 DEF Like
  <1>7. raced' = (raced \/ \E j \in Insts \ {i} : prog[j].todo # <<>>) /\ asked' = asked
    BY DEF Write
  <1> QED BY <1>1, <1>3, <1>4, <1>5, <1>6, <1>7 DEF todo, w

LEMMA FirstStays ==
  ASSUME Types, FirstFirst, NEW i \in Insts, Write(i), FirstKey \in HostKeys, NEW f \in Files
  PROVE  /\ ini[f][FirstKey] # Empty => ini'[f][FirstKey] # Empty
         /\ prog[i].todo[1].key = FirstKey => ini'[prog[i].file][FirstKey] # Empty
  <1>1. FirstKey \in Keys
    BY KeyFacts
  <1>2. 1 \in 1 .. Len(prog[i].todo)
    BY Wrote
  <1>3. prog[i].todo[1].key = FirstKey => prog[i].todo[1].val # Empty
    BY <1>2 DEF FirstFirst
  <1> QED BY <1>1, <1>3, Wrote

\* A file that is clean of addresses was so before.
LEMMA WasUntouched ==
  ASSUME Types, FirstFirst, NEW i \in Insts, Write(i), NEW f \in Files, Untouched(f)'
  PROVE  Untouched(f)
  <1> SUFFICES ASSUME NEW key \in HostKeys, ini[f][key] # Empty PROVE FALSE
    BY DEF Untouched
  <1> DEFINE w == prog[i].todo[1]
  <1>1. FirstKey \in HostKeys /\ FirstKey \in Keys /\ key \in Keys
    BY FirstIsKey, KeyFacts
  <1>2. ini'[f][key] = Empty /\ ini'[f][FirstKey] = Empty
    BY <1>1 DEF Untouched
  <1>3. f = prog[i].file /\ key = w.key /\ 1 \in 1 .. Len(prog[i].todo)
    BY <1>1, <1>2, Wrote
  <1>4. ini[prog[i].file][FirstKey] # Empty \/ w.key = FirstKey
    BY <1>3 DEF FirstFirst
  <1> QED BY <1>1, <1>2, <1>3, <1>4, FirstStays

LEMMA SavesNoHosts ==
  ASSUME Types, NEW i \in Insts, NEW e \in Entries, AddRecent(i, e)
  PROVE  \A k \in 1 .. Len(prog'[i].todo) : prog'[i].todo[k].key \notin HostKeys
  <1>1. prog'[i].todo = SavesList(prog'[i].list) /\ prog'[i] \in Programs
    BY AddRecentIs DEF Added, ProgType
  <1> DEFINE list == prog'[i].list
  <1>2. list \in Seq(Entry)
    <2>1. list \in Seq(Whole) /\ Whole \subseteq Entry
      BY <1>1, FieldTypes, TextFacts
    <2> HIDE DEF list, Whole, Entry
    <2> QED BY <2>1
  <1> HIDE DEF list
  <1>3. /\ Len(SavesList(list)) = 4 * MaxItems
        /\ \A n \in 1 .. 4 * MaxItems : SavesList(list)[n].key = KeyAt(n)
    <2>1. /\ Len(SavesList(list)) = 4 * MaxItems
          /\ \A n \in 1 .. 4 * MaxItems :
               SavesList(list)[n] = [key |-> KeyAt(n), val |-> Val(list, KeyAt(n))]
      BY <1>2, SavesListIs
    <2> QED BY <2>1
  <1>4. \A n \in 1 .. 4 * MaxItems : KeyAt(n) \notin HostKeys
    BY KeyAtSound, KeyFacts
  <1> QED BY <1>1, <1>3, <1>4 DEF list

LEMMA SavesHosts ==
  ASSUME Types, NEW i \in Insts, NEW a \in Addresses, Connected(i, a)
  PROVE  LET hist == MoveToFront(a, LoadHistory, MaxHosts)
         IN  /\ Len(prog'[i].todo) = MaxHosts
             /\ \A k \in 1 .. MaxHosts :
                  prog'[i].todo[k] = [key |-> <<"addr", k>>, val |-> HostVal(hist, k)]
             /\ MaxHosts # 0 => HostVal(hist, 1) = a /\ a # Empty
  <1> DEFINE hist == MoveToFront(a, LoadHistory, MaxHosts)
  <1>1. hist \in Seq(Texts) /\ prog'[i].todo = SavesHistory(hist)
    BY ConnectedIs
  <1>2. MaxHosts \in Nat /\ a # Empty /\ a \in Texts
    BY TextFacts, BoundsAssumption DEF BoundsAssumption
  <1>3. LoadHistory \in Seq(Texts \ {Empty})
    BY LoadHistoryIs DEF Types
  <1>4. LoadHistory \in Seq(Texts)
    <2> HIDE DEF Texts
    <2> QED BY <1>3
  <1>5. Moved(hist, a, Without(LoadHistory, a), MaxHosts) /\ Without(LoadHistory, a) \in Seq(Texts)
    BY <1>2, <1>4, MoveToFrontIs
  <1> HIDE DEF hist
  <1>6. MaxHosts # 0 => Len(hist) >= 1 /\ hist[1] = a
    <2>1. Len(Without(LoadHistory, a)) \in Nat
      BY <1>5
    <2> QED BY <1>2, <1>5, <2>1 DEF Moved
  <1>7. MaxHosts # 0 => HostVal(hist, 1) = a
    BY <1>6 DEF HostVal
  <1>8. /\ Len(SavesHistory(hist)) = MaxHosts
        /\ \A n \in 1 .. MaxHosts :
             SavesHistory(hist)[n] = [key |-> <<"addr", n>>, val |-> HostVal(hist, n)]
    BY <1>1, SavesHistoryIs
  <1> QED BY <1>1, <1>2, <1>6, <1>7, <1>8 DEF hist

LEMMA StepFirst ==
  ASSUME Types, FirstFirst, [Next]_vars
  PROVE  FirstFirst'
  <1> DEFINE Ordered(p, ini1) ==
        /\ ~p.on => p.todo = <<>>
        /\ \A k \in 1 .. Len(p.todo) :
             p.todo[k].key \in HostKeys =>
               /\ p.todo[k].key = FirstKey => p.todo[k].val # Empty
               /\ ini1[p.file][FirstKey] # Empty \/ p.todo[1].key = FirstKey
  <1>0. \A j \in Insts : prog[j] \in Programs /\ prog[j].file \in Files
    BY FieldTypes DEF Types, ProgType
  <1> SUFFICES ASSUME NEW j \in Insts PROVE Ordered(prog'[j], ini')
    BY DEF FirstFirst
  <1>a. Ordered(prog[j], ini)
    BY DEF FirstFirst
  <1>1. CASE UNCHANGED vars
    BY <1>1, <1>a DEF vars
  <1>2. ASSUME NEW i \in Insts, NEW writable \in BOOLEAN, NEW work \in Works,
               Start(i, writable, work)
        PROVE  Ordered(prog'[j], ini')
    <2>1. /\ prog'[i] = Started(writable, work) /\ \A k \in Insts \ {i} : prog'[k] = prog[k]
          /\ Started(writable, work).todo = <<>> /\ ini' = ini
      BY <1>2, StartIs, StartedType DEF Types
    <2> QED BY <1>a, <2>1
  <1>3. ASSUME NEW i \in Insts, NEW e \in Entries, AddRecent(i, e)
        PROVE  Ordered(prog'[j], ini')
    <2>1. /\ \A k \in Insts \ {i} : prog'[k] = prog[k]
          /\ ini' = ini /\ prog'[i].on = prog[i].on /\ prog[i].on
      BY <1>3, AddRecentIs DEF Added
    <2>2. \A k \in 1 .. Len(prog'[i].todo) : prog'[i].todo[k].key \notin HostKeys
      BY <1>3, SavesNoHosts
    <2> QED BY <1>a, <2>1, <2>2
  <1>4. ASSUME NEW i \in Insts, NEW a \in Addresses, Connected(i, a)
        PROVE  Ordered(prog'[j], ini')
    <2>1. /\ \A k \in Insts \ {i} : prog'[k] = prog[k]
          /\ ini' = ini /\ prog'[i].on = prog[i].on /\ prog[i].on
      BY <1>4, ConnectedIs DEF Like
    <2>2. CASE j = i
      <3> DEFINE hist == MoveToFront(a, LoadHistory, MaxHosts)
                 todo == prog'[i].todo
      <3>1. /\ Len(todo) = MaxHosts /\ MaxHosts \in Nat
            /\ \A k \in 1 .. MaxHosts : todo[k] = [key |-> <<"addr", k>>, val |-> HostVal(hist, k)]
            /\ MaxHosts # 0 => HostVal(hist, 1) = a /\ a # Empty
        BY <1>4, SavesHosts, BoundsAssumption DEF BoundsAssumption
      <3> HIDE DEF hist, todo
      <3>2. ASSUME NEW k \in 1 .. Len(todo)
            PROVE  /\ todo[k].key = FirstKey => todo[k].val # Empty
                   /\ todo[1].key = FirstKey
        BY <3>1 DEF FirstKey
      <3> QED BY <2>1, <2>2, <3>2 DEF todo
    <2>3. CASE j # i
      BY <1>a, <2>1, <2>3
    <2> QED BY <2>2, <2>3
  <1>5. ASSUME NEW i \in Insts, Write(i)
        PROVE  Ordered(prog'[j], ini')
    <2> DEFINE todo == prog'[j].todo
    <2>1. prog'[j].file = prog[j].file /\ prog'[j].on = prog[j].on
      BY <1>5, Wrote
    <2>2. CASE j = i
      <3>1. /\ Len(prog[i].todo) > 0 /\ Len(prog[i].todo) \in Nat
            /\ \A k \in 1 .. Len(todo) : k + 1 \in 1 .. Len(prog[i].todo) /\ todo[k] = prog[i].todo[k + 1]
        BY <1>5, <2>2, Wrote
      <3>2. prog[j].on
        <4>1. Len(<<>>) = 0
          OBVIOUS
        <4> QED BY <1>a, <2>2, <3>1, <4>1
      <3>3. ASSUME NEW k \in 1 .. Len(todo), todo[k].key \in HostKeys
            PROVE  /\ todo[k].key = FirstKey => todo[k].val # Empty
                   /\ ini'[prog'[j].file][FirstKey] # Empty
        <4>1. /\ todo[k].key = FirstKey => todo[k].val # Empty
              /\ ini[prog[j].file][FirstKey] # Empty \/ prog[j].todo[1].key = FirstKey
          BY <1>a, <2>2, <3>1, <3>3
        <4>2. FirstKey \in HostKeys
          BY <3>3, FirstIsKey
        <4>3. /\ ini[prog[j].file][FirstKey] # Empty => ini'[prog[j].file][FirstKey] # Empty
              /\ prog[j].todo[1].key = FirstKey => ini'[prog[j].file][FirstKey] # Empty
          BY <1>0, <1>5, <2>2, <4>2, FirstStays
        <4> QED BY <2>1, <4>1, <4>3
      <3> QED BY <2>1, <3>2, <3>3
    <2>3. CASE j # i
      <3>1. prog'[j].todo = prog[j].todo
        BY <1>5, <2>3, Wrote
      <3>2. ASSUME NEW k \in 1 .. Len(prog[j].todo), prog[j].todo[k].key \in HostKeys
            PROVE  ini[prog[j].file][FirstKey] # Empty => ini'[prog[j].file][FirstKey] # Empty
        BY <1>0, <1>5, <3>2, FirstIsKey, FirstStays
      <3> QED BY <1>a, <2>1, <3>1, <3>2
    <2> QED BY <2>2, <2>3
  <1>6. ASSUME NEW i \in Insts, prog' = [prog EXCEPT ![i] = Off],
               \A f \in Files : \A key \in HostKeys : ini'[f][key] = ini[f][key]
        PROVE  Ordered(prog'[j], ini')
    <2>1. prog'[i] = Off /\ \A k \in Insts \ {i} : prog'[k] = prog[k]
      BY <1>6, GoneIs
    <2>2. CASE j = i
      BY <2>1, <2>2, OffType
    <2>3. CASE j # i
      <3>1. prog'[j] = prog[j]
        BY <2>1, <2>3
      <3>2. ASSUME NEW key \in HostKeys PROVE ini'[prog[j].file][FirstKey] = ini[prog[j].file][FirstKey]
        BY <1>0, <1>6, FirstIsKey
      <3> QED BY <1>a, <3>1, <3>2
    <2> QED BY <2>2, <2>3
  <1>7. ASSUME NEW i \in Insts, NEW rc \in Rects, Quit(i, rc)
        PROVE  Ordered(prog'[j], ini')
    <2>1. ini' = [ini EXCEPT ![prog[i].file][PlaceKey] = rc] /\ prog' = [prog EXCEPT ![i] = Off]
      BY <1>7 DEF Quit
    <2>2. DOMAIN ini = Files /\ \A f \in Files : DOMAIN ini[f] = Keys
      BY DEF Types, IniType
    <2>3. \A f \in Files : \A key \in HostKeys : ini'[f][key] = ini[f][key]
      BY <2>1, <2>2, KeyFacts
    <2> QED BY <1>6, <2>1, <2>3
  <1>8. ASSUME NEW i \in Insts, Kill(i)
        PROVE  Ordered(prog'[j], ini')
    BY <1>6, <1>8 DEF Kill
  <1> QED BY <1>1, <1>2, <1>3, <1>4, <1>5, <1>7, <1>8 DEF Next

Pending(i) == prog[i].todo # <<>>
NoHosts(i) == \A k \in 1 .. Len(prog[i].todo) : prog[i].todo[k].key \notin HostKeys

\* Nobody writes addresses, and the files have those that were asked for.
Calm == (\A i \in Insts : NoHosts(i)) /\ ToSet(LoadHistory) = asked /\ Distinct(LoadHistory)

\* One instance is about to have written them.
Asked(i, hist, d) ==
  /\ Distinct(hist) /\ Len(hist) \in 1 .. MaxHosts /\ ToSet(hist) = asked
  /\ Len(prog[i].todo) = MaxHosts - d
  /\ \A k \in 1 .. Len(prog[i].todo) :
       prog[i].todo[k] = [key |-> <<"addr", d + k>>, val |-> HostVal(hist, d + k)]
  /\ \A n \in 1 .. d : ini[prog[i].file][<<"addr", n>>] = HostVal(hist, n)
Asks(i) == /\ \A j \in Insts \ {i} : ~Pending(j)
           /\ \E hist \in Seq(Texts \ {Empty}) : \E d \in 0 .. MaxHosts : Asked(i, hist, d)

\* Two instances write.
Crowd == \E i, j \in Insts : i # j /\ Pending(i) /\ Pending(j)

Simple == ~raced /\ (\E f \in Files : Untouched(f)) /\ Cardinality(asked) <= MaxHosts
History == IsFiniteSet(asked) /\ (Simple => Crowd \/ Calm \/ \E i \in Insts : Asks(i))

LEMMA TodoType ==
  ASSUME Types, NEW i \in Insts
  PROVE  /\ prog[i].todo \in Seq(Writes) /\ Len(prog[i].todo) \in Nat /\ prog[i].file \in Files
         /\ Pending(i) <=> Len(prog[i].todo) # 0
  <1>1. prog[i].todo \in Seq(Writes) /\ prog[i].file \in Files
    BY FieldTypes DEF Types, ProgType
  <1> DEFINE todo == prog[i].todo
  <1> HIDE DEF Writes, todo
  <1>2. Len(todo) \in Nat /\ (todo # <<>> <=> Len(todo) # 0)
    BY <1>1 DEF todo
  <1> QED BY <1>1, <1>2 DEF Pending, todo

\* All addresses are written: they are what the next one loads.
LEMMA AskedLoads ==
  ASSUME Types, Simple, NEW i \in Insts, NEW hist \in Seq(Texts \ {Empty}), Asked(i, hist, MaxHosts)
  PROVE  LoadHistory = hist
  <1> DEFINE file == prog[i].file
             n == Len(hist)
             c == Cardinality(Hosts)
             at == InOrder(Hosts)
  <1>1. MaxHosts \in Nat /\ n \in 1 .. MaxHosts /\ file \in {"exe", "user"}
    BY TodoType, BoundsAssumption DEF BoundsAssumption, Asked, Files
  <1>2. \A h \in 1 .. MaxHosts : ini[file][<<"addr", h>>] = HostVal(hist, h) /\ <<"addr", h>> \in HostKeys
    BY KeyFacts DEF Asked
  <1>3. \A k \in 1 .. n : hist[k] # Empty
    BY <1>1
  <1> HIDE DEF n, c, at, file
  <1>4. \A h \in 1 .. MaxHosts : HostVal(hist, h) # Empty <=> h <= n
    BY <1>1, <1>3 DEF HostVal, n
  <1>5. PICK f \in {"exe", "user"} : Untouched(f)
    BY DEF Simple, Files
  <1>6. f # file
    <2>1. 1 \in 1 .. MaxHosts /\ 1 <= n
      BY <1>1
    <2> QED BY <1>2, <1>4, <1>5, <2>1 DEF Untouched
  <1>7. \A h \in 1 .. MaxHosts : Get(<<"addr", h>>) = HostVal(hist, h)
    BY <1>1, <1>2, <1>5, <1>6 DEF Untouched, Get
  <1>8. Hosts = 1 .. n
    BY <1>1, <1>4, <1>7 DEF Hosts
  <1>9. /\ LoadHistory \in Seq(Texts \ {Empty}) /\ Len(LoadHistory) = c
        /\ \A k \in 1 .. Len(LoadHistory) : LoadHistory[k] = Get(<<"addr", at[k]>>)
    BY LoadHistoryIs DEF Types, c, at
  <1>10. c = n
    <2>1. \A m \in Nat : Cardinality(1 .. m) = m
      BY FS_Interval
    <2> QED BY <1>1, <1>8, <2>1 DEF c
  <1>11. \A k \in 1 .. n : at[k] = k
    <2>1. /\ Hosts \in SUBSET (Nat \ {0}) /\ IsFiniteSet(Hosts) /\ n \in Nat /\ 1 .. n \subseteq Hosts
      BY <1>1, <1>8, LoadHistoryIs DEF Types
    <2> QED BY <2>1, FirstPlaces DEF at
  <1>12. \A k \in 1 .. n : LoadHistory[k] = hist[k]
    <2> SUFFICES ASSUME NEW k \in 1 .. n PROVE LoadHistory[k] = hist[k]
      OBVIOUS
    <2>1. k \in 1 .. MaxHosts /\ k \in 1 .. Len(LoadHistory)
      BY <1>1, <1>9, <1>10
    <2>2. LoadHistory[k] = Get(<<"addr", k>>)
      BY <1>9, <1>11, <2>1
    <2>3. HostVal(hist, k) = hist[k]
      BY <1>1 DEF HostVal, n
    <2> QED BY <1>7, <2>1, <2>2, <2>3
  <1> HIDE DEF Texts
  <1> QED BY <1>1, <1>9, <1>10, <1>12 DEF n

LEMMA AsksCalm ==
  ASSUME Types, Simple, NEW i \in Insts, Asks(i), ~Pending(i)
  PROVE  Calm
  <1>1. PICK hist \in Seq(Texts \ {Empty}), d \in 0 .. MaxHosts : Asked(i, hist, d)
    BY DEF Asks
  <1>2. d = MaxHosts
    <2>1. Len(prog[i].todo) = 0 /\ MaxHosts \in Nat
      BY TodoType, BoundsAssumption DEF BoundsAssumption
    <2> QED BY <1>1, <2>1 DEF Asked
  <1>3. LoadHistory = hist
    BY <1>1, <1>2, AskedLoads
  <1>4. ASSUME NEW j \in Insts PROVE NoHosts(j)
    <2>1. ~Pending(j)
      BY DEF Asks
    <2>2. Len(prog[j].todo) = 0
      BY <2>1, TodoType
    <2> QED BY <2>2 DEF NoHosts
  <1> QED BY <1>1, <1>3, <1>4 DEF Calm, Asked

\* What does not touch the addresses does not change what is loaded.
LEMMA SameHistory ==
  ASSUME \A f \in Files : \A key \in HostKeys : ini'[f][key] = ini[f][key]
  PROVE  LoadHistory' = LoadHistory /\ \A f \in Files : Untouched(f)' => Untouched(f)
  <1>1. \A h \in 1 .. MaxHosts : Get(<<"addr", h>>)' = Get(<<"addr", h>>)
    BY KeyFacts DEF Get, Files
  <1> DEFINE all == [h \in 1 .. MaxHosts |-> Get(<<"addr", h>>)]
             some == {h \in 1 .. MaxHosts : Get(<<"addr", h>>) # Empty}
  <1>2. all' = all /\ some' = some
    BY <1>1
  <1>3. LoadHistory = Sift(all, some)
    BY DEF LoadHistory
  <1>4. LoadHistory' = Sift(all', some')
    BY DEF LoadHistory
  <1>5. \A f \in Files : Untouched(f)' => Untouched(f)
    BY DEF Untouched
  <1> HIDE DEF all, some
  <1> QED BY <1>2, <1>3, <1>4, <1>5

\* Adding one address: the first step of SaveHistory().
LEMMA StartsAsking ==
  ASSUME Types, IsFiniteSet(asked), Calm, NEW i \in Insts, NEW a \in Addresses, Connected(i, a),
         \A j \in Insts \ {i} : ~Pending(j), Cardinality(asked \union {a}) <= MaxHosts
  PROVE  Asks(i)'
  <1>0. PICK hist : hist = MoveToFront(a, LoadHistory, MaxHosts)
    OBVIOUS
  <1>1. /\ MaxHosts \in Nat /\ a \in Texts \ {Empty} /\ LoadHistory \in Seq(Texts \ {Empty})
        /\ Distinct(LoadHistory) /\ ToSet(LoadHistory) = asked
    BY LoadHistoryIs, TextFacts, BoundsAssumption DEF Types, BoundsAssumption, Calm
  <1>2. /\ hist \in Seq(Texts \ {Empty}) /\ Distinct(hist) /\ ToSet(hist) = asked \union {a}
        /\ Len(hist) \in 1 .. MaxHosts
    <2> DEFINE T == Texts \ {Empty}
    <2>1. LoadHistory \in Seq(T) /\ a \in T /\ Cardinality(ToSet(LoadHistory) \union {a}) <= MaxHosts
      BY <1>1
    <2> HIDE DEF T
    <2>2. /\ hist \in Seq(T) /\ Distinct(hist) /\ ToSet(hist) = ToSet(LoadHistory) \union {a}
          /\ Len(hist) \in 1 .. MaxHosts
      BY <1>0, <1>1, <2>1, InFront
    <2> QED BY <1>1, <2>2 DEF T
  <1>3. /\ Len(prog'[i].todo) = MaxHosts
        /\ \A k \in 1 .. MaxHosts :
             prog'[i].todo[k] = [key |-> <<"addr", k>>, val |-> HostVal(hist, k)]
    BY <1>0, SavesHosts
  <1>4. asked' = asked \union {a} /\ \A j \in Insts \ {i} : prog'[j] = prog[j]
    BY ConnectedIs
  <1>5. \A k \in 1 .. MaxHosts : 0 + k = k
    BY <1>1
  <1>6. Len(prog'[i].todo) = MaxHosts - 0 /\ 1 .. 0 = {} /\ 0 \in 0 .. MaxHosts
    BY <1>1, <1>3
  <1>7. \A k \in 1 .. Len(prog'[i].todo) :
          prog'[i].todo[k] = [key |-> <<"addr", 0 + k>>, val |-> HostVal(hist, 0 + k)]
    BY <1>3, <1>5
  <1>8. Asked(i, hist, 0)'
    BY <1>2, <1>4, <1>6, <1>7 DEF Asked
  <1> QED BY <1>2, <1>4, <1>6, <1>8 DEF Asks, Pending

\* One more address.
LEMMA AsksMore ==
  ASSUME Types, NEW i \in Insts, Asks(i), Write(i)
  PROVE  Asks(i)'
  <1>1. PICK hist \in Seq(Texts \ {Empty}), d \in 0 .. MaxHosts : Asked(i, hist, d)
    BY DEF Asks
  <1> DEFINE todo == prog[i].todo
             rest == prog'[i].todo
  <1>2. /\ prog[i].file \in Files /\ prog'[i].file = prog[i].file
        /\ Len(todo) \in Nat /\ Len(todo) > 0 /\ Len(rest) = Len(todo) - 1
        /\ \A k \in 1 .. Len(rest) : k + 1 \in 1 .. Len(todo) /\ rest[k] = todo[k + 1]
        /\ \A key \in Keys : ini'[prog[i].file][key] =
             IF key = todo[1].key THEN todo[1].val ELSE ini[prog[i].file][key]
        /\ \A j \in Insts \ {i} : prog'[j].todo = prog[j].todo
        /\ asked' = asked
    BY Wrote
  <1>3. MaxHosts \in Nat
    BY BoundsAssumption DEF BoundsAssumption
  <1>4. /\ Len(todo) = MaxHosts - d
        /\ \A k \in 1 .. Len(todo) :
             todo[k] = [key |-> <<"addr", d + k>>, val |-> HostVal(hist, d + k)]
        /\ \A n \in 1 .. d : ini[prog[i].file][<<"addr", n>>] = HostVal(hist, n)
    BY <1>1 DEF Asked
  <1> HIDE DEF todo, rest
  <1>5. d + 1 \in 0 .. MaxHosts /\ d + 1 \in 1 .. MaxHosts /\ Len(rest) = MaxHosts - (d + 1)
    BY <1>2, <1>3, <1>4
  <1>6. todo[1].key = <<"addr", d + 1>> /\ todo[1].val = HostVal(hist, d + 1)
    BY <1>2, <1>4
  <1>7. \A n \in 1 .. d + 1 : <<"addr", n>> \in Keys
    <2>1. \A n \in 1 .. d + 1 : n \in 1 .. MaxHosts
      BY <1>3, <1>5
    <2> QED BY <2>1, KeyFacts
  <1>8. ASSUME NEW n \in 1 .. d + 1
        PROVE  ini'[prog[i].file][<<"addr", n>>] = HostVal(hist, n)
    <2>1. CASE n = d + 1
      BY <1>2, <1>6, <1>7, <2>1
    <2>2. CASE n # d + 1
      <3>1. n \in 1 .. d /\ <<"addr", n>> # <<"addr", d + 1>>
        BY <2>2
      <3> QED BY <1>2, <1>4, <1>6, <1>7, <3>1
    <2> QED BY <2>1, <2>2
  <1>9. \A k \in 1 .. Len(rest) :
          rest[k] = [key |-> <<"addr", (d + 1) + k>>, val |-> HostVal(hist, (d + 1) + k)]
    <2> SUFFICES ASSUME NEW k \in 1 .. Len(rest)
                 PROVE  rest[k] = [key |-> <<"addr", (d + 1) + k>>, val |-> HostVal(hist, (d + 1) + k)]
      OBVIOUS
    <2>1. k + 1 \in 1 .. Len(todo) /\ rest[k] = todo[k + 1] /\ d + (k + 1) = (d + 1) + k
      BY <1>2
    <2>2. todo[k + 1] = [key |-> <<"addr", d + (k + 1)>>, val |-> HostVal(hist, d + (k + 1))]
      BY <1>4, <2>1
    <2> QED BY <2>1, <2>2
  <1>10. Asked(i, hist, d + 1)'
    BY <1>1, <1>2, <1>5, <1>8, <1>9 DEF Asked, rest
  <1>11. \A j \in Insts \ {i} : ~Pending(j)'
    BY <1>2 DEF Asks, Pending
  <1> QED BY <1>1, <1>5, <1>10, <1>11 DEF Asks

Ways == Crowd \/ Calm \/ \E i \in Insts : Asks(i)

\* An instance that was not writing does what does not touch the addresses.
LEMMA QuietStep ==
  ASSUME Types, NEW m \in Insts, ~Pending(m), \A j \in Insts \ {m} : prog'[j] = prog[j],
         \A f \in Files : \A key \in HostKeys : ini'[f][key] = ini[f][key],
         asked' = asked, NoHosts(m)',
         Crowd \/ Calm \/ \E i \in Insts : Asks(i) /\ Pending(i)
  PROVE  Ways'
  <1>1. CASE Crowd
    <2>1. PICK i \in Insts, j \in Insts : i # j /\ Pending(i) /\ Pending(j)
      BY <1>1 DEF Crowd
    <2>2. Pending(i)' /\ Pending(j)'
      BY <2>1 DEF Pending
    <2>3. Crowd'
      BY <2>1, <2>2 DEF Crowd
    <2> QED BY <2>3 DEF Ways
  <1>2. CASE Calm
    <2>1. LoadHistory' = LoadHistory
      BY SameHistory
    <2>2. \A j \in Insts : NoHosts(j)'
      BY <1>2 DEF Calm, NoHosts
    <2>3. Calm'
      BY <1>2, <2>1, <2>2 DEF Calm, Distinct
    <2> QED BY <2>3 DEF Ways
  <1>3. ASSUME NEW i \in Insts, Asks(i), Pending(i) PROVE Ways'
    <2>1. i # m /\ prog'[i] = prog[i] /\ Pending(i)'
      BY <1>3 DEF Pending
    <2>2. CASE Pending(m)'
      <3>1. Crowd'
        BY <2>1, <2>2 DEF Crowd
      <3> QED BY <3>1 DEF Ways
    <2>3. CASE ~Pending(m)'
      <3>1. PICK hist \in Seq(Texts \ {Empty}), d \in 0 .. MaxHosts : Asked(i, hist, d)
        BY <1>3 DEF Asks
      <3>2. \A j \in Insts \ {i} : ~Pending(j)'
        BY <1>3, <2>3 DEF Asks, Pending
      <3>3. \A n \in 1 .. d : <<"addr", n>> \in HostKeys
        <4>1. MaxHosts \in Nat
          BY BoundsAssumption DEF BoundsAssumption
        <4>2. \A n \in 1 .. d : n \in 1 .. MaxHosts
          BY <4>1
        <4> QED BY <4>2, KeyFacts
      <3>4. prog[i].file \in Files
        BY TodoType
      <3>5. \A n \in 1 .. d : ini'[prog'[i].file][<<"addr", n>>] = HostVal(hist, n)
        BY <2>1, <3>1, <3>3, <3>4 DEF Asked
      <3>6. Asked(i, hist, d)'
        BY <2>1, <3>1, <3>5 DEF Asked
      <3>7. Asks(i)'
        BY <3>1, <3>2, <3>6 DEF Asks
      <3> QED BY <3>7 DEF Ways
    <2> QED BY <2>2, <2>3
  <1> QED BY <1>1, <1>2, <1>3

LEMMA EmptyLength == Len(<<>>) = 0
  OBVIOUS

LEMMA NothingWaits ==
  ASSUME NEW m, prog'[m].todo = <<>>
  PROVE  NoHosts(m)'
  <1>1. Len(prog'[m].todo) = 0
    BY EmptyLength
  <1> QED BY <1>1 DEF NoHosts

\* What the steps have in common.
LEMMA StepKind ==
  ASSUME [Next]_vars
  PROVE  /\ asked' = asked \/ \E a \in Addresses : asked' = asked \union {a}
         /\ raced => raced'
         /\ \/ \E i \in Insts : Write(i)
            \/ ini' = ini
            \/ \E i \in Insts, rc \in Rects : Quit(i, rc)
  <1> DEFINE Asking1 == asked' = asked \/ \E a \in Addresses : asked' = asked \union {a}
             Racing == raced => raced'
             Writing == \/ \E i \in Insts : Write(i)
                        \/ ini' = ini
                        \/ \E i \in Insts, rc \in Rects : Quit(i, rc)
  <1>1. CASE UNCHANGED vars
    BY <1>1 DEF vars
  <1>2. ASSUME NEW i \in Insts, NEW writable \in BOOLEAN, NEW work \in Works, Start(i, writable, work)
        PROVE  Asking1 /\ Racing /\ Writing
    <2>1. asked' = asked /\ raced' = raced /\ ini' = ini
      BY <1>2 DEF Start
    <2> QED BY <2>1
  <1>3. ASSUME NEW i \in Insts, NEW e \in Entries, AddRecent(i, e)
        PROVE  Asking1 /\ Racing /\ Writing
    <2>1. asked' = asked /\ raced' = raced /\ ini' = ini
      BY <1>3 DEF AddRecent
    <2> QED BY <2>1
  <1>4. ASSUME NEW i \in Insts, NEW a \in Addresses, Connected(i, a)
        PROVE  Asking1 /\ Racing /\ Writing
    <2>1. asked' = asked \union {a} /\ raced' = raced /\ ini' = ini
      BY <1>4 DEF Connected
    <2> QED BY <2>1
  <1>5. ASSUME NEW i \in Insts, Write(i)
        PROVE  Asking1 /\ Racing /\ Writing
    <2>1. asked' = asked /\ Racing
      BY <1>5 DEF Write
    <2> QED BY <1>5, <2>1
  <1>6. ASSUME NEW i \in Insts, NEW rc \in Rects, Quit(i, rc)
        PROVE  Asking1 /\ Racing /\ Writing
    <2>1. asked' = asked /\ raced' = raced
      BY <1>6 DEF Quit
    <2> QED BY <1>6, <2>1
  <1>7. ASSUME NEW i \in Insts, Kill(i)
        PROVE  Asking1 /\ Racing /\ Writing
    <2>1. asked' = asked /\ Racing /\ ini' = ini
      BY <1>7 DEF Kill
    <2> QED BY <2>1
  <1> QED BY <1>1, <1>2, <1>3, <1>4, <1>5, <1>6, <1>7 DEF Next

LEMMA StepSimple ==
  ASSUME Types, FirstFirst, IsFiniteSet(asked), [Next]_vars
  PROVE  /\ IsFiniteSet(asked')
         /\ Simple' => Simple
  <1>1. IsFiniteSet(asked') /\ asked \subseteq asked'
    <2>1. asked' = asked \/ \E a \in Addresses : asked' = asked \union {a}
      BY StepKind
    <2> QED BY <2>1, FS_AddElement
  <1>2. Cardinality(asked') <= MaxHosts => Cardinality(asked) <= MaxHosts
    <2>1. /\ Cardinality(asked) <= Cardinality(asked') /\ Cardinality(asked) \in Nat
          /\ Cardinality(asked') \in Nat /\ MaxHosts \in Nat
      BY <1>1, FS_Subset, FS_CardinalityType, BoundsAssumption DEF BoundsAssumption
    <2> QED BY <2>1
  <1>3. raced => raced'
    BY StepKind
  <1>4. \A f \in Files : Untouched(f)' => Untouched(f)
    <2>1. CASE \E i \in Insts : Write(i)
      BY <2>1, WasUntouched
    <2>2. CASE ini' = ini
      BY <2>2 DEF Untouched
    <2>3. ASSUME NEW i \in Insts, NEW rc \in Rects, Quit(i, rc)
          PROVE  \A f \in Files : Untouched(f)' => Untouched(f)
      <3>1. \A f \in Files : \A key \in HostKeys : ini'[f][key] = ini[f][key]
        <4>1. DOMAIN ini = Files /\ \A f \in Files : DOMAIN ini[f] = Keys
          BY DEF Types, IniType
        <4> QED BY <2>3, <4>1, KeyFacts DEF Quit
      <3> QED BY <3>1, SameHistory
    <2>4. \/ \E i \in Insts : Write(i)
          \/ ini' = ini
          \/ \E i \in Insts, rc \in Rects : Quit(i, rc)
      BY StepKind
    <2> QED BY <2>1, <2>2, <2>3, <2>4
  <1> QED BY <1>1, <1>2, <1>3, <1>4 DEF Simple

LEMMA StepHistory ==
  ASSUME Types, FirstFirst, History, [Next]_vars
  PROVE  History'
  <1>0. IsFiniteSet(asked) /\ IsFiniteSet(asked') /\ (Simple' => Simple)
    BY StepSimple DEF History
  <1> SUFFICES ASSUME Simple' PROVE Ways'
    BY <1>0 DEF History, Ways
  <1>a. Crowd \/ Calm \/ \E i \in Insts : Asks(i) /\ Pending(i)
    BY <1>0, AsksCalm DEF History
  <1>b. ~raced' /\ Cardinality(asked') <= MaxHosts /\ MaxHosts \in Nat
    BY BoundsAssumption DEF Simple, BoundsAssumption
  <1>1. CASE UNCHANGED vars
    <2>1. ini' = ini /\ prog' = prog /\ asked' = asked
      BY <1>1 DEF vars
    <2>2. LoadHistory' = LoadHistory
      BY <2>1, SameHistory
    <2>3. Crowd => Crowd'
      BY <2>1 DEF Crowd, Pending
    <2>4. Calm => Calm'
      BY <2>1, <2>2 DEF Calm, NoHosts, Distinct
    <2>5. \A i \in Insts : Asks(i) => Asks(i)'
      BY <2>1 DEF Asks, Asked, Pending
    <2> QED BY <1>a, <2>3, <2>4, <2>5 DEF Ways
  <1>2. ASSUME NEW i \in Insts, NEW writable \in BOOLEAN, NEW work \in Works,
               Start(i, writable, work)
        PROVE  Ways'
    <2>1. /\ prog'[i] = Started(writable, work) /\ \A k \in Insts \ {i} : prog'[k] = prog[k]
          /\ Started(writable, work).todo = <<>> /\ ini' = ini /\ asked' = asked /\ ~prog[i].on
      BY <1>2, StartIs, StartedType DEF Types
    <2>2. ~Pending(i) /\ NoHosts(i)'
      BY <2>1, NothingWaits DEF FirstFirst, Pending
    <2> QED BY <1>a, <2>1, <2>2, QuietStep
  <1>3. ASSUME NEW i \in Insts, NEW e \in Entries, AddRecent(i, e)
        PROVE  Ways'
    <2>1. /\ \A k \in Insts \ {i} : prog'[k] = prog[k]
          /\ ini' = ini /\ asked' = asked /\ ~Pending(i)
      BY <1>3, AddRecentIs DEF Pending
    <2>2. NoHosts(i)'
      BY <1>3, SavesNoHosts DEF NoHosts
    <2> QED BY <1>a, <2>1, <2>2, QuietStep
  <1>4. ASSUME NEW i \in Insts, NEW a \in Addresses, Connected(i, a)
        PROVE  Ways'
    <2>1. /\ \A k \in Insts \ {i} : prog'[k] = prog[k]
          /\ asked' = asked \union {a} /\ ~Pending(i)
      BY <1>4, ConnectedIs DEF Pending
    <2>2. MaxHosts # 0
      <3>1. asked' # {} /\ IsFiniteSet(asked')
        BY <1>0, <2>1
      <3>2. Cardinality(asked') # 0 /\ Cardinality(asked') \in Nat
        BY <3>1, FS_EmptySet, FS_CardinalityType
      <3> QED BY <1>b, <3>2
    <2>3. Pending(i)'
      <3>1. Len(prog'[i].todo) = MaxHosts
        BY <1>4, SavesHosts
      <3> QED BY <2>2, <3>1, EmptyLength DEF Pending
    <2>4. CASE \E j \in Insts \ {i} : Pending(j)
      <3>1. PICK j \in Insts \ {i} : Pending(j)
        BY <2>4
      <3>2. Pending(j)'
        BY <2>1, <3>1 DEF Pending
      <3>3. Crowd'
        BY <2>3, <3>1, <3>2 DEF Crowd
      <3> QED BY <3>3 DEF Ways
    <2>5. CASE \A j \in Insts \ {i} : ~Pending(j)
      <3>1. Calm
        BY <1>a, <2>1, <2>5 DEF Crowd
      <3>2. Asks(i)'
        BY <1>0, <1>4, <1>b, <2>1, <2>5, <3>1, StartsAsking
      <3> QED BY <3>2 DEF Ways
    <2> QED BY <2>4, <2>5
  <1>5. ASSUME NEW i \in Insts, Write(i)
        PROVE  Ways'
    <2>1. Pending(i) /\ \A j \in Insts \ {i} : ~Pending(j)
      BY <1>5, <1>b DEF Write, Pending
    <2>2. CASE Calm
      <3>1. /\ prog[i].file \in Files /\ Len(prog[i].todo) \in Nat /\ Len(prog[i].todo) > 0
            /\ \A f \in Files, key \in Keys :
                 ini'[f][key] = IF f = prog[i].file /\ key = prog[i].todo[1].key
                                THEN prog[i].todo[1].val ELSE ini[f][key]
            /\ \A k \in 1 .. Len(prog'[i].todo) : /\ k + 1 \in 1 .. Len(prog[i].todo)
                                                  /\ prog'[i].todo[k] = prog[i].todo[k + 1]
            /\ \A j \in Insts \ {i} : prog'[j].todo = prog[j].todo
            /\ asked' = asked
        BY <1>5, Wrote
      <3>2. prog[i].todo[1].key \notin HostKeys
        BY <2>2, <3>1 DEF Calm, NoHosts
      <3>3. \A f \in Files : \A key \in HostKeys : ini'[f][key] = ini[f][key]
        BY <3>1, <3>2, KeyFacts
      <3>4. LoadHistory' = LoadHistory
        BY <3>3, SameHistory
      <3>5. ASSUME NEW j \in Insts PROVE NoHosts(j)'
        <4>1. NoHosts(j) /\ NoHosts(i)
          BY <2>2 DEF Calm
        <4>2. CASE j = i
          BY <3>1, <4>1, <4>2 DEF NoHosts
        <4>3. CASE j # i
          BY <3>1, <4>1, <4>3 DEF NoHosts
        <4> QED BY <4>2, <4>3
      <3>6. Calm'
        BY <2>2, <3>1, <3>4, <3>5 DEF Calm, Distinct
      <3> QED BY <3>6 DEF Ways
    <2>3. CASE Asks(i)
      <3>1. Asks(i)'
        BY <1>5, <2>3, AsksMore
      <3> QED BY <3>1 DEF Ways
    <2> QED BY <1>a, <2>1, <2>2, <2>3 DEF Crowd
  <1>6. ASSUME NEW i \in Insts, NEW rc \in Rects, Quit(i, rc)
        PROVE  Ways'
    <2>1. /\ ini' = [ini EXCEPT ![prog[i].file][PlaceKey] = rc] /\ prog' = [prog EXCEPT ![i] = Off]
          /\ asked' = asked /\ ~Pending(i)
      BY <1>6 DEF Quit, Ready, Pending
    <2>2. prog'[i] = Off /\ \A k \in Insts \ {i} : prog'[k] = prog[k]
      BY <2>1, GoneIs
    <2>3. DOMAIN ini = Files /\ \A f \in Files : DOMAIN ini[f] = Keys
      BY DEF Types, IniType
    <2>4. \A f \in Files : \A key \in HostKeys : ini'[f][key] = ini[f][key]
      BY <2>1, <2>3, KeyFacts
    <2>5. NoHosts(i)'
      BY <2>2, OffType, NothingWaits
    <2> QED BY <1>a, <2>1, <2>2, <2>4, <2>5, QuietStep
  <1>7. ASSUME NEW i \in Insts, Kill(i)
        PROVE  Ways'
    <2>1. /\ ini' = ini /\ prog' = [prog EXCEPT ![i] = Off]
          /\ asked' = asked /\ ~Pending(i)
      BY <1>7, <1>b DEF Kill, Pending
    <2>2. prog'[i] = Off /\ \A k \in Insts \ {i} : prog'[k] = prog[k]
      BY <2>1, GoneIs
    <2>3. NoHosts(i)'
      BY <2>2, OffType, NothingWaits
    <2> QED BY <1>a, <2>1, <2>2, <2>3, QuietStep
  <1> QED BY <1>1, <1>2, <1>3, <1>4, <1>5, <1>6, <1>7 DEF Next

LEMMA InitHistory == Init => FirstFirst /\ History
  <1> SUFFICES ASSUME Init PROVE FirstFirst /\ History
    OBVIOUS
  <1>1. \A i \in Insts : prog[i] = Off /\ Off.todo = <<>>
    BY OffType DEF Init
  <1>2. Types
    BY InitTypes
  <1>3. \A i \in Insts : prog[i].todo = <<>> /\ Len(prog[i].todo) = 0
    BY <1>1, EmptyLength
  <1>4. FirstFirst
    BY <1>3 DEF FirstFirst
  <1>5. Hosts = {}
    BY KeyFacts DEF Init, Hosts, Get
  <1>6. ToSet(LoadHistory) = {} /\ LoadHistory \in Seq(Texts \ {Empty}) /\ Len(LoadHistory) = 0
    BY <1>2, <1>5, LoadHistoryIs, FS_EmptySet DEF Types
  <1>7. Distinct(LoadHistory)
    BY <1>6 DEF Distinct
  <1>8. asked = {} /\ IsFiniteSet({})
    BY FS_EmptySet DEF Init
  <1>9. Calm
    BY <1>3, <1>6, <1>7, <1>8 DEF Calm, NoHosts
  <1> QED BY <1>4, <1>8, <1>9 DEF History

(* While one instance writes at a time, and into one file, the history     *)
(* keeps every address that was connected to, once, as long as there is    *)
(* room: SaveHistory() reads it again before it writes (ConnectDlg.cpp:51), *)
(* and writes the first key first, so that a file without it has none.     *)
THEOREM HistoryKept == Spec => []AddressesKept
  <1>1. Types /\ FirstFirst /\ History /\ [Next]_vars => (FirstFirst /\ History)'
    BY StepFirst, StepHistory
  <1>2. Types /\ FirstFirst /\ History => AddressesKept
    <2> SUFFICES ASSUME Types, History, ~raced, \A i \in Insts : prog[i].todo = <<>>,
                        Cardinality(asked) <= MaxHosts,
                        \E f \in {"exe", "user"} : \A key \in HostKeys : ini[f][key] = Empty
                 PROVE  asked \subseteq ToSet(LoadHistory)
      BY DEF AddressesKept
    <2>1. Simple
      BY DEF Simple, Untouched, Files
    <2>2. \A i \in Insts : ~Pending(i)
      BY DEF Pending
    <2>3. Calm
      BY <2>1, <2>2, AsksCalm DEF History, Crowd
    <2> QED BY <2>3 DEF Calm
  <1> QED BY <1>1, <1>2, InitHistory, TypesHold, PTL DEF Spec
=============================================================================
