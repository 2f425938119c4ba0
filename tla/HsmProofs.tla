------------------------------ MODULE HsmProofs ------------------------------
(***************************************************************************)
(* The framework's state machine (QHsm) exits and enters what it should,   *)
(* for every tree of states.                                               *)
(*                                                                         *)
(* The states above a state are a recursive function of the tree.  A tree  *)
(* gives each state a depth, by induction over the levels of its           *)
(* definition; what holds of top and of a state whose superstate it holds  *)
(* of holds of every state (TreeInduction); and so the function exists and *)
(* a chain is its state before the chain of its superstate.  Every case of *)
(* QHsm::dispatch is then one: it exits what is before the lowest state    *)
(* common to the two chains in the one, and enters what is before it in    *)
(* the other (Transition).                                                 *)
(***************************************************************************)
EXTENDS MCLibraries, SequenceTheorems, FiniteSetTheorems, WellFoundedInduction, TLAPS

-----------------------------------------------------------------------------
(* Trees.                                                                  *)

Nodes == States \cup {top}

\* A set of numbers has a least one.
LEMMA LeastNumber ==
  ASSUME NEW T \in SUBSET Nat, T # {}
  PROVE  \E x \in T : \A y \in T : x <= y
<1> DEFINE R == {ss \in Nat \X Nat : ss[1] < ss[2]}
<1>1. IsWellFoundedOn(R, Nat)
  BY NatLessThanWellFounded DEF OpToRel
<1>2. PICK x \in T : \A y \in T : <<y, x>> \notin R
  <2> HIDE DEF R
  <2> QED BY <1>1, WFMin
<1>3. ASSUME NEW y \in T, ~(x <= y) PROVE FALSE
  <2>1. <<y, x>> \in R
    BY <1>3
  <2> QED BY <1>2, <2>1
<1> QED BY <1>3

\* The numbers that have a property, as a set.
LEMMA NumbersInduction ==
  ASSUME NEW T \in SUBSET Nat, 0 \in T, \A n \in T : n + 1 \in T
  PROVE  T = Nat
<1> SUFFICES ASSUME Nat \ T # {} PROVE FALSE
  OBVIOUS
<1>1. PICK x \in Nat \ T : \A y \in Nat \ T : x <= y
  <2> DEFINE U == Nat \ T
  <2>1. U \in SUBSET Nat /\ U # {}
    OBVIOUS
  <2> HIDE DEF U
  <2>2. \E x \in U : \A y \in U : x <= y
    BY <2>1, LeastNumber
  <2> QED BY <2>2 DEF U
<1>2. x # 0 /\ x - 1 \in Nat /\ (x - 1) + 1 = x /\ ~(x <= x - 1)
  OBVIOUS
<1> QED BY <1>1, <1>2

\* The sets of states at most so deep.
Deeper(tree, f, k) == IF k = 0 THEN {top} ELSE {top} \cup {x \in States : tree[x] \in f[k - 1]}

\* The sets of the states at most so many steps below top, in any number of levels.
LEMMA DepthsExist ==
  ASSUME NEW tree
  PROVE  \A n \in Nat : \E f : f = [k \in 0..n |-> Deeper(tree, f, k)]
<1> DEFINE Is(f, n) == f = [k \in 0..n |-> Deeper(tree, f, k)]
           T == {n \in Nat : \E f : Is(f, n)}
<1>1. 0 \in T
  <2>1. Is([k \in 0..0 |-> {top}], 0)
    BY DEF Deeper
  <2> QED BY <2>1
<1>2. ASSUME NEW n \in T PROVE n + 1 \in T
  <2>1. PICK f : Is(f, n)
    OBVIOUS
  <2> DEFINE h == [k \in 0..(n + 1) |-> Deeper(tree, f, k)]
  <2>2. n \in Nat
    OBVIOUS
  <2>3. ASSUME NEW k \in 0..(n + 1) PROVE h[k] = Deeper(tree, h, k)
    <3>1. CASE k = 0
      BY <3>1 DEF Deeper
    <3>2. CASE k # 0
      <4>1. k - 1 \in 0..n /\ k - 1 \in 0..(n + 1)
        BY <2>2, <3>2
      <4>2. h[k - 1] = f[k - 1]
        <5>1. h[k - 1] = Deeper(tree, f, k - 1)
          BY <4>1
        <5>2. f[k - 1] = Deeper(tree, f, k - 1)
          BY <2>1, <4>1
        <5> QED BY <5>1, <5>2
      <4> QED BY <3>2, <4>2 DEF Deeper
    <3> QED BY <3>1, <3>2
  <2>4. Is(h, n + 1)
    BY <2>3
  <2> HIDE DEF h, Is
  <2> QED BY <2>2, <2>4
<1> HIDE DEF Is
<1>3. T \in SUBSET Nat
  OBVIOUS
<1> HIDE DEF T
<1>4. T = Nat
  BY <1>1, <1>2, <1>3, NumbersInduction
<1> QED BY <1>4 DEF T, Is

\* Every state of a tree has a depth, and its superstate a lesser one.
LEMMA TreeDepths ==
  ASSUME LibrariesAssumption, NEW tree \in Hsm!Trees
  PROVE  \E N \in Nat, d \in [Nodes -> Nat] :
           (\A x \in Nodes : d[x] <= N) /\ (\A x \in States : d[tree[x]] < d[x])
<1> DEFINE N == Cardinality(States)
<1>1. N \in Nat /\ top \notin States
  <2>1. IsFiniteSet(States)
    BY DEF LibrariesAssumption, Hsm!HsmAssumption, Hsm!IsFiniteSet, IsFiniteSet
  <2> QED BY <2>1, FS_CardinalityType DEF LibrariesAssumption, Hsm!HsmAssumption
<1>2. Hsm!Cardinality(States) = N
  BY DEF Hsm!Cardinality, Cardinality
<1>3. tree \in [States -> Nodes]
  BY DEF Hsm!Trees, Nodes
<1> HIDE DEF N
<1>4. PICK f : f = [k \in 0..N |-> Deeper(tree, f, k)]
  BY <1>1, DepthsExist
<1>5. \E g : g = [k \in 0..N |-> Deeper(tree, g, k)] /\ g[N] = Nodes
  <2> DEFINE g == CHOOSE g : g = [k \in 0..N |-> Deeper(tree, g, k)]
  <2>1. g = [k \in 0..N |-> Deeper(tree, g, k)]
    BY <1>4
  <2>2. g[N] = Nodes
    BY <1>2 DEF Hsm!Trees, Deeper, Nodes
  <2> QED BY <2>1, <2>2
<1>6. PICK g : g = [k \in 0..N |-> Deeper(tree, g, k)] /\ g[N] = Nodes
  BY <1>5
<1>7. \A k \in 0..N : g[k] = Deeper(tree, g, k)
  BY <1>6
<1> DEFINE Depth(x) == CHOOSE k \in 0..N : x \in g[k] /\ \A j \in 0..N : x \in g[j] => k <= j
           d == [x \in Nodes |-> Depth(x)]
<1>8. ASSUME NEW x \in Nodes
      PROVE  Depth(x) \in 0..N /\ x \in g[Depth(x)] /\ \A j \in 0..N : x \in g[j] => Depth(x) <= j
  <2> DEFINE T == {k \in 0..N : x \in g[k]}
  <2>1. T \in SUBSET Nat /\ N \in T
    BY <1>1, <1>6
  <2>2. \E k \in T : \A j \in T : k <= j
    <3> HIDE DEF T
    <3> QED BY <2>1, LeastNumber
  <2>3. \E k \in 0..N : x \in g[k] /\ \A j \in 0..N : x \in g[j] => k <= j
    BY <2>2
  <2> QED BY <2>3
<1> HIDE DEF Depth
<1>9. d \in [Nodes -> Nat] /\ \A x \in Nodes : d[x] <= N
  BY <1>1, <1>8
<1>10. ASSUME NEW x \in States PROVE d[tree[x]] < d[x]
  <2>1. x \in Nodes /\ x # top /\ tree[x] \in Nodes
    BY <1>1, <1>3 DEF Nodes
  <2>2. d[x] = Depth(x) /\ d[tree[x]] = Depth(tree[x])
    BY <2>1
  <2>3. x \in Deeper(tree, g, Depth(x)) /\ Depth(x) \in 0..N
    BY <1>7, <1>8, <2>1
  <2>4. Depth(x) # 0 /\ tree[x] \in g[Depth(x) - 1]
    BY <2>1, <2>3 DEF Deeper
  <2>5. Depth(x) - 1 \in 0..N
    BY <1>1, <2>3, <2>4
  <2>6. Depth(tree[x]) <= Depth(x) - 1 /\ Depth(tree[x]) \in 0..N
    BY <1>8, <2>1, <2>4, <2>5
  <2> QED BY <1>1, <2>2, <2>3, <2>6
<1> HIDE DEF d
<1> QED BY <1>1, <1>9, <1>10

\* What holds of top, and of every state of whose superstate it holds, holds of all.
LEMMA TreeInduction ==
  ASSUME LibrariesAssumption, NEW tree \in Hsm!Trees,
         NEW T, top \in T, \A x \in States : tree[x] \in T => x \in T
  PROVE  Nodes \subseteq T
<1>1. PICK N \in Nat, d \in [Nodes -> Nat] :
        (\A x \in Nodes : d[x] <= N) /\ (\A x \in States : d[tree[x]] < d[x])
  BY TreeDepths
<1>2. tree \in [States -> Nodes]
  BY DEF Hsm!Trees, Nodes
<1> SUFFICES ASSUME NEW y \in Nodes, y \notin T PROVE FALSE
  OBVIOUS
<1> DEFINE D == {d[x] : x \in Nodes \ T}
<1>3. D \in SUBSET Nat /\ D # {}
  OBVIOUS
<1>4. PICK k \in D : \A j \in D : k <= j
  <2> HIDE DEF D
  <2> QED BY <1>3, LeastNumber
<1>5. PICK x \in Nodes \ T : k = d[x]
  BY <1>4
<1>6. x \in States /\ tree[x] \in Nodes /\ tree[x] \notin T
  BY <1>2 DEF Nodes
<1>7. d[tree[x]] \in D /\ d[tree[x]] < d[x] /\ d[x] \in Nat /\ d[tree[x]] \in Nat
  BY <1>1, <1>6
<1> QED BY <1>4, <1>5, <1>7

\* The chain of a state, from those of the others.
Linked(tree, c, x) == IF x = top THEN <<top>> ELSE <<x>> \o c[tree[x]]

\* The chains are a function, although they are defined by themselves.
LEMMA ChainExists ==
  ASSUME LibrariesAssumption, NEW tree \in Hsm!Trees
  PROVE  \E c : c = [x \in Nodes |-> Linked(tree, c, x)]
<1>1. PICK N \in Nat, d \in [Nodes -> Nat] :
        (\A x \in Nodes : d[x] <= N) /\ (\A x \in States : d[tree[x]] < d[x])
  BY TreeDepths
<1>2. tree \in [States -> Nodes]
  BY DEF Hsm!Trees, Nodes
<1> DEFINE Low(n) == {x \in Nodes : d[x] < n}
           Is(c, n) == c = [x \in Low(n) |-> Linked(tree, c, x)]
           T == {n \in Nat : \E c : Is(c, n)}
<1>3. 0 \in T
  <2>1. Low(0) = {}
    OBVIOUS
  <2>2. Is([x \in Low(0) |-> <<>>], 0)
    BY <2>1
  <2> HIDE DEF Is
  <2> QED BY <2>2
<1>4. ASSUME NEW n \in T PROVE n + 1 \in T
  <2>1. PICK c : Is(c, n)
    OBVIOUS
  <2> DEFINE b == [x \in Low(n + 1) |-> Linked(tree, c, x)]
  <2>2. n \in Nat
    OBVIOUS
  <2>3. ASSUME NEW x \in Low(n + 1) PROVE b[x] = Linked(tree, b, x)
    <3>1. CASE x = top
      BY <3>1 DEF Linked
    <3>2. CASE x # top
      <4>1. x \in States /\ tree[x] \in Low(n) /\ tree[x] \in Low(n + 1)
        <5>1. x \in States /\ tree[x] \in Nodes
          BY <1>2, <3>2 DEF Nodes
        <5>2. d[tree[x]] < d[x] /\ d[x] < n + 1 /\ d[x] \in Nat /\ d[tree[x]] \in Nat
          BY <1>1, <5>1
        <5> QED BY <2>2, <5>1, <5>2
      <4>2. b[tree[x]] = c[tree[x]]
        <5>1. b[tree[x]] = Linked(tree, c, tree[x])
          BY <4>1
        <5>2. c[tree[x]] = Linked(tree, c, tree[x])
          BY <2>1, <4>1
        <5> QED BY <5>1, <5>2
      <4> QED BY <3>2, <4>2 DEF Linked
    <3> QED BY <3>1, <3>2
  <2>4. Is(b, n + 1)
    BY <2>3
  <2> HIDE DEF b, Is
  <2> QED BY <2>2, <2>4
<1>5. T \in SUBSET Nat
  OBVIOUS
<1>6. T = Nat
  <2> HIDE DEF T
  <2> QED BY <1>3, <1>4, <1>5, NumbersInduction
<1>7. PICK c : Is(c, N + 1)
  <2> HIDE DEF Is
  <2>1. N + 1 \in Nat
    OBVIOUS
  <2>2. N + 1 \in T
    <3> HIDE DEF T
    <3> QED BY <1>6, <2>1
  <2> QED BY <2>2
<1>8. Low(N + 1) = Nodes
  <2>1. ASSUME NEW x \in Nodes PROVE d[x] < N + 1
    BY <1>1
  <2> QED BY <2>1
<1> QED BY <1>7, <1>8

\* A state's chain is the state and its superstate's chain.
LEMMA ChainIs ==
  ASSUME LibrariesAssumption, super \in Hsm!Trees
  PROVE  Hsm!Chain = [x \in Nodes |-> Linked(super, Hsm!Chain, x)]
<1> DEFINE c == CHOOSE c : c = [x \in Nodes |-> Linked(super, c, x)]
<1>1. c = [x \in Nodes |-> Linked(super, c, x)]
  BY ChainExists
<1>2. Hsm!Chain = c
  BY DEF Hsm!Chain, Linked, Nodes
<1> QED BY <1>1, <1>2

-----------------------------------------------------------------------------
(* Chains.                                                                 *)

Height(x) == Len(Hsm!Chain[x])

\* A chain goes from its state to top, and from every state on it is that state's.
LEMMA ChainFacts ==
  ASSUME LibrariesAssumption, super \in Hsm!Trees, NEW x \in Nodes
  PROVE  /\ Hsm!Chain[x] \in Seq(Nodes) /\ Height(x) \in Nat /\ Height(x) >= 1
         /\ Hsm!Chain[x][1] = x /\ Hsm!Chain[x][Height(x)] = top
         /\ \A i \in 1..Height(x) :
              /\ Hsm!Chain[x][i] \in Nodes
              /\ Height(Hsm!Chain[x][i]) = Height(x) - i + 1
              /\ \A j \in 1..(Height(x) - i + 1) : Hsm!Chain[Hsm!Chain[x][i]][j] = Hsm!Chain[x][i + j - 1]
<1> DEFINE C == Hsm!Chain
           Ends(y) == C[y] \in Seq(Nodes) /\ Len(C[y]) >= 1 /\ C[y][1] = y /\ C[y][Len(C[y])] = top
           Suffix(y, i) == /\ Len(C[C[y][i]]) = Len(C[y]) - i + 1
                           /\ \A j \in 1..(Len(C[y]) - i + 1) : C[C[y][i]][j] = C[y][i + j - 1]
           T == {y \in Nodes : Ends(y) /\ \A i \in 1..Len(C[y]) : Suffix(y, i)}
<1>1. super \in [States -> Nodes] /\ top \notin States
  BY DEF Hsm!Trees, Nodes, LibrariesAssumption, Hsm!HsmAssumption
<1>2. C[top] = <<top>> /\ \A y \in States : C[y] = <<y>> \o C[super[y]]
  BY <1>1, ChainIs DEF Linked, Nodes
<1> HIDE DEF C
<1>3. top \in T
  <2>1. Ends(top) /\ Len(C[top]) = 1 /\ top \in Nodes
    BY <1>2 DEF Nodes
  <2>2. ASSUME NEW i \in 1..Len(C[top]) PROVE Suffix(top, i)
    <3>1. i = 1
      BY <2>1
    <3> QED BY <1>2, <2>1, <3>1
  <2> QED BY <2>1, <2>2
<1>4. ASSUME NEW y \in States, super[y] \in T PROVE y \in T
  <2> DEFINE p == super[y]
             n == Len(C[p])
  <2>1. y \in Nodes /\ C[y] = <<y>> \o C[p] /\ Ends(p) /\ \A i \in 1..n : Suffix(p, i)
    BY <1>2, <1>4 DEF Nodes
  <2>2. n \in Nat /\ n >= 1 /\ C[p] \in Seq(Nodes) /\ C[p][n] = top
    BY <2>1
  <2> HIDE DEF p, n
  <2>3. /\ C[y] \in Seq(Nodes) /\ Len(C[y]) = n + 1 /\ C[y][1] = y
        /\ \A i \in 1..n : C[y][i + 1] = C[p][i]
    BY <2>1, <2>2 DEF n
  <2>4. Ends(y)
    BY <2>2, <2>3
  <2>5. ASSUME NEW i \in 1..(n + 1) PROVE Suffix(y, i)
    <3>1. CASE i = 1
      <4>1. C[y][i] = y /\ Len(C[y]) - i + 1 = n + 1
        BY <2>2, <2>3, <3>1
      <4>2. \A j \in 1..(n + 1) : i + j - 1 = j
        BY <2>2, <3>1
      <4> QED BY <2>3, <4>1, <4>2
    <3>2. CASE i # 1
      <4> DEFINE k == i - 1
      <4>1. k \in 1..n /\ i = k + 1 /\ C[y][i] = C[p][k]
        <5>1. k \in 1..n /\ i = k + 1
          BY <2>2, <3>2
        <5> QED BY <2>3, <5>1
      <4>2. Suffix(p, k)
        BY <2>1, <4>1 DEF n
      <4>3. Len(C[C[y][i]]) = n - k + 1 /\ n - k + 1 = Len(C[y]) - i + 1
        BY <2>2, <2>3, <4>1, <4>2 DEF n
      <4>4. ASSUME NEW j \in 1..(Len(C[y]) - i + 1) PROVE C[C[y][i]][j] = C[y][i + j - 1]
        <5>1. j \in 1..(n - k + 1) /\ k + j - 1 \in 1..n /\ i + j - 1 = (k + j - 1) + 1
          <6>1. j \in 1..(n - k + 1)
            BY <4>3
          <6>2. i \in Nat
            OBVIOUS
          <6> HIDE DEF k
          <6>3. \A m \in Nat : \A a \in 1..m : \A b \in 1..(m - a + 1) :
                  a + b - 1 \in 1..m /\ (a + 1) + b - 1 = (a + b - 1) + 1
            OBVIOUS
          <6> QED BY <2>2, <4>1, <6>1, <6>2, <6>3
        <5>2. C[C[p][k]][j] = C[p][k + j - 1]
          <6>1. \A m \in 1..(Len(C[p]) - k + 1) : C[C[p][k]][m] = C[p][k + m - 1]
            BY <4>2
          <6>2. j \in 1..(Len(C[p]) - k + 1)
            BY <5>1 DEF n
          <6> HIDE DEF k, C
          <6> QED BY <6>1, <6>2
        <5>3. C[y][(k + j - 1) + 1] = C[p][k + j - 1]
          BY <2>3, <5>1
        <5> QED BY <4>1, <5>1, <5>2, <5>3
      <4> QED BY <4>3, <4>4
    <3> QED BY <3>1, <3>2
  <2> QED BY <2>1, <2>3, <2>4, <2>5
<1> HIDE DEF T
<1>5. x \in T
  BY <1>3, <1>4, TreeInduction
<1>6. Ends(x) /\ \A i \in 1..Len(C[x]) : Suffix(x, i)
  BY <1>5 DEF T
<1>7. Len(C[x]) \in Nat /\ \A i \in 1..Len(C[x]) : C[x][i] \in Nodes
  <2> HIDE DEF Suffix
  <2>1. C[x] \in Seq(Nodes)
    BY <1>6
  <2> QED BY <2>1
<1> QED BY <1>6, <1>7 DEF C, Height

\* The states at or above one: each has its place in the chain by its height.
LEMMA AboveFacts ==
  ASSUME LibrariesAssumption, super \in Hsm!Trees, NEW x \in Nodes
  PROVE  /\ x \in Hsm!AtOrAbove(x) /\ top \in Hsm!AtOrAbove(x) /\ Hsm!AtOrAbove(x) \subseteq Nodes
         /\ Hsm!AtOrAbove(x) = {Hsm!Chain[x][i] : i \in 1..Height(x)}
         /\ \A y \in Hsm!AtOrAbove(x) :
              /\ Height(y) \in 1..Height(x) /\ Hsm!Chain[x][Height(x) - Height(y) + 1] = y
              /\ Hsm!AtOrAbove(y) \subseteq Hsm!AtOrAbove(x)
              /\ \A z \in Hsm!AtOrAbove(x) :
                   /\ Height(z) <= Height(y) => z \in Hsm!AtOrAbove(y)
                   /\ Height(z) = Height(y) => z = y
<1> DEFINE C == Hsm!Chain
           A(y) == Hsm!AtOrAbove(y)
<1>1. \A y \in Nodes : /\ C[y] \in Seq(Nodes) /\ Height(y) \in Nat /\ Height(y) >= 1
                       /\ C[y][1] = y /\ C[y][Height(y)] = top
                       /\ \A i \in 1..Height(y) :
                            /\ C[y][i] \in Nodes
                            /\ Height(C[y][i]) = Height(y) - i + 1
                            /\ \A j \in 1..(Height(y) - i + 1) : C[C[y][i]][j] = C[y][i + j - 1]
  BY ChainFacts
<1>2. \A y \in Nodes : A(y) = {C[y][i] : i \in 1..Height(y)}
  <2> SUFFICES ASSUME NEW y \in Nodes PROVE A(y) = {C[y][i] : i \in 1..Height(y)}
    OBVIOUS
  <2>1. C[y] \in Seq(Nodes)
    BY <1>1
  <2>2. DOMAIN C[y] = 1..Height(y)
    BY <2>1 DEF Height
  <2> QED BY <2>2 DEF Hsm!AtOrAbove, Hsm!Range
<1> HIDE DEF C, A
<1>3. x \in A(x) /\ top \in A(x) /\ A(x) \subseteq Nodes
  <2>1. 1 \in 1..Height(x) /\ Height(x) \in 1..Height(x)
    BY <1>1
  <2>2. C[x][1] = x /\ C[x][Height(x)] = top /\ \A i \in 1..Height(x) : C[x][i] \in Nodes
    BY <1>1
  <2>3. A(x) = {C[x][i] : i \in 1..Height(x)}
    BY <1>2
  <2> QED BY <2>1, <2>2, <2>3
<1>4. ASSUME NEW y \in A(x)
      PROVE  /\ Height(y) \in 1..Height(x) /\ C[x][Height(x) - Height(y) + 1] = y
             /\ y \in Nodes
             /\ \A j \in 1..Height(y) : C[y][j] = C[x][Height(x) - Height(y) + j]
  <2>1. PICK i \in 1..Height(x) : y = C[x][i]
    BY <1>2
  <2>2. Height(x) \in Nat /\ Height(y) = Height(x) - i + 1
    BY <1>1, <2>1
  <2>3. Height(x) - Height(y) + 1 = i /\ Height(y) \in 1..Height(x)
    BY <2>1, <2>2
  <2>4. ASSUME NEW j \in 1..Height(y) PROVE C[y][j] = C[x][Height(x) - Height(y) + j]
    <3>1. j \in 1..(Height(x) - i + 1) /\ i + j - 1 = Height(x) - Height(y) + j
      BY <2>2, <2>3
    <3>2. C[C[x][i]][j] = C[x][i + j - 1]
      BY <1>1, <2>1, <3>1
    <3> QED BY <2>1, <3>1, <3>2
  <2>5. y \in Nodes
    BY <1>1, <2>1
  <2> QED BY <2>1, <2>3, <2>4, <2>5
<1>5. ASSUME NEW y \in A(x) PROVE A(y) \subseteq A(x)
  <2> SUFFICES ASSUME NEW j \in 1..Height(y) PROVE C[y][j] \in A(x)
    BY <1>2, <1>4
  <2>1. Height(x) - Height(y) + j \in 1..Height(x)
    BY <1>1, <1>4
  <2> QED BY <1>2, <1>4, <2>1
<1>6. ASSUME NEW y \in A(x), NEW z \in A(x), Height(z) <= Height(y) PROVE z \in A(y)
  <2> DEFINE j == Height(y) - Height(z) + 1
  <2>1. /\ j \in 1..Height(y) /\ Height(x) - Height(y) + j = Height(x) - Height(z) + 1
    BY <1>1, <1>4, <1>6
  <2>2. C[y][j] = z
    BY <1>4, <2>1
  <2> QED BY <1>2, <1>4, <2>1, <2>2
<1>7. ASSUME NEW y \in A(x), NEW z \in A(x), Height(z) = Height(y) PROVE z = y
  BY <1>4, <1>7
<1> QED BY <1>2, <1>3, <1>4, <1>5, <1>6, <1>7 DEF C, A

-----------------------------------------------------------------------------
(* What a transition exits and enters.                                     *)

\* The first place in a sequence where something is found.
LEMMA FirstPlace ==
  ASSUME NEW n \in Nat, NEW I \in SUBSET (1..n), I # {}
  PROVE  Hsm!Min(I) \in I /\ \A i \in I : Hsm!Min(I) <= i
<1>1. I \in SUBSET Nat
  OBVIOUS
<1>2. \E x \in I : \A y \in I : x <= y
  BY <1>1, LeastNumber
<1> QED BY <1>2 DEF Hsm!Min

\* What is before a state in the chain of one below it.
LEMMA BeforeIs ==
  ASSUME LibrariesAssumption, super \in Hsm!Trees, NEW x \in Nodes, NEW y \in Hsm!AtOrAbove(x)
  PROVE  /\ Hsm!Before(Hsm!Chain[x], y) \in Seq(Nodes)
         /\ Len(Hsm!Before(Hsm!Chain[x], y)) = Height(x) - Height(y)
         /\ \A i \in 1..(Height(x) - Height(y)) : Hsm!Before(Hsm!Chain[x], y)[i] = Hsm!Chain[x][i]
<1> DEFINE s == Hsm!Chain[x]
           k == Height(x) - Height(y) + 1
           I == {i \in 1..Len(s) : s[i] = y}
<1>1. s \in Seq(Nodes) /\ Len(s) = Height(x) /\ Height(x) \in Nat
  BY ChainFacts DEF Height
<1>2. Height(y) \in 1..Height(x) /\ s[k] = y
  BY AboveFacts
<1>3. k \in 1..Len(s)
  BY <1>1, <1>2
<1>4. ASSUME NEW i \in 1..Len(s), s[i] = y PROVE i = k
  <2>1. Height(y) = Height(x) - i + 1
    BY <1>1, <1>4, ChainFacts
  <2> QED BY <1>1, <1>2, <2>1
<1> HIDE DEF s, k
<1>5. I = {k} /\ k \in Nat
  BY <1>1, <1>2, <1>3, <1>4
<1>6. Hsm!Min(I) = k
  BY <1>5 DEF Hsm!Min
<1>7. Hsm!SelectInSeq(s, LAMBDA z : z = y) = k
  BY <1>5, <1>6 DEF Hsm!SelectInSeq
<1>8. Hsm!Before(s, y) = SubSeq(s, 1, k - 1)
  BY <1>7 DEF Hsm!Before
<1>9. k - 1 = Height(x) - Height(y) /\ k - 1 \in 0..Len(s)
  BY <1>1, <1>2 DEF k
<1> QED BY <1>1, <1>8, <1>9 DEF s

\* It is what is above the one and not above the other, from the bottom upwards.
LEMMA BeforeHolds ==
  ASSUME LibrariesAssumption, super \in Hsm!Trees, NEW x \in Nodes, NEW y \in Hsm!AtOrAbove(x),
         NEW b, b = Hsm!Before(Hsm!Chain[x], y)
  PROVE  /\ Hsm!Range(b) = Hsm!AtOrAbove(x) \ Hsm!AtOrAbove(y)
         /\ b \in Seq(States)
         /\ \A i, j \in 1..Len(b) : i < j => b[j] \in Hsm!Above(b[i])
<1> DEFINE n == Height(x) - Height(y)
<1>1. b \in Seq(Nodes) /\ Len(b) = n /\ \A i \in 1..n : b[i] = Hsm!Chain[x][i]
  BY BeforeIs
<1>2. /\ Height(x) \in Nat /\ Height(y) \in 1..Height(x) /\ y \in Nodes
      /\ Hsm!AtOrAbove(x) = {Hsm!Chain[x][i] : i \in 1..Height(x)}
      /\ top \in Hsm!AtOrAbove(y) /\ Hsm!AtOrAbove(x) \subseteq Nodes
  BY ChainFacts, AboveFacts
<1>3. \A z \in Hsm!AtOrAbove(x) :
        /\ Height(z) \in 1..Height(x) /\ Hsm!Chain[x][Height(x) - Height(z) + 1] = z
        /\ Height(z) <= Height(y) => z \in Hsm!AtOrAbove(y)
        /\ \A w \in Hsm!AtOrAbove(x) : Height(w) <= Height(z) => w \in Hsm!AtOrAbove(z)
  BY AboveFacts
<1>4. \A z \in Hsm!AtOrAbove(y) : Height(z) \in 1..Height(y)
  BY <1>2, AboveFacts
<1>5. \A i \in 1..Height(x) : Height(Hsm!Chain[x][i]) = Height(x) - i + 1
  BY ChainFacts
<1>6. n \in 0..Height(x) /\ n \in Nat
  BY <1>2
<1>7. Hsm!Range(b) = {b[i] : i \in 1..n}
  BY <1>1 DEF Hsm!Range
<1>8. ASSUME NEW i \in 1..n
      PROVE  /\ b[i] \in Hsm!AtOrAbove(x) /\ b[i] \notin Hsm!AtOrAbove(y)
             /\ Height(b[i]) = Height(x) - i + 1
  <2>1. i \in 1..Height(x) /\ b[i] = Hsm!Chain[x][i] /\ Height(x) - i + 1 > Height(y)
    BY <1>1, <1>2, <1>6
  <2>2. Height(b[i]) = Height(x) - i + 1
    BY <1>5, <2>1
  <2>3. b[i] \notin Hsm!AtOrAbove(y)
    BY <1>2, <1>4, <2>1, <2>2
  <2> QED BY <1>2, <2>1, <2>2, <2>3
<1>9. ASSUME NEW z \in Hsm!AtOrAbove(x), z \notin Hsm!AtOrAbove(y) PROVE \E i \in 1..n : z = b[i]
  <2>1. Height(z) > Height(y) /\ Height(z) \in 1..Height(x)
    BY <1>2, <1>3, <1>9
  <2>2. Height(x) - Height(z) + 1 \in 1..n
    BY <1>2, <2>1
  <2> QED BY <1>1, <1>3, <2>2
<1> HIDE DEF n
<1>10. Hsm!Range(b) = Hsm!AtOrAbove(x) \ Hsm!AtOrAbove(y)
  BY <1>7, <1>8, <1>9
<1>11. b \in Seq(States)
  <2>1. ASSUME NEW i \in 1..n PROVE b[i] \in States
    BY <1>2, <1>8 DEF Nodes
  <2> QED BY <1>1, <2>1, SeqDef
<1>12. ASSUME NEW i \in 1..n, NEW j \in 1..n, i < j PROVE b[j] \in Hsm!Above(b[i])
  <2>1. Height(b[j]) < Height(b[i])
    BY <1>2, <1>8, <1>12
  <2>2. Height(b[j]) <= Height(b[i]) /\ b[j] # b[i]
    BY <1>2, <1>8, <2>1
  <2>3. b[j] \in Hsm!AtOrAbove(b[i])
    BY <1>3, <1>8, <2>2
  <2> QED BY <2>2, <2>3 DEF Hsm!Above, Hsm!AtOrAbove
<1> QED BY <1>1, <1>10, <1>11, <1>12

\* A superstate is one below.
LEMMA SuperIs ==
  ASSUME LibrariesAssumption, super \in Hsm!Trees, NEW x \in States
  PROVE  /\ x \in Nodes /\ super[x] \in Nodes /\ super[x] \in Hsm!AtOrAbove(x)
         /\ Height(x) = Height(super[x]) + 1
         /\ Hsm!AtOrAbove(x) = {x} \cup Hsm!AtOrAbove(super[x])
         /\ Hsm!Before(Hsm!Chain[x], x) = <<>> /\ Hsm!Before(Hsm!Chain[x], super[x]) = <<x>>
<1>1. super \in [States -> Nodes] /\ top \notin States
  BY DEF Hsm!Trees, Nodes, LibrariesAssumption, Hsm!HsmAssumption
<1>2. x \in Nodes /\ super[x] \in Nodes
  BY <1>1 DEF Nodes
<1>3. Hsm!Chain[x] = <<x>> \o Hsm!Chain[super[x]]
  BY <1>1, <1>2, ChainIs DEF Linked
<1>4. /\ Hsm!Chain[super[x]] \in Seq(Nodes) /\ Height(super[x]) \in Nat /\ Height(super[x]) >= 1
      /\ Hsm!Chain[super[x]][1] = super[x]
  BY <1>2, ChainFacts
<1>5. Height(x) = Height(super[x]) + 1 /\ Hsm!Chain[x][2] = super[x]
      /\ \A i \in 1..Height(super[x]) : Hsm!Chain[x][i + 1] = Hsm!Chain[super[x]][i]
  BY <1>2, <1>3, <1>4 DEF Height
<1>6. Hsm!AtOrAbove(x) = {Hsm!Chain[x][i] : i \in 1..Height(x)} /\ x \in Hsm!AtOrAbove(x)
  BY <1>2, AboveFacts
<1>7. super[x] \in Hsm!AtOrAbove(x)
  <2>1. 2 \in 1..Height(x)
    BY <1>4, <1>5
  <2> QED BY <1>5, <1>6, <2>1
<1>8. Hsm!AtOrAbove(x) = {x} \cup Hsm!AtOrAbove(super[x])
  <2>1. Hsm!AtOrAbove(super[x]) \subseteq Hsm!AtOrAbove(x)
    BY <1>2, <1>7, AboveFacts
  <2>2. ASSUME NEW z \in Hsm!AtOrAbove(x), z # x PROVE z \in Hsm!AtOrAbove(super[x])
    <3>1. Height(z) \in 1..Height(x) /\ Height(z) # Height(x)
      BY <1>2, <1>6, <2>2, AboveFacts
    <3>2. Height(z) <= Height(super[x])
      BY <1>4, <1>5, <3>1
    <3> QED BY <1>2, <1>7, <3>2, AboveFacts
  <2> QED BY <1>6, <2>1, <2>2
<1>9. Hsm!Before(Hsm!Chain[x], x) = <<>>
  <2>1. Hsm!Before(Hsm!Chain[x], x) \in Seq(Nodes) /\ Len(Hsm!Before(Hsm!Chain[x], x)) = 0
    BY <1>2, <1>4, <1>5, <1>6, BeforeIs
  <2> QED BY <2>1, EmptySeq
<1>10. Hsm!Before(Hsm!Chain[x], super[x]) = <<x>>
  <2> DEFINE b == Hsm!Before(Hsm!Chain[x], super[x])
  <2>1. b \in Seq(Nodes) /\ Len(b) = Height(x) - Height(super[x])
        /\ \A i \in 1..(Height(x) - Height(super[x])) : b[i] = Hsm!Chain[x][i]
    BY <1>2, <1>7, BeforeIs
  <2>2. Height(x) - Height(super[x]) = 1 /\ Hsm!Chain[x][1] = x
    BY <1>2, <1>4, <1>5, ChainFacts
  <2> HIDE DEF b
  <2>3. Len(b) = 1 /\ b[1] = x /\ b \in Seq(Nodes)
    BY <2>1, <2>2
  <2>4. b = <<x>>
    BY <2>3
  <2> QED BY <2>4 DEF b
<1> QED BY <1>2, <1>5, <1>7, <1>8, <1>9, <1>10

\* What is exited below the source and from it on is one way.
LEMMA BeforeJoined ==
  ASSUME LibrariesAssumption, super \in Hsm!Trees, NEW x \in Nodes,
         NEW y \in Hsm!AtOrAbove(x), NEW z \in Hsm!AtOrAbove(y)
  PROVE  /\ z \in Hsm!AtOrAbove(x)
         /\ Hsm!Before(Hsm!Chain[x], y) \o Hsm!Before(Hsm!Chain[y], z) = Hsm!Before(Hsm!Chain[x], z)
<1> DEFINE a == Hsm!Before(Hsm!Chain[x], y)
           b == Hsm!Before(Hsm!Chain[y], z)
           c == Hsm!Before(Hsm!Chain[x], z)
<1>1. y \in Nodes /\ z \in Hsm!AtOrAbove(x) /\ z \in Nodes
  BY AboveFacts
<1>2. /\ Height(x) \in Nat /\ Height(y) \in 1..Height(x) /\ Height(z) \in 1..Height(y)
      /\ Hsm!Chain[x][Height(x) - Height(y) + 1] = y
  BY <1>1, ChainFacts, AboveFacts
<1>3. a \in Seq(Nodes) /\ Len(a) = Height(x) - Height(y)
      /\ \A i \in 1..(Height(x) - Height(y)) : a[i] = Hsm!Chain[x][i]
  BY BeforeIs
<1>4. b \in Seq(Nodes) /\ Len(b) = Height(y) - Height(z)
      /\ \A i \in 1..(Height(y) - Height(z)) : b[i] = Hsm!Chain[y][i]
  BY <1>1, BeforeIs
<1>5. c \in Seq(Nodes) /\ Len(c) = Height(x) - Height(z)
      /\ \A i \in 1..(Height(x) - Height(z)) : c[i] = Hsm!Chain[x][i]
  BY <1>1, BeforeIs
<1> HIDE DEF a, b, c
<1>6. a \o b \in Seq(Nodes) /\ Len(a \o b) = Len(c) /\ Len(a) \in Nat
      /\ \A i \in 1..Len(c) : (a \o b)[i] = IF i <= Len(a) THEN a[i] ELSE b[i - Len(a)]
  <2>1. Len(a) + Len(b) = Len(c) /\ Len(a) \in Nat
    BY <1>2, <1>3, <1>4, <1>5
  <2> QED BY <1>3, <1>4, <2>1, ConcatProperties
<1>7. ASSUME NEW i \in 1..Len(c) PROVE (a \o b)[i] = c[i]
  <2>1. i \in Nat /\ i >= 1 /\ i <= Height(x) - Height(z) /\ c[i] = Hsm!Chain[x][i]
    BY <1>2, <1>5
  <2>2. CASE i <= Len(a)
    <3>1. i \in 1..(Height(x) - Height(y))
      BY <1>2, <1>3, <2>1, <2>2
    <3> QED BY <1>3, <1>6, <2>1, <2>2, <3>1
  <2>3. CASE i > Len(a)
    <3> DEFINE k == Height(x) - Height(y) + 1
               j == i - Len(a)
    <3>1. /\ k \in 1..Height(x) /\ j \in 1..(Height(y) - Height(z))
          /\ j \in 1..(Height(x) - k + 1) /\ k + j - 1 = i
      BY <1>2, <1>3, <2>1, <2>3
    <3>2. (a \o b)[i] = b[j]
      BY <1>6, <2>1, <2>3
    <3>3. Hsm!Chain[x][k] = y
      BY <1>2
    <3> HIDE DEF k, j
    <3>4. b[j] = Hsm!Chain[y][j]
      BY <1>4, <3>1
    <3>5. Hsm!Chain[Hsm!Chain[x][k]][j] = Hsm!Chain[x][k + j - 1]
      BY <3>1, ChainFacts
    <3> QED BY <2>1, <3>1, <3>2, <3>3, <3>4, <3>5
  <2> QED BY <1>6, <2>1, <2>2, <2>3
<1>8. a \o b = c
  BY <1>5, <1>6, <1>7, SeqEqual
<1> QED BY <1>1, <1>8 DEF a, b, c

\* The lowest state at or above both is the transition's domain.
LEMMA DomainIs ==
  ASSUME LibrariesAssumption, super \in Hsm!Trees, NEW s \in States, NEW g \in States, s # g,
         NEW d \in Hsm!AtOrAbove(s) \cap Hsm!AtOrAbove(g),
         \A e \in Hsm!AtOrAbove(s) \cap Hsm!AtOrAbove(g) : e \in Hsm!AtOrAbove(d)
  PROVE  Hsm!Domain(s, g) = d
<1> DEFINE S == Hsm!AtOrAbove(s) \cap Hsm!AtOrAbove(g)
<1>1. s \in Nodes /\ S \subseteq Nodes /\ d \in S
  BY SuperIs, AboveFacts
<1>2. ASSUME NEW c \in S, \A e \in S : e \in Hsm!AtOrAbove(c) PROVE c = d
  <2>1. d \in Hsm!AtOrAbove(c) /\ c \in Hsm!AtOrAbove(d) /\ c \in Nodes /\ d \in Nodes
    BY <1>1, <1>2
  <2>2. Height(d) \in 1..Height(c) /\ Height(c) \in 1..Height(d) /\ Height(c) \in Nat /\ Height(d) \in Nat
    BY <2>1, AboveFacts, ChainFacts
  <2>3. Height(c) = Height(d)
    BY <2>2
  <2>4. c \in Hsm!AtOrAbove(s) /\ d \in Hsm!AtOrAbove(s)
    BY <1>1
  <2> HIDE DEF S
  <2> QED BY <1>1, <2>3, <2>4, AboveFacts
<1>3. Hsm!Domain(s, g) = CHOOSE c \in S : \A e \in S : e \in Hsm!AtOrAbove(c)
  BY DEF Hsm!Domain
<1> HIDE DEF S
<1> QED BY <1>1, <1>2, <1>3 DEF S

\* In each of the cases that QHsm::dispatch tells apart, what it exits and enters
\* are the ways from the source and the target to the domain, and what it stores
\* is no longer than the target's chain.
LEMMA Transition ==
  ASSUME LibrariesAssumption, super \in Hsm!Trees, NEW s \in States, NEW g \in States,
         NEW d, d = Hsm!Domain(s, g)
  PROVE  /\ d \in Hsm!AtOrAbove(s) /\ d \in Hsm!AtOrAbove(g)
         /\ Hsm!Exits(s, g) = Hsm!Before(Hsm!Chain[s], d)
         /\ Hsm!EntryPath(s, g) = Hsm!Before(Hsm!Chain[g], d)
         /\ Len(Hsm!StoredPath(s, g)) \in 0..Height(g)
<1> USE DEF Hsm!SelfTransition, Hsm!IntoSubstate, Hsm!Siblings, Hsm!ToSuperstate, Hsm!IntoDescendant
<1>1. \A x \in {s, g} :
        /\ x \in Nodes /\ super[x] \in Nodes /\ super[x] \in Hsm!AtOrAbove(x)
        /\ Height(x) = Height(super[x]) + 1 /\ Height(x) \in Nat /\ Height(super[x]) \in Nat
        /\ Hsm!AtOrAbove(x) = {x} \cup Hsm!AtOrAbove(super[x])
        /\ Hsm!Before(Hsm!Chain[x], x) = <<>> /\ Hsm!Before(Hsm!Chain[x], super[x]) = <<x>>
  BY SuperIs, ChainFacts
<1>2. \A x \in {s, g, super[s], super[g]} :
        /\ x \in Hsm!AtOrAbove(x) /\ Hsm!AtOrAbove(x) \subseteq Nodes
        /\ \A y \in Hsm!AtOrAbove(x) : Height(y) \in 1..Height(x) /\ Hsm!AtOrAbove(y) \subseteq Hsm!AtOrAbove(x)
  BY <1>1, AboveFacts
<1>3. g \in Hsm!AtOrAbove(s) /\ s \in Hsm!AtOrAbove(g) => s = g
  <2> SUFFICES ASSUME g \in Hsm!AtOrAbove(s), s \in Hsm!AtOrAbove(g) PROVE s = g
    OBVIOUS
  <2>1. Height(s) = Height(g)
    BY <1>1, <1>2
  <2> QED BY <1>1, <1>2, <2>1, AboveFacts
<1>4. \A x : x \in Hsm!Above(g) <=> x \in Hsm!AtOrAbove(g) /\ x # g
  BY DEF Hsm!Above, Hsm!AtOrAbove
<1>5. /\ Len(<<g>>) \in 0..Height(g) /\ Len(Hsm!Chain[g]) \in 0..Height(g)
      /\ s \in Hsm!AtOrAbove(g) => Len(Append(Hsm!Before(Hsm!Chain[g], s), s)) \in 0..Height(g)
  <2>1. Height(g) \in Nat /\ Height(g) >= 1 /\ Len(Hsm!Chain[g]) = Height(g)
    BY <1>1, ChainFacts DEF Height
  <2>2. ASSUME s \in Hsm!AtOrAbove(g)
        PROVE  Len(Append(Hsm!Before(Hsm!Chain[g], s), s)) \in 0..Height(g)
    <3>1. Hsm!Before(Hsm!Chain[g], s) \in Seq(Nodes) /\ Height(s) \in 1..Height(g)
          /\ Len(Hsm!Before(Hsm!Chain[g], s)) = Height(g) - Height(s)
      BY <1>1, <1>2, <2>2, BeforeIs
    <3>2. Len(Append(Hsm!Before(Hsm!Chain[g], s), s)) = Height(g) - Height(s) + 1
      <4> DEFINE b == Hsm!Before(Hsm!Chain[g], s)
      <4>1. b \in Seq(Nodes) /\ s \in Nodes /\ Len(b) = Height(g) - Height(s)
        BY <1>1, <3>1
      <4> HIDE DEF b
      <4>2. Len(Append(b, s)) = Height(g) - Height(s) + 1
        BY <4>1, AppendProperties
      <4> QED BY <4>2 DEF b
    <3> QED BY <2>1, <3>1, <3>2
  <2> QED BY <2>1, <2>2
<1>6. Len(Hsm!StoredPath(s, g)) \in 0..Height(g)
  BY <1>4, <1>5 DEF Hsm!StoredPath
<1>7. CASE s = g
  <2>1. d = super[s]
    BY <1>7 DEF Hsm!Domain
  <2>2. Hsm!Exits(s, g) = <<s>> /\ Hsm!EntryPath(s, g) = <<g>>
    BY <1>7 DEF Hsm!Exits, Hsm!EntryPath
  <2> QED BY <1>1, <1>6, <1>7, <2>1, <2>2
<1>8. CASE s # g /\ s \in Hsm!AtOrAbove(g)
  <2>1. d = s
    BY <1>2, <1>8, DomainIs
  <2>2. s \in Hsm!Above(g) /\ g \notin Hsm!AtOrAbove(s) /\ super[s] # g
    BY <1>1, <1>3, <1>4, <1>8
  <2>3. super[g] # super[s]
    <3> SUFFICES ASSUME super[g] = super[s] PROVE FALSE
      OBVIOUS
    <3>1. s \in Hsm!AtOrAbove(super[s])
      BY <1>1, <1>8
    <3>2. Height(s) \in 1..Height(super[s])
      BY <1>2, <3>1
    <3> QED BY <1>1, <3>2
  <2>4. Hsm!Exits(s, g) = <<>>
    BY <1>8, <2>2 DEF Hsm!Exits
  <2>5. Hsm!EntryPath(s, g) = Hsm!Before(Hsm!Chain[g], s)
    <3>1. CASE super[g] = s
      BY <1>1, <1>8, <3>1 DEF Hsm!EntryPath
    <3>2. CASE super[g] # s
      BY <1>8, <2>2, <2>3, <3>2 DEF Hsm!EntryPath
    <3> QED BY <3>1, <3>2
  <2> QED BY <1>1, <1>2, <1>6, <1>8, <2>1, <2>4, <2>5
<1>9. CASE s # g /\ s \notin Hsm!AtOrAbove(g) /\ super[g] = super[s]
  <2>1. super[s] \in Hsm!AtOrAbove(s) \cap Hsm!AtOrAbove(g)
        /\ \A e \in Hsm!AtOrAbove(s) \cap Hsm!AtOrAbove(g) : e \in Hsm!AtOrAbove(super[s])
    BY <1>1, <1>9
  <2>2. d = super[s]
    BY <1>9, <2>1, DomainIs
  <2>3. super[g] # s /\ s \notin Hsm!Above(g) /\ super[s] # g
    <3>1. Height(super[s]) # Height(g)
      BY <1>1, <1>9
    <3> QED BY <1>1, <1>4, <1>9, <3>1
  <2>4. Hsm!Exits(s, g) = <<s>> /\ Hsm!EntryPath(s, g) = <<g>>
    BY <1>9, <2>3 DEF Hsm!Exits, Hsm!EntryPath
  <2> QED BY <1>1, <1>6, <1>9, <2>1, <2>2, <2>4
<1>10. CASE s # g /\ s \notin Hsm!AtOrAbove(g) /\ super[g] # super[s] /\ super[s] = g
  <2>1. g \in Hsm!AtOrAbove(s) \cap Hsm!AtOrAbove(g)
        /\ \A e \in Hsm!AtOrAbove(s) \cap Hsm!AtOrAbove(g) : e \in Hsm!AtOrAbove(g)
    BY <1>1, <1>2, <1>10
  <2>2. d = g
    BY <1>10, <2>1, DomainIs
  <2>3. super[g] # s /\ s \notin Hsm!Above(g)
    BY <1>1, <1>4, <1>10
  <2>4. Hsm!Exits(s, g) = <<s>> /\ Hsm!EntryPath(s, g) = <<>>
    BY <1>10, <2>3 DEF Hsm!Exits, Hsm!EntryPath
  <2> QED BY <1>1, <1>6, <1>10, <2>1, <2>2, <2>4
<1>11. CASE s # g /\ s \notin Hsm!AtOrAbove(g) /\ super[g] # super[s] /\ super[s] # g
  <2> DEFINE P == Hsm!Chain[super[s]]
             n == Height(super[s])
             I == {i \in 1..Len(P) : P[i] \in Hsm!Range(Hsm!Chain[g])}
             k == Hsm!Min(I)
  <2>1. Len(P) = n /\ n \in Nat /\ n >= 1 /\ P[n] = top /\ top \in Hsm!AtOrAbove(g)
    BY <1>1, ChainFacts, AboveFacts DEF Height
  <2>2. Hsm!AtOrAbove(super[s]) = {P[i] : i \in 1..n}
    BY <1>1, AboveFacts
  <2>3. I \in SUBSET (1..n) /\ I # {}
    <3>1. n \in I
      BY <2>1 DEF Hsm!AtOrAbove
    <3> QED BY <2>1, <3>1
  <2>4. k \in I /\ \A i \in I : k <= i
    <3> HIDE DEF I
    <3> QED BY <2>1, <2>3, FirstPlace
  <2>5. Hsm!LCA(s, g) = P[k]
    BY <2>3 DEF Hsm!LCA, Hsm!SelectInSeq
  <2>6. k \in 1..n /\ k \in Nat /\ P[k] \in Hsm!AtOrAbove(g) /\ P[k] \in Hsm!AtOrAbove(super[s])
    <3>1. Hsm!AtOrAbove(g) = Hsm!Range(Hsm!Chain[g])
      BY DEF Hsm!AtOrAbove
    <3> HIDE DEF k
    <3>2. k \in 1..Len(P) /\ P[k] \in Hsm!Range(Hsm!Chain[g])
      BY <2>4
    <3> QED BY <2>1, <2>2, <3>1, <3>2
  <2>7. ASSUME NEW e \in Hsm!AtOrAbove(s) \cap Hsm!AtOrAbove(g) PROVE e \in Hsm!AtOrAbove(P[k])
    <3>1. e \in Hsm!AtOrAbove(super[s])
      BY <1>1, <1>11, <2>7
    <3>2. PICK j \in 1..n : e = P[j]
      BY <2>2, <3>1
    <3>3. k <= j
      <4>1. j \in I
        BY <2>1, <2>7, <3>2 DEF Hsm!AtOrAbove
      <4> QED BY <2>4, <4>1
    <3>4. Height(P[j]) = n - j + 1 /\ Height(P[k]) = n - k + 1
      BY <1>1, <2>6, ChainFacts
    <3>5. Height(e) <= Height(P[k])
      BY <2>1, <2>6, <3>2, <3>3, <3>4
    <3> HIDE DEF k, P
    <3> QED BY <1>1, <2>6, <3>1, <3>5, AboveFacts
  <2> HIDE DEF P, I, k
  <2>8. P[k] \in Hsm!AtOrAbove(s)
    BY <1>1, <2>6
  <2>9. d = P[k]
    BY <1>11, <2>6, <2>7, <2>8, DomainIs
  <2>10. super[g] # s /\ s \notin Hsm!Above(g)
    BY <1>1, <1>4, <1>11
  <2>11. Hsm!Exits(s, g) = Hsm!Before(Hsm!Chain[s], P[k]) /\ Hsm!EntryPath(s, g) = Hsm!Before(Hsm!Chain[g], P[k])
    BY <1>11, <2>5, <2>10 DEF Hsm!Exits, Hsm!EntryPath
  <2> QED BY <1>6, <2>6, <2>8, <2>9, <2>11
<1> QED BY <1>7, <1>8, <1>9, <1>10, <1>11

-----------------------------------------------------------------------------
(* The state machine.                                                      *)

HsmInv ==
  /\ super \in Hsm!Trees
  /\ m_state \in Nodes
  /\ stable => ~hsm_failed
  /\ Hsm!ExitsAndEntries

\* The state that the last transition stays in.
Stays == IF last.source = top THEN top ELSE Hsm!Domain(last.source, last.target)

\* What a reversed sequence holds.
LEMMA ReversedHolds ==
  ASSUME NEW b \in Seq(States)
  PROVE  /\ Hsm!Reverse(b) \in Seq(States)
         /\ Hsm!Range(Hsm!Reverse(b)) = Hsm!Range(b)
         /\ (\A i, j \in 1..Len(b) : i < j => b[j] \in Hsm!Above(b[i]))
              => \A i, j \in DOMAIN Hsm!Reverse(b) : i < j => Hsm!Reverse(b)[i] \in Hsm!Above(Hsm!Reverse(b)[j])
<1> DEFINE n == Len(b)
           r == Hsm!Reverse(b)
<1>1. n \in Nat /\ DOMAIN b = 1..n /\ \A i \in 1..n : b[i] \in States
  BY LenProperties
<1>2. r = [i \in 1..n |-> b[(n - i) + 1]]
  BY DEF Hsm!Reverse
<1> HIDE DEF n, r
<1>3. \A i \in 1..n : (n - i) + 1 \in 1..n /\ (n - ((n - i) + 1)) + 1 = i
  BY <1>1
<1>4. DOMAIN r = 1..n /\ \A i \in 1..n : r[i] = b[(n - i) + 1]
  BY <1>2
<1>5. r \in Seq(States)
  BY <1>1, <1>2, <1>3, SeqDef
<1>6. Hsm!Range(r) = Hsm!Range(b)
  BY <1>1, <1>3, <1>4 DEF Hsm!Range
<1>7. ASSUME \A i, j \in 1..n : i < j => b[j] \in Hsm!Above(b[i]),
             NEW i \in 1..n, NEW j \in 1..n, i < j
      PROVE  r[i] \in Hsm!Above(r[j])
  <2>1. (n - j) + 1 < (n - i) + 1
    BY <1>1, <1>7
  <2> QED BY <1>3, <1>4, <1>7, <2>1
<1> QED BY <1>4, <1>5, <1>6, <1>7 DEF n, r

\* Whatever the ways lead from and to, the properties of a transition hold when its
\* sequences are the ways to the state that it stays in.
Ways(d) ==
  /\ super \in Hsm!Trees /\ ~hsm_failed
  /\ last.from \in Nodes /\ last.target \in States
  /\ d = Stays /\ d \in Hsm!AtOrAbove(last.from) /\ d \in Hsm!AtOrAbove(last.target)
  /\ last.exits = Hsm!Before(Hsm!Chain[last.from], d)
  /\ last.entries = Hsm!Reverse(Hsm!Before(Hsm!Chain[last.target], d))
  /\ m_state = last.target /\ active = Hsm!AtOrAbove(last.target) \ {top}

\* They do: what a way leaves and enters, and in which order.
LEMMA WaysHold ==
  ASSUME LibrariesAssumption, NEW d
  PROVE  Ways(d) => Hsm!ExitsAndEntries /\ last.exits \in Seq(States) /\ last.entries \in Seq(States)
<1> SUFFICES ASSUME Ways(d)
             PROVE  Hsm!ExitsAndEntries /\ last.exits \in Seq(States) /\ last.entries \in Seq(States)
  OBVIOUS
<1> USE DEF Ways
<1>1. last.target \in Nodes
  BY DEF Nodes
<1>2. /\ Hsm!Range(last.exits) = Hsm!AtOrAbove(last.from) \ Hsm!AtOrAbove(d)
      /\ last.exits \in Seq(States)
      /\ \A i, j \in 1..Len(last.exits) : i < j => last.exits[j] \in Hsm!Above(last.exits[i])
  BY BeforeHolds
<1>3. PICK b : b = Hsm!Before(Hsm!Chain[last.target], d)
  OBVIOUS
<1>4. /\ Hsm!Range(b) = Hsm!AtOrAbove(last.target) \ Hsm!AtOrAbove(d)
      /\ b \in Seq(States)
      /\ \A i, j \in 1..Len(b) : i < j => b[j] \in Hsm!Above(b[i])
  BY <1>1, <1>3, BeforeHolds
<1>5. /\ Hsm!Range(last.entries) = Hsm!AtOrAbove(last.target) \ Hsm!AtOrAbove(d)
      /\ last.entries \in Seq(States)
      /\ \A i, j \in DOMAIN last.entries : i < j => last.entries[i] \in Hsm!Above(last.entries[j])
  BY <1>3, <1>4, ReversedHolds
<1>6. DOMAIN last.exits = 1..Len(last.exits)
  BY <1>2, LenProperties
<1>7. Hsm!Ordered(last.exits, LAMBDA x, y : y \in Hsm!Above(x))
  BY <1>2, <1>6 DEF Hsm!Ordered
<1>8. Hsm!Ordered(last.entries, LAMBDA x, y : x \in Hsm!Above(y))
  BY <1>5 DEF Hsm!Ordered
<1>9. active = Hsm!Range(Hsm!Chain[m_state]) \ {top}
  BY DEF Hsm!AtOrAbove
<1>10. d = IF last.source = top THEN top ELSE Hsm!Domain(last.source, last.target)
  BY DEF Stays
<1> QED
  BY <1>2, <1>5, <1>7, <1>8, <1>9, <1>10 DEF Hsm!ExitsAndEntries

\* Before its initial transition the machine is in top.
LEMMA HsmStart == ASSUME LibrariesAssumption PROVE Hsm!Init => HsmInv
<1> SUFFICES ASSUME Hsm!Init PROVE HsmInv
  OBVIOUS
<1>1. super \in Hsm!Trees /\ m_state = top /\ ~stable /\ ~hsm_failed /\ active = {} /\ last = Hsm!NoTransition
  BY DEF Hsm!Init
<1>2. Hsm!Chain[top] = <<top>>
  BY <1>1, ChainIs DEF Linked, Nodes
<1>3. Hsm!Range(<<top>>) = {top}
  BY DEF Hsm!Range
<1> QED
  BY <1>1, <1>2, <1>3 DEF HsmInv, Nodes, Hsm!ExitsAndEntries

\* A chain that does not fit is that of a deep state.
LEMMA TooDeep ==
  ASSUME LibrariesAssumption, NEW g \in States, NEW path, Len(path) \in 0..Height(g), Height(g) \in Nat,
         ~Hsm!Fits(path)
  PROVE  \E x \in States : Len(Hsm!Chain[x]) > MaxDepth
BY DEF LibrariesAssumption, Hsm!HsmAssumption, Hsm!Fits, Height

\* Every transition takes the ways to the state it stays in; one whose path does not
\* fit has met a state that is too deep.
LEMMA HsmNext == ASSUME LibrariesAssumption PROVE HsmInv /\ [Hsm!Next]_(Hsm!vars) => HsmInv'
<1> SUFFICES ASSUME HsmInv, [Hsm!Next]_(Hsm!vars) PROVE HsmInv'
  OBVIOUS
<1>1. super \in Hsm!Trees /\ m_state \in Nodes /\ (stable => ~hsm_failed) /\ Hsm!ExitsAndEntries
  BY DEF HsmInv
<1>2. super' = super
  BY DEF Hsm!Next, Hsm!Dispatch, Hsm!InitialTransition, Hsm!Settle, Hsm!Restart, Hsm!vars
<1>3. Hsm!Chain' = Hsm!Chain /\ (super \in Hsm!Trees)'
  BY <1>1, <1>2 DEF Hsm!Chain
<1>4. /\ \A x : Hsm!AtOrAbove(x)' = Hsm!AtOrAbove(x) /\ Hsm!Above(x)' = Hsm!Above(x)
      /\ \A s, g : Hsm!Domain(s, g)' = Hsm!Domain(s, g)
  BY <1>2, <1>3 DEF Hsm!AtOrAbove, Hsm!Above, Hsm!Domain
<1>5. ~hsm_failed => active = Hsm!AtOrAbove(m_state) \ {top}
  BY <1>1 DEF Hsm!ExitsAndEntries, Hsm!AtOrAbove
<1>6. ASSUME NEW d, Ways(d)' PROVE Hsm!ExitsAndEntries'
  <2>1. (Ways(d) => Hsm!ExitsAndEntries /\ last.exits \in Seq(States) /\ last.entries \in Seq(States))'
    BY WaysHold, PTL
  <2> QED BY <1>6, <2>1
<1>7. ASSUME NEW g \in States, NEW path, Len(path) \in 0..Height(g), ~Hsm!Fits(path), hsm_failed'
      PROVE  Hsm!ExitsAndEntries'
  <2>1. Height(g) \in Nat
    BY <1>1, ChainFacts DEF Nodes
  <2>2. \E x \in States : Len(Hsm!Chain[x]) > MaxDepth
    BY <1>7, <2>1, TooDeep
  <2> QED BY <1>3, <1>7, <2>2 DEF Hsm!ExitsAndEntries
<1>8. CASE Hsm!Dispatch
  <2>1. stable /\ ~hsm_failed
    BY <1>1, <1>8 DEF Hsm!Dispatch
  <2>2. PICK s \in Hsm!Range(Hsm!Chain[m_state]) \ {top}, g \in States :
          LET exits == Hsm!Before(Hsm!Chain[m_state], s) \o Hsm!Exits(s, g)
              entries == Hsm!Reverse(Hsm!EntryPath(s, g))
          IN  IF Hsm!Fits(Hsm!StoredPath(s, g))
              THEN /\ active' = (active \ Hsm!Range(exits)) \cup Hsm!Range(entries)
                   /\ m_state' = g
                   /\ stable' = FALSE
                   /\ last' = [from |-> m_state, source |-> s, target |-> g,
                               exits |-> exits, entries |-> entries]
                   /\ UNCHANGED hsm_failed
              ELSE /\ hsm_failed' = TRUE
                   /\ stable' = FALSE
                   /\ last' = [Hsm!NoTransition EXCEPT !.from = m_state, !.source = s, !.target = g]
                   /\ UNCHANGED <<m_state, active>>
    BY <1>8 DEF Hsm!Dispatch
  <2>3. s \in Hsm!AtOrAbove(m_state) /\ s # top /\ s \in States /\ g \in Nodes
    <3>1. s \in Hsm!AtOrAbove(m_state) /\ Hsm!AtOrAbove(m_state) \subseteq Nodes
      BY <1>1, AboveFacts DEF Hsm!AtOrAbove
    <3> QED BY <3>1 DEF Nodes
  <2>4. PICK d : d = Hsm!Domain(s, g)
    OBVIOUS
  <2>5. /\ d \in Hsm!AtOrAbove(s) /\ d \in Hsm!AtOrAbove(g)
        /\ Hsm!Exits(s, g) = Hsm!Before(Hsm!Chain[s], d)
        /\ Hsm!EntryPath(s, g) = Hsm!Before(Hsm!Chain[g], d)
        /\ Len(Hsm!StoredPath(s, g)) \in 0..Height(g)
    BY <1>1, <2>3, <2>4, Transition
  <2>6. CASE Hsm!Fits(Hsm!StoredPath(s, g))
    <3>1. d \in Hsm!AtOrAbove(m_state) /\
          Hsm!Before(Hsm!Chain[m_state], s) \o Hsm!Exits(s, g) = Hsm!Before(Hsm!Chain[m_state], d)
      BY <1>1, <2>3, <2>5, BeforeJoined
    <3>2. PICK exits, entries : exits = Hsm!Before(Hsm!Chain[m_state], d)
                                /\ entries = Hsm!Reverse(Hsm!Before(Hsm!Chain[g], d))
      OBVIOUS
    <3>3. /\ active' = (active \ Hsm!Range(exits)) \cup Hsm!Range(entries)
          /\ m_state' = g /\ ~stable' /\ ~hsm_failed'
          /\ last' = [from |-> m_state, source |-> s, target |-> g, exits |-> exits, entries |-> entries]
      BY <2>1, <2>2, <2>5, <2>6, <3>1, <3>2
    <3>4. Hsm!Range(exits) = Hsm!AtOrAbove(m_state) \ Hsm!AtOrAbove(d)
      BY <1>1, <3>1, <3>2, BeforeHolds
    <3>5. Hsm!Range(entries) = Hsm!AtOrAbove(g) \ Hsm!AtOrAbove(d)
      <4>1. PICK b : b = Hsm!Before(Hsm!Chain[g], d)
        OBVIOUS
      <4>2. Hsm!Range(b) = Hsm!AtOrAbove(g) \ Hsm!AtOrAbove(d) /\ b \in Seq(States)
        BY <1>1, <2>3, <2>5, <4>1, BeforeHolds
      <4> QED BY <3>2, <4>1, <4>2, ReversedHolds
    <3>6. /\ Hsm!AtOrAbove(d) \subseteq Hsm!AtOrAbove(m_state) /\ Hsm!AtOrAbove(d) \subseteq Hsm!AtOrAbove(g)
          /\ top \in Hsm!AtOrAbove(d)
      <4>1. d \in Nodes
        BY <1>1, <2>3, <2>5, AboveFacts
      <4> QED BY <1>1, <2>3, <2>5, <3>1, <4>1, AboveFacts
    <3>7. active' = Hsm!AtOrAbove(g) \ {top}
      BY <1>5, <2>1, <3>3, <3>4, <3>5, <3>6
    <3>8. Stays' = d
      BY <1>4, <2>3, <2>4, <3>3 DEF Stays
    <3>9. Ways(d)'
      BY <1>1, <1>3, <1>4, <2>5, <3>1, <3>2, <3>3, <3>7, <3>8 DEF Ways
    <3> QED BY <1>3, <1>6, <2>3, <3>3, <3>9 DEF HsmInv
  <2>7. CASE ~Hsm!Fits(Hsm!StoredPath(s, g))
    <3>1. hsm_failed' /\ ~stable' /\ m_state' = m_state
      BY <2>2, <2>7
    <3> QED BY <1>1, <1>3, <1>7, <2>5, <2>7, <3>1 DEF HsmInv
  <2> QED BY <2>6, <2>7
<1>9. CASE Hsm!InitialTransition
  <2>1. ~stable /\ ~hsm_failed /\ stable' = stable
    BY <1>9 DEF Hsm!InitialTransition
  <2>2. PICK g \in States :
          /\ m_state \in Hsm!Above(g)
          /\ hsm_failed' = ~Hsm!Fits(Hsm!Before(Hsm!Chain[g], m_state))
          /\ m_state' = g
          /\ active' = active \cup Hsm!Range(Hsm!Before(Hsm!Chain[g], m_state))
          /\ last' = [from |-> m_state, source |-> m_state, target |-> g, exits |-> <<>>,
                      entries |-> Hsm!Reverse(Hsm!Before(Hsm!Chain[g], m_state))]
    BY <1>9 DEF Hsm!InitialTransition
  <2>3. g \in Nodes /\ m_state \in Hsm!AtOrAbove(g) /\ m_state # g
    BY <2>2 DEF Nodes, Hsm!Above, Hsm!AtOrAbove
  <2>4. PICK d, path : d = m_state /\ path = Hsm!Before(Hsm!Chain[g], d)
    OBVIOUS
  <2>5. Hsm!Range(path) = Hsm!AtOrAbove(g) \ Hsm!AtOrAbove(d) /\ d \in Nodes
        /\ Len(path) = Height(g) - Height(d)
    BY <1>1, <2>3, <2>4, BeforeHolds, BeforeIs
  <2>6. /\ Height(d) \in 1..Height(g) /\ Height(g) \in Nat /\ Hsm!AtOrAbove(d) \subseteq Hsm!AtOrAbove(g)
        /\ top \in Hsm!AtOrAbove(d) /\ d \in Hsm!AtOrAbove(d)
    BY <1>1, <2>3, <2>4, ChainFacts, AboveFacts
  <2>7. CASE Hsm!Fits(path)
    <3>1. active' = Hsm!AtOrAbove(g) \ {top} /\ ~hsm_failed'
      BY <1>5, <2>1, <2>2, <2>4, <2>5, <2>6, <2>7
    <3>2. Hsm!Before(Hsm!Chain[d], d) = <<>>
      <4>1. Hsm!Before(Hsm!Chain[d], d) \in Seq(Nodes) /\ Len(Hsm!Before(Hsm!Chain[d], d)) = 0
        BY <1>1, <2>5, <2>6, BeforeIs
      <4> QED BY <4>1, EmptySeq
    <3>3. Stays' = d
      <4>1. CASE d = top
        BY <2>2, <2>4, <4>1 DEF Stays
      <4>2. CASE d # top
        <5>1. d \in States /\ d # g
          BY <2>3, <2>4, <2>5, <4>2 DEF Nodes
        <5>2. Hsm!Domain(d, g) = d
          BY <1>1, <2>3, <2>4, <2>6, <5>1, DomainIs
        <5> QED BY <1>4, <2>2, <2>4, <4>2, <5>2 DEF Stays
      <4> QED BY <4>1, <4>2
    <3>4. Ways(d)'
      BY <1>1, <1>3, <1>4, <2>2, <2>3, <2>4, <2>6, <3>1, <3>2, <3>3 DEF Ways
    <3> QED BY <1>3, <1>6, <2>1, <2>2, <2>3, <3>4 DEF HsmInv
  <2>8. CASE ~Hsm!Fits(path)
    <3>1. Len(path) \in 0..Height(g)
      <4>1. ASSUME NEW m \in Nat, NEW n \in 1..m PROVE m - n \in 0..m
        OBVIOUS
      <4> QED BY <2>5, <2>6, <4>1
    <3>2. hsm_failed'
      BY <2>2, <2>4, <2>8
    <3> QED BY <1>3, <1>7, <2>1, <2>2, <2>3, <2>8, <3>1, <3>2 DEF HsmInv
  <2> QED BY <2>7, <2>8
<1>10. ASSUME UNCHANGED <<m_state, hsm_failed, active, last>>, stable' => ~hsm_failed PROVE HsmInv'
  <2>1. Hsm!ExitsAndEntries'
    <3>1. CASE hsm_failed
      BY <1>1, <1>3, <1>10, <3>1 DEF Hsm!ExitsAndEntries
    <3>2. CASE ~hsm_failed
      BY <1>1, <1>3, <1>4, <1>10, <3>2 DEF Hsm!ExitsAndEntries, Hsm!Ordered
    <3> QED BY <3>1, <3>2
  <2> QED BY <1>1, <1>3, <1>10, <2>1 DEF HsmInv
<1>11. CASE Hsm!Settle
  BY <1>10, <1>11 DEF Hsm!Settle
<1>12. CASE Hsm!Restart
  <2>1. m_state' = top /\ ~stable' /\ ~hsm_failed' /\ active' = {} /\ last' = Hsm!NoTransition
    BY <1>12 DEF Hsm!Restart
  <2>2. Hsm!Chain[top] = <<top>>
    BY <1>1, ChainIs DEF Linked, Nodes
  <2>3. Hsm!Range(<<top>>) = {top}
    BY DEF Hsm!Range
  <2>4. Hsm!ExitsAndEntries'
    BY <1>3, <2>1, <2>2, <2>3 DEF Hsm!ExitsAndEntries
  <2> QED BY <1>3, <2>1, <2>4 DEF HsmInv, Nodes
<1>13. CASE UNCHANGED Hsm!vars
  BY <1>1, <1>10, <1>13 DEF Hsm!vars
<1> QED BY <1>8, <1>9, <1>11, <1>12, <1>13 DEF Hsm!Next

\* In every tree of states, whatever transitions are taken from whichever states, the
\* machine exits what is active below the state a transition stays in, from the leaf
\* upwards, and enters what leads to its target, from above, each once; and it fails
\* only where states are nested too deep.
THEOREM TransitionsCorrect == ASSUME LibrariesAssumption PROVE Hsm!Spec => []ExitsAndEntries
<1>1. HsmInv => ExitsAndEntries
  BY DEF HsmInv, ExitsAndEntries
<1> QED
  BY <1>1, HsmStart, HsmNext, PTL DEF Hsm!Spec

-----------------------------------------------------------------------------
(* Its types.                                                              *)

\* The state machine's variables have their types.
LEMMA HsmTypeStart == ASSUME LibrariesAssumption PROVE Hsm!Init => Hsm!TypeOK
<1> SUFFICES ASSUME Hsm!Init PROVE Hsm!TypeOK
  OBVIOUS
<1>1. <<>> \in Seq(States)
  OBVIOUS
<1> QED BY <1>1 DEF Hsm!Init, Hsm!TypeOK, Hsm!NoTransition, Hsm!Trees

\* And keep them.
LEMMA HsmTypeNext ==
  ASSUME LibrariesAssumption PROVE HsmInv /\ Hsm!TypeOK /\ [Hsm!Next]_(Hsm!vars) => Hsm!TypeOK'
<1> SUFFICES ASSUME HsmInv, Hsm!TypeOK, [Hsm!Next]_(Hsm!vars) PROVE Hsm!TypeOK'
  OBVIOUS
<1>1. super \in Hsm!Trees /\ m_state \in Nodes
  BY DEF HsmInv
<1>2. super' = super
  BY DEF Hsm!Next, Hsm!Dispatch, Hsm!InitialTransition, Hsm!Settle, Hsm!Restart, Hsm!vars
<1> USE <1>2 DEF Hsm!TypeOK
<1>3. <<>> \in Seq(States)
  OBVIOUS
<1>4. Hsm!NoTransition = [from |-> top, source |-> top, target |-> top, exits |-> <<>>, entries |-> <<>>]
  BY DEF Hsm!NoTransition
<1>5. ASSUME NEW x \in Nodes, NEW y \in Hsm!AtOrAbove(x)
      PROVE  LET b == Hsm!Before(Hsm!Chain[x], y)
             IN  /\ b \in Seq(States) /\ Hsm!Reverse(b) \in Seq(States)
                 /\ Hsm!Range(b) \subseteq States /\ Hsm!Range(Hsm!Reverse(b)) \subseteq States
  <2>1. PICK b : b = Hsm!Before(Hsm!Chain[x], y)
    OBVIOUS
  <2>2. Hsm!Range(b) = Hsm!AtOrAbove(x) \ Hsm!AtOrAbove(y) /\ b \in Seq(States)
    BY <1>1, <2>1, BeforeHolds
  <2>3. Hsm!AtOrAbove(x) \subseteq Nodes /\ y \in Nodes
    BY <1>1, AboveFacts
  <2>4. top \in Hsm!AtOrAbove(y)
    BY <1>1, <2>3, AboveFacts
  <2>5. Hsm!Reverse(b) \in Seq(States) /\ Hsm!Range(Hsm!Reverse(b)) = Hsm!Range(b)
    BY <2>2, ReversedHolds
  <2> QED BY <2>1, <2>2, <2>3, <2>4, <2>5 DEF Nodes
<1>6. CASE Hsm!Dispatch
  <2>1. stable' \in BOOLEAN
    BY <1>6 DEF Hsm!Dispatch
  <2>2. PICK s \in Hsm!Range(Hsm!Chain[m_state]) \ {top}, g \in States :
          LET exits == Hsm!Before(Hsm!Chain[m_state], s) \o Hsm!Exits(s, g)
              entries == Hsm!Reverse(Hsm!EntryPath(s, g))
          IN  IF Hsm!Fits(Hsm!StoredPath(s, g))
              THEN /\ active' = (active \ Hsm!Range(exits)) \cup Hsm!Range(entries)
                   /\ m_state' = g
                   /\ stable' = FALSE
                   /\ last' = [from |-> m_state, source |-> s, target |-> g,
                               exits |-> exits, entries |-> entries]
                   /\ UNCHANGED hsm_failed
              ELSE /\ hsm_failed' = TRUE
                   /\ stable' = FALSE
                   /\ last' = [Hsm!NoTransition EXCEPT !.from = m_state, !.source = s, !.target = g]
                   /\ UNCHANGED <<m_state, active>>
    BY <1>6 DEF Hsm!Dispatch
  <2>3. s \in Hsm!AtOrAbove(m_state) /\ s # top /\ s \in States /\ g \in Nodes
    <3>1. s \in Hsm!AtOrAbove(m_state) /\ Hsm!AtOrAbove(m_state) \subseteq Nodes
      BY <1>1, AboveFacts DEF Hsm!AtOrAbove
    <3> QED BY <3>1 DEF Nodes
  <2>4. PICK d : d = Hsm!Domain(s, g)
    OBVIOUS
  <2>5. /\ d \in Hsm!AtOrAbove(s) /\ d \in Hsm!AtOrAbove(g)
        /\ Hsm!Exits(s, g) = Hsm!Before(Hsm!Chain[s], d)
        /\ Hsm!EntryPath(s, g) = Hsm!Before(Hsm!Chain[g], d)
    BY <1>1, <2>3, <2>4, Transition
  <2>6. d \in Hsm!AtOrAbove(m_state) /\
        Hsm!Before(Hsm!Chain[m_state], s) \o Hsm!Exits(s, g) = Hsm!Before(Hsm!Chain[m_state], d)
    BY <1>1, <2>3, <2>5, BeforeJoined
  <2>7. PICK exits, entries : /\ exits = Hsm!Before(Hsm!Chain[m_state], s) \o Hsm!Exits(s, g)
                              /\ entries = Hsm!Reverse(Hsm!EntryPath(s, g))
    OBVIOUS
  <2>8. exits \in Seq(States) /\ entries \in Seq(States) /\ Hsm!Range(entries) \subseteq States
    BY <1>1, <1>5, <2>3, <2>5, <2>6, <2>7
  <2>9. CASE Hsm!Fits(Hsm!StoredPath(s, g))
    <3>1. /\ active' = (active \ Hsm!Range(exits)) \cup Hsm!Range(entries)
          /\ m_state' = g /\ hsm_failed' = hsm_failed
          /\ last' = [from |-> m_state, source |-> s, target |-> g, exits |-> exits, entries |-> entries]
      BY <2>2, <2>7, <2>9
    <3>2. hsm_failed' \in BOOLEAN
      BY <3>1
    <3>3. active' \in SUBSET States
      BY <2>8, <3>1
    <3> QED BY <2>1, <2>3, <2>8, <3>1, <3>2, <3>3 DEF Nodes
  <2>10. CASE ~Hsm!Fits(Hsm!StoredPath(s, g))
    <3>1. hsm_failed' \in BOOLEAN
      BY <2>2, <2>10
    <3>2. /\ last' = [Hsm!NoTransition EXCEPT !.from = m_state, !.source = s, !.target = g]
          /\ m_state' = m_state /\ active' = active
      BY <2>2, <2>10
    <3> QED BY <1>3, <1>4, <2>1, <2>3, <3>1, <3>2 DEF Nodes
  <2> QED BY <2>9, <2>10
<1>7. CASE Hsm!InitialTransition
  <2>1. PICK g \in States :
          /\ m_state \in Hsm!Above(g)
          /\ hsm_failed' = ~Hsm!Fits(Hsm!Before(Hsm!Chain[g], m_state))
          /\ m_state' = g
          /\ active' = active \cup Hsm!Range(Hsm!Before(Hsm!Chain[g], m_state))
          /\ last' = [from |-> m_state, source |-> m_state, target |-> g, exits |-> <<>>,
                      entries |-> Hsm!Reverse(Hsm!Before(Hsm!Chain[g], m_state))]
    BY <1>7 DEF Hsm!InitialTransition
  <2>2. stable' \in BOOLEAN
    BY <1>7 DEF Hsm!InitialTransition
  <2>3. hsm_failed' \in BOOLEAN
    BY <2>1 DEF Hsm!Fits
  <2>4. g \in Nodes /\ m_state \in Hsm!AtOrAbove(g)
    BY <2>1 DEF Nodes, Hsm!Above, Hsm!AtOrAbove
  <2>5. /\ Hsm!Reverse(Hsm!Before(Hsm!Chain[g], m_state)) \in Seq(States)
        /\ Hsm!Range(Hsm!Before(Hsm!Chain[g], m_state)) \subseteq States
    BY <1>5, <2>4
  <2> QED BY <1>1, <1>3, <2>1, <2>2, <2>3, <2>5 DEF Nodes
<1>8. CASE Hsm!Settle
  BY <1>8 DEF Hsm!Settle
<1>9. CASE Hsm!Restart
  <2>1. stable' \in BOOLEAN /\ hsm_failed' \in BOOLEAN
    BY <1>9 DEF Hsm!Restart
  <2> QED BY <1>3, <1>4, <1>9, <2>1 DEF Hsm!Restart
<1>10. CASE UNCHANGED Hsm!vars
  BY <1>10 DEF Hsm!vars
<1> QED BY <1>6, <1>7, <1>8, <1>9, <1>10 DEF Hsm!Next

\* The types of the state machine, for every tree of states.
LEMMA HsmTyped == ASSUME LibrariesAssumption PROVE Hsm!Spec => []Hsm!TypeOK
BY HsmStart, HsmNext, HsmTypeStart, HsmTypeNext, PTL DEF Hsm!Spec
=============================================================================
