----------------------------- MODULE RoleWalks -----------------------------
(* Facts about the walks up the forest of roles, of any length and for any table
   of parents: RolesProofs compares the walks before and after a write. *)
EXTENDS Roles, WellFoundedInduction, TLAPS

(* One hop of a walk, from the roles it has reached. *)
Up(P, E, S) == {P[x] : x \in S \cap E} \ {None}

(* Where n hops lead from r when the parents are P and the roles there are E. *)
Hop(P, E, r, n) ==
    LET up[k \in 0..n] ==
            IF k = 0 THEN {r} ELSE {P[x] : x \in up[k - 1] \cap E} \ {None}
    IN  up[n]

IsWalk(f, P, E, r, n) == f = [k \in 0..n |-> IF k = 0 THEN {r} ELSE Up(P, E, f[k - 1])]

(* A set of numbers with 0 in it and the successor of each is all of them. *)
LEMMA AllNumbers ==
    ASSUME NEW T \in SUBSET Nat, 0 \in T, \A n \in T : n + 1 \in T
    PROVE  \A n \in Nat : n \in T
<1> SUFFICES ASSUME Nat \ T # {} PROVE FALSE
  OBVIOUS
<1>0. Nat \ T \subseteq Nat
  OBVIOUS
<1>1. PICK n \in Nat \ T : \A m \in Nat \ T : ~(<<m, n>> \in OpToRel(<, Nat))
  BY <1>0, NatLessThanWellFounded, WFMin
<1>2. \A m, k \in Nat : m < k => <<m, k>> \in OpToRel(<, Nat)
  BY Zenon DEF OpToRel
<1>3. \A m \in Nat \ T : ~(m < n)
  <2> SUFFICES ASSUME NEW m \in Nat \ T, m < n PROVE FALSE
    OBVIOUS
  <2>1. m \in Nat /\ n \in Nat
    OBVIOUS
  <2>2. <<m, n>> \in OpToRel(<, Nat)
    BY <1>2, <2>1, Zenon
  <2> QED BY <1>1, <2>2, Zenon
<1>4. n # 0 /\ n - 1 \in Nat /\ n - 1 < n /\ (n - 1) + 1 = n
  OBVIOUS
<1>5. n - 1 \in T
  BY <1>3, <1>4
<1> QED BY <1>1, <1>4, <1>5

(* Every walk can be gone for any number of hops. *)
LEMMA WalkExists ==
    ASSUME NEW P, NEW E, NEW r, NEW n \in Nat
    PROVE  \E f : IsWalk(f, P, E, r, n)
<1> DEFINE T == {m \in Nat : \E f : IsWalk(f, P, E, r, m)}
<1>1. 0 \in T
  <2>1. IsWalk([k \in 0..0 |-> {r}], P, E, r, 0)
    BY DEF IsWalk
  <2> QED BY <2>1
<1>2. ASSUME NEW m \in T PROVE m + 1 \in T
  <2>1. PICK g : IsWalk(g, P, E, r, m)
    OBVIOUS
  <2> DEFINE f == [k \in 0..(m + 1) |-> IF k = m + 1 THEN Up(P, E, g[m]) ELSE g[k]]
  <2>2. ASSUME NEW k \in 0..(m + 1)
        PROVE  f[k] = IF k = 0 THEN {r} ELSE Up(P, E, f[k - 1])
    <3>1. CASE k = m + 1
      BY <3>1
    <3>2. CASE k # m + 1
      <4>1. k \in 0..m /\ f[k] = g[k]
        BY <3>2
      <4>2. k # 0 => k - 1 \in 0..m /\ f[k - 1] = g[k - 1]
        BY <4>1
      <4>3. g[k] = IF k = 0 THEN {r} ELSE Up(P, E, g[k - 1])
        BY <2>1, <4>1 DEF IsWalk
      <4> QED BY <4>1, <4>2, <4>3
    <3> QED BY <3>1, <3>2
  <2>3. IsWalk(f, P, E, r, m + 1)
    <3>1. f = [k \in 0..(m + 1) |-> f[k]]
      OBVIOUS
    <3> QED BY <2>2, <3>1 DEF IsWalk
  <2> QED BY <2>3
<1>3. T \in SUBSET Nat
  OBVIOUS
<1>4. n \in T
  <2> HIDE DEF T
  <2> QED BY <1>1, <1>2, <1>3, AllNumbers
<1> QED BY <1>4

(* Two walks from one role agree as far as both go. *)
LEMMA WalksAgree ==
    ASSUME NEW P, NEW E, NEW r, NEW n \in Nat, NEW m \in Nat, n <= m,
           NEW f, NEW g, IsWalk(f, P, E, r, n), IsWalk(g, P, E, r, m)
    PROVE  \A k \in 0..n : f[k] = g[k]
<1> DEFINE T == {k \in Nat : k <= n => f[k] = g[k]}
<1>1. 0 \in T
  BY DEF IsWalk
<1>2. ASSUME NEW k \in T PROVE k + 1 \in T
  <2> SUFFICES ASSUME k + 1 <= n PROVE f[k + 1] = g[k + 1]
    OBVIOUS
  <2>1. f[k] = g[k] /\ k + 1 \in 0..n /\ k + 1 \in 0..m /\ k + 1 # 0 /\ (k + 1) - 1 = k
    OBVIOUS
  <2>2. f[k + 1] = Up(P, E, f[k]) /\ g[k + 1] = Up(P, E, g[k])
    BY <2>1 DEF IsWalk
  <2> QED BY <2>1, <2>2
<1>3. \A k \in Nat : k \in T
  BY <1>1, <1>2, AllNumbers
<1> QED BY <1>3

(* Hop is where a walk of that length ends. *)
LEMMA HopEnds ==
    ASSUME NEW P, NEW E, NEW r, NEW n \in Nat, NEW f, IsWalk(f, P, E, r, n)
    PROVE  Hop(P, E, r, n) = f[n]
<1> DEFINE up == CHOOSE u : u = [k \in 0..n |-> IF k = 0 THEN {r} ELSE {P[x] : x \in u[k - 1] \cap E} \ {None}]
<1>1. Hop(P, E, r, n) = up[n]
  BY DEF Hop
<1>2. IsWalk(up, P, E, r, n)
  BY WalkExists, Zenon DEF IsWalk, Up
<1> HIDE DEF up
<1> QED BY <1>1, <1>2, WalksAgree

LEMMA HopZero ==
    ASSUME NEW P, NEW E, NEW r
    PROVE  Hop(P, E, r, 0) = {r}
<1>1. PICK f : IsWalk(f, P, E, r, 0)
  BY WalkExists
<1>2. f[0] = {r}
  BY <1>1 DEF IsWalk
<1> QED BY <1>1, <1>2, HopEnds

LEMMA HopNext ==
    ASSUME NEW P, NEW E, NEW r, NEW n \in Nat
    PROVE  Hop(P, E, r, n + 1) = Up(P, E, Hop(P, E, r, n))
<1>0. /\ n + 1 \in Nat /\ n <= n + 1 /\ n \in 0..n
      /\ n + 1 \in 0..(n + 1) /\ n + 1 # 0 /\ (n + 1) - 1 = n
  OBVIOUS
<1>1. PICK f : IsWalk(f, P, E, r, n + 1)
  BY <1>0, WalkExists
<1>2. PICK g : IsWalk(g, P, E, r, n)
  BY WalkExists
<1>3. f[n] = g[n]
  BY <1>0, <1>1, <1>2, WalksAgree
<1>4. f[n + 1] = Up(P, E, f[n])
  BY <1>0, <1>1 DEF IsWalk
<1> QED BY <1>0, <1>1, <1>2, <1>3, <1>4, HopEnds

(* The model's walk is this one, before and after a step. *)
LEMMA AtHopIsHop ==
    ASSUME NEW r, NEW n
    PROVE  /\ AtHop(r, n) = Hop(parent, exists, r, n)
           /\ AtHop(r, n)' = Hop(parent', exists', r, n)
  BY Zenon DEF AtHop, Hop

(* A walk is at one role at a time, or past its root. *)
LEMMA HopOne ==
    ASSUME NEW P, NEW E, NEW r, NEW n \in Nat
    PROVE  \A x, y \in Hop(P, E, r, n) : x = y
<1> DEFINE T == {m \in Nat : \A x, y \in Hop(P, E, r, m) : x = y}
<1>1. 0 \in T
  BY HopZero
<1>2. ASSUME NEW m \in T PROVE m + 1 \in T
  <2>1. Hop(P, E, r, m + 1) = Up(P, E, Hop(P, E, r, m))
    BY HopNext
  <2>2. \A x, y \in Up(P, E, Hop(P, E, r, m)) : x = y
    BY DEF Up
  <2> QED BY <2>1, <2>2
<1>3. T \in SUBSET Nat
  OBVIOUS
<1>4. n \in T
  <2> HIDE DEF T
  <2> QED BY <1>1, <1>2, <1>3, AllNumbers
<1> QED BY <1>4

(* A walk goes on from where it is as one that begins there. *)
LEMMA HopJoin ==
    ASSUME NEW P, NEW E, NEW r, NEW n \in Nat, NEW x \in Hop(P, E, r, n), NEW k \in Nat
    PROVE  Hop(P, E, r, n + k) = Hop(P, E, x, k)
<1> DEFINE T == {m \in Nat : Hop(P, E, r, n + m) = Hop(P, E, x, m)}
<1>1. 0 \in T
  <2>1. Hop(P, E, r, n) = {x}
    BY HopOne
  <2>2. n + 0 = n /\ Hop(P, E, x, 0) = {x}
    BY HopZero
  <2> QED BY <2>1, <2>2
<1>2. ASSUME NEW m \in T PROVE m + 1 \in T
  <2>1. n + m \in Nat /\ n + (m + 1) = (n + m) + 1
    OBVIOUS
  <2>2. Hop(P, E, r, (n + m) + 1) = Up(P, E, Hop(P, E, r, n + m))
    BY <2>1, HopNext
  <2>3. Hop(P, E, x, m + 1) = Up(P, E, Hop(P, E, x, m))
    BY HopNext
  <2> QED BY <2>1, <2>2, <2>3
<1>3. T \in SUBSET Nat
  OBVIOUS
<1>4. k \in T
  <2> HIDE DEF T
  <2> QED BY <1>1, <1>2, <1>3, AllNumbers
<1> QED BY <1>4

(* Past its root a walk stays. *)
LEMMA HopPast ==
    ASSUME NEW P, NEW E, NEW r, NEW n \in Nat, Hop(P, E, r, n) = {}, NEW m \in Nat, n <= m
    PROVE  Hop(P, E, r, m) = {}
<1> DEFINE T == {k \in Nat : Hop(P, E, r, n + k) = {}}
<1>1. 0 \in T
  <2>1. n + 0 = n
    OBVIOUS
  <2> QED BY <2>1
<1>2. ASSUME NEW k \in T PROVE k + 1 \in T
  <2>1. n + k \in Nat /\ n + (k + 1) = (n + k) + 1
    OBVIOUS
  <2>2. Hop(P, E, r, (n + k) + 1) = Up(P, E, Hop(P, E, r, n + k))
    BY <2>1, HopNext
  <2> QED BY <2>1, <2>2 DEF Up
<1>3. T \in SUBSET Nat
  OBVIOUS
<1>4. m - n \in T
  <2> HIDE DEF T
  <2>1. m - n \in Nat
    OBVIOUS
  <2> QED BY <1>1, <1>2, <1>3, <2>1, AllNumbers
<1>5. n + (m - n) = m
  OBVIOUS
<1> QED BY <1>4, <1>5

(* A walk that comes back to its start has no end. *)
LEMMA NoLoop ==
    ASSUME NEW P, NEW E, NEW r, NEW c \in Nat, c # 0, r \in Hop(P, E, r, c), NEW n \in Nat
    PROVE  Hop(P, E, r, n) # {}
<1> DEFINE T == {m \in Nat : \A k \in Nat : k < m + c => Hop(P, E, r, k) # {}}
<1>0. ASSUME NEW k \in Nat, k <= c PROVE Hop(P, E, r, k) # {}
  BY <1>0, HopPast
<1>1. 0 \in T
  BY <1>0
<1>2. ASSUME NEW m \in T PROVE m + 1 \in T
  <2> SUFFICES ASSUME NEW k \in Nat, k < (m + 1) + c PROVE Hop(P, E, r, k) # {}
    OBVIOUS
  <2>1. CASE k < c
    BY <1>0, <2>1
  <2>2. CASE k >= c
    <3>1. k - c \in Nat /\ k - c < m + c /\ c + (k - c) = k
      BY <2>2
    <3>2. Hop(P, E, r, k - c) # {}
      BY <3>1
    <3>3. Hop(P, E, r, c + (k - c)) = Hop(P, E, r, k - c)
      BY <3>1, HopJoin
    <3> QED BY <3>1, <3>2, <3>3
  <2> QED BY <2>1, <2>2
<1>3. T \in SUBSET Nat
  OBVIOUS
<1>4. n \in T
  <2> HIDE DEF T
  <2> QED BY <1>1, <1>2, <1>3, AllNumbers
<1>5. n < n + c
  OBVIOUS
<1> QED BY <1>4, <1>5

(* Two tables that agree on C, which no walk leaves, have the same walks there. *)
LEMMA HopSame ==
    ASSUME NEW P, NEW E, NEW Q, NEW F, NEW C,
           \A x \in C : /\ x \in E <=> x \in F
                        /\ x \in E => P[x] = Q[x] /\ P[x] \in C \cup {None},
           NEW r \in C, NEW n \in Nat
    PROVE  Hop(P, E, r, n) = Hop(Q, F, r, n) /\ Hop(P, E, r, n) \subseteq C
<1> DEFINE T == {m \in Nat : Hop(P, E, r, m) = Hop(Q, F, r, m) /\ Hop(P, E, r, m) \subseteq C}
<1>1. 0 \in T
  <2>1. Hop(P, E, r, 0) = {r} /\ Hop(Q, F, r, 0) = {r}
    BY HopZero
  <2> QED BY <2>1
<1>2. ASSUME NEW m \in T PROVE m + 1 \in T
  <2>1. PICK S : S = Hop(P, E, r, m) /\ S = Hop(Q, F, r, m) /\ S \subseteq C
    OBVIOUS
  <2>2. Up(P, E, S) = Up(Q, F, S) /\ Up(P, E, S) \subseteq C
    BY <2>1 DEF Up
  <2>3. Hop(P, E, r, m + 1) = Up(P, E, S) /\ Hop(Q, F, r, m + 1) = Up(Q, F, S)
    BY <2>1, HopNext
  <2> QED BY <2>2, <2>3
<1>3. T \in SUBSET Nat
  OBVIOUS
<1>4. n \in T
  <2> HIDE DEF T
  <2> QED BY <1>1, <1>2, <1>3, AllNumbers
<1> QED BY <1>4

(* A walk from a role that has a parent begins with it. *)
LEMMA HopFirst ==
    ASSUME NEW P, NEW E, NEW x \in E, NEW n \in Nat
    PROVE  Hop(P, E, x, n + 1) = IF P[x] = None THEN {} ELSE Hop(P, E, P[x], n)
<1>1. Hop(P, E, x, 1) = {P[x]} \ {None}
  <2>1. Hop(P, E, x, 0) = {x} /\ 0 \in Nat /\ 0 + 1 = 1
    BY HopZero
  <2>2. Hop(P, E, x, 0 + 1) = Up(P, E, {x})
    BY <2>1, HopNext
  <2> QED BY <2>1, <2>2 DEF Up
<1>2. 1 \in Nat /\ 1 + n = n + 1 /\ 1 <= n + 1 /\ n + 1 \in Nat
  OBVIOUS
<1>3. CASE P[x] = None
  <2>1. Hop(P, E, x, 1) = {}
    BY <1>1, <1>3
  <2>2. Hop(P, E, x, n + 1) = {}
    BY <1>2, <2>1, HopPast
  <2> QED BY <1>3, <2>2
<1>4. CASE P[x] # None
  <2>1. P[x] \in Hop(P, E, x, 1)
    BY <1>1, <1>4
  <2>2. Hop(P, E, x, 1 + n) = Hop(P, E, P[x], n)
    BY <1>2, <2>1, HopJoin
  <2> QED BY <1>2, <1>4, <2>2
<1> QED BY <1>3, <1>4

(* The roles from which no walk comes by r. *)
Off(P, E, r) == {x \in E : \A n \in Nat : r \notin Hop(P, E, x, n)}

(* A change of r's parent changes none of their walks. *)
LEMMA MoveSame ==
    ASSUME NEW P, NEW E, \A x \in E : P[x] \in E \cup {None}, NEW r, NEW Q,
           \A x \in E : x # r => Q[x] = P[x],
           NEW y \in Off(P, E, r), NEW n \in Nat
    PROVE  Hop(P, E, y, n) = Hop(Q, E, y, n) /\ Hop(P, E, y, n) \subseteq Off(P, E, r)
<1>1. ASSUME NEW x \in Off(P, E, r)
      PROVE  x \in E /\ Q[x] = P[x] /\ P[x] \in Off(P, E, r) \cup {None}
  <2>1. x \in E
    BY DEF Off
  <2>2. x # r
    <3>1. r \notin Hop(P, E, x, 0)
      BY DEF Off
    <3> QED BY <3>1, HopZero
  <2>3. ASSUME P[x] # None, NEW k \in Nat PROVE r \notin Hop(P, E, P[x], k)
    <3>1. k + 1 \in Nat
      OBVIOUS
    <3>2. Hop(P, E, x, k + 1) = Hop(P, E, P[x], k)
      BY <2>1, <2>3, HopFirst
    <3>3. r \notin Hop(P, E, x, k + 1)
      BY <3>1 DEF Off
    <3> QED BY <3>2, <3>3
  <2>4. P[x] # None => P[x] \in Off(P, E, r)
    BY <2>1, <2>3 DEF Off
  <2> QED BY <2>1, <2>2, <2>4
<1>2. PICK C : C = Off(P, E, r)
  OBVIOUS
<1>3. \A x \in C : /\ x \in E <=> x \in E
                   /\ x \in E => P[x] = Q[x] /\ P[x] \in C \cup {None}
  BY <1>1, <1>2
<1> QED BY <1>2, <1>3, HopSame
=============================================================================
