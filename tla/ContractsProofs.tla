--------------------------- MODULE ContractsProofs ---------------------------
(***************************************************************************)
(* Theorems about Contracts, for every value of its constants: any number  *)
(* of parties, orders and nested calls, any amounts.                       *)
(*                                                                         *)
(* The argument: ContractsInv says of the current state, and of the state  *)
(* that each call under way would revert to, which calls it lies inside,   *)
(* that the books balance when no call of the escrow is among them, and    *)
(* how far from balanced they are when one is.  The vault's books balance  *)
(* everywhere.  The fork point of the next reorganization is a state       *)
(* between calls whose orders the committed ones follow (ForkInv).         *)
(*                                                                         *)
(* Sums over orders and parties change by one summand at a time; the first *)
(* part proves that of SumFunctionOnSet, by induction on the size of the   *)
(* set (as the absence of a least counterexample).                         *)
(***************************************************************************)
EXTENDS Contracts, FiniteSetTheorems, SequenceTheorems, WellFoundedInduction, TLAPS

-----------------------------------------------------------------------------
(* Sums *)

\* A non-empty set of numbers has a least element: induction for the proofs below.
LEMMA LeastElement ==
    ASSUME NEW T \in SUBSET Nat, T # {}
    PROVE  \E x \in T : \A y \in T : x <= y
<1>1. \A x, y \in Nat : <<x, y>> \in OpToRel(<, Nat) <=> x < y
  BY DEF OpToRel
<1>2. PICK x \in T : \A y \in T : ~ (<<y, x>> \in OpToRel(<, Nat))
  BY NatLessThanWellFounded, WFMin
<1>3. \A y \in T : ~ (y < x)
  BY <1>1, <1>2
<1>4. \A y \in T : x <= y
  BY <1>3
<1> QED
  BY <1>4

Pick(s) == CHOOSE x \in s : TRUE

\* What the recursion of SumFunctionOnSet says of g.
Sums(g, f, D) == g = [s \in D |-> IF s = {} THEN 0 ELSE f[Pick(s)] + g[s \ {Pick(s)}]]

UpTo(S, n) == {s \in SUBSET S : Cardinality(s) <= n}

\* Taking the chosen element out of a set leaves a smaller one.
LEMMA PickSmaller ==
    ASSUME NEW S, IsFiniteSet(S), NEW s \in SUBSET S, s # {}
    PROVE  /\ Pick(s) \in s
           /\ IsFiniteSet(s) /\ Cardinality(s) \in Nat \ {0}
           /\ s \ {Pick(s)} \in SUBSET S
           /\ Cardinality(s \ {Pick(s)}) = Cardinality(s) - 1
<1>1. Pick(s) \in s
  BY DEF Pick
<1>2. IsFiniteSet(s) /\ Cardinality(s) \in Nat
  BY FS_Subset, FS_CardinalityType
<1>3. Cardinality(s \ {Pick(s)}) = Cardinality(s) - 1
  BY <1>1, <1>2, FS_RemoveElement
<1>4. Cardinality(s) # 0
  BY <1>2, FS_EmptySet
<1> QED
  BY <1>1, <1>2, <1>3, <1>4

\* The recursion of SumFunctionOnSet has a solution over the subsets of any size.
LEMMA SumsExist ==
    ASSUME NEW S, IsFiniteSet(S), NEW f
    PROVE  \A n \in Nat : \E g : Sums(g, f, UpTo(S, n))
<1> DEFINE B == {n \in Nat : ~ \E g : Sums(g, f, UpTo(S, n))}
<1>1. ASSUME NEW n \in B, \A m \in B : n <= m PROVE FALSE
  <2>1. CASE n = 0
    <3> DEFINE g == [s \in UpTo(S, 0) |-> 0]
    <3>1. \A s \in UpTo(S, 0) : s = {}
      <4> SUFFICES ASSUME NEW s \in UpTo(S, 0), s # {} PROVE FALSE
        OBVIOUS
      <4>1. s \in SUBSET S /\ Cardinality(s) <= 0
        BY DEF UpTo
      <4>2. Cardinality(s) \in Nat \ {0}
        BY <4>1, PickSmaller
      <4> QED
        BY <4>1, <4>2
    <3>2. Sums(g, f, UpTo(S, 0))
      BY <3>1 DEF Sums
    <3> HIDE DEF g
    <3> QED
      BY <3>2, <2>1
  <2>2. CASE n # 0
    <3>1. PICK h : Sums(h, f, UpTo(S, n - 1))
      <4>1. n - 1 \in Nat /\ n - 1 \notin B
        BY <1>1, <2>2
      <4> QED
        BY <4>1
    <3> DEFINE g == [s \in UpTo(S, n) |-> IF s = {} THEN 0 ELSE f[Pick(s)] + h[s \ {Pick(s)}]]
    <3>2. \A s \in UpTo(S, n - 1) : s \in UpTo(S, n) /\ g[s] = h[s]
      <4>1. \A s \in UpTo(S, n - 1) : s \in UpTo(S, n)
        <5> TAKE s \in UpTo(S, n - 1)
        <5>1. Cardinality(s) \in Nat
          BY FS_Subset, FS_CardinalityType DEF UpTo
        <5> QED
          BY <5>1, <1>1 DEF UpTo
      <4>2. \A s \in UpTo(S, n - 1) : h[s] = IF s = {} THEN 0 ELSE f[Pick(s)] + h[s \ {Pick(s)}]
        BY <3>1, Zenon DEF Sums
      <4> QED
        BY <4>1, <4>2
    <3>3. \A s \in UpTo(S, n) : s # {} => s \ {Pick(s)} \in UpTo(S, n - 1)
      BY PickSmaller, <1>1, <2>2 DEF UpTo
    <3>4. \A s \in UpTo(S, n) : s # {} => g[s \ {Pick(s)}] = h[s \ {Pick(s)}]
      BY <3>2, <3>3
    <3>5. g = [s \in UpTo(S, n) |-> IF s = {} THEN 0 ELSE f[Pick(s)] + g[s \ {Pick(s)}]]
      BY <3>4
    <3> HIDE DEF g
    <3> QED
      BY <3>5 DEF Sums
  <2> QED
    BY <2>1, <2>2
<1> HIDE DEF B
<1>2. B = {}
  BY <1>1, LeastElement DEF B
<1> QED
  BY <1>2 DEF B

Agree(f, e, T) == \A x \in T : f[x] = e[x]

\* Recursion over the subsets of two sets gives the same sums where the sets and the
\* summands agree.
LEMMA SumsAgree ==
    ASSUME NEW S, IsFiniteSet(S), NEW T \in SUBSET S, NEW f, NEW e, Agree(f, e, T),
           NEW g, Sums(g, f, SUBSET S), NEW h, Sums(h, e, SUBSET T)
    PROVE  Agree(g, h, SUBSET T)
<1> USE DEF Agree
<1> DEFINE B == {n \in Nat : \E s \in SUBSET T : Cardinality(s) = n /\ g[s] # h[s]}
<1>1. ASSUME NEW n \in B, \A m \in B : n <= m PROVE FALSE
  <2>1. PICK s \in SUBSET T : Cardinality(s) = n /\ g[s] # h[s]
    OBVIOUS
  <2>2. /\ g[s] = IF s = {} THEN 0 ELSE f[Pick(s)] + g[s \ {Pick(s)}]
        /\ h[s] = IF s = {} THEN 0 ELSE e[Pick(s)] + h[s \ {Pick(s)}]
    <3>1. s \in SUBSET S
      OBVIOUS
    <3> QED
      BY <3>1, Zenon DEF Sums
  <2>3. s # {}
    BY <2>1, <2>2
  <2>4. /\ Pick(s) \in s /\ s \ {Pick(s)} \in SUBSET T /\ Cardinality(s) \in Nat \ {0}
        /\ Cardinality(s \ {Pick(s)}) = n - 1
    BY <2>1, <2>3, PickSmaller, FS_Subset
  <2>5. n - 1 \notin B /\ n - 1 \in Nat
    BY <1>1, <2>1, <2>4
  <2>6. g[s \ {Pick(s)}] = h[s \ {Pick(s)}]
    BY <2>4, <2>5
  <2> QED
    BY <2>1, <2>2, <2>3, <2>4, <2>6
<1> HIDE DEF B
<1>2. B = {}
  BY <1>1, LeastElement DEF B
<1>3. ASSUME NEW s \in SUBSET T PROVE g[s] = h[s]
  <2>1. Cardinality(s) \in Nat
    BY FS_Subset, FS_CardinalityType
  <2> QED
    BY <1>2, <2>1 DEF B
<1> QED
  BY <1>3

SumOver(f, S) == SumFunctionOnSet(f, S)

\* SumFunctionOnSet is what its recursion says.
LEMMA SumIsSums ==
    ASSUME NEW S, IsFiniteSet(S), NEW f
    PROVE  \E g : Sums(g, f, SUBSET S) /\ SumOver(f, S) = g[S]
<1> DEFINE c == CHOOSE g : Sums(g, f, SUBSET S)
<1>1. UpTo(S, Cardinality(S)) = SUBSET S /\ Cardinality(S) \in Nat
  BY FS_Subset, FS_CardinalityType DEF UpTo
<1>2. \E g : Sums(g, f, SUBSET S)
  <2>1. PICK g : Sums(g, f, UpTo(S, Cardinality(S)))
    BY <1>1, SumsExist
  <2> QED
    BY <1>1, <2>1
<1>3. Sums(c, f, SUBSET S)
  BY <1>2
<1>4. SumOver(f, S) = c[S]
  BY Zenon DEF SumOver, SumFunctionOnSet, FoldFunctionOnSet, MapThenFoldSet, Sums, Pick
<1> QED
  BY <1>3, <1>4

\* Sums only depend on the summands.
LEMMA SumSame ==
    ASSUME NEW S, IsFiniteSet(S), NEW f, NEW e, \A x \in S : f[x] = e[x]
    PROVE  SumOver(f, S) = SumOver(e, S)
<1>1. PICK g : Sums(g, f, SUBSET S) /\ SumOver(f, S) = g[S]
  BY SumIsSums
<1>2. PICK h : Sums(h, e, SUBSET S) /\ SumOver(e, S) = h[S]
  BY SumIsSums
<1>3. S \in SUBSET S
  OBVIOUS
<1>4. Agree(f, e, S)
  BY DEF Agree
<1>5. Agree(g, h, SUBSET S)
  BY <1>1, <1>2, <1>3, <1>4, SumsAgree
<1> QED
  BY <1>1, <1>2, <1>3, <1>5 DEF Agree

\* No summands.
LEMMA SumEmpty == ASSUME NEW f PROVE SumOver(f, {}) = 0
<1>1. PICK g : Sums(g, f, SUBSET {}) /\ SumOver(f, {}) = g[{}]
  BY SumIsSums, FS_EmptySet
<1>2. g[{}] = 0
  <2>1. {} \in SUBSET {}
    OBVIOUS
  <2> QED
    BY <1>1, <2>1, Zenon DEF Sums
<1> QED
  BY <1>1, <1>2

\* The sum takes out one element, the chosen one, and adds the rest.
LEMMA SumStep ==
    ASSUME NEW S, IsFiniteSet(S), S # {}, NEW f
    PROVE  SumOver(f, S) = f[Pick(S)] + SumOver(f, S \ {Pick(S)})
<1>1. PICK g : Sums(g, f, SUBSET S) /\ SumOver(f, S) = g[S]
  BY SumIsSums
<1> DEFINE T == S \ {Pick(S)}
<1>2. T \in SUBSET S /\ IsFiniteSet(T)
  BY FS_Subset
<1> HIDE DEF T
<1>3. PICK h : Sums(h, f, SUBSET T) /\ SumOver(f, T) = h[T]
  BY <1>2, SumIsSums
<1>4. g[T] = h[T]
  <2>1. Agree(f, f, T)
    BY DEF Agree
  <2>2. Agree(g, h, SUBSET T)
    BY <1>1, <1>2, <1>3, <2>1, SumsAgree
  <2> QED
    BY <2>2 DEF Agree
<1>5. g[S] = f[Pick(S)] + g[T]
  BY <1>1, Zenon DEF Sums, T
<1> QED
  BY <1>1, <1>3, <1>4, <1>5 DEF T

\* Sums of numbers are numbers.
LEMMA SumType ==
    ASSUME NEW S, IsFiniteSet(S), NEW f, \A x \in S : f[x] \in Nat
    PROVE  SumOver(f, S) \in Nat
<1> DEFINE B == {n \in Nat : \E s \in SUBSET S : Cardinality(s) = n /\ SumOver(f, s) \notin Nat}
<1>1. ASSUME NEW n \in B, \A m \in B : n <= m PROVE FALSE
  <2>1. PICK s \in SUBSET S : Cardinality(s) = n /\ SumOver(f, s) \notin Nat
    OBVIOUS
  <2>2. s # {}
    BY <2>1, SumEmpty
  <2>3. SumOver(f, s) = f[Pick(s)] + SumOver(f, s \ {Pick(s)})
    BY <2>2, SumStep, FS_Subset
  <2>4. /\ Pick(s) \in s /\ s \ {Pick(s)} \in SUBSET S /\ Cardinality(s) \in Nat \ {0}
        /\ Cardinality(s \ {Pick(s)}) = n - 1
    BY <2>1, <2>2, PickSmaller
  <2>5. n - 1 \notin B /\ n - 1 \in Nat
    BY <1>1, <2>1, <2>4
  <2>6. SumOver(f, s \ {Pick(s)}) \in Nat
    BY <2>4, <2>5
  <2>7. f[Pick(s)] \in Nat
    BY <2>4
  <2> QED
    BY <2>1, <2>3, <2>6, <2>7
<1> HIDE DEF B
<1>2. B = {}
  BY <1>1, LeastElement DEF B
<1> QED
  BY <1>2, FS_CardinalityType DEF B

\* The order in which the elements are added does not matter.
LEMMA SumAdd ==
    ASSUME NEW S, IsFiniteSet(S), NEW f, NEW x \in S, \A y \in S : f[y] \in Nat
    PROVE  SumOver(f, S) = f[x] + SumOver(f, S \ {x})
<1> DEFINE B == {n \in Nat : \E s \in SUBSET S : \E y \in s :
                                Cardinality(s) = n /\ SumOver(f, s) # f[y] + SumOver(f, s \ {y})}
<1>1. ASSUME NEW n \in B, \A m \in B : n <= m PROVE FALSE
  <2>1. PICK s \in SUBSET S : \E y \in s : /\ Cardinality(s) = n
                                           /\ SumOver(f, s) # f[y] + SumOver(f, s \ {y})
    OBVIOUS
  <2>2. PICK y \in s : Cardinality(s) = n /\ SumOver(f, s) # f[y] + SumOver(f, s \ {y})
    BY <2>1
  <2> DEFINE c == Pick(s)
             t == s \ {c}
             u == s \ {y}
             v == t \ {y}
  <2>3. SumOver(f, s) = f[c] + SumOver(f, t)
    BY SumStep, FS_Subset
  <2>4. /\ c \in s /\ t \in SUBSET S /\ Cardinality(s) \in Nat \ {0}
        /\ Cardinality(t) = n - 1 /\ IsFiniteSet(s)
    BY <2>2, PickSmaller
  <2>5. y # c
    BY <2>2, <2>3
  <2>6. y \in t /\ c \in u /\ u \in SUBSET S /\ v = u \ {c} /\ v \in SUBSET S
    BY <2>4, <2>5
  <2>7. Cardinality(u) = n - 1
    BY <2>2, <2>4, FS_RemoveElement
  <2> HIDE DEF B, c, t, u, v
  <2>8. n - 1 \notin B /\ n - 1 \in Nat
    <3>1. n \in Nat \ {0} /\ ~ (n <= n - 1)
      BY <2>2, <2>4
    <3> QED
      BY <1>1, <3>1
  <2> USE DEF B
  <2>9. SumOver(f, t) = f[y] + SumOver(f, t \ {y})
    BY <2>4, <2>6, <2>8
  <2>10. SumOver(f, u) = f[c] + SumOver(f, u \ {c})
    BY <2>6, <2>7, <2>8
  <2>11. SumOver(f, v) \in Nat /\ f[y] \in Nat /\ f[c] \in Nat
    BY <2>4, <2>6, SumType, FS_Subset
  <2>12. SumOver(f, t) = f[y] + SumOver(f, v) /\ SumOver(f, u) = f[c] + SumOver(f, v)
    BY <2>6, <2>9, <2>10 DEF v
  <2>13. SumOver(f, s) = f[y] + SumOver(f, u)
    BY <2>3, <2>11, <2>12
  <2> QED
    BY <2>2, <2>13 DEF u
<1> HIDE DEF B
<1>2. B = {}
  BY <1>1, LeastElement DEF B
<1> QED
  BY <1>2, FS_CardinalityType DEF B

NatOn(f, S) == \A x \in S : f[x] \in Nat

\* One summand more.
LEMMA SumInsert ==
    ASSUME NEW S, IsFiniteSet(S), NEW x, x \notin S, NEW f, NEW e,
           Agree(f, e, S), \A y \in S \cup {x} : e[y] \in Nat
    PROVE  SumOver(e, S \cup {x}) = SumOver(f, S) + e[x] /\ SumOver(f, S) \in Nat
<1> DEFINE T == S \cup {x}
<1>1. IsFiniteSet(T) /\ x \in T /\ T \ {x} = S /\ \A y \in T : e[y] \in Nat
  BY FS_AddElement
<1>0. \A y \in S : e[y] = f[y] /\ f[y] \in Nat
  BY DEF Agree
<1> HIDE DEF T
<1>2. SumOver(e, T) = e[x] + SumOver(e, T \ {x})
  BY <1>1, SumAdd
<1>3. SumOver(e, S) = SumOver(f, S)
  BY <1>0, SumSame
<1>4. SumOver(f, S) \in Nat
  BY <1>0, SumType
<1>5. e[x] \in Nat
  BY <1>1
<1>6. SumOver(e, T) = e[x] + SumOver(f, S)
  BY <1>1, <1>2, <1>3
<1>7. SumOver(e, T) = SumOver(f, S) + e[x]
  BY <1>4, <1>5, <1>6
<1> QED
  BY <1>4, <1>7 DEF T

\* One summand replaced by another.
LEMMA SumReplace ==
    ASSUME NEW S, IsFiniteSet(S), NEW x \in S, NEW f, NEW e,
           NatOn(f, S), NatOn(e, S), Agree(f, e, S \ {x})
    PROVE  /\ SumOver(e, S) = SumOver(f, S) - f[x] + e[x]
           /\ SumOver(e, S) \in Nat /\ SumOver(f, S) \in Nat
           /\ SumOver(f, S \ {x}) = SumOver(f, S) - f[x]
<1> DEFINE T == S \ {x}
<1>0. \A y \in S : f[y] \in Nat /\ e[y] \in Nat
  BY DEF NatOn
<1>1. IsFiniteSet(T) /\ \A y \in T : e[y] = f[y]
  BY FS_RemoveElement DEF Agree
<1>2. SumOver(e, S) = e[x] + SumOver(e, T)
  BY <1>0, SumAdd
<1>3. SumOver(f, S) = f[x] + SumOver(f, T)
  BY <1>0, SumAdd
<1> HIDE DEF T
<1>4. SumOver(e, T) = SumOver(f, T)
  BY <1>1, SumSame
<1>5. SumOver(e, S) \in Nat /\ SumOver(f, S) \in Nat /\ f[x] \in Nat /\ e[x] \in Nat
  BY <1>0, SumType
<1>6. SumOver(f, T) \in Nat
  <2>1. T \in SUBSET S
    BY DEF T
  <2> QED
    BY <1>0, <1>1, <2>1, SumType
<1> QED
  BY <1>2, <1>3, <1>4, <1>5, <1>6 DEF T

\* Nothing adds up to nothing.
LEMMA SumZero ==
    ASSUME NEW S, IsFiniteSet(S)
    PROVE  SumOver([x \in S |-> 0], S) = 0
<1> DEFINE f == [x \in S |-> 0]
           B == {n \in Nat : \E s \in SUBSET S : Cardinality(s) = n /\ SumOver(f, s) # 0}
<1>1. \A x \in S : f[x] = 0
  OBVIOUS
<1> HIDE DEF f
<1>2. ASSUME NEW n \in B, \A m \in B : n <= m PROVE FALSE
  <2>1. PICK s \in SUBSET S : Cardinality(s) = n /\ SumOver(f, s) # 0
    OBVIOUS
  <2>2. s # {}
    BY <2>1, SumEmpty
  <2>3. SumOver(f, s) = f[Pick(s)] + SumOver(f, s \ {Pick(s)})
    BY <2>2, SumStep, FS_Subset
  <2>4. /\ Pick(s) \in s /\ s \ {Pick(s)} \in SUBSET S /\ Cardinality(s) \in Nat \ {0}
        /\ Cardinality(s \ {Pick(s)}) = n - 1
    BY <2>1, <2>2, PickSmaller
  <2>5. n - 1 \notin B /\ n - 1 \in Nat
    BY <1>2, <2>1, <2>4
  <2>6. SumOver(f, s \ {Pick(s)}) = 0
    BY <2>4, <2>5
  <2>7. f[Pick(s)] = 0
    BY <1>1, <2>4
  <2> QED
    BY <2>1, <2>3, <2>6, <2>7
<1> HIDE DEF B
<1>3. B = {}
  BY <1>2, LeastElement DEF B
<1>4. SumOver(f, S) = 0
  BY <1>3, FS_CardinalityType DEF B
<1> QED
  BY <1>4 DEF f

-----------------------------------------------------------------------------
(* The inductive invariant. *)

OrderType ==
    {o \in [seller : Parties \cup {Zero}, amount : Nat,
            state : {"none", "funded", "released", "refunded"}] :
        o.state # "none" => o.seller \in Parties /\ o.amount # 0}

WorldType ==
    [orders : [Keys -> OrderType], totalLocked : Int, entered : BOOLEAN,
     token : [Parties \cup {Escrow} -> Int],
     vault : [Parties -> Nat], vaultEntered : BOOLEAN, eth : [Parties \cup {Vault} -> Int]]

GiftsType == [Parties -> [token : Nat, eth : Nat, inside : BOOLEAN]]

ShownType == {Nothing} \cup [to : Parties \cup {Escrow, Zero}, amount : Nat]

FrameType ==
    [name : {"fund", "pay", "withdraw"}, from : Parties \cup {Escrow, Vault},
     to : Parties \cup {Escrow}, amount : Nat \ {0}, shown : ShownType, moved : BOOLEAN,
     before : [Parties \cup {Escrow} -> Int], saved : WorldType, gifts : GiftsType]

PreparedType ==
    {Nothing} \cup
    [action : {"fund", "release", "refund"}, from : Parties, buyer : Parties, id : Ids,
     seller : Parties \cup {Escrow, Zero}, amount : Nat, shown : ShownType,
     mined : BOOLEAN, orphaned : BOOLEAN]

ContractsTypeOK ==
    /\ world \in WorldType /\ gifts \in GiftsType
    /\ stack \in Seq(FrameType) /\ prepared \in PreparedType

\* The sums of EscrowIsExact, for any orders o.
AmountsOf(o) == [k \in Keys |-> o[k].amount]
OrderSum(o, K) == SumOver(AmountsOf(o), K)
OrdersIn(o, states) == {k \in Keys : o[k].state \in states}
BoughtBy(o, p) == {k \in OrdersIn(o, {"funded", "released", "refunded"}) : k[1] = p}
PaidTo(o, p) == {k \in OrdersIn(o, {"released"}) : o[k].seller = p}
                \cup {k \in OrdersIn(o, {"refunded"}) : k[1] = p}

NoneInside(g) == \A p \in Parties : ~g[p].inside

\* The books of the escrow balance in w, after the gifts g.
EscrowBalanced(w, g) ==
    /\ w.totalLocked = OrderSum(w.orders, OrdersIn(w.orders, {"funded"}))
    /\ w.token[Escrow] >= w.totalLocked
    /\ NoneInside(g) =>
          \A p \in Parties :
              w.token[p] + OrderSum(w.orders, BoughtBy(w.orders, p)) + g[p].token
                 = Supply + OrderSum(w.orders, PaidTo(w.orders, p))

\* Those of the vault.
EthGifts(g) == [p \in Parties |-> g[p].eth]
VaultBalanced(w, g) ==
    /\ \A p \in Parties : w.eth[p] + w.vault[p] + g[p].eth = Ether
    /\ w.eth[Vault] = SumOver(w.vault, Parties) + SumOver(EthGifts(g), Parties)

IsEscrowCall(f) == f.name \in {"fund", "pay"}

IsFunded(o, n, k, seller, amount) ==
    n = [o EXCEPT ![k] = [seller |-> seller, amount |-> amount, state |-> "funded"]]
IsSettled(o, n, k, outcome) == n = [o EXCEPT ![k].state = outcome]

\* The order the call f is about, k, was changed before the transfer.
FundEffect(f, w, k) ==
    /\ f.name = "fund" /\ f.from = k[1] /\ f.to = Escrow
    /\ f.saved.orders[k].state = "none"
    /\ \E seller \in Parties :
          IsFunded(f.saved.orders, w.orders, k, seller, f.amount)
    /\ w.totalLocked = f.saved.totalLocked + f.amount

PayEffect(f, w, k) ==
    /\ f.name = "pay" /\ f.from = Escrow /\ f.to \in Parties
    /\ f.saved.orders[k].state = "funded" /\ f.amount = f.saved.orders[k].amount
    /\ \E outcome \in {"released", "refunded"} :
          /\ IsSettled(f.saved.orders, w.orders, k, outcome)
          /\ f.to = IF outcome = "released" THEN f.saved.orders[k].seller ELSE k[1]
    /\ w.totalLocked = f.saved.totalLocked - f.amount

\* What the token has done so far for the call f, when nobody made a gift inside it.
TokenEffect(f, w) ==
    IF f.moved
    THEN \E moved \in {f.amount, f.amount - 1} :
            /\ w.token[f.from] = f.saved.token[f.from] - moved
            /\ w.token[f.to] = f.saved.token[f.to] + moved
            /\ \A p \in (Parties \cup {Escrow}) \ {f.from, f.to} : w.token[p] = f.saved.token[p]
    ELSE w.token = f.saved.token

\* w and g are a state inside the escrow's call f.
InFlight(f, w, g) ==
    /\ ~f.saved.entered /\ f.before = f.saved.token
    /\ \E k \in Keys : FundEffect(f, w, k) \/ PayEffect(f, w, k)
    /\ \A p \in Parties : f.gifts[p].inside => g[p].inside
    /\ NoneInside(g) =>
          TokenEffect(f, w) /\ \A p \in Parties : g[p].token = f.gifts[p].token

\* w and g are a state inside the first d calls of the stack s.
Level(s, d, w, g) ==
    /\ w.entered <=> \E j \in 1..d : IsEscrowCall(s[j])
    /\ \A j \in 1..d : IsEscrowCall(s[j]) => InFlight(s[j], w, g)
    /\ ~w.entered => EscrowBalanced(w, g)
    /\ VaultBalanced(w, g)

\* The state around each call, and the current one.
LevelsInv ==
    /\ \A i \in 1..Len(stack) : Level(stack, i - 1, stack[i].saved, stack[i].gifts)
    /\ Level(stack, Len(stack), world, gifts)

Follows(o, n) == \A k \in Keys : Orders!MayBecome(o[k], n[k])

\* Every state inside a transaction follows the life cycle from the committed one.
HistoryInv ==
    /\ \A i \in 1..Len(stack) : Follows(stack[1].saved.orders, stack[i].saved.orders)
    /\ Running => Follows(stack[1].saved.orders, world.orders)

\* The preview of c is what the order in o still says.
Promised(c, o) ==
    LET order == o[<<c.buyer, c.id>>] IN
    c.action \in {"release", "refund"} =>
        /\ order.state # "none"
        /\ c.shown = [to |-> IF c.action = "release" THEN order.seller ELSE c.buyer,
                      amount |-> order.amount]

\* A preview that a reorganization has taken back keeps a refund's recipient.
PreparedInv ==
    prepared # Nothing =>
        /\ prepared.action = "refund" => prepared.shown.to = prepared.buyer
        /\ ~prepared.orphaned =>
              /\ \A i \in 1..Len(stack) : Promised(prepared, stack[i].saved.orders)
              /\ Promised(prepared, world.orders)

\* What PreviewHolds says of one call.
Shows(shown, to, amount) ==
    shown # Nothing =>
        /\ ~prepared.orphaned => shown = [to |-> to, amount |-> amount]
        /\ prepared.action = "refund" => shown.to = to

CallsInv == \A i \in 1..Len(stack) : stack[i].moved => IsEscrowCall(stack[i])

\* The canonical branch.
BranchInv ==
    ContractsTypeOK /\ LevelsInv /\ HistoryInv /\ PreparedInv /\ CallsInv /\ PreviewHolds

\* The fork point: a state between transactions, from which the orders have gone on.
ForkInv ==
    /\ base \in [world : WorldType, gifts : GiftsType]
    /\ Level(<<>>, 0, base.world, base.gifts)
    /\ Follows(base.world.orders, Committed)

ContractsInv == BranchInv /\ ForkInv

-----------------------------------------------------------------------------
(* What the functions of the contracts do to the fields of a world. *)

\* There are finitely many parties and orders.
LEMMA Finite ==
    IsFiniteSet(Parties) /\ IsFiniteSet(Keys)
BY ContractsAssumption, FS_Product DEF Keys

\* fund writes the order, totalLocked and the guard.
LEMMA FundedWorld ==
    ASSUME NEW w \in WorldType, NEW buyer \in Parties, NEW id \in Ids, NEW seller \in Parties,
           NEW amount \in Nat \ {0}
    PROVE  LET f == Funded(w, buyer, id, seller, amount) IN
           /\ f \in WorldType
           /\ f.orders = [w.orders EXCEPT ![<<buyer, id>>] =
                             [seller |-> seller, amount |-> amount, state |-> "funded"]]
           /\ f.totalLocked = w.totalLocked + amount
           /\ f.entered
           /\ f.token = w.token /\ f.vault = w.vault /\ f.eth = w.eth
<1> DEFINE o == [w.orders EXCEPT ![<<buyer, id>>] =
                    [seller |-> seller, amount |-> amount, state |-> "funded"]]
           l == w.totalLocked + amount
<1>1. w.orders \in [Keys -> OrderType] /\ w.totalLocked \in Int
  BY DEF WorldType
<1>2. o \in [Keys -> OrderType] /\ l \in Int
  BY <1>1 DEF OrderType, Keys
<1>3. Funded(w, buyer, id, seller, amount) =
         [w EXCEPT !.entered = TRUE, !.orders = o, !.totalLocked = l]
  BY DEF Funded
<1> HIDE DEF o, l
<1>4. LET f == [w EXCEPT !.entered = TRUE, !.orders = o, !.totalLocked = l] IN
      /\ f \in WorldType /\ f.orders = o /\ f.totalLocked = l /\ f.entered
      /\ f.token = w.token /\ f.vault = w.vault /\ f.eth = w.eth
  BY <1>2 DEF WorldType
<1> QED
  BY <1>3, <1>4 DEF o, l

IsSettledWorld(w, f, buyer, id, outcome) ==
    /\ f \in WorldType
    /\ f.orders = [w.orders EXCEPT ![<<buyer, id>>].state = outcome]
    /\ f.totalLocked = w.totalLocked - w.orders[<<buyer, id>>].amount
    /\ f.entered
    /\ f.token = w.token /\ f.vault = w.vault /\ f.eth = w.eth

\* release and refund write the state of the order, totalLocked and the guard.
LEMMA SettledWorld ==
    ASSUME NEW w \in WorldType, NEW buyer \in Parties, NEW id \in Ids,
           NEW outcome \in {"released", "refunded"}, w.orders[<<buyer, id>>].state = "funded"
    PROVE  IsSettledWorld(w, Settled(w, buyer, id, outcome), buyer, id, outcome)
<1> DEFINE o == [w.orders EXCEPT ![<<buyer, id>>].state = outcome]
           l == w.totalLocked - w.orders[<<buyer, id>>].amount
<1>1. w.orders \in [Keys -> OrderType] /\ w.totalLocked \in Int
  BY DEF WorldType
<1>2. o \in [Keys -> OrderType] /\ l \in Int
  <2>1. w.orders[<<buyer, id>>] \in OrderType
    BY <1>1 DEF Keys
  <2>2. [w.orders[<<buyer, id>>] EXCEPT !.state = outcome] \in OrderType
    BY <2>1 DEF OrderType
  <2>3. l \in Int
    BY <1>1, <2>1 DEF OrderType
  <2> QED
    BY <1>1, <2>2, <2>3 DEF Keys
<1>3. Settled(w, buyer, id, outcome) =
         [w EXCEPT !.entered = TRUE, !.orders = o, !.totalLocked = l]
  BY DEF Settled
<1> HIDE DEF o, l
<1>4. LET f == [w EXCEPT !.entered = TRUE, !.orders = o, !.totalLocked = l] IN
      /\ f \in WorldType /\ f.orders = o /\ f.totalLocked = l /\ f.entered
      /\ f.token = w.token /\ f.vault = w.vault /\ f.eth = w.eth
  BY <1>2 DEF WorldType
<1> QED
  BY <1>3, <1>4 DEF o, l, IsSettledWorld

\* Returning from the escrow only releases its guard.
LEMMA LeftWorld ==
    ASSUME NEW w \in WorldType
    PROVE  /\ Left(w) \in WorldType /\ ~Left(w).entered
           /\ Left(w).orders = w.orders /\ Left(w).totalLocked = w.totalLocked
           /\ Left(w).token = w.token /\ Left(w).vault = w.vault /\ Left(w).eth = w.eth
BY DEF WorldType, Left

\* Returning from the vault only releases the vault's guard.
LEMMA VaultLeftWorld ==
    ASSUME NEW w \in WorldType
    PROVE  /\ VaultLeft(w) \in WorldType /\ VaultLeft(w).entered = w.entered
           /\ VaultLeft(w).orders = w.orders /\ VaultLeft(w).totalLocked = w.totalLocked
           /\ VaultLeft(w).token = w.token /\ VaultLeft(w).vault = w.vault
           /\ VaultLeft(w).eth = w.eth
BY DEF WorldType, VaultLeft

\* deposit moves the amount from the ether of the account to its balance.
LEMMA DepositedWorld ==
    ASSUME NEW w \in WorldType, NEW p \in Parties, NEW amount \in Nat
    PROVE  LET f == Deposited(w, p, amount) IN
           /\ f \in WorldType /\ f.entered = w.entered
           /\ f.orders = w.orders /\ f.totalLocked = w.totalLocked /\ f.token = w.token
           /\ f.vault = [w.vault EXCEPT ![p] = @ + amount]
           /\ f.eth[p] = w.eth[p] - amount /\ f.eth[Vault] = w.eth[Vault] + amount
           /\ \A q \in Parties \ {p} : f.eth[q] = w.eth[q]
<1> DEFINE v == [w.vault EXCEPT ![p] = @ + amount]
           e == [w.eth EXCEPT ![p] = @ - amount, ![Vault] = @ + amount]
<1>1. w.vault \in [Parties -> Nat] /\ w.eth \in [Parties \cup {Vault} -> Int]
  BY DEF WorldType
<1>2. /\ v \in [Parties -> Nat] /\ e \in [Parties \cup {Vault} -> Int]
      /\ e[p] = w.eth[p] - amount /\ e[Vault] = w.eth[Vault] + amount
      /\ \A q \in Parties \ {p} : e[q] = w.eth[q]
  BY <1>1, ContractsAssumption
<1>3. Deposited(w, p, amount) = [w EXCEPT !.vault = v, !.eth = e]
  BY DEF Deposited
<1> HIDE DEF v, e
<1>4. LET f == [w EXCEPT !.vault = v, !.eth = e] IN
      /\ f \in WorldType /\ f.entered = w.entered
      /\ f.orders = w.orders /\ f.totalLocked = w.totalLocked /\ f.token = w.token
      /\ f.vault = v /\ f.eth = e
  BY <1>2 DEF WorldType
<1> QED
  BY <1>2, <1>3, <1>4 DEF v

\* withdraw moves it back.
LEMMA WithdrawnWorld ==
    ASSUME NEW w \in WorldType, NEW p \in Parties, NEW amount \in Nat, amount <= w.vault[p]
    PROVE  LET f == Withdrawn(w, p, amount) IN
           /\ f \in WorldType /\ f.entered = w.entered
           /\ f.orders = w.orders /\ f.totalLocked = w.totalLocked /\ f.token = w.token
           /\ f.vault = [w.vault EXCEPT ![p] = @ - amount]
           /\ f.eth[p] = w.eth[p] + amount /\ f.eth[Vault] = w.eth[Vault] - amount
           /\ \A q \in Parties \ {p} : f.eth[q] = w.eth[q]
<1> DEFINE v == [w.vault EXCEPT ![p] = @ - amount]
           e == [w.eth EXCEPT ![p] = @ + amount, ![Vault] = @ - amount]
<1>1. w.vault \in [Parties -> Nat] /\ w.eth \in [Parties \cup {Vault} -> Int]
  BY DEF WorldType
<1>2. /\ v \in [Parties -> Nat] /\ e \in [Parties \cup {Vault} -> Int]
      /\ e[p] = w.eth[p] + amount /\ e[Vault] = w.eth[Vault] - amount
      /\ \A q \in Parties \ {p} : e[q] = w.eth[q]
  BY <1>1, ContractsAssumption
<1>3. Withdrawn(w, p, amount) = [w EXCEPT !.vaultEntered = TRUE, !.vault = v, !.eth = e]
  BY DEF Withdrawn
<1> HIDE DEF v, e
<1>4. LET f == [w EXCEPT !.vaultEntered = TRUE, !.vault = v, !.eth = e] IN
      /\ f \in WorldType /\ f.entered = w.entered
      /\ f.orders = w.orders /\ f.totalLocked = w.totalLocked /\ f.token = w.token
      /\ f.vault = v /\ f.eth = e
  BY <1>2 DEF WorldType
<1> QED
  BY <1>2, <1>3, <1>4 DEF v

-----------------------------------------------------------------------------
(* The sums of the orders. *)

SameAmounts(o, n, K) == \A k \in K : n[k].amount = o[k].amount

\* Sums of amounts are numbers.
LEMMA OrderSumType ==
    ASSUME NEW o \in [Keys -> OrderType], NEW K \in SUBSET Keys
    PROVE  OrderSum(o, K) \in Nat
<1>1. IsFiniteSet(K) /\ \A k \in K : AmountsOf(o)[k] \in Nat
  BY Finite, FS_Subset DEF AmountsOf, OrderType
<1> QED
  BY <1>1, SumType DEF OrderSum

\* So are the three sums that the books are made of.
LEMMA OrderSumsType ==
    ASSUME NEW o \in [Keys -> OrderType]
    PROVE  /\ OrderSum(o, OrdersIn(o, {"funded"})) \in Nat
           /\ \A p \in Parties : /\ OrderSum(o, BoughtBy(o, p)) \in Nat
                                 /\ OrderSum(o, PaidTo(o, p)) \in Nat
<1>1. OrdersIn(o, {"funded"}) \in SUBSET Keys
  BY DEF OrdersIn
<1>2. \A p \in Parties : BoughtBy(o, p) \in SUBSET Keys /\ PaidTo(o, p) \in SUBSET Keys
  BY DEF OrdersIn, BoughtBy, PaidTo
<1> QED
  BY <1>1, <1>2, OrderSumType

\* A sum of amounts only depends on the amounts.
LEMMA OrderSumSame ==
    ASSUME NEW o \in [Keys -> OrderType], NEW n \in [Keys -> OrderType], NEW K \in SUBSET Keys,
           SameAmounts(o, n, K)
    PROVE  OrderSum(n, K) = OrderSum(o, K)
<1>1. IsFiniteSet(K) /\ \A k \in K : AmountsOf(n)[k] = AmountsOf(o)[k]
  BY Finite, FS_Subset DEF AmountsOf, SameAmounts
<1> QED
  BY <1>1, SumSame DEF OrderSum

\* One order more in a sum.
LEMMA OrderSumMore ==
    ASSUME NEW o \in [Keys -> OrderType], NEW n \in [Keys -> OrderType], NEW K \in SUBSET Keys,
           SameAmounts(o, n, K), NEW x \in Keys \ K
    PROVE  OrderSum(n, K \cup {x}) = OrderSum(o, K) + n[x].amount
<1> DEFINE f == AmountsOf(o)
           e == AmountsOf(n)
<1>1. /\ IsFiniteSet(K) /\ x \notin K
      /\ Agree(f, e, K) /\ \A k \in K \cup {x} : e[k] \in Nat
      /\ e[x] = n[x].amount
  BY Finite, FS_Subset DEF AmountsOf, OrderType, SameAmounts, Agree
<1> HIDE DEF f, e
<1>2. SumOver(e, K \cup {x}) = SumOver(f, K) + e[x]
  BY ZenonT(60), <1>1, SumInsert
<1> QED
  BY <1>1, <1>2 DEF OrderSum, f, e

\* One order less.
LEMMA OrderSumLess ==
    ASSUME NEW o \in [Keys -> OrderType], NEW n \in [Keys -> OrderType], NEW K \in SUBSET Keys,
           SameAmounts(o, n, K), NEW x \in K
    PROVE  OrderSum(n, K \ {x}) = OrderSum(o, K) - n[x].amount
<1> DEFINE f == AmountsOf(n)
<1>1. /\ IsFiniteSet(K)
      /\ NatOn(f, K) /\ Agree(f, f, K \ {x})
      /\ f[x] = n[x].amount
  BY Finite, FS_Subset DEF AmountsOf, OrderType, SameAmounts, NatOn, Agree
<1> HIDE DEF f
<1>2. SumOver(f, K \ {x}) = SumOver(f, K) - f[x]
  BY <1>1, SumReplace
<1>3. OrderSum(n, K) = OrderSum(o, K)
  BY OrderSumSame
<1> QED
  BY <1>1, <1>2, <1>3 DEF OrderSum, f

\* Funding the order x adds its amount to what is locked and to what its buyer paid.
LEMMA FundSums ==
    ASSUME NEW o \in [Keys -> OrderType], NEW n \in [Keys -> OrderType], NEW x \in Keys,
           NEW seller, NEW amount \in Nat, o[x].state = "none",
           IsFunded(o, n, x, seller, amount)
    PROVE  /\ OrderSum(n, OrdersIn(n, {"funded"})) = OrderSum(o, OrdersIn(o, {"funded"})) + amount
           /\ OrderSum(n, BoughtBy(n, x[1])) = OrderSum(o, BoughtBy(o, x[1])) + amount
           /\ \A p \in Parties \ {x[1]} : OrderSum(n, BoughtBy(n, p)) = OrderSum(o, BoughtBy(o, p))
           /\ \A p \in Parties : OrderSum(n, PaidTo(n, p)) = OrderSum(o, PaidTo(o, p))
<1>1. /\ n[x].state = "funded" /\ n[x].amount = amount
      /\ \A k \in Keys \ {x} : n[k] = o[k]
  BY DEF IsFunded
<1>2. OrderSum(n, OrdersIn(n, {"funded"})) = OrderSum(o, OrdersIn(o, {"funded"})) + amount
  <2> DEFINE K == OrdersIn(o, {"funded"})
  <2>1. K \in SUBSET Keys /\ x \in Keys \ K /\ OrdersIn(n, {"funded"}) = K \cup {x}
    BY <1>1 DEF OrdersIn
  <2> HIDE DEF K
  <2>2. SameAmounts(o, n, K)
    BY <1>1, <2>1 DEF SameAmounts
  <2>3. OrderSum(n, K \cup {x}) = OrderSum(o, K) + n[x].amount
    BY <2>1, <2>2, OrderSumMore
  <2> QED
    BY <1>1, <2>1, <2>3 DEF K
<1>3. OrderSum(n, BoughtBy(n, x[1])) = OrderSum(o, BoughtBy(o, x[1])) + amount
  <2> DEFINE K == BoughtBy(o, x[1])
  <2>1. K \in SUBSET Keys /\ x \in Keys \ K /\ BoughtBy(n, x[1]) = K \cup {x}
    BY <1>1 DEF OrdersIn, BoughtBy
  <2> HIDE DEF K
  <2>2. SameAmounts(o, n, K)
    BY <1>1, <2>1 DEF SameAmounts
  <2>3. OrderSum(n, K \cup {x}) = OrderSum(o, K) + n[x].amount
    BY <2>1, <2>2, OrderSumMore
  <2> QED
    BY <1>1, <2>1, <2>3 DEF K
<1>4. ASSUME NEW p \in Parties \ {x[1]}
      PROVE  OrderSum(n, BoughtBy(n, p)) = OrderSum(o, BoughtBy(o, p))
  <2> DEFINE K == BoughtBy(o, p)
  <2>1. K \in SUBSET Keys /\ x \notin K /\ BoughtBy(n, p) = K
    BY <1>1 DEF OrdersIn, BoughtBy
  <2> HIDE DEF K
  <2>2. SameAmounts(o, n, K)
    BY <1>1, <2>1 DEF SameAmounts
  <2> QED
    BY <2>1, <2>2, OrderSumSame DEF K
<1>5. ASSUME NEW p \in Parties PROVE OrderSum(n, PaidTo(n, p)) = OrderSum(o, PaidTo(o, p))
  <2> DEFINE K == PaidTo(o, p)
  <2>1. K \in SUBSET Keys /\ x \notin K /\ PaidTo(n, p) = K
    BY <1>1 DEF OrdersIn, PaidTo
  <2> HIDE DEF K
  <2>2. SameAmounts(o, n, K)
    BY <1>1, <2>1 DEF SameAmounts
  <2> QED
    BY <2>1, <2>2, OrderSumSame DEF K
<1> QED
  BY <1>2, <1>3, <1>4, <1>5

\* Settling the order x takes its amount off what is locked and adds it to what the
\* recipient got.
LEMMA SettleSums ==
    ASSUME NEW o \in [Keys -> OrderType], NEW n \in [Keys -> OrderType], NEW x \in Keys,
           NEW outcome \in {"released", "refunded"}, o[x].state = "funded",
           IsSettled(o, n, x, outcome),
           NEW to, to = IF outcome = "released" THEN o[x].seller ELSE x[1]
    PROVE  /\ OrderSum(n, OrdersIn(n, {"funded"}))
                 = OrderSum(o, OrdersIn(o, {"funded"})) - o[x].amount
           /\ \A p \in Parties : OrderSum(n, BoughtBy(n, p)) = OrderSum(o, BoughtBy(o, p))
           /\ OrderSum(n, PaidTo(n, to)) = OrderSum(o, PaidTo(o, to)) + o[x].amount
           /\ \A p \in Parties \ {to} : OrderSum(n, PaidTo(n, p)) = OrderSum(o, PaidTo(o, p))
<1>1. /\ n[x].state = outcome /\ n[x].amount = o[x].amount /\ n[x].seller = o[x].seller
      /\ \A k \in Keys \ {x} : n[k] = o[k]
      /\ \A k \in Keys : n[k].amount = o[k].amount
  BY DEF OrderType, IsSettled
<1>2. OrderSum(n, OrdersIn(n, {"funded"})) = OrderSum(o, OrdersIn(o, {"funded"})) - o[x].amount
  <2> DEFINE K == OrdersIn(o, {"funded"})
  <2>1. K \in SUBSET Keys /\ x \in K /\ OrdersIn(n, {"funded"}) = K \ {x}
    BY <1>1 DEF OrdersIn
  <2> HIDE DEF K
  <2>2. SameAmounts(o, n, K)
    BY <1>1, <2>1 DEF SameAmounts
  <2>3. OrderSum(n, K \ {x}) = OrderSum(o, K) - n[x].amount
    BY <2>1, <2>2, OrderSumLess
  <2> QED
    BY <1>1, <2>1, <2>3 DEF K
<1>3. ASSUME NEW p \in Parties PROVE OrderSum(n, BoughtBy(n, p)) = OrderSum(o, BoughtBy(o, p))
  <2> DEFINE K == BoughtBy(o, p)
  <2>1. K \in SUBSET Keys /\ BoughtBy(n, p) = K
    BY <1>1 DEF OrdersIn, BoughtBy
  <2> HIDE DEF K
  <2>2. SameAmounts(o, n, K)
    BY <1>1, <2>1 DEF SameAmounts
  <2> QED
    BY <2>1, <2>2, OrderSumSame DEF K
<1>4. OrderSum(n, PaidTo(n, to)) = OrderSum(o, PaidTo(o, to)) + o[x].amount
  <2> DEFINE K == PaidTo(o, to)
  <2>1. K \in SUBSET Keys /\ x \in Keys \ K
    BY <1>1 DEF OrdersIn, PaidTo
  <2>2. PaidTo(n, to) = K \cup {x}
    BY <1>1 DEF OrdersIn, PaidTo
  <2> HIDE DEF K
  <2>3. SameAmounts(o, n, K)
    BY <1>1, <2>1 DEF SameAmounts
  <2>4. OrderSum(n, K \cup {x}) = OrderSum(o, K) + n[x].amount
    BY <2>1, <2>3, OrderSumMore
  <2> QED
    BY <1>1, <2>2, <2>4 DEF K
<1>5. ASSUME NEW p \in Parties \ {to}
      PROVE  OrderSum(n, PaidTo(n, p)) = OrderSum(o, PaidTo(o, p))
  <2> DEFINE K == PaidTo(o, p)
  <2>1. K \in SUBSET Keys /\ x \notin K
    BY <1>1 DEF OrdersIn, PaidTo
  <2>2. PaidTo(n, p) = K
    BY <1>1 DEF OrdersIn, PaidTo
  <2> HIDE DEF K
  <2>3. SameAmounts(o, n, K)
    BY <1>1, <2>1 DEF SameAmounts
  <2> QED
    BY <2>1, <2>2, <2>3, OrderSumSame DEF K
<1> QED
  BY <1>2, <1>3, <1>4, <1>5

\* Books with the same fields balance alike.
LEMMA SameEscrow ==
    ASSUME NEW v, NEW w, w.orders = v.orders, w.totalLocked = v.totalLocked, w.token = v.token,
           NEW g, EscrowBalanced(v, g)
    PROVE  EscrowBalanced(w, g)
BY DEF EscrowBalanced

\* When the token moved exactly what the call asked for, the books balance again.
LEMMA ReturnBalanced ==
    ASSUME NEW f \in FrameType, NEW w \in WorldType, NEW g \in GiftsType,
           f.moved, InFlight(f, w, g), EscrowBalanced(f.saved, f.gifts),
           Exact(w, f.to, f.amount, f.before)
    PROVE  EscrowBalanced(w, g)
<1> DEFINE v == f.saved
           o == v.orders
           n == w.orders
           In(q, p) == OrderSum(q, BoughtBy(q, p))
           Out(q, p) == OrderSum(q, PaidTo(q, p))
           Locked(q) == OrderSum(q, OrdersIn(q, {"funded"}))
<1>1. /\ v \in WorldType /\ f.gifts \in GiftsType /\ f.amount \in Nat \ {0}
      /\ o \in [Keys -> OrderType] /\ n \in [Keys -> OrderType]
      /\ v.token \in [Parties \cup {Escrow} -> Int] /\ w.token \in [Parties \cup {Escrow} -> Int]
      /\ v.totalLocked \in Int /\ w.totalLocked \in Int
      /\ \A p \in Parties : g[p].token \in Nat
  BY DEF FrameType, WorldType, GiftsType
<1>2. PICK k \in Keys : FundEffect(f, w, k) \/ PayEffect(f, w, k)
  BY DEF InFlight
<1>3. k[1] \in Parties
  BY DEF Keys
<1>4. /\ Locked(o) \in Nat /\ Locked(n) \in Nat
      /\ \A p \in Parties : /\ In(o, p) \in Nat /\ In(n, p) \in Nat
                            /\ Out(o, p) \in Nat /\ Out(n, p) \in Nat
  <2> HIDE DEF o, n
  <2> QED
    BY <1>1, OrderSumsType
<1>5. /\ v.totalLocked = Locked(o) /\ v.token[Escrow] >= v.totalLocked
      /\ NoneInside(f.gifts) =>
            \A p \in Parties : v.token[p] + In(o, p) + f.gifts[p].token = Supply + Out(o, p)
  BY DEF EscrowBalanced
<1>6. NoneInside(g) => /\ NoneInside(f.gifts)
                       /\ TokenEffect(f, w)
                       /\ \A p \in Parties : g[p].token = f.gifts[p].token
  BY DEF InFlight, NoneInside
<1>7. /\ w.token[f.to] = v.token[f.to] + f.amount
      /\ f.to = Escrow \/ w.token[Escrow] + f.amount = v.token[Escrow]
  BY DEF Exact, InFlight
<1>8. Supply \in Nat /\ Escrow \notin Parties
  BY ContractsAssumption
<1>9. CASE FundEffect(f, w, k)
  <2>1. PICK seller \in Parties : IsFunded(o, n, k, seller, f.amount)
    BY <1>9 DEF FundEffect
  <2>2. /\ o[k].state = "none" /\ f.from = k[1] /\ f.to = Escrow
        /\ w.totalLocked = v.totalLocked + f.amount
    BY <1>9 DEF FundEffect
  <2>3. /\ Locked(n) = Locked(o) + f.amount
        /\ In(n, k[1]) = In(o, k[1]) + f.amount
        /\ \A p \in Parties \ {k[1]} : In(n, p) = In(o, p)
        /\ \A p \in Parties : Out(n, p) = Out(o, p)
    <3> HIDE DEF o, n
    <3> QED
      BY <1>1, <2>1, <2>2, FundSums
  <2> HIDE DEF o, n, In, Out, Locked
  <2>4. w.totalLocked = Locked(n) /\ w.token[Escrow] >= w.totalLocked
    BY <1>1, <1>4, <1>5, <1>7, <2>2, <2>3
  <2>5. ASSUME NoneInside(g), NEW p \in Parties
        PROVE  w.token[p] + In(n, p) + g[p].token = Supply + Out(n, p)
    <3>1. PICK moved \in {f.amount, f.amount - 1} :
              /\ w.token[k[1]] = v.token[k[1]] - moved
              /\ w.token[Escrow] = v.token[Escrow] + moved
              /\ \A q \in (Parties \cup {Escrow}) \ {k[1], Escrow} : w.token[q] = v.token[q]
      BY <1>6, <2>2, <2>5 DEF TokenEffect
    <3>2. moved = f.amount
      BY <1>1, <1>7, <2>2, <3>1
    <3>3. v.token[p] + In(o, p) + g[p].token = Supply + Out(o, p)
      BY <1>5, <1>6, <2>5
    <3>4. CASE p = k[1]
      BY <1>1, <1>4, <1>8, <2>3, <3>1, <3>2, <3>3, <3>4
    <3>5. CASE p # k[1]
      BY <1>1, <1>4, <1>8, <2>3, <3>1, <3>2, <3>3, <3>5
    <3> QED
      BY <3>4, <3>5
  <2> QED
    BY <2>4, <2>5 DEF EscrowBalanced, n, In, Out, Locked
<1>10. CASE PayEffect(f, w, k)
  <2>1. PICK outcome \in {"released", "refunded"} :
            /\ IsSettled(o, n, k, outcome)
            /\ f.to = IF outcome = "released" THEN o[k].seller ELSE k[1]
    BY <1>10 DEF PayEffect
  <2>2. /\ o[k].state = "funded" /\ f.from = Escrow /\ f.to \in Parties /\ f.amount = o[k].amount
        /\ w.totalLocked = v.totalLocked - f.amount
    BY <1>10 DEF PayEffect
  <2>3. /\ Locked(n) = Locked(o) - f.amount
        /\ Out(n, f.to) = Out(o, f.to) + f.amount
        /\ \A p \in Parties \ {f.to} : Out(n, p) = Out(o, p)
        /\ \A p \in Parties : In(n, p) = In(o, p)
    <3> DEFINE to == f.to
               a == f.amount
    <3> HIDE DEF o, n, to, a
    <3>1. /\ Locked(n) = Locked(o) - o[k].amount
          /\ Out(n, to) = Out(o, to) + o[k].amount
          /\ \A p \in Parties \ {to} : Out(n, p) = Out(o, p)
          /\ \A p \in Parties : In(n, p) = In(o, p)
      <4>1. to = IF outcome = "released" THEN o[k].seller ELSE k[1]
        BY <2>1 DEF to
      <4> QED
        BY <1>1, <2>1, <2>2, <4>1, SettleSums
    <3> QED
      BY <2>2, <3>1 DEF to
  <2> HIDE DEF o, n, In, Out, Locked
  <2>4. w.totalLocked = Locked(n) /\ w.token[Escrow] >= w.totalLocked
    BY <1>1, <1>4, <1>5, <1>7, <1>8, <2>2, <2>3
  <2>5. ASSUME NoneInside(g), NEW p \in Parties
        PROVE  w.token[p] + In(n, p) + g[p].token = Supply + Out(n, p)
    <3>1. PICK moved \in {f.amount, f.amount - 1} :
              /\ w.token[f.to] = v.token[f.to] + moved
              /\ \A q \in (Parties \cup {Escrow}) \ {Escrow, f.to} : w.token[q] = v.token[q]
      BY <1>6, <2>2, <2>5 DEF TokenEffect
    <3>3. v.token[p] + In(o, p) + g[p].token = Supply + Out(o, p)
      BY <1>5, <1>6, <2>5
    <3>4. CASE p = f.to
      BY <1>1, <1>4, <1>7, <1>8, <2>3, <3>3, <3>4
    <3>5. CASE p # f.to
      BY <1>1, <1>4, <1>8, <2>3, <3>1, <3>3, <3>5
    <3> QED
      BY <3>4, <3>5
  <2> QED
    BY <2>4, <2>5 DEF EscrowBalanced, n, In, Out, Locked
<1> QED
  BY <1>2, <1>9, <1>10

-----------------------------------------------------------------------------
(* The vault. *)

\* Ether and balances that did not change still balance.
LEMMA SameVault ==
    ASSUME NEW v, NEW w, w.vault = v.vault, w.eth = v.eth,
           NEW g, NEW h, EthGifts(h) = EthGifts(g), \A p \in Parties : h[p].eth = g[p].eth,
           VaultBalanced(v, g)
    PROVE  VaultBalanced(w, h)
BY DEF VaultBalanced

\* An amount d (which may be negative) moves from the account p into the vault.
LEMMA VaultMoves ==
    ASSUME NEW v \in WorldType, NEW w \in WorldType, NEW g \in GiftsType, VaultBalanced(v, g),
           NEW p \in Parties, NEW d \in Int,
           w.vault = [v.vault EXCEPT ![p] = @ + d],
           w.eth[p] = v.eth[p] - d, w.eth[Vault] = v.eth[Vault] + d,
           \A q \in Parties \ {p} : w.eth[q] = v.eth[q]
    PROVE  VaultBalanced(w, g)
<1> DEFINE a == v.vault
           b == w.vault
<1>1. a \in [Parties -> Nat] /\ b \in [Parties -> Nat]
  BY DEF WorldType
<1>2. b[p] = a[p] + d /\ \A q \in Parties \ {p} : b[q] = a[q]
  BY <1>1
<1>3. SumOver(b, Parties) = SumOver(a, Parties) - a[p] + b[p] /\ SumOver(a, Parties) \in Nat
  <2>1. NatOn(a, Parties) /\ NatOn(b, Parties) /\ Agree(a, b, Parties \ {p})
    BY <1>1, <1>2 DEF NatOn, Agree
  <2> HIDE DEF a, b
  <2> QED
    BY <2>1, SumReplace, Finite
<1>4. SumOver(EthGifts(g), Parties) \in Nat
  BY SumType, Finite DEF GiftsType, EthGifts
<1>5. w.eth \in [Parties \cup {Vault} -> Int] /\ v.eth \in [Parties \cup {Vault} -> Int]
      /\ \A q \in Parties : g[q].eth \in Nat
  BY DEF WorldType, GiftsType
<1>6. ASSUME NEW q \in Parties PROVE w.eth[q] + b[q] + g[q].eth = Ether
  <2>1. v.eth[q] + a[q] + g[q].eth = Ether
    BY DEF VaultBalanced
  <2> HIDE DEF a, b
  <2>2. CASE q = p
    BY <1>1, <1>2, <1>5, <2>1, <2>2
  <2>3. CASE q # p
    BY <1>1, <1>2, <1>5, <2>1, <2>3
  <2> QED
    BY <2>2, <2>3
<1>7. w.eth[Vault] = SumOver(b, Parties) + SumOver(EthGifts(g), Parties)
  <2>1. v.eth[Vault] = SumOver(a, Parties) + SumOver(EthGifts(g), Parties)
    BY DEF VaultBalanced
  <2> HIDE DEF a, b
  <2> QED
    BY <1>1, <1>2, <1>3, <1>4, <1>5, <2>1
<1> QED
  BY <1>6, <1>7 DEF VaultBalanced

\* p loses a unit of ether that the vault gets as a gift.
LEMMA VaultForced ==
    ASSUME NEW v \in WorldType, NEW w \in WorldType, NEW g \in GiftsType, VaultBalanced(v, g),
           NEW p \in Parties, NEW h \in GiftsType,
           h[p].eth = g[p].eth + 1, \A q \in Parties \ {p} : h[q].eth = g[q].eth,
           w.vault = v.vault, w.eth[p] = v.eth[p] - 1, w.eth[Vault] = v.eth[Vault] + 1,
           \A q \in Parties \ {p} : w.eth[q] = v.eth[q]
    PROVE  VaultBalanced(w, h)
<1> DEFINE a == EthGifts(g)
           b == EthGifts(h)
<1>1. a \in [Parties -> Nat] /\ b \in [Parties -> Nat]
  BY DEF GiftsType, EthGifts
<1>2. /\ b[p] = a[p] + 1 /\ \A q \in Parties \ {p} : b[q] = a[q]
      /\ \A q \in Parties : a[q] = g[q].eth /\ b[q] = h[q].eth
  BY <1>1 DEF EthGifts
<1>3. SumOver(b, Parties) = SumOver(a, Parties) - a[p] + b[p] /\ SumOver(a, Parties) \in Nat
  <2>1. NatOn(a, Parties) /\ NatOn(b, Parties) /\ Agree(a, b, Parties \ {p})
    BY <1>1, <1>2 DEF NatOn, Agree
  <2> HIDE DEF a, b
  <2> QED
    BY <2>1, SumReplace, Finite
<1>4. w.vault \in [Parties -> Nat] /\ SumOver(w.vault, Parties) \in Nat
  <2>1. w.vault \in [Parties -> Nat]
    BY DEF WorldType
  <2> QED
    BY <2>1, SumType, Finite
<1>5. w.eth \in [Parties \cup {Vault} -> Int] /\ v.eth \in [Parties \cup {Vault} -> Int]
  BY DEF WorldType
<1>6. ASSUME NEW q \in Parties PROVE w.eth[q] + w.vault[q] + h[q].eth = Ether
  <2>1. v.eth[q] + w.vault[q] + a[q] = Ether
    BY <1>2 DEF VaultBalanced
  <2> HIDE DEF a, b
  <2>2. CASE q = p
    <3>1. w.eth[q] = v.eth[q] - 1 /\ h[q].eth = a[q] + 1
      BY <1>2, <2>2
    <3>2. v.eth[q] \in Int /\ w.vault[q] \in Int /\ a[q] \in Int
      BY <1>1, <1>4, <1>5
    <3> QED
      BY <2>1, <3>1, <3>2
  <2>3. CASE q # p
    BY <1>1, <1>2, <1>4, <1>5, <2>1, <2>3
  <2> QED
    BY <2>2, <2>3
<1>7. w.eth[Vault] = SumOver(w.vault, Parties) + SumOver(b, Parties)
  <2>1. v.eth[Vault] = SumOver(w.vault, Parties) + SumOver(a, Parties)
    BY DEF VaultBalanced
  <2> HIDE DEF a, b
  <2> QED
    BY <1>1, <1>2, <1>3, <1>4, <1>5, <2>1
<1> QED
  BY <1>6, <1>7 DEF VaultBalanced

-----------------------------------------------------------------------------
(* The orders. *)

\* Orders that did not change follow the life cycle.
LEMMA FollowsReflexive == ASSUME NEW o PROVE Follows(o, o)
BY DEF Follows, Orders!MayBecome

\* Two moves along the life cycle are one.
LEMMA FollowsTransitive ==
    ASSUME NEW a, NEW b \in [Keys -> OrderType], NEW c \in [Keys -> OrderType],
           Follows(a, b), Follows(b, c)
    PROVE  Follows(a, c)
<1> SUFFICES ASSUME NEW k \in Keys PROVE Orders!MayBecome(a[k], c[k])
  BY DEF Follows
<1>1. Orders!MayBecome(a[k], b[k]) /\ Orders!MayBecome(b[k], c[k])
  BY DEF Follows
<1>2. b[k] \in OrderType /\ c[k] \in OrderType
  OBVIOUS
<1>3. CASE b[k] = a[k]
  BY <1>1, <1>3
<1>4. CASE c[k] = b[k]
  BY <1>1, <1>4
<1>5. CASE b[k] # a[k] /\ c[k] # b[k]
  <2>1. b[k].state = "none" \/ b[k].state = "funded"
    BY <1>1, <1>5 DEF Orders!MayBecome
  <2>2. a[k].state = "none"
    BY <1>1, <1>2, <1>5, <2>1 DEF Orders!MayBecome, Orders!States, OrderType
  <2>3. c[k].state \in Orders!States \ {"none"}
    BY <1>1, <1>2, <1>5 DEF Orders!MayBecome, Orders!States, OrderType
  <2> QED
    BY <2>2, <2>3 DEF Orders!MayBecome
<1> QED
  BY <1>3, <1>4, <1>5

\* fund moves an order along its life cycle.
LEMMA FundFollows ==
    ASSUME NEW o \in [Keys -> OrderType], NEW n, NEW k \in Keys, NEW seller, NEW amount,
           o[k].state = "none", IsFunded(o, n, k, seller, amount)
    PROVE  Follows(o, n)
<1>1. n[k].state = "funded" /\ \A j \in Keys \ {k} : n[j] = o[j]
  BY DEF IsFunded
<1> QED
  BY <1>1 DEF Follows, Orders!MayBecome, Orders!States

\* So do release and refund.
LEMMA SettleFollows ==
    ASSUME NEW o \in [Keys -> OrderType], NEW n, NEW k \in Keys,
           NEW outcome \in {"released", "refunded"},
           o[k].state = "funded", IsSettled(o, n, k, outcome)
    PROVE  Follows(o, n)
<1>1. n[k] = [o[k] EXCEPT !.state = outcome] /\ \A j \in Keys \ {k} : n[j] = o[j]
  BY DEF IsSettled
<1> QED
  BY <1>1 DEF Follows, Orders!MayBecome

\* What the preview of c says stays true.
LEMMA PromiseKept ==
    ASSUME NEW c \in PreparedType, c # Nothing, NEW o \in [Keys -> OrderType],
           NEW n \in [Keys -> OrderType], Follows(o, n), Promised(c, o)
    PROVE  Promised(c, n)
<1> DEFINE k == <<c.buyer, c.id>>
<1>1. k \in Keys
  BY DEF PreparedType, Keys
<1> HIDE DEF k
<1>2. Orders!MayBecome(o[k], n[k]) /\ o[k] \in OrderType
  BY <1>1 DEF Follows
<1>3. o[k].state # "none" => /\ n[k].state # "none" /\ n[k].seller = o[k].seller
                             /\ n[k].amount = o[k].amount
  BY <1>2 DEF Orders!MayBecome, OrderType
<1> QED
  BY <1>3 DEF Promised, k

-----------------------------------------------------------------------------
(* The states inside the calls. *)

\* What Level says of w and g depends only on some of their fields.
SameBooks(v, w) == w.orders = v.orders /\ w.totalLocked = v.totalLocked /\ w.token = v.token
SameGifts(g, h) == \A p \in Parties : (h[p].inside <=> g[p].inside) /\ h[p].token = g[p].token

\* A state inside a call of the escrow stays one when the vault does something.
LEMMA InFlightSame ==
    ASSUME NEW f, NEW v, NEW w, NEW g, NEW h, SameBooks(v, w), SameGifts(g, h), InFlight(f, v, g)
    PROVE  InFlight(f, w, h)
<1>1. NoneInside(g) <=> NoneInside(h)
  BY DEF SameGifts, NoneInside
<1>2. \A k \in Keys : /\ FundEffect(f, w, k) <=> FundEffect(f, v, k)
                      /\ PayEffect(f, w, k) <=> PayEffect(f, v, k)
  BY DEF SameBooks, FundEffect, PayEffect
<1>3. TokenEffect(f, w) <=> TokenEffect(f, v)
  BY DEF SameBooks, TokenEffect
<1> QED
  BY <1>1, <1>2, <1>3 DEF InFlight, SameGifts

\* The escrow's books do not depend on the vault.
LEMMA BalancedSame ==
    ASSUME NEW v, NEW w, NEW g, NEW h, SameBooks(v, w), SameGifts(g, h), EscrowBalanced(v, g)
    PROVE  EscrowBalanced(w, h)
<1>1. NoneInside(g) <=> NoneInside(h)
  BY DEF SameGifts, NoneInside
<1> QED
  BY <1>1 DEF EscrowBalanced, SameBooks, SameGifts

\* A change that only concerns the vault.
LEMMA LevelSame ==
    ASSUME NEW s, NEW d \in Nat, NEW v, NEW w, NEW g, NEW h,
           SameBooks(v, w), SameGifts(g, h), w.entered = v.entered,
           VaultBalanced(w, h), Level(s, d, v, g)
    PROVE  Level(s, d, w, h)
<1>1. \A j \in 1..d : IsEscrowCall(s[j]) => InFlight(s[j], w, h)
  BY InFlightSame DEF Level
<1>2. ~w.entered => EscrowBalanced(w, h)
  BY BalancedSame DEF Level
<1> QED
  BY <1>1, <1>2 DEF Level

\* Level only looks at the first d calls.
LEMMA LevelPrefix ==
    ASSUME NEW s, NEW t, NEW d \in Nat, \A j \in 1..d : t[j] = s[j],
           NEW w, NEW g, Level(s, d, w, g)
    PROVE  Level(t, d, w, g)
BY DEF Level

\* A call of the escrow starts.
LEMMA LevelEscrowCall ==
    ASSUME NEW s \in Seq(FrameType), NEW f \in FrameType, NEW w \in WorldType, NEW g \in GiftsType,
           NEW x \in WorldType, Level(s, Len(s), w, g),
           ~w.entered, f.saved = w, f.gifts = g, f.before = w.token, ~f.moved, IsEscrowCall(f),
           x.entered, x.token = w.token, x.vault = w.vault, x.eth = w.eth,
           \E k \in Keys : FundEffect(f, x, k) \/ PayEffect(f, x, k)
    PROVE  Level(Append(s, f), Len(s) + 1, x, g)
<1> DEFINE t == Append(s, f)
           n == Len(s)
<1>1. n \in Nat /\ t[n + 1] = f /\ \A j \in 1..n : t[j] = s[j]
  OBVIOUS
<1> HIDE DEF t, n
<1>2. InFlight(f, x, g)
  BY DEF InFlight, TokenEffect
<1>3. \A j \in 1..n : ~IsEscrowCall(t[j])
  BY <1>1 DEF Level, n
<1>4. VaultBalanced(x, g)
  BY DEF Level, VaultBalanced
<1>5. \A j \in 1..(n + 1) : j \in 1..n \/ j = n + 1
  BY <1>1
<1> QED
  BY <1>1, <1>2, <1>3, <1>4, <1>5 DEF Level, t, n

\* A withdrawal starts.
LEMMA LevelWithdraw ==
    ASSUME NEW s \in Seq(FrameType), NEW f \in FrameType, f.name = "withdraw",
           NEW x, NEW g, Level(s, Len(s), x, g)
    PROVE  Level(Append(s, f), Len(s) + 1, x, g)
<1> DEFINE t == Append(s, f)
           n == Len(s)
<1>1. n \in Nat /\ t[n + 1] = f /\ \A j \in 1..n : t[j] = s[j]
  OBVIOUS
<1>2. ~IsEscrowCall(f)
  BY DEF IsEscrowCall
<1>3. \A j \in 1..(n + 1) : j \in 1..n \/ j = n + 1
  BY <1>1
<1>4. \A j \in 1..n : j \in 1..(n + 1)
  BY <1>1
<1> HIDE DEF t, n
<1> QED
  BY <1>1, <1>2, <1>3, <1>4 DEF Level, t, n

\* The withdrawal on top ends.
LEMMA LevelDrop ==
    ASSUME NEW s \in Seq(FrameType), s # <<>>, ~IsEscrowCall(s[Len(s)]),
           NEW x, NEW g, Level(s, Len(s), x, g)
    PROVE  Level(s, Len(s) - 1, x, g)
<1> DEFINE n == Len(s)
<1>1. n \in Nat \ {0}
  OBVIOUS
<1>2. \A j \in 1..n : j \in 1..(n - 1) \/ j = n
  BY <1>1
<1>3. \A j \in 1..(n - 1) : j \in 1..n
  BY <1>1
<1>4. ~IsEscrowCall(s[n])
  OBVIOUS
<1> HIDE DEF n
<1> QED
  BY <1>2, <1>3, <1>4 DEF Level, n

\* p makes a gift of one token.
LEMMA LevelGive ==
    ASSUME NEW s, NEW d \in Nat, NEW v \in WorldType, NEW w \in WorldType,
           NEW g \in GiftsType, NEW h \in GiftsType, Level(s, d, v, g), NEW p \in Parties,
           w.orders = v.orders, w.totalLocked = v.totalLocked, w.entered = v.entered,
           w.vault = v.vault, w.eth = v.eth,
           w.token[p] = v.token[p] - 1, w.token[Escrow] = v.token[Escrow] + 1,
           \A q \in Parties \ {p} : w.token[q] = v.token[q] /\ h[q] = g[q],
           h[p].token = g[p].token + 1, h[p].eth = g[p].eth,
           h[p].inside <=> g[p].inside \/ v.entered
    PROVE  Level(s, d, w, h)
<1>1. \A q \in Parties : (g[q].inside => h[q].inside) /\ h[q].eth = g[q].eth
  OBVIOUS
<1>2. VaultBalanced(w, h)
  <2>1. EthGifts(h) = EthGifts(g)
    BY <1>1 DEF EthGifts
  <2> QED
    BY <1>1, <2>1, SameVault DEF Level
<1>3. CASE v.entered
  <2>1. ~NoneInside(h)
    BY <1>3 DEF NoneInside
  <2>2. ASSUME NEW j \in 1..d, IsEscrowCall(s[j]) PROVE InFlight(s[j], w, h)
    <3>1. InFlight(s[j], v, g)
      BY <2>2 DEF Level
    <3>2. \A k \in Keys : /\ FundEffect(s[j], w, k) <=> FundEffect(s[j], v, k)
                          /\ PayEffect(s[j], w, k) <=> PayEffect(s[j], v, k)
      BY DEF FundEffect, PayEffect
    <3> QED
      BY <1>1, <2>1, <3>1, <3>2 DEF InFlight
  <2> QED
    BY <1>2, <1>3, <2>2 DEF Level
<1>4. CASE ~v.entered
  <2> DEFINE In(q) == OrderSum(v.orders, BoughtBy(v.orders, q))
             Out(q) == OrderSum(v.orders, PaidTo(v.orders, q))
  <2>1. EscrowBalanced(v, g)
    BY <1>4 DEF Level
  <2>2. /\ v.orders \in [Keys -> OrderType] /\ v.totalLocked \in Int
        /\ v.token \in [Parties \cup {Escrow} -> Int] /\ \A q \in Parties : g[q].token \in Nat
    BY DEF WorldType, GiftsType
  <2>3. \A q \in Parties : In(q) \in Nat /\ Out(q) \in Nat
    BY <2>2, OrderSumsType
  <2>4. w.totalLocked = OrderSum(w.orders, OrdersIn(w.orders, {"funded"}))
    BY <2>1 DEF EscrowBalanced
  <2>5. w.token[Escrow] >= w.totalLocked
    BY <2>1, <2>2 DEF EscrowBalanced
  <2>6. ASSUME NoneInside(h), NEW q \in Parties
        PROVE  w.token[q] + In(q) + h[q].token = Supply + Out(q)
    <3>1. NoneInside(g)
      BY <1>1, <2>6 DEF NoneInside
    <3>2. v.token[q] + In(q) + g[q].token = Supply + Out(q)
      BY <2>1, <3>1 DEF EscrowBalanced
    <3>3. v.token[q] \in Int /\ g[q].token \in Int /\ In(q) \in Int
      BY <2>2, <2>3
    <3> HIDE DEF In, Out
    <3>4. CASE q = p
      <4>1. w.token[q] = v.token[q] - 1 /\ h[q].token = g[q].token + 1
        BY <3>4
      <4> QED
        BY <3>2, <3>3, <4>1
    <3>5. CASE q # p
      <4>1. w.token[q] = v.token[q] /\ h[q].token = g[q].token
        BY <3>5
      <4> QED
        BY <3>2, <4>1
    <3> QED
      BY <3>4, <3>5
  <2>7. EscrowBalanced(w, h)
    BY <2>4, <2>5, <2>6 DEF EscrowBalanced
  <2> QED
    BY <1>2, <1>4, <2>7 DEF Level
<1> QED
  BY <1>3, <1>4

\* Inside a call of the escrow there is no other one below.
LEMMA OneEscrowCall ==
    ASSUME NEW s \in Seq(FrameType), s # <<>>, IsEscrowCall(s[Len(s)]),
           NEW w, NEW g, Level(s, Len(s), w, g),
           Level(s, Len(s) - 1, s[Len(s)].saved, s[Len(s)].gifts)
    PROVE  /\ \A j \in 1..(Len(s) - 1) : ~IsEscrowCall(s[j])
           /\ InFlight(s[Len(s)], w, g) /\ EscrowBalanced(s[Len(s)].saved, s[Len(s)].gifts)
           /\ w.entered
<1> DEFINE n == Len(s)
<1>1. n \in Nat \ {0} /\ n \in 1..n
  OBVIOUS
<1> HIDE DEF n
<1>2. InFlight(s[n], w, g) /\ w.entered
  BY <1>1 DEF Level, n
<1>3. ~s[n].saved.entered
  BY <1>2 DEF InFlight
<1>4. \A j \in 1..(n - 1) : ~IsEscrowCall(s[j])
  BY <1>3 DEF Level, n
<1>5. EscrowBalanced(s[n].saved, s[n].gifts)
  BY <1>3 DEF Level, n
<1> QED
  BY <1>2, <1>4, <1>5 DEF n

\* The token moves an amount for the call on top.
LEMMA LevelTransfer ==
    ASSUME NEW s \in Seq(FrameType), s # <<>>, NEW f \in FrameType, f = s[Len(s)],
           IsEscrowCall(f), ~f.moved, NEW v \in WorldType, NEW w \in WorldType,
           NEW g \in GiftsType, Level(s, Len(s), v, g), Level(s, Len(s) - 1, f.saved, f.gifts),
           w.orders = v.orders, w.totalLocked = v.totalLocked, w.entered = v.entered,
           w.vault = v.vault, w.eth = v.eth,
           NEW moved \in {f.amount, f.amount - 1},
           w.token = [v.token EXCEPT ![f.from] = @ - moved, ![f.to] = @ + moved],
           NEW t, \A j \in 1..(Len(s) - 1) : t[j] = s[j], t[Len(s)] = [f EXCEPT !.moved = TRUE]
    PROVE  Level(t, Len(s), w, g)
<1> DEFINE n == Len(s)
           f2 == [f EXCEPT !.moved = TRUE]
<1>1. n \in Nat \ {0}
  OBVIOUS
<1>3. /\ f2.moved /\ f2.name = f.name /\ f2.from = f.from /\ f2.to = f.to /\ f2.amount = f.amount
      /\ f2.before = f.before /\ f2.saved = f.saved /\ f2.gifts = f.gifts
  BY DEF FrameType
<1>4. /\ \A j \in 1..(n - 1) : ~IsEscrowCall(s[j])
      /\ InFlight(f, v, g) /\ v.entered
  BY OneEscrowCall
<1> HIDE DEF f2
<1>5. \A k \in Keys : /\ FundEffect(f2, w, k) <=> FundEffect(f, v, k)
                      /\ PayEffect(f2, w, k) <=> PayEffect(f, v, k)
  BY <1>3 DEF FundEffect, PayEffect
<1>6. f.from # f.to /\ f.from \in Parties \cup {Escrow} /\ f.to \in Parties \cup {Escrow}
  BY <1>4, ContractsAssumption DEF InFlight, FundEffect, PayEffect, Keys
<1>7. TokenEffect(f, v) => TokenEffect(f2, w)
  <2> SUFFICES ASSUME TokenEffect(f, v) PROVE TokenEffect(f2, w)
    OBVIOUS
  <2>1. v.token = f.saved.token /\ v.token \in [Parties \cup {Escrow} -> Int]
    BY DEF TokenEffect, WorldType
  <2>2. /\ w.token[f.from] = f.saved.token[f.from] - moved
        /\ w.token[f.to] = f.saved.token[f.to] + moved
        /\ \A p \in (Parties \cup {Escrow}) \ {f.from, f.to} : w.token[p] = f.saved.token[p]
    BY <1>6, <2>1
  <2>3. \E m \in {f2.amount, f2.amount - 1} :
           /\ w.token[f2.from] = f2.saved.token[f2.from] - m
           /\ w.token[f2.to] = f2.saved.token[f2.to] + m
           /\ \A p \in (Parties \cup {Escrow}) \ {f2.from, f2.to} : w.token[p] = f2.saved.token[p]
    <3>1. moved \in {f2.amount, f2.amount - 1}
      BY <1>3
    <3>2. /\ w.token[f2.from] = f2.saved.token[f2.from] - moved
          /\ w.token[f2.to] = f2.saved.token[f2.to] + moved
          /\ \A p \in (Parties \cup {Escrow}) \ {f2.from, f2.to} : w.token[p] = f2.saved.token[p]
      BY <1>3, <2>2
    <3> QED BY <3>1, <3>2, Zenon
  <2> QED
    BY <1>3, <2>3 DEF TokenEffect
<1>8. InFlight(f2, w, g)
  BY <1>3, <1>4, <1>5, <1>7 DEF InFlight
<1>9. t[n] = f2 /\ IsEscrowCall(f2)
  BY <1>3 DEF f2, IsEscrowCall
<1>10. \A j \in 1..n : j \in 1..(n - 1) \/ j = n
  BY <1>1
<1>11. VaultBalanced(w, g)
  BY DEF Level, VaultBalanced
<1>12. \A j \in 1..n : IsEscrowCall(t[j]) => InFlight(t[j], w, g)
  BY <1>4, <1>8, <1>9, <1>10
<1>13. w.entered <=> \E j \in 1..n : IsEscrowCall(t[j])
  BY <1>1, <1>4, <1>9
<1> HIDE DEF n
<1> QED
  BY <1>4, <1>11, <1>12, <1>13 DEF Level, n

\* The call on top returns.
LEMMA LevelReturn ==
    ASSUME NEW s \in Seq(FrameType), s # <<>>, NEW f \in FrameType, f = s[Len(s)],
           IsEscrowCall(f), f.moved, NEW w \in WorldType, NEW g \in GiftsType,
           Level(s, Len(s), w, g), Level(s, Len(s) - 1, f.saved, f.gifts),
           Exact(w, f.to, f.amount, f.before)
    PROVE  Level(s, Len(s) - 1, Left(w), g)
<1>1. /\ \A j \in 1..(Len(s) - 1) : ~IsEscrowCall(s[j])
      /\ InFlight(f, w, g) /\ EscrowBalanced(f.saved, f.gifts)
  BY OneEscrowCall
<1>2. EscrowBalanced(w, g)
  BY <1>1, ReturnBalanced
<1>3. EscrowBalanced(Left(w), g)
  BY <1>2, LeftWorld, SameEscrow
<1>4. VaultBalanced(Left(w), g)
  BY LeftWorld DEF Level, VaultBalanced
<1> QED
  BY <1>1, <1>3, <1>4, LeftWorld DEF Level

-----------------------------------------------------------------------------
(* The steps. *)

\* The stack without its top.
LEMMA FrontOf ==
    ASSUME NEW s \in Seq(FrameType), s # <<>>
    PROVE  /\ Front(s) \in Seq(FrameType) /\ Len(Front(s)) = Len(s) - 1
           /\ \A i \in 1..(Len(s) - 1) : Front(s)[i] = s[i]
<1> DEFINE n == Len(s) - 1
<1>1. n \in Int /\ n >= 0 /\ \A i \in 1..n : s[i] \in FrameType
  OBVIOUS
<1> HIDE DEF n
<1>2. /\ SubSeq(s, 1, n) \in Seq(FrameType)
      /\ Len(SubSeq(s, 1, n)) = IF 1 <= n THEN n - 1 + 1 ELSE 0
      /\ \A i \in 1..(n - 1 + 1) : SubSeq(s, 1, n)[i] = s[1 + i - 1]
  BY <1>1, SubSeqProperties
<1>3. /\ SubSeq(s, 1, n) \in Seq(FrameType) /\ Len(SubSeq(s, 1, n)) = n
      /\ \A i \in 1..n : SubSeq(s, 1, n)[i] = s[i]
  BY <1>1, <1>2
<1>4. Front(s) = SubSeq(s, 1, n)
  BY DEF Front, n
<1> QED
  BY <1>3, <1>4 DEF n

\* A call starts.
LEMMA EnterStep ==
    ASSUME ContractsTypeOK, LevelsInv, HistoryInv, CallsInv, PreviewHolds,
           NEW w \in WorldType, NEW name, NEW from, NEW to, NEW amount, NEW shown,
           Enter(w, name, from, to, amount, shown),
           name \in {"fund", "pay", "withdraw"}, from \in Parties \cup {Escrow, Vault},
           to \in Parties \cup {Escrow}, amount \in Nat \ {0}, shown \in ShownType,
           name = "pay" => Shows(shown, to, amount),
           w.token = world.token, Follows(world.orders, w.orders),
           Level(stack', Len(stack) + 1, w, gifts)
    PROVE  /\ world' \in WorldType /\ gifts' \in GiftsType /\ stack' \in Seq(FrameType)
           /\ LevelsInv' /\ HistoryInv' /\ CallsInv'
           /\ \A i \in 1..Len(stack') :
                 stack'[i].name = "pay" => Shows(stack'[i].shown, stack'[i].to, stack'[i].amount)
           /\ \A c \in PreparedType : 
                 (/\ c # Nothing 
                  /\ \A i \in 1..Len(stack) : Promised(c, stack[i].saved.orders)
                  /\ Promised(c, world.orders))
                 => /\ \A i \in 1..Len(stack') : Promised(c, stack'[i].saved.orders)
                    /\ Promised(c, world'.orders)
<1> DEFINE f == [name |-> name, from |-> from, to |-> to, amount |-> amount, shown |-> shown,
                 moved |-> FALSE, before |-> w.token, saved |-> world, gifts |-> gifts]
           n == Len(stack)
<1>1. /\ world \in WorldType /\ gifts \in GiftsType /\ stack \in Seq(FrameType)
      /\ world' = w /\ gifts' = gifts /\ stack' = Append(stack, f)
  BY DEF ContractsTypeOK, Enter
<1>2. f \in FrameType
  <2>1. w.token \in [Parties \cup {Escrow} -> Int]
    BY DEF WorldType
  <2> QED
    BY <1>1, <2>1 DEF FrameType
<1>3. f.saved = world /\ f.gifts = gifts /\ ~f.moved /\ f.name = name /\ f.shown = shown
      /\ f.to = to /\ f.amount = amount
  OBVIOUS
<1> HIDE DEF f
<1>4. /\ stack' \in Seq(FrameType) /\ Len(stack') = n + 1 /\ stack'[n + 1] = f
      /\ \A i \in 1..n : stack'[i] = stack[i]
      /\ n \in Nat /\ \A i \in 1..(n + 1) : i \in 1..n \/ i = n + 1
  BY <1>1, <1>2
<1> HIDE DEF n
<1>5. LevelsInv'
  <2>1. ASSUME NEW i \in 1..(n + 1)
        PROVE  Level(stack', i - 1, stack'[i].saved, stack'[i].gifts)
    <3>1. i - 1 \in Nat /\ \A j \in 1..(i - 1) : stack'[j] = stack[j]
      BY <1>4
    <3>2. CASE i \in 1..n
      <4>1. Level(stack, i - 1, stack[i].saved, stack[i].gifts)
        BY <3>2 DEF LevelsInv, n
      <4> QED
        BY <1>4, <3>1, <3>2, <4>1, LevelPrefix
    <3>3. CASE i = n + 1
      <4>1. Level(stack, i - 1, world, gifts) 
        BY <1>4, <3>3 DEF LevelsInv, n
      <4> QED
        BY <1>3, <1>4, <3>1, <3>3, <4>1, LevelPrefix
    <3> QED
      BY <1>4, <3>2, <3>3
  <2>2. Level(stack', n + 1, world', gifts')
    BY <1>1 DEF n
  <2> QED
    BY <1>4, <2>1, <2>2 DEF LevelsInv
<1>6. HistoryInv'
  <2>1. world.orders \in [Keys -> OrderType] /\ w.orders \in [Keys -> OrderType]
    BY <1>1 DEF WorldType
  <2>2. stack'[1].saved = IF n = 0 THEN world ELSE stack[1].saved
    BY <1>3, <1>4
  <2>3. Follows(stack'[1].saved.orders, world.orders)
    BY <1>1, <1>4, <2>2, FollowsReflexive DEF HistoryInv, Running, n
  <2>4. \A i \in 1..(n + 1) : Follows(stack'[1].saved.orders, stack'[i].saved.orders)
    <3>1. ASSUME NEW i \in 1..n PROVE Follows(stack'[1].saved.orders, stack'[i].saved.orders)
      BY <1>4, <2>2 DEF HistoryInv, n
    <3> QED
      BY <1>3, <1>4, <2>3, <3>1
  <2>5. Follows(stack'[1].saved.orders, world'.orders)
    BY <1>1, <2>1, <2>3, FollowsTransitive
  <2> QED
    BY <1>4, <2>4, <2>5 DEF HistoryInv
<1>7. CallsInv'
  BY <1>3, <1>4 DEF CallsInv, n
<1>8. \A i \in 1..(n + 1) :
         stack'[i].name = "pay" => Shows(stack'[i].shown, stack'[i].to, stack'[i].amount)
  <2>1. DOMAIN stack = 1..n
    BY <1>1 DEF n
  <2>2. \A i \in 1..n : stack[i].name = "pay" => Shows(stack[i].shown, stack[i].to, stack[i].amount)
    BY <2>1 DEF PreviewHolds, Shows
  <2> QED
    BY <1>3, <1>4, <2>2
<1>9. ASSUME NEW c \in PreparedType, c # Nothing,
             \A i \in 1..n : Promised(c, stack[i].saved.orders), Promised(c, world.orders)
      PROVE  /\ \A i \in 1..(n + 1) : Promised(c, stack'[i].saved.orders)
             /\ Promised(c, world'.orders)
  <2>1. world.orders \in [Keys -> OrderType] /\ w.orders \in [Keys -> OrderType]
    BY <1>1 DEF WorldType
  <2>2. Promised(c, w.orders)
    BY <1>9, <2>1, PromiseKept
  <2>3. \A i \in 1..(n + 1) : Promised(c, stack'[i].saved.orders)
    BY <1>3, <1>4, <1>9
  <2> QED
    BY <1>1, <2>2, <2>3
<1> QED
  BY <1>1, <1>4, <1>5, <1>6, <1>7, <1>8, <1>9 DEF n

\* The call on top returns or reverts.
LEMMA ReturnStep ==
    ASSUME ContractsTypeOK, LevelsInv, HistoryInv, CallsInv, PreviewHolds, PreparedInv,
           NEW w \in WorldType, Running, Return(w), gifts' \in GiftsType,
           Level(stack, Len(stack) - 1, w, gifts'),
           w.orders = world.orders \/ w.orders = Top.saved.orders, UNCHANGED prepared
    PROVE  BranchInv'
<1> DEFINE n == Len(stack) - 1
<1>1. /\ world \in WorldType /\ stack \in Seq(FrameType) /\ stack # <<>>
      /\ world' = w /\ stack' = Front(stack)
  BY DEF ContractsTypeOK, Return, Running
<1>2. /\ stack' \in Seq(FrameType) /\ Len(stack') = n /\ n \in Nat
      /\ \A i \in 1..n : stack'[i] = stack[i]
  <2>1. /\ Front(stack) \in Seq(FrameType) /\ Len(Front(stack)) = Len(stack) - 1
        /\ \A i \in 1..(Len(stack) - 1) : Front(stack)[i] = stack[i]
    BY <1>1, FrontOf
  <2>2. Len(stack) - 1 \in Nat
    BY <1>1
  <2> QED
    BY <1>1, <2>1, <2>2
<1>3. \A i \in 1..n : i \in 1..Len(stack)
  BY <1>1
<1>4. n + 1 \in 1..Len(stack) /\ Top = stack[n + 1] /\ Len(stack) = n + 1
  BY <1>1 DEF Top
<1> HIDE DEF n
<1>5. LevelsInv'
  <2>1. ASSUME NEW i \in 1..n PROVE Level(stack', i - 1, stack'[i].saved, stack'[i].gifts)
    <3>1. i - 1 \in Nat /\ \A j \in 1..(i - 1) : stack'[j] = stack[j]
      BY <1>2
    <3>2. Level(stack, i - 1, stack[i].saved, stack[i].gifts)
      BY <1>3 DEF LevelsInv
    <3> QED
      BY <1>2, <3>1, <3>2, LevelPrefix
  <2>2. Level(stack', n, world', gifts')
    <3>1. Level(stack, n, w, gifts')
      BY DEF n
    <3> QED
      BY <1>1, <1>2, <3>1, LevelPrefix
  <2> QED
    BY <1>2, <2>1, <2>2 DEF LevelsInv
<1>6. HistoryInv'
  <2>1. Follows(stack[1].saved.orders, w.orders)
    BY <1>4 DEF HistoryInv
  <2>2. CASE n = 0
    BY <1>2, <2>2 DEF HistoryInv, Running
  <2>3. CASE n # 0
    <3>1. stack'[1] = stack[1]
      BY <1>2, <2>3
    <3> QED
      BY <1>1, <1>2, <1>3, <2>1, <3>1 DEF HistoryInv
  <2> QED
    BY <2>2, <2>3
<1>7. CallsInv'
  BY <1>2, <1>3 DEF CallsInv
<1>8. PreviewHolds'
  <2>1. DOMAIN stack' = 1..n /\ DOMAIN stack = 1..(n + 1) /\ \A i \in 1..n : i \in 1..(n + 1)
    BY <1>1, <1>2, <1>4
  <2> QED
    BY <1>2, <2>1 DEF PreviewHolds
<1>9. PreparedInv'
  <2>1. prepared' = prepared
    OBVIOUS
  <2>2. SUFFICES ASSUME prepared # Nothing, ~prepared.orphaned
                 PROVE  /\ \A i \in 1..n : Promised(prepared, stack'[i].saved.orders)
                        /\ Promised(prepared, w.orders)
    BY <1>1, <1>2, <2>1 DEF PreparedInv
  <2>3. Promised(prepared, w.orders)
    BY <1>4, <2>2 DEF PreparedInv
  <2> QED
    BY <1>2, <1>3, <2>2, <2>3 DEF PreparedInv
<1>10. ContractsTypeOK'
  BY <1>1, <1>2 DEF ContractsTypeOK
<1> QED
  BY <1>5, <1>6, <1>7, <1>8, <1>9, <1>10 DEF BranchInv

\* The code inside the call on top does something that leaves the orders alone.
LEMMA InsideStep ==
    ASSUME ContractsTypeOK, LevelsInv, HistoryInv, CallsInv, PreviewHolds, PreparedInv,
           world' \in WorldType, gifts' \in GiftsType, stack' \in Seq(FrameType),
           Len(stack') = Len(stack), \A i \in 1..(Len(stack) - 1) : stack'[i] = stack[i],
           \A i \in 1..Len(stack) :
              /\ stack'[i].saved = stack[i].saved /\ stack'[i].gifts = stack[i].gifts
              /\ stack'[i].name = stack[i].name /\ stack'[i].to = stack[i].to
              /\ stack'[i].amount = stack[i].amount /\ stack'[i].shown = stack[i].shown
              /\ stack'[i].moved => IsEscrowCall(stack'[i]),
           Level(stack', Len(stack), world', gifts'), world'.orders = world.orders,
           UNCHANGED prepared
    PROVE  BranchInv'
<1> DEFINE n == Len(stack)
<1>1. n \in Nat /\ Len(stack') = n /\ DOMAIN stack' = 1..n /\ DOMAIN stack = 1..n
  BY DEF ContractsTypeOK
<1>2. \A i \in 1..n : /\ stack'[i].saved = stack[i].saved /\ stack'[i].gifts = stack[i].gifts
                      /\ stack'[i].name = stack[i].name /\ stack'[i].to = stack[i].to
                      /\ stack'[i].amount = stack[i].amount /\ stack'[i].shown = stack[i].shown
                      /\ stack'[i].moved => IsEscrowCall(stack'[i])
  OBVIOUS
<1> HIDE DEF n
<1>3. LevelsInv'
  <2>1. ASSUME NEW i \in 1..n PROVE Level(stack', i - 1, stack'[i].saved, stack'[i].gifts)
    <3>1. i - 1 \in Nat /\ \A j \in 1..(i - 1) : stack'[j] = stack[j]
      BY <1>1 DEF n
    <3>2. Level(stack, i - 1, stack[i].saved, stack[i].gifts)
      BY DEF LevelsInv, n
    <3> QED
      BY <1>2, <3>1, <3>2, LevelPrefix
  <2> QED
    BY <1>1, <2>1 DEF LevelsInv, n
<1>4. HistoryInv'
  <2>1. CASE n = 0
    BY <1>1, <2>1 DEF HistoryInv, Running
  <2>2. CASE n # 0
    <3>1. 1 \in 1..n /\ stack'[1].saved = stack[1].saved /\ Running
      BY <1>1, <1>2, <2>2 DEF Running, n
    <3> QED
      BY <1>1, <1>2, <3>1 DEF HistoryInv, n
  <2> QED
    BY <2>1, <2>2
<1>5. CallsInv'
  BY <1>1, <1>2 DEF CallsInv
<1>6. PreviewHolds'
  BY <1>1, <1>2 DEF PreviewHolds
<1>7. PreparedInv'
  <2>1. prepared' = prepared
    OBVIOUS
  <2>2. SUFFICES ASSUME prepared # Nothing, ~prepared.orphaned
                 PROVE  /\ \A i \in 1..n : Promised(prepared, stack'[i].saved.orders)
                        /\ Promised(prepared, world'.orders)
    BY <1>1, <2>1 DEF PreparedInv
  <2> QED
    BY <1>1, <1>2, <2>2 DEF PreparedInv, n
<1>8. ContractsTypeOK'
  BY DEF ContractsTypeOK
<1> QED
  BY <1>3, <1>4, <1>5, <1>6, <1>7, <1>8 DEF BranchInv

-----------------------------------------------------------------------------
(* The actions. *)

\* What a call of the escrow leaves behind, whoever made it; c is the call the wallet
\* keeps prepared.
Entered ==
    /\ world' \in WorldType /\ gifts' \in GiftsType /\ stack' \in Seq(FrameType)
    /\ LevelsInv' /\ HistoryInv' /\ CallsInv'
    /\ \A i \in 1..Len(stack') :
          stack'[i].name = "pay" => Shows(stack'[i].shown, stack'[i].to, stack'[i].amount)
    /\ \A c \in PreparedType :
          (/\ c # Nothing
           /\ \A i \in 1..Len(stack) : Promised(c, stack[i].saved.orders)
           /\ Promised(c, world.orders))
          => /\ \A i \in 1..Len(stack') : Promised(c, stack'[i].saved.orders)
             /\ Promised(c, world'.orders)

\* A call of fund, from the wallet or from anybody, preserves the invariant.
LEMMA FundStep ==
    ASSUME BranchInv, NEW buyer \in Parties, NEW id \in Ids,
           NEW seller \in Parties \cup {Escrow, Zero}, NEW amount \in Nat, NEW shown \in ShownType,
           FundCall(buyer, id, seller, amount, shown)
    PROVE  Entered
<1> DEFINE k == <<buyer, id>>
           w == Funded(world, buyer, id, seller, amount)
           f == [name |-> "fund", from |-> buyer, to |-> Escrow, amount |-> amount,
                 shown |-> shown, moved |-> FALSE, before |-> w.token, saved |-> world,
                 gifts |-> gifts]
<1>1. /\ world \in WorldType /\ gifts \in GiftsType /\ stack \in Seq(FrameType)
      /\ Level(stack, Len(stack), world, gifts)
  BY DEF BranchInv, ContractsTypeOK, LevelsInv
<1>2. /\ ~world.entered /\ seller \in Parties /\ amount \in Nat \ {0} /\ world.orders[k].state = "none"
      /\ Enter(w, "fund", buyer, Escrow, amount, shown)
  BY DEF FundCall, FundAllowed
<1>3. /\ w \in WorldType /\ IsFunded(world.orders, w.orders, k, seller, amount)
      /\ w.totalLocked = world.totalLocked + amount /\ w.entered
      /\ w.token = world.token /\ w.vault = world.vault /\ w.eth = world.eth
  BY <1>1, <1>2, FundedWorld DEF IsFunded
<1>4. k \in Keys /\ k[1] = buyer
  BY DEF Keys
<1> HIDE DEF w, k
<1>5. f \in FrameType /\ stack' = Append(stack, f)
  <2>1. w.token \in [Parties \cup {Escrow} -> Int]
    BY <1>3 DEF WorldType
  <2> QED
    BY <1>1, <1>2, <2>1 DEF FrameType, Enter
<1>6. FundEffect(f, w, k)
  BY <1>2, <1>3, <1>4 DEF FundEffect
<1>7. /\ f.saved = world /\ f.gifts = gifts /\ f.before = world.token /\ ~f.moved
      /\ IsEscrowCall(f)
  BY <1>3 DEF IsEscrowCall
<1> HIDE DEF f
<1>8. Level(stack', Len(stack) + 1, w, gifts)
  BY <1>1, <1>2, <1>3, <1>4, <1>5, <1>6, <1>7, LevelEscrowCall
<1>9. Follows(world.orders, w.orders)
  <2>1. world.orders \in [Keys -> OrderType]
    BY <1>1 DEF WorldType
  <2> QED
    BY <1>2, <1>3, <1>4, <2>1, FundFollows
<1> QED
  BY <1>2, <1>3, <1>8, <1>9, EnterStep DEF BranchInv, Entered

\* A call of release or refund preserves it; a preview, where there is one, is what the
\* call pays.
LEMMA PayStep ==
    ASSUME BranchInv, NEW buyer \in Parties, NEW id \in Ids,
           NEW outcome \in {"released", "refunded"}, NEW shown \in ShownType, NEW to, NEW amount,
           ~world.entered, world.orders[<<buyer, id>>].state = "funded",
           amount = world.orders[<<buyer, id>>].amount,
           to = IF outcome = "released" THEN world.orders[<<buyer, id>>].seller ELSE buyer,
           Shows(shown, to, amount),
           Enter(Settled(world, buyer, id, outcome), "pay", Escrow, to, amount, shown)
    PROVE  Entered
<1> DEFINE k == <<buyer, id>>
           w == Settled(world, buyer, id, outcome)
           f == [name |-> "pay", from |-> Escrow, to |-> to, amount |-> amount,
                 shown |-> shown, moved |-> FALSE, before |-> w.token, saved |-> world,
                 gifts |-> gifts]
<1>1. /\ world \in WorldType /\ gifts \in GiftsType /\ stack \in Seq(FrameType)
      /\ Level(stack, Len(stack), world, gifts)
  BY DEF BranchInv, ContractsTypeOK, LevelsInv
<1>2. world.orders \in [Keys -> OrderType]
  BY <1>1 DEF WorldType
<1>3. /\ w \in WorldType /\ IsSettled(world.orders, w.orders, k, outcome)
      /\ w.totalLocked = world.totalLocked - amount /\ w.entered
      /\ w.token = world.token /\ w.vault = world.vault /\ w.eth = world.eth
  <2>1. IsSettledWorld(world, w, buyer, id, outcome)
    BY <1>1, SettledWorld
  <2> HIDE DEF w
  <2> QED
    BY <2>1 DEF IsSettled, IsSettledWorld
<1>4. k \in Keys /\ k[1] = buyer
  BY DEF Keys
<1>5. to \in Parties /\ amount \in Nat \ {0}
  <2>1. world.orders[k] \in OrderType
    BY <1>2, <1>4
  <2> QED
    BY <2>1 DEF OrderType
<1>6. /\ world.orders[k].state = "funded" /\ amount = world.orders[k].amount
      /\ to = IF outcome = "released" THEN world.orders[k].seller ELSE k[1]
  BY <1>4
<1>7. Enter(w, "pay", Escrow, to, amount, shown)
  OBVIOUS
<1> HIDE DEF w, k
<1>8. f \in FrameType /\ stack' = Append(stack, f)
  <2>1. w.token \in [Parties \cup {Escrow} -> Int]
    BY <1>3 DEF WorldType
  <2> QED
    BY <1>1, <1>5, <1>7, <2>1 DEF FrameType, Enter
<1>9. PayEffect(f, w, k)
  BY <1>3, <1>5, <1>6 DEF PayEffect
<1>10. /\ f.saved = world /\ f.gifts = gifts /\ f.before = world.token /\ ~f.moved
       /\ IsEscrowCall(f)
  BY <1>3 DEF IsEscrowCall
<1> HIDE DEF f
<1>11. Level(stack', Len(stack) + 1, w, gifts)
  BY <1>1, <1>3, <1>4, <1>8, <1>9, <1>10, LevelEscrowCall
<1>12. Follows(world.orders, w.orders)
  BY <1>2, <1>3, <1>4, <1>6, SettleFollows
<1> QED
  BY <1>3, <1>5, <1>7, <1>11, <1>12, EnterStep DEF BranchInv, Entered

\* A call that is not the wallet's leaves the prepared one as it is.
LEMMA EnteredInv ==
    ASSUME BranchInv, Entered, UNCHANGED prepared
    PROVE  BranchInv'
<1>1. prepared \in PreparedType /\ PreparedInv
  BY DEF BranchInv, ContractsTypeOK
<1>2. PreparedInv'
  BY <1>1 DEF Entered, PreparedInv
<1>3. ContractsTypeOK'
  BY <1>1 DEF Entered, ContractsTypeOK
<1>4. PreviewHolds'
  <2>1. DOMAIN stack' = 1..Len(stack')
    BY DEF Entered
  <2> QED
    BY <2>1 DEF Entered, PreviewHolds, Shows
<1> QED
  BY <1>2, <1>3, <1>4 DEF Entered, BranchInv

\* withdraw preserves the invariant.
LEMMA WithdrawStep ==
    ASSUME BranchInv, NEW p \in Parties, NEW amount \in Nat, Withdraw(p, amount)
    PROVE  BranchInv'
<1> DEFINE w == Withdrawn(world, p, amount)
           f == [name |-> "withdraw", from |-> Vault, to |-> p, amount |-> amount,
                 shown |-> Nothing, moved |-> FALSE, before |-> w.token, saved |-> world,
                 gifts |-> gifts]
<1>1. /\ world \in WorldType /\ gifts \in GiftsType /\ stack \in Seq(FrameType)
      /\ Level(stack, Len(stack), world, gifts)
  BY DEF BranchInv, ContractsTypeOK, LevelsInv
<1>2. /\ amount \in Nat \ {0} /\ amount <= world.vault[p]
      /\ Enter(w, "withdraw", Vault, p, amount, Nothing) /\ UNCHANGED prepared
  BY DEF Withdraw, WithdrawAllowed
<1>3. /\ w \in WorldType /\ w.entered = world.entered
      /\ w.orders = world.orders /\ w.totalLocked = world.totalLocked /\ w.token = world.token
      /\ w.vault = [world.vault EXCEPT ![p] = @ - amount]
      /\ w.eth[p] = world.eth[p] + amount /\ w.eth[Vault] = world.eth[Vault] - amount
      /\ \A q \in Parties \ {p} : w.eth[q] = world.eth[q]
  BY <1>1, <1>2, WithdrawnWorld
<1> HIDE DEF w
<1>4. VaultBalanced(w, gifts)
  <2> DEFINE d == -amount
  <2>1. world.vault \in [Parties -> Nat] /\ world.eth \in [Parties \cup {Vault} -> Int]
    BY <1>1 DEF WorldType
  <2>2. /\ d \in Int /\ w.vault = [world.vault EXCEPT ![p] = @ + d]
        /\ w.eth[p] = world.eth[p] - d /\ w.eth[Vault] = world.eth[Vault] + d
    BY <1>3, <2>1
  <2>3. VaultBalanced(world, gifts)
    BY <1>1 DEF Level
  <2> HIDE DEF d
  <2> QED
    BY <1>1, <1>3, <2>2, <2>3, VaultMoves
<1>5. Level(stack, Len(stack), w, gifts)
  <2>1. SameBooks(world, w) /\ SameGifts(gifts, gifts) /\ Len(stack) \in Nat
    BY <1>1, <1>3 DEF SameBooks, SameGifts
  <2> QED
    BY <1>1, <1>3, <1>4, <2>1, LevelSame
<1>6. f \in FrameType /\ f.name = "withdraw" /\ stack' = Append(stack, f)
  <2>1. w.token \in [Parties \cup {Escrow} -> Int]
    BY <1>3 DEF WorldType
  <2> QED
    BY <1>1, <1>2, <2>1 DEF FrameType, Enter, ShownType
<1> HIDE DEF f
<1>7. Level(stack', Len(stack) + 1, w, gifts)
  BY <1>1, <1>5, <1>6, LevelWithdraw
<1>8. Follows(world.orders, w.orders)
  BY <1>3, FollowsReflexive
<1>9. Nothing \in ShownType
  BY DEF ShownType
<1>10. Entered
  BY <1>2, <1>3, <1>7, <1>8, <1>9, EnterStep DEF BranchInv, Entered
<1> QED
  BY <1>2, <1>10, EnteredInv

\* Balances stay integers when an amount moves.
LEMMA MoveType ==
    ASSUME NEW S, NEW t \in [S -> Int], NEW a, NEW b, NEW m \in Int
    PROVE  [t EXCEPT ![a] = @ - m, ![b] = @ + m] \in [S -> Int]
<1> DEFINE u == [t EXCEPT ![a] = @ - m]
<1>1. u \in [S -> Int]
  <2>1. CASE a \in S
    BY <2>1
  <2>2. CASE a \notin S
    <3>1. u = t
      BY <2>2
    <3> QED
      BY <3>1
  <2> QED
    BY <2>1, <2>2
<1>2. \A x \in S : x = b => t[b] + m \in Int
  OBVIOUS
<1> HIDE DEF u
<1>3. [u EXCEPT ![b] = t[b] + m] \in [S -> Int]
  <2>1. CASE b \in S
    BY <1>1, <1>2, <2>1
  <2>2. CASE b \notin S
    <3>1. [u EXCEPT ![b] = t[b] + m] = u
      BY <1>1, <2>2
    <3> QED
      BY <1>1, <3>1
  <2> QED
    BY <2>1, <2>2
<1> QED
  BY <1>3 DEF u

GiftType == [token : Nat, eth : Nat, inside : BOOLEAN]

\* The record of gifts after one token more.
LEMMA GiftGiven ==
    ASSUME NEW e \in GiftType, NEW b \in BOOLEAN
    PROVE  LET h == [[e EXCEPT !.token = @ + 1] EXCEPT !.inside = b] IN
           h \in GiftType /\ h.token = e.token + 1 /\ h.eth = e.eth /\ h.inside = b
<1> DEFINE i == [e EXCEPT !.token = @ + 1]
<1>1. i \in GiftType /\ i.token = e.token + 1 /\ i.eth = e.eth
  BY DEF GiftType
<1> HIDE DEF i
<1>2. LET h == [i EXCEPT !.inside = b] IN
      h \in GiftType /\ h.token = i.token /\ h.eth = i.eth /\ h.inside = b
  BY <1>1 DEF GiftType
<1> QED
  BY <1>1, <1>2 DEF i

\* The transfer of the token preserves the invariant.
LEMMA TransferStep ==
    ASSUME BranchInv, NEW moved, Transfer(moved)
    PROVE  BranchInv'
<1> DEFINE n == Len(stack)
           f == stack[n]
           t == [world.token EXCEPT ![f.from] = @ - moved, ![f.to] = @ + moved]
           f2 == [f EXCEPT !.moved = TRUE]
<1>1. /\ world \in WorldType /\ gifts \in GiftsType /\ stack \in Seq(FrameType) /\ stack # <<>>
      /\ gifts' = gifts /\ UNCHANGED prepared
      /\ LevelsInv /\ n \in Nat \ {0} /\ n \in 1..n /\ f \in FrameType
  BY DEF BranchInv, ContractsTypeOK, Transfer, Running
<1>2. /\ IsEscrowCall(f) /\ ~f.moved /\ moved \in {f.amount, f.amount - 1}
      /\ world' = [world EXCEPT !.token = t]
      /\ stack' = [stack EXCEPT ![n] = f2]
  BY DEF Transfer, Top, IsEscrowCall
<1>3. Level(stack, n, world, gifts) /\ Level(stack, n - 1, f.saved, f.gifts)
  BY <1>1 DEF LevelsInv
<1>4. /\ f2 \in FrameType /\ f2.moved
      /\ f2.saved = f.saved /\ f2.gifts = f.gifts /\ f2.name = f.name /\ f2.to = f.to
      /\ f2.amount = f.amount /\ f2.shown = f.shown
  <2> HIDE DEF f
  <2> QED
    BY <1>1 DEF FrameType
<1>5. t \in [Parties \cup {Escrow} -> Int]
  <2>1. world.token \in [Parties \cup {Escrow} -> Int]
    BY <1>1 DEF WorldType
  <2>2. moved \in Int
    BY <1>1, <1>2 DEF FrameType
  <2> QED
    BY <2>1, <2>2, MoveType
<1>6. /\ world' \in WorldType /\ world'.token = t /\ world'.entered = world.entered
      /\ world'.orders = world.orders /\ world'.totalLocked = world.totalLocked
      /\ world'.vault = world.vault /\ world'.eth = world.eth
  <2> HIDE DEF t
  <2> QED
    BY <1>1, <1>2, <1>5 DEF WorldType
<1>7. /\ stack' \in Seq(FrameType) /\ Len(stack') = n /\ stack'[n] = f2
      /\ \A i \in 1..(n - 1) : stack'[i] = stack[i]
      /\ \A i \in 1..n : i \in 1..(n - 1) \/ i = n
  <2> HIDE DEF f2
  <2> QED
    BY <1>1, <1>2, <1>4
<1>8. Level(stack', n, world', gifts')
  <2>1. world'.token = [world.token EXCEPT ![f.from] = @ - moved, ![f.to] = @ + moved]
    BY <1>6
  <2>2. stack'[n] = [f EXCEPT !.moved = TRUE]
    BY <1>7
  <2> QED
    BY ZenonT(60), <1>1, <1>2, <1>3, <1>6, <1>7, <2>1, <2>2, LevelTransfer
<1>9. \A i \in 1..n : /\ stack'[i].saved = stack[i].saved /\ stack'[i].gifts = stack[i].gifts
                      /\ stack'[i].name = stack[i].name /\ stack'[i].to = stack[i].to
                      /\ stack'[i].amount = stack[i].amount /\ stack'[i].shown = stack[i].shown
                      /\ stack'[i].moved => IsEscrowCall(stack'[i])
  <2>1. \A i \in 1..n : stack[i].moved => IsEscrowCall(stack[i])
    BY DEF BranchInv, CallsInv
  <2>2. IsEscrowCall(f2)
    BY <1>2, <1>4 DEF IsEscrowCall
  <2> HIDE DEF f2
  <2> QED
    BY <1>4, <1>7, <2>1, <2>2
<1> HIDE DEF n
<1>10. /\ ContractsTypeOK /\ LevelsInv /\ HistoryInv /\ CallsInv /\ PreviewHolds /\ PreparedInv
       /\ gifts' \in GiftsType
  BY <1>1 DEF BranchInv
<1> QED
  BY <1>1, <1>6, <1>7, <1>8, <1>9, <1>10, InsideStep DEF n

\* The stack stays as it is.
LEMMA QuietStep ==
    ASSUME BranchInv, world' \in WorldType, gifts' \in GiftsType, UNCHANGED <<stack, prepared>>,
           Level(stack, Len(stack), world', gifts'), world'.orders = world.orders
    PROVE  BranchInv'
<1>1. /\ ContractsTypeOK /\ LevelsInv /\ HistoryInv /\ CallsInv /\ PreviewHolds /\ PreparedInv
      /\ stack' = stack /\ prepared' = prepared
  BY DEF BranchInv
<1>2. stack' \in Seq(FrameType)
  BY <1>1 DEF ContractsTypeOK
<1>3. \A i \in 1..Len(stack) : stack[i].moved => IsEscrowCall(stack[i])
  BY <1>1 DEF CallsInv
<1> QED
  BY <1>1, <1>2, <1>3, InsideStep

\* A gift of tokens to the escrow preserves the invariant.
LEMMA GiveStep ==
    ASSUME BranchInv, NEW p \in Parties, Give(p)
    PROVE  BranchInv'
<1> DEFINE t == [world.token EXCEPT ![p] = @ - 1, ![Escrow] = @ + 1]
           e == gifts[p]
           b == e.inside \/ world.entered
           h == [[e EXCEPT !.token = @ + 1] EXCEPT !.inside = b]
<1>1. /\ world \in WorldType /\ gifts \in GiftsType /\ stack \in Seq(FrameType)
      /\ Level(stack, Len(stack), world, gifts) /\ Len(stack) \in Nat
  BY DEF BranchInv, ContractsTypeOK, LevelsInv
<1>2. world.token \in [Parties \cup {Escrow} -> Int] /\ e \in [token : Nat, eth : Nat, inside : BOOLEAN]
  BY <1>1 DEF WorldType, GiftsType
<1>3. /\ t \in [Parties \cup {Escrow} -> Int]
      /\ t[p] = world.token[p] - 1 /\ t[Escrow] = world.token[Escrow] + 1
      /\ \A q \in Parties \ {p} : t[q] = world.token[q]
  BY <1>2, ContractsAssumption
<1>4. world' = [world EXCEPT !.token = t] /\ UNCHANGED <<stack, prepared>>
  BY DEF Give
<1>5. /\ world' \in WorldType /\ world'.token = t /\ world'.entered = world.entered
      /\ world'.orders = world.orders /\ world'.totalLocked = world.totalLocked
      /\ world'.vault = world.vault /\ world'.eth = world.eth
  <2> HIDE DEF t
  <2> QED
    BY <1>1, <1>3, <1>4 DEF WorldType
<1>6. /\ gifts' \in GiftsType
      /\ gifts'[p].token = gifts[p].token + 1 /\ gifts'[p].eth = gifts[p].eth
      /\ gifts'[p].inside <=> gifts[p].inside \/ world.entered
      /\ \A q \in Parties \ {p} : gifts'[q] = gifts[q]
  <2>1. gifts' = [gifts EXCEPT ![p] = h]
    BY DEF Give
  <2>2. b \in BOOLEAN
    OBVIOUS
  <2>3. /\ h \in [token : Nat, eth : Nat, inside : BOOLEAN]
        /\ h.token = e.token + 1 /\ h.eth = e.eth /\ h.inside = b
    <3>1. e \in GiftType
      BY <1>2 DEF GiftType
    <3> HIDE DEF b, e
    <3> QED
      BY <2>2, <3>1, GiftGiven DEF GiftType
  <2> HIDE DEF h
  <2>4. gifts'[p] = h /\ gifts' \in GiftsType /\ \A q \in Parties \ {p} : gifts'[q] = gifts[q]
    BY <1>1, <2>1, <2>3 DEF GiftsType
  <2> QED
    BY <2>3, <2>4
<1>7. Level(stack, Len(stack), world', gifts')
  <2> HIDE DEF t
  <2>1. /\ world'.token[p] = world.token[p] - 1
        /\ world'.token[Escrow] = world.token[Escrow] + 1
        /\ \A q \in Parties \ {p} : world'.token[q] = world.token[q] /\ gifts'[q] = gifts[q]
    BY <1>3, <1>5, <1>6
  <2> QED
    BY <1>1, <1>5, <1>6, <2>1, LevelGive
<1> QED
  BY <1>4, <1>5, <1>6, <1>7, QuietStep

\* deposit preserves the invariant.
LEMMA DepositStep ==
    ASSUME BranchInv, NEW p \in Parties, NEW amount \in Nat, Deposit(p, amount)
    PROVE  BranchInv'
<1> DEFINE w == Deposited(world, p, amount)
<1>1. /\ world \in WorldType /\ gifts \in GiftsType /\ stack \in Seq(FrameType)
      /\ Level(stack, Len(stack), world, gifts) /\ Len(stack) \in Nat
      /\ world' = w /\ gifts' = gifts /\ UNCHANGED <<stack, prepared>>
  BY DEF BranchInv, ContractsTypeOK, LevelsInv, Deposit
<1>2. /\ w \in WorldType /\ w.entered = world.entered
      /\ w.orders = world.orders /\ w.totalLocked = world.totalLocked /\ w.token = world.token
      /\ w.vault = [world.vault EXCEPT ![p] = @ + amount]
      /\ w.eth[p] = world.eth[p] - amount /\ w.eth[Vault] = world.eth[Vault] + amount
      /\ \A q \in Parties \ {p} : w.eth[q] = world.eth[q]
  BY <1>1, DepositedWorld
<1> HIDE DEF w
<1>3. VaultBalanced(w, gifts)
  <2>1. VaultBalanced(world, gifts) /\ amount \in Int
    BY <1>1 DEF Level
  <2> QED
    BY <1>1, <1>2, <2>1, VaultMoves
<1>4. SameBooks(world, w) /\ SameGifts(gifts, gifts)
  BY <1>2 DEF SameBooks, SameGifts
<1>5. Level(stack, Len(stack), w, gifts)
  BY <1>1, <1>2, <1>3, <1>4, LevelSame
<1> QED
  BY <1>1, <1>2, <1>5, QuietStep

\* Ether forced on the vault preserves the invariant.
LEMMA ForceStep ==
    ASSUME BranchInv, NEW p \in Parties, ForceEther(p)
    PROVE  BranchInv'
<1> DEFINE t == [world.eth EXCEPT ![p] = @ - 1, ![Vault] = @ + 1]
           e == gifts[p]
           h == [e EXCEPT !.eth = @ + 1]
<1>1. /\ world \in WorldType /\ gifts \in GiftsType /\ stack \in Seq(FrameType)
      /\ Level(stack, Len(stack), world, gifts) /\ Len(stack) \in Nat
  BY DEF BranchInv, ContractsTypeOK, LevelsInv
<1>2. world.eth \in [Parties \cup {Vault} -> Int] /\ e \in [token : Nat, eth : Nat, inside : BOOLEAN]
  BY <1>1 DEF WorldType, GiftsType
<1>3. /\ t \in [Parties \cup {Vault} -> Int]
      /\ t[p] = world.eth[p] - 1 /\ t[Vault] = world.eth[Vault] + 1
      /\ \A q \in Parties \ {p} : t[q] = world.eth[q]
  BY <1>2, ContractsAssumption
<1>4. world' = [world EXCEPT !.eth = t] /\ UNCHANGED <<stack, prepared>>
  BY DEF ForceEther
<1>5. /\ world' \in WorldType /\ world'.eth = t /\ world'.entered = world.entered
      /\ world'.orders = world.orders /\ world'.totalLocked = world.totalLocked
      /\ world'.vault = world.vault /\ world'.token = world.token
  <2> HIDE DEF t
  <2> QED
    BY <1>1, <1>3, <1>4 DEF WorldType
<1>6. /\ gifts' \in GiftsType
      /\ gifts'[p].token = gifts[p].token /\ gifts'[p].eth = gifts[p].eth + 1
      /\ gifts'[p].inside = gifts[p].inside
      /\ \A q \in Parties \ {p} : gifts'[q] = gifts[q]
  <2>1. gifts' = [gifts EXCEPT ![p] = h]
    BY DEF ForceEther
  <2>2. /\ h \in [token : Nat, eth : Nat, inside : BOOLEAN]
        /\ h.token = e.token /\ h.eth = e.eth + 1 /\ h.inside = e.inside
    BY <1>2
  <2> HIDE DEF h
  <2> QED
    BY <1>1, <2>1, <2>2 DEF GiftsType
<1>7. VaultBalanced(world', gifts')
  <2>1. VaultBalanced(world, gifts)
    BY <1>1 DEF Level
  <2>2. /\ world'.eth[p] = world.eth[p] - 1 /\ world'.eth[Vault] = world.eth[Vault] + 1
        /\ \A q \in Parties \ {p} : world'.eth[q] = world.eth[q]
        /\ \A q \in Parties \ {p} : gifts'[q].eth = gifts[q].eth
    BY <1>3, <1>5, <1>6
  <2> HIDE DEF t
  <2> QED
    BY <1>1, <1>5, <1>6, <2>1, <2>2, VaultForced
<1>8. SameBooks(world, world') /\ SameGifts(gifts, gifts')
  <2>1. \A q \in Parties : gifts'[q].inside = gifts[q].inside /\ gifts'[q].token = gifts[q].token
    BY <1>6
  <2> QED
    BY <1>5, <2>1 DEF SameBooks, SameGifts
<1>9. Level(stack, Len(stack), world', gifts')
  BY <1>1, <1>5, <1>7, <1>8, LevelSame
<1> QED
  BY <1>4, <1>5, <1>6, <1>9, QuietStep

\* A revert goes back to a state that satisfied the invariant.
LEMMA RevertStep ==
    ASSUME BranchInv, Revert
    PROVE  BranchInv'
<1> DEFINE n == Len(stack)
           f == stack[n]
<1>1. stack \in Seq(FrameType) /\ stack # <<>> /\ n \in 1..n /\ f \in FrameType
  BY DEF BranchInv, ContractsTypeOK, Revert, Running
<1>0. f.saved \in WorldType /\ f.gifts \in GiftsType
  <2> HIDE DEF f
  <2> QED
    BY <1>1 DEF FrameType
<1>2. Running /\ Return(f.saved) /\ gifts' = f.gifts /\ UNCHANGED prepared /\ Top = f
  BY DEF Revert, Top
<1>3. Level(stack, n - 1, f.saved, f.gifts)
  BY <1>1 DEF BranchInv, LevelsInv
<1> HIDE DEF f
<1> QED
  BY <1>0, <1>1, <1>2, <1>3, ReturnStep DEF BranchInv

\* The check of the balances after the transfer lets only a balanced state return.
LEMMA TransferReturnsStep ==
    ASSUME BranchInv, TransferReturns
    PROVE  BranchInv'
<1> DEFINE n == Len(stack)
           f == stack[n]
<1>1. /\ world \in WorldType /\ gifts \in GiftsType
      /\ stack \in Seq(FrameType) /\ stack # <<>> /\ n \in 1..n /\ f \in FrameType
  BY DEF BranchInv, ContractsTypeOK, TransferReturns, Running
<1>2. /\ Running /\ Return(Left(world)) /\ UNCHANGED <<prepared, gifts>> /\ f.moved
      /\ Exact(world, f.to, f.amount, f.before)
  BY DEF TransferReturns, Top
<1>3. IsEscrowCall(f)
  BY <1>1, <1>2 DEF BranchInv, CallsInv
<1>4. Level(stack, n, world, gifts) /\ Level(stack, n - 1, f.saved, f.gifts)
  BY <1>1 DEF BranchInv, LevelsInv
<1>5. Level(stack, n - 1, Left(world), gifts)
  BY <1>1, <1>2, <1>3, <1>4, LevelReturn
<1>6. /\ ContractsTypeOK /\ LevelsInv /\ HistoryInv /\ CallsInv /\ PreviewHolds /\ PreparedInv
      /\ gifts' = gifts /\ prepared' = prepared
  BY <1>2 DEF BranchInv
<1>7. Left(world) \in WorldType /\ Left(world).orders = world.orders
  BY <1>1, LeftWorld
<1> QED
  BY <1>1, <1>2, <1>5, <1>6, <1>7, ReturnStep

\* The end of the receiver's code preserves the invariant.
LEMMA ReceiverReturnsStep ==
    ASSUME BranchInv, ReceiverReturns
    PROVE  BranchInv'
<1> DEFINE n == Len(stack)
           f == stack[n]
           w == VaultLeft(world)
<1>1. /\ world \in WorldType /\ gifts \in GiftsType
      /\ stack \in Seq(FrameType) /\ stack # <<>> /\ n \in Nat
      /\ Level(stack, n, world, gifts)
  BY DEF BranchInv, ContractsTypeOK, ReceiverReturns, Running, LevelsInv
<1>2. /\ Running /\ Return(w) /\ UNCHANGED <<prepared, gifts>> /\ ~IsEscrowCall(f)
  BY DEF ReceiverReturns, Top, IsEscrowCall
<1>3. /\ w \in WorldType /\ w.entered = world.entered
      /\ w.orders = world.orders /\ w.totalLocked = world.totalLocked
      /\ w.token = world.token /\ w.vault = world.vault /\ w.eth = world.eth
  BY <1>1, VaultLeftWorld
<1> HIDE DEF w
<1>4. SameBooks(world, w) /\ SameGifts(gifts, gifts) /\ VaultBalanced(w, gifts)
  BY <1>1, <1>3 DEF SameBooks, SameGifts, Level, VaultBalanced
<1>5. Level(stack, n, w, gifts)
  BY <1>1, <1>3, <1>4, LevelSame
<1>6. Level(stack, n - 1, w, gifts)
  BY <1>1, <1>2, <1>5, LevelDrop
<1>7. /\ ContractsTypeOK /\ LevelsInv /\ HistoryInv /\ CallsInv /\ PreviewHolds /\ PreparedInv
      /\ gifts' = gifts /\ prepared' = prepared
  BY <1>2 DEF BranchInv
<1> QED
  BY <1>1, <1>2, <1>3, <1>6, <1>7, ReturnStep

\* A prepared call shows what the order says.
LEMMA PrepareStep ==
    ASSUME BranchInv, NEW action \in {"fund", "release", "refund"}, NEW from \in Parties,
           NEW buyer \in Parties, NEW id \in Ids, NEW seller \in Parties \cup {Escrow, Zero},
           NEW amount \in Nat, Prepare(action, from, buyer, id, seller, amount)
    PROVE  BranchInv'
<1> DEFINE order == world.orders[<<buyer, id>>]
           shown == Preview(world, action, buyer, id, seller, amount)
<1>1. /\ UNCHANGED <<world, stack, gifts>> /\ stack = <<>> /\ world \in WorldType
      /\ prepared' = [action |-> action, from |-> from, buyer |-> buyer, id |-> id,
                      seller |-> seller, amount |-> amount, shown |-> shown,
                      mined |-> FALSE, orphaned |-> FALSE]
      /\ MayPrepare(world, action, from, buyer, id, seller, amount)
  BY DEF Prepare, Running, BranchInv, ContractsTypeOK
<1>2. order \in OrderType
  BY <1>1 DEF WorldType, Keys
<1>3. /\ shown \in ShownType
      /\ action \in {"release", "refund"} =>
            /\ order.state # "none"
            /\ shown = [to |-> IF action = "release" THEN order.seller ELSE buyer,
                        amount |-> order.amount]
  <2>1. CASE action = "fund"
    BY <2>1 DEF Preview, ShownType
  <2>2. CASE action = "release"
    BY <1>1, <1>2, <2>2 DEF Preview, ShownType, MayPrepare, OrderType
  <2>3. CASE action = "refund"
    BY <1>1, <1>2, <2>3 DEF Preview, ShownType, MayPrepare, OrderType
  <2> QED
    BY <2>1, <2>2, <2>3
<1> HIDE DEF shown
<1>4. prepared' \in PreparedType
  BY <1>1, <1>3 DEF PreparedType
<1>5. PreparedInv'
  BY <1>1, <1>3 DEF PreparedInv, Promised
<1>6. ContractsTypeOK'
  BY <1>1, <1>4 DEF BranchInv, ContractsTypeOK
<1>7. LevelsInv' /\ HistoryInv' /\ CallsInv' /\ PreviewHolds'
  BY <1>1 DEF BranchInv, LevelsInv, HistoryInv, CallsInv, PreviewHolds, Running
<1> QED
  BY <1>5, <1>6, <1>7 DEF BranchInv

\* An included call still finds what its preview showed.
LEMMA IncludeStep ==
    ASSUME BranchInv, Include
    PROVE  BranchInv'
<1> DEFINE c == prepared
           order == world.orders[<<c.buyer, c.id>>]
           d == [c EXCEPT !.mined = TRUE]
<1>1. /\ c # Nothing /\ prepared' = d /\ stack = <<>> /\ c \in PreparedType
      /\ c.action = "refund" => c.shown.to = c.buyer
      /\ ~c.orphaned => Promised(c, world.orders)
  BY DEF Include, Running, BranchInv, ContractsTypeOK, PreparedInv
<1>2. /\ c.from \in Parties /\ c.buyer \in Parties /\ c.id \in Ids /\ c.amount \in Nat
      /\ c.seller \in Parties \cup {Escrow, Zero} /\ c.shown \in ShownType
  BY <1>1 DEF PreparedType
<1>3. Entered
  <2>1. CASE c.action = "fund" /\ FundCall(c.from, c.id, c.seller, c.amount, c.shown)
    BY <1>2, <2>1, FundStep
  <2>2. CASE c.action = "release" /\ ReleaseCall(c.from, c.buyer, c.id, c.shown)
    <3>1. Shows(c.shown, order.seller, order.amount)
      BY <1>1, <2>2 DEF Promised, Shows
    <3>2. /\ ~world.entered /\ order.state = "funded"
          /\ Enter(Settled(world, c.buyer, c.id, "released"), "pay", Escrow, order.seller,
                   order.amount, c.shown)
      BY <2>2 DEF ReleaseCall, ReleaseAllowed
    <3> QED
      BY <1>2, <3>1, <3>2, PayStep
  <2>3. CASE c.action = "refund" /\ RefundCall(c.from, c.buyer, c.id, c.shown)
    <3>1. Shows(c.shown, c.buyer, order.amount)
      BY <1>1, <2>3 DEF Promised, Shows
    <3>2. /\ ~world.entered /\ order.state = "funded"
          /\ Enter(Settled(world, c.buyer, c.id, "refunded"), "pay", Escrow, c.buyer,
                   order.amount, c.shown)
      BY <2>3 DEF RefundCall, RefundAllowed
    <3> QED
      BY <1>2, <3>1, <3>2, PayStep
  <2> QED
    BY <2>1, <2>2, <2>3 DEF Include
<1>4. /\ d \in PreparedType /\ d # Nothing
      /\ d.action = c.action /\ d.buyer = c.buyer /\ d.id = c.id /\ d.shown = c.shown
      /\ d.orphaned = c.orphaned
  <2> HIDE DEF c
  <2> QED
    BY <1>1 DEF PreparedType, Nothing
<1> HIDE DEF d
<1>5. PreparedInv'
  <2>1. \A o : Promised(c, o) => Promised(d, o)
    BY <1>4 DEF Promised
  <2>2. ~c.orphaned => /\ \A i \in 1..Len(stack') : Promised(c, stack'[i].saved.orders)
                       /\ Promised(c, world'.orders)
    BY <1>1, <1>3 DEF Entered
  <2> QED
    BY <1>1, <1>4, <2>1, <2>2 DEF PreparedInv
<1>6. PreviewHolds'
  <2>1. DOMAIN stack' = 1..Len(stack')
    BY <1>3 DEF Entered
  <2> QED
    BY <1>1, <1>3, <1>4, <2>1 DEF Entered, PreviewHolds, Shows
<1>7. ContractsTypeOK'
  BY <1>1, <1>3, <1>4 DEF Entered, ContractsTypeOK
<1> QED
  BY <1>3, <1>5, <1>6, <1>7 DEF Entered, BranchInv

\* release and refund called by anybody preserve the invariant.
LEMMA SettleStep ==
    ASSUME BranchInv, NEW caller \in Parties, NEW k \in Keys,
           Release(caller, k[1], k[2]) \/ Refund(caller, k[1], k[2])
    PROVE  BranchInv'
<1> DEFINE order == world.orders[<<k[1], k[2]>>]
<1>1. /\ k[1] \in Parties /\ k[2] \in Ids /\ Nothing \in ShownType
      /\ \A to, amount : Shows(Nothing, to, amount)
  BY DEF Keys, ShownType, Shows
<1>2. CASE Release(caller, k[1], k[2])
  <2>1. /\ ~world.entered /\ order.state = "funded" /\ UNCHANGED prepared
        /\ Enter(Settled(world, k[1], k[2], "released"), "pay", Escrow, order.seller,
                 order.amount, Nothing)
    BY <1>2 DEF Release, ReleaseCall, ReleaseAllowed
  <2>2. Entered
    BY <1>1, <2>1, PayStep
  <2> QED
    BY <2>1, <2>2, EnteredInv
<1>3. CASE Refund(caller, k[1], k[2])
  <2>1. /\ ~world.entered /\ order.state = "funded" /\ UNCHANGED prepared
        /\ Enter(Settled(world, k[1], k[2], "refunded"), "pay", Escrow, k[1],
                 order.amount, Nothing)
    BY <1>3 DEF Refund, RefundCall, RefundAllowed
  <2>2. Entered
    BY <1>1, <2>1, PayStep
  <2> QED
    BY <2>1, <2>2, EnteredInv
<1> QED
  BY <1>2, <1>3

\* The contracts start balanced and without orders.
LEMMA InitInv == Init => ContractsInv
<1> SUFFICES ASSUME Init PROVE ContractsInv
  OBVIOUS
<1> DEFINE none == [k \in Keys |-> NoOrder]
           tokens == [p \in Parties \cup {Escrow} |-> IF p = Escrow THEN 0 ELSE Supply]
           empty == [p \in Parties |-> 0]
           ether == [p \in Parties \cup {Vault} |-> IF p = Vault THEN 0 ELSE Ether]
<1>1. Supply \in Nat /\ Ether \in Nat /\ Escrow \notin Parties /\ Vault \notin Parties
  BY ContractsAssumption
<1>2. /\ none \in [Keys -> OrderType] /\ tokens \in [Parties \cup {Escrow} -> Int]
      /\ empty \in [Parties -> Nat] /\ ether \in [Parties \cup {Vault} -> Int]
      /\ gifts \in GiftsType
  BY <1>1 DEF NoOrder, OrderType, Init, NoGifts, GiftsType
<1>3. /\ world = [orders |-> none, totalLocked |-> 0, entered |-> FALSE, token |-> tokens,
                  vault |-> empty, vaultEntered |-> FALSE, eth |-> ether]
      /\ stack = <<>> /\ prepared = Nothing /\ gifts = NoGifts
  BY DEF Init
<1>4. \A p \in Parties : ~gifts[p].inside /\ gifts[p].token = 0 /\ gifts[p].eth = 0
  BY <1>3 DEF NoGifts
<1> HIDE DEF none, tokens, empty, ether
<1>5. ContractsTypeOK
  BY <1>2, <1>3 DEF ContractsTypeOK, WorldType, PreparedType
<1>6. EscrowBalanced(world, gifts)
  <2>1. OrdersIn(none, {"funded"}) = {} /\ \A p \in Parties : BoughtBy(none, p) = {} /\ PaidTo(none, p) = {}
    BY DEF none, NoOrder, OrdersIn, BoughtBy, PaidTo
  <2>2. OrderSum(none, {}) = 0
    BY SumEmpty DEF OrderSum
  <2>3. tokens[Escrow] = 0 /\ \A p \in Parties : tokens[p] = Supply
    BY <1>1 DEF tokens
  <2>4. world.orders = none /\ world.totalLocked = 0 /\ world.token = tokens
    BY <1>3
  <2>5. world.totalLocked = OrderSum(world.orders, OrdersIn(world.orders, {"funded"}))
    BY <2>1, <2>2, <2>4
  <2>6. world.token[Escrow] >= world.totalLocked
    BY <2>3, <2>4
  <2>7. \A p \in Parties :
           world.token[p] + OrderSum(world.orders, BoughtBy(world.orders, p)) + gifts[p].token
              = Supply + OrderSum(world.orders, PaidTo(world.orders, p))
    <3> TAKE p \in Parties
    <3>1. /\ world.token[p] = Supply /\ gifts[p].token = 0
          /\ OrderSum(world.orders, BoughtBy(world.orders, p)) = 0
          /\ OrderSum(world.orders, PaidTo(world.orders, p)) = 0
      BY <1>4, <2>1, <2>2, <2>3, <2>4
    <3> QED
      BY <1>1, <3>1
  <2> QED
    BY <2>5, <2>6, <2>7 DEF EscrowBalanced
<1>7. VaultBalanced(world, gifts)
  <2>1. ether[Vault] = 0 /\ \A p \in Parties : ether[p] = Ether /\ empty[p] = 0
    BY <1>1 DEF ether, empty
  <2>2. EthGifts(gifts) = empty
    BY <1>4 DEF EthGifts, empty
  <2>3. SumOver(empty, Parties) = 0
    BY SumZero, Finite DEF empty
  <2> QED
    BY <1>1, <1>3, <1>4, <2>1, <2>2, <2>3 DEF VaultBalanced
<1>8. LevelsInv /\ HistoryInv /\ CallsInv /\ PreviewHolds /\ PreparedInv
  BY <1>3, <1>6, <1>7 DEF LevelsInv, Level, HistoryInv, Running, CallsInv, PreviewHolds, PreparedInv
<1>9. ForkInv
  <2>1. base = [world |-> world, gifts |-> gifts] /\ Committed = world.orders
    BY <1>3 DEF Init, Committed, Running
  <2>2. world \in WorldType /\ gifts \in GiftsType
    BY <1>5 DEF ContractsTypeOK
  <2>3. Level(<<>>, 0, world, gifts)
    BY <1>3, <1>8 DEF LevelsInv
  <2> HIDE DEF none
  <2> QED
    BY <2>1, <2>2, <2>3, FollowsReflexive DEF ForkInv
<1> QED
  BY <1>5, <1>8, <1>9 DEF ContractsInv, BranchInv

\* Every step on a branch preserves what holds of it.
LEMMA BranchStep == BranchInv /\ [OnBranch]_vars => BranchInv'
<1> SUFFICES ASSUME BranchInv, [OnBranch]_vars PROVE BranchInv'
  OBVIOUS
<1>1. Amounts \subseteq Nat
  BY ContractsAssumption
<1>2. CASE UNCHANGED vars
  BY <1>2 DEF BranchInv, ContractsTypeOK, LevelsInv, HistoryInv, CallsInv, PreviewHolds,
              PreparedInv, Running, vars
<1>3. CASE Drop
  BY <1>3 DEF Drop, BranchInv, ContractsTypeOK, LevelsInv, HistoryInv, CallsInv, PreviewHolds,
              PreparedInv, Running, PreparedType
<1>4. CASE \E moved \in {Top.amount, Top.amount - 1} : Transfer(moved)
  BY <1>4, TransferStep
<1>5. CASE \E p \in Parties : Give(p) \/ ForceEther(p)
  BY <1>5, GiveStep, ForceStep
<1>6. CASE \E p \in Parties, a \in Amounts : Deposit(p, a) \/ Withdraw(p, a)
  BY <1>1, <1>6, DepositStep, WithdrawStep
<1>7. CASE \E caller \in Parties, k \in Keys :
              Release(caller, k[1], k[2]) \/ Refund(caller, k[1], k[2])
  BY <1>7, SettleStep
<1>8. CASE \E k \in Keys, seller \in Parties \cup {Escrow}, a \in Amounts :
              \/ Fund(k[1], k[2], seller, a)
              \/ Prepare("fund", k[1], k[1], k[2], seller, a)
  <2>1. PICK k \in Keys, seller \in Parties \cup {Escrow}, a \in Amounts :
              \/ Fund(k[1], k[2], seller, a)
              \/ Prepare("fund", k[1], k[1], k[2], seller, a)
    BY <1>8
  <2>2. /\ k[1] \in Parties /\ k[2] \in Ids /\ a \in Nat /\ Nothing \in ShownType
        /\ seller \in Parties \cup {Escrow, Zero}
    BY <1>1 DEF Keys, ShownType
  <2>3. CASE Fund(k[1], k[2], seller, a)
    <3>1. FundCall(k[1], k[2], seller, a, Nothing) /\ UNCHANGED prepared
      BY <2>3 DEF Fund
    <3>2. Entered
      BY <2>2, <3>1, FundStep
    <3> QED
      BY <3>1, <3>2, EnteredInv
  <2>4. CASE Prepare("fund", k[1], k[1], k[2], seller, a)
    BY <2>2, <2>4, PrepareStep
  <2> QED
    BY <2>1, <2>3, <2>4
<1>9. CASE \E from \in Parties, k \in Keys, action \in {"release", "refund"} :
              Prepare(action, from, k[1], k[2], Zero, 0)
  <2>1. PICK from \in Parties, k \in Keys, action \in {"release", "refund"} :
              Prepare(action, from, k[1], k[2], Zero, 0)
    BY <1>9
  <2>2. k[1] \in Parties /\ k[2] \in Ids /\ Zero \in Parties \cup {Escrow, Zero}
    BY DEF Keys
  <2> QED
    BY <2>1, <2>2, PrepareStep
<1>10. CASE Revert \/ TransferReturns \/ ReceiverReturns \/ Include
  BY <1>10, RevertStep, TransferReturnsStep, ReceiverReturnsStep, IncludeStep
<1> QED
  BY <1>2, <1>3, <1>4, <1>5, <1>6, <1>7, <1>8, <1>9, <1>10 DEF OnBranch

-----------------------------------------------------------------------------
(* What steps do to the committed orders. *)

Calls == \E f : f.saved = world /\ stack' = Append(stack, f)
Returns ==
    /\ Running /\ stack' = Front(stack)
    /\ world'.orders = world.orders \/ world'.orders = Top.saved.orders
Stays ==
    /\ Len(stack') = Len(stack) /\ world'.orders = world.orders
    /\ \A i \in 1..Len(stack) : stack'[i].saved = stack[i].saved

\* A call remembers the state it started from.
LEMMA EnterCalls ==
    ASSUME NEW w, NEW name, NEW from, NEW to, NEW amount, NEW shown,
           Enter(w, name, from, to, amount, shown)
    PROVE  Calls
<1> DEFINE f == [name |-> name, from |-> from, to |-> to, amount |-> amount, shown |-> shown,
                 moved |-> FALSE, before |-> w.token, saved |-> world, gifts |-> gifts]
<1>1. f.saved = world /\ stack' = Append(stack, f)
  BY DEF Enter
<1> HIDE DEF f
<1> QED
  BY <1>1 DEF Calls

\* A step starts a call, ends one, or leaves the orders as they are.
LEMMA StepKinds ==
    ASSUME BranchInv, [OnBranch]_vars
    PROVE  Calls \/ Returns \/ Stays
<1>1. world \in WorldType /\ stack \in Seq(FrameType)
  BY DEF BranchInv, ContractsTypeOK
<1>2. CASE Revert \/ TransferReturns \/ ReceiverReturns
  BY <1>1, <1>2, LeftWorld, VaultLeftWorld DEF Revert, TransferReturns, ReceiverReturns, Return, Returns
<1>3. CASE Include
  BY <1>3, EnterCalls DEF Include, FundCall, ReleaseCall, RefundCall
<1>4. CASE UNCHANGED vars \/ Drop
  BY <1>4 DEF vars, Drop, Stays
<1>5. CASE \E moved \in {Top.amount, Top.amount - 1} : Transfer(moved)
  <2>1. PICK moved : Transfer(moved)
    BY <1>5
  <2>2. world'.orders = world.orders
    BY <1>1, <2>1 DEF Transfer, WorldType
  <2> DEFINE f == [stack[Len(stack)] EXCEPT !.moved = TRUE]
  <2>3. stack # <<>> /\ stack' = [stack EXCEPT ![Len(stack)] = f]
    BY <2>1 DEF Transfer, Running
  <2>4. f.saved = stack[Len(stack)].saved
    <3>1. stack[Len(stack)] \in FrameType
      BY <1>1, <2>3
    <3> QED
      BY <3>1 DEF FrameType
  <2> HIDE DEF f
  <2>5. Len(stack') = Len(stack) /\ \A i \in 1..Len(stack) : stack'[i].saved = stack[i].saved
    BY <1>1, <2>3, <2>4
  <2> QED
    BY <2>2, <2>5 DEF Stays
<1>6. CASE \E p \in Parties : Give(p) \/ ForceEther(p)
  BY <1>1, <1>6 DEF Give, ForceEther, Stays, WorldType
<1>7. CASE \E p \in Parties, a \in Amounts : Deposit(p, a) \/ Withdraw(p, a)
  <2>1. PICK p \in Parties, a \in Amounts : Deposit(p, a) \/ Withdraw(p, a)
    BY <1>7
  <2>2. CASE Deposit(p, a)
    <3>1. a \in Nat
      BY ContractsAssumption
    <3> QED
      BY <1>1, <2>2, <3>1, DepositedWorld DEF Deposit, Stays
  <2>3. CASE Withdraw(p, a)
    BY <2>3, EnterCalls DEF Withdraw
  <2> QED
    BY <2>1, <2>2, <2>3
<1>8. CASE \E caller \in Parties, k \in Keys :
              Release(caller, k[1], k[2]) \/ Refund(caller, k[1], k[2])
  BY <1>8, EnterCalls DEF Release, Refund, ReleaseCall, RefundCall
<1>9. CASE \E k \in Keys, seller \in Parties \cup {Escrow}, a \in Amounts :
              \/ Fund(k[1], k[2], seller, a)
              \/ Prepare("fund", k[1], k[1], k[2], seller, a)
  BY <1>9, EnterCalls DEF Fund, FundCall, Prepare, Stays
<1>10. CASE \E from \in Parties, k \in Keys, action \in {"release", "refund"} :
               Prepare(action, from, k[1], k[2], Zero, 0)
  BY <1>10 DEF Prepare, Stays
<1> QED
  BY <1>2, <1>3, <1>4, <1>5, <1>6, <1>7, <1>8, <1>9, <1>10 DEF OnBranch

\* The committed orders are orders.
LEMMA CommittedType ==
    ASSUME BranchInv
    PROVE  Committed \in [Keys -> OrderType]
<1>1. world \in WorldType /\ stack \in Seq(FrameType)
  BY DEF BranchInv, ContractsTypeOK
<1>2. Running => stack[1].saved \in WorldType
  <2> SUFFICES ASSUME Running PROVE stack[1].saved \in WorldType
    OBVIOUS
  <2>1. stack[1] \in FrameType
    BY <1>1 DEF Running
  <2> QED
    BY <2>1 DEF FrameType
<1> QED
  BY <1>1, <1>2 DEF Committed, WorldType

\* So they are after a step.
LEMMA CommittedTypeNext ==
    ASSUME BranchInv'
    PROVE  Committed' \in [Keys -> OrderType]
<1>1. world' \in WorldType /\ stack' \in Seq(FrameType)
  BY DEF BranchInv, ContractsTypeOK
<1>2. stack' # <<>> => stack'[1].saved \in WorldType
  <2> SUFFICES ASSUME stack' # <<>> PROVE stack'[1].saved \in WorldType
    OBVIOUS
  <2>1. stack'[1] \in FrameType
    BY <1>1
  <2> QED
    BY <2>1 DEF FrameType
<1> QED
  BY <1>1, <1>2 DEF Committed, Running, WorldType

\* On a branch the committed orders follow their life cycle.
LEMMA CommittedMoves ==
    ASSUME BranchInv, BranchInv', [OnBranch]_vars
    PROVE  Follows(Committed, Committed')
<1>1. /\ stack \in Seq(FrameType) /\ stack' \in Seq(FrameType)
      /\ world.orders \in [Keys -> OrderType] /\ world'.orders \in [Keys -> OrderType]
  BY DEF BranchInv, ContractsTypeOK, WorldType
<1>2. CASE Calls
  <2>1. PICK f : f.saved = world /\ stack' = Append(stack, f)
    BY <1>2 DEF Calls
  <2>2. f \in FrameType
    <3>1. Len(stack') = Len(stack) + 1 /\ stack'[Len(stack) + 1] = f /\ Len(stack) \in Nat
      BY <1>1, <2>1
    <3> QED
      BY <1>1, <3>1
  <2>3. stack' # <<>> /\ stack'[1] = IF stack = <<>> THEN f ELSE stack[1]
    BY <1>1, <2>1, <2>2
  <2>4. Committed' = Committed
    BY <2>1, <2>3 DEF Committed, Running
  <2> QED
    BY <2>4, FollowsReflexive
<1>3. CASE Returns
  <2>1. /\ stack # <<>> /\ Len(stack') = Len(stack) - 1 /\ Len(stack) \in Nat \ {0}
        /\ \A i \in 1..(Len(stack) - 1) : stack'[i] = stack[i]
        /\ world'.orders = world.orders \/ world'.orders = stack[Len(stack)].saved.orders
    BY <1>1, <1>3, FrontOf DEF Returns, Running, Top
  <2>2. CASE Len(stack) = 1
    <3>1. stack' = <<>> /\ stack[Len(stack)] = stack[1]
      BY <1>1, <2>1, <2>2
    <3>2. Committed = stack[1].saved.orders /\ Committed' = world'.orders
      BY <2>1, <3>1 DEF Committed, Running
    <3>3. Follows(stack[1].saved.orders, world'.orders)
      <4>1. Follows(stack[1].saved.orders, world.orders)
        BY <2>1 DEF BranchInv, HistoryInv, Running
      <4> QED
        BY <2>1, <3>1, <4>1, FollowsReflexive
    <3> QED
      BY <3>2, <3>3
  <2>3. CASE Len(stack) # 1
    <3>1. stack' # <<>> /\ stack'[1] = stack[1]
      BY <1>1, <2>1, <2>3
    <3>2. Committed' = Committed
      BY <2>1, <3>1 DEF Committed, Running
    <3> QED
      BY <3>2, FollowsReflexive
  <2> QED
    BY <2>2, <2>3
<1>4. CASE Stays
  <2>1. stack = <<>> <=> stack' = <<>>
    BY <1>1, <1>4 DEF Stays
  <2>2. stack # <<>> => stack'[1].saved = stack[1].saved
    BY <1>1, <1>4 DEF Stays
  <2>3. Committed' = Committed
    BY <1>4, <2>1, <2>2 DEF Committed, Running, Stays
  <2> QED
    BY <2>3, FollowsReflexive
<1> QED
  BY <1>2, <1>3, <1>4, StepKinds

\* A step on a branch leaves the fork point alone.
LEMMA BaseKept ==
    ASSUME [OnBranch]_vars
    PROVE  base' = base
BY DEF vars, OnBranch, Revert, TransferReturns, ReceiverReturns, Include, Drop, Transfer, Give,
       ForceEther, Deposit, Withdraw, Release, Refund, Fund, Prepare

-----------------------------------------------------------------------------
(* Reorganizations. *)

\* What the preview of c says of an order was so already at the fork point, if the order
\* was there.
LEMMA PromiseKeptBack ==
    ASSUME NEW c \in PreparedType, c # Nothing, NEW o \in [Keys -> OrderType],
           NEW n \in [Keys -> OrderType], Follows(o, n), Promised(c, n),
           o[<<c.buyer, c.id>>].state # "none"
    PROVE  Promised(c, o)
<1> DEFINE k == <<c.buyer, c.id>>
<1>1. k \in Keys
  BY DEF PreparedType, Keys
<1> HIDE DEF k
<1>2. Orders!MayBecome(o[k], n[k]) /\ o[k] \in OrderType /\ o[k].state # "none"
  BY <1>1 DEF Follows, k
<1>3. n[k].seller = o[k].seller /\ n[k].amount = o[k].amount
  BY <1>2 DEF Orders!MayBecome, OrderType
<1> QED
  BY <1>2, <1>3 DEF Promised, k

\* The fork point moves up to the current block.
LEMMA AnchorStep ==
    ASSUME ContractsInv, Anchor
    PROVE  ContractsInv'
<1>1. /\ BranchInv /\ stack = <<>> /\ world' = world /\ stack' = stack /\ gifts' = gifts
      /\ base' = [world |-> world, gifts |-> gifts]
      /\ prepared' = Nothing \/ prepared' = prepared
  BY DEF ContractsInv, Anchor, Running
<1>2. ContractsTypeOK' /\ PreparedInv'
  BY <1>1 DEF BranchInv, ContractsTypeOK, PreparedInv, PreparedType
<1>3. LevelsInv' /\ HistoryInv' /\ CallsInv' /\ PreviewHolds'
  BY <1>1 DEF BranchInv, LevelsInv, HistoryInv, CallsInv, PreviewHolds, Running
<1>4. ForkInv'
  <2>1. world \in WorldType /\ gifts \in GiftsType /\ Committed' = world.orders
    BY <1>1 DEF BranchInv, ContractsTypeOK, Committed, Running
  <2>2. Level(<<>>, 0, world, gifts)
    BY <1>1 DEF BranchInv, LevelsInv
  <2> QED
    BY <1>1, <2>1, <2>2, FollowsReflexive DEF ForkInv
<1> QED
  BY <1>2, <1>3, <1>4 DEF ContractsInv, BranchInv

\* The chain goes back to the fork point: the preview of an order that is there still
\* holds.
LEMMA ReorgStep ==
    ASSUME ContractsInv, Reorg
    PROVE  ContractsInv'
<1> DEFINE c == prepared
           gone == c.orphaned \/ base.world.orders[<<c.buyer, c.id>>].state = "none"
           d == [c EXCEPT !.mined = FALSE, !.orphaned = gone]
<1>1. /\ BranchInv /\ ForkInv /\ stack = <<>> /\ stack' = <<>> /\ base' = base
      /\ world' = base.world /\ gifts' = base.gifts
      /\ prepared' = IF c = Nothing THEN Nothing ELSE d
  BY DEF ContractsInv, Reorg, Running
<1>2. base.world \in WorldType /\ base.gifts \in GiftsType /\ c \in PreparedType
  BY <1>1 DEF ForkInv, BranchInv, ContractsTypeOK
<1>3. c # Nothing =>
         /\ d \in PreparedType /\ d # Nothing /\ d.orphaned = gone
         /\ d.action = c.action /\ d.buyer = c.buyer /\ d.id = c.id /\ d.shown = c.shown
  <2>1. gone \in BOOLEAN
    BY <1>2 DEF PreparedType
  <2> HIDE DEF c, gone
  <2> QED
    BY <1>2, <2>1 DEF PreparedType, Nothing
<1> HIDE DEF d
<1>4. ContractsTypeOK'
  BY <1>1, <1>2, <1>3 DEF ContractsTypeOK, PreparedType
<1>5. PreparedInv'
  <2> SUFFICES ASSUME c # Nothing
               PROVE  /\ d.action = "refund" => d.shown.to = d.buyer
                      /\ ~d.orphaned => Promised(d, base.world.orders)
    BY <1>1, <1>3 DEF PreparedInv
  <2>1. /\ c.action = "refund" => c.shown.to = c.buyer
        /\ ~c.orphaned => Promised(c, world.orders)
    BY <1>1 DEF BranchInv, PreparedInv
  <2>2. ASSUME ~d.orphaned PROVE Promised(d, base.world.orders)
    <3>1. ~c.orphaned /\ base.world.orders[<<c.buyer, c.id>>].state # "none"
      BY <1>3, <2>2
    <3>2. /\ world.orders \in [Keys -> OrderType] /\ base.world.orders \in [Keys -> OrderType]
          /\ Follows(base.world.orders, world.orders)
      BY <1>1, <1>2 DEF BranchInv, ContractsTypeOK, ForkInv, Committed, Running, WorldType
    <3>3. Promised(c, base.world.orders)
      BY <1>2, <2>1, <3>1, <3>2, PromiseKeptBack
    <3> QED
      BY <1>3, <3>3 DEF Promised
  <2> QED
    BY <1>3, <2>1, <2>2
<1>6. LevelsInv' /\ HistoryInv' /\ CallsInv' /\ PreviewHolds'
  BY <1>1 DEF ForkInv, LevelsInv, HistoryInv, CallsInv, PreviewHolds, Running
<1>7. ForkInv'
  <2>1. Committed' = base.world.orders
    BY <1>1 DEF Committed, Running
  <2> QED
    BY <1>1, <2>1, FollowsReflexive DEF ForkInv
<1> QED
  BY <1>4, <1>5, <1>6, <1>7 DEF ContractsInv, BranchInv

\* Every step preserves the invariant.
LEMMA NextInv == ContractsInv /\ [Next]_vars => ContractsInv'
<1> SUFFICES ASSUME ContractsInv, [Next]_vars PROVE ContractsInv'
  OBVIOUS
<1>1. CASE Anchor
  BY <1>1, AnchorStep
<1>2. CASE Reorg
  BY <1>2, ReorgStep
<1>3. CASE [OnBranch]_vars
  <2>1. BranchInv /\ ForkInv /\ BranchInv' /\ base' = base
    BY <1>3, BranchStep, BaseKept DEF ContractsInv
  <2>2. base.world.orders \in [Keys -> OrderType]
    BY <2>1 DEF ForkInv, WorldType
  <2>3. Committed \in [Keys -> OrderType] /\ Committed' \in [Keys -> OrderType]
    BY <2>1, CommittedType, CommittedTypeNext
  <2>4. Follows(base.world.orders, Committed')
    <3>1. Follows(Committed, Committed')
      BY <1>3, <2>1, CommittedMoves
    <3> QED
      BY <2>1, <2>3, <3>1, FollowsTransitive DEF ForkInv
  <2>5. ForkInv'
    BY <2>1, <2>4 DEF ForkInv
  <2> QED
    BY <2>1, <2>5 DEF ContractsInv
<1> QED
  BY <1>1, <1>2, <1>3 DEF Next

-----------------------------------------------------------------------------
(* The theorems. *)

\* Every state, inside and between transactions, satisfies the invariant.
THEOREM ContractsInvariant == Spec => []ContractsInv
<1>1. Init => ContractsInv
  BY InitInv
<1>2. ContractsInv /\ [Next]_vars => ContractsInv'
  BY NextInv
<1> QED
  BY <1>1, <1>2, PTL DEF Spec

\* Between transactions the escrow's books balance to the unit (EscrowIsExact),
\* for any token that may move too little, refuse or call back, any number of
\* parties, orders and nested calls.
THEOREM EscrowSolvency == Spec => []EscrowIsExact
<1>1. ContractsInv => EscrowIsExact
  <2> SUFFICES ASSUME ContractsInv, ~Running PROVE EscrowIsExact
    BY DEF EscrowIsExact
  <2>1. Level(stack, 0, world, gifts)
    BY DEF ContractsInv, BranchInv, LevelsInv, Running
  <2>2. ~world.entered
    BY <2>1 DEF Level
  <2>3. EscrowBalanced(world, gifts)
    BY <2>1, <2>2 DEF Level
  <2> QED
    BY <2>3 DEF EscrowBalanced, EscrowIsExact, OrderSum, AmountsOf, SumOver, Total, OrdersIn, InState,
                BoughtBy, PaidTo, PaidIn, PaidOut, NoneInside
<1> QED
  BY <1>1, ContractsInvariant, PTL

\* The same for the vault and the ether of its accounts (VaultIsExact).
THEOREM VaultSolvency == Spec => []VaultIsExact
<1>1. ContractsInv => VaultIsExact
  <2> SUFFICES ASSUME ContractsInv, ~Running PROVE VaultIsExact
    BY DEF VaultIsExact
  <2>1. VaultBalanced(world, gifts)
    BY DEF ContractsInv, BranchInv, LevelsInv, Level
  <2>2. DOMAIN world.vault = Parties
    BY DEF ContractsInv, BranchInv, ContractsTypeOK, WorldType
  <2>3. SumFunction(world.vault) = SumOver(world.vault, Parties)
    BY <2>2 DEF SumFunction, SumOver
  <2>4. Given("eth") = SumOver(EthGifts(gifts), Parties)
    BY DEF Given, SumFunction, SumOver, EthGifts
  <2> QED
    BY <2>1, <2>3, <2>4 DEF VaultBalanced, VaultIsExact
<1> QED
  BY <1>1, ContractsInvariant, PTL

\* A prepared release or refund pays what its preview showed (PreviewHolds).
THEOREM PreviewsAreKept == Spec => []PreviewHolds
BY ContractsInvariant, PTL DEF ContractsInv, BranchInv

\* Transactions take the orders along their life cycle, and only a reorganization takes
\* them back: the contracts implement OrderLifeCycle.
THEOREM OrdersRefinement == Spec => OrdersFollowLifeCycle
<1>1. Init => Orders!Init
  BY DEF Init, Orders!Init, Committed, Running
<1>2. ContractsInv /\ ContractsInv' /\ [Next]_vars => [Orders!Next]_<<Committed, base.world.orders>>
  <2> SUFFICES ASSUME ContractsInv, ContractsInv', [Next]_vars
               PROVE  Orders!Next
    OBVIOUS
  <2>1. CASE Anchor
    <3>1. Committed = world.orders /\ Committed' = world.orders /\ base'.world.orders = world.orders
      BY <2>1 DEF Anchor, Committed, Running
    <3> QED
      BY <3>1 DEF Orders!Next, Orders!Anchor
  <2>2. CASE Reorg
    <3>1. Committed' = base.world.orders /\ base'.world.orders = base.world.orders
      BY <2>2 DEF Reorg, Committed, Running
    <3> QED
      BY <3>1 DEF Orders!Next, Orders!Reorg
  <2>3. CASE [OnBranch]_vars
    <3>1. /\ Follows(Committed, Committed') /\ base' = base
          /\ Committed \in [Keys -> OrderType]
      BY <2>3, CommittedMoves, CommittedType, BaseKept DEF ContractsInv
    <3>2. Committed' \in [Keys -> OrderType]
      BY CommittedTypeNext DEF ContractsInv
    <3> QED
      BY <3>1, <3>2 DEF Orders!Next, Orders!Transaction, Follows
  <2> QED
    BY <2>1, <2>2, <2>3 DEF Next
<1> QED
  BY <1>1, <1>2, ContractsInvariant, PTL DEF Spec, OrdersFollowLifeCycle, Orders!Spec
=============================================================================
