------------------------------ MODULE ChatProofs ------------------------------
(***************************************************************************)
(* Proofs about what harvey tells the model.                               *)
(*                                                                         *)
(* About PromptAlgorithms, for every conversation, limit and rewrite: what *)
(* a rewrite records gives the new history back, and the loops that cut a  *)
(* prompt to its limit end with what Prompt says at once.                  *)
(*                                                                         *)
(* About ChatTurn, for every set of setups, number of commands and number  *)
(* of tool rounds: what the session log rebuilds is what was sent, and is  *)
(* the history, while the session does nothing that is known to bring the  *)
(* log out of step; what is pinned is in every prompt; and a call that is  *)
(* sent has its result.                                                    *)
(*                                                                         *)
(* The agent and its log are followed together. Reads says what list a    *)
(* log would be rebuilt to now; Rests, Told and Waits what is so between   *)
(* turns, with a prompt chosen, and while an answer is awaited; Conversing *)
(* is the invariant of the whole.                                          *)
(***************************************************************************)
EXTENDS ChatTurn, PromptAlgorithms, SequenceTheorems, WellFoundedInduction, TLAPS

-----------------------------------------------------------------------------
(* Lists, rewrites and the loops that fit a prompt.                       *)

\* A set of naturals that is not empty has a least member.
LEMMA LeastNatural ==
  ASSUME NEW T, T \subseteq Nat, T # {}
  PROVE  \E x \in T : \A y \in T : x <= y
<1>1. PICK x \in T : \A y \in T : ~ (<<y, x>> \in OpToRel(<, Nat))
  BY NatLessThanWellFounded, WFMin
<1>2. \A y \in T : ~ (y < x)
  BY <1>1 DEF OpToRel
<1> QED
  BY <1>2

LEMMA LastOf ==
  ASSUME NEW m \in Nat, NEW s \in SUBSET (1 .. m + 1), m + 1 \in s
  PROVE  Max(s) = m + 1
<1>1. \A x \in s : x \in Nat /\ x <= m + 1
  OBVIOUS
<1>2. \A y \in s : m + 1 >= y
  BY <1>1
<1>3. Max(s) \in s /\ Max(s) >= m + 1
  <2>1. \E x \in s : \A y \in s : x >= y
    BY <1>2
  <2>2. Max(s) = CHOOSE x \in s : \A y \in s : x >= y
    BY DEF Max
  <2>3. Max(s) \in s /\ \A y \in s : Max(s) >= y
    BY <2>1, <2>2, Zenon
  <2> QED
    BY <2>3
<1>4. Max(s) \in Nat /\ Max(s) <= m + 1
  BY <1>1, <1>3
<1> QED
  BY <1>3, <1>4

-----------------------------------------------------------------------------
(* Folds. A fold of the community modules is a recursive function on the   *)
(* sets of positions, of which the greatest is done last. What it computes *)
(* is said here once, of any step that is a function: the values after     *)
(* each position (f), that there is such a function on sets (g), and that  *)
(* every one of them (h) has these values.                                 *)

LEMMA UpTo ==
  ASSUME NEW n \in Nat, NEW T, 0 \in T, \A i \in 1 .. n : i - 1 \in T => i \in T
  PROVE  \A i \in 0 .. n : i \in T
<1> DEFINE U == {i \in 0 .. n : i \notin T}
<1> SUFFICES ASSUME U # {} PROVE FALSE
  OBVIOUS
<1>1. U \subseteq Nat
  OBVIOUS
<1>2. PICK m \in U : \A k \in U : m <= k
  <2> HIDE DEF U
  <2> QED BY <1>1, LeastNatural
<1>3. m \in 1 .. n /\ m - 1 \in 0 .. n /\ m - 1 < m
  BY <1>2
<1>4. m - 1 \in T
  BY <1>2, <1>3
<1> QED
  BY <1>2, <1>3, <1>4

LEMMA GreatestIn ==
  ASSUME NEW n \in Nat, NEW s \in SUBSET (1 .. n), s # {}
  PROVE  Max(s) \in s /\ s \ {Max(s)} \in SUBSET (1 .. n)
<1> DEFINE T == {n - x : x \in s}
<1>1. T \subseteq Nat /\ T # {}
  OBVIOUS
<1>2. PICK y \in T : \A z \in T : y <= z
  <2> HIDE DEF T
  <2> QED BY <1>1, LeastNatural
<1>3. PICK x \in s : y = n - x
  BY <1>2
<1>4. \A z \in s : x >= z
  <2> SUFFICES ASSUME NEW z \in s PROVE x >= z
    OBVIOUS
  <2>1. n - x <= n - z
    BY <1>2, <1>3
  <2> QED
    BY <2>1
<1>5. \E u \in s : \A z \in s : u >= z
  BY <1>4
<1>6. Max(s) \in s
  BY <1>5, Zenon DEF Max
<1> QED
  BY <1>6

\* The values of a fold after each position.
Folded(f, A, st, base, p) ==
  /\ f \in [0 .. Len(p) -> A] /\ f[0] = base
  /\ \A i \in 1 .. Len(p) : f[i] = st[<<f[i - 1], p[i]>>]

\* A function on sets of positions that folds, where its values are in A.
FoldsIn(h, A, st, base, p, n) ==
  /\ h[{}] = base
  /\ \A s \in SUBSET (1 .. n) : s # {} /\ h[s \ {Max(s)}] \in A =>
       h[s] = st[<<h[s \ {Max(s)}], p[Max(s)]>>]

FoldsOn(g, A, st, base, p, n) ==
  /\ g \in [SUBSET (1 .. n) -> A] /\ g[{}] = base
  /\ \A s \in SUBSET (1 .. n) : s # {} => g[s] = st[<<g[s \ {Max(s)}], p[Max(s)]>>]

\* What is used of the two.
Steps(g, A, B, st, base, p) ==
  /\ g = [s \in SUBSET (DOMAIN p) |-> g[s]] /\ g[{}] = base
  /\ \A s \in SUBSET (DOMAIN p) : s # {} =>
       /\ g[s \ {Max(s)}] \in A /\ p[Max(s)] \in B
       /\ g[s] = st[<<g[s \ {Max(s)}], p[Max(s)]>>]
ValuesOf(f, A, st, base, p) ==
  /\ Folded(f, A, st, base, p)
  /\ \A h : FoldsIn(h, A, st, base, p, Len(p)) => h[1 .. Len(p)] = f[Len(p)]

LEMMA FoldOneMore ==
  ASSUME NEW A, NEW B, NEW st \in [A \X B -> A], NEW base \in A, NEW p \in Seq(B),
         NEW m \in Nat, m + 1 <= Len(p), NEW g, FoldsOn(g, A, st, base, p, m)
  PROVE  \E h : FoldsOn(h, A, st, base, p, m + 1)
<1> DEFINE h == [s \in SUBSET (1 .. m + 1) |->
                   IF s \in SUBSET (1 .. m) THEN g[s] ELSE st[<<g[s \ {m + 1}], p[m + 1]>>]]
<1>1. p[m + 1] \in B
  BY LenProperties
<1>2. \A s \in SUBSET (1 .. m) : g[s] \in A
  BY DEF FoldsOn
<1>3. \A s \in SUBSET (1 .. m + 1) : s \ {m + 1} \in SUBSET (1 .. m) /\ (s \notin SUBSET (1 .. m) => m + 1 \in s)
  <2>1. \A x \in 1 .. m + 1 : x \in 1 .. m \/ x = m + 1
    OBVIOUS
  <2> QED
    BY <2>1
<1>4. h \in [SUBSET (1 .. m + 1) -> A]
  <2>1. ASSUME NEW s \in SUBSET (1 .. m + 1) PROVE st[<<g[s \ {m + 1}], p[m + 1]>>] \in A
    <3>1. g[s \ {m + 1}] \in A
      BY <1>2, <1>3
    <3> QED
      BY <1>1, <3>1
  <2> QED
    BY <1>2, <2>1
<1>5. h[{}] = base
  BY DEF FoldsOn
<1>6. ASSUME NEW s \in SUBSET (1 .. m + 1), s # {}
      PROVE  h[s] = st[<<h[s \ {Max(s)}], p[Max(s)]>>]
  <2>1. CASE s \in SUBSET (1 .. m)
    <3>1. s \ {Max(s)} \in SUBSET (1 .. m) /\ s \ {Max(s)} \in SUBSET (1 .. m + 1)
      BY <2>1
    <3>2. h[s] = g[s] /\ h[s \ {Max(s)}] = g[s \ {Max(s)}]
      BY <2>1, <3>1
    <3>3. g[s] = st[<<g[s \ {Max(s)}], p[Max(s)]>>]
      BY <1>6, <2>1 DEF FoldsOn
    <3> HIDE DEF h
    <3> QED
      BY <3>2, <3>3
  <2>2. CASE s \notin SUBSET (1 .. m)
    <3>1. Max(s) = m + 1
      BY <1>3, <2>2, LastOf
    <3>2. s \ {m + 1} \in SUBSET (1 .. m) /\ s \ {m + 1} \in SUBSET (1 .. m + 1)
      BY <1>3
    <3>3. h[s] = st[<<g[s \ {m + 1}], p[m + 1]>>] /\ h[s \ {m + 1}] = g[s \ {m + 1}]
      BY <2>2, <3>2
    <3> HIDE DEF h
    <3> QED
      BY <3>1, <3>3
  <2> QED
    BY <2>1, <2>2
<1> HIDE DEF h
<1> QED
  BY <1>4, <1>5, <1>6 DEF FoldsOn

LEMMA FoldExists ==
  ASSUME NEW A, NEW B, NEW st \in [A \X B -> A], NEW base \in A, NEW p \in Seq(B)
  PROVE  \E g : FoldsOn(g, A, st, base, p, Len(p))
<1> DEFINE T == {m \in Nat : \E g : FoldsOn(g, A, st, base, p, m)}
<1>1. 0 \in T
  <2> DEFINE g == [s \in SUBSET (1 .. 0) |-> base]
  <2>1. \A s \in SUBSET (1 .. 0) : s = {}
    OBVIOUS
  <2>2. g \in [SUBSET (1 .. 0) -> A] /\ g[{}] = base
    OBVIOUS
  <2> HIDE DEF g
  <2>3. FoldsOn(g, A, st, base, p, 0)
    BY <2>1, <2>2 DEF FoldsOn
  <2> QED
    BY <2>3
<1>2. ASSUME NEW i \in 1 .. Len(p), i - 1 \in T PROVE i \in T
  <2>1. Len(p) \in Nat /\ i - 1 \in Nat /\ i \in Nat /\ i - 1 + 1 = i /\ i <= Len(p)
    BY LenProperties
  <2>2. PICK g : FoldsOn(g, A, st, base, p, i - 1)
    BY <1>2
  <2>3. \E h : FoldsOn(h, A, st, base, p, i - 1 + 1)
    BY <2>1, <2>2, FoldOneMore
  <2> QED
    BY <2>1, <2>3
<1>3. Len(p) \in Nat /\ Len(p) \in 0 .. Len(p)
  BY LenProperties
<1> HIDE DEF T
<1>4. Len(p) \in T
  BY <1>1, <1>2, <1>3, UpTo
<1> QED
  BY <1>4 DEF T

LEMMA Prefix == \A i \in Nat : i # 0 => Max(1 .. i) = i /\ (1 .. i) \ {i} = 1 .. i - 1 /\ 1 .. i # {}
<1> SUFFICES ASSUME NEW i \in Nat, i # 0 PROVE Max(1 .. i) = i /\ (1 .. i) \ {i} = 1 .. i - 1 /\ 1 .. i # {}
  OBVIOUS
<1>1. i - 1 \in Nat /\ i - 1 + 1 = i /\ 1 .. i \in SUBSET (1 .. i - 1 + 1) /\ i - 1 + 1 \in 1 .. i
  OBVIOUS
<1>2. Max(1 .. i) = i - 1 + 1
  BY <1>1, LastOf
<1>3. ASSUME NEW x PROVE x \in (1 .. i) \ {i} <=> x \in 1 .. i - 1
  OBVIOUS
<1> QED
  BY <1>1, <1>2, <1>3

LEMMA Folding ==
  ASSUME NEW A, NEW B, NEW st \in [A \X B -> A], NEW base \in A, NEW p \in Seq(B)
  PROVE  \E f : ValuesOf(f, A, st, base, p)
<1>1. PICK g : FoldsOn(g, A, st, base, p, Len(p))
  BY FoldExists
<1>2. Len(p) \in Nat
  BY LenProperties
<1> DEFINE f == [i \in 0 .. Len(p) |-> g[1 .. i]]
<1>3. \A i \in 0 .. Len(p) : 1 .. i \in SUBSET (1 .. Len(p))
  BY <1>2
<1>4. f \in [0 .. Len(p) -> A]
  BY <1>1, <1>3 DEF FoldsOn
<1>5. f[0] = base
  <2>1. 1 .. 0 = {} /\ 0 \in 0 .. Len(p)
    BY <1>2
  <2> QED
    BY <1>1, <2>1 DEF FoldsOn
<1>6. ASSUME NEW i \in 1 .. Len(p)
      PROVE  /\ f[i] = st[<<f[i - 1], p[i]>>]
             /\ i - 1 \in 0 .. Len(p) /\ i \in 0 .. Len(p) /\ i \in Nat /\ i # 0
  <2>1. i - 1 \in 0 .. Len(p) /\ i \in 0 .. Len(p) /\ i \in Nat /\ i # 0
    BY <1>2
  <2>2. Max(1 .. i) = i /\ (1 .. i) \ {i} = 1 .. i - 1 /\ 1 .. i # {}
    BY <2>1, Prefix
  <2>3. g[1 .. i] = st[<<g[1 .. i - 1], p[i]>>]
    BY <1>1, <1>3, <2>1, <2>2 DEF FoldsOn
  <2> QED
    BY <2>1, <2>3
<1> HIDE DEF f
<1>7. Folded(f, A, st, base, p)
  BY <1>4, <1>5, <1>6 DEF Folded
<1>8. ASSUME NEW h, FoldsIn(h, A, st, base, p, Len(p)) PROVE h[1 .. Len(p)] = f[Len(p)]
  <2> DEFINE T == {i \in 0 .. Len(p) : h[1 .. i] = f[i]}
  <2>1. 0 \in T
    <3>1. 1 .. 0 = {} /\ 0 \in 0 .. Len(p)
      BY <1>2
    <3> QED
      BY <1>5, <1>8, <3>1 DEF FoldsIn
  <2>2. ASSUME NEW i \in 1 .. Len(p), i - 1 \in T PROVE i \in T
    <3>1. f[i] = st[<<f[i - 1], p[i]>>] /\ i - 1 \in 0 .. Len(p) /\ i \in 0 .. Len(p) /\ i \in Nat /\ i # 0
      BY <1>6
    <3>2. Max(1 .. i) = i /\ (1 .. i) \ {i} = 1 .. i - 1 /\ 1 .. i # {}
      BY <3>1, Prefix
    <3>3. h[1 .. i - 1] = f[i - 1] /\ f[i - 1] \in A
      BY <1>4, <2>2, <3>1
    <3>4. h[1 .. i] = st[<<h[1 .. i - 1], p[i]>>]
      BY <1>3, <1>8, <3>1, <3>2, <3>3 DEF FoldsIn
    <3> QED
      BY <3>1, <3>3, <3>4
  <2>3. Len(p) \in 0 .. Len(p)
    BY <1>2
  <2> HIDE DEF T
  <2>4. Len(p) \in T
    BY <1>2, <2>1, <2>2, <2>3, UpTo
  <2> QED
    BY <2>4 DEF T
<1> QED
  BY <1>7, <1>8 DEF ValuesOf

LEMMA FoldSteps ==
  ASSUME NEW A, NEW B, NEW st \in [A \X B -> A], NEW base \in A, NEW p \in Seq(B)
  PROVE  \E g : Steps(g, A, B, st, base, p)
<1>1. PICK g : FoldsOn(g, A, st, base, p, Len(p))
  BY FoldExists
<1>2. DOMAIN p = 1 .. Len(p) /\ Len(p) \in Nat /\ \A i \in 1 .. Len(p) : p[i] \in B
  BY LenProperties
<1>3. \A s \in SUBSET (1 .. Len(p)) : s # {} => Max(s) \in 1 .. Len(p) /\ s \ {Max(s)} \in SUBSET (1 .. Len(p))
  BY <1>2, GreatestIn
<1>4. \A s \in SUBSET (1 .. Len(p)) : s # {} =>
        g[s \ {Max(s)}] \in A /\ p[Max(s)] \in B /\ g[s] = st[<<g[s \ {Max(s)}], p[Max(s)]>>]
  BY <1>1, <1>2, <1>3 DEF FoldsOn
<1>5. g = [s \in SUBSET (DOMAIN p) |-> g[s]] /\ g[{}] = base
  BY <1>1, <1>2 DEF FoldsOn
<1> QED
  BY <1>2, <1>4, <1>5 DEF Steps

-----------------------------------------------------------------------------
(* Rewrites. A fold of one item more is a fold with one step more.       *)

Stepped(st, a, x) == st[<<a, x>>]

OneStepMore(A, B, st, base, p, x, q, f, g) ==
  /\ p \in Seq(B) /\ x \in B /\ q = Append(p, x)
  /\ Folded(f, A, st, base, p) /\ Folded(g, A, st, base, q)

\* A fold over one more message is one more step.
LEMMA FoldedMore ==
  ASSUME NEW A, NEW B, NEW st, NEW base, NEW p, NEW x, NEW q, NEW f, NEW g, OneStepMore(A, B, st, base, p, x, q, f, g)
  PROVE  f[Len(p)] \in A /\ g[Len(q)] = Stepped(st, f[Len(p)], x)
<1>1. /\ q \in Seq(B) /\ Len(q) = Len(p) + 1 /\ Len(p) \in Nat /\ q[Len(p) + 1] = x
      /\ \A i \in 1 .. Len(p) : q[i] = p[i]
  BY AppendProperties, LenProperties DEF OneStepMore
<1>2. Folded(g, A, st, base, q) /\ Folded(f, A, st, base, p)
  BY DEF OneStepMore
<1> USE DEF Folded
<1> DEFINE T == {i \in 0 .. Len(p) : g[i] = f[i]}
<1>3. 0 \in T
  BY <1>1, <1>2
<1>4. ASSUME NEW i \in 1 .. Len(p), i - 1 \in T PROVE i \in T
  <2>1. i \in 1 .. Len(q) /\ i \in 0 .. Len(p) /\ i - 1 \in 0 .. Len(p)
    BY <1>1
  <2>2. g[i] = st[<<g[i - 1], q[i]>>] /\ f[i] = st[<<f[i - 1], p[i]>>]
    BY <1>2, <2>1
  <2> QED
    BY <1>1, <1>4, <2>1, <2>2
<1>5. Len(p) \in 0 .. Len(p) /\ Len(q) \in 1 .. Len(q) /\ Len(q) - 1 = Len(p)
  BY <1>1
<1> HIDE DEF T, Folded
<1>6. Len(p) \in T
  BY <1>1, <1>3, <1>4, <1>5, UpTo
<1>7. g[Len(p)] = f[Len(p)]
  BY <1>6 DEF T
<1>8. g[Len(q)] = st[<<g[Len(q) - 1], q[Len(q)]>>]
  BY <1>2, <1>5 DEF Folded
<1>9. f[Len(p)] \in A
  BY <1>2, <1>5 DEF Folded
<1> QED
  BY <1>1, <1>5, <1>7, <1>8, <1>9 DEF Stepped

-----------------------------------------------------------------------------
(* Rewrites. The conversation is of any messages M.                        *)

ItemsOf(M) == [msg : M, kind : ItemKinds, group : Nat]
OpsOf(M) == {op \in [from : Nat, to : Nat, new : Seq(M)] : op.new = <<>> => op.from >= 1}

LEMMA ClassifyType == \A m, via : ClassifyItem(m, via) \in ItemKinds
BY DEF ClassifyItem, ItemKinds

LEMMA MessagesType ==
  ASSUME NEW M, NEW items_ \in Seq(ItemsOf(M))
  PROVE  /\ Messages(items_) \in Seq(M) /\ Len(Messages(items_)) = Len(items_)
         /\ \A i \in 1 .. Len(items_) : Messages(items_)[i] = items_[i].msg
<1>1. DOMAIN items_ = 1 .. Len(items_) /\ Len(items_) \in Nat /\ \A i \in 1 .. Len(items_) : items_[i] \in ItemsOf(M)
  BY LenProperties
<1>2. \A i \in 1 .. Len(items_) : items_[i].msg \in M
  BY <1>1 DEF ItemsOf
<1> QED
  BY <1>1, <1>2 DEF Messages

\* One step of each fold.
Looked(prev, acc, m) == {i \in acc.cur+1 .. Len(prev) : prev[i] = m}
ExtendsTo(ops, i) == ops # <<>> /\ Last(ops).new = <<>> /\ Last(ops).to = i - 1
RewriteStep(prev, acc, m) ==
  IF Looked(prev, acc, m) = {} THEN [acc EXCEPT !.ops = Append(@, AddNew(m))]
  ELSE [cur |-> Min(Looked(prev, acc, m)),
        ops |-> IF ExtendsTo(acc.ops, Min(Looked(prev, acc, m)))
                  THEN [acc.ops EXCEPT ![Len(acc.ops)].to = Min(Looked(prev, acc, m))]
                  ELSE Append(acc.ops, KeepRange(Min(Looked(prev, acc, m)), Min(Looked(prev, acc, m))))]

ApplyStep(prev, out, op) ==
  IF op.new # <<>>
    THEN Append(out, Item(op.new[1], ClassifyItem(op.new[1], ""), IF out = <<>> THEN 0 ELSE Last(out).group))
  ELSE IF op.to <= Len(prev) THEN out \o SubSeq(prev, op.from, op.to)
  ELSE out

LEMMA LeastIn ==
  ASSUME NEW s, s \subseteq Nat, s # {}
  PROVE  Min(s) \in s /\ \A x \in s : Min(s) <= x
<1>1. \E x \in s : \A y \in s : x <= y
  BY LeastNatural
<1> QED
  BY <1>1, Zenon DEF Min

LEMMA LookedType ==
  ASSUME NEW M, NEW prev \in Seq(M), NEW acc, acc.cur \in Nat, NEW m, Looked(prev, acc, m) # {}
  PROVE  /\ Min(Looked(prev, acc, m)) \in 1 .. Len(prev) /\ Min(Looked(prev, acc, m)) \in Nat
         /\ Min(Looked(prev, acc, m)) > acc.cur /\ prev[Min(Looked(prev, acc, m))] = m
<1>1. Len(prev) \in Nat
  BY LenProperties
<1>2. Looked(prev, acc, m) \subseteq Nat
  BY <1>1 DEF Looked
<1>3. Min(Looked(prev, acc, m)) \in Looked(prev, acc, m)
  BY <1>2, LeastIn
<1> QED
  BY <1>1, <1>3 DEF Looked

\* The last op, its end moved.
Moved(ops, i) == [from |-> Last(ops).from, to |-> i, new |-> Last(ops).new]

LEMMA FrontLast ==
  ASSUME NEW S, NEW s \in Seq(S), s # <<>>, NEW e \in S
  PROVE  /\ Front(s) \in Seq(S) /\ Len(Front(s)) = Len(s) - 1 /\ Last(s) \in S
         /\ \A j \in 1 .. Len(s) - 1 : Front(s)[j] = s[j]
         /\ s = Append(Front(s), Last(s))
         /\ [s EXCEPT ![Len(s)] = e] = Append(Front(s), e)
<1>1. Len(s) \in Nat /\ Len(s) >= 1 /\ Len(s) \in 1 .. Len(s) /\ \A j \in 1 .. Len(s) : s[j] \in S
  BY EmptySeq, LenProperties
<1>2. PICK n \in Nat : n = Len(s)
  BY <1>1
<1>3. PICK f : f = Front(s)
  OBVIOUS
<1>4. f \in Seq(S) /\ Len(f) = n - 1 /\ \A j \in 1 .. n - 1 : f[j] = s[j]
  <2>1. \A j \in 1 .. n - 1 : s[j] \in S
    BY <1>1, <1>2
  <2> QED
    BY <1>1, <1>2, <1>3, <2>1, SubSeqProperties DEF Front
<1>5. Last(s) = s[n] /\ Last(s) \in S
  BY <1>1, <1>2 DEF Last
<1>6. ASSUME NEW x \in S
      PROVE  Append(f, x) \in Seq(S) /\ Len(Append(f, x)) = n /\ Append(f, x)[n] = x
             /\ \A j \in 1 .. n - 1 : Append(f, x)[j] = s[j]
  <2>1. n - 1 + 1 = n
    OBVIOUS
  <2> QED
    BY <1>4, <2>1, AppendProperties
<1>7. n \in 1 .. n /\ \A j \in 1 .. n : j = n \/ j \in 1 .. n - 1
  BY <1>1, <1>2
<1>8. s = Append(f, Last(s))
  <2> DEFINE q == Append(f, Last(s))
  <2>1. q \in Seq(S) /\ Len(q) = n /\ q[n] = s[n] /\ \A j \in 1 .. n - 1 : q[j] = s[j]
    BY <1>5, <1>6
  <2> HIDE DEF q
  <2>2. \A j \in 1 .. n : q[j] = s[j]
    BY <1>7, <2>1
  <2>3. s = q
    BY <1>2, <2>1, <2>2, SeqEqual
  <2> QED
    BY <2>3 DEF q
<1>9. [s EXCEPT ![Len(s)] = e] = Append(f, e)
  <2> DEFINE q == Append(f, e)
             r == [s EXCEPT ![Len(s)] = e]
  <2>1. q \in Seq(S) /\ Len(q) = n /\ q[n] = e /\ \A j \in 1 .. n - 1 : q[j] = s[j]
    BY <1>6
  <2>2. r \in Seq(S) /\ Len(r) = n /\ \A j \in 1 .. n : r[j] = IF j = n THEN e ELSE s[j]
    BY <1>1, <1>2, ExceptSeq
  <2> HIDE DEF q, r
  <2>3. \A j \in 1 .. n : q[j] = r[j]
    BY <1>7, <2>1, <2>2
  <2>4. r = q
    BY <2>1, <2>2, <2>3, SeqEqual
  <2> QED
    BY <2>4 DEF q, r
<1> QED
  BY <1>2, <1>3, <1>4, <1>5, <1>8, <1>9

LEMMA MovedOps ==
  ASSUME NEW M, NEW ops \in Seq(OpsOf(M)), ops # <<>>, NEW i \in Nat
  PROVE  /\ Front(ops) \in Seq(OpsOf(M)) /\ Last(ops) \in OpsOf(M) /\ Moved(ops, i) \in OpsOf(M)
         /\ ops = Append(Front(ops), Last(ops))
         /\ [ops EXCEPT ![Len(ops)].to = i] = Append(Front(ops), Moved(ops, i))
<1>1. Last(ops) \in OpsOf(M) /\ Last(ops) = ops[Len(ops)]
  <2>1. Len(ops) \in 1 .. Len(ops)
    BY EmptySeq
  <2> QED
    BY <2>1, ElementOfSeq DEF Last
<1>2. Moved(ops, i) \in OpsOf(M)
  BY <1>1 DEF OpsOf, Moved
<1>3. [ops[Len(ops)] EXCEPT !.to = i] = Moved(ops, i)
  <2>1. ops[Len(ops)] \in [from : Nat, to : Nat, new : Seq(M)]
    BY <1>1 DEF OpsOf
  <2> QED
    BY <1>1, <2>1 DEF Moved
<1>4. [ops EXCEPT ![Len(ops)].to = i] = [ops EXCEPT ![Len(ops)] = Moved(ops, i)]
  BY <1>3
<1> QED
  BY <1>1, <1>2, <1>4, FrontLast

LEMMA RewriteStepType ==
  ASSUME NEW M, NEW prev \in Seq(M), NEW acc \in [cur : Nat, ops : Seq(OpsOf(M))], NEW m \in M
  PROVE  RewriteStep(prev, acc, m) \in [cur : Nat, ops : Seq(OpsOf(M))]
<1> DEFINE A == [cur : Nat, ops : Seq(OpsOf(M))]
<1>1. acc.cur \in Nat /\ acc.ops \in Seq(OpsOf(M)) /\ acc = [cur |-> acc.cur, ops |-> acc.ops]
  OBVIOUS
<1>2. CASE Looked(prev, acc, m) = {}
  <2>1. AddNew(m) \in OpsOf(M)
    <3>1. <<m>> \in Seq(M) /\ <<m>> # <<>>
      OBVIOUS
    <3> QED
      BY <3>1 DEF AddNew, OpsOf
  <2>2. Append(acc.ops, AddNew(m)) \in Seq(OpsOf(M))
    BY <1>1, <2>1, AppendProperties
  <2>3. RewriteStep(prev, acc, m) = [cur |-> acc.cur, ops |-> Append(acc.ops, AddNew(m))]
    BY <1>1, <1>2 DEF RewriteStep
  <2> QED
    BY <1>1, <2>2, <2>3
<1>3. CASE Looked(prev, acc, m) # {}
  <2> DEFINE i == Min(Looked(prev, acc, m))
  <2>1. i \in Nat /\ i >= 1
    BY <1>1, <1>3, LookedType, LenProperties
  <2> HIDE DEF i
  <2>2. KeepRange(i, i) \in OpsOf(M)
    BY <2>1, EmptySeq DEF KeepRange, OpsOf
  <2>3. Append(acc.ops, KeepRange(i, i)) \in Seq(OpsOf(M))
    BY <1>1, <2>2, AppendProperties
  <2>4. ExtendsTo(acc.ops, i) => [acc.ops EXCEPT ![Len(acc.ops)].to = i] \in Seq(OpsOf(M))
    <3> SUFFICES ASSUME ExtendsTo(acc.ops, i) PROVE [acc.ops EXCEPT ![Len(acc.ops)].to = i] \in Seq(OpsOf(M))
      OBVIOUS
    <3>1. acc.ops # <<>>
      BY DEF ExtendsTo
    <3> DEFINE o == acc.ops
    <3>2. o \in Seq(OpsOf(M)) /\ o # <<>>
      BY <1>1, <3>1
    <3> HIDE DEF o
    <3>3. [o EXCEPT ![Len(o)].to = i] = Append(Front(o), Moved(o, i)) /\ Front(o) \in Seq(OpsOf(M)) /\ Moved(o, i) \in OpsOf(M)
      BY <2>1, <3>2, MovedOps
    <3>4. Append(Front(o), Moved(o, i)) \in Seq(OpsOf(M))
      BY <3>3, AppendProperties
    <3>5. [o EXCEPT ![Len(o)].to = i] \in Seq(OpsOf(M))
      BY <3>3, <3>4, Zenon
    <3> QED
      BY <3>5 DEF o
  <2>5. RewriteStep(prev, acc, m) = [cur |-> i, ops |-> IF ExtendsTo(acc.ops, i) THEN [acc.ops EXCEPT ![Len(acc.ops)].to = i]
                                                        ELSE Append(acc.ops, KeepRange(i, i))]
    BY <1>3 DEF RewriteStep, i
  <2> QED
    BY <2>1, <2>3, <2>4, <2>5
<1> QED
  BY <1>2, <1>3

LEMMA ApplyStepType ==
  ASSUME NEW M, NEW prev \in Seq(ItemsOf(M)), NEW out \in Seq(ItemsOf(M)), NEW op \in OpsOf(M)
  PROVE  ApplyStep(prev, out, op) \in Seq(ItemsOf(M))
<1>1. op.from \in Nat /\ op.to \in Nat /\ op.new \in Seq(M) /\ (op.new = <<>> => op.from >= 1)
  BY DEF OpsOf
<1>2. CASE op.new # <<>>
  <2> DEFINE g == IF out = <<>> THEN 0 ELSE Last(out).group
             it == Item(op.new[1], ClassifyItem(op.new[1], ""), g)
  <2>1. op.new[1] \in M
    BY <1>1, <1>2, EmptySeq, ElementOfSeq
  <2>2. g \in Nat
    <3>1. out # <<>> => Last(out) \in ItemsOf(M)
      BY EmptySeq, ElementOfSeq DEF Last
    <3> QED
      BY <3>1 DEF ItemsOf
  <2>3. it \in ItemsOf(M)
    BY <2>1, <2>2, ClassifyType DEF Item, ItemsOf
  <2>4. ApplyStep(prev, out, op) = Append(out, it)
    BY <1>2 DEF ApplyStep
  <2> HIDE DEF it
  <2> QED
    BY <2>3, <2>4, AppendProperties
<1>3. CASE op.new = <<>> /\ op.to <= Len(prev)
  <2>1. \A i \in op.from .. op.to : prev[i] \in ItemsOf(M)
    BY <1>1, <1>3, LenProperties
  <2>2. SubSeq(prev, op.from, op.to) \in Seq(ItemsOf(M))
    BY <1>1, <2>1, SubSeqProperties
  <2>3. out \o SubSeq(prev, op.from, op.to) \in Seq(ItemsOf(M))
    BY <2>2, ConcatProperties
  <2> QED
    BY <1>3, <2>3 DEF ApplyStep
<1>4. CASE op.new = <<>> /\ ~(op.to <= Len(prev))
  BY <1>4 DEF ApplyStep
<1> QED
  BY <1>2, <1>3, <1>4

\* The fold of RewriteOps, step by step.
RewritesAt(f, M, prev, p) ==
  /\ f \in [0 .. Len(p) -> [cur : Nat, ops : Seq(OpsOf(M))]]
  /\ f[0] = [cur |-> 0, ops |-> <<>>] /\ RewriteOps(prev, p) = f[Len(p)].ops
  /\ \A i \in 1 .. Len(p) : f[i] = RewriteStep(prev, f[i - 1], p[i])

LEMMA RewriteFold ==
  ASSUME NEW M, NEW prev \in Seq(M), NEW p \in Seq(M)
  PROVE  \E f : RewritesAt(f, M, prev, p)
<1> DEFINE A == [cur : Nat, ops : Seq(OpsOf(M))]
           base == [cur |-> 0, ops |-> <<>>]
           st == [x \in A \X M |-> RewriteStep(prev, x[1], x[2])]
           Folds(g) == g = [s \in SUBSET (DOMAIN p) |->
                              IF s = {} THEN base ELSE RewriteStep(prev, g[s \ {Max(s)}], p[Max(s)])]
           fold == CHOOSE g : Folds(g)
<1>1. RewriteOps(prev, p) = fold[DOMAIN p].ops
  BY Zenon DEF RewriteOps, RewriteStep, Looked, ExtendsTo, FoldLeft, MapThenFoldSet
<1>2. DOMAIN p = 1 .. Len(p) /\ Len(p) \in Nat /\ \A i \in 1 .. Len(p) : p[i] \in M
  BY LenProperties
<1>3. base \in A /\ \A a \in A, m \in M : RewriteStep(prev, a, m) \in A
  BY RewriteStepType
<1> HIDE DEF A, base
<1>4. st \in [A \X M -> A] /\ \A a \in A, m \in M : st[<<a, m>>] = RewriteStep(prev, a, m)
  BY <1>3
<1>5. Folds(fold)
  <2> HIDE DEF st
  <2>1. PICK g : Steps(g, A, M, st, base, p)
    BY <1>3, <1>4, FoldSteps
  <2>2. \A s \in SUBSET (DOMAIN p) : g[s] = IF s = {} THEN base ELSE RewriteStep(prev, g[s \ {Max(s)}], p[Max(s)])
    BY <1>4, <2>1 DEF Steps
  <2>3. Folds(g)
    BY <2>1, <2>2 DEF Steps
  <2> HIDE DEF Folds
  <2> QED BY <2>3, Zenon
<1>6. FoldsIn(fold, A, st, base, p, Len(p))
  <2> HIDE DEF fold, st
  <2>1. \A s \in SUBSET (1 .. Len(p)) : fold[s] = IF s = {} THEN base ELSE RewriteStep(prev, fold[s \ {Max(s)}], p[Max(s)])
    BY <1>2, <1>5
  <2>2. \A s \in SUBSET (1 .. Len(p)) : s # {} => Max(s) \in 1 .. Len(p)
    BY <1>2, GreatestIn
  <2> QED
    BY <1>2, <1>4, <2>1, <2>2 DEF FoldsIn
<1>7. PICK f : ValuesOf(f, A, st, base, p)
  <2> HIDE DEF st
  <2> QED BY <1>3, <1>4, Folding
<1>8. ASSUME NEW i \in 1 .. Len(p) PROVE f[i] = RewriteStep(prev, f[i - 1], p[i])
  <2>1. i - 1 \in 0 .. Len(p)
    BY <1>2
  <2> HIDE DEF st
  <2> QED
    BY <1>2, <1>4, <1>7, <2>1 DEF Folded, ValuesOf
<1> HIDE DEF st, fold, Folds
<1>9. /\ f \in [0 .. Len(p) -> A] /\ f[0] = base /\ RewriteOps(prev, p) = f[Len(p)].ops
  BY <1>1, <1>2, <1>6, <1>7 DEF Folded, ValuesOf
<1> QED
  BY <1>8, <1>9 DEF A, base, RewritesAt

\* The fold of ApplyRewriteOps: for no op, and for one op more.
LEMMA ApplyFold ==
  ASSUME NEW M, NEW prev \in Seq(ItemsOf(M)), NEW p \in Seq(OpsOf(M)), NEW st,
         st = [x \in Seq(ItemsOf(M)) \X OpsOf(M) |-> ApplyStep(prev, x[1], x[2])]
  PROVE  \E f : Folded(f, Seq(ItemsOf(M)), st, <<>>, p) /\ ApplyRewriteOps(prev, p) = f[Len(p)]
<1> DEFINE A == Seq(ItemsOf(M))
           B == OpsOf(M)
           step == [x \in A \X B |-> ApplyStep(prev, x[1], x[2])]
           Folds(g) == g = [s \in SUBSET (DOMAIN p) |->
                              IF s = {} THEN <<>> ELSE ApplyStep(prev, g[s \ {Max(s)}], p[Max(s)])]
           fold == CHOOSE g : Folds(g)
<1>1. ApplyRewriteOps(prev, p) = fold[DOMAIN p]
  BY Zenon DEF ApplyRewriteOps, ApplyStep, FoldLeft, MapThenFoldSet
<1>2. DOMAIN p = 1 .. Len(p) /\ Len(p) \in Nat /\ (\A i \in 1 .. Len(p) : p[i] \in B) /\ p \in Seq(B)
  BY LenProperties
<1>3. <<>> \in A /\ (\A a \in A, m \in B : ApplyStep(prev, a, m) \in A)
      /\ st = step
  BY ApplyStepType
<1> HIDE DEF A, B
<1>4. step \in [A \X B -> A] /\ \A a \in A, m \in B : step[<<a, m>>] = ApplyStep(prev, a, m)
  BY <1>3
<1> HIDE DEF step
<1>5. Folds(fold)
  <2>1. PICK g : Steps(g, A, B, step, <<>>, p)
    BY <1>2, <1>3, <1>4, FoldSteps
  <2>2. \A s \in SUBSET (DOMAIN p) : g[s] = IF s = {} THEN <<>> ELSE ApplyStep(prev, g[s \ {Max(s)}], p[Max(s)])
    BY <1>4, <2>1 DEF Steps
  <2>3. Folds(g)
    BY <2>1, <2>2 DEF Steps
  <2> HIDE DEF Folds
  <2> QED BY <2>3, Zenon
<1>6. FoldsIn(fold, A, step, <<>>, p, Len(p))
  <2> HIDE DEF fold
  <2>1. \A s \in SUBSET (1 .. Len(p)) : fold[s] = IF s = {} THEN <<>> ELSE ApplyStep(prev, fold[s \ {Max(s)}], p[Max(s)])
    BY <1>2, <1>5
  <2>2. \A s \in SUBSET (1 .. Len(p)) : s # {} => Max(s) \in 1 .. Len(p)
    BY <1>2, GreatestIn
  <2> QED
    BY <1>2, <1>4, <2>1, <2>2 DEF FoldsIn
<1>7. PICK f : ValuesOf(f, A, step, <<>>, p)
  BY <1>2, <1>3, <1>4, Folding
<1> HIDE DEF fold, Folds
<1> QED
  BY <1>1, <1>2, <1>3, <1>6, <1>7 DEF ValuesOf, A

LEMMA ApplyMore ==
  ASSUME NEW M, NEW prev \in Seq(ItemsOf(M)), NEW p \in Seq(OpsOf(M)), NEW op \in OpsOf(M)
  PROVE  /\ ApplyRewriteOps(prev, p) \in Seq(ItemsOf(M))
         /\ ApplyRewriteOps(prev, Append(p, op)) = ApplyStep(prev, ApplyRewriteOps(prev, p), op)
<1> DEFINE A == Seq(ItemsOf(M))
           B == OpsOf(M)
           st == [x \in A \X B |-> ApplyStep(prev, x[1], x[2])]
           q == Append(p, op)
<1>1. <<>> \in A /\ st \in [A \X B -> A] /\ q \in Seq(B)
  BY ApplyStepType, AppendProperties
<1>2. \A a \in A, m \in B : st[<<a, m>>] = ApplyStep(prev, a, m)
  OBVIOUS
<1>3. \A r \in Seq(B) : \E f : Folded(f, A, st, <<>>, r) /\ ApplyRewriteOps(prev, r) = f[Len(r)]
  BY ApplyFold
<1>4. p \in Seq(B) /\ op \in B
  OBVIOUS
<1> HIDE DEF A, B, st
<1>5. PICK f : Folded(f, A, st, <<>>, p) /\ ApplyRewriteOps(prev, p) = f[Len(p)]
  BY <1>3, <1>4
<1>6. PICK g : Folded(g, A, st, <<>>, q) /\ ApplyRewriteOps(prev, q) = g[Len(q)]
  <2> HIDE DEF q
  <2> QED BY <1>1, <1>3
<1>7. f[Len(p)] \in A /\ g[Len(q)] = Stepped(st, f[Len(p)], op)
  <2>1. q = Append(p, op)
    OBVIOUS
  <2> HIDE DEF q
  <2>2. PICK none : none = <<>>
    OBVIOUS
  <2>3. Folded(f, A, st, none, p) /\ Folded(g, A, st, none, q)
    BY <1>5, <1>6, <2>2, Zenon
  <2>4. OneStepMore(A, B, st, none, p, op, q, f, g)
    BY <1>4, <2>1, <2>3 DEF OneStepMore
  <2> QED BY <2>4, FoldedMore
<1> QED
  BY <1>2, <1>4, <1>5, <1>6, <1>7 DEF A, Stepped

LEMMA ApplyNone ==
  ASSUME NEW M, NEW prev \in Seq(ItemsOf(M))
  PROVE  ApplyRewriteOps(prev, <<>>) = <<>>
<1> DEFINE st == [x \in Seq(ItemsOf(M)) \X OpsOf(M) |-> ApplyStep(prev, x[1], x[2])]
<1>1. <<>> \in Seq(OpsOf(M)) /\ Len(<<>>) = 0
  BY EmptySeq
<1>2. PICK f : Folded(f, Seq(ItemsOf(M)), st, <<>>, <<>>) /\ ApplyRewriteOps(prev, <<>>) = f[Len(<<>>)]
  BY <1>1, ApplyFold
<1> QED
  BY <1>1, <1>2 DEF Folded

LEMMA MessagesAppend ==
  ASSUME NEW M, NEW s \in Seq(ItemsOf(M)), NEW it \in ItemsOf(M)
  PROVE  Messages(Append(s, it)) = Append(Messages(s), it.msg)
<1> DEFINE a == Append(s, it)
           b == Append(Messages(s), it.msg)
<1>1. Len(s) \in Nat /\ it.msg \in M
  BY LenProperties DEF ItemsOf
<1>2. a \in Seq(ItemsOf(M)) /\ Len(a) = Len(s) + 1 /\ a[Len(s) + 1] = it /\ \A i \in 1 .. Len(s) : a[i] = s[i]
  BY AppendProperties
<1>3. b \in Seq(M) /\ Len(b) = Len(s) + 1 /\ b[Len(s) + 1] = it.msg /\ \A i \in 1 .. Len(s) : b[i] = s[i].msg
  BY <1>1, MessagesType, AppendProperties
<1> HIDE DEF a, b
<1>4. Messages(a) \in Seq(M) /\ Len(Messages(a)) = Len(a) /\ \A i \in 1 .. Len(a) : Messages(a)[i] = a[i].msg
  BY <1>2, MessagesType
<1>5. \A i \in 1 .. Len(a) : i = Len(s) + 1 \/ i \in 1 .. Len(s)
  BY <1>1, <1>2
<1>6. \A i \in 1 .. Len(a) : Messages(a)[i] = b[i]
  BY <1>2, <1>3, <1>4, <1>5
<1>7. Messages(a) = b
  BY <1>2, <1>3, <1>4, <1>6, SeqEqual
<1> QED
  BY <1>7 DEF a, b

LEMMA MessagesConcat ==
  ASSUME NEW M, NEW s \in Seq(ItemsOf(M)), NEW t \in Seq(ItemsOf(M))
  PROVE  Messages(s \o t) = Messages(s) \o Messages(t)
<1> DEFINE a == s \o t
           b == Messages(s) \o Messages(t)
<1>1. Len(s) \in Nat /\ Len(t) \in Nat
  BY LenProperties
<1>2. /\ a \in Seq(ItemsOf(M)) /\ Len(a) = Len(s) + Len(t)
      /\ \A i \in 1 .. Len(s) + Len(t) : a[i] = IF i <= Len(s) THEN s[i] ELSE t[i - Len(s)]
  BY ConcatProperties
<1>3. /\ b \in Seq(M) /\ Len(b) = Len(s) + Len(t)
      /\ \A i \in 1 .. Len(s) + Len(t) : b[i] = IF i <= Len(s) THEN Messages(s)[i] ELSE Messages(t)[i - Len(s)]
  <2>1. PICK ms, mt : ms = Messages(s) /\ mt = Messages(t)
    OBVIOUS
  <2>2. ms \in Seq(M) /\ mt \in Seq(M) /\ Len(ms) = Len(s) /\ Len(mt) = Len(t)
    BY <2>1, MessagesType
  <2>3. /\ ms \o mt \in Seq(M) /\ Len(ms \o mt) = Len(ms) + Len(mt)
        /\ \A i \in 1 .. Len(ms) + Len(mt) : (ms \o mt)[i] = IF i <= Len(ms) THEN ms[i] ELSE mt[i - Len(ms)]
    BY <2>2, ConcatProperties
  <2> QED
    BY <2>1, <2>2, <2>3
<1>4. /\ \A i \in 1 .. Len(s) : Messages(s)[i] = s[i].msg
      /\ \A i \in 1 .. Len(t) : Messages(t)[i] = t[i].msg
  BY MessagesType
<1> HIDE DEF a, b
<1>5. Messages(a) \in Seq(M) /\ Len(Messages(a)) = Len(a) /\ \A i \in 1 .. Len(a) : Messages(a)[i] = a[i].msg
  BY <1>2, MessagesType
<1>6. \A i \in 1 .. Len(a) : i \in 1 .. Len(s) \/ (i - Len(s) \in 1 .. Len(t) /\ ~(i <= Len(s)))
  BY <1>1, <1>2
<1>7. ASSUME NEW i \in 1 .. Len(a) PROVE Messages(a)[i] = b[i]
  <2>1. Messages(a)[i] = a[i].msg /\ i \in 1 .. Len(s) + Len(t)
    BY <1>2, <1>5
  <2>2. CASE i \in 1 .. Len(s)
    <3>1. i <= Len(s)
      BY <1>1, <2>2
    <3>2. a[i] = s[i] /\ b[i] = Messages(s)[i]
      BY <1>2, <1>3, <2>1, <3>1
    <3> QED
      BY <1>4, <2>1, <2>2, <3>2
  <2>3. CASE i - Len(s) \in 1 .. Len(t) /\ ~(i <= Len(s))
    <3>1. a[i] = t[i - Len(s)] /\ b[i] = Messages(t)[i - Len(s)]
      BY <1>2, <1>3, <2>1, <2>3
    <3> QED
      BY <1>4, <2>1, <2>3, <3>1
  <2> QED
    BY <1>6, <2>2, <2>3
<1>8. Messages(a) = b
  BY <1>2, <1>3, <1>5, <1>7, SeqEqual
<1> QED
  BY <1>8 DEF a, b

LEMMA MessagesSubSeq ==
  ASSUME NEW M, NEW s \in Seq(ItemsOf(M)), NEW i \in 1 .. Len(s), NEW j \in i .. Len(s)
  PROVE  /\ SubSeq(s, i, j) \in Seq(ItemsOf(M))
         /\ Messages(SubSeq(s, i, j)) = SubSeq(Messages(s), i, j)
<1> DEFINE a == SubSeq(s, i, j)
           b == SubSeq(Messages(s), i, j)
<1>1. Len(s) \in Nat /\ i \in Nat /\ j \in Nat /\ i <= j /\ i >= 1 /\ j <= Len(s)
  BY LenProperties
<1>2. a \in Seq(ItemsOf(M)) /\ Len(a) = j - i + 1 /\ \A k \in 1 .. j - i + 1 : a[k] = s[i + k - 1]
  <2>1. \A k \in i .. j : s[k] \in ItemsOf(M)
    BY <1>1, LenProperties
  <2> QED
    BY <1>1, <2>1, SubSeqProperties
<1>3. b \in Seq(M) /\ Len(b) = j - i + 1 /\ \A k \in 1 .. j - i + 1 : b[k] = Messages(s)[i + k - 1]
  <2>1. \A k \in i .. j : Messages(s)[k] \in M
    BY <1>1, MessagesType, LenProperties
  <2> QED
    BY <1>1, <2>1, SubSeqProperties
<1> HIDE DEF a, b
<1>4. Messages(a) \in Seq(M) /\ Len(Messages(a)) = Len(a) /\ \A k \in 1 .. Len(a) : Messages(a)[k] = a[k].msg
  BY <1>2, MessagesType
<1>5. \A k \in 1 .. j - i + 1 : i + k - 1 \in 1 .. Len(s)
  BY <1>1
<1>6. \A k \in 1 .. Len(s) : Messages(s)[k] = s[k].msg
  BY MessagesType
<1>7. \A k \in 1 .. Len(a) : Messages(a)[k] = b[k]
  BY <1>2, <1>3, <1>4, <1>5, <1>6
<1>8. Messages(a) = b
  BY <1>2, <1>3, <1>4, <1>7, SeqEqual
<1> QED
  BY <1>2, <1>8 DEF a, b

LEMMA PrefixMore ==
  ASSUME NEW M, NEW s \in Seq(M), NEW k \in 1 .. Len(s)
  PROVE  /\ SubSeq(s, 1, k - 1) \in Seq(M) /\ s[k] \in M
         /\ SubSeq(s, 1, k) = SubSeq(s, 1, k - 1) \o <<s[k]>>
<1>1. Len(s) \in Nat /\ \A i \in 1 .. Len(s) : s[i] \in M
  BY LenProperties
<1>2. \A i \in 1 .. k - 1 : s[i] \in M
  BY <1>1
<1>3. SubSeq(s, 1, k - 1) \in Seq(M)
  BY <1>2, SubSeqProperties
<1>4. 1 \in 1 .. Len(s)
  BY <1>1
<1> QED
  BY <1>1, <1>3, <1>4, SubSeqRecursiveSecond

\* After k messages of the new conversation, the ops give those messages.
Gives(old, now, a, k) ==
  /\ Messages(ApplyRewriteOps(old, a.ops)) = SubSeq(now, 1, k)
  /\ a.ops # <<>> /\ Last(a.ops).new = <<>> =>
       Last(a.ops).from <= Last(a.ops).to /\ Last(a.ops).to <= Len(old)

LEMMA GivesNew ==
  ASSUME NEW M, NEW old \in Seq(ItemsOf(M)), NEW now \in Seq(M), NEW k \in 1 .. Len(now),
         NEW ops \in Seq(OpsOf(M)), Messages(ApplyRewriteOps(old, ops)) = SubSeq(now, 1, k - 1)
  PROVE  Messages(ApplyRewriteOps(old, Append(ops, AddNew(now[k])))) = SubSeq(now, 1, k)
<1> DEFINE out == ApplyRewriteOps(old, ops)
           m == now[k]
           it == Item(m, ClassifyItem(m, ""), IF out = <<>> THEN 0 ELSE Last(out).group)
<1>1. m \in M /\ SubSeq(now, 1, k) = SubSeq(now, 1, k - 1) \o <<m>> /\ SubSeq(now, 1, k - 1) \in Seq(M)
  BY PrefixMore
<1> HIDE DEF m
<1>2. AddNew(m) \in OpsOf(M) /\ AddNew(m).new = <<m>> /\ <<m>> # <<>> /\ <<m>>[1] = m
  <2>1. <<m>> \in Seq(M) /\ <<m>> # <<>>
    BY <1>1
  <2> QED
    BY <2>1 DEF AddNew, OpsOf
<1>3. out \in Seq(ItemsOf(M)) /\ ApplyRewriteOps(old, Append(ops, AddNew(m))) = ApplyStep(old, out, AddNew(m))
  BY <1>2, ApplyMore
<1> HIDE DEF out
<1>4. ApplyStep(old, out, AddNew(m)) = Append(out, it)
  BY <1>2 DEF ApplyStep
<1>5. it \in ItemsOf(M) /\ it.msg = m
  <2>1. out # <<>> => Last(out) \in ItemsOf(M)
    BY <1>3, EmptySeq, ElementOfSeq DEF Last
  <2> QED
    BY <1>1, <2>1, ClassifyType DEF Item, ItemsOf
<1> HIDE DEF it
<1>6. Messages(Append(out, it)) = Append(Messages(out), m)
  BY <1>3, <1>5, MessagesAppend
<1>7. Messages(out) = SubSeq(now, 1, k - 1)
  BY DEF out
<1>8. Append(SubSeq(now, 1, k - 1), m) = SubSeq(now, 1, k)
  BY <1>1, AppendIsConcat
<1> QED
  BY <1>3, <1>4, <1>6, <1>7, <1>8 DEF m

\* A range that is kept: what it adds, and what it adds when its end moves by one.
IsRange(op, old) == op.new = <<>> /\ op.from <= op.to /\ op.to <= Len(old)

LEMMA ApplyRange ==
  ASSUME NEW M, NEW old \in Seq(ItemsOf(M)), NEW ops \in Seq(OpsOf(M)), NEW op \in OpsOf(M), IsRange(op, old)
  PROVE  Messages(ApplyRewriteOps(old, Append(ops, op)))
           = Messages(ApplyRewriteOps(old, ops)) \o SubSeq(Messages(old), op.from, op.to)
<1>1. op.from \in 1 .. Len(old) /\ op.to \in op.from .. Len(old)
  BY LenProperties DEF OpsOf, IsRange
<1>2. ApplyRewriteOps(old, ops) \in Seq(ItemsOf(M))
      /\ ApplyRewriteOps(old, Append(ops, op)) = ApplyStep(old, ApplyRewriteOps(old, ops), op)
  BY ApplyMore
<1>3. ApplyStep(old, ApplyRewriteOps(old, ops), op) = ApplyRewriteOps(old, ops) \o SubSeq(old, op.from, op.to)
  BY DEF ApplyStep, IsRange
<1>4. /\ SubSeq(old, op.from, op.to) \in Seq(ItemsOf(M))
      /\ Messages(SubSeq(old, op.from, op.to)) = SubSeq(Messages(old), op.from, op.to)
  BY <1>1, MessagesSubSeq
<1>5. Messages(ApplyRewriteOps(old, ops) \o SubSeq(old, op.from, op.to))
        = Messages(ApplyRewriteOps(old, ops)) \o Messages(SubSeq(old, op.from, op.to))
  BY <1>2, <1>4, MessagesConcat
<1> QED
  BY <1>2, <1>3, <1>4, <1>5

LEMMA OneLonger ==
  ASSUME NEW M, NEW s \in Seq(M), NEW i \in 1 .. Len(s), NEW from \in 1 .. i
  PROVE  /\ s[i] \in M /\ SubSeq(s, from, i - 1) \in Seq(M)
         /\ SubSeq(s, from, i) = SubSeq(s, from, i - 1) \o <<s[i]>>
<1>1. Len(s) \in Nat /\ from \in Nat /\ i \in Nat /\ \A j \in 1 .. Len(s) : s[j] \in M
  BY LenProperties
<1>2. from \in 1 .. Len(s) /\ i \in from .. Len(s) /\ i - 1 \in Int /\ \A j \in from .. i - 1 : s[j] \in M
  BY <1>1
<1>3. SubSeq(s, from, i - 1) \in Seq(M)
  BY <1>1, <1>2, SubSeqProperties
<1> QED
  BY <1>1, <1>2, <1>3, SubSeqRecursiveSecond

\* The ops give what is before message k, which is message i of the old conversation.
FoundAt(M, old, now, k, i, ops) ==
  /\ old \in Seq(ItemsOf(M)) /\ now \in Seq(M) /\ k \in 1 .. Len(now) /\ i \in 1 .. Len(old)
  /\ Messages(old)[i] = now[k] /\ ops \in Seq(OpsOf(M))
  /\ Messages(ApplyRewriteOps(old, ops)) = SubSeq(now, 1, k - 1)

LEMMA GivesKept ==
  ASSUME NEW M, NEW old, NEW now, NEW k, NEW i, NEW ops, FoundAt(M, old, now, k, i, ops)
  PROVE  /\ KeepRange(i, i) \in OpsOf(M) /\ IsRange(KeepRange(i, i), old)
         /\ Messages(ApplyRewriteOps(old, Append(ops, KeepRange(i, i)))) = SubSeq(now, 1, k)
<1> DEFINE op == KeepRange(i, i)
           prev == Messages(old)
<1>0. /\ old \in Seq(ItemsOf(M)) /\ now \in Seq(M) /\ k \in 1 .. Len(now) /\ i \in 1 .. Len(old)
      /\ prev[i] = now[k] /\ ops \in Seq(OpsOf(M))
      /\ Messages(ApplyRewriteOps(old, ops)) = SubSeq(now, 1, k - 1)
  BY DEF FoundAt
<1>1. Len(old) \in Nat /\ i \in Nat /\ i >= 1 /\ i <= Len(old) /\ prev \in Seq(M) /\ Len(prev) = Len(old)
  BY <1>0, LenProperties, MessagesType
<1>2. op \in OpsOf(M) /\ IsRange(op, old) /\ op.from = i /\ op.to = i
  BY <1>1, EmptySeq DEF KeepRange, OpsOf, IsRange
<1> HIDE DEF op, prev
<1>3. Messages(ApplyRewriteOps(old, Append(ops, op))) = SubSeq(now, 1, k - 1) \o SubSeq(prev, op.from, op.to)
  BY <1>0, <1>2, ApplyRange DEF prev
<1>4. prev[i] \in M /\ SubSeq(prev, i, i) = SubSeq(prev, i, i - 1) \o <<prev[i]>> /\ i \in 1 .. i
  BY <1>1, OneLonger
<1>5. SubSeq(prev, i, i - 1) = <<>>
  BY <1>1, SubSeqEmpty
<1>6. <<prev[i]>> \in Seq(M)
  BY <1>4
<1>7. SubSeq(prev, i, i) = <<prev[i]>>
  BY <1>4, <1>5, <1>6, ConcatEmptySeq
<1>8. SubSeq(now, 1, k) = SubSeq(now, 1, k - 1) \o <<now[k]>>
  BY <1>0, PrefixMore
<1> QED
  BY <1>0, <1>2, <1>3, <1>7, <1>8 DEF op

\* The last op of them ends before message i.
Ends(M, old, i, ops, op, moved) ==
  /\ ops \in Seq(OpsOf(M)) /\ op \in OpsOf(M) /\ moved \in OpsOf(M) /\ IsRange(op, old) /\ op.to = i - 1
  /\ moved = [from |-> op.from, to |-> i, new |-> op.new]

LEMMA GivesMoved ==
  ASSUME NEW M, NEW old, NEW now, NEW k, NEW i, NEW ops, NEW op, NEW moved,
         FoundAt(M, old, now, k, i, Append(ops, op)), Ends(M, old, i, ops, op, moved)
  PROVE  /\ IsRange(moved, old)
         /\ Messages(ApplyRewriteOps(old, Append(ops, moved))) = SubSeq(now, 1, k)
<1> DEFINE prev == Messages(old)
           kept == Messages(ApplyRewriteOps(old, ops))
<1>0. /\ old \in Seq(ItemsOf(M)) /\ now \in Seq(M) /\ k \in 1 .. Len(now) /\ i \in 1 .. Len(old)
      /\ prev[i] = now[k] /\ ops \in Seq(OpsOf(M)) /\ op \in OpsOf(M) /\ moved \in OpsOf(M)
      /\ IsRange(op, old) /\ op.to = i - 1 /\ moved = [from |-> op.from, to |-> i, new |-> op.new]
      /\ Messages(ApplyRewriteOps(old, Append(ops, op))) = SubSeq(now, 1, k - 1)
  BY DEF FoundAt, Ends
<1>1. Len(old) \in Nat /\ i \in Nat /\ i >= 1 /\ i <= Len(old) /\ prev \in Seq(M) /\ Len(prev) = Len(old)
  BY <1>0, LenProperties, MessagesType
<1>2. /\ op.from \in Nat /\ op.from >= 1 /\ op.from <= i - 1 /\ op.new = <<>>
      /\ moved.from = op.from /\ moved.to = i /\ moved.new = <<>>
  BY <1>0, <1>1 DEF OpsOf, IsRange
<1>3. IsRange(moved, old)
  BY <1>1, <1>2 DEF IsRange
<1>4. kept \in Seq(M)
  BY <1>0, ApplyMore, MessagesType
<1> HIDE DEF prev, kept
<1>5. SubSeq(now, 1, k - 1) = kept \o SubSeq(prev, op.from, i - 1)
  BY <1>0, ApplyRange DEF prev, kept
<1>6. Messages(ApplyRewriteOps(old, Append(ops, moved))) = kept \o SubSeq(prev, op.from, i)
  <2>1. Messages(ApplyRewriteOps(old, Append(ops, moved))) = kept \o SubSeq(prev, moved.from, moved.to)
    BY <1>0, <1>3, ApplyRange DEF prev, kept
  <2> QED
    BY <1>2, <2>1
<1>7. /\ prev[i] \in M /\ SubSeq(prev, op.from, i - 1) \in Seq(M)
      /\ SubSeq(prev, op.from, i) = SubSeq(prev, op.from, i - 1) \o <<prev[i]>>
  <2>1. op.from \in 1 .. i /\ i \in 1 .. Len(prev)
    BY <1>1, <1>2
  <2> QED
    BY <1>1, <2>1, OneLonger
<1>8. <<prev[i]>> \in Seq(M)
  BY <1>7
<1>9. kept \o SubSeq(prev, op.from, i) = (kept \o SubSeq(prev, op.from, i - 1)) \o <<prev[i]>>
  <2>1. \A r, s, t \in Seq(M) : (r \o s) \o t = r \o (s \o t)
    BY ConcatAssociative
  <2>2. (kept \o SubSeq(prev, op.from, i - 1)) \o <<prev[i]>> = kept \o (SubSeq(prev, op.from, i - 1) \o <<prev[i]>>)
    BY <1>4, <1>7, <1>8, <2>1, Zenon
  <2> QED
    BY <1>7, <2>2, Zenon
<1>10. SubSeq(now, 1, k) = SubSeq(now, 1, k - 1) \o <<now[k]>>
  BY <1>0, PrefixMore
<1> QED
  BY <1>0, <1>3, <1>5, <1>6, <1>9, <1>10

LEMMA GivesStep ==
  ASSUME NEW M, NEW old \in Seq(ItemsOf(M)), NEW now \in Seq(M), NEW k \in 1 .. Len(now),
         NEW a \in [cur : Nat, ops : Seq(OpsOf(M))], Gives(old, now, a, k - 1)
  PROVE  Gives(old, now, RewriteStep(Messages(old), a, now[k]), k)
<1> DEFINE prev == Messages(old)
           m == now[k]
           b == RewriteStep(prev, a, m)
<1>1. /\ m \in M /\ SubSeq(now, 1, k) = SubSeq(now, 1, k - 1) \o <<m>> /\ SubSeq(now, 1, k - 1) \in Seq(M)
      /\ <<m>> \in Seq(M) /\ <<m>> # <<>>
  BY PrefixMore
<1>2. prev \in Seq(M) /\ Len(prev) = Len(old) /\ Len(old) \in Nat
  BY MessagesType, LenProperties
<1>3. a.cur \in Nat /\ a.ops \in Seq(OpsOf(M)) /\ a = [cur |-> a.cur, ops |-> a.ops]
  OBVIOUS
<1>4. Messages(ApplyRewriteOps(old, a.ops)) = SubSeq(now, 1, k - 1)
  BY DEF Gives
<1>5. CASE Looked(prev, a, m) = {}
  <2>1. AddNew(m) \in OpsOf(M) /\ AddNew(m).new = <<m>>
    BY <1>1 DEF AddNew, OpsOf
  <2>2. b.ops = Append(a.ops, AddNew(m))
    <3>1. PICK o : o = Append(a.ops, AddNew(m))
      OBVIOUS
    <3>2. b = [a EXCEPT !.ops = o]
      BY <1>5, <3>1, Zenon DEF RewriteStep
    <3>3. [a EXCEPT !.ops = o].ops = o
      BY <1>3
    <3> QED
      BY <3>1, <3>2, <3>3
  <2>3. Last(b.ops) = AddNew(m)
    BY <1>3, <2>1, <2>2, AppendProperties DEF Last
  <2>4. Messages(ApplyRewriteOps(old, b.ops)) = SubSeq(now, 1, k)
    <3>1. PICK ops : ops = a.ops
      OBVIOUS
    <3>2. ops \in Seq(OpsOf(M)) /\ Messages(ApplyRewriteOps(old, ops)) = SubSeq(now, 1, k - 1)
      BY <1>3, <1>4, <3>1
    <3>3. Messages(ApplyRewriteOps(old, Append(ops, AddNew(m)))) = SubSeq(now, 1, k)
      BY <3>2, GivesNew
    <3> QED
      BY <2>2, <3>1, <3>3
  <2> QED
    BY <1>1, <2>1, <2>3, <2>4 DEF Gives
<1>6. CASE Looked(prev, a, m) # {}
  <2> DEFINE i == Min(Looked(prev, a, m))
  <2>1. i \in 1 .. Len(old) /\ i \in Nat /\ prev[i] = m
    BY <1>2, <1>3, <1>6, LookedType
  <2>2. b.ops = IF ExtendsTo(a.ops, i) THEN [a.ops EXCEPT ![Len(a.ops)].to = i]
                ELSE Append(a.ops, KeepRange(i, i))
    BY <1>6 DEF RewriteStep
  <2> HIDE DEF i, b
  <2>3. CASE ~ExtendsTo(a.ops, i)
    <3>1. b.ops = Append(a.ops, KeepRange(i, i))
      BY <2>2, <2>3
    <3>2. /\ KeepRange(i, i) \in OpsOf(M) /\ IsRange(KeepRange(i, i), old)
          /\ Messages(ApplyRewriteOps(old, b.ops)) = SubSeq(now, 1, k)
      <4>1. FoundAt(M, old, now, k, i, a.ops)
        BY <1>3, <1>4, <2>1 DEF FoundAt
      <4> QED
        BY <3>1, <4>1, GivesKept
    <3>3. Last(b.ops) = KeepRange(i, i)
      BY <1>3, <3>1, <3>2, AppendProperties DEF Last
    <3>4. Last(b.ops).from <= Last(b.ops).to /\ Last(b.ops).to <= Len(old)
      BY <3>2, <3>3 DEF IsRange
    <3>5. Gives(old, now, b, k)
      BY <3>2, <3>4 DEF Gives
    <3> QED
      BY <3>5 DEF b
  <2>4. CASE ExtendsTo(a.ops, i)
    <3>1. a.ops # <<>> /\ Last(a.ops).new = <<>> /\ Last(a.ops).to = i - 1
      BY <2>4 DEF ExtendsTo
    <3>2. IsRange(Last(a.ops), old)
      BY <3>1 DEF Gives, IsRange
    <3>3. PICK o : o = a.ops
      OBVIOUS
    <3>4. o \in Seq(OpsOf(M)) /\ o # <<>> /\ b.ops = [o EXCEPT ![Len(o)].to = i]
      BY <1>3, <2>2, <2>4, <3>1, <3>3
    <3>5. PICK front, op, moved : front = Front(o) /\ op = Last(o) /\ moved = Moved(o, i)
      OBVIOUS
    <3>6. /\ front \in Seq(OpsOf(M)) /\ op \in OpsOf(M) /\ moved \in OpsOf(M) /\ o = Append(front, op)
          /\ b.ops = Append(front, moved)
      BY <2>1, <3>4, <3>5, MovedOps
    <3>7. IsRange(op, old) /\ op.to = i - 1 /\ moved = [from |-> op.from, to |-> i, new |-> op.new]
      BY <3>1, <3>2, <3>3, <3>5 DEF Moved
    <3>8. Messages(ApplyRewriteOps(old, Append(front, op))) = SubSeq(now, 1, k - 1)
      BY <1>4, <3>3, <3>6
    <3>9. IsRange(moved, old) /\ Messages(ApplyRewriteOps(old, Append(front, moved))) = SubSeq(now, 1, k)
      <4>1. Append(front, op) \in Seq(OpsOf(M))
        BY <3>6, AppendProperties
      <4>2. FoundAt(M, old, now, k, i, Append(front, op))
        BY <2>1, <3>8, <4>1 DEF FoundAt
      <4>3. Ends(M, old, i, front, op, moved)
        BY <3>6, <3>7 DEF Ends
      <4> QED
        BY <4>2, <4>3, GivesMoved
    <3>10. Last(b.ops) = moved
      BY <3>6, AppendProperties DEF Last
    <3>11. Messages(ApplyRewriteOps(old, b.ops)) = SubSeq(now, 1, k)
      BY <3>6, <3>9
    <3>12. Last(b.ops).from <= Last(b.ops).to /\ Last(b.ops).to <= Len(old)
      BY <3>9, <3>10 DEF IsRange
    <3>13. Gives(old, now, b, k)
      BY <3>11, <3>12 DEF Gives
    <3> QED
      BY <3>13 DEF b
  <2> QED
    BY <2>3, <2>4 DEF b
<1> QED
  BY <1>5, <1>6

\* What applying the recorded ops gives is the new conversation.
LEMMA OpsGiveBack ==
  ASSUME NEW M, NEW old \in Seq(ItemsOf(M)), NEW now \in Seq(M)
  PROVE  Messages(ApplyRewriteOps(old, RewriteOps(Messages(old), now))) = now
<1>1. Messages(old) \in Seq(M) /\ Len(now) \in Nat
  BY MessagesType, LenProperties
<1>2. PICK f : RewritesAt(f, M, Messages(old), now)
  BY <1>1, RewriteFold
<1> DEFINE T == {k \in 0 .. Len(now) : Gives(old, now, f[k], k)}
<1>3. 0 \in T
  <2>1. f[0].ops = <<>> /\ 0 \in 0 .. Len(now)
    BY <1>1, <1>2 DEF RewritesAt
  <2>2. ApplyRewriteOps(old, <<>>) = <<>>
    BY ApplyNone
  <2>3. Messages(<<>>) = <<>> /\ SubSeq(now, 1, 0) = <<>>
    BY SubSeqEmpty DEF Messages
  <2> QED
    BY <2>1, <2>2, <2>3 DEF Gives
<1>4. ASSUME NEW k \in 1 .. Len(now), k - 1 \in T PROVE k \in T
  <2>1. k - 1 \in 0 .. Len(now) /\ k \in 0 .. Len(now)
    BY <1>1
  <2>2. f[k - 1] \in [cur : Nat, ops : Seq(OpsOf(M))] /\ f[k] = RewriteStep(Messages(old), f[k - 1], now[k])
    BY <1>2, <2>1 DEF RewritesAt
  <2>3. Gives(old, now, f[k - 1], k - 1)
    BY <1>4
  <2>4. Gives(old, now, f[k], k)
    BY <2>2, <2>3, GivesStep
  <2> QED
    BY <2>1, <2>4
<1>5. Len(now) \in 0 .. Len(now)
  BY <1>1
<1> HIDE DEF T
<1>6. Len(now) \in T
  BY <1>1, <1>3, <1>4, <1>5, UpTo
<1>7. Gives(old, now, f[Len(now)], Len(now))
  BY <1>6 DEF T
<1>8. RewriteOps(Messages(old), now) = f[Len(now)].ops
  BY <1>2 DEF RewritesAt
<1> QED
  BY <1>7, <1>8, SubSeqFull DEF Gives

-----------------------------------------------------------------------------
(* Trimming. A conversation is cut from its first message that may go to   *)
(* one of the messages a turn begins with.                                 *)

MayGo(m) == m.role # "system" /\ ~IsPinnedContext(m)
BeginsTurn(m) == m.role = "user" /\ ~IsPinnedContext(m)

Cut(h, start, e) == SubSeq(h, 1, start - 1) \o SubSeq(h, e, Len(h))

\* What each message of a cut is.
IsCut(M, h, start, e, c) ==
  /\ c \in Seq(M) /\ Len(c) = Len(h) - e + start
  /\ \A j \in 1 .. start - 1 : c[j] = h[j]
  /\ \A j \in start .. Len(h) - e + start : c[j] = h[j - start + e]

LEMMA CutIs ==
  ASSUME NEW M, NEW h \in Seq(M), NEW start \in 1 .. Len(h), NEW e \in start .. Len(h)
  PROVE  IsCut(M, h, start, e, Cut(h, start, e))
<1> DEFINE a == SubSeq(h, 1, start - 1)
           b == SubSeq(h, e, Len(h))
<1>1. Len(h) \in Nat /\ start \in Nat /\ e \in Nat /\ \A j \in 1 .. Len(h) : h[j] \in M
  BY LenProperties
<1>2. a \in Seq(M) /\ Len(a) = start - 1 /\ \A j \in 1 .. start - 1 : a[j] = h[j]
  <2>1. \A j \in 1 .. start - 1 : h[j] \in M
    BY <1>1
  <2> QED
    BY <1>1, <2>1, SubSeqProperties
<1>3. b \in Seq(M) /\ Len(b) = Len(h) - e + 1 /\ \A j \in 1 .. Len(h) - e + 1 : b[j] = h[e + j - 1]
  <2>1. \A j \in e .. Len(h) : h[j] \in M
    BY <1>1
  <2> QED
    BY <1>1, <2>1, SubSeqProperties
<1> HIDE DEF a, b
<1>4. /\ a \o b \in Seq(M) /\ Len(a \o b) = Len(a) + Len(b)
      /\ \A j \in 1 .. Len(a) + Len(b) : (a \o b)[j] = IF j <= Len(a) THEN a[j] ELSE b[j - Len(a)]
  BY <1>2, <1>3, ConcatProperties
<1>5. Cut(h, start, e) = a \o b
  BY DEF Cut, a, b
<1>6. Len(a) + Len(b) = Len(h) - e + start
  BY <1>1, <1>2, <1>3
<1>7. ASSUME NEW j \in 1 .. start - 1 PROVE (a \o b)[j] = h[j]
  BY <1>1, <1>2, <1>4, <1>6
<1>8. ASSUME NEW j \in start .. Len(h) - e + start PROVE (a \o b)[j] = h[j - start + e]
  <2>1. j \in 1 .. Len(a) + Len(b) /\ ~(j <= Len(a)) /\ j - Len(a) \in 1 .. Len(h) - e + 1
    BY <1>1, <1>2, <1>6
  <2>2. e + (j - Len(a)) - 1 = j - start + e
    BY <1>1, <1>2
  <2> QED
    BY <1>3, <1>4, <2>1, <2>2
<1> QED
  BY <1>4, <1>5, <1>6, <1>7, <1>8 DEF IsCut

LEMMA CutNone ==
  ASSUME NEW M, NEW h \in Seq(M), NEW start \in 1 .. Len(h)
  PROVE  Cut(h, start, start) = h
<1>1. Len(h) \in Nat /\ start \in start .. Len(h)
  BY LenProperties
<1>2. PICK c : c = Cut(h, start, start)
  OBVIOUS
<1>3. IsCut(M, h, start, start, c)
  BY <1>1, <1>2, CutIs
<1>4. c \in Seq(M) /\ Len(c) = Len(h)
  BY <1>1, <1>3 DEF IsCut
<1>5. ASSUME NEW j \in 1 .. Len(h) PROVE c[j] = h[j]
  <2>1. j \in 1 .. start - 1 \/ (j \in start .. Len(h) - start + start /\ j - start + start = j)
    BY <1>1
  <2> QED
    BY <1>3, <2>1 DEF IsCut
<1> QED
  BY <1>2, <1>4, <1>5, SeqEqual

\* What is cut of a cut is cut of the whole.
LEMMA CutAgain ==
  ASSUME NEW M, NEW h \in Seq(M), NEW start \in 1 .. Len(h), NEW e \in start .. Len(h), NEW d \in e .. Len(h)
  PROVE  Cut(Cut(h, start, e), start, d - e + start) = Cut(h, start, d)
<1>1. Len(h) \in Nat /\ start \in Nat /\ e \in Nat /\ d \in start .. Len(h) /\ d \in Nat
  BY LenProperties
<1>2. PICK c : c = Cut(h, start, e)
  OBVIOUS
<1>3. /\ c \in Seq(M) /\ Len(c) = Len(h) - e + start
      /\ \A j \in 1 .. start - 1 : c[j] = h[j]
      /\ \A j \in start .. Len(h) - e + start : c[j] = h[j - start + e]
  <2>1. IsCut(M, h, start, e, c)
    BY <1>2, CutIs
  <2> QED
    BY <2>1 DEF IsCut
<1>4. start \in 1 .. Len(c) /\ d - e + start \in start .. Len(c)
  BY <1>1, <1>3
<1>5. PICK x : x = Cut(c, start, d - e + start)
  OBVIOUS
<1>6. PICK y : y = Cut(h, start, d)
  OBVIOUS
<1>7. /\ x \in Seq(M) /\ Len(x) = Len(c) - (d - e + start) + start
      /\ \A j \in 1 .. start - 1 : x[j] = c[j]
      /\ \A j \in start .. Len(c) - (d - e + start) + start : x[j] = c[j - start + (d - e + start)]
  <2>1. IsCut(M, c, start, d - e + start, x)
    BY <1>3, <1>4, <1>5, CutIs
  <2> QED
    BY <2>1 DEF IsCut
<1>8. /\ y \in Seq(M) /\ Len(y) = Len(h) - d + start
      /\ \A j \in 1 .. start - 1 : y[j] = h[j]
      /\ \A j \in start .. Len(h) - d + start : y[j] = h[j - start + d]
  <2>1. IsCut(M, h, start, d, y)
    BY <1>1, <1>6, CutIs
  <2> QED
    BY <2>1 DEF IsCut
<1>9. Len(x) = Len(y)
  BY <1>1, <1>3, <1>7, <1>8
<1>10. ASSUME NEW j \in 1 .. Len(y) PROVE x[j] = y[j]
  <2>1. CASE j < start
    BY <1>1, <1>3, <1>7, <1>8, <2>1
  <2>2. CASE j >= start
    <3>1. j \in start .. Len(h) - d + start /\ j \in start .. Len(c) - (d - e + start) + start
      BY <1>1, <1>3, <1>8, <2>2
    <3>2. j - start + (d - e + start) \in start .. Len(h) - e + start
      BY <1>1, <3>1
    <3>3. (j - start + (d - e + start)) - start + e = j - start + d
      BY <1>1, <3>1
    <3>4. x[j] = c[j - start + (d - e + start)] /\ y[j] = h[j - start + d]
      BY <1>7, <1>8, <3>1
    <3> QED
      BY <1>3, <3>2, <3>3, <3>4
  <2> QED
    BY <1>1, <1>8, <2>1, <2>2
<1>11. x = y
  BY <1>7, <1>8, <1>9, <1>10, SeqEqual
<1> QED
  BY <1>2, <1>5, <1>6, <1>11

LEMMA LeastIs ==
  ASSUME NEW s, s \subseteq Nat, NEW x \in s, \A y \in s : x <= y
  PROVE  Min(s) = x
<1>1. Min(s) \in s /\ Min(s) <= x
  BY LeastIn
<1>2. Min(s) \in Nat /\ x \in Nat /\ x <= Min(s)
  BY <1>1
<1> QED
  BY <1>1, <1>2

Heads(h) == {i \in 1 .. Len(h) : MayGo(h[i])}
TurnsAfter(h, e) == {i \in e + 1 .. Len(h) : BeginsTurn(h[i])}

LEMMA TrimOnceIs ==
  ASSUME NEW c, NEW most
  PROVE  /\ Heads(c) = {} => TrimOnce(c, most) = c
         /\ Heads(c) # {} /\ Min(Heads(c)) # 0 =>
              /\ Len(c) < most \/ TurnsAfter(c, Min(Heads(c))) = {} => TrimOnce(c, most) = c
              /\ ~(Len(c) < most) /\ TurnsAfter(c, Min(Heads(c))) # {} /\ Min(TurnsAfter(c, Min(Heads(c)))) # 0 =>
                   TrimOnce(c, most) = Cut(c, Min(Heads(c)), Min(TurnsAfter(c, Min(Heads(c)))))
<1> DEFINE Oldest == IF Heads(c) # {} THEN Min(Heads(c)) ELSE 0
           Following == IF TurnsAfter(c, Oldest) # {} THEN Min(TurnsAfter(c, Oldest)) ELSE 0
<1>1. TrimOnce(c, most) = IF Len(c) < most \/ Oldest = 0 \/ Following = 0 THEN c ELSE Cut(c, Oldest, Following)
  BY Zenon DEF TrimOnce, SelectInSeq, SelectInSubSeq, Heads, TurnsAfter, MayGo, BeginsTurn, Cut
<1> QED
  BY <1>1

\* The messages the rest may begin with: the first that may go, and those a turn begins with.
CutPoints(h, start) == {start} \cup TurnsAfter(h, start)

LEMMA CutPointsType ==
  ASSUME NEW M, NEW h \in Seq(M), Heads(h) # {}, NEW start, start = Min(Heads(h))
  PROVE  /\ Len(h) \in Nat /\ start \in 1 .. Len(h) /\ MayGo(h[start])
         /\ \A j \in 1 .. start - 1 : ~MayGo(h[j])
         /\ \A e \in CutPoints(h, start) : e \in start .. Len(h) /\ MayGo(h[e])
<1>1. Len(h) \in Nat
  BY LenProperties
<1>2. Heads(h) \subseteq Nat
  BY <1>1 DEF Heads
<1>3. start \in Heads(h) /\ \A i \in Heads(h) : start <= i
  BY <1>2, LeastIn
<1>4. start \in 1 .. Len(h) /\ MayGo(h[start])
  BY <1>3 DEF Heads
<1>5. ASSUME NEW j \in 1 .. start - 1 PROVE ~MayGo(h[j])
  <2>1. j \in 1 .. Len(h) /\ ~(start <= j)
    BY <1>1, <1>4
  <2> QED
    BY <1>3, <2>1 DEF Heads
<1>6. \A m : BeginsTurn(m) => MayGo(m)
  BY DEF BeginsTurn, MayGo
<1>7. ASSUME NEW e \in TurnsAfter(h, start) PROVE e \in start .. Len(h) /\ MayGo(h[e])
  BY <1>1, <1>4, <1>6 DEF TurnsAfter
<1>8. start \in start .. Len(h)
  BY <1>1, <1>4
<1>9. ASSUME NEW e \in CutPoints(h, start) PROVE e \in start .. Len(h) /\ MayGo(h[e])
  BY <1>4, <1>7, <1>8 DEF CutPoints
<1> QED
  BY <1>1, <1>4, <1>5, <1>9

\* A pass of the loop goes from one of these messages to the next.
LEMMA TrimOnceOfCut ==
  ASSUME NEW M, NEW h \in Seq(M), Heads(h) # {}, NEW start, start = Min(Heads(h)),
         NEW e \in CutPoints(h, start), NEW most
  PROVE  /\ Len(Cut(h, start, e)) < most \/ TurnsAfter(h, e) = {} =>
              TrimOnce(Cut(h, start, e), most) = Cut(h, start, e)
         /\ ~(Len(Cut(h, start, e)) < most) /\ TurnsAfter(h, e) # {} =>
              TrimOnce(Cut(h, start, e), most) = Cut(h, start, Min(TurnsAfter(h, e)))
<1>1. /\ Len(h) \in Nat /\ start \in 1 .. Len(h) /\ MayGo(h[e]) /\ e \in start .. Len(h)
      /\ \A j \in 1 .. start - 1 : ~MayGo(h[j])
  BY CutPointsType
<1>2. PICK c : c = Cut(h, start, e)
  OBVIOUS
<1>3. /\ c \in Seq(M) /\ Len(c) = Len(h) - e + start
      /\ \A j \in 1 .. start - 1 : c[j] = h[j]
      /\ \A j \in start .. Len(h) - e + start : c[j] = h[j - start + e]
  <2>1. start \in 1 .. Len(h)
    BY <1>1
  <2>2. e \in start .. Len(h)
    BY <1>1
  <2>3. IsCut(M, h, start, e, c)
    BY <1>2, <2>1, <2>2, CutIs
  <2> QED
    BY <2>3 DEF IsCut
<1>4. Heads(c) # {} /\ Min(Heads(c)) = start
  <2>1. Heads(c) \subseteq Nat
    BY DEF Heads
  <2>2. start \in Heads(c)
    <3>1. start \in start .. Len(h) - e + start /\ start - start + e = e /\ start \in 1 .. Len(c)
      BY <1>1, <1>3
    <3> QED
      BY <1>1, <1>3, <3>1 DEF Heads
  <2>3. ASSUME NEW j \in Heads(c) PROVE start <= j
    <3>1. j \in 1 .. Len(c) /\ MayGo(c[j])
      BY DEF Heads
    <3>2. CASE j < start
      <4>1. j \in 1 .. start - 1
        BY <1>1, <3>1, <3>2
      <4> QED
        BY <1>1, <1>3, <3>1, <4>1
    <3> QED
      BY <1>1, <3>1, <3>2
  <2>4. Min(Heads(c)) = start
    BY <2>1, <2>2, <2>3, LeastIs
  <2> QED
    BY <2>2, <2>4
<1>5. ASSUME NEW j
      PROVE  j \in TurnsAfter(c, start) <=> j \in start + 1 .. Len(c) /\ j - start + e \in TurnsAfter(h, e)
  <2>1. CASE j \in start + 1 .. Len(c)
    <3>1. j \in start .. Len(h) - e + start /\ j - start + e \in e + 1 .. Len(h)
      BY <1>1, <1>3, <2>1
    <3>2. c[j] = h[j - start + e]
      BY <1>3, <3>1
    <3> QED
      BY <2>1, <3>1, <3>2 DEF TurnsAfter
  <2> QED
    BY <2>1 DEF TurnsAfter
<1>6. TurnsAfter(h, e) \subseteq Nat /\ TurnsAfter(h, e) \subseteq e + 1 .. Len(h) /\ TurnsAfter(c, start) \subseteq Nat
  BY <1>1 DEF TurnsAfter
<1>7. CASE TurnsAfter(h, e) = {}
  <2>1. TurnsAfter(c, start) = {}
    BY <1>5, <1>7
  <2> QED
    BY <1>1, <1>2, <1>4, <1>7, <2>1, TrimOnceIs
<1>8. CASE TurnsAfter(h, e) # {}
  <2>1. PICK d : d = Min(TurnsAfter(h, e))
    OBVIOUS
  <2>2. d \in TurnsAfter(h, e) /\ d \in e + 1 .. Len(h) /\ \A i \in TurnsAfter(h, e) : d <= i
    BY <1>6, <1>8, <2>1, LeastIn
  <2>3. d - e + start \in TurnsAfter(c, start)
    <3>1. d - e + start \in start + 1 .. Len(c) /\ (d - e + start) - start + e = d
      BY <1>1, <1>3, <2>2
    <3> QED
      BY <1>5, <2>2, <3>1
  <2>4. ASSUME NEW j \in TurnsAfter(c, start) PROVE d - e + start <= j
    <3>1. j \in start + 1 .. Len(c) /\ d <= j - start + e
      BY <1>5, <2>2
    <3> QED
      BY <1>1, <2>2, <3>1
  <2>5. Min(TurnsAfter(c, start)) = d - e + start /\ d - e + start # 0
    <3>1. PICK x, T : x = d - e + start /\ T = TurnsAfter(c, start)
      OBVIOUS
    <3>2. T \subseteq Nat /\ x \in T /\ \A y \in T : x <= y
      BY <1>6, <2>3, <2>4, <3>1
    <3> QED
      BY <1>1, <2>2, <3>1, <3>2, LeastIs
  <2>6. Cut(c, start, d - e + start) = Cut(h, start, d)
    <3>1. d \in e .. Len(h)
      BY <1>1, <2>2
    <3> QED
      BY <1>1, <1>2, <3>1, CutAgain
  <2>7. TurnsAfter(c, start) # {}
    BY <2>3
  <2>8. start # 0
    BY <1>1
  <2>9. ~(Len(c) < most) => TrimOnce(c, most) = Cut(h, start, d)
    BY <1>4, <2>5, <2>6, <2>7, <2>8, TrimOnceIs
  <2>10. Len(c) < most => TrimOnce(c, most) = c
    BY <1>4, <2>8, TrimOnceIs
  <2> QED
    BY <1>2, <1>8, <2>1, <2>9, <2>10
<1> QED
  BY <1>7, <1>8

\* The fold of TrimLoop, pass by pass.
TrimsAt(f, A, h, most) ==
  /\ f \in [0 .. Len(h) -> A] /\ f[0] = h /\ TrimLoop(h, most) = f[Len(h)]
  /\ \A i \in 1 .. Len(h) : f[i] = TrimOnce(f[i - 1], most)

LEMMA TrimFold ==
  ASSUME NEW M, NEW h \in Seq(M), NEW most, NEW A, h \in A, \A a \in A : TrimOnce(a, most) \in A
  PROVE  \E f : TrimsAt(f, A, h, most)
<1> DEFINE st == [x \in A \X M |-> TrimOnce(x[1], most)]
           Folds(g) == g = [s \in SUBSET (DOMAIN h) |-> IF s = {} THEN h ELSE TrimOnce(g[s \ {Max(s)}], most)]
           fold == CHOOSE g : Folds(g)
<1>1. TrimLoop(h, most) = fold[DOMAIN h]
  BY Zenon DEF TrimLoop, FoldLeft, MapThenFoldSet
<1>2. DOMAIN h = 1 .. Len(h) /\ Len(h) \in Nat /\ \A i \in 1 .. Len(h) : h[i] \in M
  BY LenProperties
<1>4. st \in [A \X M -> A] /\ \A a \in A, m \in M : st[<<a, m>>] = TrimOnce(a, most)
  OBVIOUS
<1>5. Folds(fold)
  <2> HIDE DEF st
  <2>1. PICK g : Steps(g, A, M, st, h, h)
    BY <1>4, FoldSteps
  <2>2. \A s \in SUBSET (DOMAIN h) : g[s] = IF s = {} THEN h ELSE TrimOnce(g[s \ {Max(s)}], most)
    BY <1>4, <2>1 DEF Steps
  <2>3. Folds(g)
    BY <2>1, <2>2 DEF Steps
  <2> HIDE DEF Folds
  <2> QED BY <2>3, Zenon
<1>6. FoldsIn(fold, A, st, h, h, Len(h))
  <2> HIDE DEF fold, st
  <2>1. \A s \in SUBSET (1 .. Len(h)) : fold[s] = IF s = {} THEN h ELSE TrimOnce(fold[s \ {Max(s)}], most)
    BY <1>2, <1>5
  <2>2. \A s \in SUBSET (1 .. Len(h)) : s # {} => Max(s) \in 1 .. Len(h)
    BY <1>2, GreatestIn
  <2> QED
    BY <1>2, <1>4, <2>1, <2>2 DEF FoldsIn
<1>7. PICK f : ValuesOf(f, A, st, h, h)
  <2> HIDE DEF st
  <2> QED BY <1>4, Folding
<1>8. ASSUME NEW i \in 1 .. Len(h) PROVE f[i] = TrimOnce(f[i - 1], most)
  <2>1. i - 1 \in 0 .. Len(h)
    BY <1>2
  <2> HIDE DEF st
  <2> QED
    BY <1>2, <1>4, <1>7, <2>1 DEF Folded, ValuesOf
<1> HIDE DEF st, fold, Folds
<1>9. f \in [0 .. Len(h) -> A] /\ f[0] = h /\ TrimLoop(h, most) = f[Len(h)]
  BY <1>1, <1>2, <1>6, <1>7 DEF Folded, ValuesOf
<1> QED
  BY <1>8, <1>9 DEF TrimsAt

FitsAt(h, start, most) == {e \in CutPoints(h, start) : Len(Cut(h, start, e)) < most}

LEMMA TrimMessagesIs ==
  ASSUME NEW M, NEW h \in Seq(M), NEW most, most # 0
  PROVE  /\ Heads(h) = {} => TrimMessages(h, most) = h
         /\ Heads(h) # {} =>
              TrimMessages(h, most) =
                IF FitsAt(h, Min(Heads(h)), most) = {} THEN Cut(h, Min(Heads(h)), Max(CutPoints(h, Min(Heads(h)))))
                ELSE Cut(h, Min(Heads(h)), Min(FitsAt(h, Min(Heads(h)), most)))
<1> DEFINE heads == {i \in DOMAIN h : h[i].role # "system" /\ ~IsPinnedContext(h[i])}
           start == Min(heads)
           ends == {start} \cup {i \in heads : i > start /\ h[i].role = "user"}
           fits == {e \in ends : Len(Cut(h, start, e)) < most}
<1>1. TrimMessages(h, most) = IF heads = {} THEN h
                              ELSE IF fits = {} THEN Cut(h, start, Max(ends)) ELSE Cut(h, start, Min(fits))
  BY Zenon DEF TrimMessages, Cut
<1>2. DOMAIN h = 1 .. Len(h) /\ Len(h) \in Nat
  BY LenProperties
<1>3. heads = Heads(h)
  BY <1>2 DEF Heads, MayGo
<1>4. ASSUME Heads(h) # {} PROVE ends = CutPoints(h, Min(Heads(h)))
  <2>1. start = Min(Heads(h)) /\ start \in 1 .. Len(h)
    BY <1>3, <1>4, CutPointsType
  <2> HIDE DEF start
  <2>2. ASSUME NEW i PROVE i \in heads /\ i > start /\ h[i].role = "user" <=> i \in TurnsAfter(h, start)
    BY <1>2, <2>1 DEF TurnsAfter, BeginsTurn
  <2>3. {i \in heads : i > start /\ h[i].role = "user"} = TurnsAfter(h, start)
    BY <2>2
  <2> QED
    BY <2>1, <2>3 DEF CutPoints
<1>5. Heads(h) # {} => start = Min(Heads(h)) /\ fits = FitsAt(h, Min(Heads(h)), most)
  BY <1>3, <1>4, Zenon DEF FitsAt
<1> HIDE DEF heads, start, ends, fits
<1> QED
  BY <1>1, <1>3, <1>4, <1>5

\* After k passes: none of the longer cuts fits, and this one fits, or is the last, or is the k-th at least.
Trimmed(h, start, most, a, k) ==
  \E e \in CutPoints(h, start) :
    /\ a = Cut(h, start, e)
    /\ \A d \in CutPoints(h, start) : d < e => ~(Len(Cut(h, start, d)) < most)
    /\ Len(Cut(h, start, e)) < most \/ TurnsAfter(h, e) = {} \/ e >= start + k

LEMMA TrimmedStep ==
  ASSUME NEW M, NEW h \in Seq(M), Heads(h) # {}, NEW start, start = Min(Heads(h)),
         NEW most, NEW a, NEW k \in Nat, Trimmed(h, start, most, a, k)
  PROVE  Trimmed(h, start, most, TrimOnce(a, most), k + 1)
<1>1. PICK e \in CutPoints(h, start) :
        /\ a = Cut(h, start, e)
        /\ \A d \in CutPoints(h, start) : d < e => ~(Len(Cut(h, start, d)) < most)
        /\ Len(Cut(h, start, e)) < most \/ TurnsAfter(h, e) = {} \/ e >= start + k
  BY DEF Trimmed
<1>2. Len(h) \in Nat /\ start \in 1 .. Len(h) /\ \A d \in CutPoints(h, start) : d \in start .. Len(h)
  BY CutPointsType
<1>3. CASE Len(Cut(h, start, e)) < most \/ TurnsAfter(h, e) = {}
  <2>1. TrimOnce(a, most) = a
    BY <1>1, <1>3, TrimOnceOfCut
  <2> QED
    BY <1>1, <1>3, <2>1 DEF Trimmed
<1>4. CASE ~(Len(Cut(h, start, e)) < most) /\ TurnsAfter(h, e) # {}
  <2>1. PICK d : d = Min(TurnsAfter(h, e))
    OBVIOUS
  <2>2. TrimOnce(a, most) = Cut(h, start, d)
    BY <1>1, <1>4, <2>1, TrimOnceOfCut
  <2>3. e \in start .. Len(h) /\ e \in Nat
    BY <1>1, <1>2
  <2>4. TurnsAfter(h, e) \subseteq Nat
    BY <1>2, <2>3 DEF TurnsAfter
  <2>5. d \in TurnsAfter(h, e) /\ \A i \in TurnsAfter(h, e) : d <= i
    BY <1>4, <2>1, <2>4, LeastIn
  <2>6. d \in Nat /\ d > e /\ d \in CutPoints(h, start)
    BY <1>2, <2>3, <2>5 DEF CutPoints, TurnsAfter
  <2>7. ASSUME NEW x \in CutPoints(h, start), x < d PROVE ~(Len(Cut(h, start, x)) < most)
    <3>1. x \in Nat /\ x >= start
      BY <1>2
    <3>2. CASE x > e
      <4>1. x \in TurnsAfter(h, e)
        BY <1>2, <2>3, <3>1, <3>2 DEF CutPoints, TurnsAfter
      <4> QED
        BY <2>5, <2>6, <2>7, <3>1, <4>1
    <3>3. CASE x = e
      BY <1>4, <3>3
    <3>4. CASE x < e
      BY <1>1, <3>4
    <3> QED
      BY <2>3, <3>1, <3>2, <3>3, <3>4
  <2>8. d >= start + (k + 1)
    BY <1>1, <1>2, <1>4, <2>3, <2>6
  <2> QED
    BY <2>2, <2>6, <2>7, <2>8 DEF Trimmed
<1> QED
  BY <1>3, <1>4

LEMMA TrimmedEnd ==
  ASSUME NEW M, NEW h \in Seq(M), Heads(h) # {}, NEW start, start = Min(Heads(h)),
         NEW most, most # 0, NEW a, Trimmed(h, start, most, a, Len(h))
  PROVE  a = TrimMessages(h, most)
<1>1. PICK e \in CutPoints(h, start) :
        /\ a = Cut(h, start, e)
        /\ \A d \in CutPoints(h, start) : d < e => ~(Len(Cut(h, start, d)) < most)
        /\ Len(Cut(h, start, e)) < most \/ TurnsAfter(h, e) = {} \/ e >= start + Len(h)
  BY DEF Trimmed
<1>2. Len(h) \in Nat /\ start \in 1 .. Len(h) /\ \A d \in CutPoints(h, start) : d \in start .. Len(h)
  BY CutPointsType
<1>3. Len(Cut(h, start, e)) < most \/ TurnsAfter(h, e) = {}
  BY <1>1, <1>2
<1>4. FitsAt(h, start, most) \subseteq Nat /\ CutPoints(h, start) \subseteq Nat
  BY <1>2 DEF FitsAt
<1>5. CASE Len(Cut(h, start, e)) < most
  <2>1. PICK F : F = FitsAt(h, start, most)
    OBVIOUS
  <2>2. e \in F /\ F \subseteq Nat
    BY <1>4, <1>5, <2>1 DEF FitsAt
  <2>3. ASSUME NEW x \in F PROVE e <= x
    <3>1. x \in CutPoints(h, start) /\ Len(Cut(h, start, x)) < most
      BY <2>1 DEF FitsAt
    <3>2. ~(x < e) /\ x \in Nat /\ e \in Nat
      BY <1>1, <1>4, <3>1
    <3> QED
      BY <3>2
  <2>4. Min(F) = e /\ F # {}
    BY <2>2, <2>3, LeastIs
  <2> QED
    BY <1>1, <2>1, <2>4, TrimMessagesIs
<1>6. CASE ~(Len(Cut(h, start, e)) < most)
  <2>1. TurnsAfter(h, e) = {}
    BY <1>3, <1>6
  <2>2. ASSUME NEW x \in CutPoints(h, start) PROVE x <= e
    <3>1. x \in Nat /\ e \in Nat /\ e >= start /\ x <= Len(h)
      BY <1>1, <1>2
    <3>2. CASE x > e
      <4>1. x \in TurnsAfter(h, start) /\ x \in e + 1 .. Len(h)
        BY <1>2, <3>1, <3>2 DEF CutPoints
      <4>2. x \in TurnsAfter(h, e)
        BY <4>1 DEF TurnsAfter
      <4> QED
        BY <2>1, <4>2
    <3> QED
      BY <3>1, <3>2
  <2>3. FitsAt(h, start, most) = {}
    <3>1. ASSUME NEW x \in CutPoints(h, start) PROVE ~(Len(Cut(h, start, x)) < most)
      <4>1. x \in Nat /\ e \in Nat /\ x <= e
        BY <1>4, <2>2
      <4>2. x = e \/ x < e
        BY <4>1
      <4> QED
        BY <1>1, <1>6, <4>2
    <3> QED
      BY <3>1 DEF FitsAt
  <2>4. Max(CutPoints(h, start)) = e
    <3>1. PICK T : T = CutPoints(h, start)
      OBVIOUS
    <3>2. e \in T /\ T \subseteq Nat /\ \A x \in T : e >= x
      BY <1>4, <2>2, <3>1
    <3>3. Max(T) \in T /\ \A x \in T : Max(T) >= x
      BY <3>2, Zenon DEF Max
    <3>4. Max(T) \in Nat /\ e \in Nat /\ Max(T) >= e /\ e >= Max(T)
      BY <3>2, <3>3
    <3> QED
      BY <3>1, <3>4
  <2> QED
    BY <1>1, <2>3, <2>4, TrimMessagesIs
<1> QED
  BY <1>5, <1>6

\* Whatever the conversation and the limit, the loop ends with the cut that is longest of those that fit.
LEMMA TrimLoopIs ==
  ASSUME NEW M, NEW h \in Seq(M), NEW most
  PROVE  TrimMessages(h, most) = IF most = 0 THEN h ELSE TrimLoop(h, most)
<1>1. CASE most = 0
  BY <1>1, Zenon DEF TrimMessages
<1>2. CASE most # 0 /\ Heads(h) = {}
  <2>1. TrimOnce(h, most) = h
    BY <1>2, TrimOnceIs
  <2>2. PICK A : A = {h}
    OBVIOUS
  <2>3. h \in A /\ \A a \in A : TrimOnce(a, most) \in A
    BY <2>1, <2>2
  <2>4. PICK f : TrimsAt(f, A, h, most)
    BY <2>3, TrimFold
  <2>5. Len(h) \in 0 .. Len(h)
    BY LenProperties
  <2>6. TrimLoop(h, most) = h
    BY <2>2, <2>4, <2>5 DEF TrimsAt
  <2> QED
    BY <1>2, <2>6, TrimMessagesIs
<1>3. CASE most # 0 /\ Heads(h) # {}
  <2>1. PICK start : start = Min(Heads(h))
    OBVIOUS
  <2>2. Len(h) \in Nat /\ start \in 1 .. Len(h) /\ \A d \in CutPoints(h, start) : d \in start .. Len(h)
    BY <1>3, <2>1, CutPointsType
  <2>3. PICK A : A = {Cut(h, start, e) : e \in CutPoints(h, start)}
    OBVIOUS
  <2>4. h \in A /\ start \in CutPoints(h, start) /\ Cut(h, start, start) = h
    <3>1. Cut(h, start, start) = h
      BY <2>2, CutNone
    <3> QED
      BY <2>3, <3>1 DEF CutPoints
  <2>5. ASSUME NEW a \in A PROVE TrimOnce(a, most) \in A
    <3>1. PICK e \in CutPoints(h, start) : a = Cut(h, start, e)
      BY <2>3
    <3>2. CASE Len(Cut(h, start, e)) < most \/ TurnsAfter(h, e) = {}
      BY <1>3, <2>1, <3>1, <3>2, TrimOnceOfCut
    <3>3. CASE ~(Len(Cut(h, start, e)) < most) /\ TurnsAfter(h, e) # {}
      <4>1. TrimOnce(a, most) = Cut(h, start, Min(TurnsAfter(h, e)))
        BY <1>3, <2>1, <3>1, <3>3, TrimOnceOfCut
      <4>2. TurnsAfter(h, e) \subseteq Nat /\ TurnsAfter(h, e) \subseteq CutPoints(h, start)
        BY <2>2, <3>1 DEF TurnsAfter, CutPoints
      <4>3. Min(TurnsAfter(h, e)) \in CutPoints(h, start)
        BY <3>3, <4>2, LeastIn
      <4> QED
        BY <2>3, <4>1, <4>3
    <3> QED
      BY <3>2, <3>3
  <2>6. PICK f : TrimsAt(f, A, h, most)
    BY <2>4, <2>5, TrimFold
  <2> DEFINE T == {k \in 0 .. Len(h) : Trimmed(h, start, most, f[k], k)}
  <2>7. 0 \in T
    <3>1. ASSUME NEW d \in CutPoints(h, start) PROVE ~(d < start)
      BY <2>2
    <3>2. start >= start + 0
      BY <2>2
    <3>3. f[0] = Cut(h, start, start)
      BY <2>4, <2>6 DEF TrimsAt
    <3>4. Trimmed(h, start, most, f[0], 0)
      BY <2>4, <3>1, <3>2, <3>3 DEF Trimmed
    <3> QED
      BY <2>2, <3>4
  <2>8. ASSUME NEW k \in 1 .. Len(h), k - 1 \in T PROVE k \in T
    <3>1. k - 1 \in Nat /\ k - 1 + 1 = k /\ k \in 0 .. Len(h)
      BY <2>2
    <3>2. Trimmed(h, start, most, f[k - 1], k - 1)
      BY <2>8
    <3>3. Trimmed(h, start, most, TrimOnce(f[k - 1], most), k - 1 + 1)
      BY <1>3, <2>1, <3>1, <3>2, TrimmedStep
    <3>4. f[k] = TrimOnce(f[k - 1], most)
      BY <2>6 DEF TrimsAt
    <3> QED
      BY <3>1, <3>3, <3>4
  <2>9. Len(h) \in 0 .. Len(h)
    BY <2>2
  <2> HIDE DEF T
  <2>10. Len(h) \in T
    BY <2>2, <2>7, <2>8, <2>9, UpTo
  <2>11. Trimmed(h, start, most, f[Len(h)], Len(h))
    BY <2>10 DEF T
  <2>12. f[Len(h)] = TrimMessages(h, most)
    BY <1>3, <2>1, <2>11, TrimmedEnd
  <2> QED
    BY <1>3, <2>6, <2>12 DEF TrimsAt
<1> QED
  BY <1>1, <1>2, <1>3

-----------------------------------------------------------------------------
(* Assembling. What is left of a list is what follows its first items.     *)

Rest(s, i) == SubSeq(s, i, Len(s))

LEMMA RestIs ==
  ASSUME NEW S, NEW s \in Seq(S), NEW i \in 1 .. Len(s) + 1
  PROVE  /\ Rest(s, i) \in Seq(S) /\ Len(Rest(s, i)) = Len(s) - i + 1
         /\ \A j \in 1 .. Len(s) - i + 1 : Rest(s, i)[j] = s[i + j - 1]
<1>1. Len(s) \in Nat /\ i \in Nat /\ \A j \in 1 .. Len(s) : s[j] \in S
  BY LenProperties
<1>2. \A j \in i .. Len(s) : s[j] \in S
  BY <1>1
<1> QED
  BY <1>1, <1>2, SubSeqProperties DEF Rest

LEMMA RestOfRest ==
  ASSUME NEW S, NEW s \in Seq(S), NEW i \in 1 .. Len(s) + 1, NEW j \in 1 .. Len(s) - i + 2
  PROVE  Rest(Rest(s, i), j) = Rest(s, i + j - 1)
<1>1. Len(s) \in Nat /\ i \in Nat /\ j \in Nat /\ i + j - 1 \in 1 .. Len(s) + 1
  BY LenProperties
<1>2. PICK r, x, y : r = Rest(s, i) /\ x = Rest(r, j) /\ y = Rest(s, i + j - 1)
  OBVIOUS
<1>3. r \in Seq(S) /\ Len(r) = Len(s) - i + 1 /\ \A k \in 1 .. Len(s) - i + 1 : r[k] = s[i + k - 1]
  BY <1>2, RestIs
<1>4. j \in 1 .. Len(r) + 1
  BY <1>1, <1>3
<1>5. x \in Seq(S) /\ Len(x) = Len(r) - j + 1 /\ \A k \in 1 .. Len(r) - j + 1 : x[k] = r[j + k - 1]
  BY <1>2, <1>3, <1>4, RestIs
<1>6. /\ y \in Seq(S) /\ Len(y) = Len(s) - (i + j - 1) + 1
      /\ \A k \in 1 .. Len(s) - (i + j - 1) + 1 : y[k] = s[(i + j - 1) + k - 1]
  BY <1>1, <1>2, RestIs
<1>7. Len(x) = Len(y)
  BY <1>1, <1>3, <1>5, <1>6
<1>8. ASSUME NEW k \in 1 .. Len(x) PROVE x[k] = y[k]
  <2>0. k \in Nat /\ k >= 1 /\ k <= Len(r) - j + 1 /\ Len(r) = Len(s) - i + 1
    BY <1>1, <1>3, <1>5
  <2>1. j + k - 1 \in 1 .. Len(s) - i + 1 /\ k \in 1 .. Len(s) - (i + j - 1) + 1 /\ k \in 1 .. Len(r) - j + 1
    BY <1>1, <2>0
  <2>2. i + (j + k - 1) - 1 = (i + j - 1) + k - 1
    BY <1>1, <2>0
  <2> QED
    BY <1>3, <1>5, <1>6, <2>1, <2>2
<1>9. x = y
  BY <1>5, <1>6, <1>7, <1>8, SeqEqual
<1> QED
  BY <1>2, <1>9

LEMMA TailIsRest ==
  ASSUME NEW S, NEW s \in Seq(S), s # <<>>
  PROVE  Tail(s) = Rest(s, 2)
<1>1. Len(s) \in Nat /\ Len(s) >= 1 /\ 2 \in 1 .. Len(s) + 1
  BY EmptySeq, LenProperties
<1>2. PICK x, y : x = Tail(s) /\ y = Rest(s, 2)
  OBVIOUS
<1>3. x \in Seq(S) /\ Len(x) = Len(s) - 1 /\ \A k \in 1 .. Len(s) - 1 : x[k] = s[k + 1]
  BY <1>1, <1>2, HeadTailProperties
<1>4. y \in Seq(S) /\ Len(y) = Len(s) - 2 + 1 /\ \A k \in 1 .. Len(s) - 2 + 1 : y[k] = s[2 + k - 1]
  BY <1>1, <1>2, RestIs
<1>5. ASSUME NEW k \in 1 .. Len(x) PROVE x[k] = y[k]
  BY <1>1, <1>3, <1>4
<1>6. x = y
  BY <1>1, <1>3, <1>4, <1>5, SeqEqual
<1> QED
  BY <1>2, <1>6

LEMMA RestWhole ==
  ASSUME NEW S, NEW s \in Seq(S)
  PROVE  Rest(s, 1) = s
BY SubSeqFull DEF Rest

LEMMA NewestIs ==
  ASSUME NEW S, NEW s \in Seq(S), NEW n \in 0 .. Len(s)
  PROVE  /\ Newest(s, n) \in Seq(S) /\ Len(Newest(s, n)) = n
         /\ n # 0 => Newest(s, n) # <<>> /\ Tail(Newest(s, n)) = Newest(s, n - 1)
         /\ Newest(s, Len(s)) = s
<1>1. Len(s) \in Nat /\ n \in Nat /\ Len(s) - n + 1 \in 1 .. Len(s) + 1
  BY LenProperties
<1>2. PICK r : r = Rest(s, Len(s) - n + 1)
  OBVIOUS
<1>3. r = Newest(s, n)
  BY <1>2 DEF Rest, Newest
<1>4. r \in Seq(S) /\ Len(r) = Len(s) - (Len(s) - n + 1) + 1
  BY <1>1, <1>2, RestIs
<1>5. Len(r) = n
  BY <1>1, <1>4
<1>6. ASSUME n # 0 PROVE r # <<>> /\ Tail(r) = Newest(s, n - 1)
  <2>1. r # <<>>
    BY <1>1, <1>4, <1>5, <1>6, EmptySeq
  <2>2. Tail(r) = Rest(r, 2)
    BY <1>4, <2>1, TailIsRest
  <2>3. PICK i : i = Len(s) - n + 1
    OBVIOUS
  <2>4. i \in 1 .. Len(s) + 1 /\ 2 \in 1 .. Len(s) - i + 2 /\ i + 2 - 1 = Len(s) - (n - 1) + 1
    BY <1>1, <1>6, <2>3
  <2>5. Rest(r, 2) = Rest(s, i + 2 - 1)
    BY <1>2, <2>3, <2>4, RestOfRest
  <2> QED
    BY <2>1, <2>2, <2>4, <2>5 DEF Newest, Rest
<1>7. Newest(s, Len(s)) = s
  <2>1. Len(s) - Len(s) + 1 = 1
    BY <1>1
  <2> QED
    BY <2>1, SubSeqFull DEF Newest
<1> QED
  BY <1>3, <1>4, <1>5, <1>6, <1>7

\* The items of a tail that begin a turn, and those after item i that are of another turn.
TurnStarts(tail) == {i \in 1 .. Len(tail) : i = 1 \/ tail[i].group # tail[i - 1].group}
OthersAfter(tail, i) == {j \in i + 1 .. Len(tail) : tail[j].group # tail[i].group}

\* The next turn of the tail begins after i, and no other between.
LEMMA NextTurn ==
  ASSUME NEW S, NEW tail \in Seq(S), NEW i \in 1 .. Len(tail), OthersAfter(tail, i) # {},
         NEW d, d = Min(OthersAfter(tail, i))
  PROVE  /\ d \in i + 1 .. Len(tail) /\ d \in TurnStarts(tail) /\ tail[d].group # tail[i].group
         /\ \A j \in i + 1 .. d - 1 : j \notin TurnStarts(tail)
<1>1. Len(tail) \in Nat /\ i \in Nat
  BY LenProperties
<1>2. OthersAfter(tail, i) \subseteq Nat
  BY <1>1 DEF OthersAfter
<1>3. d \in OthersAfter(tail, i) /\ \A j \in OthersAfter(tail, i) : d <= j
  BY <1>2, LeastIn
<1>4. d \in i + 1 .. Len(tail) /\ tail[d].group # tail[i].group
  BY <1>3 DEF OthersAfter
<1>5. ASSUME NEW j \in i .. d - 1 PROVE tail[j].group = tail[i].group
  <2>1. j \in i .. Len(tail) /\ ~(d <= j)
    BY <1>1, <1>4
  <2>2. CASE j = i
    BY <2>2
  <2>3. CASE j # i
    <3>1. j \in i + 1 .. Len(tail)
      BY <1>1, <2>1, <2>3
    <3> QED
      BY <1>3, <2>1, <3>1 DEF OthersAfter
  <2> QED
    BY <2>2, <2>3
<1>6. d \in TurnStarts(tail)
  <2>1. d - 1 \in i .. d - 1 /\ d \in 1 .. Len(tail)
    BY <1>1, <1>4
  <2> QED
    BY <1>4, <1>5, <2>1 DEF TurnStarts
<1>7. ASSUME NEW j \in i + 1 .. d - 1 PROVE j \notin TurnStarts(tail)
  <2>1. j \in i .. d - 1 /\ j - 1 \in i .. d - 1 /\ j # 1
    BY <1>1, <1>4
  <2>2. tail[j].group = tail[j - 1].group
    BY <1>5, <2>1
  <2> QED
    BY <2>1, <2>2 DEF TurnStarts
<1> QED
  BY <1>4, <1>6, <1>7

LEMMA DropGroupIs ==
  ASSUME NEW S, NEW tail \in Seq(S), NEW i \in 1 .. Len(tail), OthersAfter(tail, i) # {}
  PROVE  DropGroup(Rest(tail, i)) = Rest(tail, Min(OthersAfter(tail, i)))
<1>1. Len(tail) \in Nat /\ i \in Nat /\ i \in 1 .. Len(tail) + 1
  BY LenProperties
<1>2. PICK r, d : r = Rest(tail, i) /\ d = Min(OthersAfter(tail, i))
  OBVIOUS
<1>3. r \in Seq(S) /\ Len(r) = Len(tail) - i + 1 /\ \A j \in 1 .. Len(tail) - i + 1 : r[j] = tail[i + j - 1]
  BY <1>1, <1>2, RestIs
<1>4. d \in OthersAfter(tail, i) /\ \A j \in OthersAfter(tail, i) : d <= j
  <2>1. OthersAfter(tail, i) \subseteq Nat
    BY <1>1 DEF OthersAfter
  <2> QED
    BY <1>2, <2>1, LeastIn
<1>5. d \in i + 1 .. Len(tail) /\ tail[d].group # tail[i].group
  BY <1>4 DEF OthersAfter
<1> DEFINE I == {j \in 1 .. Len(r) : r[j].group # r[1].group}
<1>6. DropGroup(r) = Rest(r, IF I # {} THEN Min(I) ELSE 0)
  BY Zenon DEF DropGroup, SelectInSeq, Rest
<1>7. r[1] = tail[i]
  <2>1. 1 \in 1 .. Len(tail) - i + 1 /\ i + 1 - 1 = i
    BY <1>1
  <2> QED
    BY <1>3, <2>1
<1>8. d - i + 1 \in I
  <2>1. d - i + 1 \in 1 .. Len(r) /\ d - i + 1 \in 1 .. Len(tail) - i + 1 /\ i + (d - i + 1) - 1 = d
    BY <1>1, <1>3, <1>5
  <2>2. r[d - i + 1] = tail[d]
    BY <1>3, <2>1
  <2> QED
    BY <1>5, <1>7, <2>1, <2>2
<1>9. ASSUME NEW j \in I PROVE d - i + 1 <= j
  <2>1. j \in 1 .. Len(tail) - i + 1 /\ r[j] = tail[i + j - 1] /\ r[j].group # r[1].group
    BY <1>3
  <2>2. tail[i + j - 1].group # tail[i].group
    BY <1>7, <2>1
  <2>3. j # 1
    BY <1>1, <2>2
  <2>4. i + j - 1 \in i + 1 .. Len(tail)
    BY <1>1, <2>1, <2>3
  <2>5. d <= i + j - 1
    BY <1>4, <2>2, <2>4 DEF OthersAfter
  <2> QED
    BY <1>1, <1>5, <2>1, <2>5
<1>10. I \subseteq Nat
  OBVIOUS
<1> HIDE DEF I
<1>11. Min(I) = d - i + 1
  <2>1. PICK x : x = d - i + 1
    OBVIOUS
  <2>2. x \in I /\ \A j \in I : x <= j
    BY <1>8, <1>9, <2>1
  <2> QED
    BY <1>10, <2>1, <2>2, LeastIs
<1>12. DropGroup(r) = Rest(r, d - i + 1)
  BY <1>6, <1>8, <1>11
<1>13. d - i + 1 \in 1 .. Len(tail) - i + 2 /\ i + (d - i + 1) - 1 = d
  BY <1>1, <1>5
<1>14. Rest(r, d - i + 1) = Rest(tail, i + (d - i + 1) - 1)
  BY <1>1, <1>2, <1>13, RestOfRest
<1> QED
  BY <1>2, <1>12, <1>13, <1>14

\* What is left of knowledge and tail: the n newest of the one, the other from item i.
Left(kb, tail, n, i) == [kb |-> Newest(kb, n), tail |-> Rest(tail, i)]

DropsKb(size, tail, n, i, most) == n # 0 /\ (4 * n > most \/ size + n + (Len(tail) - i + 1) > most)
Stays(size, tail, n, i, most) ==
  size + n + (Len(tail) - i + 1) <= most \/ tail = <<>> \/ Last(tail).group = tail[i].group

LEMMA AssembleOnceOfLeft ==
  ASSUME NEW S, NEW fixed, NEW kb \in Seq(S), NEW tail \in Seq(S), NEW most,
         NEW n \in 0 .. Len(kb), NEW i \in 1 .. Len(tail) + 1, i \in 1 .. Len(tail) \/ tail = <<>>
  PROVE  /\ DropsKb(Len(fixed), tail, n, i, most) =>
              AssembleOnce(fixed, Left(kb, tail, n, i), most) = Left(kb, tail, n - 1, i)
         /\ ~DropsKb(Len(fixed), tail, n, i, most) /\ Stays(Len(fixed), tail, n, i, most) =>
              AssembleOnce(fixed, Left(kb, tail, n, i), most) = Left(kb, tail, n, i)
         /\ ~DropsKb(Len(fixed), tail, n, i, most) /\ ~Stays(Len(fixed), tail, n, i, most) =>
              /\ OthersAfter(tail, i) # {} /\ i \in 1 .. Len(tail)
              /\ AssembleOnce(fixed, Left(kb, tail, n, i), most) = Left(kb, tail, n, Min(OthersAfter(tail, i)))
<1>1. Len(tail) \in Nat /\ Len(kb) \in Nat /\ n \in Nat /\ i \in Nat
  BY LenProperties
<1>2. PICK k, r, size : k = Newest(kb, n) /\ r = Rest(tail, i) /\ size = Len(fixed)
  OBVIOUS
<1>3. Len(k) = n /\ (n # 0 => k # <<>> /\ Tail(k) = Newest(kb, n - 1)) /\ k \in Seq(S)
  BY <1>2, NewestIs
<1>4. n = 0 => k = <<>>
  BY <1>3, EmptySeq
<1>5. r \in Seq(S) /\ Len(r) = Len(tail) - i + 1 /\ \A j \in 1 .. Len(tail) - i + 1 : r[j] = tail[i + j - 1]
  BY <1>2, RestIs
<1>6. tail = <<>> => r = <<>>
  BY <1>1, <1>5, EmptySeq
<1>7. tail # <<>> => r # <<>> /\ Last(r) = Last(tail) /\ r[1] = tail[i]
  <2> SUFFICES ASSUME tail # <<>> PROVE r # <<>> /\ Last(r) = Last(tail) /\ r[1] = tail[i]
    OBVIOUS
  <2>1. Len(r) >= 1 /\ Len(r) \in 1 .. Len(tail) - i + 1 /\ i + Len(r) - 1 = Len(tail)
        /\ 1 \in 1 .. Len(tail) - i + 1 /\ i + 1 - 1 = i
    BY <1>1, <1>5
  <2>2. r[Len(r)] = tail[Len(tail)] /\ r[1] = tail[i]
    BY <1>5, <2>1
  <2> QED
    BY <2>1, <2>2, EmptySeq DEF Last
<1>8. AssembleOnce(fixed, [kb |-> k, tail |-> r], most) =
        IF k # <<>> /\ (4 * Len(k) > most \/ size + Len(k) + Len(r) > most) THEN [kb |-> Tail(k), tail |-> r]
        ELSE IF size + Len(k) + Len(r) <= most \/ r = <<>> \/ Last(r).group = r[1].group THEN [kb |-> k, tail |-> r]
        ELSE [kb |-> k, tail |-> DropGroup(r)]
  <2>1. PICK l : l = [kb |-> k, tail |-> r]
    OBVIOUS
  <2>2. AssembleOnce(fixed, l, most) =
          IF l.kb # <<>> /\ (4 * Len(l.kb) > most \/ size + Len(l.kb) + Len(l.tail) > most)
            THEN [l EXCEPT !.kb = Tail(@)]
          ELSE IF \/ size + Len(l.kb) + Len(l.tail) <= most
                  \/ l.tail = <<>> \/ Last(l.tail).group = l.tail[1].group
            THEN l
          ELSE [l EXCEPT !.tail = DropGroup(@)]
    BY <1>2, Zenon DEF AssembleOnce
  <2>3. l.kb = k /\ l.tail = r
    BY <2>1
  <2>4. [l EXCEPT !.kb = Tail(@)] = [kb |-> Tail(k), tail |-> r]
    <3>1. PICK t : t = Tail(k)
      OBVIOUS
    <3>2. [l EXCEPT !.kb = t] = [kb |-> t, tail |-> r]
      BY <2>1
    <3> QED
      BY <2>3, <3>1, <3>2, Zenon
  <2>5. [l EXCEPT !.tail = DropGroup(@)] = [kb |-> k, tail |-> DropGroup(r)]
    BY <2>1
  <2> QED
    BY <2>1, <2>2, <2>3, <2>4, <2>5
<1>9. DropsKb(size, tail, n, i, most) <=> k # <<>> /\ (4 * Len(k) > most \/ size + Len(k) + Len(r) > most)
  BY <1>3, <1>4, <1>5 DEF DropsKb
<1>10. Stays(size, tail, n, i, most) <=> size + Len(k) + Len(r) <= most \/ r = <<>> \/ Last(r).group = r[1].group
  BY <1>3, <1>5, <1>6, <1>7 DEF Stays
<1>11. Left(kb, tail, n, i) = [kb |-> k, tail |-> r]
  BY <1>2 DEF Left
<1>12. ASSUME ~Stays(size, tail, n, i, most)
       PROVE  OthersAfter(tail, i) # {} /\ i \in 1 .. Len(tail) /\ DropGroup(r) = Rest(tail, Min(OthersAfter(tail, i)))
  <2>1. tail # <<>> /\ i \in 1 .. Len(tail) /\ Last(tail).group # tail[i].group
    BY <1>12 DEF Stays
  <2>2. Len(tail) \in OthersAfter(tail, i)
    BY <1>1, <2>1 DEF OthersAfter, Last
  <2> QED
    BY <1>2, <2>1, <2>2, DropGroupIs
<1> QED
  <2>1. CASE DropsKb(size, tail, n, i, most)
    <3>1. AssembleOnce(fixed, [kb |-> k, tail |-> r], most) = [kb |-> Tail(k), tail |-> r]
      BY <1>8, <1>9, <2>1
    <3>2. Tail(k) = Newest(kb, n - 1)
      BY <1>3, <2>1 DEF DropsKb
    <3> QED
      BY <1>2, <1>11, <2>1, <3>1, <3>2 DEF Left
  <2>2. CASE ~DropsKb(size, tail, n, i, most) /\ Stays(size, tail, n, i, most)
    BY <1>2, <1>8, <1>9, <1>10, <1>11, <2>2
  <2>3. CASE ~DropsKb(size, tail, n, i, most) /\ ~Stays(size, tail, n, i, most)
    <3>1. AssembleOnce(fixed, [kb |-> k, tail |-> r], most) = [kb |-> k, tail |-> DropGroup(r)]
      BY <1>8, <1>9, <1>10, <2>3
    <3> QED
      BY <1>2, <1>11, <1>12, <2>3, <3>1 DEF Left
  <2> QED
    BY <2>1, <2>2, <2>3

\* The fold of AssembleLoop, pass by pass.
AssemblesAt(f, A, fixed, kb, tail, most) ==
  /\ f \in [0 .. Len(kb \o tail) -> A] /\ f[0] = [kb |-> kb, tail |-> tail]
  /\ AssembleLoop(fixed, kb, tail, most) = fixed \o f[Len(kb \o tail)].kb \o f[Len(kb \o tail)].tail
  /\ \A i \in 1 .. Len(kb \o tail) : f[i] = AssembleOnce(fixed, f[i - 1], most)

LEMMA AssembleFold ==
  ASSUME NEW S, NEW fixed, NEW kb, NEW tail, kb \o tail \in Seq(S), NEW most,
         NEW A, [kb |-> kb, tail |-> tail] \in A, \A a \in A : AssembleOnce(fixed, a, most) \in A
  PROVE  \E f : AssemblesAt(f, A, fixed, kb, tail, most)
<1> DEFINE p == kb \o tail
           base == [kb |-> kb, tail |-> tail]
           st == [x \in A \X S |-> AssembleOnce(fixed, x[1], most)]
           Folds(g) == g = [s \in SUBSET (DOMAIN p) |->
                              IF s = {} THEN base ELSE AssembleOnce(fixed, g[s \ {Max(s)}], most)]
           fold == CHOOSE g : Folds(g)
<1>1. AssembleLoop(fixed, kb, tail, most) = fixed \o fold[DOMAIN p].kb \o fold[DOMAIN p].tail
  BY Zenon DEF AssembleLoop, FoldLeft, MapThenFoldSet
<1> HIDE DEF p, base
<1>2. p \in Seq(S) /\ base \in A
  BY DEF p, base
<1>3. DOMAIN p = 1 .. Len(p) /\ Len(p) \in Nat /\ \A i \in 1 .. Len(p) : p[i] \in S
  BY <1>2, LenProperties
<1>4. st \in [A \X S -> A] /\ \A a \in A, m \in S : st[<<a, m>>] = AssembleOnce(fixed, a, most)
  OBVIOUS
<1>5. Folds(fold)
  <2> HIDE DEF st
  <2>1. PICK g : Steps(g, A, S, st, base, p)
    BY <1>2, <1>4, FoldSteps
  <2>2. \A s \in SUBSET (DOMAIN p) : g[s] = IF s = {} THEN base ELSE AssembleOnce(fixed, g[s \ {Max(s)}], most)
    BY <1>4, <2>1 DEF Steps
  <2>3. Folds(g)
    BY <2>1, <2>2 DEF Steps
  <2> HIDE DEF Folds
  <2> QED BY <2>3, Zenon
<1>6. FoldsIn(fold, A, st, base, p, Len(p))
  <2> HIDE DEF fold, st
  <2>1. \A s \in SUBSET (1 .. Len(p)) : fold[s] = IF s = {} THEN base ELSE AssembleOnce(fixed, fold[s \ {Max(s)}], most)
    BY <1>3, <1>5
  <2>2. \A s \in SUBSET (1 .. Len(p)) : s # {} => Max(s) \in 1 .. Len(p)
    BY <1>3, GreatestIn
  <2> QED
    BY <1>3, <1>4, <2>1, <2>2 DEF FoldsIn
<1>7. PICK f : ValuesOf(f, A, st, base, p)
  <2> HIDE DEF st
  <2> QED BY <1>2, <1>4, Folding
<1>8. ASSUME NEW i \in 1 .. Len(p) PROVE f[i] = AssembleOnce(fixed, f[i - 1], most)
  <2>1. i - 1 \in 0 .. Len(p)
    BY <1>3
  <2> HIDE DEF st
  <2> QED
    BY <1>3, <1>4, <1>7, <2>1 DEF Folded, ValuesOf
<1> HIDE DEF st, fold, Folds
<1>9. f \in [0 .. Len(p) -> A] /\ f[0] = base /\ fold[DOMAIN p] = f[Len(p)]
  BY <1>3, <1>6, <1>7 DEF Folded, ValuesOf
<1> QED
  BY <1>1, <1>8, <1>9 DEF p, base, AssemblesAt

\* How much knowledge is kept.
KeptKB(size, kb, tail, most) == Max({0, Min({Len(kb), most \div 4, most - size - Len(tail)})})

LEMMA KeptKBIs ==
  ASSUME NEW S, NEW kb \in Seq(S), NEW tail \in Seq(S), NEW size \in Nat, NEW most \in Nat
  PROVE  /\ KeptKB(size, kb, tail, most) \in 0 .. Len(kb)
         /\ \A n \in Nat : KeptKB(size, kb, tail, most) >= n <=>
              n = 0 \/ (n <= Len(kb) /\ 4 * n <= most /\ size + n + Len(tail) <= most)
<1>1. PICK b, q, r : b = Len(kb) /\ q = most \div 4 /\ r = most - size - Len(tail)
  OBVIOUS
<1>2. b \in Nat /\ q \in Nat /\ r \in Int /\ Len(tail) \in Nat
  BY <1>1, LenProperties
<1>3. PICK T : T = {b, q, r}
  OBVIOUS
<1>4. Min(T) \in T /\ \A x \in T : Min(T) <= x
  <2>1. \E x \in T : \A y \in T : x <= y
    BY <1>2, <1>3
  <2> QED
    BY <2>1, Zenon DEF Min
<1>5. PICK least : least = Min(T)
  OBVIOUS
<1>6. least \in Int /\ least \in {b, q, r} /\ least <= b /\ least <= q /\ least <= r
  BY <1>2, <1>3, <1>4, <1>5
<1>7. PICK Z : Z = {0, least}
  OBVIOUS
<1>8. Max(Z) \in Z /\ \A x \in Z : Max(Z) >= x
  <2>1. \E x \in Z : \A y \in Z : x >= y
    BY <1>6, <1>7
  <2> QED
    BY <2>1, Zenon DEF Max
<1>9. PICK K : K = Max(Z)
  OBVIOUS
<1>10. K \in {0, least} /\ K >= 0 /\ K >= least /\ K \in Int
  BY <1>6, <1>7, <1>8, <1>9
<1>11. KeptKB(size, kb, tail, most) = K
  BY <1>1, <1>3, <1>5, <1>7, <1>9 DEF KeptKB
<1>12. \A n \in Nat : n <= q <=> 4 * n <= most
  BY <1>1
<1>13. \A n \in Nat : n <= r <=> size + n + Len(tail) <= most
  BY <1>1, <1>2
<1>14. \A n \in Nat : K >= n <=> n = 0 \/ (n <= b /\ n <= q /\ n <= r)
  BY <1>2, <1>6, <1>10
<1>15. K \in 0 .. Len(kb)
  BY <1>1, <1>2, <1>6, <1>10
<1> QED
  BY <1>1, <1>11, <1>12, <1>13, <1>14, <1>15

\* The turns that begin before the last one, and fit with all that follows them.
LastTurn(tail) == Min({i \in TurnStarts(tail) : tail[i].group = Last(tail).group})
FitsFrom(tail, room) == {i \in TurnStarts(tail) : i < LastTurn(tail) /\ Len(tail) - i + 1 <= room}

LEMMA LastTurnIs ==
  ASSUME NEW S, NEW tail \in Seq(S), tail # <<>>
  PROVE  /\ LastTurn(tail) \in TurnStarts(tail) /\ tail[LastTurn(tail)].group = Last(tail).group
         /\ \A i \in TurnStarts(tail) : tail[i].group = Last(tail).group => LastTurn(tail) <= i
         /\ TurnStarts(tail) \subseteq 1 .. Len(tail) /\ 1 \in TurnStarts(tail)
<1>1. Len(tail) \in Nat /\ Len(tail) >= 1
  BY EmptySeq, LenProperties
<1> DEFINE G == {i \in 1 .. Len(tail) : tail[i].group = Last(tail).group}
<1>2. PICK T : T = {i \in TurnStarts(tail) : tail[i].group = Last(tail).group}
  OBVIOUS
<1>3. PICK i : i \in G /\ \A j \in G : i <= j
  <2>1. Len(tail) \in G /\ G \subseteq Nat
    BY <1>1 DEF Last
  <2> HIDE DEF G
  <2> QED
    BY <2>1, LeastIn
<1>4. i \in TurnStarts(tail)
  <2>1. CASE i = 1
    BY <1>3, <2>1 DEF TurnStarts
  <2>2. CASE i # 1
    <3>1. i - 1 \in 1 .. Len(tail) /\ ~(i <= i - 1)
      BY <1>1, <1>3, <2>2
    <3>2. tail[i - 1].group # Last(tail).group
      BY <1>3, <3>1
    <3> QED
      BY <1>3, <3>2 DEF TurnStarts
  <2> QED
    BY <2>1, <2>2
<1>5. T \subseteq Nat /\ i \in T
  BY <1>1, <1>2, <1>3, <1>4 DEF TurnStarts
<1>6. Min(T) \in T /\ \A j \in T : Min(T) <= j
  BY <1>5, LeastIn
<1>7. LastTurn(tail) = Min(T)
  BY <1>2 DEF LastTurn
<1>8. TurnStarts(tail) \subseteq 1 .. Len(tail) /\ 1 \in TurnStarts(tail)
  BY <1>1 DEF TurnStarts
<1> QED
  BY <1>2, <1>6, <1>7, <1>8

LEMMA KeepTurnsIs ==
  ASSUME NEW S, NEW tail \in Seq(S), NEW room
  PROVE  KeepTurnsFrom(tail, room) =
           IF tail = <<>> THEN tail ELSE Rest(tail, Min(FitsFrom(tail, room) \cup {LastTurn(tail)}))
<1> DEFINE starts == {i \in DOMAIN tail : i = 1 \/ tail[i].group # tail[i-1].group}
           last == Min({i \in starts : tail[i].group = Last(tail).group})
           fits == {i \in starts : i < last /\ Len(tail) - i + 1 <= room}
<1>1. KeepTurnsFrom(tail, room) = IF tail = <<>> THEN tail ELSE Rest(tail, Min(fits \cup {last}))
  BY Zenon DEF KeepTurnsFrom, Rest
<1>2. starts = TurnStarts(tail)
  BY LenProperties DEF TurnStarts
<1>3. last = LastTurn(tail) /\ fits = FitsFrom(tail, room)
  BY <1>2, Zenon DEF LastTurn, FitsFrom
<1> HIDE DEF starts, last, fits
<1> QED
  BY <1>1, <1>3

\* The loop may get here: at least what is kept of knowledge is left, all of it went before the first turn
\* did, and no longer tail fits.
MayBeLeft(size, kb, tail, most, n, i) ==
  /\ n \in 0 .. Len(kb) /\ i \in 1 .. Len(tail) + 1 /\ n >= KeptKB(size, kb, tail, most)
  /\ (i \in TurnStarts(tail) /\ i <= LastTurn(tail)) \/ (tail = <<>> /\ i = 1)
  /\ i # 1 => n = 0
  /\ \A j \in TurnStarts(tail) : j < i => ~(size + (Len(tail) - j + 1) <= most)

LEMMA LessKnowledge ==
  ASSUME NEW S, NEW kb \in Seq(S), NEW tail \in Seq(S), NEW size \in Nat, NEW most \in Nat, NEW n, NEW i,
         MayBeLeft(size, kb, tail, most, n, i), DropsKb(size, tail, n, i, most)
  PROVE  MayBeLeft(size, kb, tail, most, n - 1, i)
<1>1. Len(tail) \in Nat /\ Len(kb) \in Nat /\ n \in Nat /\ n # 0 /\ i = 1
  BY LenProperties DEF MayBeLeft, DropsKb
<1>2. 4 * n > most \/ size + n + (Len(tail) - i + 1) > most
  BY DEF DropsKb
<1>3. ~(4 * n <= most /\ size + n + Len(tail) <= most)
  BY <1>1, <1>2
<1>4. PICK K : K = KeptKB(size, kb, tail, most)
  OBVIOUS
<1>5. K \in 0 .. Len(kb) /\ (K >= n <=> n = 0 \/ (n <= Len(kb) /\ 4 * n <= most /\ size + n + Len(tail) <= most))
  BY <1>1, <1>4, KeptKBIs
<1>6. n - 1 >= K /\ n - 1 \in 0 .. Len(kb)
  BY <1>1, <1>3, <1>5 DEF MayBeLeft
<1> QED
  BY <1>1, <1>4, <1>6 DEF MayBeLeft

LEMMA LessTail ==
  ASSUME NEW S, NEW kb \in Seq(S), NEW tail \in Seq(S), NEW size \in Nat, NEW most \in Nat, NEW n, NEW i,
         MayBeLeft(size, kb, tail, most, n, i), ~DropsKb(size, tail, n, i, most), ~Stays(size, tail, n, i, most),
         OthersAfter(tail, i) # {}, NEW d, d = Min(OthersAfter(tail, i))
  PROVE  MayBeLeft(size, kb, tail, most, n, d) /\ d > i
<1>1. Len(tail) \in Nat /\ Len(kb) \in Nat /\ n \in Nat /\ i \in Nat /\ n \in 0 .. Len(kb)
  BY LenProperties DEF MayBeLeft
<1>2. /\ tail # <<>> /\ Last(tail).group # tail[i].group /\ ~(size + n + (Len(tail) - i + 1) <= most)
      /\ n = 0 \/ ~(size + n + (Len(tail) - i + 1) > most)
  BY DEF Stays, DropsKb
<1>3. n = 0 /\ ~(size + (Len(tail) - i + 1) <= most)
  BY <1>1, <1>2
<1>4. PICK last : last = LastTurn(tail)
  OBVIOUS
<1>5. /\ last \in TurnStarts(tail) /\ tail[last].group = Last(tail).group
      /\ TurnStarts(tail) \subseteq 1 .. Len(tail)
  BY <1>2, <1>4, LastTurnIs
<1>6. i \in TurnStarts(tail) /\ i <= last
  BY <1>2, <1>4 DEF MayBeLeft
<1>7. i \in 1 .. Len(tail)
  BY <1>5, <1>6
<1>8. /\ d \in i + 1 .. Len(tail) /\ d \in TurnStarts(tail)
      /\ \A j \in i + 1 .. d - 1 : j \notin TurnStarts(tail)
  BY <1>7, NextTurn
<1>9. d <= last
  <2>1. last # i /\ last \in Nat
    BY <1>1, <1>2, <1>5
  <2>2. ~(last \in i + 1 .. d - 1)
    BY <1>5, <1>8
  <2> QED
    BY <1>1, <1>6, <1>8, <2>1, <2>2
<1>10. ASSUME NEW j \in TurnStarts(tail), j < d PROVE ~(size + (Len(tail) - j + 1) <= most)
  <2>1. j \in Nat /\ ~(j \in i + 1 .. d - 1)
    BY <1>5, <1>8
  <2>2. j < i \/ j = i
    BY <1>1, <1>8, <1>10, <2>1
  <2>3. CASE j < i
    BY <2>3 DEF MayBeLeft
  <2>4. CASE j = i
    BY <1>3, <2>4
  <2> QED
    BY <2>2, <2>3, <2>4
<1>11. d \in 1 .. Len(tail) + 1 /\ d > i
  BY <1>1, <1>8
<1> QED
  BY <1>3, <1>4, <1>8, <1>9, <1>10, <1>11 DEF MayBeLeft

\* After k passes this much stays, or k items went at least.
Assembled(size, kb, tail, most, a, k) ==
  \E n, i :
    /\ MayBeLeft(size, kb, tail, most, n, i) /\ a = Left(kb, tail, n, i)
    /\ \/ ~DropsKb(size, tail, n, i, most) /\ Stays(size, tail, n, i, most)
       \/ (Len(kb) - n) + (i - 1) >= k

LEMMA AssembledStep ==
  ASSUME NEW S, NEW fixed, Len(fixed) \in Nat, NEW kb \in Seq(S), NEW tail \in Seq(S), NEW most \in Nat,
         NEW a, NEW k \in Nat, Assembled(Len(fixed), kb, tail, most, a, k)
  PROVE  Assembled(Len(fixed), kb, tail, most, AssembleOnce(fixed, a, most), k + 1)
<1>1. PICK size : size = Len(fixed)
  OBVIOUS
<1>2. PICK n, i :
        /\ MayBeLeft(size, kb, tail, most, n, i) /\ a = Left(kb, tail, n, i)
        /\ \/ ~DropsKb(size, tail, n, i, most) /\ Stays(size, tail, n, i, most)
           \/ (Len(kb) - n) + (i - 1) >= k
  BY <1>1 DEF Assembled
<1>3. /\ Len(tail) \in Nat /\ Len(kb) \in Nat /\ n \in 0 .. Len(kb) /\ i \in 1 .. Len(tail) + 1
      /\ i \in TurnStarts(tail) \/ tail = <<>>
  BY <1>2, LenProperties DEF MayBeLeft
<1>4. i \in 1 .. Len(tail) \/ tail = <<>>
  BY <1>3 DEF TurnStarts
<1>5. PICK b : b = AssembleOnce(fixed, a, most)
  OBVIOUS
<1>6. /\ DropsKb(size, tail, n, i, most) => b = Left(kb, tail, n - 1, i)
      /\ ~DropsKb(size, tail, n, i, most) /\ Stays(size, tail, n, i, most) => b = Left(kb, tail, n, i)
      /\ ~DropsKb(size, tail, n, i, most) /\ ~Stays(size, tail, n, i, most) =>
           OthersAfter(tail, i) # {} /\ b = Left(kb, tail, n, Min(OthersAfter(tail, i)))
  BY <1>1, <1>2, <1>3, <1>4, <1>5, AssembleOnceOfLeft
<1>7. CASE DropsKb(size, tail, n, i, most)
  <2>1. MayBeLeft(size, kb, tail, most, n - 1, i)
    BY <1>1, <1>2, <1>7, LessKnowledge
  <2>2. (Len(kb) - (n - 1)) + (i - 1) >= k + 1
    BY <1>2, <1>3, <1>7
  <2> QED
    BY <1>1, <1>5, <1>6, <1>7, <2>1, <2>2 DEF Assembled
<1>8. CASE ~DropsKb(size, tail, n, i, most) /\ Stays(size, tail, n, i, most)
  BY <1>1, <1>2, <1>5, <1>6, <1>8 DEF Assembled
<1>9. CASE ~DropsKb(size, tail, n, i, most) /\ ~Stays(size, tail, n, i, most)
  <2>1. PICK d : d = Min(OthersAfter(tail, i))
    OBVIOUS
  <2>2. OthersAfter(tail, i) # {} /\ b = Left(kb, tail, n, d)
    BY <1>6, <1>9, <2>1
  <2>3. MayBeLeft(size, kb, tail, most, n, d) /\ d > i
    BY <1>1, <1>2, <1>9, <2>1, <2>2, LessTail
  <2>4. d \in Nat
    BY <1>3, <2>3 DEF MayBeLeft
  <2>5. (Len(kb) - n) + (d - 1) >= k + 1
    BY <1>2, <1>3, <1>9, <2>3, <2>4
  <2> QED
    BY <1>1, <1>5, <2>2, <2>3, <2>5 DEF Assembled
<1> QED
  BY <1>7, <1>8, <1>9

LEMMA AssembledEnd ==
  ASSUME NEW S, NEW size \in Nat, NEW kb \in Seq(S), NEW tail \in Seq(S), NEW most \in Nat,
         NEW a, Assembled(size, kb, tail, most, a, Len(kb) + Len(tail)),
         NEW K, K = KeptKB(size, kb, tail, most)
  PROVE  a.kb = Newest(kb, K) /\ a.tail = KeepTurnsFrom(tail, most - size - K)
<1>1. PICK n, i :
        /\ MayBeLeft(size, kb, tail, most, n, i) /\ a = Left(kb, tail, n, i)
        /\ \/ ~DropsKb(size, tail, n, i, most) /\ Stays(size, tail, n, i, most)
           \/ (Len(kb) - n) + (i - 1) >= Len(kb) + Len(tail)
  BY DEF Assembled
<1>2. /\ Len(tail) \in Nat /\ Len(kb) \in Nat /\ n \in 0 .. Len(kb) /\ i \in 1 .. Len(tail) + 1 /\ n >= K
      /\ (i \in TurnStarts(tail) /\ i <= LastTurn(tail)) \/ (tail = <<>> /\ i = 1)
      /\ i # 1 => n = 0
      /\ \A j \in TurnStarts(tail) : j < i => ~(size + (Len(tail) - j + 1) <= most)
  BY <1>1, LenProperties DEF MayBeLeft
<1>3. K \in 0 .. Len(kb) /\ (K >= n <=> n = 0 \/ (n <= Len(kb) /\ 4 * n <= most /\ size + n + Len(tail) <= most))
  <2>1. /\ KeptKB(size, kb, tail, most) \in 0 .. Len(kb)
        /\ \A m \in Nat : KeptKB(size, kb, tail, most) >= m <=>
             m = 0 \/ (m <= Len(kb) /\ 4 * m <= most /\ size + m + Len(tail) <= most)
    BY KeptKBIs
  <2>2. n \in Nat
    BY <1>2
  <2> QED
    BY <2>1, <2>2
<1>4. ~DropsKb(size, tail, n, i, most) /\ Stays(size, tail, n, i, most)
  <2>1. CASE (Len(kb) - n) + (i - 1) >= Len(kb) + Len(tail)
    <3>1. i \in TurnStarts(tail) => i <= Len(tail)
      BY DEF TurnStarts
    <3>2. i >= Len(tail) + 1
      BY <1>2, <2>1
    <3>3. tail = <<>> /\ i = 1
      BY <1>2, <3>1, <3>2
    <3>4. Len(tail) = 0
      BY <3>3, EmptySeq
    <3>5. n = 0
      BY <1>2, <2>1, <3>3, <3>4
    <3> QED
      BY <3>3, <3>5 DEF DropsKb, Stays
  <2> QED
    BY <1>1, <2>1
<1>5. n = K
  <2>1. CASE n = 0
    BY <1>2, <1>3, <2>1
  <2>2. CASE n # 0
    <3>1. i = 1 /\ 4 * n <= most /\ size + n + (Len(tail) - i + 1) <= most
      BY <1>2, <1>4, <2>2 DEF DropsKb
    <3>2. size + n + Len(tail) <= most
      BY <1>2, <3>1
    <3> QED
      BY <1>2, <1>3, <3>1, <3>2
  <2> QED
    BY <2>1, <2>2
<1>6. Rest(tail, i) = KeepTurnsFrom(tail, most - size - K)
  <2>1. CASE tail = <<>>
    <3>1. i = 1
      BY <1>2, <2>1, EmptySeq
    <3>2. Rest(tail, 1) = tail
      BY RestWhole
    <3> QED
      BY <2>1, <3>1, <3>2, KeepTurnsIs
  <2>2. CASE tail # <<>>
    <3>1. PICK last, F : last = LastTurn(tail) /\ F = FitsFrom(tail, most - size - K)
      OBVIOUS
    <3>2. /\ last \in TurnStarts(tail) /\ tail[last].group = Last(tail).group
          /\ \A j \in TurnStarts(tail) : tail[j].group = Last(tail).group => last <= j
          /\ TurnStarts(tail) \subseteq 1 .. Len(tail)
      BY <2>2, <3>1, LastTurnIs
    <3>3. i \in TurnStarts(tail) /\ i <= last /\ i \in Nat /\ last \in Nat
      BY <1>2, <2>2, <3>1, <3>2
    <3>a. \A x \in Nat : Len(tail) - x + 1 <= most - size - K <=> size + K + (Len(tail) - x + 1) <= most
      <4>1. Len(tail) \in Nat /\ K \in Nat
        BY <1>2, <1>3
      <4> QED
        BY <4>1
    <3>4. ASSUME NEW x \in F
          PROVE  x \in TurnStarts(tail) /\ x < last /\ x \in Nat /\ size + K + (Len(tail) - x + 1) <= most
      <4>1. x \in TurnStarts(tail) /\ x < last /\ Len(tail) - x + 1 <= most - size - K
        BY <3>1 DEF FitsFrom
      <4>2. x \in Nat
        BY <3>2, <4>1
      <4> QED
        BY <3>a, <4>1, <4>2
    <3>5. ASSUME NEW x \in TurnStarts(tail), x < last, size + K + (Len(tail) - x + 1) <= most PROVE x \in F
      <4>1. x \in Nat
        BY <3>2
      <4>2. Len(tail) - x + 1 <= most - size - K
        BY <3>a, <3>5, <4>1
      <4> QED
        BY <3>1, <3>5, <4>2 DEF FitsFrom
    <3>6. i \in F \cup {last}
      <4>1. CASE size + n + (Len(tail) - i + 1) <= most
        BY <1>5, <3>3, <3>5, <4>1
      <4>2. CASE Last(tail).group = tail[i].group
        BY <3>2, <3>3, <4>2
      <4> QED
        BY <1>4, <2>2, <4>1, <4>2 DEF Stays
    <3>7. ASSUME NEW x \in F \cup {last} PROVE i <= x
      <4>1. CASE x = last
        BY <3>3, <4>1
      <4>2. CASE x \in F
        <5>1. x \in TurnStarts(tail) /\ x \in Nat /\ size + (Len(tail) - x + 1) <= most
          BY <1>2, <1>3, <3>4, <4>2, SMTT(40)
        <5>2. ~(x < i)
          BY <1>2, <5>1
        <5> QED
          BY <3>3, <5>1, <5>2
      <4> QED
        BY <4>1, <4>2
    <3>8. F \cup {last} \subseteq Nat
      BY <3>3, <3>4
    <3>9. PICK T : T = F \cup {last}
      OBVIOUS
    <3>10. Min(T) = i
      BY <3>6, <3>7, <3>8, <3>9, LeastIs
    <3> QED
      BY <2>2, <3>1, <3>9, <3>10, KeepTurnsIs
  <2> QED
    BY <2>1, <2>2
<1> QED
  BY <1>1, <1>5, <1>6 DEF Left

\* Whatever the lists and the limit, the loops end with the knowledge and the turns that Assemble keeps.
LEMMA AssembleLoopIs ==
  ASSUME NEW S, NEW fixed \in Seq(S), NEW kb \in Seq(S), NEW tail \in Seq(S), NEW most \in Nat
  PROVE  AssembleLoop(fixed, kb, tail, most) =
           fixed \o Newest(kb, KeptKB(Len(fixed), kb, tail, most))
             \o KeepTurnsFrom(tail, most - Len(fixed) - KeptKB(Len(fixed), kb, tail, most))
<1>0. Len(fixed) \in Nat
  BY LenProperties
<1>1. PICK size, K : size = Len(fixed) /\ size \in Nat /\ K = KeptKB(size, kb, tail, most)
  BY <1>0
<1>2. Len(tail) \in Nat /\ Len(kb) \in Nat /\ kb \o tail \in Seq(S) /\ Len(kb \o tail) = Len(kb) + Len(tail)
  BY LenProperties, ConcatProperties
<1> DEFINE A == {a \in {Left(kb, tail, n, i) : n \in 0 .. Len(kb), i \in 1 .. Len(tail) + 1} :
                   \E n, i : MayBeLeft(size, kb, tail, most, n, i) /\ a = Left(kb, tail, n, i)}
<1>3. \A a \in A : \E n, i : MayBeLeft(size, kb, tail, most, n, i) /\ a = Left(kb, tail, n, i)
  OBVIOUS
<1>4. ASSUME NEW n, NEW i, MayBeLeft(size, kb, tail, most, n, i) PROVE Left(kb, tail, n, i) \in A
  BY <1>4 DEF MayBeLeft
<1> HIDE DEF A
<1>5. PICK base : base = [kb |-> kb, tail |-> tail]
  OBVIOUS
<1>6. MayBeLeft(size, kb, tail, most, Len(kb), 1) /\ base = Left(kb, tail, Len(kb), 1)
  <2>1. base = Left(kb, tail, Len(kb), 1)
    <3>1. Newest(kb, Len(kb)) = kb /\ Rest(tail, 1) = tail
      BY <1>2, NewestIs, RestWhole
    <3> QED
      BY <1>5, <3>1 DEF Left
  <2>2. KeptKB(size, kb, tail, most) \in 0 .. Len(kb)
    BY <1>1, KeptKBIs
  <2>3. (1 \in TurnStarts(tail) /\ 1 <= LastTurn(tail)) \/ (tail = <<>> /\ 1 = 1)
    BY <1>2, LastTurnIs
  <2>4. \A j \in TurnStarts(tail) : ~(j < 1)
    BY DEF TurnStarts
  <2> QED
    BY <1>2, <2>1, <2>2, <2>3, <2>4 DEF MayBeLeft
<1>7. base \in A
  BY <1>4, <1>6
<1>8. ASSUME NEW a \in A PROVE AssembleOnce(fixed, a, most) \in A
  <2>1. PICK n, i : MayBeLeft(size, kb, tail, most, n, i) /\ a = Left(kb, tail, n, i)
    BY <1>3
  <2>2. n \in 0 .. Len(kb) /\ i \in 1 .. Len(tail) + 1
    BY <2>1 DEF MayBeLeft
  <2>3. (Len(kb) - n) + (i - 1) >= 0
    BY <1>2, <2>2
  <2>4. Assembled(size, kb, tail, most, a, 0)
    BY <2>1, <2>3 DEF Assembled
  <2>5. Assembled(size, kb, tail, most, AssembleOnce(fixed, a, most), 0 + 1)
    BY <1>0, <1>1, <2>4, AssembledStep
  <2> QED
    BY <1>4, <2>5 DEF Assembled
<1>9. PICK f : AssemblesAt(f, A, fixed, kb, tail, most)
  BY <1>2, <1>5, <1>7, <1>8, AssembleFold
<1>10. PICK N : N = Len(kb \o tail)
  OBVIOUS
<1> DEFINE T == {k \in 0 .. N : Assembled(size, kb, tail, most, f[k], k)}
<1>11. N \in Nat /\ N = Len(kb) + Len(tail)
  BY <1>2, <1>10
<1>12. 0 \in T
  <2>1. f[0] = Left(kb, tail, Len(kb), 1) /\ 0 \in 0 .. N
    BY <1>5, <1>6, <1>9, <1>11 DEF AssemblesAt
  <2>2. (Len(kb) - Len(kb)) + (1 - 1) >= 0
    BY <1>2
  <2> QED
    BY <1>6, <2>1, <2>2 DEF Assembled
<1>13. ASSUME NEW k \in 1 .. N, k - 1 \in T PROVE k \in T
  <2>1. k - 1 \in Nat /\ k - 1 + 1 = k /\ k \in 0 .. N
    BY <1>11
  <2>2. Assembled(size, kb, tail, most, f[k - 1], k - 1)
    BY <1>13
  <2>3. Assembled(size, kb, tail, most, AssembleOnce(fixed, f[k - 1], most), k - 1 + 1)
    BY <1>0, <1>1, <2>1, <2>2, AssembledStep
  <2>4. f[k] = AssembleOnce(fixed, f[k - 1], most)
    BY <1>9, <1>10 DEF AssemblesAt
  <2> QED
    BY <2>1, <2>3, <2>4
<1>14. N \in 0 .. N
  BY <1>11
<1> HIDE DEF T
<1>15. N \in T
  BY <1>11, <1>12, <1>13, <1>14, UpTo
<1>16. Assembled(size, kb, tail, most, f[N], Len(kb) + Len(tail))
  BY <1>11, <1>15 DEF T
<1>17. f[N].kb = Newest(kb, K) /\ f[N].tail = KeepTurnsFrom(tail, most - size - K)
  BY <1>1, <1>16, AssembledEnd
<1> QED
  BY <1>1, <1>9, <1>10, <1>17 DEF AssemblesAt

WithKind(kept, it, kind) == IF it.kind = kind THEN Append(kept, it) ELSE kept

\* The items of a kind are items.
LEMMA OfKindType ==
  ASSUME NEW S, NEW p \in Seq(S), NEW kind
  PROVE  OfKind(p, kind) \in Seq(S)
<1> DEFINE A == Seq(S)
           st == [x \in A \X S |-> WithKind(x[1], x[2], kind)]
           Folds(g) == g = [s \in SUBSET (DOMAIN p) |->
                              IF s = {} THEN <<>> ELSE WithKind(g[s \ {Max(s)}], p[Max(s)], kind)]
           fold == CHOOSE g : Folds(g)
<1>1. OfKind(p, kind) = fold[DOMAIN p]
  BY Zenon DEF OfKind, WithKind, FoldLeft, MapThenFoldSet
<1>2. DOMAIN p = 1 .. Len(p) /\ Len(p) \in Nat /\ \A i \in 1 .. Len(p) : p[i] \in S
  BY LenProperties
<1>3. <<>> \in A /\ \A a \in A, m \in S : WithKind(a, m, kind) \in A
  BY EmptySeq, AppendProperties DEF WithKind
<1> HIDE DEF A
<1>4. st \in [A \X S -> A] /\ \A a \in A, m \in S : st[<<a, m>>] = WithKind(a, m, kind)
  BY <1>3
<1>5. Folds(fold)
  <2> HIDE DEF st
  <2>1. PICK g : Steps(g, A, S, st, <<>>, p)
    BY <1>3, <1>4, FoldSteps
  <2>2. \A s \in SUBSET (DOMAIN p) : g[s] = IF s = {} THEN <<>> ELSE WithKind(g[s \ {Max(s)}], p[Max(s)], kind)
    BY <1>4, <2>1 DEF Steps
  <2>3. Folds(g)
    BY <2>1, <2>2 DEF Steps
  <2> HIDE DEF Folds
  <2> QED BY <2>3, Zenon
<1>6. FoldsIn(fold, A, st, <<>>, p, Len(p))
  <2> HIDE DEF fold, st
  <2>1. \A s \in SUBSET (1 .. Len(p)) : fold[s] = IF s = {} THEN <<>> ELSE WithKind(fold[s \ {Max(s)}], p[Max(s)], kind)
    BY <1>2, <1>5
  <2>2. \A s \in SUBSET (1 .. Len(p)) : s # {} => Max(s) \in 1 .. Len(p)
    BY <1>2, GreatestIn
  <2> QED
    BY <1>2, <1>4, <2>1, <2>2 DEF FoldsIn
<1>7. PICK f : ValuesOf(f, A, st, <<>>, p)
  <2> HIDE DEF st
  <2> QED BY <1>3, <1>4, Folding
<1> HIDE DEF st, fold, Folds
<1>8. f \in [0 .. Len(p) -> A] /\ fold[DOMAIN p] = f[Len(p)] /\ Len(p) \in 0 .. Len(p)
  BY <1>2, <1>6, <1>7 DEF Folded, ValuesOf
<1> QED
  BY <1>1, <1>8 DEF A

LEMMA AssembleIs ==
  ASSUME NEW S, NEW list \in Seq(S), NEW most \in Nat, most # 0
  PROVE  Assemble(list, most) =
           AssembleLoop(OfKind(list, "system") \o OfKind(list, "pin") \o OfKind(list, "summary"),
                        OfKind(list, "kb"), OfKind(list, "turn"), most)
<1> DEFINE fixed == OfKind(list, "system") \o OfKind(list, "pin") \o OfKind(list, "summary")
           kb == OfKind(list, "kb")
           tail == OfKind(list, "turn")
           K == KeptKB(Len(fixed), kb, tail, most)
<1>1. kb \in Seq(S) /\ tail \in Seq(S) /\ fixed \in Seq(S)
  <2>1. \A kind : OfKind(list, kind) \in Seq(S)
    BY OfKindType
  <2>2. \A s, t \in Seq(S) : s \o t \in Seq(S)
    BY ConcatProperties
  <2> QED
    BY <2>1, <2>2, Zenon
<1>2. Assemble(list, most) = fixed \o Newest(kb, K) \o KeepTurnsFrom(tail, most - Len(fixed) - K)
  BY Zenon DEF Assemble, KeptKB
<1> HIDE DEF fixed, kb, tail
<1>3. AssembleLoop(fixed, kb, tail, most) = fixed \o Newest(kb, K) \o KeepTurnsFrom(tail, most - Len(fixed) - K)
  BY <1>1, AssembleLoopIs
<1> QED
  BY <1>2, <1>3 DEF fixed, kb, tail

\* For every conversation and every limit, the prompt that the loops of trimMessages and Assemble end with
\* is the one that Prompt says at once: the longest cut that fits, and the most knowledge and then the
\* longest tail of whole turns that fit.
-----------------------------------------------------------------------------
(* The conversations of PromptAlgorithms.                                   *)

PromptInv ==
  /\ conversation \in Seq(ItemsOf(Message)) /\ conversation # <<>>
  /\ rewritten \in Seq(Message) /\ allowed \in Nat

LEMMA AdditionsType == \A a \in Additions : a[1] \in Message
<1>1. \A r \in Roles, t \in Contents, n \in {0, 1} : Msg(r, t, n) \in Message
  BY DEF Msg, Message
<1>2. /\ Msg("user", "question", 1) \in Message /\ Msg("assistant", "reply", 1) \in Message
      /\ Msg("tool", "output", 0) \in Message /\ Msg("user", "pinned", 1) \in Message
      /\ Msg("user", "knowledge", 0) \in Message /\ Msg("user", "summary", 1) \in Message
  BY <1>1 DEF Roles, Contents
<1> TAKE a \in Additions
<1>3. \E m, via : m \in Message /\ a = <<m, via>>
  BY <1>2, Zenon DEF Additions
<1>4. PICK m, via : m \in Message /\ a = <<m, via>>
  BY <1>3
<1> QED
  BY <1>4

LEMMA PromptInvariance == PromptSpec => []PromptInv
<1>1. PromptInit => PromptInv
  <2>1. Item(Msg("system", "prompt", 1), "system", 0) \in ItemsOf(Message)
    BY DEF Item, ItemsOf, ItemKinds, Msg, Message, Roles, Contents
  <2>2. PromptInit => conversation \in Seq(ItemsOf(Message)) /\ conversation # <<>>
    BY <2>1 DEF PromptInit
  <2>3. PromptInit => rewritten \in Seq(Message)
    BY EmptySeq DEF PromptInit
  <2>4. PromptInit => allowed \in Nat
    <3>1. MaxLimit \in Nat
      BY BoundsOK DEF BoundsOK
    <3> QED
      BY <3>1 DEF PromptInit
  <2> QED
    BY <2>2, <2>3, <2>4 DEF PromptInv
<1>2. PromptInv /\ [PromptNext]_promptVars => PromptInv'
  <2> SUFFICES ASSUME PromptInv, [PromptNext]_promptVars PROVE PromptInv'
    OBVIOUS
  <2>1. CASE Grow
    <3>1. PICK a \in Additions, opens \in {0, 1} :
            conversation' = Append(conversation, Item(a[1], ClassifyItem(a[1], a[2]), Last(conversation).group + opens))
      BY <2>1 DEF Grow
    <3>2. Last(conversation) \in ItemsOf(Message)
      BY FrontLast DEF PromptInv
    <3>3. Last(conversation).group + opens \in Nat
      BY <3>2 DEF ItemsOf
    <3>4. a[1] \in Message /\ ClassifyItem(a[1], a[2]) \in ItemKinds
      BY AdditionsType, ClassifyType
    <3>5. Item(a[1], ClassifyItem(a[1], a[2]), Last(conversation).group + opens) \in ItemsOf(Message)
      BY <3>3, <3>4 DEF Item, ItemsOf
    <3>6. conversation' \in Seq(ItemsOf(Message)) /\ conversation' # <<>>
      BY <3>1, <3>5, AppendProperties DEF PromptInv
    <3> QED
      BY <2>1, <3>6 DEF PromptInv, Grow
  <2>2. CASE RewriteTo
    <3>1. PICK m \in ToSet(Messages(conversation)) \cup {Msg("user", "correction", 0)} : rewritten' = Append(rewritten, m)
      BY <2>2 DEF RewriteTo
    <3>2. Messages(conversation) \in Seq(Message)
      BY MessagesType DEF PromptInv
    <3>3. ToSet(Messages(conversation)) \subseteq Message
      BY <3>2 DEF ToSet
    <3>4. Msg("user", "correction", 0) \in Message
      BY DEF Msg, Message, Roles, Contents
    <3> QED
      BY <2>2, <3>1, <3>3, <3>4, AppendProperties DEF PromptInv, RewriteTo
  <2>3. CASE UNCHANGED promptVars
    BY <2>3 DEF PromptInv, promptVars
  <2> QED
    BY <2>1, <2>2, <2>3 DEF PromptNext
<1> QED
  BY <1>1, <1>2, PTL DEF PromptSpec

\* A rewrite recorded as ops, applied to the items as they were, gives exactly the new messages, whatever
\* was kept, dropped, moved, repeated or added (logRewriteWith, applyRewriteOps): what is rebuilt from the
\* log after a rewrite is the history the rewrite made.
THEOREM RewritesAreExact == PromptSpec => []OpsGiveTheNewHistory
<1>1. PromptInv => OpsGiveTheNewHistory
  BY OpsGiveBack DEF PromptInv, OpsGiveTheNewHistory
<1> QED
  BY <1>1, PromptInvariance, PTL

THEOREM LoopsAreClosedForms == PromptSpec => []ClosedFormsAreLoops
<1>1. PromptInv => TrimIsLoop
  BY MessagesType, TrimLoopIs DEF PromptInv, TrimIsLoop
<1>2. PromptInv => AssembleIsLoop
  <2> SUFFICES ASSUME PromptInv, allowed # 0 PROVE
          Assemble(conversation, allowed) =
            AssembleLoop(OfKind(conversation, "system") \o OfKind(conversation, "pin")
                           \o OfKind(conversation, "summary"),
                         OfKind(conversation, "kb"), OfKind(conversation, "turn"), allowed)
    BY DEF AssembleIsLoop
  <2>1. conversation \in Seq(ItemsOf(Message)) /\ allowed \in Nat
    BY DEF PromptInv
  <2> QED
    BY <2>1, AssembleIs
<1>3. PromptInv => ClosedFormsAreLoops
  BY <1>1, <1>2 DEF ClosedFormsAreLoops
<1> QED
  BY <1>3, PromptInvariance, PTL

-----------------------------------------------------------------------------
(* What is left of a list. A fold whose step is a function is known by     *)
(* what it gives for no element, and for one element more.                 *)

\* A set that has the empty sequence, and every sequence of its members with one element more, has them all.
LEMMA SeqInd ==
  ASSUME NEW B, NEW P, <<>> \in P, \A s \in Seq(B), x \in B : s \in P => Append(s, x) \in P
  PROVE  \A s \in Seq(B) : s \in P
<1> SUFFICES ASSUME NEW s \in Seq(B) PROVE s \in P
  OBVIOUS
<1>1. Len(s) \in Nat /\ Len(s) \in 0 .. Len(s)
  BY LenProperties
<1> DEFINE T == {i \in 0 .. Len(s) : SubSeq(s, 1, i) \in P}
<1>2. 0 \in T
  <2>1. SubSeq(s, 1, 0) = <<>>
    BY SubSeqEmpty
  <2>2. SubSeq(s, 1, 0) \in P
    BY <2>1, Zenon
  <2>3. 0 \in 0 .. Len(s)
    BY <1>1
  <2> QED
    BY <2>2, <2>3, Zenon
<1>3. ASSUME NEW i \in 1 .. Len(s), i - 1 \in T PROVE i \in T
  <2>1. /\ SubSeq(s, 1, i - 1) \in Seq(B) /\ s[i] \in B
        /\ SubSeq(s, 1, i) = SubSeq(s, 1, i - 1) \o <<s[i]>>
    BY PrefixMore
  <2>2. Append(SubSeq(s, 1, i - 1), s[i]) = SubSeq(s, 1, i)
    BY <2>1, AppendIsConcat
  <2>3. SubSeq(s, 1, i - 1) \in P
    BY <1>3
  <2>4. SubSeq(s, 1, i) \in P
    BY <2>1, <2>2, <2>3
  <2> QED
    BY <1>1, <2>4
<1> HIDE DEF T
<1>4. Len(s) \in T
  BY <1>1, <1>2, <1>3, UpTo
<1> QED
  BY <1>4, SubSeqFull, ZenonT(60) DEF T

LEMMA SeqIn ==
  ASSUME NEW B, NEW C, NEW s \in Seq(B), \A i \in 1 .. Len(s) : s[i] \in C
  PROVE  s \in Seq(C)
<1>1. Len(s) \in Nat /\ s \in [1 .. Len(s) -> B] /\ DOMAIN s = 1 .. Len(s)
  BY LenProperties
<1>2. s \in [1 .. Len(s) -> C]
  BY <1>1
<1> QED
  BY <1>1, <1>2, SeqDef

Grows(F, A, B, st, base) ==
  /\ base \in A /\ \A p \in Seq(B) : F[p] \in A
  /\ F[<<>>] = base
  /\ \A p \in Seq(B), x \in B : F[Append(p, x)] = st[<<F[p], x>>]

LEMMA FoldGrows ==
  ASSUME NEW A, NEW B, NEW st \in [A \X B -> A], NEW base \in A, NEW F,
         \A p \in Seq(B) : \E f : Folded(f, A, st, base, p) /\ F[p] = f[Len(p)]
  PROVE  Grows(F, A, B, st, base)
<1>1. F[<<>>] = base
  <2>1. <<>> \in Seq(B) /\ Len(<<>>) = 0
    BY EmptySeq
  <2>2. PICK f : Folded(f, A, st, base, <<>>) /\ F[<<>>] = f[Len(<<>>)]
    BY <2>1
  <2> QED
    BY <2>1, <2>2 DEF Folded
<1>2. ASSUME NEW p \in Seq(B) PROVE F[p] \in A
  <2>1. PICK f : Folded(f, A, st, base, p) /\ F[p] = f[Len(p)]
    OBVIOUS
  <2>2. Len(p) \in 0 .. Len(p)
    BY LenProperties
  <2> QED
    BY <2>1, <2>2 DEF Folded
<1>3. ASSUME NEW p \in Seq(B), NEW x \in B PROVE F[Append(p, x)] = st[<<F[p], x>>]
  <2>1. PICK q : q = Append(p, x)
    OBVIOUS
  <2>2. q \in Seq(B)
    BY <2>1, AppendProperties
  <2>3. PICK f : Folded(f, A, st, base, p) /\ F[p] = f[Len(p)]
    OBVIOUS
  <2>4. PICK g : Folded(g, A, st, base, q) /\ F[q] = g[Len(q)]
    BY <2>2
  <2>5. OneStepMore(A, B, st, base, p, x, q, f, g)
    BY <2>1, <2>3, <2>4 DEF OneStepMore
  <2>6. g[Len(q)] = Stepped(st, f[Len(p)], x)
    BY <2>5, FoldedMore
  <2> QED
    BY <2>1, <2>3, <2>4, <2>6 DEF Stepped
<1> QED
  BY <1>1, <1>2, <1>3 DEF Grows

\* Two folds of the same step are the same.
LEMMA GrowsOne ==
  ASSUME NEW A, NEW B, NEW st, NEW base, NEW F, NEW G, Grows(F, A, B, st, base), Grows(G, A, B, st, base)
  PROVE  \A p \in Seq(B) : F[p] = G[p]
<1> DEFINE P == {p \in Seq(B) : F[p] = G[p]}
<1>1. <<>> \in P
  BY EmptySeq DEF Grows
<1>2. ASSUME NEW p \in Seq(B), NEW x \in B, p \in P PROVE Append(p, x) \in P
  <2>1. Append(p, x) \in Seq(B)
    BY AppendProperties
  <2>2. F[Append(p, x)] = st[<<F[p], x>>] /\ G[Append(p, x)] = st[<<G[p], x>>]
    BY DEF Grows
  <2>3. F[p] = G[p]
    BY <1>2
  <2> QED
    BY <2>1, <2>2, <2>3
<1> HIDE DEF P
<1>3. \A p \in Seq(B) : p \in P
  BY <1>1, <1>2, SeqInd
<1> QED
  BY <1>3 DEF P

\* What a fold ends with is one thing.
LEMMA FoldedOnce ==
  ASSUME NEW A, NEW st, NEW base, NEW p, Len(p) \in Nat, NEW f, NEW g,
         Folded(f, A, st, base, p), Folded(g, A, st, base, p)
  PROVE  f[Len(p)] = g[Len(p)]
<1> DEFINE T == {i \in 0 .. Len(p) : f[i] = g[i]}
<1>1. 0 \in T
  BY DEF Folded
<1>2. ASSUME NEW i \in 1 .. Len(p), i - 1 \in T PROVE i \in T
  <2>1. f[i] = st[<<f[i - 1], p[i]>>] /\ g[i] = st[<<g[i - 1], p[i]>>]
    BY DEF Folded
  <2>2. f[i - 1] = g[i - 1] /\ i \in 0 .. Len(p)
    BY <1>2
  <2> QED
    BY <2>1, <2>2
<1>3. Len(p) \in 0 .. Len(p)
  OBVIOUS
<1> HIDE DEF T
<1>4. Len(p) \in T
  BY <1>1, <1>2, <1>3, UpTo
<1> QED
  BY <1>4 DEF T

\* The elements of a list that are in a set.
KeptIf(kept, x, K) == IF x \in K THEN Append(kept, x) ELSE kept
Keeping(B, K) == [x \in Seq(B) \X B |-> KeptIf(x[1], x[2], K)]
Only(s, K) == FoldLeft(LAMBDA kept, x : IF x \in K THEN Append(kept, x) ELSE kept, <<>>, s)

LEMMA OnlyFolds ==
  ASSUME NEW B, NEW p \in Seq(B), NEW K
  PROVE  \E f : Folded(f, Seq(B), Keeping(B, K), <<>>, p) /\ Only(p, K) = f[Len(p)]
<1> DEFINE A == Seq(B)
           st == Keeping(B, K)
           Folds(g) == g = [s \in SUBSET (DOMAIN p) |->
                              IF s = {} THEN <<>> ELSE KeptIf(g[s \ {Max(s)}], p[Max(s)], K)]
           fold == CHOOSE g : Folds(g)
<1>1. Only(p, K) = fold[DOMAIN p]
  BY Zenon DEF Only, KeptIf, FoldLeft, MapThenFoldSet
<1>2. DOMAIN p = 1 .. Len(p) /\ Len(p) \in Nat /\ \A i \in 1 .. Len(p) : p[i] \in B
  BY LenProperties
<1>3. <<>> \in A /\ \A a \in A, x \in B : KeptIf(a, x, K) \in A
  BY EmptySeq, AppendProperties DEF KeptIf
<1> HIDE DEF A
<1>4. st \in [A \X B -> A] /\ \A a \in A, x \in B : st[<<a, x>>] = KeptIf(a, x, K)
  BY <1>3 DEF A, Keeping
<1> HIDE DEF st
<1>5. Folds(fold)
  <2>1. PICK g : Steps(g, A, B, st, <<>>, p)
    BY <1>3, <1>4, FoldSteps
  <2>2. \A s \in SUBSET (DOMAIN p) : g[s] = IF s = {} THEN <<>> ELSE KeptIf(g[s \ {Max(s)}], p[Max(s)], K)
    BY <1>4, <2>1 DEF Steps
  <2>3. Folds(g)
    BY <2>1, <2>2 DEF Steps
  <2> HIDE DEF Folds
  <2> QED BY <2>3, Zenon
<1>6. FoldsIn(fold, A, st, <<>>, p, Len(p))
  <2> HIDE DEF fold
  <2>1. \A s \in SUBSET (1 .. Len(p)) : fold[s] = IF s = {} THEN <<>> ELSE KeptIf(fold[s \ {Max(s)}], p[Max(s)], K)
    BY <1>2, <1>5
  <2>2. \A s \in SUBSET (1 .. Len(p)) : s # {} => Max(s) \in 1 .. Len(p)
    BY <1>2, GreatestIn
  <2> QED
    BY <1>2, <1>4, <2>1, <2>2 DEF FoldsIn
<1>7. PICK f : ValuesOf(f, A, st, <<>>, p)
  BY <1>3, <1>4, Folding
<1> HIDE DEF fold, Folds
<1>8. Folded(f, A, st, <<>>, p) /\ fold[DOMAIN p] = f[Len(p)]
  BY <1>2, <1>6, <1>7 DEF ValuesOf
<1> QED
  BY <1>1, <1>8 DEF A, st

LEMMA OnlyGrows ==
  ASSUME NEW B, NEW K
  PROVE  /\ Only(<<>>, K) = <<>>
         /\ \A s \in Seq(B) : Only(s, K) \in Seq(B)
         /\ \A s \in Seq(B), x \in B : Only(Append(s, x), K) = KeptIf(Only(s, K), x, K)
<1> DEFINE A == Seq(B)
           st == Keeping(B, K)
           F == [s \in A |-> Only(s, K)]
<1>1. <<>> \in A /\ \A a \in A, x \in B : KeptIf(a, x, K) \in A /\ Append(a, x) \in A
  BY EmptySeq, AppendProperties DEF KeptIf
<1>2. \A p \in Seq(B) : \E f : Folded(f, A, st, <<>>, p) /\ Only(p, K) = f[Len(p)]
  BY OnlyFolds
<1>3. st \in [A \X B -> A] /\ \A a \in A, x \in B : st[<<a, x>>] = KeptIf(a, x, K)
  BY <1>1 DEF Keeping
<1>4. \A p \in Seq(B) : F[p] = Only(p, K)
  OBVIOUS
<1> HIDE DEF st, F
<1>5. Grows(F, A, B, st, <<>>)
  BY <1>1, <1>2, <1>3, <1>4, FoldGrows
<1> QED
  BY <1>1, <1>3, <1>4, <1>5 DEF Grows

\* The items of a kind are so chosen.
LEMMA OfKindIsOnly ==
  ASSUME NEW B, NEW kind, NEW K, K = {it \in B : it.kind = kind}
  PROVE  \A s \in Seq(B) : OfKind(s, kind) = Only(s, K)
<1> DEFINE A == Seq(B)
           st == Keeping(B, K)
<1>1. <<>> \in A /\ \A a \in A, x \in B : KeptIf(a, x, K) \in A /\ WithKind(a, x, kind) = KeptIf(a, x, K)
  BY EmptySeq, AppendProperties DEF KeptIf, WithKind
<1>2. st \in [A \X B -> A] /\ \A a \in A, x \in B : st[<<a, x>>] = WithKind(a, x, kind)
  BY <1>1 DEF Keeping
<1>3. ASSUME NEW p \in Seq(B)
      PROVE  OfKind(p, kind) = Only(p, K)
  <2> DEFINE Folds(g) == g = [s \in SUBSET (DOMAIN p) |->
                                IF s = {} THEN <<>> ELSE WithKind(g[s \ {Max(s)}], p[Max(s)], kind)]
             fold == CHOOSE g : Folds(g)
  <2>1. OfKind(p, kind) = fold[DOMAIN p]
    BY Zenon DEF OfKind, WithKind, FoldLeft, MapThenFoldSet
  <2>2. DOMAIN p = 1 .. Len(p) /\ Len(p) \in Nat /\ \A i \in 1 .. Len(p) : p[i] \in B
    BY LenProperties
  <2> HIDE DEF A, st
  <2>3. Folds(fold)
    <3>1. PICK g : Steps(g, A, B, st, <<>>, p)
      BY <1>1, <1>2, FoldSteps
    <3>2. \A s \in SUBSET (DOMAIN p) : g[s] = IF s = {} THEN <<>> ELSE WithKind(g[s \ {Max(s)}], p[Max(s)], kind)
      BY <1>2, <3>1 DEF Steps
    <3>3. Folds(g)
      BY <3>1, <3>2 DEF Steps
    <3> HIDE DEF Folds
    <3> QED BY <3>3, Zenon
  <2>4. FoldsIn(fold, A, st, <<>>, p, Len(p))
    <3> HIDE DEF fold
    <3>1. \A s \in SUBSET (1 .. Len(p)) : fold[s] = IF s = {} THEN <<>> ELSE WithKind(fold[s \ {Max(s)}], p[Max(s)], kind)
      BY <2>2, <2>3
    <3>2. \A s \in SUBSET (1 .. Len(p)) : s # {} => Max(s) \in 1 .. Len(p)
      BY <2>2, GreatestIn
    <3> QED
      BY <1>2, <2>2, <3>1, <3>2 DEF FoldsIn
  <2> HIDE DEF fold, Folds
  <2>5. PICK f : ValuesOf(f, A, st, <<>>, p)
    BY <1>1, <1>2, Folding
  <2>6. PICK h : Folded(h, A, st, <<>>, p) /\ Only(p, K) = h[Len(p)]
    BY OnlyFolds, ZenonT(60) DEF A, st
  <2>7. fold[DOMAIN p] = f[Len(p)]
    BY <2>2, <2>4, <2>5 DEF ValuesOf
  <2>8. f[Len(p)] = h[Len(p)]
    BY <2>2, <2>5, <2>6, FoldedOnce DEF ValuesOf
  <2> QED
    BY <2>1, <2>6, <2>7, <2>8
<1> QED
  BY <1>3

\* What comes after comes last.
LEMMA ConcatAppend ==
  ASSUME NEW B, NEW s \in Seq(B), NEW t \in Seq(B), NEW x \in B
  PROVE  s \o Append(t, x) = Append(s \o t, x)
<1>1. Append(t, x) = t \o <<x>> /\ s \o t \in Seq(B) /\ <<x>> \in Seq(B)
  BY AppendIsConcat, ConcatProperties
<1>2. Append(s \o t, x) = (s \o t) \o <<x>>
  BY <1>1, AppendIsConcat
<1>3. (s \o t) \o <<x>> = s \o (t \o <<x>>)
  BY <1>1, ConcatAssociative
<1> QED
  BY <1>1, <1>2, <1>3

LEMMA OnlyConcat ==
  ASSUME NEW B, NEW K, NEW s \in Seq(B)
  PROVE  \A t \in Seq(B) : Only(s \o t, K) = Only(s, K) \o Only(t, K)
<1> DEFINE P == {t \in Seq(B) : Only(s \o t, K) = Only(s, K) \o Only(t, K)}
<1>0. Only(<<>>, K) = <<>> /\ Only(s, K) \in Seq(B)
  BY OnlyGrows
<1>1. <<>> \in P
  <2>1. s \o <<>> = s /\ Only(s, K) \o <<>> = Only(s, K) /\ <<>> \in Seq(B)
    BY <1>0, ConcatEmptySeq, EmptySeq
  <2> QED
    BY <1>0, <2>1, Zenon
<1>2. ASSUME NEW t \in Seq(B), NEW x \in B, t \in P PROVE Append(t, x) \in P
  <2>1. Append(t, x) \in Seq(B) /\ s \o t \in Seq(B) /\ s \o Append(t, x) = Append(s \o t, x)
    BY AppendProperties, ConcatProperties, ConcatAppend
  <2>2. /\ Only(Append(s \o t, x), K) = KeptIf(Only(s \o t, K), x, K)
        /\ Only(Append(t, x), K) = KeptIf(Only(t, K), x, K) /\ Only(t, K) \in Seq(B)
    BY <2>1, OnlyGrows
  <2>3. Only(s, K) \o Append(Only(t, K), x) = Append(Only(s, K) \o Only(t, K), x)
    BY <1>0, <2>2, ConcatAppend
  <2>4. KeptIf(Only(s, K) \o Only(t, K), x, K) = Only(s, K) \o KeptIf(Only(t, K), x, K)
    BY <2>3, Zenon DEF KeptIf
  <2>5. Only(s \o t, K) = Only(s, K) \o Only(t, K)
    BY <1>2
  <2>6. Only(s \o Append(t, x), K) = Only(s, K) \o Only(Append(t, x), K)
    BY <2>1, <2>2, <2>4, <2>5, Zenon
  <2> QED
    BY <2>1, <2>6, Zenon
<1> HIDE DEF P
<1>3. \A t \in Seq(B) : t \in P
  BY <1>1, <1>2, SeqInd
<1> QED
  BY <1>3 DEF P

LEMMA OnlyOnly ==
  ASSUME NEW B, NEW K, NEW L
  PROVE  \A s \in Seq(B) : Only(Only(s, K), L) = Only(s, K \cap L)
<1> DEFINE P == {s \in Seq(B) : Only(Only(s, K), L) = Only(s, K \cap L)}
<1>1. <<>> \in P
  <2>1. Only(<<>>, K) = <<>> /\ Only(<<>>, L) = <<>> /\ Only(<<>>, K \cap L) = <<>> /\ <<>> \in Seq(B)
    BY OnlyGrows, EmptySeq
  <2> QED
    BY <2>1, Zenon
<1>2. ASSUME NEW s \in Seq(B), NEW x \in B, s \in P PROVE Append(s, x) \in P
  <2>1. /\ Append(s, x) \in Seq(B) /\ Only(s, K) \in Seq(B)
        /\ Only(Append(s, x), K) = KeptIf(Only(s, K), x, K)
        /\ Only(Append(s, x), K \cap L) = KeptIf(Only(s, K \cap L), x, K \cap L)
    BY AppendProperties, OnlyGrows, ZenonT(60)
  <2>2. Only(Append(Only(s, K), x), L) = KeptIf(Only(Only(s, K), L), x, L)
    BY <2>1, OnlyGrows, ZenonT(60)
  <2>3. Only(Only(s, K), L) = Only(s, K \cap L)
    BY <1>2
  <2>4. Only(Only(Append(s, x), K), L) = Only(Append(s, x), K \cap L)
    <3>1. CASE x \in K
      <4>1. Only(Append(s, x), K) = Append(Only(s, K), x)
        BY <2>1, <3>1, Zenon DEF KeptIf
      <4>2. KeptIf(Only(s, K \cap L), x, K \cap L) = KeptIf(Only(s, K \cap L), x, L)
        BY <3>1, Zenon DEF KeptIf
      <4> QED
        BY <2>1, <2>2, <2>3, <4>1, <4>2, Zenon
    <3>2. CASE x \notin K
      BY <2>1, <2>3, <3>2, Zenon DEF KeptIf
    <3> QED
      BY <3>1, <3>2
  <2> QED
    BY <2>1, <2>4, Zenon
<1> HIDE DEF P
<1>3. \A s \in Seq(B) : s \in P
  BY <1>1, <1>2, SeqInd
<1> QED
  BY <1>3 DEF P

LEMMA OnlyIn ==
  ASSUME NEW B, NEW K
  PROVE  \A s \in Seq(B) : Only(s, K) \in Seq(B \cap K)
<1> DEFINE P == {s \in Seq(B) : Only(s, K) \in Seq(B \cap K)}
<1>1. <<>> \in P
  BY OnlyGrows, EmptySeq
<1>2. ASSUME NEW s \in Seq(B), NEW x \in B, s \in P PROVE Append(s, x) \in P
  <2>1. Append(s, x) \in Seq(B) /\ Only(Append(s, x), K) = KeptIf(Only(s, K), x, K)
    BY AppendProperties, OnlyGrows
  <2>2. Only(s, K) \in Seq(B \cap K)
    BY <1>2
  <2>3. x \in K => Append(Only(s, K), x) \in Seq(B \cap K)
    BY <2>2, AppendProperties
  <2> QED
    BY <2>1, <2>2, <2>3, Zenon DEF KeptIf
<1> HIDE DEF P
<1>3. \A s \in Seq(B) : s \in P
  BY <1>1, <1>2, SeqInd
<1> QED
  BY <1>3 DEF P

\* Nothing is left if nothing is in the set, and everything if all is.
LEMMA OnlyNoneAll ==
  ASSUME NEW B, NEW K
  PROVE  /\ K \cap B = {} => \A s \in Seq(B) : Only(s, K) = <<>>
         /\ B \subseteq K => \A s \in Seq(B) : Only(s, K) = s
<1>1. ASSUME K \cap B = {} PROVE \A s \in Seq(B) : Only(s, K) = <<>>
  <2> DEFINE P == {s \in Seq(B) : Only(s, K) = <<>>}
  <2>1. <<>> \in P
    BY OnlyGrows, EmptySeq
  <2>2. ASSUME NEW s \in Seq(B), NEW x \in B, s \in P PROVE Append(s, x) \in P
    <3>1. Append(s, x) \in Seq(B) /\ Only(Append(s, x), K) = KeptIf(Only(s, K), x, K)
      BY AppendProperties, OnlyGrows
    <3>2. x \notin K /\ Only(s, K) = <<>>
      BY <1>1, <2>2
    <3> QED
      BY <3>1, <3>2, Zenon DEF KeptIf
  <2> HIDE DEF P
  <2>3. \A s \in Seq(B) : s \in P
    BY <2>1, <2>2, SeqInd
  <2> QED
    BY <2>3 DEF P
<1>2. ASSUME B \subseteq K PROVE \A s \in Seq(B) : Only(s, K) = s
  <2> DEFINE P == {s \in Seq(B) : Only(s, K) = s}
  <2>1. <<>> \in P
    BY OnlyGrows, EmptySeq
  <2>2. ASSUME NEW s \in Seq(B), NEW x \in B, s \in P PROVE Append(s, x) \in P
    <3>1. Append(s, x) \in Seq(B) /\ Only(Append(s, x), K) = KeptIf(Only(s, K), x, K)
      BY AppendProperties, OnlyGrows
    <3>2. x \in K /\ Only(s, K) = s
      BY <1>2, <2>2
    <3> QED
      BY <3>1, <3>2, Zenon DEF KeptIf
  <2> HIDE DEF P
  <2>3. \A s \in Seq(B) : s \in P
    BY <2>1, <2>2, SeqInd
  <2> QED
    BY <2>3 DEF P
<1> QED
  BY <1>1, <1>2

\* Of the messages of some items, those in L are the messages of the items in K.
LEMMA OnlyMessages ==
  ASSUME NEW M, NEW B, B \subseteq ItemsOf(M), NEW K, NEW L, \A it \in B : it \in K <=> it.msg \in L
  PROVE  \A s \in Seq(B) : Messages(Only(s, K)) = Only(Messages(s), L)
<1> DEFINE P == {s \in Seq(B) : Messages(Only(s, K)) = Only(Messages(s), L)}
<1>1. <<>> \in P
  <2>1. Only(<<>>, K) = <<>> /\ Only(<<>>, L) = <<>> /\ <<>> \in Seq(B)
    BY OnlyGrows, EmptySeq
  <2>2. Messages(<<>>) = <<>>
    BY DEF Messages
  <2> QED
    BY <2>1, <2>2, Zenon
<1>2. ASSUME NEW s \in Seq(B), NEW x \in B, s \in P PROVE Append(s, x) \in P
  <2>1. /\ Append(s, x) \in Seq(B) /\ Only(Append(s, x), K) = KeptIf(Only(s, K), x, K) /\ Only(s, K) \in Seq(B)
    BY AppendProperties, OnlyGrows
  <2>2. x \in ItemsOf(M) /\ s \in Seq(ItemsOf(M)) /\ Only(s, K) \in Seq(ItemsOf(M))
    BY <2>1, SeqMonotonic
  <2>3. /\ Messages(Append(s, x)) = Append(Messages(s), x.msg)
        /\ Messages(Append(Only(s, K), x)) = Append(Messages(Only(s, K)), x.msg)
        /\ Messages(s) \in Seq(M) /\ x.msg \in M
    <3>1. x.msg \in M
      BY <2>2 DEF ItemsOf
    <3> QED
      BY <2>2, <3>1, MessagesAppend, MessagesType
  <2>4. Only(Append(Messages(s), x.msg), L) = KeptIf(Only(Messages(s), L), x.msg, L)
    BY <2>3, OnlyGrows
  <2>5. Messages(Only(s, K)) = Only(Messages(s), L)
    BY <1>2
  <2>6. Messages(Only(Append(s, x), K)) = Only(Messages(Append(s, x)), L)
    <3>1. CASE x \in K
      BY <2>1, <2>3, <2>4, <2>5, <3>1, Zenon DEF KeptIf
    <3>2. CASE x \notin K
      BY <2>1, <2>3, <2>4, <2>5, <3>2, Zenon DEF KeptIf
    <3> QED
      BY <3>1, <3>2
  <2> QED
    BY <2>1, <2>6, Zenon
<1> HIDE DEF P
<1>3. \A s \in Seq(B) : s \in P
  BY <1>1, <1>2, SeqInd
<1> QED
  BY <1>3 DEF P

\* How often a list has x.
Times(s, x) == Len(Only(s, {x}))

LEMMA TimesIs ==
  ASSUME NEW B, NEW x
  PROVE  /\ \A s \in Seq(B) : Times(s, x) \in Nat
         /\ Times(<<>>, x) = 0
         /\ \A s \in Seq(B), y \in B : Times(Append(s, y), x) = Times(s, x) + IF y = x THEN 1 ELSE 0
         /\ \A s \in Seq(B), t \in Seq(B) : Times(s \o t, x) = Times(s, x) + Times(t, x)
<1>1. /\ Only(<<>>, {x}) = <<>> /\ Len(<<>>) = 0
      /\ \A s \in Seq(B) : Only(s, {x}) \in Seq(B) /\ Len(Only(s, {x})) \in Nat
  BY OnlyGrows, EmptySeq, LenProperties
<1>2. ASSUME NEW s \in Seq(B), NEW y \in B
      PROVE  Times(Append(s, y), x) = Times(s, x) + IF y = x THEN 1 ELSE 0
  <2>1. Only(Append(s, y), {x}) = KeptIf(Only(s, {x}), y, {x})
    BY OnlyGrows
  <2>2. Len(Append(Only(s, {x}), y)) = Len(Only(s, {x})) + 1 /\ Len(Only(s, {x})) \in Nat
    BY <1>1, AppendProperties
  <2> QED
    BY <2>1, <2>2 DEF KeptIf, Times
<1>3. ASSUME NEW s \in Seq(B), NEW t \in Seq(B)
      PROVE  Times(s \o t, x) = Times(s, x) + Times(t, x)
  BY <1>1, OnlyConcat, ConcatProperties DEF Times
<1> QED
  BY <1>1, <1>2, <1>3 DEF Times

LEMMA TimesOf ==
  ASSUME NEW B, NEW x, NEW s \in Seq(B), Times(s, x) # 0
  PROVE  \E i \in 1 .. Len(s) : s[i] = x
<1> SUFFICES ASSUME \A i \in 1 .. Len(s) : s[i] # x PROVE FALSE
  OBVIOUS
<1>1. \A i \in 1 .. Len(s) : s[i] \in B \ {x}
  BY LenProperties
<1> DEFINE C == B \ {x}
<1>2. s \in Seq(C) /\ C \cap {x} = {}
  BY <1>1, SeqIn
<1> HIDE DEF C
<1>3. Only(s, {x}) = <<>>
  BY <1>2, OnlyNoneAll
<1> QED
  BY <1>3, EmptySeq DEF Times

-----------------------------------------------------------------------------
(* The history and what the log rebuilds. A system message is a version of *)
(* the system prompt; of an item's kind, only what the proofs use is told. *)

Msgs == {m \in Message : (m.role = "system" => m = SystemPrompt(m.n)) /\ (m.role # "assistant" => m.calls = 0)}
KindIs(it) == (it.kind = "system" <=> it.msg.role = "system") /\ (it.msg.text = "pinned" => it.kind = "pin")
Classified(M) == {it \in ItemsOf(M) : KindIs(it)}
Plain(M) == {it \in Classified(M) : it.msg.role # "system"}

\* The system prompt comes first, and there is no other system message.
Headed(h) == h # <<>> /\ h[1].role = "system" /\ \A i \in 2 .. Len(h) : h[i].role # "system"

\* The same list, but for the version of the system prompt.
Same(h, g) == Len(h) = Len(g) /\ \A i \in 2 .. Len(h) : h[i] = g[i]

LEMMA ClassifyKind ==
  \A m \in Msgs, g \in Nat : \A via :
    /\ Item(m, ClassifyItem(m, via), g) \in Classified(Msgs)
    /\ Item(m, ClassifyItem(m, via), g).msg = m
    /\ m.role # "system" /\ m.text \notin {"pinned", "summary"} /\ via # "memory" => ClassifyItem(m, via) = "turn"
<1> SUFFICES ASSUME NEW m \in Msgs, NEW g \in Nat, NEW via
    PROVE  /\ Item(m, ClassifyItem(m, via), g) \in Classified(Msgs)
           /\ Item(m, ClassifyItem(m, via), g).msg = m
           /\ m.role # "system" /\ m.text \notin {"pinned", "summary"} /\ via # "memory" => ClassifyItem(m, via) = "turn"
  OBVIOUS
<1> DEFINE it == Item(m, ClassifyItem(m, via), g)
<1>1. it.msg = m /\ it.kind = ClassifyItem(m, via) /\ it \in ItemsOf(Msgs)
  BY ClassifyType DEF Item, ItemsOf
<1>2. m.role = "system" => m.text = "prompt"
  BY DEF Msgs, SystemPrompt, Msg
<1>3. KindIs(it)
  BY <1>1, <1>2 DEF KindIs, ClassifyItem
<1> QED
  BY <1>1, <1>3 DEF Classified, ClassifyItem

\* Items of some messages.
LEMMA ClassifiedIn ==
  ASSUME NEW M, M \subseteq Msgs
  PROVE  /\ Classified(M) \subseteq ItemsOf(M) /\ Classified(M) \subseteq Classified(Msgs) /\ Plain(M) \subseteq Classified(M)
         /\ \A it \in Classified(Msgs) : it.msg \in M => it \in Classified(M)
BY DEF Classified, ItemsOf, Plain

LEMMA ApplyKinds ==
  ASSUME NEW M, M \subseteq Msgs, NEW prev \in Seq(Classified(M))
  PROVE  \A ops \in Seq(OpsOf(M)) : ApplyRewriteOps(prev, ops) \in Seq(Classified(M))
<1> DEFINE P == {ops \in Seq(OpsOf(M)) : ApplyRewriteOps(prev, ops) \in Seq(Classified(M))}
<1>0. prev \in Seq(ItemsOf(M))
  BY ClassifiedIn, SeqMonotonic
<1>1. <<>> \in P
  <2>1. ApplyRewriteOps(prev, <<>>) = <<>> /\ <<>> \in Seq(OpsOf(M)) /\ <<>> \in Seq(Classified(M))
    BY <1>0, ApplyNone, EmptySeq
  <2> QED
    BY <2>1, Zenon
<1>2. ASSUME NEW ops \in Seq(OpsOf(M)), NEW op \in OpsOf(M), ops \in P PROVE Append(ops, op) \in P
  <2> DEFINE out == ApplyRewriteOps(prev, ops)
  <2>1. Append(ops, op) \in Seq(OpsOf(M)) /\ ApplyRewriteOps(prev, Append(ops, op)) = ApplyStep(prev, out, op)
    BY <1>0, AppendProperties, ApplyMore
  <2>2. out \in Seq(Classified(M))
    BY <1>2
  <2>3. op.from \in Nat /\ op.to \in Nat /\ op.new \in Seq(M) /\ (op.new = <<>> => op.from >= 1)
    BY DEF OpsOf
  <2> HIDE DEF out
  <2>4. ApplyStep(prev, out, op) \in Seq(Classified(M))
    <3>1. CASE op.new # <<>>
      <4> DEFINE g == IF out = <<>> THEN 0 ELSE Last(out).group
                 it == Item(op.new[1], ClassifyItem(op.new[1], ""), g)
      <4>1. op.new[1] \in M
        BY <2>3, <3>1, EmptySeq, ElementOfSeq
      <4>2. g \in Nat
        <5>1. out # <<>> => Last(out) \in Classified(M)
          BY <2>2, EmptySeq, ElementOfSeq DEF Last
        <5> QED
          BY <5>1 DEF ItemsOf, Classified
      <4>3. it \in Classified(Msgs) /\ it.msg = op.new[1]
        <5>1. op.new[1] \in Msgs
          BY <4>1
        <5> HIDE DEF g
        <5> QED BY <4>2, <5>1, ClassifyKind
      <4>4. ApplyStep(prev, out, op) = Append(out, it)
        BY <3>1 DEF ApplyStep
      <4> HIDE DEF it
      <4>5. it \in Classified(M)
        BY <4>1, <4>3, ClassifiedIn
      <4> QED
        BY <2>2, <4>4, <4>5, AppendProperties
    <3>2. CASE op.new = <<>> /\ op.to <= Len(prev)
      <4>1. \A i \in op.from .. op.to : prev[i] \in Classified(M)
        BY <2>3, <3>2, LenProperties
      <4>2. SubSeq(prev, op.from, op.to) \in Seq(Classified(M))
        BY <2>3, <4>1, SubSeqProperties
      <4>3. out \o SubSeq(prev, op.from, op.to) \in Seq(Classified(M))
        BY <2>2, <4>2, ConcatProperties
      <4> QED
        BY <3>2, <4>3 DEF ApplyStep
    <3>3. CASE op.new = <<>> /\ ~(op.to <= Len(prev))
      BY <2>2, <3>3 DEF ApplyStep
    <3> QED
      BY <3>1, <3>2, <3>3
  <2> QED
    BY <2>1, <2>4
<1> HIDE DEF P
<1>3. \A ops \in Seq(OpsOf(M)) : ops \in P
  BY <1>1, <1>2, SeqInd
<1> QED
  BY <1>3 DEF P

LEMMA OpsType ==
  ASSUME NEW M, NEW prev \in Seq(M), NEW now \in Seq(M)
  PROVE  RewriteOps(prev, now) \in Seq(OpsOf(M))
<1>1. PICK f : RewritesAt(f, M, prev, now)
  BY RewriteFold
<1>2. Len(now) \in 0 .. Len(now)
  BY LenProperties
<1> QED
  BY <1>1, <1>2 DEF RewritesAt

\* Two conversations that differ only in the first message, which both keep, are rewritten alike.
Alike(M, h, now, g, then) ==
  /\ h \in Seq(M) /\ now \in Seq(M) /\ g \in Seq(M) /\ then \in Seq(M)
  /\ Headed(h) /\ Headed(now) /\ Headed(g) /\ Headed(then) /\ Same(h, g) /\ Same(now, then)
  /\ h[1] = now[1] /\ g[1] = then[1]

LEMMA FirstStep ==
  ASSUME NEW M, NEW h \in Seq(M), Headed(h), NEW a, a.cur = 0
  PROVE  Looked(h, a, h[1]) = {1}
<1>1. Len(h) \in Nat /\ Len(h) >= 1
  BY EmptySeq DEF Headed
<1>2. ASSUME NEW i \in 1 .. Len(h), h[i] = h[1] PROVE i = 1
  <2>1. i # 1 => i \in 2 .. Len(h)
    BY <1>1
  <2> QED
    BY <1>2, <2>1 DEF Headed
<1> QED
  BY <1>1, <1>2 DEF Looked

LEMMA SameStep ==
  ASSUME NEW M, NEW h \in Seq(M), NEW g \in Seq(M), NEW a, NEW m, NEW n,
         Looked(h, a, m) = Looked(g, a, n), m = n \/ Looked(h, a, m) # {}
  PROVE  RewriteStep(h, a, m) = RewriteStep(g, a, n)
BY Zenon DEF RewriteStep

LEMMA CurStep ==
  ASSUME NEW M, NEW h \in Seq(M), NEW a \in [cur : Nat, ops : Seq(OpsOf(M))], NEW m \in M
  PROVE  /\ RewriteStep(h, a, m).cur >= a.cur
         /\ Looked(h, a, m) # {} => RewriteStep(h, a, m).cur >= 1
<1>1. CASE Looked(h, a, m) = {}
  BY <1>1 DEF RewriteStep
<1>2. CASE Looked(h, a, m) # {}
  <2>1. Min(Looked(h, a, m)) \in Nat /\ Min(Looked(h, a, m)) > a.cur
    BY <1>2, LookedType
  <2>2. RewriteStep(h, a, m).cur = Min(Looked(h, a, m))
    BY <1>2 DEF RewriteStep
  <2> QED
    BY <2>1, <2>2
<1> QED
  BY <1>1, <1>2

LEMMA SameOps ==
  ASSUME NEW M, NEW h, NEW now, NEW g, NEW then, Alike(M, h, now, g, then)
  PROVE  RewriteOps(h, now) = RewriteOps(g, then)
<1>0. /\ h \in Seq(M) /\ now \in Seq(M) /\ g \in Seq(M) /\ then \in Seq(M)
      /\ Headed(h) /\ Headed(now) /\ Headed(g) /\ Headed(then) /\ Same(h, g) /\ Same(now, then)
      /\ h[1] = now[1] /\ g[1] = then[1]
  BY DEF Alike
<1>1. /\ Len(h) = Len(g) /\ (\A i \in 2 .. Len(h) : h[i] = g[i]) /\ Len(h) \in Nat
      /\ Len(now) = Len(then) /\ (\A i \in 2 .. Len(now) : now[i] = then[i]) /\ Len(now) \in Nat
  BY <1>0, LenProperties DEF Same
<1> DEFINE A == [cur : Nat, ops : Seq(OpsOf(M))]
<1>2. PICK e : RewritesAt(e, M, h, now)
  BY <1>0, RewriteFold
<1>3. PICK f : RewritesAt(f, M, g, then)
  BY <1>0, RewriteFold
<1>4. /\ e \in [0 .. Len(now) -> A] /\ e[0] = [cur |-> 0, ops |-> <<>>] /\ RewriteOps(h, now) = e[Len(now)].ops
      /\ \A k \in 1 .. Len(now) : e[k] = RewriteStep(h, e[k - 1], now[k])
  BY <1>2 DEF RewritesAt
<1>5. /\ f[0] = [cur |-> 0, ops |-> <<>>] /\ RewriteOps(g, then) = f[Len(now)].ops
      /\ \A k \in 1 .. Len(now) : f[k] = RewriteStep(g, f[k - 1], then[k])
  BY <1>1, <1>3 DEF RewritesAt
<1> DEFINE T == {k \in 0 .. Len(now) : e[k] = f[k] /\ (k # 0 => e[k].cur >= 1)}
<1>6. 0 \in T
  BY <1>1, <1>4, <1>5
<1>7. ASSUME NEW k \in 1 .. Len(now), k - 1 \in T PROVE k \in T
  <2>1. PICK a : a = e[k - 1]
    OBVIOUS
  <2>2. /\ a \in A /\ a = f[k - 1] /\ (k - 1 # 0 => a.cur >= 1) /\ now[k] \in M
        /\ e[k] = RewriteStep(h, a, now[k]) /\ f[k] = RewriteStep(g, a, then[k])
    <3>1. k - 1 \in 0 .. Len(now) /\ e[k - 1] = f[k - 1] /\ (k - 1 # 0 => e[k - 1].cur >= 1)
      BY <1>7
    <3>2. now[k] \in M
      BY <1>0, ElementOfSeq
    <3> QED
      BY <1>4, <1>5, <2>1, <3>1, <3>2
  <2>3. Looked(h, a, now[k]) = Looked(g, a, then[k]) /\ (now[k] = then[k] \/ Looked(h, a, now[k]) # {})
        /\ (k = 1 => Looked(h, a, now[k]) # {})
    <3>1. CASE k = 1
      <4>1. a.cur = 0
        BY <1>4, <2>1, <3>1
      <4>2. Looked(h, a, h[1]) = {1} /\ Looked(g, a, g[1]) = {1}
        BY <1>0, <4>1, FirstStep
      <4> QED
        BY <1>0, <3>1, <4>2
    <3>2. CASE k # 1
      <4>1. k \in 2 .. Len(now) /\ a.cur >= 1 /\ a.cur \in Nat
        BY <1>1, <2>2, <3>2
      <4>2. now[k] = then[k]
        BY <1>1, <4>1
      <4>3. \A i \in a.cur + 1 .. Len(h) : i \in 2 .. Len(h) /\ h[i] = g[i]
        BY <1>1, <4>1
      <4>4. Looked(h, a, now[k]) = Looked(g, a, then[k])
        BY <1>1, <4>2, <4>3 DEF Looked
      <4> QED
        BY <3>2, <4>2, <4>4
    <3> QED
      BY <3>1, <3>2
  <2>4. e[k] = f[k]
    BY <1>0, <2>2, <2>3, SameStep
  <2>5. e[k].cur >= 1
    <3>1. RewriteStep(h, a, now[k]).cur >= a.cur /\ (Looked(h, a, now[k]) # {} => RewriteStep(h, a, now[k]).cur >= 1)
      BY <1>0, <2>2, CurStep
    <3>2. RewriteStep(h, a, now[k]) \in A /\ a.cur \in Nat
      BY <1>0, <2>2, RewriteStepType
    <3> QED
      BY <2>2, <2>3, <3>1, <3>2
  <2> QED
    BY <1>1, <2>4, <2>5
<1>8. Len(now) \in 0 .. Len(now)
  BY <1>1
<1> HIDE DEF T
<1>9. Len(now) \in T
  BY <1>1, <1>6, <1>7, <1>8, UpTo
<1> QED
  BY <1>4, <1>5, <1>9 DEF T

\* A rewrite that keeps the first message, applied to items that differ at most in it.
HeadAs(h, m) == [h EXCEPT ![1] = m]

LEMMA HeadedAs ==
  ASSUME NEW M, NEW h \in Seq(M), Headed(h), NEW m \in M, m.role = "system"
  PROVE  /\ HeadAs(h, m) \in Seq(M) /\ Len(HeadAs(h, m)) = Len(h) /\ HeadAs(h, m)[1] = m
         /\ Headed(HeadAs(h, m)) /\ Same(h, HeadAs(h, m))
         /\ h[1] = m => HeadAs(h, m) = h
<1>1. Len(h) \in Nat /\ Len(h) >= 1 /\ 1 \in 1 .. Len(h)
  BY EmptySeq DEF Headed
<1>2. PICK g : g = HeadAs(h, m)
  OBVIOUS
<1>3. g \in Seq(M) /\ Len(g) = Len(h) /\ \A j \in 1 .. Len(h) : g[j] = IF j = 1 THEN m ELSE h[j]
  BY <1>1, <1>2, ExceptSeq DEF HeadAs
<1>4. g[1] = m /\ \A j \in 2 .. Len(h) : g[j] = h[j]
  BY <1>1, <1>3
<1>5. Headed(g)
  BY <1>1, <1>3, <1>4, EmptySeq DEF Headed
<1>6. h[1] = m => g = h
  <2> SUFFICES ASSUME h[1] = m PROVE g = h
    OBVIOUS
  <2>1. \A j \in 1 .. Len(h) : g[j] = h[j]
    BY <1>3
  <2> QED
    BY <1>3, <2>1, SeqEqual
<1> QED
  BY <1>2, <1>3, <1>4, <1>5, <1>6 DEF Same

\* The history before and after, and the items of the log.
Rewrite(M, h, now, old) ==
  /\ M \subseteq Msgs /\ h \in Seq(M) /\ now \in Seq(M) /\ old \in Seq(Classified(M))
  /\ Headed(h) /\ Headed(now) /\ h[1] = now[1] /\ Headed(Messages(old)) /\ Same(h, Messages(old))

LEMMA Rewritten ==
  ASSUME NEW M, NEW h, NEW now, NEW old, Rewrite(M, h, now, old)
  PROVE  /\ ApplyRewriteOps(old, RewriteOps(h, now)) \in Seq(Classified(M))
         /\ Messages(ApplyRewriteOps(old, RewriteOps(h, now))) = HeadAs(now, Messages(old)[1])
<1>0. /\ M \subseteq Msgs /\ h \in Seq(M) /\ now \in Seq(M) /\ old \in Seq(Classified(M))
      /\ Headed(h) /\ Headed(now) /\ h[1] = now[1] /\ Headed(Messages(old)) /\ Same(h, Messages(old))
  BY DEF Rewrite
<1>1. old \in Seq(ItemsOf(M))
  BY <1>0, ClassifiedIn, SeqMonotonic
<1>2. PICK g : g = Messages(old)
  OBVIOUS
<1>3. g \in Seq(M) /\ Len(g) = Len(old)
  BY <1>1, <1>2, MessagesType
<1>4. g[1] \in M /\ g[1].role = "system"
  <2>1. 1 \in 1 .. Len(g)
    BY <1>0, <1>2, <1>3, EmptySeq DEF Headed
  <2> QED
    BY <1>0, <1>2, <1>3, <2>1, ElementOfSeq DEF Headed
<1>5. PICK then : then = HeadAs(now, g[1])
  OBVIOUS
<1>6. then \in Seq(M) /\ Headed(then) /\ Same(now, then) /\ then[1] = g[1]
  BY <1>0, <1>4, <1>5, HeadedAs
<1>7. Alike(M, h, now, g, then)
  BY <1>0, <1>2, <1>3, <1>6 DEF Alike
<1>8. RewriteOps(h, now) = RewriteOps(g, then)
  BY <1>7, SameOps
<1>9. Messages(ApplyRewriteOps(old, RewriteOps(g, then))) = then
  BY <1>1, <1>2, <1>6, OpsGiveBack
<1>10. RewriteOps(g, then) \in Seq(OpsOf(M))
  BY <1>3, <1>6, OpsType
<1>11. ApplyRewriteOps(old, RewriteOps(g, then)) \in Seq(Classified(M))
  BY <1>0, <1>10, ApplyKinds
<1> QED
  BY <1>2, <1>5, <1>8, <1>9, <1>11

\* A conversation cut at its end keeps one range.
LEMMA FrontOps ==
  ASSUME NEW M, NEW h \in Seq(M), NEW n \in 1 .. Len(h)
  PROVE  RewriteOps(h, SubSeq(h, 1, n)) = <<KeepRange(1, n)>>
<1>1. Len(h) \in Nat /\ n \in Nat /\ \A i \in 1 .. Len(h) : h[i] \in M
  BY LenProperties
<1>2. PICK now : now = SubSeq(h, 1, n)
  OBVIOUS
<1>3. now \in Seq(M) /\ Len(now) = n /\ \A i \in 1 .. n : now[i] = h[i]
  <2>1. \A i \in 1 .. n : h[i] \in M
    BY <1>1
  <2> QED
    BY <1>1, <1>2, <2>1, SubSeqProperties
<1>4. PICK f : RewritesAt(f, M, h, now)
  BY <1>3, RewriteFold
<1>5. /\ f[0] = [cur |-> 0, ops |-> <<>>] /\ RewriteOps(h, now) = f[n].ops
      /\ \A k \in 1 .. n : f[k] = RewriteStep(h, f[k - 1], now[k])
  BY <1>3, <1>4 DEF RewritesAt
<1> DEFINE Kept(k) == [cur |-> k, ops |-> <<KeepRange(1, k)>>]
           T == {k \in 0 .. n : f[k] = IF k = 0 THEN [cur |-> 0, ops |-> <<>>] ELSE Kept(k)}
<1>6. 0 \in T
  BY <1>1, <1>5
<1>7. ASSUME NEW k \in 1 .. n, k - 1 \in T PROVE k \in T
  <2>1. PICK a : a = f[k - 1]
    OBVIOUS
  <2>2. a = (IF k - 1 = 0 THEN [cur |-> 0, ops |-> <<>>] ELSE Kept(k - 1)) /\ f[k] = RewriteStep(h, a, h[k])
    BY <1>3, <1>5, <1>7, <2>1
  <2>3. a.cur = k - 1
    BY <2>2
  <2>4. k \in Looked(h, a, h[k]) /\ Looked(h, a, h[k]) \subseteq Nat /\ \A i \in Looked(h, a, h[k]) : i >= k
    BY <1>1, <2>3 DEF Looked
  <2>5. Min(Looked(h, a, h[k])) = k
    <3>1. PICK s : s = Looked(h, a, h[k])
      OBVIOUS
    <3>2. Min(s) \in s /\ Min(s) <= k /\ Min(s) >= k /\ Min(s) \in Nat
      BY <2>4, <3>1, LeastIn
    <3> QED
      BY <3>1, <3>2
  <2>6. RewriteStep(h, a, h[k]) = [cur |-> k, ops |-> IF ExtendsTo(a.ops, k)
                                                       THEN [a.ops EXCEPT ![Len(a.ops)].to = k]
                                                       ELSE Append(a.ops, KeepRange(k, k))]
    <3>1. Looked(h, a, h[k]) # {}
      BY <2>4
    <3> QED
      BY <2>5, <3>1, Zenon DEF RewriteStep
  <2>7. CASE k = 1
    <3>1. a.ops = <<>> /\ ~ExtendsTo(a.ops, k)
      BY <2>2, <2>7 DEF ExtendsTo
    <3>2. Append(a.ops, KeepRange(k, k)) = <<KeepRange(1, k)>>
      BY <2>7, <3>1
    <3> QED
      BY <1>1, <2>2, <2>6, <2>7, <3>1, <3>2
  <2>8. CASE k # 1
    <3>1. a.ops = <<KeepRange(1, k - 1)>>
      BY <2>2, <2>8
    <3>2. ExtendsTo(a.ops, k)
      BY <3>1 DEF ExtendsTo, Last, KeepRange
    <3>3. [a.ops EXCEPT ![Len(a.ops)].to = k] = <<KeepRange(1, k)>>
      BY <3>1 DEF KeepRange
    <3> QED
      BY <1>1, <2>2, <2>6, <2>8, <3>2, <3>3
  <2> QED
    BY <2>7, <2>8
<1>8. n \in 0 .. n /\ n # 0
  BY <1>1
<1> HIDE DEF T
<1>9. n \in T
  BY <1>1, <1>6, <1>7, <1>8, UpTo
<1> QED
  BY <1>2, <1>5, <1>8, <1>9 DEF T

LEMMA FrontApplied ==
  ASSUME NEW M, NEW old \in Seq(Classified(M)), NEW n \in 1 .. Len(old)
  PROVE  /\ ApplyRewriteOps(old, <<KeepRange(1, n)>>) \in Seq(Classified(M))
         /\ Messages(ApplyRewriteOps(old, <<KeepRange(1, n)>>)) = SubSeq(Messages(old), 1, n)
<1>1. Len(old) \in Nat /\ n \in Nat /\ \A i \in 1 .. Len(old) : old[i] \in Classified(M)
  BY LenProperties
<1>2. old \in Seq(ItemsOf(M))
  BY SeqMonotonic DEF Classified
<1>3. KeepRange(1, n) \in OpsOf(M) /\ KeepRange(1, n).new = <<>> /\ KeepRange(1, n).from = 1 /\ KeepRange(1, n).to = n
  BY <1>1, EmptySeq DEF KeepRange, OpsOf
<1>4. ApplyRewriteOps(old, Append(<<>>, KeepRange(1, n))) = ApplyStep(old, ApplyRewriteOps(old, <<>>), KeepRange(1, n))
  <2>1. PICK none, op : none = <<>> /\ op = KeepRange(1, n)
    OBVIOUS
  <2>2. none \in Seq(OpsOf(M)) /\ op \in OpsOf(M)
    BY <1>3, <2>1, EmptySeq
  <2>3. ApplyRewriteOps(old, Append(none, op)) = ApplyStep(old, ApplyRewriteOps(old, none), op)
    BY <1>2, <2>2, ApplyMore
  <2> QED
    BY <2>1, <2>3, Zenon
<1>5. ApplyRewriteOps(old, <<>>) = <<>>
  BY <1>2, ApplyNone
<1>6. Append(<<>>, KeepRange(1, n)) = <<KeepRange(1, n)>>
  OBVIOUS
<1>7. ApplyStep(old, <<>>, KeepRange(1, n)) = <<>> \o SubSeq(old, 1, n)
  <2>1. PICK op, none : op = KeepRange(1, n) /\ none = <<>>
    OBVIOUS
  <2>2. op.new = <<>> /\ op.from = 1 /\ op.to = n /\ op.to <= Len(old)
    BY <1>1, <1>3, <2>1
  <2>3. ApplyStep(old, none, op) = none \o SubSeq(old, op.from, op.to)
    BY <2>2, Zenon DEF ApplyStep
  <2> QED
    BY <2>1, <2>2, <2>3, Zenon
<1>8. SubSeq(old, 1, n) \in Seq(Classified(M))
  <2>1. \A i \in 1 .. n : old[i] \in Classified(M)
    BY <1>1
  <2> QED
    BY <1>1, <2>1, SubSeqProperties
<1>9. <<>> \o SubSeq(old, 1, n) = SubSeq(old, 1, n)
  BY <1>8, ConcatEmptySeq
<1>10. Messages(SubSeq(old, 1, n)) = SubSeq(Messages(old), 1, n)
  <2>1. 1 \in 1 .. Len(old) /\ n \in 1 .. Len(old)
    BY <1>1
  <2> QED
    BY <1>2, <2>1, MessagesSubSeq
<1> QED
  BY <1>4, <1>5, <1>6, <1>7, <1>8, <1>9, <1>10

-----------------------------------------------------------------------------
(* Choosing the prompt: the system prompt stays first, what was pinned and *)
(* the latest message stay.                                                *)

\* Items that begin with the system prompt x and have no other system message.
Fronted(M, s, x) ==
  /\ s \in Seq(Classified(M)) /\ s # <<>> /\ s[1] = x /\ x \in Classified(M) /\ x.msg.role = "system"
  /\ \A i \in 2 .. Len(s) : s[i] \in Plain(M)

LEMMA FrontedHeaded ==
  ASSUME NEW M, M \subseteq Msgs, NEW s, NEW x, Fronted(M, s, x)
  PROVE  /\ Messages(s) \in Seq(M) /\ Headed(Messages(s)) /\ Messages(s)[1] = x.msg
         /\ Len(Messages(s)) = Len(s) /\ Last(Messages(s)) = Last(s).msg
<1>1. s \in Seq(ItemsOf(M)) /\ s # <<>>
  BY ClassifiedIn, SeqMonotonic DEF Fronted
<1>2. Len(s) \in Nat /\ Len(s) >= 1
  BY <1>1, EmptySeq
<1>3. PICK h : h = Messages(s)
  OBVIOUS
<1>4. h \in Seq(M) /\ Len(h) = Len(s) /\ \A i \in 1 .. Len(s) : h[i] = s[i].msg
  BY <1>1, <1>3, MessagesType
<1>5. h[1] = x.msg /\ h[1].role = "system" /\ h # <<>>
  BY <1>2, <1>4, EmptySeq DEF Fronted
<1>6. \A i \in 2 .. Len(h) : h[i].role # "system"
  BY <1>2, <1>4 DEF Fronted, Plain
<1>7. Last(h) = Last(s).msg
  BY <1>2, <1>4 DEF Last
<1> QED
  BY <1>3, <1>4, <1>5, <1>6, <1>7 DEF Headed

LEMMA HeadedFronted ==
  ASSUME NEW M, NEW s \in Seq(Classified(M)), Headed(Messages(s))
  PROVE  Fronted(M, s, s[1])
<1>1. s \in Seq(ItemsOf(M))
  BY SeqMonotonic DEF Classified
<1>2. /\ Len(s) \in Nat /\ \A i \in 1 .. Len(s) : s[i] \in Classified(M) /\ Messages(s)[i] = s[i].msg
      /\ Len(Messages(s)) = Len(s)
  BY <1>1, MessagesType, LenProperties
<1>3. s # <<>> /\ Len(s) >= 1
  <2>1. Messages(<<>>) = <<>>
    BY DEF Messages
  <2> QED
    BY <2>1, EmptySeq DEF Headed
<1>4. s[1].msg.role = "system" /\ s[1] \in Classified(M)
  BY <1>2, <1>3 DEF Headed
<1>5. \A i \in 2 .. Len(s) : s[i] \in Plain(M)
  BY <1>2 DEF Headed, Plain
<1> QED
  BY <1>3, <1>4, <1>5 DEF Fronted

LEMMA FrontedConcat ==
  ASSUME NEW M, NEW s, NEW x, Fronted(M, s, x), NEW t \in Seq(Plain(M))
  PROVE  /\ Fronted(M, s \o t, x)
         /\ t # <<>> => Last(s \o t) = Last(t) /\ Len(s \o t) >= 2
<1>1. /\ s \in Seq(Classified(M)) /\ t \in Seq(Classified(M)) /\ s # <<>> /\ s[1] = x
      /\ \A i \in 2 .. Len(s) : s[i] \in Plain(M)
  BY SeqMonotonic DEF Fronted, Plain
<1>2. Len(s) \in Nat /\ Len(s) >= 1 /\ Len(t) \in Nat /\ \A i \in 1 .. Len(t) : t[i] \in Plain(M)
  BY <1>1, EmptySeq, LenProperties
<1>3. PICK q : q = s \o t
  OBVIOUS
<1>4. q \in Seq(Classified(M)) /\ Len(q) = Len(s) + Len(t) /\ \A i \in 1 .. Len(s) + Len(t) : q[i] = IF i <= Len(s) THEN s[i] ELSE t[i - Len(s)]
  BY <1>1, <1>3, ConcatProperties
<1>5. q # <<>> /\ q[1] = x
  BY <1>1, <1>2, <1>4, EmptySeq
<1>6. ASSUME NEW i \in 2 .. Len(q) PROVE q[i] \in Plain(M)
  <2>1. CASE i <= Len(s)
    BY <1>1, <1>2, <1>4, <2>1
  <2>2. CASE ~(i <= Len(s))
    <3>1. q[i] = t[i - Len(s)] /\ i - Len(s) \in 1 .. Len(t)
      BY <1>2, <1>4, <2>2
    <3> QED
      BY <1>2, <3>1
  <2> QED
    BY <2>1, <2>2
<1>7. t # <<>> => Last(q) = Last(t) /\ Len(q) >= 2
  <2> SUFFICES ASSUME t # <<>> PROVE Last(q) = Last(t) /\ Len(q) >= 2
    OBVIOUS
  <2>1. Len(t) >= 1
    BY <1>1, EmptySeq
  <2>2. q[Len(q)] = t[Len(t)]
    BY <1>2, <1>4, <2>1
  <2> QED
    BY <1>2, <1>4, <2>1, <2>2 DEF Last
<1> QED
  BY <1>3, <1>4, <1>5, <1>6, <1>7 DEF Fronted

\* What is of a kind: for the system kind, the system prompt.
OfAKind(M, kind) == {it \in Classified(M) : it.kind = kind}

LEMMA OfKindIn ==
  ASSUME NEW M, NEW s \in Seq(Classified(M)), NEW kind
  PROVE  /\ OfKind(s, kind) = Only(s, OfAKind(M, kind))
         /\ OfKind(s, kind) \in Seq(OfAKind(M, kind))
         /\ kind # "system" => OfAKind(M, kind) \subseteq Plain(M)
<1>1. OfKind(s, kind) = Only(s, OfAKind(M, kind))
  BY OfKindIsOnly DEF OfAKind
<1>2. Only(s, OfAKind(M, kind)) \in Seq(Classified(M) \cap OfAKind(M, kind))
  BY OnlyIn
<1>3. Classified(M) \cap OfAKind(M, kind) = OfAKind(M, kind)
  BY DEF OfAKind
<1>4. kind # "system" => OfAKind(M, kind) \subseteq Plain(M)
  BY DEF OfAKind, Plain, Classified, KindIs
<1> QED
  BY <1>1, <1>2, <1>3, <1>4

\* One element, and what follows it.
LEMMA OnlyFirst ==
  ASSUME NEW B, NEW s \in Seq(B), s # <<>>, NEW K
  PROVE  /\ s[1] \in B /\ Tail(s) \in Seq(B)
         /\ Only(s, K) = (IF s[1] \in K THEN <<s[1]>> ELSE <<>>) \o Only(Tail(s), K)
<1>1. Head(s) = s[1] /\ Head(s) \in B /\ Tail(s) \in Seq(B)
  BY HeadTailProperties
<1>2. PICK x, t : x = s[1] /\ t = Tail(s)
  OBVIOUS
<1>3. x \in B /\ t \in Seq(B) /\ <<x>> \in Seq(B)
  BY <1>1, <1>2
<1>4. s = <<x>> \o t
  <2>1. PICK q : q = <<x>> \o t
    OBVIOUS
  <2>2. Len(s) \in Nat /\ Len(s) >= 1 /\ Len(t) = Len(s) - 1 /\ Len(<<x>>) = 1
        /\ \A i \in 1 .. Len(t) : t[i] = s[i + 1]
    BY <1>2, HeadTailProperties, EmptySeq
  <2>3. q \in Seq(B) /\ Len(q) = Len(s) /\ \A i \in 1 .. Len(s) : q[i] = IF i <= 1 THEN x ELSE t[i - 1]
    BY <1>3, <2>1, <2>2, ConcatProperties
  <2>4. \A i \in 1 .. Len(s) : q[i] = s[i]
    BY <1>2, <2>2, <2>3
  <2> QED
    BY <2>1, <2>3, <2>4, SeqEqual
<1>5. Only(<<x>> \o t, K) = Only(<<x>>, K) \o Only(t, K)
  BY <1>3, OnlyConcat
<1>6. Only(<<x>>, K) = IF x \in K THEN <<x>> ELSE <<>>
  <2>1. PICK none : none = <<>>
    OBVIOUS
  <2>2. none \in Seq(B) /\ Append(none, x) = <<x>> /\ Only(none, K) = none
    BY <2>1, EmptySeq, OnlyGrows
  <2>3. Only(Append(none, x), K) = KeptIf(Only(none, K), x, K)
    BY <1>3, <2>2, OnlyGrows
  <2> QED
    BY <2>1, <2>2, <2>3, Zenon DEF KeptIf
<1> QED
  BY <1>2, <1>3, <1>4, <1>5, <1>6, Zenon

LEMMA SystemOf ==
  ASSUME NEW M, NEW s, NEW x, Fronted(M, s, x)
  PROVE  OfKind(s, "system") = <<x>>
<1>1. s \in Seq(Classified(M)) /\ s # <<>> /\ s[1] = x /\ x \in Classified(M) /\ x.msg.role = "system"
  BY DEF Fronted
<1>2. OfKind(s, "system") = Only(s, OfAKind(M, "system"))
  BY <1>1, OfKindIn
<1>3. x \in OfAKind(M, "system")
  BY <1>1 DEF OfAKind, Classified, KindIs
<1>4. /\ Tail(s) \in Seq(Classified(M))
      /\ Only(s, OfAKind(M, "system")) = <<x>> \o Only(Tail(s), OfAKind(M, "system"))
  BY <1>1, <1>3, OnlyFirst
<1>5. \A i \in 1 .. Len(Tail(s)) : Tail(s)[i] \in Plain(M)
  <2>1. Len(Tail(s)) = Len(s) - 1 /\ Len(s) \in Nat /\ \A i \in 1 .. Len(Tail(s)) : Tail(s)[i] = s[i + 1]
    BY <1>1, HeadTailProperties, LenProperties
  <2>2. \A i \in 1 .. Len(Tail(s)) : i + 1 \in 2 .. Len(s)
    BY <2>1
  <2> QED
    BY <2>1, <2>2 DEF Fronted
<1>6. Tail(s) \in Seq(Plain(M))
  BY <1>4, <1>5, SeqIn
<1>7. OfAKind(M, "system") \cap Plain(M) = {}
  BY DEF OfAKind, Plain, Classified, KindIs
<1>8. Only(Tail(s), OfAKind(M, "system")) = <<>>
  BY <1>6, <1>7, OnlyNoneAll
<1>9. <<x>> \o <<>> = <<x>>
  <2>1. <<x>> \in Seq({x})
    OBVIOUS
  <2> QED
    BY <2>1, ConcatEmptySeq
<1> QED
  BY <1>2, <1>4, <1>8, <1>9, Zenon

\* The latest turns, and the newest knowledge.
LEMMA KeptTurns ==
  ASSUME NEW S, NEW tail \in Seq(S), NEW room
  PROVE  /\ KeepTurnsFrom(tail, room) \in Seq(S)
         /\ tail # <<>> => KeepTurnsFrom(tail, room) # <<>> /\ Last(KeepTurnsFrom(tail, room)) = Last(tail)
<1>1. CASE tail = <<>>
  BY <1>1, KeepTurnsIs
<1>2. CASE tail # <<>>
  <2>1. PICK s : s = FitsFrom(tail, room) \cup {LastTurn(tail)}
    OBVIOUS
  <2>2. Len(tail) \in Nat /\ Len(tail) >= 1
    BY <1>2, EmptySeq
  <2>3. s \subseteq 1 .. Len(tail) /\ s # {}
    BY <1>2, <2>1, LastTurnIs DEF FitsFrom
  <2>4. PICK i : i = Min(s)
    OBVIOUS
  <2>5. i \in 1 .. Len(tail)
    <3>1. s \subseteq Nat
      BY <2>2, <2>3
    <3> QED
      BY <2>3, <2>4, <3>1, LeastIn
  <2>6. KeepTurnsFrom(tail, room) = Rest(tail, i)
    BY <1>2, <2>1, <2>4, KeepTurnsIs
  <2>7. i \in 1 .. Len(tail) + 1
    BY <2>2, <2>5
  <2>8. /\ Rest(tail, i) \in Seq(S) /\ Len(Rest(tail, i)) = Len(tail) - i + 1
        /\ \A j \in 1 .. Len(tail) - i + 1 : Rest(tail, i)[j] = tail[i + j - 1]
    BY <2>7, RestIs
  <2>9. PICK r : r = Rest(tail, i)
    OBVIOUS
  <2>10. Len(r) >= 1 /\ r[Len(r)] = tail[Len(tail)]
    BY <2>2, <2>5, <2>8, <2>9
  <2>11. r # <<>> /\ Last(r) = Last(tail)
    BY <2>10, EmptySeq DEF Last
  <2> QED
    BY <2>6, <2>8, <2>9, <2>11
<1> QED
  BY <1>1, <1>2

\* Items of which one is the system prompt, wherever it is.
Prompted(M, s, x) ==
  s \in Seq(Classified(M)) /\ x \in Classified(M) /\ x.msg.role = "system" /\ OfKind(s, "system") = <<x>>

\* What the assembled prompt consists of.
PartsOf(M, s, x, most, pins, sums, kb, tail) ==
  /\ pins \in Seq(Plain(M)) /\ sums \in Seq(Plain(M)) /\ kb \in Seq(Plain(M)) /\ tail \in Seq(Plain(M))
  /\ pins = OfKind(s, "pin")
  /\ Assemble(s, most) = (((<<x>> \o pins) \o sums) \o kb) \o tail
  /\ OfKind(s, "turn") # <<>> => tail # <<>> /\ Last(tail) = Last(OfKind(s, "turn"))

LEMMA AssembledParts ==
  ASSUME NEW M, NEW s, NEW x, Prompted(M, s, x), NEW most \in Nat
  PROVE  \E pins, sums, kb, tail : PartsOf(M, s, x, most, pins, sums, kb, tail)
<1>0. s \in Seq(Classified(M)) /\ OfKind(s, "system") = <<x>>
  BY DEF Prompted
<1>1. PICK pins, sums, kb, tail :
        pins = OfKind(s, "pin") /\ sums = OfKind(s, "summary") /\ kb = OfKind(s, "kb") /\ tail = OfKind(s, "turn")
  OBVIOUS
<1>2. pins \in Seq(Plain(M)) /\ sums \in Seq(Plain(M)) /\ kb \in Seq(Plain(M)) /\ tail \in Seq(Plain(M))
  <2>1. \A kind : kind # "system" => OfKind(s, kind) \in Seq(Plain(M))
    BY <1>0, OfKindIn, SeqMonotonic
  <2> QED
    BY <1>1, <2>1
<1>3. CASE most = 0
  <2>1. Assemble(s, most) = (((<<x>> \o pins) \o sums) \o kb) \o tail
    BY <1>0, <1>1, <1>3, Zenon DEF Assemble
  <2>2. PartsOf(M, s, x, most, pins, sums, kb, tail)
    BY <1>1, <1>2, <2>1, Zenon DEF PartsOf
  <2> QED
    BY <2>2, Zenon
<1>4. CASE most # 0
  <2>1. PICK fixed : fixed = (<<x>> \o pins) \o sums
    OBVIOUS
  <2>2. Len(fixed) \in Nat
    <3>1. <<x>> \in Seq({x} \cup Plain(M)) /\ pins \in Seq({x} \cup Plain(M)) /\ sums \in Seq({x} \cup Plain(M))
      BY <1>2, SeqMonotonic
    <3> QED
      BY <2>1, <3>1, ConcatProperties, LenProperties
  <2>3. PICK n : n = KeptKB(Len(fixed), kb, tail, most)
    OBVIOUS
  <2>4. n \in 0 .. Len(kb)
    BY <1>2, <2>2, <2>3, KeptKBIs
  <2>5. Assemble(s, most) = (fixed \o Newest(kb, n)) \o KeepTurnsFrom(tail, most - Len(fixed) - n)
    BY <1>0, <1>1, <1>4, <2>1, <2>3, Zenon DEF Assemble, KeptKB
  <2>6. Newest(kb, n) \in Seq(Plain(M))
    BY <1>2, <2>4, NewestIs
  <2>7. PICK rest : rest = KeepTurnsFrom(tail, most - Len(fixed) - n)
    OBVIOUS
  <2>8. rest \in Seq(Plain(M)) /\ (tail # <<>> => rest # <<>> /\ Last(rest) = Last(tail))
    BY <1>2, <2>7, KeptTurns
  <2>9. PICK some : some = Newest(kb, n)
    OBVIOUS
  <2>10. Assemble(s, most) = (((<<x>> \o pins) \o sums) \o some) \o rest
    BY <2>1, <2>5, <2>7, <2>9, Zenon
  <2>11. PartsOf(M, s, x, most, pins, sums, some, rest)
    BY <1>1, <1>2, <2>6, <2>8, <2>9, <2>10, Zenon DEF PartsOf
  <2> QED
    BY <2>11, Zenon
<1> QED
  BY <1>3, <1>4

\* The assembled prompt begins with the system prompt and ends with the latest turn.
LEMMA AssembledFront ==
  ASSUME NEW M, NEW s, NEW x, Prompted(M, s, x), NEW most \in Nat
  PROVE  /\ Fronted(M, Assemble(s, most), x)
         /\ OfKind(s, "turn") # <<>> =>
              Last(Assemble(s, most)) = Last(OfKind(s, "turn")) /\ Len(Assemble(s, most)) >= 2
<1>0. PICK pins, sums, kb, tail : PartsOf(M, s, x, most, pins, sums, kb, tail)
  BY AssembledParts, Zenon
<1>1. /\ pins \in Seq(Plain(M)) /\ sums \in Seq(Plain(M)) /\ kb \in Seq(Plain(M)) /\ tail \in Seq(Plain(M))
      /\ Assemble(s, most) = (((<<x>> \o pins) \o sums) \o kb) \o tail
      /\ OfKind(s, "turn") # <<>> => tail # <<>> /\ Last(tail) = Last(OfKind(s, "turn"))
  BY <1>0, Zenon DEF PartsOf
<1>2. PICK a : a = <<x>>
  OBVIOUS
<1>3. Fronted(M, a, x)
  <2>1. x \in Classified(M) /\ x.msg.role = "system"
    BY DEF Prompted
  <2>2. a \in Seq(Classified(M)) /\ a # <<>> /\ a[1] = x /\ Len(a) = 1
    BY <1>2, <2>1
  <2>3. \A i \in 2 .. Len(a) : a[i] \in Plain(M)
    BY <2>2
  <2> QED
    BY <2>1, <2>2, <2>3 DEF Fronted
<1>4. PICK b : b = a \o pins
  OBVIOUS
<1>5. Fronted(M, b, x)
  BY <1>1, <1>3, <1>4, FrontedConcat
<1>6. PICK c : c = b \o sums
  OBVIOUS
<1>7. Fronted(M, c, x)
  BY <1>1, <1>5, <1>6, FrontedConcat
<1>8. PICK d : d = c \o kb
  OBVIOUS
<1>9. Fronted(M, d, x)
  BY <1>1, <1>7, <1>8, FrontedConcat
<1>10. Fronted(M, d \o tail, x) /\ (tail # <<>> => Last(d \o tail) = Last(tail) /\ Len(d \o tail) >= 2)
  BY <1>1, <1>9, FrontedConcat
<1> QED
  BY <1>1, <1>2, <1>4, <1>6, <1>8, <1>10

\* No pin is dropped.
OfMessage(M, m) == {it \in Classified(M) : it.msg = m}

LEMMA AssembledPins ==
  ASSUME NEW M, NEW s, NEW x, Prompted(M, s, x), NEW most \in Nat, NEW m, m.text = "pinned"
  PROVE  Len(Only(Assemble(s, most), OfMessage(M, m))) >= Len(Only(s, OfMessage(M, m)))
<1>0. PICK pins, sums, kb, tail : PartsOf(M, s, x, most, pins, sums, kb, tail)
  BY AssembledParts, Zenon
<1>1. /\ pins \in Seq(Plain(M)) /\ sums \in Seq(Plain(M)) /\ kb \in Seq(Plain(M)) /\ tail \in Seq(Plain(M))
      /\ pins = OfKind(s, "pin") /\ Assemble(s, most) = (((<<x>> \o pins) \o sums) \o kb) \o tail
  BY <1>0, Zenon DEF PartsOf
<1>2. PICK K : K = OfMessage(M, m)
  OBVIOUS
<1>3. /\ <<x>> \in Seq(Classified(M)) /\ pins \in Seq(Classified(M)) /\ sums \in Seq(Classified(M)) /\ kb \in Seq(Classified(M))
      /\ tail \in Seq(Classified(M)) /\ s \in Seq(Classified(M))
  <2>1. x \in Classified(M) /\ s \in Seq(Classified(M))
    BY DEF Prompted
  <2>2. Seq(Plain(M)) \subseteq Seq(Classified(M))
    BY SeqMonotonic DEF Plain
  <2> QED
    BY <1>1, <2>1, <2>2
<1>4. \A a, b \in Seq(Classified(M)) :
        /\ a \o b \in Seq(Classified(M)) /\ Len(Only(a, K)) \in Nat
        /\ Len(Only(a \o b, K)) = Len(Only(a, K)) + Len(Only(b, K))
  <2> SUFFICES ASSUME NEW a \in Seq(Classified(M)), NEW b \in Seq(Classified(M))
      PROVE  /\ a \o b \in Seq(Classified(M)) /\ Len(Only(a, K)) \in Nat
             /\ Len(Only(a \o b, K)) = Len(Only(a, K)) + Len(Only(b, K))
    OBVIOUS
  <2>1. Only(a \o b, K) = Only(a, K) \o Only(b, K) /\ Only(a, K) \in Seq(Classified(M)) /\ Only(b, K) \in Seq(Classified(M))
    BY OnlyConcat, OnlyGrows
  <2>2. Len(Only(a, K) \o Only(b, K)) = Len(Only(a, K)) + Len(Only(b, K)) /\ Len(Only(a, K)) \in Nat
    BY <2>1, ConcatProperties, LenProperties
  <2> QED
    BY <2>1, <2>2, ConcatProperties
<1>5. PICK b, c, d : b = <<x>> \o pins /\ c = b \o sums /\ d = c \o kb
  OBVIOUS
<1>6. b \in Seq(Classified(M)) /\ c \in Seq(Classified(M)) /\ d \in Seq(Classified(M)) /\ Assemble(s, most) = d \o tail
  BY <1>1, <1>3, <1>4, <1>5
<1>7. /\ Len(Only(d \o tail, K)) = Len(Only(d, K)) + Len(Only(tail, K))
      /\ Len(Only(d, K)) = Len(Only(c, K)) + Len(Only(kb, K))
      /\ Len(Only(c, K)) = Len(Only(b, K)) + Len(Only(sums, K))
      /\ Len(Only(b, K)) = Len(Only(<<x>>, K)) + Len(Only(pins, K))
  BY <1>3, <1>4, <1>5, <1>6
<1>8. /\ Len(Only(<<x>>, K)) \in Nat /\ Len(Only(pins, K)) \in Nat /\ Len(Only(sums, K)) \in Nat
      /\ Len(Only(kb, K)) \in Nat /\ Len(Only(tail, K)) \in Nat
  BY <1>3, <1>4
<1>9. Only(pins, K) = Only(s, K)
  <2>1. pins = Only(s, OfAKind(M, "pin"))
    BY <1>1, <1>3, OfKindIn
  <2>2. OfAKind(M, "pin") \cap K = K
    BY <1>2 DEF OfAKind, OfMessage, Classified, KindIs
  <2>3. Only(Only(s, OfAKind(M, "pin")), K) = Only(s, OfAKind(M, "pin") \cap K)
    BY <1>3, OnlyOnly
  <2> QED
    BY <2>1, <2>2, <2>3
<1> QED
  BY <1>2, <1>6, <1>7, <1>8, <1>9

-----------------------------------------------------------------------------
(* Trimming.                                                               *)

LEMMA TrimmedFront ==
  ASSUME NEW M, NEW h \in Seq(M), Headed(h), NEW most \in Nat
  PROVE  /\ TrimMessages(h, most) \in Seq(M) /\ Headed(TrimMessages(h, most)) /\ TrimMessages(h, most)[1] = h[1]
         /\ MayGo(Last(h)) => Last(TrimMessages(h, most)) = Last(h) /\ Len(TrimMessages(h, most)) >= 2
         /\ most = 0 => TrimMessages(h, most) = h
<1>1. Len(h) \in Nat /\ Len(h) >= 1 /\ \A i \in 1 .. Len(h) : h[i] \in M
  BY EmptySeq, LenProperties DEF Headed
<1>2. most = 0 => TrimMessages(h, most) = h
  BY Zenon DEF TrimMessages
<1>3. Len(h) = 1 => ~MayGo(Last(h))
  BY DEF MayGo, Headed, Last
<1>4. CASE TrimMessages(h, most) = h
  <2>0. Len(h) = 1 \/ Len(h) >= 2
    <3>1. \A n \in Nat : n >= 1 => n = 1 \/ n >= 2
      OBVIOUS
    <3> QED
      BY <1>1, <3>1
  <2>1. MayGo(Last(h)) => Len(h) >= 2
    BY <1>3, <2>0, Zenon
  <2>2. TrimMessages(h, most) \in Seq(M)
    BY <1>4
  <2>3. Headed(TrimMessages(h, most))
    BY <1>4, Zenon
  <2>4. TrimMessages(h, most)[1] = h[1]
    BY <1>4, Zenon
  <2>5. Last(TrimMessages(h, most)) = Last(h) /\ (MayGo(Last(h)) => Len(TrimMessages(h, most)) >= 2)
    BY <1>4, <2>1, Zenon
  <2> QED
    BY <1>2, <2>2, <2>3, <2>4, <2>5
<1>5. CASE TrimMessages(h, most) # h
  <2>1. most # 0 /\ Heads(h) # {}
    BY <1>2, <1>5, TrimMessagesIs
  <2>2. PICK start : start = Min(Heads(h))
    OBVIOUS
  <2>3. /\ start \in 1 .. Len(h) /\ MayGo(h[start])
        /\ \A e \in CutPoints(h, start) : e \in start .. Len(h)
    BY <2>1, <2>2, CutPointsType
  <2>4. start >= 2
    <3>1. ~MayGo(h[1])
      BY DEF Headed, MayGo
    <3> QED
      BY <1>1, <2>3, <3>1
  <2>5. PICK e \in start .. Len(h) : TrimMessages(h, most) = Cut(h, start, e)
    <3>1. TrimMessages(h, most) = IF FitsAt(h, start, most) = {} THEN Cut(h, start, Max(CutPoints(h, start)))
                                  ELSE Cut(h, start, Min(FitsAt(h, start, most)))
      BY <2>1, <2>2, TrimMessagesIs
    <3>2. FitsAt(h, start, most) # {} => Min(FitsAt(h, start, most)) \in CutPoints(h, start)
      <4>1. FitsAt(h, start, most) \subseteq CutPoints(h, start) /\ FitsAt(h, start, most) \subseteq Nat
        BY <1>1, <2>3 DEF FitsAt
      <4> QED
        BY <4>1, LeastIn
    <3>3. Max(CutPoints(h, start)) \in CutPoints(h, start)
      <4>0. start .. Len(h) \subseteq 1 .. Len(h) /\ CutPoints(h, start) # {}
        BY <1>1, <2>3 DEF CutPoints
      <4>1. CutPoints(h, start) \in SUBSET (1 .. Len(h)) /\ CutPoints(h, start) # {}
        BY <2>3, <4>0
      <4> QED
        BY <1>1, <4>1, GreatestIn
    <3> QED
      BY <2>3, <3>1, <3>2, <3>3
  <2>6. PICK c : c = Cut(h, start, e)
    OBVIOUS
  <2>7. /\ c \in Seq(M) /\ Len(c) = start - 1 + (Len(h) - e + 1)
        /\ \A j \in 1 .. Len(c) : c[j] = IF j <= start - 1 THEN h[j] ELSE h[e + j - start]
    <3>1. IsCut(M, h, start, e, c)
      BY <2>3, <2>6, CutIs
    <3>2. /\ c \in Seq(M) /\ Len(c) = Len(h) - e + start /\ start \in Nat /\ e \in Nat /\ Len(h) \in Nat
          /\ \A j \in 1 .. start - 1 : c[j] = h[j]
          /\ \A j \in start .. Len(h) - e + start : c[j] = h[j - start + e]
      BY <1>1, <2>3, <3>1 DEF IsCut
    <3>3. ASSUME NEW j \in 1 .. Len(c) PROVE c[j] = IF j <= start - 1 THEN h[j] ELSE h[e + j - start]
      <4>1. CASE j <= start - 1
        BY <3>2, <4>1
      <4>2. CASE ~(j <= start - 1)
        <5>1. j \in start .. Len(h) - e + start /\ j - start + e = e + j - start
          BY <3>2, <4>2
        <5>2. c[j] = h[j - start + e]
          BY <3>2, <5>1
        <5> QED
          BY <4>2, <5>1, <5>2
      <4> QED
        BY <4>1, <4>2
    <3>4. Len(c) = start - 1 + (Len(h) - e + 1)
      BY <3>2
    <3> QED
      BY <3>2, <3>3, <3>4
  <2>8. c # <<>> /\ c[1] = h[1] /\ Len(c) >= 2 /\ c[Len(c)] = h[Len(h)]
    BY <1>1, <2>3, <2>4, <2>7, EmptySeq, SMTT(40)
  <2>9. \A i \in 2 .. Len(c) : c[i].role # "system"
    <3> SUFFICES ASSUME NEW i \in 2 .. Len(c) PROVE c[i].role # "system"
      OBVIOUS
    <3>1. PICK j \in 2 .. Len(h) : c[i] = h[j]
      <4>1. CASE i <= start - 1
        <5>1. i \in 2 .. Len(h) /\ i \in 1 .. Len(c)
          BY <1>1, <2>3, <2>7, <4>1
        <5>2. c[i] = h[i]
          BY <2>7, <4>1, <5>1
        <5> QED
          BY <5>1, <5>2
      <4>2. CASE ~(i <= start - 1)
        <5>1. e + i - start \in 2 .. Len(h) /\ i \in 1 .. Len(c)
          BY <1>1, <2>3, <2>4, <2>7, <4>2
        <5>2. c[i] = h[e + i - start]
          BY <2>7, <4>2, <5>1
        <5> QED
          BY <5>1, <5>2
      <4> QED
        BY <4>1, <4>2
    <3> QED
      BY <3>1 DEF Headed
  <2> QED
    BY <1>2, <2>5, <2>6, <2>7, <2>8, <2>9 DEF Headed, Last
<1> QED
  BY <1>4, <1>5

-----------------------------------------------------------------------------
(* The rebuilder: what each event of the log does to it.                   *)

\* What may be held: the text of a response, until it is known to make no calls.
Said(M) == {m \in M : m.role = "assistant" /\ m.text # "pinned"}
Rebuilders(M) ==
  [items : Seq(Classified(M)), inTurn : BOOLEAN, modelCall : BOOLEAN, calls : Nat,
   held : {<<>>} \cup {<<m>> : m \in Said(M)}, group : Nat, closed : BOOLEAN]

\* No call is under way.
Between(M, r) == r \in Rebuilders(M) /\ r.calls = 0

\* A message more.
Added(M, r, q, m, via) ==
  /\ q \in Rebuilders(M) /\ q.inTurn = r.inTurn /\ q.modelCall = r.modelCall /\ q.calls = r.calls /\ q.held = r.held
  /\ \E it : it \in Classified(M) /\ it.msg = m /\ it.kind = ClassifyItem(m, via) /\ q.items = Append(r.items, it)

LEMMA AddIs ==
  ASSUME NEW M, M \subseteq Msgs, NEW r \in Rebuilders(M), NEW m \in M, NEW via, NEW final \in BOOLEAN
  PROVE  Added(M, r, Add(r, m, via, final), m, via)
<1>1. /\ r.items \in Seq(Classified(M)) /\ r.group \in Nat /\ r.closed \in BOOLEAN
      /\ r = [items |-> r.items, inTurn |-> r.inTurn, modelCall |-> r.modelCall, calls |-> r.calls,
              held |-> r.held, group |-> r.group, closed |-> r.closed]
  BY DEF Rebuilders
<1>2. PICK g \in Nat : g = IF m.role # "system" /\ r.closed /\ ~final THEN r.group + 1 ELSE r.group
  BY <1>1
<1>3. PICK c \in BOOLEAN : c = (final \/ (r.closed /\ ~(m.role # "system" /\ r.closed /\ ~final)))
  BY <1>1
<1>4. PICK it : it = Item(m, ClassifyItem(m, via), g)
  OBVIOUS
<1>5. it \in Classified(M) /\ it.msg = m /\ it.kind = ClassifyItem(m, via)
  <2>1. m \in Msgs
    OBVIOUS
  <2>2. it \in Classified(Msgs) /\ it.msg = m
    BY <1>4, <2>1, ClassifyKind
  <2>3. it \in Classified(M)
    BY <2>2, ClassifiedIn
  <2>4. it.kind = ClassifyItem(m, via)
    BY <1>4 DEF Item
  <2> QED
    BY <2>2, <2>3, <2>4
<1>6. Append(r.items, it) \in Seq(Classified(M))
  BY <1>1, <1>5, AppendProperties
<1>7. PICK q : q = Add(r, m, via, final)
  OBVIOUS
<1>8. q = [r EXCEPT !.group = g, !.closed = c, !.items = Append(@, it)]
  BY <1>2, <1>3, <1>4, <1>7, Zenon DEF Add
<1>9. /\ q \in Rebuilders(M) /\ q.inTurn = r.inTurn /\ q.modelCall = r.modelCall /\ q.calls = r.calls /\ q.held = r.held
      /\ q.items = Append(r.items, it)
  BY <1>1, <1>6, <1>8 DEF Rebuilders
<1> QED
  BY <1>5, <1>7, <1>9 DEF Added

\* What is flushed: nothing, or the reply held.
Finished(M, r, q) ==
  /\ Between(M, q) /\ q.held = <<>> /\ q.inTurn = r.inTurn
  /\ Messages(q.items) = Messages(r.items) \o r.held
  /\ r.held = <<>> => q = r
  /\ r.items # <<>> => q.items # <<>> /\ q.items[1] = r.items[1]

LEMMA AddedMessages ==
  ASSUME NEW M, NEW r \in Rebuilders(M), NEW q, NEW m, NEW via, Added(M, r, q, m, via)
  PROVE  /\ Messages(q.items) = Append(Messages(r.items), m)
         /\ Messages(r.items) \in Seq(M) /\ Len(Messages(r.items)) = Len(r.items)
         /\ r.items # <<>> => q.items # <<>> /\ q.items[1] = r.items[1]
<1>1. PICK it : it \in Classified(M) /\ it.msg = m /\ q.items = Append(r.items, it)
  BY DEF Added
<1>2. r.items \in Seq(Classified(M)) /\ r.items \in Seq(ItemsOf(M)) /\ it \in ItemsOf(M)
  <2>1. r.items \in Seq(Classified(M))
    BY DEF Rebuilders
  <2>2. Classified(M) \subseteq ItemsOf(M)
    BY DEF Classified
  <2> QED
    BY <1>1, <2>1, <2>2, SeqMonotonic
<1>3. Messages(q.items) = Append(Messages(r.items), m)
  BY <1>1, <1>2, MessagesAppend
<1>4. Messages(r.items) \in Seq(M) /\ Len(Messages(r.items)) = Len(r.items)
  BY <1>2, MessagesType
<1>5. r.items # <<>> => q.items # <<>> /\ q.items[1] = r.items[1]
  <2> SUFFICES ASSUME r.items # <<>> PROVE q.items # <<>> /\ q.items[1] = r.items[1]
    OBVIOUS
  <2>1. Len(r.items) \in Nat /\ Len(r.items) >= 1
    BY <1>2, EmptySeq
  <2>2. Len(Append(r.items, it)) = Len(r.items) + 1 /\ \A i \in 1 .. Len(r.items) : Append(r.items, it)[i] = r.items[i]
    BY <1>1, <1>2, AppendProperties
  <2> QED
    BY <1>1, <2>1, <2>2, EmptySeq
<1> QED
  BY <1>3, <1>4, <1>5

LEMMA FinishIs ==
  ASSUME NEW M, M \subseteq Msgs, NEW r, Between(M, r)
  PROVE  Finished(M, r, Finish(r))
<1>1. r \in Rebuilders(M) /\ FlushCalls(r) = r
  BY DEF Between, FlushCalls
<1>2. /\ r.items \in Seq(Classified(M)) /\ r.held \in {<<>>} \cup {<<m>> : m \in Said(M)} /\ r.calls = 0
      /\ r = [items |-> r.items, inTurn |-> r.inTurn, modelCall |-> r.modelCall, calls |-> r.calls,
              held |-> r.held, group |-> r.group, closed |-> r.closed]
  BY DEF Rebuilders, Between
<1>3. Messages(r.items) \in Seq(M)
  <2>1. r.items \in Seq(ItemsOf(M))
    BY <1>2, SeqMonotonic DEF Classified
  <2> QED
    BY <2>1, MessagesType
<1>4. CASE r.held = <<>>
  <2>1. Finish(r) = r
    BY <1>1, <1>4, Zenon DEF Finish, FlushHeld
  <2>2. Messages(r.items) \o <<>> = Messages(r.items)
    BY <1>3, ConcatEmptySeq
  <2>3. Finished(M, r, r)
    BY <1>4, <2>2, Zenon DEF Finished
  <2> QED
    BY <2>1, <2>3, Zenon
<1>5. CASE r.held # <<>>
  <2>1. PICK m \in Said(M) : r.held = <<m>>
    BY <1>2, <1>5
  <2>2. r.held[1] = m /\ m \in M
    BY <2>1 DEF Said
  <2>3. PICK p : p = Add(r, m, "", TRUE)
    OBVIOUS
  <2>4. Added(M, r, p, m, "")
    BY <1>1, <2>2, <2>3, AddIs
  <2>5. PICK q : q = [p EXCEPT !.held = <<>>]
    OBVIOUS
  <2>6. Finish(r) = q
    BY <1>1, <1>5, <2>2, <2>3, <2>5, Zenon DEF Finish, FlushHeld
  <2>7. p \in Rebuilders(M) /\ p.inTurn = r.inTurn /\ p.calls = r.calls
    BY <2>4, Zenon DEF Added
  <2>8. q \in Rebuilders(M) /\ q.held = <<>> /\ q.items = p.items /\ q.inTurn = r.inTurn /\ q.calls = 0
    <3>1. p = [items |-> p.items, inTurn |-> p.inTurn, modelCall |-> p.modelCall, calls |-> p.calls,
               held |-> p.held, group |-> p.group, closed |-> p.closed]
      BY <2>7 DEF Rebuilders
    <3>2. q = [items |-> p.items, inTurn |-> p.inTurn, modelCall |-> p.modelCall, calls |-> p.calls,
               held |-> <<>>, group |-> p.group, closed |-> p.closed]
      BY <2>5, <3>1
    <3>3. /\ p.items \in Seq(Classified(M)) /\ p.inTurn \in BOOLEAN /\ p.modelCall \in BOOLEAN /\ p.calls \in Nat
          /\ p.group \in Nat /\ p.closed \in BOOLEAN
      BY <2>7 DEF Rebuilders
    <3>4. q \in Rebuilders(M)
      BY <3>2, <3>3 DEF Rebuilders
    <3>5. q.held = <<>> /\ q.items = p.items /\ q.inTurn = p.inTurn /\ q.calls = p.calls
      BY <3>2
    <3> QED
      BY <1>2, <2>7, <3>4, <3>5
  <2>9. Messages(p.items) = Append(Messages(r.items), m) /\ (r.items # <<>> => p.items # <<>> /\ p.items[1] = r.items[1])
    <3>1. r \in Rebuilders(M)
      BY <1>1
    <3>2. /\ Messages(p.items) = Append(Messages(r.items), m)
          /\ Messages(r.items) \in Seq(M) /\ Len(Messages(r.items)) = Len(r.items)
          /\ r.items # <<>> => p.items # <<>> /\ p.items[1] = r.items[1]
      BY <2>4, <3>1, AddedMessages, Zenon
    <3> QED
      BY <3>2
  <2>10. Append(Messages(r.items), m) = Messages(r.items) \o <<m>>
    BY <1>3, <2>2, AppendIsConcat
  <2>11. Finished(M, r, q)
    BY <1>5, <2>1, <2>8, <2>9, <2>10, Zenon DEF Finished, Between
  <2> QED
    BY <2>6, <2>11, Zenon
<1> QED
  BY <1>4, <1>5

\* There is nothing left to flush.
LEMMA FinishedTwice ==
  ASSUME NEW M, NEW q, Between(M, q), q.held = <<>>
  PROVE  Finish(q) = q
BY Zenon DEF Between, Finish, FlushCalls, FlushHeld

-----------------------------------------------------------------------------
(* One event.                                                              *)

LEMMA EventsApplied ==
  ASSUME NEW r
  PROVE  /\ Apply(r, OtherEvent) = Finish(r)
         /\ \A m, via : Apply(r, InjectionEvent(m, via)) = Add(Finish(r), m, via, FALSE)
         /\ \A turn : Apply(r, RequestEvent(turn, <<>>)) = [Finish(r) EXCEPT !.inTurn = turn]
         /\ \A turn, m : Apply(r, RequestEvent(turn, <<m>>)) = [SetSystem(Finish(r), m) EXCEPT !.inTurn = turn]
         /\ \A m : Apply(r, ResponseEvent(TRUE, m)) = [Finish(r) EXCEPT !.held = <<TrimSpace(m)>>]
         /\ \A m : Apply(r, ResponseEvent(FALSE, m)) = Finish(r)
         /\ \A ops : Apply(r, RewriteEvent(ops)) = [Finish(r) EXCEPT !.items = ApplyRewriteOps(@, ops)]
         /\ Apply(r, RoundCompacted) = CompactOldestRound(Finish(r))
<1>1. Apply(r, OtherEvent) = Finish(r)
  <2>1. PICK e : e = OtherEvent
    OBVIOUS
  <2>2. e.kind = "other"
    BY <2>1 DEF OtherEvent
  <2>3. BeforeApply(r, e) = Finish(r)
    BY <2>2 DEF BeforeApply
  <2>4. Apply(r, e) = BeforeApply(r, e)
    BY <2>2 DEF Apply
  <2> QED
    BY <2>1, <2>3, <2>4, Zenon
<1>2. ASSUME NEW m, NEW via PROVE Apply(r, InjectionEvent(m, via)) = Add(Finish(r), m, via, FALSE)
  <2>1. PICK e : e = InjectionEvent(m, via)
    OBVIOUS
  <2>2. e.kind = "injection" /\ e.msg = m /\ e.via = via
    BY <2>1 DEF InjectionEvent
  <2>3. BeforeApply(r, e) = Finish(r)
    BY <2>2 DEF BeforeApply
  <2>4. Apply(r, e) = Add(BeforeApply(r, e), e.msg, e.via, FALSE)
    BY <2>2 DEF Apply
  <2> QED
    BY <2>1, <2>2, <2>3, <2>4, Zenon
<1>3. ASSUME NEW turn PROVE Apply(r, RequestEvent(turn, <<>>)) = [Finish(r) EXCEPT !.inTurn = turn]
  <2>1. PICK e : e = RequestEvent(turn, <<>>)
    OBVIOUS
  <2>2. e.kind = "model_request" /\ e.turn = turn /\ e.system = <<>>
    BY <2>1 DEF RequestEvent
  <2>3. BeforeApply(r, e) = Finish(r)
    BY <2>2 DEF BeforeApply
  <2>4. Apply(r, e) = [BeforeApply(r, e) EXCEPT !.inTurn = e.turn]
    BY <2>2 DEF Apply
  <2> QED
    BY <2>1, <2>2, <2>3, <2>4, Zenon
<1>4. ASSUME NEW turn, NEW m PROVE Apply(r, RequestEvent(turn, <<m>>)) = [SetSystem(Finish(r), m) EXCEPT !.inTurn = turn]
  <2>1. PICK e : e = RequestEvent(turn, <<m>>)
    OBVIOUS
  <2>2. e.kind = "model_request" /\ e.turn = turn /\ e.system # <<>> /\ e.system[1] = m
    BY <2>1 DEF RequestEvent
  <2>3. BeforeApply(r, e) = Finish(r)
    BY <2>2 DEF BeforeApply
  <2>4. Apply(r, e) = [SetSystem(BeforeApply(r, e), e.system[1]) EXCEPT !.inTurn = e.turn]
    BY <2>2 DEF Apply
  <2> QED
    BY <2>1, <2>2, <2>3, <2>4, Zenon
<1>5. ASSUME NEW m PROVE Apply(r, ResponseEvent(TRUE, m)) = [Finish(r) EXCEPT !.held = <<TrimSpace(m)>>]
  <2>1. PICK e : e = ResponseEvent(TRUE, m)
    OBVIOUS
  <2>2. e.kind = "model_response" /\ e.turn /\ e.msg = m
    BY <2>1 DEF ResponseEvent
  <2>3. BeforeApply(r, e) = Finish(r)
    BY <2>2 DEF BeforeApply
  <2>4. Apply(r, e) = [BeforeApply(r, e) EXCEPT !.held = <<TrimSpace(e.msg)>>]
    BY <2>2 DEF Apply
  <2> QED
    BY <2>1, <2>2, <2>3, <2>4, Zenon
<1>6. ASSUME NEW m PROVE Apply(r, ResponseEvent(FALSE, m)) = Finish(r)
  <2>1. PICK e : e = ResponseEvent(FALSE, m)
    OBVIOUS
  <2>2. e.kind = "model_response" /\ ~e.turn
    BY <2>1 DEF ResponseEvent
  <2>3. BeforeApply(r, e) = Finish(r)
    BY <2>2 DEF BeforeApply
  <2>4. Apply(r, e) = BeforeApply(r, e)
    BY <2>2 DEF Apply
  <2> QED
    BY <2>1, <2>3, <2>4, Zenon
<1>7. ASSUME NEW ops PROVE Apply(r, RewriteEvent(ops)) = [Finish(r) EXCEPT !.items = ApplyRewriteOps(@, ops)]
  <2>1. PICK e : e = RewriteEvent(ops)
    OBVIOUS
  <2>2. e.kind = "compaction" /\ e.reason = "rewrite" /\ e.ops = ops
    BY <2>1 DEF RewriteEvent
  <2>3. BeforeApply(r, e) = Finish(r)
    BY <2>2 DEF BeforeApply
  <2>4. Apply(r, e) = [BeforeApply(r, e) EXCEPT !.items = ApplyRewriteOps(@, e.ops)]
    BY <2>2 DEF Apply
  <2> QED
    BY <2>1, <2>2, <2>3, <2>4, Zenon
<1>8. Apply(r, RoundCompacted) = CompactOldestRound(Finish(r))
  <2>1. PICK e : e = RoundCompacted
    OBVIOUS
  <2>2. e.kind = "compaction" /\ e.reason = "tool_result"
    BY <2>1 DEF RoundCompacted
  <2>3. BeforeApply(r, e) = Finish(r)
    BY <2>2 DEF BeforeApply
  <2>4. Apply(r, e) = CompactOldestRound(BeforeApply(r, e))
    BY <2>2 DEF Apply
  <2> QED
    BY <2>1, <2>3, <2>4, Zenon
<1> QED
  BY <1>1, <1>2, <1>3, <1>4, <1>5, <1>6, <1>7, <1>8

\* A call of the model, and its result.
Calls(r) == [r EXCEPT !.modelCall = TRUE, !.held = <<>>, !.calls = @ + 1]

LEMMA CallsApplied ==
  ASSUME NEW M, NEW r \in Rebuilders(M)
  PROVE  /\ r.inTurn => Apply(r, ToolCallEvent) = Calls(r)
         /\ \A m : r.modelCall => Apply(r, ToolResultEvent(m)) = Add(FlushCalls(r), m, "", FALSE)
<1>1. ASSUME r.inTurn PROVE Apply(r, ToolCallEvent) = Calls(r)
  <2>1. PICK e : e = ToolCallEvent
    OBVIOUS
  <2>2. e.kind = "tool_call"
    BY <2>1 DEF ToolCallEvent
  <2>3. PICK b : b = [r EXCEPT !.modelCall = TRUE, !.held = <<>>]
    OBVIOUS
  <2>4. b.inTurn /\ [b EXCEPT !.calls = @ + 1] = Calls(r)
    BY <1>1, <2>3 DEF Calls, Rebuilders
  <2>5. BeforeApply(r, e) = b
    BY <1>1, <2>2, <2>3 DEF BeforeApply
  <2>6. Apply(r, e) = IF BeforeApply(r, e).inTurn THEN [BeforeApply(r, e) EXCEPT !.calls = @ + 1] ELSE BeforeApply(r, e)
    BY <2>2 DEF Apply
  <2> QED
    BY <2>1, <2>4, <2>5, <2>6, Zenon
<1>2. ASSUME NEW m, r.modelCall PROVE Apply(r, ToolResultEvent(m)) = Add(FlushCalls(r), m, "", FALSE)
  <2>1. PICK e : e = ToolResultEvent(m)
    OBVIOUS
  <2>2. e.kind = "tool_result" /\ e.msg = m
    BY <2>1 DEF ToolResultEvent
  <2>3. BeforeApply(r, e) = r
    BY <1>2, <2>2 DEF BeforeApply
  <2>4. Apply(r, e) = IF BeforeApply(r, e).modelCall THEN Add(FlushCalls(BeforeApply(r, e)), e.msg, "", FALSE) ELSE BeforeApply(r, e)
    BY <2>2 DEF Apply
  <2> QED
    BY <1>2, <2>1, <2>2, <2>3, <2>4, Zenon
<1> QED
  BY <1>1, <1>2

-----------------------------------------------------------------------------
(* What the log tells: the history it would give now.                      *)

Reads(M, r, t) ==
  /\ Between(M, r) /\ r.items # <<>> /\ t \in Seq(M) /\ Headed(t) /\ Messages(Finish(r).items) = t

\* And no reply is held.
Ready(M, r, t) ==
  /\ Between(M, r) /\ r.items # <<>> /\ t \in Seq(M) /\ Headed(t) /\ Messages(r.items) = t /\ r.held = <<>>

LEMMA ReadyReads ==
  ASSUME NEW M, NEW r, NEW t, Ready(M, r, t)
  PROVE  Reads(M, r, t)
<1>1. Between(M, r) /\ r.held = <<>>
  BY DEF Ready
<1>2. Finish(r) = r
  BY <1>1, FinishedTwice
<1> QED
  BY <1>2, Zenon DEF Ready, Reads

LEMMA FinishReady ==
  ASSUME NEW M, M \subseteq Msgs, NEW r, NEW t, Reads(M, r, t)
  PROVE  Ready(M, Finish(r), t) /\ Finish(r).inTurn = r.inTurn
<1>1. Between(M, r) /\ r.items # <<>>
  BY DEF Reads
<1>2. Finished(M, r, Finish(r))
  BY <1>1, FinishIs
<1>3. /\ Between(M, Finish(r)) /\ Finish(r).held = <<>> /\ Finish(r).inTurn = r.inTurn
      /\ Finish(r).items # <<>>
  BY <1>1, <1>2, Zenon DEF Finished
<1> QED
  BY <1>3, Zenon DEF Ready, Reads

\* A rebuilder with other items, or in a turn or not.
LEMMA ReadyWith ==
  ASSUME NEW M, NEW r, NEW t, Ready(M, r, t)
  PROVE  /\ \A turn \in BOOLEAN : Ready(M, [r EXCEPT !.inTurn = turn], t) /\ [r EXCEPT !.inTurn = turn].inTurn = turn
         /\ \A its, u : its \in Seq(Classified(M)) /\ its # <<>> /\ u \in Seq(M) /\ Headed(u) /\ Messages(its) = u =>
              Ready(M, [r EXCEPT !.items = its], u) /\ [r EXCEPT !.items = its].inTurn = r.inTurn
<1>1. r \in Rebuilders(M) /\ r.calls = 0 /\ r.held = <<>> /\ r.items # <<>>
  BY DEF Ready, Between
<1>2. /\ r.items \in Seq(Classified(M)) /\ r.inTurn \in BOOLEAN /\ r.modelCall \in BOOLEAN
      /\ r.group \in Nat /\ r.closed \in BOOLEAN
      /\ r = [items |-> r.items, inTurn |-> r.inTurn, modelCall |-> r.modelCall, calls |-> r.calls,
              held |-> r.held, group |-> r.group, closed |-> r.closed]
  BY <1>1 DEF Rebuilders
<1>3. t \in Seq(M) /\ Headed(t) /\ Messages(r.items) = t
  BY DEF Ready
<1>4. ASSUME NEW turn \in BOOLEAN
      PROVE  Ready(M, [r EXCEPT !.inTurn = turn], t) /\ [r EXCEPT !.inTurn = turn].inTurn = turn
  <2>1. PICK q : q = [r EXCEPT !.inTurn = turn]
    OBVIOUS
  <2>2. q = [items |-> r.items, inTurn |-> turn, modelCall |-> r.modelCall, calls |-> 0,
             held |-> <<>>, group |-> r.group, closed |-> r.closed]
    BY <1>1, <1>2, <2>1
  <2>3. q \in Rebuilders(M)
    BY <1>2, <2>2 DEF Rebuilders
  <2>4. q.items = r.items /\ q.calls = 0 /\ q.held = <<>> /\ q.inTurn = turn
    BY <2>2
  <2>5. Ready(M, q, t)
    BY <1>1, <1>3, <2>3, <2>4 DEF Ready, Between
  <2> QED
    BY <2>1, <2>4, <2>5
<1>5. ASSUME NEW its, NEW u, its \in Seq(Classified(M)), its # <<>>, u \in Seq(M), Headed(u), Messages(its) = u
      PROVE  Ready(M, [r EXCEPT !.items = its], u) /\ [r EXCEPT !.items = its].inTurn = r.inTurn
  <2>1. PICK q : q = [r EXCEPT !.items = its]
    OBVIOUS
  <2>2. q = [items |-> its, inTurn |-> r.inTurn, modelCall |-> r.modelCall, calls |-> 0,
             held |-> <<>>, group |-> r.group, closed |-> r.closed]
    BY <1>1, <1>2, <2>1
  <2>3. q \in Rebuilders(M)
    BY <1>2, <1>5, <2>2 DEF Rebuilders
  <2>4. q.items = its /\ q.calls = 0 /\ q.held = <<>> /\ q.inTurn = r.inTurn
    BY <2>2
  <2>5. Ready(M, q, u)
    BY <1>5, <2>3, <2>4 DEF Ready, Between
  <2> QED
    BY <2>1, <2>4, <2>5
<1> QED
  BY <1>4, <1>5

\* The events that add nothing.
LEMMA StillRead ==
  ASSUME NEW M, M \subseteq Msgs, NEW r, NEW t, Reads(M, r, t)
  PROVE  /\ Ready(M, Apply(r, OtherEvent), t)
         /\ \A m : Ready(M, Apply(r, ResponseEvent(FALSE, m)), t)
         /\ \A turn \in BOOLEAN :
              Ready(M, Apply(r, RequestEvent(turn, <<>>)), t) /\ Apply(r, RequestEvent(turn, <<>>)).inTurn = turn
<1>1. PICK q : q = Finish(r)
  OBVIOUS
<1>2. Ready(M, q, t)
  BY <1>1, FinishReady
<1>3. Apply(r, OtherEvent) = q /\ \A m : Apply(r, ResponseEvent(FALSE, m)) = q
  BY <1>1, EventsApplied, Zenon
<1>4. \A turn : Apply(r, RequestEvent(turn, <<>>)) = [q EXCEPT !.inTurn = turn]
  BY <1>1, EventsApplied, Zenon
<1>5. \A turn \in BOOLEAN : Ready(M, [q EXCEPT !.inTurn = turn], t) /\ [q EXCEPT !.inTurn = turn].inTurn = turn
  BY <1>2, ReadyWith
<1> QED
  BY <1>2, <1>3, <1>4, <1>5

\* A message more, at the end of a conversation.
LEMMA HeadedAppend ==
  ASSUME NEW M, NEW h \in Seq(M), Headed(h), NEW m \in M, m.role # "system"
  PROVE  /\ Append(h, m) \in Seq(M) /\ Headed(Append(h, m)) /\ Append(h, m)[1] = h[1]
         /\ Len(h) \in Nat /\ Len(h) >= 1 /\ Len(Append(h, m)) = Len(h) + 1 /\ Len(Append(h, m)) >= 2
         /\ Last(Append(h, m)) = m /\ Front(Append(h, m)) = h
<1>1. /\ Append(h, m) \in Seq(M) /\ Len(Append(h, m)) = Len(h) + 1 /\ Append(h, m)[Len(h) + 1] = m
      /\ \A i \in 1 .. Len(h) : Append(h, m)[i] = h[i]
  BY AppendProperties
<1>2. h # <<>> /\ h[1].role = "system" /\ \A i \in 2 .. Len(h) : h[i].role # "system"
  BY DEF Headed
<1>3. Len(h) \in Nat /\ Len(h) >= 1
  BY <1>2, EmptySeq
<1>4. PICK g : g = Append(h, m)
  OBVIOUS
<1>5. g # <<>> /\ g[1] = h[1] /\ Last(g) = m
  BY <1>1, <1>3, <1>4, EmptySeq DEF Last
<1>6. \A i \in 2 .. Len(g) : g[i].role # "system"
  <2> TAKE i \in 2 .. Len(g)
  <2>1. i \in 2 .. Len(h) \/ i = Len(h) + 1
    BY <1>1, <1>3, <1>4
  <2>2. CASE i \in 2 .. Len(h)
    <3>1. g[i] = h[i]
      BY <1>1, <1>3, <1>4, <2>2
    <3> QED
      BY <1>2, <2>2, <3>1
  <2>3. CASE i = Len(h) + 1
    BY <1>1, <1>4, <2>3
  <2> QED
    BY <2>1, <2>2, <2>3
<1>7. Headed(g)
  BY <1>2, <1>5, <1>6 DEF Headed
<1>8. Front(g) = h
  <2>0. g \in Seq(M)
    BY <1>1, <1>4
  <2>1. \A e \in M : Front(g) \in Seq(M) /\ Len(Front(g)) = Len(g) - 1 /\ \A j \in 1 .. Len(g) - 1 : Front(g)[j] = g[j]
    BY <2>0, <1>5, FrontLast, Zenon
  <2>2. Len(Front(g)) = Len(h) /\ \A j \in 1 .. Len(h) : Front(g)[j] = h[j]
    BY <1>1, <1>3, <1>4, <2>1
  <2>3. Front(g) \in Seq(M)
    BY <2>1
  <2> QED
    BY <2>2, <2>3, SeqEqual
<1> QED
  BY <1>1, <1>3, <1>4, <1>5, <1>7, <1>8

LEMMA InjectionRead ==
  ASSUME NEW M, M \subseteq Msgs, NEW r, NEW t, Reads(M, r, t), NEW m \in M, m.role # "system"
  PROVE  \A via : Ready(M, Apply(r, InjectionEvent(m, via)), Append(t, m))
<1> TAKE via
<1>1. PICK q : q = Finish(r)
  OBVIOUS
<1>2. Ready(M, q, t)
  BY <1>1, FinishReady
<1>3. PICK p : p = Apply(r, InjectionEvent(m, via))
  OBVIOUS
<1>4. p = Add(q, m, via, FALSE)
  BY <1>1, <1>3, EventsApplied, Zenon
<1>5. q \in Rebuilders(M) /\ q.calls = 0 /\ q.items # <<>> /\ q.held = <<>>
  BY <1>2 DEF Ready, Between
<1>6. Added(M, q, p, m, via)
  BY <1>4, <1>5, AddIs
<1>7. Messages(p.items) = Append(Messages(q.items), m) /\ (q.items # <<>> => p.items # <<>>)
  BY <1>5, <1>6, AddedMessages, SMT
<1>8. t \in Seq(M) /\ Headed(t) /\ Messages(q.items) = t
  BY <1>2 DEF Ready
<1>9. Append(t, m) \in Seq(M) /\ Headed(Append(t, m))
  BY <1>8, HeadedAppend
<1>10. p \in Rebuilders(M) /\ p.calls = 0 /\ p.held = <<>>
  BY <1>5, <1>6, Zenon DEF Added
<1>11. Messages(p.items) = Append(t, m) /\ p.items # <<>>
  BY <1>5, <1>7, <1>8
<1>12. Ready(M, p, Append(t, m))
  BY <1>9, <1>10, <1>11, Zenon DEF Ready, Between
<1> QED
  BY <1>3, <1>12

LEMMA RewriteRead ==
  ASSUME NEW M, M \subseteq Msgs, NEW h \in Seq(M), Headed(h), NEW now \in Seq(M), Headed(now), h[1] = now[1],
         NEW x \in M, x.role = "system", NEW r, Reads(M, r, HeadAs(h, x))
  PROVE  Ready(M, Apply(r, RewriteEvent(RewriteOps(h, now))), HeadAs(now, x))
<1>1. PICK q : q = Finish(r)
  OBVIOUS
<1>2. Ready(M, q, HeadAs(h, x))
  BY <1>1, FinishReady
<1>3. PICK old : old = q.items
  OBVIOUS
<1>4. old \in Seq(Classified(M)) /\ Messages(old) = HeadAs(h, x)
  BY <1>2, <1>3 DEF Ready, Between, Rebuilders
<1>5. /\ Headed(HeadAs(h, x)) /\ Same(h, HeadAs(h, x)) /\ HeadAs(h, x)[1] = x
  BY HeadedAs
<1>6. Rewrite(M, h, now, old)
  BY <1>4, <1>5 DEF Rewrite
<1>7. PICK its : its = ApplyRewriteOps(old, RewriteOps(h, now))
  OBVIOUS
<1>8. its \in Seq(Classified(M)) /\ Messages(its) = HeadAs(now, Messages(old)[1])
  BY <1>6, <1>7, Rewritten
<1>9. Messages(its) = HeadAs(now, x)
  BY <1>4, <1>5, <1>8
<1>10. HeadAs(now, x) \in Seq(M) /\ Headed(HeadAs(now, x))
  BY HeadedAs
<1>11. its # <<>>
  <2>1. its \in Seq(ItemsOf(M))
    BY <1>8, SeqMonotonic DEF Classified
  <2>2. Len(Messages(its)) = Len(its)
    BY <2>1, MessagesType
  <2>3. HeadAs(now, x) # <<>>
    BY <1>10 DEF Headed
  <2>4. Len(HeadAs(now, x)) # 0
    BY <1>10, <2>3, EmptySeq
  <2> QED
    BY <1>9, <2>1, <2>2, <2>4, EmptySeq
<1>12. Apply(r, RewriteEvent(RewriteOps(h, now))) = [q EXCEPT !.items = ApplyRewriteOps(@, RewriteOps(h, now))]
  BY <1>1, EventsApplied, Zenon
<1>13. [q EXCEPT !.items = ApplyRewriteOps(@, RewriteOps(h, now))] = [q EXCEPT !.items = its]
  BY <1>3, <1>7
<1>14. Ready(M, [q EXCEPT !.items = its], HeadAs(now, x))
  BY <1>2, <1>8, <1>9, <1>10, <1>11, ReadyWith
<1> QED
  BY <1>12, <1>13, <1>14

-----------------------------------------------------------------------------
(* A request that carries the system prompt, a reply, and a round of tools. *)

LEMMA ItemsRead ==
  ASSUME NEW M, M \subseteq Msgs, NEW r, NEW t, Ready(M, r, t)
  PROVE  /\ r.items \in Seq(Classified(M)) /\ r.items \in Seq(ItemsOf(M)) /\ r.items # <<>> /\ Messages(r.items) = t
         /\ Len(r.items) = Len(t) /\ Len(t) \in Nat /\ Len(t) >= 1
         /\ \A i \in 1 .. Len(t) : t[i] = r.items[i].msg
<1>1. r.items \in Seq(Classified(M)) /\ r.items # <<>> /\ Messages(r.items) = t /\ t \in Seq(M) /\ Headed(t)
  BY DEF Ready, Between, Rebuilders
<1>2. r.items \in Seq(ItemsOf(M))
  BY <1>1, SeqMonotonic DEF Classified
<1>3. Len(Messages(r.items)) = Len(r.items) /\ \A i \in 1 .. Len(r.items) : Messages(r.items)[i] = r.items[i].msg
  BY <1>2, MessagesType
<1>4. Len(t) \in Nat /\ t # <<>>
  BY <1>1 DEF Headed
<1>5. Len(t) # 0
  BY <1>1, <1>4, EmptySeq
<1> QED
  BY <1>1, <1>2, <1>3, <1>4, <1>5

LEMMA SystemRead ==
  ASSUME NEW M, M \subseteq Msgs, NEW r, NEW t, Reads(M, r, t), NEW m \in M, m.role = "system", NEW turn \in BOOLEAN
  PROVE  /\ Ready(M, Apply(r, RequestEvent(turn, <<m>>)), HeadAs(t, m))
         /\ Apply(r, RequestEvent(turn, <<m>>)).inTurn = turn
<1>1. PICK q : q = Finish(r)
  OBVIOUS
<1>2. Ready(M, q, t)
  BY <1>1, FinishReady
<1>3. /\ q.items \in Seq(Classified(M)) /\ q.items \in Seq(ItemsOf(M)) /\ q.items # <<>>
      /\ Len(q.items) = Len(t) /\ Len(t) \in Nat /\ Len(t) >= 1
      /\ \A i \in 1 .. Len(t) : t[i] = q.items[i].msg
  BY <1>2, ItemsRead, SMTT(40)
<1>4. t \in Seq(M) /\ Headed(t) /\ t[1].role = "system"
  BY <1>2 DEF Ready, Headed
<1>5. PICK it : it = Item(m, "system", 0)
  OBVIOUS
<1>6. it \in Classified(M) /\ it.msg = m
  <2>1. m \in Msgs
    OBVIOUS
  <2>2. m.text = "prompt"
    BY <2>1 DEF Msgs, SystemPrompt, Msg
  <2> QED
    BY <1>5, <2>2 DEF Item, Classified, ItemsOf, KindIs, ItemKinds
<1>7. PICK its : its = [q.items EXCEPT ![1] = it]
  OBVIOUS
<1>8. /\ its \in Seq(Classified(M)) /\ Len(its) = Len(t) /\ its[1] = it
      /\ \A i \in 2 .. Len(t) : its[i] = q.items[i]
  <2>1. its \in Seq(Classified(M)) /\ Len(its) = Len(q.items)
    BY <1>3, <1>6, <1>7, ExceptSeq
  <2>2. DOMAIN q.items = 1 .. Len(q.items)
    BY <1>3
  <2>3. its[1] = it /\ \A i \in 2 .. Len(t) : its[i] = q.items[i]
    BY <1>3, <1>7, <2>2
  <2> QED
    BY <1>3, <2>1, <2>3
<1>9. /\ HeadAs(t, m) \in Seq(M) /\ Len(HeadAs(t, m)) = Len(t) /\ HeadAs(t, m)[1] = m
      /\ Headed(HeadAs(t, m)) /\ Same(t, HeadAs(t, m))
  BY <1>4, HeadedAs
<1>10. Messages(its) = HeadAs(t, m)
  <2>1. its \in Seq(ItemsOf(M))
    BY <1>8, SeqMonotonic DEF Classified
  <2>2. Messages(its) \in Seq(M) /\ Len(Messages(its)) = Len(its) /\ \A i \in 1 .. Len(its) : Messages(its)[i] = its[i].msg
    BY <2>1, MessagesType
  <2>3. \A i \in 2 .. Len(t) : t[i] = HeadAs(t, m)[i]
    BY <1>9 DEF Same
  <2>4. ASSUME NEW i \in 1 .. Len(t) PROVE Messages(its)[i] = HeadAs(t, m)[i]
    <3>1. Messages(its)[i] = its[i].msg
      BY <1>8, <2>2
    <3>2. CASE i = 1
      BY <1>6, <1>8, <1>9, <3>1, <3>2
    <3>3. CASE i # 1
      <4>1. i \in 2 .. Len(t)
        BY <1>3, <3>3
      <4>2. its[i] = q.items[i] /\ t[i] = q.items[i].msg /\ t[i] = HeadAs(t, m)[i]
        BY <1>3, <1>8, <2>3, <4>1
      <4> QED
        BY <3>1, <4>2
    <3> QED
      BY <3>2, <3>3
  <2>5. Len(Messages(its)) = Len(HeadAs(t, m)) /\ \A i \in 1 .. Len(HeadAs(t, m)) : Messages(its)[i] = HeadAs(t, m)[i]
    BY <1>8, <1>9, <2>2, <2>4
  <2> QED
    BY <1>9, <2>2, <2>5, SeqEqual
<1>11. its # <<>>
  BY <1>3, <1>8
<1>12. PICK p : p = [q EXCEPT !.items = its]
  OBVIOUS
<1>13. Ready(M, p, HeadAs(t, m))
  BY <1>2, <1>8, <1>9, <1>10, <1>11, <1>12, ReadyWith
<1>14. SetSystem(q, m) = p
  <2>1. q.items[1].msg = t[1]
    BY <1>3
  <2>2. SetSystem(q, m) = [q EXCEPT !.items[1] = it]
    BY <1>3, <1>4, <1>5, <2>1 DEF SetSystem
  <2> QED
    BY <1>7, <1>12, <2>2
<1>15. Apply(r, RequestEvent(turn, <<m>>)) = [p EXCEPT !.inTurn = turn]
  <2>1. \A k, n : Apply(r, RequestEvent(k, <<n>>)) = [SetSystem(Finish(r), n) EXCEPT !.inTurn = k]
    BY EventsApplied, Zenon
  <2>2. Apply(r, RequestEvent(turn, <<m>>)) = [SetSystem(Finish(r), m) EXCEPT !.inTurn = turn]
    BY <2>1, Zenon
  <2> QED
    BY <1>1, <1>14, <2>2, Zenon
<1>16. Ready(M, [p EXCEPT !.inTurn = turn], HeadAs(t, m)) /\ [p EXCEPT !.inTurn = turn].inTurn = turn
  BY <1>13, ReadyWith
<1> QED
  BY <1>15, <1>16

\* A reply of the model, until it is known that it makes no calls.
LEMMA ResponseRead ==
  ASSUME NEW M, M \subseteq Msgs, NEW r, NEW t, Ready(M, r, t), NEW m \in Said(M), m.text # " reply"
  PROVE  /\ Reads(M, Apply(r, ResponseEvent(TRUE, m)), Append(t, m))
         /\ Apply(r, ResponseEvent(TRUE, m)) = [r EXCEPT !.held = <<m>>]
<1>1. r \in Rebuilders(M) /\ r.calls = 0 /\ r.held = <<>> /\ r.items # <<>> /\ t \in Seq(M) /\ Headed(t) /\ Messages(r.items) = t
      /\ Between(M, r)
  BY DEF Ready, Between
<1>2. Finish(r) = r
  BY <1>1, FinishedTwice
<1>3. TrimSpace(m) = m
  BY DEF TrimSpace
<1>4. PICK q : q = [r EXCEPT !.held = <<m>>]
  OBVIOUS
<1>5. Apply(r, ResponseEvent(TRUE, m)) = q
  <2>1. Apply(r, ResponseEvent(TRUE, m)) = [Finish(r) EXCEPT !.held = <<TrimSpace(m)>>]
    BY EventsApplied
  <2> QED
    BY <1>2, <1>3, <1>4, <2>1, Zenon
<1>6. /\ r.items \in Seq(Classified(M)) /\ r.inTurn \in BOOLEAN /\ r.modelCall \in BOOLEAN
      /\ r.group \in Nat /\ r.closed \in BOOLEAN
      /\ r = [items |-> r.items, inTurn |-> r.inTurn, modelCall |-> r.modelCall, calls |-> r.calls,
              held |-> r.held, group |-> r.group, closed |-> r.closed]
  BY <1>1 DEF Rebuilders
<1>7. q = [items |-> r.items, inTurn |-> r.inTurn, modelCall |-> r.modelCall, calls |-> 0,
           held |-> <<m>>, group |-> r.group, closed |-> r.closed]
  BY <1>1, <1>4, <1>6
<1>8. q \in Rebuilders(M)
  BY <1>6, <1>7 DEF Rebuilders
<1>9. q.items = r.items /\ q.calls = 0 /\ q.held = <<m>>
  BY <1>7
<1>10. Between(M, q)
  BY <1>8, <1>9 DEF Between
<1>11. Finished(M, q, Finish(q))
  BY <1>10, FinishIs
<1>12. Messages(Finish(q).items) = t \o <<m>>
  BY <1>1, <1>9, <1>11, Zenon DEF Finished
<1>13. m \in M /\ m.role = "assistant"
  BY DEF Said
<1>14. Append(t, m) = t \o <<m>>
  BY <1>1, <1>13, AppendIsConcat
<1>15. Append(t, m) \in Seq(M) /\ Headed(Append(t, m))
  BY <1>1, <1>13, HeadedAppend
<1>16. q.items # <<>>
  BY <1>1, <1>9
<1>17. Reads(M, q, Append(t, m))
  BY <1>10, <1>12, <1>14, <1>15, <1>16, Zenon DEF Reads
<1> QED
  BY <1>4, <1>5, <1>17

LEMMA OneCall ==
  ASSUME NEW q
  PROVE  /\ q.calls = 0 => Calls(q) = [q EXCEPT !.modelCall = TRUE, !.held = <<>>, !.calls = 1]
         /\ q.calls = 1 => FlushCalls(q) = [Add(q, ToolCalls(1), "", FALSE) EXCEPT !.calls = 0]
<1>1. ASSUME q.calls = 0 PROVE Calls(q) = [q EXCEPT !.modelCall = TRUE, !.held = <<>>, !.calls = 1]
  <2>1. Calls(q) = [q EXCEPT !.modelCall = TRUE, !.held = <<>>, !.calls = q.calls + 1]
    BY Zenon DEF Calls
  <2>2. q.calls + 1 = 1
    BY <1>1
  <2> QED
    BY <2>1, <2>2, Zenon
<1>2. ASSUME q.calls = 1 PROVE FlushCalls(q) = [Add(q, ToolCalls(1), "", FALSE) EXCEPT !.calls = 0]
  <2>1. q.calls # 0
    BY <1>2
  <2>2. FlushCalls(q) = [Add(q, ToolCalls(q.calls), "", FALSE) EXCEPT !.calls = 0]
    BY <2>1, Zenon DEF FlushCalls
  <2> QED
    BY <1>2, <2>2, Zenon
<1> QED
  BY <1>1, <1>2

\* A call of the model and its result.
RoundOf(r, m, res) == Apply(Apply(Apply(r, ResponseEvent(TRUE, m)), ToolCallEvent), ToolResultEvent(res))

LEMMA RoundRead ==
  ASSUME NEW M, M \subseteq Msgs, NEW r, NEW t, Ready(M, r, t), r.inTurn, NEW m \in Said(M), m.text # " reply",
         ToolCalls(1) \in M, NEW res \in M, res.role # "system"
  PROVE  Ready(M, RoundOf(r, m, res), Append(Append(t, ToolCalls(1)), res)) /\ RoundOf(r, m, res).inTurn = TRUE
<1>1. r \in Rebuilders(M) /\ r.calls = 0 /\ r.held = <<>> /\ r.items # <<>> /\ t \in Seq(M) /\ Headed(t) /\ Messages(r.items) = t
  BY DEF Ready, Between
<1>2. PICK q : q = [r EXCEPT !.held = <<m>>]
  OBVIOUS
<1>3. Apply(r, ResponseEvent(TRUE, m)) = q
  BY <1>2, ResponseRead
<1>4. /\ r.items \in Seq(Classified(M)) /\ r.inTurn \in BOOLEAN /\ r.modelCall \in BOOLEAN
      /\ r.group \in Nat /\ r.closed \in BOOLEAN
      /\ r = [items |-> r.items, inTurn |-> r.inTurn, modelCall |-> r.modelCall, calls |-> r.calls,
              held |-> r.held, group |-> r.group, closed |-> r.closed]
  BY <1>1 DEF Rebuilders
<1>5. q = [items |-> r.items, inTurn |-> r.inTurn, modelCall |-> r.modelCall, calls |-> 0,
           held |-> <<m>>, group |-> r.group, closed |-> r.closed]
  BY <1>1, <1>2, <1>4
<1>6. q \in Rebuilders(M) /\ q.inTurn
  BY <1>4, <1>5 DEF Rebuilders
<1>7. PICK c : c = Calls(q)
  OBVIOUS
<1>8. c = [items |-> r.items, inTurn |-> TRUE, modelCall |-> TRUE, calls |-> 1,
           held |-> <<>>, group |-> r.group, closed |-> r.closed]
  <2>1. q.calls = 0
    BY <1>5
  <2>3. c = [q EXCEPT !.modelCall = TRUE, !.held = <<>>, !.calls = 1]
    BY <1>7, <2>1, OneCall
  <2>4. r.inTurn = TRUE
    BY <1>4
  <2> QED
    BY <1>5, <2>3, <2>4
<1>9. c \in Rebuilders(M)
  BY <1>4, <1>8 DEF Rebuilders
<1>10. c.items = r.items /\ c.inTurn = TRUE /\ c.modelCall = TRUE /\ c.calls = 1 /\ c.held = <<>>
  BY <1>8
<1>11. Apply(q, ToolCallEvent) = c
  BY <1>6, <1>7, CallsApplied
<1>12. Apply(c, ToolResultEvent(res)) = Add(FlushCalls(c), res, "", FALSE)
  BY <1>9, <1>10, CallsApplied
<1>13. PICK d : d = Add(c, ToolCalls(1), "", FALSE)
  OBVIOUS
<1>14. Added(M, c, d, ToolCalls(1), "")
  BY <1>9, <1>13, AddIs
<1>15. Messages(d.items) = Append(Messages(c.items), ToolCalls(1)) /\ (c.items # <<>> => d.items # <<>>)
  BY <1>9, <1>14, AddedMessages, ZenonT(60)
<1>16. d \in Rebuilders(M) /\ d.inTurn = c.inTurn /\ d.held = c.held
  BY <1>14, Zenon DEF Added
<1>17. PICK e : e = [d EXCEPT !.calls = 0]
  OBVIOUS
<1>18. FlushCalls(c) = e
  <2>1. c.calls = 1
    BY <1>10, Zenon
  <2>2. FlushCalls(c) = [Add(c, ToolCalls(1), "", FALSE) EXCEPT !.calls = 0]
    BY <2>1, OneCall, Zenon
  <2> QED
    BY <1>10, <1>13, <1>17, <2>2, Zenon
<1>19. e \in Rebuilders(M) /\ e.calls = 0 /\ e.inTurn = TRUE /\ e.held = <<>> /\ e.items = d.items
  <2>1. /\ d.items \in Seq(Classified(M)) /\ d.inTurn = TRUE /\ d.modelCall \in BOOLEAN
        /\ d.group \in Nat /\ d.closed \in BOOLEAN /\ d.held = <<>>
        /\ d = [items |-> d.items, inTurn |-> d.inTurn, modelCall |-> d.modelCall, calls |-> d.calls,
                held |-> d.held, group |-> d.group, closed |-> d.closed]
    BY <1>10, <1>16 DEF Rebuilders
  <2>2. e = [items |-> d.items, inTurn |-> TRUE, modelCall |-> d.modelCall, calls |-> 0,
             held |-> <<>>, group |-> d.group, closed |-> d.closed]
    BY <1>17, <2>1
  <2>3. e \in Rebuilders(M)
    BY <2>1, <2>2 DEF Rebuilders
  <2> QED
    BY <2>2, <2>3
<1>20. PICK f : f = Add(e, res, "", FALSE)
  OBVIOUS
<1>21. Added(M, e, f, res, "")
  BY <1>19, <1>20, AddIs
<1>22. Messages(f.items) = Append(Messages(e.items), res) /\ (e.items # <<>> => f.items # <<>>)
  <2>1. e \in Rebuilders(M)
    BY <1>19
  <2> QED
    BY <1>21, <2>1, AddedMessages, Zenon
<1>23. f \in Rebuilders(M) /\ f.inTurn = TRUE /\ f.held = <<>> /\ f.calls = 0
  BY <1>19, <1>21, Zenon DEF Added
<1>24. RoundOf(r, m, res) = f
  BY <1>3, <1>11, <1>12, <1>18, <1>20, Zenon DEF RoundOf
<1>25. PICK u : u = Append(t, ToolCalls(1))
  OBVIOUS
<1>26. u \in Seq(M) /\ Headed(u)
  <2>1. ToolCalls(1).role # "system"
    BY DEF ToolCalls
  <2> QED
    BY <1>1, <1>25, <2>1, HeadedAppend
<1>27. Append(u, res) \in Seq(M) /\ Headed(Append(u, res))
  BY <1>26, HeadedAppend
<1>28. Messages(f.items) = Append(u, res) /\ f.items # <<>>
  BY <1>1, <1>10, <1>15, <1>19, <1>22, <1>25
<1>29. Ready(M, f, Append(u, res))
  BY <1>23, <1>27, <1>28 DEF Ready, Between
<1> QED
  BY <1>23, <1>24, <1>25, <1>29

-----------------------------------------------------------------------------
(* Compaction of a round.                                                   *)

\* The messages that make calls.
Calling(h) == {i \in 1 .. Len(h) : h[i].role = "assistant" /\ h[i].calls > 0}
Quiet == {m \in Msgs : ~(m.role = "assistant" /\ m.calls > 0)}

\* What each message becomes.
CompactedAt(h, i, j) ==
  IF j = i THEN Msg("assistant", "called", h[i].calls)
  ELSE IF j \in ResultsAfter(h, i) /\ h[j].text # "file" THEN [h[j] EXCEPT !.text = "done"] ELSE h[j]

LEMMA CompactMessage ==
  ASSUME NEW h \in Seq(Msgs), NEW i \in 1 .. Len(h), h[i].role = "assistant", NEW j \in 1 .. Len(h)
  PROVE  /\ CompactedAt(h, i, j) \in Msgs /\ CompactedAt(h, i, j).role = h[j].role
         /\ j < i => CompactedAt(h, i, j) = h[j]
         /\ CompactedAt(h, i, j).text = "pinned" => h[j].text = "pinned"
         /\ CompactedAt(h, i, j).calls = IF j = i THEN 0 ELSE h[j].calls
         /\ j # i => CompactedAt(h, i, j).n = h[j].n
<1>1. h[j] \in Msgs /\ h[i] \in Msgs /\ Len(h) \in Nat
  OBVIOUS
<1>2. PICK m : m = h[j]
  OBVIOUS
<1>3. m \in Message /\ (m.role = "system" => m = SystemPrompt(m.n)) /\ (m.role # "assistant" => m.calls = 0) /\ h[i].calls \in Nat
  BY <1>1, <1>2 DEF Msgs, Message
<1>4. /\ m = [role |-> m.role, text |-> m.text, n |-> m.n, calls |-> m.calls]
      /\ m.role \in Roles /\ m.text \in Contents /\ m.n \in Nat /\ m.calls \in Nat
  BY <1>3 DEF Message
<1>5. CASE j = i
  <2>1. CompactedAt(h, i, j) = [role |-> "assistant", text |-> "called", n |-> h[i].calls, calls |-> 0]
    BY <1>5 DEF CompactedAt, Msg
  <2>2. CompactedAt(h, i, j) \in Message
    <3>1. "assistant" \in Roles /\ "called" \in Contents /\ 0 \in Nat
      BY DEF Roles, Contents
    <3> QED
      BY <1>3, <2>1, <3>1 DEF Message
  <2>3. CompactedAt(h, i, j) \in Msgs
    BY <2>1, <2>2 DEF Msgs
  <2> QED
    BY <1>5, <2>1, <2>3
<1>6. CASE j # i /\ j \in ResultsAfter(h, i) /\ h[j].text # "file"
  <2>1. j > i /\ m.role = "tool"
    <3>1. j \in i + 1 .. Len(h) /\ \A k \in i + 1 .. j : h[k].role = "tool"
      BY <1>6 DEF ResultsAfter
    <3>2. j \in i + 1 .. j /\ j > i
      BY <1>1, <3>1
    <3> QED
      BY <1>2, <3>1, <3>2
  <2>2. CompactedAt(h, i, j) = [m EXCEPT !.text = "done"]
    BY <1>2, <1>6 DEF CompactedAt
  <2>3. CompactedAt(h, i, j) = [role |-> m.role, text |-> "done", n |-> m.n, calls |-> m.calls]
    BY <1>4, <2>2
  <2>4. CompactedAt(h, i, j) \in Message
    <3>1. "done" \in Contents
      BY DEF Contents
    <3> QED
      BY <1>4, <2>3, <3>1 DEF Message
  <2>5. CompactedAt(h, i, j) \in Msgs
    BY <1>2, <1>3, <2>1, <2>3, <2>4 DEF Msgs
  <2> QED
    BY <1>1, <1>2, <1>6, <2>1, <2>3, <2>5
<1>7. CASE j # i /\ ~(j \in ResultsAfter(h, i) /\ h[j].text # "file")
  <2>1. CompactedAt(h, i, j) = h[j]
    BY <1>7 DEF CompactedAt
  <2> QED
    BY <1>1, <1>7, <2>1
<1> QED
  BY <1>5, <1>6, <1>7

LEMMA CompactIs ==
  ASSUME NEW h \in Seq(Msgs), NEW i \in 1 .. Len(h), h[i].role = "assistant"
  PROVE  /\ CompactToolRound(h, i) \in Seq(Msgs) /\ Len(CompactToolRound(h, i)) = Len(h)
         /\ \A j \in 1 .. Len(h) : CompactToolRound(h, i)[j] = CompactedAt(h, i, j)
<1>1. Len(h) \in Nat /\ DOMAIN h = 1 .. Len(h)
  OBVIOUS
<1>2. CompactToolRound(h, i) = [j \in 1 .. Len(h) |-> CompactedAt(h, i, j)]
  <2>1. \A j \in DOMAIN h : (IF j = i /\ h[i].role = "assistant" THEN Msg("assistant", "called", h[i].calls)
                              ELSE IF j \in ResultsAfter(h, i) /\ h[j].text # "file" THEN [h[j] EXCEPT !.text = "done"]
                              ELSE h[j]) = CompactedAt(h, i, j)
    BY Zenon DEF CompactedAt
  <2> QED
    BY <1>1, <2>1, Zenon DEF CompactToolRound
<1>3. \A j \in 1 .. Len(h) : CompactedAt(h, i, j) \in Msgs
  BY CompactMessage
<1>4. PICK c : c = [j \in 1 .. Len(h) |-> CompactedAt(h, i, j)]
  OBVIOUS
<1>5. c \in Seq(Msgs) /\ Len(c) = Len(h) /\ \A j \in 1 .. Len(h) : c[j] = CompactedAt(h, i, j)
  BY <1>1, <1>3, <1>4
<1> QED
  BY <1>2, <1>4, <1>5

\* The conversation keeps its heads, what comes before the round, and its pins; the round makes no call any more.
LEMMA CompactHeaded ==
  ASSUME NEW h \in Seq(Msgs), Headed(h), NEW i \in 1 .. Len(h), h[i].role = "assistant", NEW c, c = CompactToolRound(h, i)
  PROVE  /\ c \in Seq(Msgs) /\ Len(c) = Len(h) /\ Headed(c) /\ c[1] = h[1] /\ i > 1
         /\ \A j \in 1 .. i - 1 : c[j] = h[j]
         /\ \A j \in 1 .. Len(h) : c[j].role = h[j].role /\ (c[j].text = "pinned" => h[j].text = "pinned")
         /\ \A j \in 1 .. Len(h) : j # i => c[j].calls = h[j].calls /\ c[j].n = h[j].n
         /\ Calling(c) = Calling(h) \ {i}
<1>1. Len(h) \in Nat /\ h # <<>> /\ h[1].role = "system" /\ \A j \in 2 .. Len(h) : h[j].role # "system"
  BY DEF Headed
<1>2. Len(h) >= 1
  BY <1>1, EmptySeq
<1>3. c \in Seq(Msgs) /\ Len(c) = Len(h) /\ \A j \in 1 .. Len(h) : c[j] = CompactedAt(h, i, j)
  BY CompactIs
<1>4. i > 1
  BY <1>1, <1>2
<1>5. \A j \in 1 .. Len(h) : /\ c[j].role = h[j].role /\ (c[j].text = "pinned" => h[j].text = "pinned")
                             /\ j < i => c[j] = h[j]
                             /\ c[j].calls = IF j = i THEN 0 ELSE h[j].calls
                             /\ j # i => c[j].n = h[j].n
  BY <1>3, CompactMessage
<1>6. c[1] = h[1]
  BY <1>2, <1>4, <1>5
<1>7. Headed(c)
  BY <1>1, <1>2, <1>3, <1>5, <1>6 DEF Headed
<1>8. Calling(c) = Calling(h) \ {i}
  BY <1>3, <1>5 DEF Calling
<1>9. \A j \in 1 .. i - 1 : c[j] = h[j]
  BY <1>1, <1>5
<1> QED
  BY <1>3, <1>4, <1>5, <1>6, <1>7, <1>8, <1>9

\* A message that is no tool result is not of the round before it.
LEMMA CompactAppend ==
  ASSUME NEW h \in Seq(Msgs), NEW i \in 1 .. Len(h), h[i].role = "assistant", NEW m \in Msgs, m.role # "tool"
  PROVE  CompactToolRound(Append(h, m), i) = Append(CompactToolRound(h, i), m)
<1>1. PICK g : g = Append(h, m)
  OBVIOUS
<1>2. /\ g \in Seq(Msgs) /\ Len(g) = Len(h) + 1 /\ g[Len(h) + 1] = m /\ Len(h) \in Nat
      /\ \A j \in 1 .. Len(h) : g[j] = h[j]
  BY <1>1, AppendProperties
<1>3. i \in 1 .. Len(g) /\ g[i] = h[i] /\ g[i].role = "assistant"
  BY <1>2
<1>4. PICK c : c = CompactToolRound(h, i)
  OBVIOUS
<1>5. PICK d : d = CompactToolRound(g, i)
  OBVIOUS
<1>6. c \in Seq(Msgs) /\ Len(c) = Len(h) /\ \A j \in 1 .. Len(h) : c[j] = CompactedAt(h, i, j)
  BY <1>4, CompactIs
<1>7. d \in Seq(Msgs) /\ Len(d) = Len(g) /\ \A j \in 1 .. Len(g) : d[j] = CompactedAt(g, i, j)
  BY <1>2, <1>3, <1>5, CompactIs
<1>8. ASSUME NEW j \in 1 .. Len(h) PROVE CompactedAt(g, i, j) = CompactedAt(h, i, j)
  <2>1. g[j] = h[j]
    BY <1>2
  <2>2. j \in ResultsAfter(g, i) <=> j \in ResultsAfter(h, i)
    <3>1. \A k \in i + 1 .. j : g[k] = h[k]
      BY <1>2
    <3>2. j \in i + 1 .. Len(g) <=> j \in i + 1 .. Len(h)
      BY <1>2
    <3> QED
      BY <3>1, <3>2 DEF ResultsAfter
  <2> QED
    BY <1>3, <2>1, <2>2 DEF CompactedAt
<1>9. CompactedAt(g, i, Len(h) + 1) = m
  <2>1. Len(h) + 1 # i
    BY <1>2
  <2>2. Len(h) + 1 \notin ResultsAfter(g, i)
    <3>1. Len(h) + 1 \in i + 1 .. Len(h) + 1
      BY <1>2
    <3> QED
      BY <1>2, <3>1 DEF ResultsAfter
  <2> QED
    BY <1>2, <2>1, <2>2 DEF CompactedAt
<1>10. PICK e : e = Append(c, m)
  OBVIOUS
<1>11. e \in Seq(Msgs) /\ Len(e) = Len(c) + 1 /\ e[Len(c) + 1] = m /\ \A j \in 1 .. Len(c) : e[j] = c[j]
  BY <1>6, <1>10, AppendProperties
<1>12. ASSUME NEW j \in 1 .. Len(g) PROVE d[j] = e[j]
  <2>1. j \in 1 .. Len(h) \/ j = Len(h) + 1
    BY <1>2
  <2>2. CASE j \in 1 .. Len(h)
    BY <1>6, <1>7, <1>8, <1>11, <2>2
  <2>3. CASE j = Len(h) + 1
    BY <1>6, <1>7, <1>9, <1>11, <2>3
  <2> QED
    BY <2>1, <2>2, <2>3
<1>13. Len(d) = Len(e) /\ \A j \in 1 .. Len(d) : d[j] = e[j]
  BY <1>2, <1>6, <1>7, <1>11, <1>12
<1>14. d = e
  BY <1>7, <1>11, <1>13, SeqEqual
<1> QED
  BY <1>1, <1>4, <1>5, <1>10, <1>14

\* The rebuilder compacts the oldest round that is not compacted yet.
LEMMA CompactedRead ==
  ASSUME NEW r, NEW t, Reads(Msgs, r, t), NEW i \in Calling(t), \A j \in Calling(t) : i <= j
  PROVE  Ready(Msgs, Apply(r, RoundCompacted), CompactToolRound(t, i)) /\ Apply(r, RoundCompacted).inTurn = r.inTurn
<1>1. PICK q : q = Finish(r)
  OBVIOUS
<1>2. Ready(Msgs, q, t) /\ q.inTurn = r.inTurn
  BY <1>1, FinishReady
<1>3. Apply(r, RoundCompacted) = CompactOldestRound(q)
  BY <1>1, EventsApplied, Zenon
<1>4. /\ q.items \in Seq(Classified(Msgs)) /\ q.items # <<>> /\ Messages(q.items) = t
      /\ Len(q.items) = Len(t) /\ Len(t) \in Nat /\ Len(t) >= 1
      /\ \A j \in 1 .. Len(t) : t[j] = q.items[j].msg
  <2>1. PICK M : M = Msgs
    OBVIOUS
  <2>2. M \subseteq Msgs /\ Ready(M, q, t)
    BY <1>2, <2>1
  <2>3. M \subseteq Msgs
    BY <2>2
  <2>4. Ready(M, q, t)
    BY <2>2
  <2>5. /\ q.items \in Seq(Classified(M)) /\ q.items # <<>> /\ Messages(q.items) = t
        /\ Len(q.items) = Len(t) /\ Len(t) \in Nat /\ Len(t) >= 1
        /\ \A j \in 1 .. Len(t) : t[j] = q.items[j].msg
    <3>1. /\ q.items \in Seq(Classified(M)) /\ q.items # <<>> /\ Messages(q.items) = t
          /\ Len(q.items) = Len(t) /\ Len(t) \in Nat /\ Len(t) >= 1
      BY <2>3, <2>4, ItemsRead, Zenon
    <3>2. \A j \in 1 .. Len(t) : t[j] = q.items[j].msg
      <4>1. q.items \in Seq(ItemsOf(M))
        BY <3>1, SeqMonotonic DEF Classified
      <4>2. Len(Messages(q.items)) = Len(q.items) /\ \A j \in 1 .. Len(q.items) : Messages(q.items)[j] = q.items[j].msg
        BY <4>1, MessagesType
      <4> QED
        BY <3>1, <4>2
    <3> QED
      BY <3>1, <3>2, Zenon
  <2> QED
    BY <2>1, <2>5
<1>5. t \in Seq(Msgs) /\ Headed(t)
  BY <1>2 DEF Ready
<1>6. i \in 1 .. Len(t) /\ t[i].role = "assistant"
  <2>1. i \in Calling(t)
    OBVIOUS
  <2> QED
    BY <2>1 DEF Calling
<1>7. PICK c : c = CompactToolRound(t, i)
  OBVIOUS
<1>8. /\ c \in Seq(Msgs) /\ Len(c) = Len(t) /\ Headed(c)
      /\ \A j \in 1 .. Len(t) : c[j].role = t[j].role /\ (c[j].text = "pinned" => t[j].text = "pinned")
  BY <1>5, <1>6, <1>7, CompactHeaded
<1>9. PICK its : its = [j \in 1 .. Len(t) |-> [q.items[j] EXCEPT !.msg = c[j]]]
  OBVIOUS
<1>10. ASSUME NEW j \in 1 .. Len(t) PROVE its[j] \in Classified(Msgs) /\ its[j].msg = c[j]
  <2>1. PICK x : x = q.items[j]
    OBVIOUS
  <2>2. x \in Classified(Msgs) /\ x.msg = t[j]
    BY <1>4, <2>1
  <2>3. its[j] = [x EXCEPT !.msg = c[j]]
    BY <1>9, <2>1
  <2>4. x = [msg |-> x.msg, kind |-> x.kind, group |-> x.group] /\ x.kind \in ItemKinds /\ x.group \in Nat /\ KindIs(x)
    BY <2>2 DEF Classified, ItemsOf
  <2>5. its[j] = [msg |-> c[j], kind |-> x.kind, group |-> x.group]
    BY <2>3, <2>4
  <2>6. c[j] \in Msgs /\ c[j].role = t[j].role /\ (c[j].text = "pinned" => t[j].text = "pinned")
    BY <1>8
  <2>7. its[j].msg = c[j] /\ its[j].kind = x.kind
    BY <2>5
  <2>8. KindIs(its[j])
    BY <2>2, <2>4, <2>6, <2>7 DEF KindIs
  <2>9. its[j] \in ItemsOf(Msgs)
    BY <2>4, <2>5, <2>6 DEF ItemsOf
  <2> QED
    BY <2>7, <2>8, <2>9 DEF Classified
<1>11. its \in Seq(Classified(Msgs)) /\ Len(its) = Len(t)
  <2>1. \A j \in 1 .. Len(t) : its[j] \in Classified(Msgs)
    BY <1>10
  <2>2. DOMAIN its = 1 .. Len(t)
    BY <1>9
  <2>3. its \in [1 .. Len(t) -> Classified(Msgs)]
    BY <1>9, <2>1
  <2> QED
    BY <1>4, <2>2, <2>3
<1>12. Messages(its) = c
  <2>1. its \in Seq(ItemsOf(Msgs))
    BY <1>11, SeqMonotonic DEF Classified
  <2>2. Messages(its) \in Seq(Msgs) /\ Len(Messages(its)) = Len(its) /\ \A j \in 1 .. Len(its) : Messages(its)[j] = its[j].msg
    BY <2>1, MessagesType
  <2>3. Len(Messages(its)) = Len(c) /\ \A j \in 1 .. Len(Messages(its)) : Messages(its)[j] = c[j]
    BY <1>8, <1>10, <1>11, <2>2
  <2> QED
    BY <1>8, <2>2, <2>3, SeqEqual
<1>13. its # <<>>
  BY <1>4, <1>11
<1>14. PICK p : p = [q EXCEPT !.items = its]
  OBVIOUS
<1>15. Ready(Msgs, p, c) /\ p.inTurn = q.inTurn
  BY <1>2, <1>8, <1>11, <1>12, <1>13, <1>14, ReadyWith
<1>16. CompactOldestRound(q) = p
  <2>1. DOMAIN t = 1 .. Len(t) /\ DOMAIN q.items = 1 .. Len(t)
    BY <1>4, <1>5
  <2>2. {j \in DOMAIN t : t[j].role = "assistant" /\ t[j].calls > 0} = Calling(t)
    BY <2>1 DEF Calling
  <2>3. Min(Calling(t)) = i
    <3>1. Calling(t) \subseteq Nat
      BY <1>4 DEF Calling
    <3> QED
      BY <3>1, LeastIs
  <2>4. its = [j \in DOMAIN q.items |-> [q.items[j] EXCEPT !.msg = CompactToolRound(t, i)[j]]]
    BY <1>7, <1>9, <2>1, Zenon
  <2>5. Calling(t) # {}
    OBVIOUS
  <2>6. CompactOldestRound(q) = [q EXCEPT !.items = [j \in DOMAIN q.items |-> [q.items[j] EXCEPT !.msg = CompactToolRound(t, i)[j]]]]
    <3>1. Messages(q.items) = t
      BY <1>4
    <3>2. CompactOldestRound(q) =
            IF {j \in DOMAIN t : t[j].role = "assistant" /\ t[j].calls > 0} = {} THEN q
            ELSE [q EXCEPT !.items =
                    [j \in DOMAIN q.items |->
                       [q.items[j] EXCEPT !.msg =
                          CompactToolRound(t, Min({k \in DOMAIN t : t[k].role = "assistant" /\ t[k].calls > 0}))[j]]]]
      BY <3>1, Zenon DEF CompactOldestRound
    <3> QED
      BY <2>2, <2>3, <2>5, <3>2, Zenon
  <2> QED
    BY <1>14, <2>4, <2>6, Zenon
<1> QED
  BY <1>2, <1>3, <1>7, <1>15, <1>16

-----------------------------------------------------------------------------
(* The agent between turns: what the log tells is the history, but for the *)
(* version of the system prompt. S: what its history has; F: the features  *)
(* of the session.                                                         *)

Talks(S) == S \subseteq Msgs /\ Quiet \subseteq S

AgentsOf(S) ==
  [history : Seq(S), rb : Rebuilders(Msgs), system : {1, 2}, logSystem : Nat, limit : Nat, pins : Seq(PinTargets),
   turn : Nat, retryAfter : Nat, pending : BOOLEAN, faithful : BOOLEAN]

\* Without a switch there is one version.
Steady(F, a) == "switch" \notin F => a.system = 1 /\ a.logSystem = 1 /\ a.history[1] = SystemPrompt(1)

Sound(S, F, a) == a \in AgentsOf(S) /\ a.faithful /\ Headed(a.history) /\ Steady(F, a)
Fine(S, F, a) == Sound(S, F, a) /\ Reads(Msgs, a.rb, HeadAs(a.history, SystemPrompt(a.logSystem)))

\* All but the history and the rebuilder.
Keeps(a, b) ==
  /\ b.system = a.system /\ b.logSystem = a.logSystem /\ b.limit = a.limit /\ b.pins = a.pins /\ b.turn = a.turn
  /\ b.retryAfter = a.retryAfter /\ b.pending = a.pending /\ b.faithful = a.faithful

With(a, h, r) == [[a EXCEPT !.rb = r] EXCEPT !.history = h]

LEMMA WithIs ==
  ASSUME NEW S, NEW T, NEW a \in AgentsOf(S), NEW h \in Seq(T), NEW r \in Rebuilders(Msgs)
  PROVE  /\ With(a, h, r) \in AgentsOf(T) /\ With(a, h, r).history = h /\ With(a, h, r).rb = r /\ Keeps(a, With(a, h, r))
<1>1. /\ a = [history |-> a.history, rb |-> a.rb, system |-> a.system, logSystem |-> a.logSystem, limit |-> a.limit,
              pins |-> a.pins, turn |-> a.turn, retryAfter |-> a.retryAfter, pending |-> a.pending, faithful |-> a.faithful]
      /\ a.system \in {1, 2} /\ a.logSystem \in Nat /\ a.limit \in Nat /\ a.pins \in Seq(PinTargets) /\ a.turn \in Nat
      /\ a.retryAfter \in Nat /\ a.pending \in BOOLEAN /\ a.faithful \in BOOLEAN
  BY DEF AgentsOf
<1>2. PICK b : b = With(a, h, r)
  OBVIOUS
<1>3. b = [history |-> h, rb |-> r, system |-> a.system, logSystem |-> a.logSystem, limit |-> a.limit,
           pins |-> a.pins, turn |-> a.turn, retryAfter |-> a.retryAfter, pending |-> a.pending, faithful |-> a.faithful]
  BY <1>1, <1>2 DEF With
<1>4. b \in AgentsOf(T)
  BY <1>1, <1>3 DEF AgentsOf
<1>5. b.history = h /\ b.rb = r /\ Keeps(a, b)
  BY <1>3 DEF Keeps
<1> QED
  BY <1>2, <1>4, <1>5

LEMMA WithSame ==
  ASSUME NEW S, NEW a \in AgentsOf(S), NEW r
  PROVE  [a EXCEPT !.rb = r] = With(a, a.history, r)
<1>1. a = [history |-> a.history, rb |-> a.rb, system |-> a.system, logSystem |-> a.logSystem, limit |-> a.limit,
           pins |-> a.pins, turn |-> a.turn, retryAfter |-> a.retryAfter, pending |-> a.pending, faithful |-> a.faithful]
  BY DEF AgentsOf
<1> QED
  BY <1>1 DEF With

\* The version of the system prompt is a message.
LEMMA PromptType ==
  ASSUME NEW S, Talks(S), NEW v \in Nat
  PROVE  SystemPrompt(v) \in S /\ SystemPrompt(v) \in Msgs /\ SystemPrompt(v).role = "system" /\ SystemPrompt(v).n = v
<1>1. SystemPrompt(v) = [role |-> "system", text |-> "prompt", n |-> v, calls |-> 0]
  BY DEF SystemPrompt, Msg
<1>2. "system" \in Roles /\ "prompt" \in Contents
  BY DEF Roles, Contents
<1>3. SystemPrompt(v) \in Message
  BY <1>1, <1>2 DEF Message
<1>4. SystemPrompt(v) \in Quiet
  BY <1>1, <1>3 DEF Quiet, Msgs
<1> QED
  BY <1>1, <1>4 DEF Talks, Quiet

\* The system prompt of a conversation is a version of it.
LEMMA HeadIs ==
  ASSUME NEW h \in Seq(Msgs), Headed(h)
  PROVE  h[1] \in Msgs /\ h[1].role = "system" /\ h[1].n \in Nat /\ h[1] = SystemPrompt(h[1].n) /\ HeadAs(h, h[1]) = h
<1>1. h # <<>> /\ h[1].role = "system"
  BY DEF Headed
<1>2. h[1] \in Msgs
  BY <1>1
<1>3. h[1].n \in Nat /\ h[1] = SystemPrompt(h[1].n)
  BY <1>1, <1>2 DEF Msgs, Message
<1>4. HeadAs(h, h[1]) = h
  BY <1>1, <1>2, HeadedAs
<1> QED
  BY <1>1, <1>2, <1>3, <1>4

\* Whatever the head, it is the last that stays, and what comes after it stays.
LEMMA HeadTwice ==
  ASSUME NEW h \in Seq(Msgs), Headed(h), NEW x \in Msgs, x.role = "system", NEW y \in Msgs, y.role = "system"
  PROVE  /\ HeadAs(HeadAs(h, x), y) = HeadAs(h, y)
         /\ \A m \in Msgs : m.role # "system" => HeadAs(Append(h, m), x) = Append(HeadAs(h, x), m)
<1>1. /\ Len(h) \in Nat /\ Len(h) >= 1 /\ DOMAIN h = 1 .. Len(h)
  <2>1. h # <<>> /\ Len(h) \in Nat
    BY DEF Headed
  <2> QED
    BY <2>1, EmptySeq
<1>2. HeadAs(HeadAs(h, x), y) = HeadAs(h, y)
  BY <1>1 DEF HeadAs
<1>3. ASSUME NEW m \in Msgs, m.role # "system" PROVE HeadAs(Append(h, m), x) = Append(HeadAs(h, x), m)
  <2>1. PICK g : g = Append(h, m)
    OBVIOUS
  <2>2. /\ g \in Seq(Msgs) /\ Headed(g) /\ Len(g) = Len(h) + 1 /\ g[Len(h) + 1] = m /\ \A i \in 1 .. Len(h) : g[i] = h[i]
    BY <1>3, <2>1, HeadedAppend, AppendProperties
  <2>3. PICK u : u = HeadAs(h, x)
    OBVIOUS
  <2>4. u \in Seq(Msgs) /\ Len(u) = Len(h) /\ u[1] = x /\ \A i \in 2 .. Len(h) : h[i] = u[i]
    BY <2>3, HeadedAs DEF Same
  <2>5. PICK v : v = HeadAs(g, x)
    OBVIOUS
  <2>6. v \in Seq(Msgs) /\ Len(v) = Len(g) /\ v[1] = x /\ \A i \in 2 .. Len(g) : g[i] = v[i]
    BY <2>2, <2>5, HeadedAs DEF Same
  <2>7. PICK w : w = Append(u, m)
    OBVIOUS
  <2>8. w \in Seq(Msgs) /\ Len(w) = Len(u) + 1 /\ w[Len(u) + 1] = m /\ \A i \in 1 .. Len(u) : w[i] = u[i]
    BY <2>4, <2>7, AppendProperties
  <2>9. ASSUME NEW i \in 1 .. Len(v) PROVE v[i] = w[i]
    <3>1. i = 1 \/ i \in 2 .. Len(h) \/ i = Len(h) + 1
      BY <1>1, <2>2, <2>6
    <3>2. CASE i = 1
      BY <1>1, <2>4, <2>6, <2>8, <3>2
    <3>3. CASE i \in 2 .. Len(h)
      <4>1. v[i] = g[i] /\ g[i] = h[i] /\ h[i] = u[i] /\ w[i] = u[i]
        BY <1>1, <2>2, <2>4, <2>6, <2>8, <3>3
      <4> QED
        BY <4>1
    <3>4. CASE i = Len(h) + 1
      <4>1. v[i] = g[i]
        BY <1>1, <2>2, <2>6, <3>4
      <4> QED
        BY <2>2, <2>4, <2>8, <3>4, <4>1
    <3> QED
      BY <3>1, <3>2, <3>3, <3>4
  <2>10. Len(v) = Len(w) /\ \A i \in 1 .. Len(v) : v[i] = w[i]
    BY <2>2, <2>4, <2>6, <2>8, <2>9
  <2>11. v = w
    BY <2>6, <2>8, <2>10, SeqEqual
  <2> QED
    BY <2>1, <2>3, <2>5, <2>7, <2>11
<1> QED
  BY <1>2, <1>3

LEMMA SoundIs ==
  ASSUME NEW S, Talks(S), NEW F, NEW a, Sound(S, F, a)
  PROVE  /\ a \in AgentsOf(S) /\ a.history \in Seq(S) /\ a.history \in Seq(Msgs) /\ Headed(a.history)
         /\ a.logSystem \in Nat /\ a.system \in Nat /\ a.pins \in Seq(PinTargets) /\ a.limit \in Nat /\ a.turn \in Nat
         /\ a.faithful = TRUE
<1>1. a \in AgentsOf(S) /\ a.faithful /\ Headed(a.history)
  BY DEF Sound
<1>2. /\ a.history \in Seq(S) /\ a.logSystem \in Nat /\ a.system \in {1, 2} /\ a.pins \in Seq(PinTargets)
      /\ a.limit \in Nat /\ a.turn \in Nat /\ a.faithful \in BOOLEAN
  BY <1>1 DEF AgentsOf
<1>3. a.history \in Seq(Msgs)
  BY <1>2, SeqMonotonic DEF Talks
<1> QED
  BY <1>1, <1>2, <1>3

\* The agent with another conversation, which begins alike.
LEMMA SoundWith ==
  ASSUME NEW S, Talks(S), NEW F, NEW a, Sound(S, F, a), NEW h \in Seq(S), Headed(h), h[1] = a.history[1],
         NEW r \in Rebuilders(Msgs)
  PROVE  Sound(S, F, With(a, h, r)) /\ With(a, h, r).history = h /\ With(a, h, r).rb = r /\ Keeps(a, With(a, h, r))
<1>1. PICK b : b = With(a, h, r)
  OBVIOUS
<1>2. a \in AgentsOf(S)
  BY DEF Sound
<1>3. b \in AgentsOf(S) /\ b.history = h /\ b.rb = r /\ Keeps(a, b)
  <2>1. With(a, h, r) \in AgentsOf(S) /\ With(a, h, r).history = h /\ With(a, h, r).rb = r /\ Keeps(a, With(a, h, r))
    BY <1>2, WithIs, Zenon
  <2> QED
    BY <1>1, <2>1, Zenon
<1>4. a.faithful /\ Steady(F, a)
  BY DEF Sound
<1>5. b.faithful /\ Steady(F, b)
  BY <1>3, <1>4 DEF Keeps, Steady
<1>6. Sound(S, F, b)
  BY <1>3, <1>5 DEF Sound
<1> QED
  BY <1>1, <1>3, <1>6

LEMMA AddPromptIs ==
  ASSUME NEW S, Talks(S), NEW F, NEW a, Fine(S, F, a), NEW m \in S, m.role # "system", NEW via
  PROVE  /\ Fine(S, F, AddPrompt(a, via, m)) /\ AddPrompt(a, via, m).history = Append(a.history, m)
         /\ Keeps(a, AddPrompt(a, via, m))
<1>1. Sound(S, F, a) /\ Reads(Msgs, a.rb, HeadAs(a.history, SystemPrompt(a.logSystem)))
  BY DEF Fine
<1>2. a \in AgentsOf(S) /\ a.history \in Seq(S) /\ a.history \in Seq(Msgs) /\ Headed(a.history) /\ a.logSystem \in Nat
  BY <1>1, SoundIs
<1>3. m \in Msgs
  BY DEF Talks
<1>4. PICK x : x = SystemPrompt(a.logSystem)
  OBVIOUS
<1>5. x \in Msgs /\ x.role = "system"
  BY <1>2, <1>4, PromptType
<1>6. PICK r : r = Apply(a.rb, InjectionEvent(m, via))
  OBVIOUS
<1>7. Ready(Msgs, r, Append(HeadAs(a.history, x), m))
  BY <1>1, <1>3, <1>4, <1>6, InjectionRead
<1>8. HeadAs(Append(a.history, m), x) = Append(HeadAs(a.history, x), m)
  BY <1>2, <1>3, <1>5, HeadTwice
<1>9. PICK h : h = Append(a.history, m)
  OBVIOUS
<1>10. h \in Seq(S) /\ Headed(h) /\ h[1] = a.history[1]
  BY <1>2, <1>9, HeadedAppend
<1>11. r \in Rebuilders(Msgs)
  BY <1>7 DEF Ready, Between
<1>12. PICK b : b = With(a, h, r)
  OBVIOUS
<1>13. Sound(S, F, b) /\ b.history = h /\ b.rb = r /\ Keeps(a, b)
  BY <1>1, <1>10, <1>11, <1>12, SoundWith
<1>14. AddPrompt(a, via, m) = b
  <2>1. Log(a, InjectionEvent(m, via)) = [a EXCEPT !.rb = r]
    BY <1>6 DEF Log
  <2>2. [a EXCEPT !.rb = r].history = a.history
    BY <1>2 DEF AgentsOf
  <2>3. [[a EXCEPT !.rb = r] EXCEPT !.history = Append(@, m)] = [[a EXCEPT !.rb = r] EXCEPT !.history = h]
    BY <1>9, <2>2
  <2> QED
    BY <1>12, <2>1, <2>3, Zenon DEF AddPrompt, With
<1>15. Reads(Msgs, b.rb, HeadAs(b.history, SystemPrompt(b.logSystem)))
  <2>1. b.logSystem = a.logSystem
    BY <1>13 DEF Keeps
  <2>2. Ready(Msgs, b.rb, HeadAs(b.history, SystemPrompt(b.logSystem)))
    BY <1>4, <1>7, <1>8, <1>9, <1>13, <2>1
  <2> QED
    BY <2>2, ReadyReads
<1> QED
  BY <1>9, <1>13, <1>14, <1>15 DEF Fine

LEMMA SetHistoryIs ==
  ASSUME NEW S, Talks(S), NEW F, NEW a, Fine(S, F, a), NEW h \in Seq(S), Headed(h), h[1] = a.history[1]
  PROVE  Fine(S, F, SetHistory(a, h)) /\ SetHistory(a, h).history = h /\ Keeps(a, SetHistory(a, h))
<1>1. Sound(S, F, a) /\ Reads(Msgs, a.rb, HeadAs(a.history, SystemPrompt(a.logSystem)))
  BY DEF Fine
<1>2. a \in AgentsOf(S) /\ a.history \in Seq(S) /\ a.history \in Seq(Msgs) /\ Headed(a.history) /\ a.logSystem \in Nat
  BY <1>1, SoundIs
<1>3. CASE h = a.history
  <2>1. SetHistory(a, h) = a
    BY <1>3 DEF SetHistory
  <2>2. Keeps(a, a)
    BY DEF Keeps
  <2> QED
    BY <1>3, <2>1, <2>2
<1>4. CASE h # a.history
  <2>1. PICK x : x = SystemPrompt(a.logSystem)
    OBVIOUS
  <2>2. x \in Msgs /\ x.role = "system"
    BY <1>2, <2>1, PromptType
  <2>3. h \in Seq(Msgs)
    BY SeqMonotonic DEF Talks
  <2>4. PICK r : r = Apply(a.rb, RewriteEvent(RewriteOps(a.history, h)))
    OBVIOUS
  <2>5. Reads(Msgs, a.rb, HeadAs(a.history, x)) /\ a.history[1] = h[1]
    BY <1>1, <2>1
  <2>6. Ready(Msgs, r, HeadAs(h, x))
    BY <1>2, <2>2, <2>3, <2>4, <2>5, RewriteRead
  <2>7. r \in Rebuilders(Msgs)
    BY <2>6 DEF Ready, Between
  <2>8. PICK b : b = With(a, h, r)
    OBVIOUS
  <2>9. Sound(S, F, b) /\ b.history = h /\ b.rb = r /\ Keeps(a, b)
    BY <1>1, <2>7, <2>8, SoundWith
  <2>10. SetHistory(a, h) = b
    <3>1. Log(a, RewriteEvent(RewriteOps(a.history, h))) = [a EXCEPT !.rb = r]
      BY <2>4 DEF Log
    <3> QED
      BY <1>4, <2>8, <3>1, Zenon DEF SetHistory, With
  <2>11. b.logSystem = a.logSystem
    BY <2>9 DEF Keeps
  <2>12. Ready(Msgs, b.rb, HeadAs(b.history, SystemPrompt(b.logSystem)))
    BY <2>1, <2>6, <2>9, <2>11
  <2>13. Reads(Msgs, b.rb, HeadAs(b.history, SystemPrompt(b.logSystem)))
    BY <2>12, ReadyReads
  <2> QED
    BY <2>9, <2>10, <2>13 DEF Fine
<1> QED
  BY <1>3, <1>4

-----------------------------------------------------------------------------
(* Several events.                                                          *)

\* A set that each event stays in, all of them stay in.
LEMMA ApplyAllIn ==
  ASSUME NEW A, NEW B, NEW r \in A, \A q \in A, e \in B : Apply(q, e) \in A, NEW p \in Seq(B)
  PROVE  ApplyAll(r, p) \in A
<1> DEFINE st == [x \in A \X B |-> Apply(x[1], x[2])]
           Folds(g) == g = [s \in SUBSET (DOMAIN p) |-> IF s = {} THEN r ELSE Apply(g[s \ {Max(s)}], p[Max(s)])]
           fold == CHOOSE g : Folds(g)
<1>1. ApplyAll(r, p) = fold[DOMAIN p]
  BY Zenon DEF ApplyAll, FoldLeft, MapThenFoldSet
<1>2. DOMAIN p = 1 .. Len(p) /\ Len(p) \in Nat /\ \A i \in 1 .. Len(p) : p[i] \in B
  BY LenProperties
<1>3. st \in [A \X B -> A] /\ \A a \in A, e \in B : st[<<a, e>>] = Apply(a, e)
  OBVIOUS
<1> HIDE DEF st
<1>4. Folds(fold)
  <2>1. PICK g : Steps(g, A, B, st, r, p)
    BY <1>3, FoldSteps
  <2>2. \A s \in SUBSET (DOMAIN p) : g[s] = IF s = {} THEN r ELSE Apply(g[s \ {Max(s)}], p[Max(s)])
    BY <1>3, <2>1 DEF Steps
  <2>3. Folds(g)
    BY <2>1, <2>2 DEF Steps
  <2> HIDE DEF Folds
  <2> QED BY <2>3, Zenon
<1>5. FoldsIn(fold, A, st, r, p, Len(p))
  <2> HIDE DEF fold
  <2>1. \A s \in SUBSET (1 .. Len(p)) : fold[s] = IF s = {} THEN r ELSE Apply(fold[s \ {Max(s)}], p[Max(s)])
    BY <1>2, <1>4
  <2>2. \A s \in SUBSET (1 .. Len(p)) : s # {} => Max(s) \in 1 .. Len(p)
    BY <1>2, GreatestIn
  <2> QED
    BY <1>2, <1>3, <2>1, <2>2 DEF FoldsIn
<1>6. PICK f : ValuesOf(f, A, st, r, p)
  BY <1>3, Folding
<1> HIDE DEF fold, Folds
<1>7. Folded(f, A, st, r, p) /\ fold[DOMAIN p] = f[Len(p)]
  BY <1>2, <1>5, <1>6 DEF ValuesOf
<1> QED
  BY <1>1, <1>2, <1>7 DEF Folded

\* The greatest of at most two.
LEMMA OneOrTwo ==
  /\ Max({1}) = 1 /\ Max({2}) = 2 /\ Max({1, 2}) = 2
  /\ SUBSET {1, 2} = {{}, {1}, {2}, {1, 2}} /\ SUBSET {1} = {{}, {1}}
  /\ {1} \ {1} = {} /\ {2} \ {2} = {} /\ {1, 2} \ {2} = {1}
  /\ {1} # {} /\ {2} # {} /\ {1, 2} # {} /\ {1} # {2} /\ {1} # {1, 2} /\ {2} # {1, 2}
<1>1. Max({1}) = 1
  BY LastOf DEF Max
<1>2. Max({2}) = 2
  BY DEF Max
<1>3. Max({1, 2}) = 2
  BY DEF Max
<1>4. SUBSET {1, 2} = {{}, {1}, {2}, {1, 2}}
  OBVIOUS
<1>5. SUBSET {1} = {{}, {1}}
  OBVIOUS
<1>6. {1} \ {1} = {} /\ {2} \ {2} = {} /\ {1, 2} \ {2} = {1}
  OBVIOUS
<1>7. {1} # {} /\ {2} # {} /\ {1, 2} # {} /\ {1} # {2} /\ {1} # {1, 2} /\ {2} # {1, 2}
  OBVIOUS
<1> QED
  BY <1>1, <1>2, <1>3, <1>4, <1>5, <1>6, <1>7

LEMMA ApplyTwo ==
  ASSUME NEW r, NEW e, NEW f
  PROVE  ApplyAll(r, <<e, f>>) = Apply(Apply(r, e), f)
<1> DEFINE p == <<e, f>>
           Folds(g) == g = [s \in SUBSET (DOMAIN p) |-> IF s = {} THEN r ELSE Apply(g[s \ {Max(s)}], p[Max(s)])]
           fold == CHOOSE g : Folds(g)
           h == [s \in SUBSET {1, 2} |->
                   IF s = {} THEN r ELSE IF s = {1} THEN Apply(r, e)
                   ELSE IF s = {2} THEN Apply(r, f) ELSE Apply(Apply(r, e), f)]
<1>1. ApplyAll(r, p) = fold[DOMAIN p]
  BY Zenon DEF ApplyAll, FoldLeft, MapThenFoldSet
<1>2. DOMAIN p = {1, 2} /\ p[1] = e /\ p[2] = f
  OBVIOUS
<1>3. /\ h[{}] = r /\ h[{1}] = Apply(r, e) /\ h[{2}] = Apply(r, f) /\ h[{1, 2}] = Apply(Apply(r, e), f)
      /\ h = [s \in SUBSET {1, 2} |-> h[s]]
  BY OneOrTwo, Zenon
<1> HIDE DEF h, p
<1>4. \A s \in SUBSET {1, 2} : h[s] = IF s = {} THEN r ELSE Apply(h[s \ {Max(s)}], p[Max(s)])
  <2> TAKE s \in SUBSET {1, 2}
  <2>1. s = {} \/ s = {1} \/ s = {2} \/ s = {1, 2}
    BY OneOrTwo
  <2>2. s = {1} => s # {} /\ Max(s) = 1 /\ s \ {1} = {}
    BY OneOrTwo, Zenon
  <2>3. s = {2} => s # {} /\ Max(s) = 2 /\ s \ {2} = {}
    BY OneOrTwo, Zenon
  <2>4. s = {1, 2} => s # {} /\ Max(s) = 2 /\ s \ {2} = {1}
    BY OneOrTwo, Zenon
  <2> QED
    BY <1>2, <1>3, <2>1, <2>2, <2>3, <2>4, Zenon
<1>5. Folds(h)
  <2>1. [s \in SUBSET {1, 2} |-> h[s]] = [s \in SUBSET {1, 2} |-> IF s = {} THEN r ELSE Apply(h[s \ {Max(s)}], p[Max(s)])]
    BY <1>4
  <2> QED
    BY <1>2, <1>3, <2>1
<1>6. Folds(fold)
  <2> HIDE DEF Folds
  <2> QED BY <1>5, Zenon
<1>7. \A s \in SUBSET {1, 2} : fold[s] = IF s = {} THEN r ELSE Apply(fold[s \ {Max(s)}], p[Max(s)])
  <2> HIDE DEF fold
  <2> QED BY <1>2, <1>6
<1> HIDE DEF fold
<1>8. fold[{}] = r
  BY <1>7
<1>9. fold[{1}] = Apply(r, e)
  BY <1>2, <1>7, <1>8, OneOrTwo
<1>10. fold[{1, 2}] = Apply(Apply(r, e), f)
  <2>1. {1, 2} # {} /\ Max({1, 2}) = 2 /\ {1, 2} \ {2} = {1}
    BY OneOrTwo, Zenon
  <2>2. {1, 2} \in SUBSET {1, 2}
    OBVIOUS
  <2>3. fold[{1, 2}] = Apply(fold[{1, 2} \ {Max({1, 2})}], p[Max({1, 2})])
    BY <1>7, <2>1, <2>2, Zenon
  <2> QED
    BY <1>2, <1>9, <2>1, <2>3, Zenon
<1> QED
  BY <1>1, <1>2, <1>10 DEF p

\* One call of a tool.
LEMMA ExecuteOne ==
  ASSUME NEW a, NEW m
  PROVE  ExecuteToolCalls(a, <<m>>) = LogAll(a, <<ToolCallEvent, ToolResultEvent(m)>>)
<1> DEFINE p == <<m>>
           Op(b, x) == LogAll(b, <<ToolCallEvent, ToolResultEvent(x)>>)
           Folds(g) == g = [s \in SUBSET (DOMAIN p) |-> IF s = {} THEN a ELSE Op(g[s \ {Max(s)}], p[Max(s)])]
           fold == CHOOSE g : Folds(g)
           h == [s \in SUBSET {1} |-> IF s = {} THEN a ELSE Op(a, m)]
<1>1. ExecuteToolCalls(a, p) = fold[DOMAIN p]
  BY Zenon DEF ExecuteToolCalls, FoldLeft, MapThenFoldSet
<1>2. DOMAIN p = {1} /\ p[1] = m
  OBVIOUS
<1> HIDE DEF Op
<1>3. h[{}] = a /\ h[{1}] = Op(a, m) /\ h = [s \in SUBSET {1} |-> h[s]]
  BY OneOrTwo, Zenon
<1> HIDE DEF h, p
<1>4. \A s \in SUBSET {1} : h[s] = IF s = {} THEN a ELSE Op(h[s \ {Max(s)}], p[Max(s)])
  BY <1>2, <1>3, OneOrTwo
<1>5. Folds(h)
  <2>1. [s \in SUBSET {1} |-> h[s]] = [s \in SUBSET {1} |-> IF s = {} THEN a ELSE Op(h[s \ {Max(s)}], p[Max(s)])]
    BY <1>4
  <2> QED
    BY <1>2, <1>3, <2>1
<1>6. Folds(fold)
  <2> HIDE DEF Folds
  <2> QED BY <1>5, Zenon
<1>7. \A s \in SUBSET {1} : fold[s] = IF s = {} THEN a ELSE Op(fold[s \ {Max(s)}], p[Max(s)])
  <2> HIDE DEF fold
  <2> QED BY <1>2, <1>6
<1> HIDE DEF fold
<1>8. fold[{1}] = Op(a, m)
  <2>1. {1} # {} /\ Max({1}) = 1 /\ {1} \ {1} = {}
    BY OneOrTwo, Zenon
  <2>2. {1} \in SUBSET {1} /\ {} \in SUBSET {1}
    OBVIOUS
  <2>3. fold[{1}] = Op(fold[{1} \ {Max({1})}], p[Max({1})]) /\ fold[{}] = a
    BY <1>7, <2>1, <2>2, Zenon
  <2> QED
    BY <1>2, <2>1, <2>3, Zenon
<1> QED
  BY <1>1, <1>2, <1>8 DEF p, Op

-----------------------------------------------------------------------------
(* Events that change nothing.                                             *)

StillEvents == {OtherEvent, RequestEvent(FALSE, <<>>)} \cup {ResponseEvent(FALSE, m) : m \in Msgs}

LEMMA StillApplied ==
  ASSUME NEW r, NEW t, Reads(Msgs, r, t), NEW e \in StillEvents
  PROVE  Ready(Msgs, Apply(r, e), t) /\ Reads(Msgs, Apply(r, e), t)
<1>1. Ready(Msgs, Apply(r, e), t)
  <2>1. PICK M : M = Msgs
    OBVIOUS
  <2>2. M \subseteq Msgs /\ Reads(M, r, t)
    BY <2>1
  <2>3. CASE e = OtherEvent
    BY <2>1, <2>2, <2>3, StillRead
  <2>4. CASE e = RequestEvent(FALSE, <<>>)
    <3>1. \A turn \in BOOLEAN : Ready(M, Apply(r, RequestEvent(turn, <<>>)), t)
      BY <2>2, StillRead, Zenon
    <3> QED
      BY <2>1, <2>4, <3>1, Zenon
  <2>5. CASE \E m \in Msgs : e = ResponseEvent(FALSE, m)
    <3>1. \A m : Ready(M, Apply(r, ResponseEvent(FALSE, m)), t)
      BY <2>2, StillRead, Zenon
    <3> QED
      BY <2>1, <2>5, <3>1, Zenon
  <2> QED
    BY <2>3, <2>4, <2>5 DEF StillEvents
<1> QED
  BY <1>1, ReadyReads

\* Whatever the log tells.
LEMMA LogWith ==
  ASSUME NEW S, Talks(S), NEW F, NEW a, Sound(S, F, a), NEW r \in Rebuilders(Msgs), NEW b, b = [a EXCEPT !.rb = r]
  PROVE  Sound(S, F, b) /\ b.history = a.history /\ b.rb = r /\ Keeps(a, b)
<1>1. a \in AgentsOf(S) /\ a.history \in Seq(S) /\ Headed(a.history)
  BY SoundIs
<1>2. b = With(a, a.history, r)
  BY <1>1, WithSame
<1> QED
  BY <1>1, <1>2, SoundWith

LEMMA LogAllStill ==
  ASSUME NEW S, Talks(S), NEW F, NEW a, Fine(S, F, a), NEW es \in Seq(StillEvents)
  PROVE  Fine(S, F, LogAll(a, es)) /\ LogAll(a, es).history = a.history /\ Keeps(a, LogAll(a, es))
<1>1. PICK t : t = HeadAs(a.history, SystemPrompt(a.logSystem))
  OBVIOUS
<1>2. PICK A : A = {q \in Rebuilders(Msgs) : Reads(Msgs, q, t)}
  OBVIOUS
<1>3. Sound(S, F, a) /\ Reads(Msgs, a.rb, t)
  BY <1>1 DEF Fine
<1>4. a.rb \in A
  BY <1>2, <1>3 DEF Reads, Between
<1>5. \A q \in A, e \in StillEvents : Apply(q, e) \in A
  <2> TAKE q \in A, e \in StillEvents
  <2>1. Reads(Msgs, q, t)
    BY <1>2
  <2>2. Reads(Msgs, Apply(q, e), t)
    BY <2>1, StillApplied
  <2>3. Apply(q, e) \in Rebuilders(Msgs)
    BY <2>2 DEF Reads, Between
  <2> QED
    BY <1>2, <2>2, <2>3
<1>6. PICK r : r = ApplyAll(a.rb, es)
  OBVIOUS
<1>7. r \in A
  BY <1>4, <1>5, <1>6, ApplyAllIn
<1>8. r \in Rebuilders(Msgs) /\ Reads(Msgs, r, t)
  BY <1>2, <1>7
<1>9. PICK b : b = [a EXCEPT !.rb = r]
  OBVIOUS
<1>10. Sound(S, F, b) /\ b.history = a.history /\ b.rb = r /\ Keeps(a, b)
  BY <1>3, <1>8, <1>9, LogWith
<1>11. LogAll(a, es) = b
  BY <1>6, <1>9 DEF LogAll
<1>12. b.logSystem = a.logSystem
  BY <1>10 DEF Keeps
<1>13. Reads(Msgs, b.rb, HeadAs(b.history, SystemPrompt(b.logSystem)))
  BY <1>1, <1>8, <1>10, <1>12
<1> QED
  BY <1>10, <1>11, <1>13 DEF Fine

LEMMA LogStill ==
  ASSUME NEW S, Talks(S), NEW F, NEW a, Fine(S, F, a), NEW e \in StillEvents
  PROVE  Fine(S, F, Log(a, e)) /\ Log(a, e).history = a.history /\ Keeps(a, Log(a, e))
<1>1. PICK t : t = HeadAs(a.history, SystemPrompt(a.logSystem))
  OBVIOUS
<1>2. Sound(S, F, a) /\ Reads(Msgs, a.rb, t)
  BY <1>1 DEF Fine
<1>3. PICK r : r = Apply(a.rb, e)
  OBVIOUS
<1>4. Reads(Msgs, r, t)
  BY <1>2, <1>3, StillApplied
<1>5. r \in Rebuilders(Msgs)
  BY <1>4 DEF Reads, Between
<1>6. PICK b : b = [a EXCEPT !.rb = r]
  OBVIOUS
<1>7. Sound(S, F, b) /\ b.history = a.history /\ b.rb = r /\ Keeps(a, b)
  BY <1>2, <1>5, <1>6, LogWith
<1>8. Log(a, e) = b
  BY <1>3, <1>6 DEF Log
<1>9. b.logSystem = a.logSystem
  BY <1>7 DEF Keeps
<1>10. Reads(Msgs, b.rb, HeadAs(b.history, SystemPrompt(b.logSystem)))
  BY <1>1, <1>4, <1>7, <1>9
<1> QED
  BY <1>7, <1>8, <1>10 DEF Fine

-----------------------------------------------------------------------------
(* A request, and what the agent keeps beside the conversation.            *)

\* Other pins, another turn: nothing the log tells.
Patched(a, pins, turn, retry, pending) ==
  [a EXCEPT !.pins = pins, !.turn = turn, !.retryAfter = retry, !.pending = pending]

LEMMA PatchedIs ==
  ASSUME NEW S, NEW F, NEW a, Fine(S, F, a), NEW pins \in Seq(PinTargets), NEW turn \in Nat, NEW retry \in Nat,
         NEW pending \in BOOLEAN
  PROVE  /\ Fine(S, F, Patched(a, pins, turn, retry, pending))
         /\ Patched(a, pins, turn, retry, pending).history = a.history
         /\ Patched(a, pins, turn, retry, pending).pins = pins
         /\ Patched(a, pins, turn, retry, pending).turn = turn
<1>1. a \in AgentsOf(S) /\ a.faithful /\ Headed(a.history) /\ Steady(F, a) /\ Reads(Msgs, a.rb, HeadAs(a.history, SystemPrompt(a.logSystem)))
  BY DEF Fine, Sound
<1>2. /\ a = [history |-> a.history, rb |-> a.rb, system |-> a.system, logSystem |-> a.logSystem, limit |-> a.limit,
              pins |-> a.pins, turn |-> a.turn, retryAfter |-> a.retryAfter, pending |-> a.pending, faithful |-> a.faithful]
      /\ a.history \in Seq(S) /\ a.rb \in Rebuilders(Msgs)
      /\ a.system \in {1, 2} /\ a.logSystem \in Nat /\ a.limit \in Nat /\ a.faithful \in BOOLEAN
  BY <1>1 DEF AgentsOf
<1>3. PICK b : b = Patched(a, pins, turn, retry, pending)
  OBVIOUS
<1>4. b = [history |-> a.history, rb |-> a.rb, system |-> a.system, logSystem |-> a.logSystem, limit |-> a.limit,
           pins |-> pins, turn |-> turn, retryAfter |-> retry, pending |-> pending, faithful |-> a.faithful]
  BY <1>2, <1>3 DEF Patched
<1>5. b \in AgentsOf(S)
  BY <1>2, <1>4 DEF AgentsOf
<1>6. /\ b.history = a.history /\ b.rb = a.rb /\ b.system = a.system /\ b.logSystem = a.logSystem /\ b.faithful = a.faithful
      /\ b.pins = pins /\ b.turn = turn
  BY <1>4
<1>7. Steady(F, b)
  BY <1>1, <1>6 DEF Steady
<1>8. Fine(S, F, b)
  BY <1>1, <1>5, <1>6, <1>7 DEF Fine, Sound
<1> QED
  BY <1>3, <1>6, <1>8

\* The patches made.
LEMMA Patches ==
  ASSUME NEW S, NEW a \in AgentsOf(S)
  PROVE  /\ [a EXCEPT !.turn = @ + 1] = Patched(a, a.pins, a.turn + 1, a.retryAfter, a.pending)
         /\ [a EXCEPT !.turn = @ + 1, !.pending = FALSE] = Patched(a, a.pins, a.turn + 1, a.retryAfter, FALSE)
         /\ \A n : [a EXCEPT !.retryAfter = n] = Patched(a, a.pins, a.turn, n, a.pending)
         /\ \A p : [a EXCEPT !.pins = p] = Patched(a, p, a.turn, a.retryAfter, a.pending)
         /\ [a EXCEPT !.pending = TRUE] = Patched(a, a.pins, a.turn, a.retryAfter, TRUE)
         /\ a.pins \in Seq(PinTargets) /\ a.turn \in Nat /\ a.retryAfter \in Nat /\ a.pending \in BOOLEAN
<1>1. /\ a = [history |-> a.history, rb |-> a.rb, system |-> a.system, logSystem |-> a.logSystem, limit |-> a.limit,
              pins |-> a.pins, turn |-> a.turn, retryAfter |-> a.retryAfter, pending |-> a.pending, faithful |-> a.faithful]
      /\ a.pins \in Seq(PinTargets) /\ a.turn \in Nat /\ a.retryAfter \in Nat /\ a.pending \in BOOLEAN
  BY DEF AgentsOf
<1>2. [a EXCEPT !.turn = @ + 1] = Patched(a, a.pins, a.turn + 1, a.retryAfter, a.pending)
  BY <1>1 DEF Patched
<1>3. [a EXCEPT !.turn = @ + 1, !.pending = FALSE] = Patched(a, a.pins, a.turn + 1, a.retryAfter, FALSE)
  BY <1>1 DEF Patched
<1>4. \A n : [a EXCEPT !.retryAfter = n] = Patched(a, a.pins, a.turn, n, a.pending)
  BY <1>1 DEF Patched
<1>5. \A p : [a EXCEPT !.pins = p] = Patched(a, p, a.turn, a.retryAfter, a.pending)
  BY <1>1 DEF Patched
<1>6. [a EXCEPT !.pending = TRUE] = Patched(a, a.pins, a.turn, a.retryAfter, TRUE)
  BY <1>1 DEF Patched
<1> QED
  BY <1>1, <1>2, <1>3, <1>4, <1>5, <1>6

\* The prompt is the one the log tells, and from then on with the system prompt it was sent with.
Sent(a, b, p) ==
  /\ Ready(Msgs, b.rb, p) /\ b.rb.inTurn = TRUE /\ p[1] = SystemPrompt(b.logSystem)
  /\ b.history = a.history /\ b.pins = a.pins

LEMMA Requested ==
  ASSUME NEW S, Talks(S), NEW F, NEW a, Sound(S, F, a), NEW p \in Seq(Msgs), Headed(p), p[1] = a.history[1],
         Reads(Msgs, a.rb, HeadAs(p, SystemPrompt(a.logSystem)))
  PROVE  Sound(S, F, LogModelRequest(a, p)) /\ Sent(a, LogModelRequest(a, p), p)
<1>1. /\ a \in AgentsOf(S) /\ a.history \in Seq(S) /\ Headed(a.history) /\ a.logSystem \in Nat /\ a.faithful = TRUE
  BY SoundIs
<1>2. p[1] \in Msgs /\ p[1].role = "system" /\ p[1].n \in Nat /\ p[1] = SystemPrompt(p[1].n) /\ HeadAs(p, p[1]) = p /\ p # <<>>
  BY HeadIs DEF Headed
<1>3. PICK v : v = p[1].n
  OBVIOUS
<1>4. PICK x : x = SystemPrompt(a.logSystem)
  OBVIOUS
<1>5. x \in Msgs /\ x.role = "system" /\ x.n = a.logSystem
  BY <1>1, <1>4, PromptType
<1>6. PICK new \in BOOLEAN : new = (p # <<>> /\ p[1].role = "system" /\ p[1].n # a.logSystem)
  OBVIOUS
<1>7. new = (v # a.logSystem)
  BY <1>2, <1>3, <1>6
<1>8. PICK e : e = RequestEvent(TRUE, IF new THEN <<p[1]>> ELSE <<>>)
  OBVIOUS
<1>9. PICK r : r = Apply(a.rb, e)
  OBVIOUS
<1>10. Ready(Msgs, r, p) /\ r.inTurn = TRUE
  <2>1. PICK M : M = Msgs
    OBVIOUS
  <2>2. M \subseteq Msgs /\ Reads(M, a.rb, HeadAs(p, x)) /\ p[1] \in M
    BY <1>2, <1>4, <2>1
  <2>3. CASE new = TRUE
    <3>1. r = Apply(a.rb, RequestEvent(TRUE, <<p[1]>>))
      BY <1>8, <1>9, <2>3, Zenon
    <3>2. PICK m : m = p[1]
      OBVIOUS
    <3>3. m \in M /\ m.role = "system"
      BY <1>2, <2>2, <3>2
    <3>4. /\ Ready(M, Apply(a.rb, RequestEvent(TRUE, <<m>>)), HeadAs(HeadAs(p, x), m))
          /\ Apply(a.rb, RequestEvent(TRUE, <<m>>)).inTurn = TRUE
      BY <2>2, <3>3, SystemRead, Zenon
    <3>5. HeadAs(HeadAs(p, x), m) = HeadAs(p, m)
      BY <1>2, <1>5, <3>2, HeadTwice
    <3> QED
      BY <1>2, <2>1, <3>1, <3>2, <3>4, <3>5, Zenon
  <2>4. CASE new = FALSE
    <3>1. r = Apply(a.rb, RequestEvent(TRUE, <<>>))
      BY <1>8, <1>9, <2>4, Zenon
    <3>2. \A turn \in BOOLEAN :
            Ready(M, Apply(a.rb, RequestEvent(turn, <<>>)), HeadAs(p, x)) /\ Apply(a.rb, RequestEvent(turn, <<>>)).inTurn = turn
      BY <2>2, StillRead, Zenon
    <3>3. Ready(M, r, HeadAs(p, x)) /\ r.inTurn = TRUE
      BY <3>1, <3>2, Zenon
    <3>4. v = a.logSystem
      BY <1>7, <2>4
    <3>5. HeadAs(p, x) = p
      BY <1>2, <1>3, <1>4, <3>4
    <3> QED
      BY <2>1, <3>3, <3>5, Zenon
  <2> QED
    BY <2>3, <2>4
<1>11. PICK w : w = IF new THEN p[1].n ELSE a.logSystem
  OBVIOUS
<1>12. w = v
  BY <1>3, <1>7, <1>11
<1>13. /\ a = [history |-> a.history, rb |-> a.rb, system |-> a.system, logSystem |-> a.logSystem, limit |-> a.limit,
              pins |-> a.pins, turn |-> a.turn, retryAfter |-> a.retryAfter, pending |-> a.pending, faithful |-> a.faithful]
       /\ a.history \in Seq(S) /\ a.pins \in Seq(PinTargets) /\ a.turn \in Nat /\ a.retryAfter \in Nat /\ a.pending \in BOOLEAN
       /\ a.system \in {1, 2} /\ a.limit \in Nat
  BY <1>1 DEF AgentsOf
<1>14. PICK l : l = [a EXCEPT !.rb = r]
  OBVIOUS
<1>15. l = [history |-> a.history, rb |-> r, system |-> a.system, logSystem |-> a.logSystem, limit |-> a.limit,
            pins |-> a.pins, turn |-> a.turn, retryAfter |-> a.retryAfter, pending |-> a.pending, faithful |-> a.faithful]
  BY <1>13, <1>14
<1>16. l.rb = r /\ l.faithful = TRUE /\ l.logSystem = a.logSystem
  BY <1>1, <1>15
<1>17. Messages(r.items) = p
  BY <1>10 DEF Ready
<1>18. PICK b : b = [l EXCEPT !.logSystem = w, !.faithful = TRUE]
  OBVIOUS
<1>19. b = [history |-> a.history, rb |-> r, system |-> a.system, logSystem |-> w, limit |-> a.limit,
            pins |-> a.pins, turn |-> a.turn, retryAfter |-> a.retryAfter, pending |-> a.pending, faithful |-> TRUE]
  BY <1>15, <1>18
<1>20. LogModelRequest(a, p) = b
  <2>1. Log(a, e) = l
    BY <1>9, <1>14 DEF Log
  <2>2. LogModelRequest(a, p) =
          [Log(a, RequestEvent(TRUE, IF p # <<>> /\ p[1].role = "system" /\ p[1].n # a.logSystem THEN <<p[1]>> ELSE <<>>))
             EXCEPT !.logSystem = IF p # <<>> /\ p[1].role = "system" /\ p[1].n # a.logSystem THEN p[1].n ELSE @,
                    !.faithful = @ /\ Messages(Log(a, RequestEvent(TRUE, IF p # <<>> /\ p[1].role = "system" /\ p[1].n # a.logSystem
                                                                          THEN <<p[1]>> ELSE <<>>)).rb.items) = p]
    BY Zenon DEF LogModelRequest
  <2>3. LogModelRequest(a, p) =
          [l EXCEPT !.logSystem = IF new THEN p[1].n ELSE @, !.faithful = @ /\ Messages(l.rb.items) = p]
    BY <1>6, <1>8, <2>1, <2>2, Zenon
  <2>4. (l.faithful /\ Messages(l.rb.items) = p) = TRUE /\ (IF new THEN p[1].n ELSE l.logSystem) = w
    BY <1>11, <1>16, <1>17
  <2>5. [l EXCEPT !.logSystem = IF new THEN p[1].n ELSE @, !.faithful = @ /\ Messages(l.rb.items) = p] =
        [l EXCEPT !.logSystem = IF new THEN p[1].n ELSE l.logSystem, !.faithful = (l.faithful /\ Messages(l.rb.items) = p)]
    BY <1>15
  <2> QED
    BY <1>18, <2>3, <2>4, <2>5
<1>21. r \in Rebuilders(Msgs)
  BY <1>10 DEF Ready, Between
<1>22. b \in AgentsOf(S)
  <2>1. w \in Nat
    BY <1>2, <1>3, <1>12
  <2> QED
    BY <1>13, <1>19, <1>21, <2>1 DEF AgentsOf
<1>23. /\ b.history = a.history /\ b.rb = r /\ b.system = a.system /\ b.logSystem = v /\ b.pins = a.pins /\ b.faithful = TRUE
  BY <1>12, <1>19
<1>24. Steady(F, b)
  <2> SUFFICES ASSUME "switch" \notin F PROVE b.system = 1 /\ b.logSystem = 1 /\ b.history[1] = SystemPrompt(1)
    BY DEF Steady
  <2>1. a.system = 1 /\ a.history[1] = SystemPrompt(1)
    BY DEF Sound, Steady
  <2>2. SystemPrompt(1).n = 1
    BY DEF SystemPrompt, Msg
  <2> QED
    BY <1>3, <1>23, <2>1, <2>2
<1>25. Sound(S, F, b)
  BY <1>1, <1>22, <1>23, <1>24 DEF Sound
<1>26. Sent(a, b, p)
  BY <1>2, <1>3, <1>10, <1>23 DEF Sent
<1> QED
  BY <1>20, <1>25, <1>26

LEMMA Refreshed ==
  ASSUME NEW S, Talks(S), NEW F, NEW a, Fine(S, F, a)
  PROVE  /\ Fine(S, F, RefreshSystemPrompt(a)) /\ RefreshSystemPrompt(a).history = HeadAs(a.history, SystemPrompt(a.system))
         /\ Keeps(a, RefreshSystemPrompt(a))
<1>1. Sound(S, F, a) /\ Reads(Msgs, a.rb, HeadAs(a.history, SystemPrompt(a.logSystem))) /\ Steady(F, a) /\ a.faithful
  BY DEF Fine, Sound
<1>2. a \in AgentsOf(S) /\ a.history \in Seq(S) /\ a.history \in Seq(Msgs) /\ Headed(a.history) /\ a.logSystem \in Nat /\ a.system \in Nat
  BY <1>1, SoundIs
<1>3. PICK x : x = SystemPrompt(a.system)
  OBVIOUS
<1>4. x \in S /\ x \in Msgs /\ x.role = "system"
  BY <1>2, <1>3, PromptType
<1>5. PICK h : h = HeadAs(a.history, x)
  OBVIOUS
<1>6. h \in Seq(S) /\ Headed(h) /\ h[1] = x
  BY <1>2, <1>4, <1>5, HeadedAs
<1>7. a.rb \in Rebuilders(Msgs)
  BY <1>1 DEF Reads, Between
<1>8. PICK b : b = With(a, h, a.rb)
  OBVIOUS
<1>9. b \in AgentsOf(S) /\ b.history = h /\ b.rb = a.rb /\ Keeps(a, b)
  <2>1. With(a, h, a.rb) \in AgentsOf(S) /\ With(a, h, a.rb).history = h /\ With(a, h, a.rb).rb = a.rb /\ Keeps(a, With(a, h, a.rb))
    BY <1>2, <1>6, <1>7, WithIs
  <2> QED
    BY <1>8, <2>1, Zenon
<1>10. RefreshSystemPrompt(a) = b
  <2>1. a.history # <<>> /\ a.history[1].role = "system"
    BY <1>2 DEF Headed
  <2>2. RefreshSystemPrompt(a) = [a EXCEPT !.history[1] = x]
    BY <1>3, <2>1, Zenon DEF RefreshSystemPrompt
  <2>3. [a EXCEPT !.history[1] = x] = [a EXCEPT !.history = h]
    BY <1>2, <1>5 DEF HeadAs, AgentsOf
  <2>4. [a EXCEPT !.rb = a.rb] = a
    BY <1>2 DEF AgentsOf
  <2> QED
    BY <1>8, <2>2, <2>3, <2>4 DEF With
<1>11. Steady(F, b)
  BY <1>1, <1>3, <1>6, <1>9 DEF Steady, Keeps
<1>12. b.faithful /\ b.logSystem = a.logSystem
  BY <1>1, <1>9 DEF Keeps
<1>13. Sound(S, F, b)
  BY <1>6, <1>9, <1>11, <1>12 DEF Sound
<1>14. HeadAs(h, SystemPrompt(b.logSystem)) = HeadAs(a.history, SystemPrompt(a.logSystem))
  <2>1. PICK y : y = SystemPrompt(a.logSystem)
    OBVIOUS
  <2>2. y \in Msgs /\ y.role = "system"
    BY <1>2, <2>1, PromptType
  <2>3. HeadAs(HeadAs(a.history, x), y) = HeadAs(a.history, y)
    BY <1>2, <1>4, <2>2, HeadTwice
  <2> QED
    BY <1>5, <1>12, <2>1, <2>3
<1>15. Reads(Msgs, b.rb, HeadAs(b.history, SystemPrompt(b.logSystem)))
  BY <1>1, <1>9, <1>14
<1> QED
  BY <1>3, <1>5, <1>9, <1>10, <1>13, <1>15 DEF Fine

-----------------------------------------------------------------------------
(* Pins: the conversation has the message of each pin as often as it is     *)
(* pinned, at least.                                                        *)

More(h, g) == \A p \in PinTargets : Times(g, PinMessage(p)) >= Times(h, PinMessage(p))
PinsIn(pins, h) == \A p \in PinTargets : Times(h, PinMessage(p)) >= Times(pins, p)
Kept(F, a) == ("pin" \notin F => a.pins = <<>>) /\ ("switch" \notin F => PinsIn(a.pins, a.history))

Prefix_(h, g) == Len(h) <= Len(g) /\ SubSeq(g, 1, Len(h)) = h

LEMMA PinIs ==
  ASSUME NEW S, Talks(S), NEW p \in PinTargets
  PROVE  PinMessage(p) \in S /\ PinMessage(p) \in Msgs /\ PinMessage(p).text = "pinned" /\ PinMessage(p).role = "user"
<1>1. p \in Nat
  BY DEF PinTargets
<1>2. PinMessage(p) = [role |-> "user", text |-> "pinned", n |-> p, calls |-> 0]
  BY DEF PinMessage, Msg
<1>3. "user" \in Roles /\ "pinned" \in Contents
  BY DEF Roles, Contents
<1>4. PinMessage(p) \in Message
  BY <1>1, <1>2, <1>3 DEF Message
<1>5. PinMessage(p) \in Quiet
  BY <1>2, <1>4 DEF Quiet, Msgs
<1> QED
  BY <1>2, <1>5 DEF Talks, Quiet

\* How often, for one message more, and for two lists.
LEMMA TimesAppend ==
  ASSUME NEW B, NEW x
  PROVE  \A s \in Seq(B), y \in B : Times(Append(s, y), x) = Times(s, x) + IF y = x THEN 1 ELSE 0
BY TimesIs, SMTT(40)

LEMMA TimesConcat ==
  ASSUME NEW B, NEW x
  PROVE  \A s \in Seq(B), t \in Seq(B) : Times(s \o t, x) = Times(s, x) + Times(t, x)
<1> SUFFICES ASSUME NEW s \in Seq(B), NEW t \in Seq(B) PROVE Times(s \o t, x) = Times(s, x) + Times(t, x)
  OBVIOUS
<1>1. Only(s, {x}) \in Seq(B) /\ Only(t, {x}) \in Seq(B)
  BY OnlyGrows
<1>2. Only(s \o t, {x}) = Only(s, {x}) \o Only(t, {x})
  BY OnlyConcat
<1> QED
  BY <1>1, <1>2, ConcatProperties DEF Times

LEMMA TimesNat ==
  ASSUME NEW h \in Seq(Msgs), NEW x
  PROVE  Times(h, x) \in Nat
<1>1. \A s \in Seq(Msgs) : Times(s, x) \in Nat
  BY TimesIs
<1> QED
  BY <1>1

LEMMA MoreMore ==
  ASSUME NEW f \in Seq(Msgs), NEW g \in Seq(Msgs), NEW h \in Seq(Msgs), More(f, g), More(g, h)
  PROVE  More(f, h)
<1> SUFFICES ASSUME NEW p \in PinTargets PROVE Times(h, PinMessage(p)) >= Times(f, PinMessage(p))
  BY DEF More
<1>1. Times(h, PinMessage(p)) >= Times(g, PinMessage(p)) /\ Times(g, PinMessage(p)) >= Times(f, PinMessage(p))
  BY DEF More
<1>2. Times(h, PinMessage(p)) \in Nat /\ Times(g, PinMessage(p)) \in Nat /\ Times(f, PinMessage(p)) \in Nat
  BY TimesNat
<1> QED
  BY <1>1, <1>2

LEMMA MoreSame ==
  ASSUME NEW h \in Seq(Msgs)
  PROVE  More(h, h)
<1>1. \A p \in PinTargets : Times(h, PinMessage(p)) \in Nat
  BY TimesNat
<1>2. \A n \in Nat : n >= n
  OBVIOUS
<1> QED
  BY <1>1, <1>2 DEF More

LEMMA MoreConcat ==
  ASSUME NEW h \in Seq(Msgs), NEW g \in Seq(Msgs)
  PROVE  More(h, h \o g)
<1> SUFFICES ASSUME NEW p \in PinTargets PROVE Times(h \o g, PinMessage(p)) >= Times(h, PinMessage(p))
  BY DEF More
<1>1. PICK x : x = PinMessage(p)
  OBVIOUS
<1>2. \A s \in Seq(Msgs), t \in Seq(Msgs) : Times(s \o t, x) = Times(s, x) + Times(t, x)
  BY TimesConcat, Zenon
<1>3. Times(h \o g, x) = Times(h, x) + Times(g, x)
  BY <1>2
<1>4. Times(h, x) \in Nat /\ Times(g, x) \in Nat
  BY TimesNat
<1> QED
  BY <1>1, <1>3, <1>4

LEMMA MoreAppend ==
  ASSUME NEW h \in Seq(Msgs), NEW m \in Msgs
  PROVE  More(h, Append(h, m))
<1>1. Append(h, m) = h \o <<m>> /\ <<m>> \in Seq(Msgs)
  BY AppendIsConcat
<1> QED
  BY <1>1, MoreConcat

\* What the prefix has.
LEMMA MorePrefix ==
  ASSUME NEW h \in Seq(Msgs), NEW g \in Seq(Msgs), Prefix_(h, g)
  PROVE  More(h, g)
<1>1. Len(h) \in Nat /\ Len(g) \in Nat /\ Len(h) <= Len(g) /\ SubSeq(g, 1, Len(h)) = h
  BY DEF Prefix_
<1>2. PICK t : t = SubSeq(g, Len(h) + 1, Len(g))
  OBVIOUS
<1>3. t \in Seq(Msgs) /\ Len(t) = Len(g) - Len(h) /\ \A i \in 1 .. Len(g) - Len(h) : t[i] = g[Len(h) + i]
  <2>1. \A i \in Len(h) + 1 .. Len(g) : g[i] \in Msgs
    BY <1>1
  <2>2. Len(t) = IF Len(h) + 1 <= Len(g) THEN Len(g) - (Len(h) + 1) + 1 ELSE 0
    BY <1>1, <1>2, SubSeqProperties
  <2>3. Len(t) = Len(g) - Len(h)
    BY <1>1, <2>2
  <2> QED
    BY <1>1, <1>2, <2>1, <2>3, SubSeqProperties
<1>4. \A i \in 1 .. Len(h) : h[i] = g[i]
  <2>1. Len(SubSeq(g, 1, Len(h))) = Len(h) /\ \A i \in 1 .. Len(h) : SubSeq(g, 1, Len(h))[i] = g[i]
    BY <1>1
  <2> QED
    BY <1>1, <2>1
<1>5. PICK c : c = h \o t
  OBVIOUS
<1>6. c \in Seq(Msgs) /\ Len(c) = Len(h) + Len(t)
      /\ \A i \in 1 .. Len(c) : c[i] = IF i <= Len(h) THEN h[i] ELSE t[i - Len(h)]
  BY <1>3, <1>5, ConcatProperties
<1>7. Len(c) = Len(g) /\ \A i \in 1 .. Len(c) : c[i] = g[i]
  <2>1. Len(c) = Len(g)
    BY <1>1, <1>3, <1>6
  <2>2. ASSUME NEW i \in 1 .. Len(c) PROVE c[i] = g[i]
    <3>1. CASE i <= Len(h)
      BY <1>1, <1>4, <1>6, <3>1
    <3>2. CASE ~(i <= Len(h))
      <4>1. i - Len(h) \in 1 .. Len(g) - Len(h) /\ Len(h) + (i - Len(h)) = i
        BY <1>1, <2>1, <3>2
      <4>2. c[i] = t[i - Len(h)]
        BY <1>6, <3>2
      <4>3. t[i - Len(h)] = g[Len(h) + (i - Len(h))]
        BY <1>3, <4>1
      <4> QED
        BY <4>1, <4>2, <4>3
    <3> QED
      BY <3>1, <3>2
  <2> QED
    BY <2>1, <2>2
<1>8. c = g
  BY <1>6, <1>7, SeqEqual
<1> QED
  BY <1>3, <1>5, <1>8, MoreConcat

\* The last message is no pin.
LEMMA MoreFront ==
  ASSUME NEW h \in Seq(Msgs), h # <<>>, Last(h).text # "pinned"
  PROVE  More(h, Front(h)) /\ Front(h) \in Seq(Msgs) /\ Len(Front(h)) = Len(h) - 1
<1>1. Len(h) \in Nat /\ Len(h) # 0
  BY EmptySeq
<1>2. h[Len(h)] \in Msgs
  BY <1>1
<1>3. /\ Front(h) \in Seq(Msgs) /\ Len(Front(h)) = Len(h) - 1 /\ Last(h) \in Msgs /\ h = Append(Front(h), Last(h))
  BY <1>2, FrontLast
<1>4. ASSUME NEW p \in PinTargets PROVE Times(Front(h), PinMessage(p)) >= Times(h, PinMessage(p))
  <2>1. PICK x : x = PinMessage(p)
    OBVIOUS
  <2>2. x.text = "pinned"
    BY <2>1 DEF PinMessage, Msg
  <2>3. \A s \in Seq(Msgs), y \in Msgs : Times(Append(s, y), x) = Times(s, x) + IF y = x THEN 1 ELSE 0
    BY TimesAppend, Zenon
  <2>4. PICK f \in Seq(Msgs) : f = Front(h)
    BY <1>3
  <2>5. PICK l \in Msgs : l = Last(h)
    BY <1>3
  <2>6. l # x
    BY <2>2, <2>5
  <2>7. Times(Append(f, l), x) = Times(f, x) + 0
    BY <2>3, <2>6
  <2>8. Times(f, x) \in Nat
    BY TimesNat
  <2>9. Times(h, x) = Times(f, x)
    <3>1. h = Append(f, l)
      BY <1>3, <2>4, <2>5, Zenon
    <3>2. PICK n \in Nat : n = Times(f, x)
      BY <2>8
    <3>3. n + 0 = n
      OBVIOUS
    <3> QED
      BY <2>7, <3>1, <3>2, <3>3, Zenon
  <2> QED
    BY <2>1, <2>4, <2>8, <2>9
<1> QED
  BY <1>3, <1>4 DEF More

\* The agent has no fewer pins in its conversation.
LEMMA KeptWith ==
  ASSUME NEW F, NEW a, Kept(F, a), a.history \in Seq(Msgs), a.pins \in Seq(PinTargets), NEW b, b.pins = a.pins, b.history \in Seq(Msgs),
         "switch" \notin F => More(a.history, b.history)
  PROVE  Kept(F, b)
<1>1. ("pin" \notin F => a.pins = <<>>) /\ ("switch" \notin F => PinsIn(a.pins, a.history))
  BY DEF Kept
<1>2. ASSUME "switch" \notin F PROVE PinsIn(b.pins, b.history)
  <2> SUFFICES ASSUME NEW p \in PinTargets PROVE Times(b.history, PinMessage(p)) >= Times(a.pins, p)
    BY DEF PinsIn
  <2>1. Times(b.history, PinMessage(p)) >= Times(a.history, PinMessage(p)) /\ Times(a.history, PinMessage(p)) >= Times(a.pins, p)
    BY <1>1, <1>2 DEF PinsIn, More
  <2>2. Times(b.history, PinMessage(p)) \in Nat /\ Times(a.history, PinMessage(p)) \in Nat
    BY TimesNat
  <2>3. \A s \in Seq(PinTargets) : Times(s, p) \in Nat
    BY TimesIs
  <2> QED
    BY <2>1, <2>2, <2>3
<1> QED
  BY <1>1, <1>2 DEF Kept

\* The messages of items, and of what is assembled of them.
LEMMA TimesMessages ==
  ASSUME NEW M, NEW s \in Seq(Classified(M)), NEW m
  PROVE  Times(Messages(s), m) = Len(Only(s, OfMessage(M, m)))
<1>1. PICK B : B = Classified(M)
  OBVIOUS
<1>2. PICK K : K = OfMessage(M, m)
  OBVIOUS
<1>3. B \subseteq ItemsOf(M) /\ \A it \in B : it \in K <=> it.msg \in {m}
  BY <1>1, <1>2 DEF Classified, OfMessage
<1>4. \A q \in Seq(B) : Messages(Only(q, K)) = Only(Messages(q), {m})
  BY <1>3, OnlyMessages
<1>5. Messages(Only(s, K)) = Only(Messages(s), {m})
  BY <1>1, <1>4
<1>6. \A q \in Seq(B) : Only(q, K) \in Seq(B)
  BY OnlyGrows, Zenon
<1>7. Only(s, K) \in Seq(ItemsOf(M))
  <2>1. Only(s, K) \in Seq(B)
    BY <1>1, <1>6
  <2> QED
    BY <1>3, <2>1, SeqMonotonic
<1>8. Len(Messages(Only(s, K))) = Len(Only(s, K))
  BY <1>7, MessagesType
<1> QED
  BY <1>2, <1>5, <1>8 DEF Times

LEMMA AssembledMore ==
  ASSUME NEW S, S \subseteq Msgs, NEW s, NEW x, Prompted(S, s, x), NEW most \in Nat
  PROVE  More(Messages(s), Messages(Assemble(s, most)))
<1> SUFFICES ASSUME NEW p \in PinTargets PROVE Times(Messages(Assemble(s, most)), PinMessage(p)) >= Times(Messages(s), PinMessage(p))
  BY DEF More
<1>1. PICK m : m = PinMessage(p)
  OBVIOUS
<1>2. m.text = "pinned"
  BY <1>1 DEF PinMessage, Msg
<1>3. s \in Seq(Classified(S))
  BY DEF Prompted
<1>4. Assemble(s, most) \in Seq(Classified(S))
  <2>1. Fronted(S, Assemble(s, most), x)
    BY AssembledFront
  <2> QED
    BY <2>1 DEF Fronted
<1>5. Len(Only(Assemble(s, most), OfMessage(S, m))) >= Len(Only(s, OfMessage(S, m)))
  BY <1>2, AssembledPins
<1>6. Times(Messages(s), m) = Len(Only(s, OfMessage(S, m)))
  BY <1>3, TimesMessages
<1>7. Times(Messages(Assemble(s, most)), m) = Len(Only(Assemble(s, most), OfMessage(S, m)))
  BY <1>4, TimesMessages
<1> QED
  BY <1>1, <1>5, <1>6, <1>7

\* The items of a conversation that makes no calls make none.
LEMMA ItemsOfTalk ==
  ASSUME NEW S, Talks(S), NEW its \in Seq(Classified(Msgs)), Messages(its) \in Seq(S)
  PROVE  its \in Seq(Classified(S))
<1>1. its \in Seq(ItemsOf(Msgs))
  BY SeqMonotonic DEF Classified
<1>2. Len(Messages(its)) = Len(its) /\ \A i \in 1 .. Len(its) : Messages(its)[i] = its[i].msg
  BY <1>1, MessagesType
<1>3. S \subseteq Msgs
  BY DEF Talks
<1>4. \A it \in Classified(Msgs) : it.msg \in S => it \in Classified(S)
  BY <1>3, ClassifiedIn
<1>5. \A i \in 1 .. Len(its) : its[i] \in Classified(S)
  <2> TAKE i \in 1 .. Len(its)
  <2>1. Messages(its)[i] \in S
    BY <1>2
  <2>2. its[i] \in Classified(Msgs)
    OBVIOUS
  <2> QED
    BY <1>2, <1>4, <2>1, <2>2
<1> QED
  BY <1>5, SeqIn

-----------------------------------------------------------------------------
(* A turn begins.                                                           *)

\* The agent after a step that may drop messages, but no pins.
Holds(S, F, a, b) == Fine(S, F, b) /\ b.pins = a.pins /\ Kept(F, b)

\* Without a switch, what the log tells is the history.
LEMMA Reproduced ==
  ASSUME NEW S, Talks(S), NEW F, NEW a, Fine(S, F, a)
  PROVE  /\ RebuildItems(a.rb) \in Seq(Classified(Msgs))
         /\ "switch" \notin F => LogReproduces(a)
<1>1. Sound(S, F, a) /\ Reads(Msgs, a.rb, HeadAs(a.history, SystemPrompt(a.logSystem)))
  BY DEF Fine
<1>2. a.history \in Seq(Msgs) /\ Headed(a.history)
  BY <1>1, SoundIs
<1>3. PICK t : t = HeadAs(a.history, SystemPrompt(a.logSystem))
  OBVIOUS
<1>4. PICK q : q = Finish(a.rb)
  OBVIOUS
<1>5. Ready(Msgs, q, t)
  BY <1>1, <1>3, <1>4, FinishReady
<1>6. q.items \in Seq(Classified(Msgs)) /\ Messages(q.items) = t
  BY <1>5, ItemsRead
<1>7. ASSUME "switch" \notin F PROVE LogReproduces(a)
  <2>1. a.logSystem = 1 /\ a.history[1] = SystemPrompt(1)
    BY <1>1, <1>7 DEF Sound, Steady
  <2>2. t = a.history
    BY <1>2, <1>3, <2>1, HeadIs
  <2> QED
    BY <1>4, <1>6, <2>2 DEF LogReproduces, RebuildItems
<1> QED
  BY <1>4, <1>6, <1>7 DEF RebuildItems

LEMMA AddPromptTo ==
  ASSUME NEW S, Talks(S), NEW F, NEW a, Fine(S, F, a), NEW m \in S, m.role # "system", NEW via,
         NEW b, b = AddPrompt(a, via, m)
  PROVE  Fine(S, F, b) /\ b.history = Append(a.history, m) /\ Keeps(a, b)
<1>1. Fine(S, F, AddPrompt(a, via, m))
  BY AddPromptIs, SMT
<1>2. AddPrompt(a, via, m).history = Append(a.history, m)
  BY AddPromptIs, SMT
<1>3. Keeps(a, AddPrompt(a, via, m))
  BY AddPromptIs, SMT
<1> QED
  BY <1>1, <1>2, <1>3

\* The last item is the message added.
LEMMA AddPromptLast ==
  ASSUME NEW S, Talks(S), NEW F, NEW a, Fine(S, F, a), NEW m \in S, m.role # "system", NEW via,
         NEW b, b = AddPrompt(a, via, m)
  PROVE  /\ RebuildItems(b.rb) # <<>> /\ Last(RebuildItems(b.rb)).kind = ClassifyItem(m, via)
         /\ Last(b.history) = m /\ Len(b.history) >= 2
<1>0. b.history = Append(a.history, m)
  BY AddPromptTo
<1>1. Sound(S, F, a) /\ Reads(Msgs, a.rb, HeadAs(a.history, SystemPrompt(a.logSystem)))
  BY DEF Fine
<1>2. a \in AgentsOf(S) /\ a.history \in Seq(S) /\ Headed(a.history)
  BY <1>1, SoundIs
<1>3. m \in Msgs
  BY DEF Talks
<1>16. Last(b.history) = m /\ Len(b.history) >= 2
  BY <1>0, <1>2, HeadedAppend
<1>4. PICK q : q = Finish(a.rb)
  OBVIOUS
<1>5. PICK t : t = HeadAs(a.history, SystemPrompt(a.logSystem))
  OBVIOUS
<1>6. Ready(Msgs, q, t)
  BY <1>1, <1>4, <1>5, FinishReady
<1>7. q \in Rebuilders(Msgs) /\ q.calls = 0 /\ q.held = <<>>
  BY <1>6 DEF Ready, Between
<1>8. PICK r : r = Add(q, m, via, FALSE)
  OBVIOUS
<1>9. Added(Msgs, q, r, m, via)
  BY <1>3, <1>7, <1>8, AddIs
<1>10. r \in Rebuilders(Msgs) /\ r.calls = 0 /\ r.held = <<>>
  BY <1>7, <1>9 DEF Added
<1>11. Finish(r) = r
  BY <1>10, FinishedTwice DEF Between
<1>12. PICK it \in Classified(Msgs) : it.kind = ClassifyItem(m, via) /\ r.items = Append(q.items, it)
  BY <1>9 DEF Added
<1>13. q.items \in Seq(Classified(Msgs))
  BY <1>6, ItemsRead
<1>14. r.items # <<>> /\ Last(r.items) = it
  <2>1. Len(Append(q.items, it)) = Len(q.items) + 1 /\ Append(q.items, it)[Len(q.items) + 1] = it /\ Len(q.items) \in Nat
    BY <1>13, AppendProperties
  <2> QED
    BY <1>12, <2>1, EmptySeq DEF Last
<1>15. b.rb = r
  <2>1. Apply(a.rb, InjectionEvent(m, via)) = r
    BY <1>4, <1>8, EventsApplied, Zenon
  <2>2. Log(a, InjectionEvent(m, via)) = [a EXCEPT !.rb = r]
    BY <2>1, Zenon DEF Log
  <2>3. PICK c : c = [a EXCEPT !.rb = r]
    OBVIOUS
  <2>4. b = [c EXCEPT !.history = Append(@, m)]
    BY <2>2, <2>3, Zenon DEF AddPrompt
  <2>5. c.rb = r /\ c \in [history : {c.history}, rb : {r}, system : {c.system}, logSystem : {c.logSystem}, limit : {c.limit}, pins : {c.pins},
                           turn : {c.turn}, retryAfter : {c.retryAfter}, pending : {c.pending}, faithful : {c.faithful}]
    BY <1>2, <2>3 DEF AgentsOf
  <2> QED
    BY <2>4, <2>5
<1> QED
  BY <1>11, <1>12, <1>14, <1>15, <1>16 DEF RebuildItems

\* The latest item of a kind, if it is the latest of all.
LEMMA LastOfKind ==
  ASSUME NEW M, NEW s \in Seq(Classified(M)), s # <<>>, NEW kind, Last(s).kind = kind
  PROVE  OfKind(s, kind) # <<>> /\ Last(OfKind(s, kind)) = Last(s)
<1>1. PICK B : B = Classified(M)
  OBVIOUS
<1>2. PICK K : K = OfAKind(M, kind)
  OBVIOUS
<1>3. s[1] \in B
  BY <1>1, EmptySeq
<1>4. Front(s) \in Seq(B) /\ Last(s) \in B /\ s = Append(Front(s), Last(s))
  BY <1>1, <1>3, FrontLast
<1>5. PICK f \in Seq(B) : f = Front(s)
  BY <1>4
<1>6. PICK l \in B : l = Last(s)
  BY <1>4
<1>7. l \in K
  BY <1>1, <1>2, <1>6 DEF OfAKind
<1>8. Only(f, K) \in Seq(B) /\ Only(Append(f, l), K) = KeptIf(Only(f, K), l, K)
  BY OnlyGrows
<1>9. OfKind(s, kind) = Append(Only(f, K), l)
  <2>1. OfKind(s, kind) = Only(s, K)
    BY <1>2, OfKindIn
  <2> QED
    BY <1>4, <1>5, <1>6, <1>7, <1>8, <2>1 DEF KeptIf
<1>10. PICK g \in Seq(B) : g = Only(f, K)
  BY <1>8
<1>11. Len(Append(g, l)) = Len(g) + 1 /\ Append(g, l)[Len(g) + 1] = l /\ Len(g) \in Nat
  BY AppendProperties
<1> QED
  BY <1>6, <1>9, <1>10, <1>11, EmptySeq DEF Last

\* The prompt is chosen: what is dropped is neither the latest message nor, but after a switch, a pin.
LEMMA AssembleForTurnIs ==
  ASSUME NEW S, Talks(S), setup.window \in Nat, NEW F, NEW a, Fine(S, F, a), Kept(F, a), MayGo(Last(a.history)),
         RebuildItems(a.rb) # <<>>, Last(RebuildItems(a.rb)).kind = "turn", NEW b, b = AssembleForTurn(a)
  PROVE  Holds(S, F, a, b) /\ Last(b.history) = Last(a.history) /\ Len(b.history) >= 2
<1>1. Sound(S, F, a)
  BY DEF Fine
<1>2. a.history \in Seq(S) /\ a.history \in Seq(Msgs) /\ Headed(a.history) /\ a.limit \in Nat /\ a.pins \in Seq(PinTargets)
  BY <1>1, SoundIs
<1>3. S \subseteq Msgs
  BY DEF Talks
<1>4. PICK most : most = AssembleLimit(a)
  OBVIOUS
<1>5. most \in Nat
  BY <1>2, <1>4 DEF AssembleLimit
<1>6. PICK its : its = RebuildItems(a.rb)
  OBVIOUS
<1>7. its \in Seq(Classified(Msgs)) /\ its # <<>> /\ Last(its).kind = "turn"
  BY <1>6, Reproduced
<1>8. ASSUME NEW h, h \in Seq(S), Headed(h), h[1] = a.history[1], Last(h) = Last(a.history), Len(h) >= 2,
             "switch" \notin F => More(a.history, h), b = SetHistory(a, h)
      PROVE  Holds(S, F, a, b) /\ Last(b.history) = Last(a.history) /\ Len(b.history) >= 2
  <2>1. Fine(S, F, b) /\ b.history = h /\ Keeps(a, b)
    BY <1>8, SetHistoryIs
  <2>2. b.pins = a.pins
    BY <2>1 DEF Keeps
  <2>3. b.history \in Seq(Msgs)
    BY <1>3, <1>8, <2>1, SeqMonotonic
  <2>4. Kept(F, b)
    BY <1>2, <1>8, <2>1, <2>2, <2>3, KeptWith
  <2> QED
    BY <1>8, <2>1, <2>2, <2>4 DEF Holds
<1>9. CASE most > 0 /\ LogReproduces(a)
  <2>1. Messages(its) = a.history
    BY <1>6, <1>9 DEF LogReproduces
  <2>2. its \in Seq(Classified(S))
    BY <1>2, <1>7, <2>1, ItemsOfTalk
  <2>3. PICK x : x = its[1]
    OBVIOUS
  <2>4. Fronted(S, its, x)
    BY <1>2, <2>1, <2>2, <2>3, HeadedFronted
  <2>5. Prompted(S, its, x)
    BY <2>2, <2>4, SystemOf DEF Prompted, Fronted
  <2>6. PICK p : p = Assemble(its, most)
    OBVIOUS
  <2>7. OfKind(its, "turn") # <<>> /\ Last(OfKind(its, "turn")) = Last(its)
    BY <1>7, LastOfKind
  <2>8. Fronted(S, p, x) /\ Last(p) = Last(its) /\ Len(p) >= 2
    BY <1>5, <2>5, <2>6, <2>7, AssembledFront
  <2>9. PICK h : h = Messages(p)
    OBVIOUS
  <2>10. h \in Seq(S) /\ Headed(h) /\ h[1] = x.msg /\ Len(h) >= 2 /\ Last(h) = Last(its).msg
    BY <1>3, <2>8, <2>9, FrontedHeaded
  <2>11. a.history[1] = x.msg /\ Last(a.history) = Last(its).msg
    BY <1>3, <2>1, <2>4, FrontedHeaded
  <2>12. More(a.history, h)
    BY <1>3, <1>5, <2>1, <2>5, <2>6, <2>9, AssembledMore
  <2>13. b = SetHistory(a, h)
    BY <1>4, <1>6, <1>9, <2>6, <2>9 DEF AssembleForTurn
  <2> QED
    BY <1>8, <2>10, <2>11, <2>12, <2>13
<1>10. CASE ~(most > 0 /\ LogReproduces(a))
  <2>1. PICK h : h = TrimMessages(a.history, a.limit)
    OBVIOUS
  <2>2. h \in Seq(S) /\ Headed(h) /\ h[1] = a.history[1] /\ Last(h) = Last(a.history) /\ Len(h) >= 2
    BY <1>2, <2>1, TrimmedFront
  <2>3. ASSUME "switch" \notin F PROVE More(a.history, h)
    <3>1. LogReproduces(a)
      BY <2>3, Reproduced
    <3>2. ~(most > 0)
      BY <1>10, <3>1
    <3>3. a.limit = 0
      BY <1>2, <1>4, <3>2 DEF AssembleLimit
    <3>4. h = a.history
      BY <1>2, <2>1, <3>3, TrimmedFront
    <3> QED
      BY <1>2, <3>4, MoreSame
  <2>4. b = SetHistory(a, h)
    BY <1>4, <1>10, <2>1 DEF AssembleForTurn
  <2> QED
    BY <1>8, <2>2, <2>3, <2>4
<1> QED
  BY <1>9, <1>10

\* Between turns.
Rests(S, F, a) == Fine(S, F, a) /\ Kept(F, a)

LEMMA RestsHold ==
  ASSUME NEW S, NEW F, NEW a, NEW b, Holds(S, F, a, b)
  PROVE  Rests(S, F, b)
BY DEF Holds, Rests

\* The messages the program makes.
LEMMA TalkMessage ==
  ASSUME NEW S, Talks(S), NEW role \in {"user", "assistant", "tool"}, NEW text \in Contents, NEW n \in Nat,
         NEW m, m = Msg(role, text, n)
  PROVE  m \in S /\ m \in Msgs /\ m \in Quiet /\ m.role = role /\ m.text = text /\ m.role # "system" /\ m.n = n /\ m.calls = 0
<1>1. m = [role |-> role, text |-> text, n |-> n, calls |-> 0]
  BY DEF Msg
<1>2. role \in Roles
  BY DEF Roles
<1>3. m \in Message
  BY <1>1, <1>2 DEF Message
<1>4. m \in Quiet
  BY <1>1, <1>3 DEF Quiet, Msgs
<1> QED
  BY <1>1, <1>4 DEF Talks, Quiet

\* The same conversation.
LEMMA HoldsSame ==
  ASSUME NEW S, Talks(S), NEW F, NEW a, Rests(S, F, a), NEW b, Fine(S, F, b), b.history = a.history, b.pins = a.pins
  PROVE  Holds(S, F, a, b)
<1>1. Sound(S, F, a) /\ Kept(F, a)
  BY DEF Rests, Fine
<1>2. a.history \in Seq(Msgs) /\ a.pins \in Seq(PinTargets)
  BY <1>1, SoundIs
<1>3. More(a.history, b.history)
  BY <1>2, MoreSame
<1>4. Kept(F, b)
  BY <1>1, <1>2, <1>3, KeptWith
<1> QED
  BY <1>4 DEF Holds

LEMMA HoldsStill ==
  ASSUME NEW S, Talks(S), NEW F, NEW a, Rests(S, F, a), NEW e \in StillEvents
  PROVE  Holds(S, F, a, Log(a, e)) /\ Log(a, e).history = a.history
<1>1. Fine(S, F, a)
  BY DEF Rests
<1>2. Fine(S, F, Log(a, e)) /\ Log(a, e).history = a.history /\ Keeps(a, Log(a, e))
  BY <1>1, LogStill
<1>3. Log(a, e).pins = a.pins
  BY <1>2 DEF Keeps
<1> QED
  BY <1>2, <1>3, HoldsSame

LEMMA HoldsAllStill ==
  ASSUME NEW S, Talks(S), NEW F, NEW a, Rests(S, F, a), NEW es \in Seq(StillEvents)
  PROVE  Holds(S, F, a, LogAll(a, es)) /\ LogAll(a, es).history = a.history
<1>1. Fine(S, F, a)
  BY DEF Rests
<1>2. Fine(S, F, LogAll(a, es)) /\ LogAll(a, es).history = a.history /\ Keeps(a, LogAll(a, es))
  BY <1>1, LogAllStill
<1>3. LogAll(a, es).pins = a.pins
  BY <1>2 DEF Keeps
<1> QED
  BY <1>2, <1>3, HoldsSame

LEMMA HoldsAdd ==
  ASSUME NEW S, Talks(S), NEW F, NEW a, Rests(S, F, a), NEW m \in S, m.role # "system", NEW via,
         NEW b, b = AddPrompt(a, via, m)
  PROVE  Holds(S, F, a, b) /\ b.history = Append(a.history, m)
<1>1. Fine(S, F, a) /\ Kept(F, a)
  BY DEF Rests
<1>2. Sound(S, F, a)
  BY <1>1 DEF Fine
<1>3. a.history \in Seq(Msgs) /\ a.pins \in Seq(PinTargets) /\ m \in Msgs
  BY <1>2, SoundIs DEF Talks
<1>4. Fine(S, F, b) /\ b.history = Append(a.history, m) /\ Keeps(a, b)
  BY <1>1, AddPromptTo
<1>5. Append(a.history, m) \in Seq(Msgs) /\ More(a.history, Append(a.history, m))
  BY <1>3, MoreAppend
<1>6. b.pins = a.pins
  BY <1>4 DEF Keeps
<1>7. Kept(F, b)
  BY <1>1, <1>3, <1>4, <1>5, <1>6, KeptWith
<1> QED
  BY <1>4, <1>6, <1>7 DEF Holds

LEMMA HoldsPatched ==
  ASSUME NEW S, Talks(S), NEW F, NEW a, Rests(S, F, a), NEW turn \in Nat, NEW retry \in Nat, NEW pending \in BOOLEAN
  PROVE  Holds(S, F, a, Patched(a, a.pins, turn, retry, pending)) /\ Patched(a, a.pins, turn, retry, pending).history = a.history
         /\ Patched(a, a.pins, turn, retry, pending).turn = turn
<1>1. Fine(S, F, a) /\ Sound(S, F, a)
  BY DEF Rests, Fine
<1>2. PICK p : p = a.pins
  OBVIOUS
<1>3. p \in Seq(PinTargets)
  BY <1>1, <1>2, SoundIs
<1>4. PICK b : b = Patched(a, p, turn, retry, pending)
  OBVIOUS
<1>5. Fine(S, F, b) /\ b.history = a.history /\ b.pins = p /\ b.turn = turn
  BY <1>1, <1>3, <1>4, PatchedIs
<1> QED
  BY <1>2, <1>4, <1>5, HoldsSame

\* Without a switch the system prompt is the one there is.
LEMMA HoldsRefreshed ==
  ASSUME NEW S, Talks(S), NEW F, NEW a, Rests(S, F, a)
  PROVE  Holds(S, F, a, RefreshSystemPrompt(a))
<1>1. Fine(S, F, a) /\ Sound(S, F, a) /\ Kept(F, a)
  BY DEF Rests, Fine
<1>2. a.history \in Seq(Msgs) /\ Headed(a.history) /\ a.pins \in Seq(PinTargets)
  BY <1>1, SoundIs
<1>3. PICK b : b = RefreshSystemPrompt(a)
  OBVIOUS
<1>4. Fine(S, F, b) /\ b.history = HeadAs(a.history, SystemPrompt(a.system)) /\ Keeps(a, b)
  BY <1>1, <1>3, Refreshed
<1>5. b.history \in Seq(Msgs)
  <2>1. Sound(S, F, b)
    BY <1>4 DEF Fine
  <2> QED
    BY <2>1, SoundIs
<1>6. b.pins = a.pins
  BY <1>4 DEF Keeps
<1>7. ASSUME "switch" \notin F PROVE More(a.history, b.history)
  <2>1. a.system = 1 /\ a.history[1] = SystemPrompt(1)
    BY <1>1, <1>7 DEF Sound, Steady
  <2>2. b.history = a.history
    BY <1>2, <1>4, <2>1, HeadIs
  <2> QED
    BY <1>2, <2>2, MoreSame
<1>8. Kept(F, b)
  BY <1>1, <1>2, <1>5, <1>6, <1>7, KeptWith
<1> QED
  BY <1>3, <1>4, <1>6, <1>8 DEF Holds

LEMMA HoldsHold ==
  ASSUME NEW S, NEW F, NEW a, NEW b, NEW c, Holds(S, F, a, b), Holds(S, F, b, c)
  PROVE  Holds(S, F, a, c)
BY DEF Holds

LEMMA BeginTurnIs ==
  ASSUME NEW S, Talks(S), setup.window \in Nat, NEW F, NEW a, Rests(S, F, a), NEW q \in Nat, NEW recalled \in BOOLEAN,
         NEW b, b = BeginTurn(a, q, recalled)
  PROVE  Holds(S, F, a, b) /\ Last(b.history) = Question(q) /\ Len(b.history) >= 2
<1>1. PICK a1 : a1 = [a EXCEPT !.turn = @ + 1, !.pending = FALSE]
  OBVIOUS
<1>2. Holds(S, F, a, a1)
  <2>1. Sound(S, F, a)
    BY DEF Rests, Fine
  <2>2. a \in AgentsOf(S)
    BY <2>1, SoundIs
  <2>3. [a EXCEPT !.turn = @ + 1, !.pending = FALSE] = Patched(a, a.pins, a.turn + 1, a.retryAfter, FALSE)
    BY <2>2, Patches, Zenon
  <2>4. a.turn \in Nat /\ a.retryAfter \in Nat
    BY <2>2 DEF AgentsOf
  <2>5. a.turn + 1 \in Nat
    BY <2>4
  <2>6. FALSE \in BOOLEAN
    OBVIOUS
  <2>7. Holds(S, F, a, Patched(a, a.pins, a.turn + 1, a.retryAfter, FALSE))
    BY <2>4, <2>5, <2>6, HoldsPatched, Zenon
  <2> QED
    BY <1>1, <2>3, <2>7
<1>3. PICK a2 : a2 = Log(a1, OtherEvent)
  OBVIOUS
<1>4. Holds(S, F, a1, a2)
  <2>1. Rests(S, F, a1) /\ OtherEvent \in StillEvents
    BY <1>2, RestsHold DEF StillEvents
  <2> QED
    BY <1>3, <2>1, HoldsStill
<1>5. PICK a3 : a3 = RefreshSystemPrompt(a2)
  OBVIOUS
<1>6. Holds(S, F, a2, a3)
  BY <1>4, <1>5, RestsHold, HoldsRefreshed
<1>7. PICK k : k = Msg("user", "knowledge", 0)
  OBVIOUS
<1>8. k \in S /\ k.role # "system"
  <2>1. "knowledge" \in Contents /\ 0 \in Nat
    BY DEF Contents
  <2> QED
    BY <1>7, <2>1, TalkMessage
<1>9. PICK a4 : a4 = IF recalled THEN AddPrompt(a3, "memory", k) ELSE a3
  OBVIOUS
<1>10. Holds(S, F, a3, a4)
  <2>1. Rests(S, F, a3)
    BY <1>6, RestsHold
  <2>2. Holds(S, F, a3, AddPrompt(a3, "memory", k))
    BY <1>8, <2>1, HoldsAdd
  <2>3. Holds(S, F, a3, a3)
    BY <2>1, HoldsSame DEF Rests
  <2> QED
    BY <1>9, <2>2, <2>3
<1>11. PICK m : m = Question(q)
  OBVIOUS
<1>12. m \in S /\ m \in Msgs /\ m.role = "user" /\ m.text = "question"
  <2>1. "question" \in Contents
    BY DEF Contents
  <2>2. m = Msg("user", "question", q)
    BY <1>11 DEF Question
  <2> QED
    BY <2>1, <2>2, TalkMessage
<1>13. PICK a5 : a5 = AddPrompt(a4, "turn", m)
  OBVIOUS
<1>14. Rests(S, F, a4)
  BY <1>10, RestsHold
<1>15. Holds(S, F, a4, a5)
  BY <1>12, <1>13, <1>14, HoldsAdd
<1>16. /\ RebuildItems(a5.rb) # <<>> /\ Last(RebuildItems(a5.rb)).kind = "turn" /\ Last(a5.history) = m
  <2>1. Fine(S, F, a4)
    BY <1>14 DEF Rests
  <2>2. ClassifyItem(m, "turn") = "turn"
    BY <1>12 DEF ClassifyItem
  <2> QED
    BY <1>12, <1>13, <2>1, <2>2, AddPromptLast
<1>17. MayGo(m)
  BY <1>12 DEF MayGo, IsPinnedContext
<1>18. b = AssembleForTurn(a5)
  BY <1>1, <1>3, <1>5, <1>7, <1>9, <1>11, <1>13, Zenon DEF BeginTurn
<1>19. Holds(S, F, a5, b) /\ Last(b.history) = m /\ Len(b.history) >= 2
  <2>1. Fine(S, F, a5) /\ Kept(F, a5)
    BY <1>15 DEF Holds
  <2> QED
    BY <1>16, <1>17, <1>18, <2>1, AssembleForTurnIs
<1> QED
  BY <1>2, <1>4, <1>6, <1>10, <1>11, <1>15, <1>19, HoldsHold

-----------------------------------------------------------------------------
(* The latest message is dropped.                                           *)

LEMMA HeadedFront ==
  ASSUME NEW M, NEW h \in Seq(M), Headed(h), Len(h) >= 2
  PROVE  /\ Front(h) \in Seq(M) /\ Headed(Front(h)) /\ Front(h)[1] = h[1]
         /\ Len(h) \in Nat /\ Len(Front(h)) = Len(h) - 1 /\ Front(h) = SubSeq(h, 1, Len(h) - 1)
         /\ \A i \in 1 .. Len(h) - 1 : Front(h)[i] = h[i]
<1>1. Len(h) \in Nat /\ h # <<>> /\ h[1] \in M
  BY EmptySeq
<1>2. /\ Front(h) \in Seq(M) /\ Len(Front(h)) = Len(h) - 1
      /\ \A i \in 1 .. Len(h) - 1 : Front(h)[i] = h[i]
  BY <1>1, FrontLast
<1>3. Front(h) # <<>> /\ 1 \in 1 .. Len(h) - 1
  BY <1>1, <1>2, EmptySeq
<1>4. h[1].role = "system" /\ \A i \in 2 .. Len(h) : h[i].role # "system"
  BY DEF Headed
<1>5. \A i \in 2 .. Len(Front(h)) : Front(h)[i].role # "system"
  BY <1>1, <1>2, <1>4
<1>6. Front(h)[1] = h[1]
  BY <1>2, <1>3
<1>7. Headed(Front(h))
  BY <1>3, <1>4, <1>5, <1>6 DEF Headed
<1>8. Front(h) = SubSeq(h, 1, Len(h) - 1)
  BY DEF Front
<1> QED
  BY <1>1, <1>2, <1>6, <1>7, <1>8

LEMMA HoldsFront ==
  ASSUME NEW S, Talks(S), NEW F, NEW a, Rests(S, F, a), Len(a.history) >= 2, Last(a.history).text # "pinned"
  PROVE  Holds(S, F, a, DropLastMessage(a))
<1>1. Fine(S, F, a) /\ Sound(S, F, a) /\ Kept(F, a)
  BY DEF Rests, Fine
<1>2. a.history \in Seq(S) /\ a.history \in Seq(Msgs) /\ Headed(a.history) /\ a.pins \in Seq(PinTargets)
  BY <1>1, SoundIs
<1>3. PICK f : f = Front(a.history)
  OBVIOUS
<1>4. f \in Seq(S) /\ Headed(f) /\ f[1] = a.history[1]
  BY <1>2, <1>3, HeadedFront
<1>5. PICK b : b = SetHistory(a, f)
  OBVIOUS
<1>6. Fine(S, F, b) /\ b.history = f /\ Keeps(a, b)
  BY <1>1, <1>4, <1>5, SetHistoryIs
<1>7. a.history # <<>>
  BY <1>2 DEF Headed
<1>8. More(a.history, f) /\ f \in Seq(Msgs)
  BY <1>2, <1>3, <1>7, MoreFront
<1>9. b.pins = a.pins
  BY <1>6 DEF Keeps
<1>10. Kept(F, b)
  BY <1>1, <1>2, <1>6, <1>8, <1>9, KeptWith
<1>11. DropLastMessage(a) = b
  BY <1>3, <1>5, <1>7 DEF DropLastMessage
<1> QED
  BY <1>6, <1>9, <1>10, <1>11 DEF Holds

\* The history is what the log tells, up to some point of it.
Told(S, F, a, t) ==
  /\ Sound(S, F, a) /\ Kept(F, a) /\ Reads(Msgs, a.rb, t) /\ t[1] = SystemPrompt(a.logSystem)
  /\ Prefix_(a.history, t) /\ Len(a.history) >= 2 /\ Last(a.history).text # "pinned"

LEMMA PrefixIs ==
  ASSUME NEW M, NEW h \in Seq(M), NEW t \in Seq(M), Prefix_(h, t)
  PROVE  Len(h) \in Nat /\ Len(t) \in Nat /\ Len(h) <= Len(t) /\ \A i \in 1 .. Len(h) : h[i] = t[i]
<1>1. Len(h) \in Nat /\ Len(t) \in Nat /\ Len(h) <= Len(t) /\ SubSeq(t, 1, Len(h)) = h
  BY DEF Prefix_
<1>2. \A i \in 1 .. Len(h) : SubSeq(t, 1, Len(h))[i] = t[i]
  BY <1>1
<1> QED
  BY <1>1, <1>2

LEMMA DropRead ==
  ASSUME NEW S, Talks(S), NEW F, NEW a, NEW t, Told(S, F, a, t), NEW b, b = DropLastMessage(a)
  PROVE  Rests(S, F, b) /\ b.history = Front(a.history) /\ b.pins = a.pins
<1>1. /\ Sound(S, F, a) /\ Kept(F, a) /\ Reads(Msgs, a.rb, t) /\ t[1] = SystemPrompt(a.logSystem)
      /\ Prefix_(a.history, t) /\ Len(a.history) >= 2 /\ Last(a.history).text # "pinned"
  BY DEF Told
<1>2. PICK h : h = a.history
  OBVIOUS
<1>3. a \in AgentsOf(S) /\ h \in Seq(S) /\ h \in Seq(Msgs) /\ Headed(h) /\ a.pins \in Seq(PinTargets) /\ a.logSystem \in Nat
  BY <1>1, <1>2, SoundIs
<1>4. PICK f : f = Front(h)
  OBVIOUS
<1>5. /\ f \in Seq(S) /\ f \in Seq(Msgs) /\ Headed(f) /\ f[1] = h[1]
      /\ Len(h) \in Nat /\ Len(f) = Len(h) - 1 /\ f = SubSeq(h, 1, Len(h) - 1)
  BY <1>1, <1>2, <1>3, <1>4, HeadedFront
<1>6. \A i \in 1 .. Len(h) - 1 : f[i] = h[i]
  BY <1>1, <1>2, <1>3, <1>4, HeadedFront
<1>7. PICK n \in Nat : n = Len(h) - 1
  BY <1>1, <1>2, <1>5
<1>8. n \in 1 .. Len(h) /\ f = SubSeq(h, 1, n) /\ f # h /\ h # <<>>
  BY <1>1, <1>2, <1>5, <1>7, EmptySeq
<1>9. PICK ops : ops = <<KeepRange(1, n)>>
  OBVIOUS
<1>10. RewriteOps(h, f) = ops
  BY <1>3, <1>8, <1>9, FrontOps
<1>11. PICK q : q = Finish(a.rb)
  OBVIOUS
<1>12. Ready(Msgs, q, t)
  BY <1>1, <1>11, FinishReady
<1>13. t \in Seq(Msgs) /\ q.items \in Seq(Classified(Msgs)) /\ Messages(q.items) = t /\ Len(q.items) = Len(t)
  BY <1>12, ItemsRead DEF Ready
<1>14. Len(t) \in Nat /\ Len(h) <= Len(t) /\ \A i \in 1 .. Len(h) : h[i] = t[i]
  BY <1>1, <1>2, <1>3, <1>13, PrefixIs
<1>15. PICK its : its = ApplyRewriteOps(q.items, ops)
  OBVIOUS
<1>16. its \in Seq(Classified(Msgs)) /\ Messages(its) = SubSeq(t, 1, n)
  <2>1. n \in 1 .. Len(q.items)
    BY <1>8, <1>13, <1>14
  <2> QED
    BY <1>9, <1>13, <1>15, <2>1, FrontApplied
<1>17. Messages(its) = f
  <2>1. PICK u : u = SubSeq(t, 1, n)
    OBVIOUS
  <2>2. u \in Seq(Msgs) /\ Len(u) = n /\ \A i \in 1 .. n : u[i] = t[i]
    BY <1>8, <1>13, <1>14, <2>1
  <2>3. Len(u) = Len(f) /\ \A i \in 1 .. Len(u) : u[i] = f[i]
    BY <1>5, <1>6, <1>7, <1>8, <1>14, <2>2
  <2>4. u = f
    BY <1>5, <2>2, <2>3, SeqEqual
  <2> QED
    BY <1>16, <2>1, <2>4
<1>18. its # <<>>
  <2>1. Len(Messages(its)) = Len(its)
    <3>1. its \in Seq(ItemsOf(Msgs))
      BY <1>16, SeqMonotonic DEF Classified
    <3> QED
      BY <3>1, MessagesType
  <2>2. Len(its) = n /\ n # 0
    BY <1>5, <1>7, <1>8, <1>17, <2>1
  <2> QED
    BY <1>16, <2>2, EmptySeq
<1>19. PICK r : r = [q EXCEPT !.items = its]
  OBVIOUS
<1>20. Ready(Msgs, r, f)
  BY <1>5, <1>12, <1>16, <1>17, <1>18, <1>19, ReadyWith
<1>21. Apply(a.rb, RewriteEvent(RewriteOps(h, f))) = r
  <2>1. Apply(a.rb, RewriteEvent(ops)) = [q EXCEPT !.items = ApplyRewriteOps(@, ops)]
    BY <1>11, EventsApplied, Zenon
  <2>2. [q EXCEPT !.items = ApplyRewriteOps(@, ops)] = [q EXCEPT !.items = ApplyRewriteOps(q.items, ops)]
    BY <1>12 DEF Ready, Between, Rebuilders
  <2> QED
    BY <1>10, <1>15, <1>19, <2>1, <2>2, Zenon
<1>22. b = With(a, f, r)
  <2>1. b = SetHistory(a, f)
    BY <1>2, <1>4, <1>8 DEF DropLastMessage
  <2>2. SetHistory(a, f) = [Log(a, RewriteEvent(RewriteOps(h, f))) EXCEPT !.history = f]
    BY <1>2, <1>8, Zenon DEF SetHistory
  <2>3. Log(a, RewriteEvent(RewriteOps(h, f))) = [a EXCEPT !.rb = r]
    BY <1>21, Zenon DEF Log
  <2> QED
    BY <2>1, <2>2, <2>3, Zenon DEF With
<1>23. r \in Rebuilders(Msgs)
  BY <1>20 DEF Ready, Between
<1>24. Sound(S, F, b) /\ b.history = f /\ b.rb = r /\ Keeps(a, b)
  <2>1. f[1] = a.history[1] /\ f \in Seq(S) /\ Headed(f)
    BY <1>2, <1>5
  <2>2. /\ Sound(S, F, With(a, f, r)) /\ With(a, f, r).history = f /\ With(a, f, r).rb = r /\ Keeps(a, With(a, f, r))
    BY <1>1, <1>23, <2>1, SoundWith, Zenon
  <2> QED
    BY <1>22, <2>2, Zenon
<1>25. Fine(S, F, b)
  <2>1. Reads(Msgs, b.rb, f)
    BY <1>20, <1>24, ReadyReads
  <2>2. b.logSystem = a.logSystem
    BY <1>24 DEF Keeps
  <2>3. 1 \in 1 .. Len(h)
    BY <1>8
  <2>4. f[1] = SystemPrompt(b.logSystem)
    BY <1>1, <1>5, <1>14, <2>2, <2>3
  <2>5. HeadAs(f, SystemPrompt(b.logSystem)) = f
    BY <1>5, <2>4, HeadIs
  <2> QED
    BY <1>24, <2>1, <2>5 DEF Fine
<1>26. b.pins = a.pins
  BY <1>24 DEF Keeps
<1>27. More(h, f)
  BY <1>1, <1>2, <1>3, <1>4, <1>8, MoreFront
<1>28. Kept(F, b)
  BY <1>1, <1>2, <1>3, <1>5, <1>24, <1>26, <1>27, KeptWith
<1> QED
  BY <1>2, <1>4, <1>24, <1>25, <1>26, <1>28 DEF Rests

-----------------------------------------------------------------------------
(* A call is awaited.                                                       *)

Talking(S, k) == Talks(S) /\ (k => S \subseteq Quiet) /\ (~k => Msgs \subseteq S)

Awaited(S, F, a, snt) ==
  Told(S, F, a, snt) /\ Ready(Msgs, a.rb, snt) /\ a.rb.inTurn = TRUE /\ Last(snt).text # "pinned"
PlainCalls ==
  [form : {"plain", "loop"}, tools : BOOLEAN, question : Nat, retried : BOOLEAN, hadTools : BOOLEAN, said : {FALSE},
   base : Nat, iter : Nat, round : Nat, try : Nat]
PlainCall(c) == c \in PlainCalls
\* The call that message i makes has its result.
AnsweredAt(t, i) == i + 1 \in 1 .. Len(t) /\ t[i].calls = 1 /\ t[i + 1].role = "tool" /\ t[i + 1].n = 0
\* Of the rounds of a tool loop only the newest is not compacted.
RoundAt(k, a, c, snt) ==
  /\ c.form = "plain" \/ c.round = 0 => snt = a.history
  /\ c.round # 0 => c.round \in Len(a.history) + 1 .. Len(snt) /\ snt[c.round].role = "assistant" /\ AnsweredAt(snt, c.round)
  /\ k => Calling(snt) = IF c.round = 0 THEN {} ELSE {c.round}
Waits(S, F, k, a, c, snt) == Awaited(S, F, a, snt) /\ PlainCall(c) /\ RoundAt(k, a, c, snt)

LEMMA PrefixSame ==
  ASSUME NEW M, NEW h \in Seq(M)
  PROVE  Prefix_(h, h)
<1>1. PICK u : u = SubSeq(h, 1, Len(h))
  OBVIOUS
<1>2. Len(h) \in Nat /\ u \in Seq(M) /\ Len(u) = Len(h) /\ \A i \in 1 .. Len(h) : u[i] = h[i]
  BY <1>1
<1>3. u = h
  BY <1>2, SeqEqual
<1> QED
  BY <1>1, <1>2, <1>3 DEF Prefix_

LEMMA QuietCalls ==
  ASSUME NEW h \in Seq(Quiet)
  PROVE  Calling(h) = {}
<1>1. \A i \in 1 .. Len(h) : h[i] \in Quiet
  OBVIOUS
<1> QED
  BY <1>1 DEF Calling, Quiet

\* The whole history is sent.
LEMMA Asked ==
  ASSUME NEW S, NEW k, Talking(S, k), NEW F, NEW a, Rests(S, F, a), Len(a.history) >= 2, Last(a.history).text # "pinned",
         NEW c, PlainCall(c), c.round = 0, NEW b, b = LogModelRequest(a, a.history)
  PROVE  Waits(S, F, k, b, c, a.history)
<1>1. Talks(S) /\ Fine(S, F, a) /\ Sound(S, F, a) /\ Kept(F, a) /\ Reads(Msgs, a.rb, HeadAs(a.history, SystemPrompt(a.logSystem)))
  BY DEF Rests, Fine, Talking
<1>2. PICK h : h = a.history
  OBVIOUS
<1>3. h \in Seq(S) /\ h \in Seq(Msgs) /\ Headed(h) /\ a.pins \in Seq(PinTargets)
  BY <1>1, <1>2, SoundIs
<1>4. Sound(S, F, b) /\ Sent(a, b, h)
  BY <1>1, <1>2, <1>3, Requested
<1>5. /\ Ready(Msgs, b.rb, h) /\ b.rb.inTurn = TRUE /\ h[1] = SystemPrompt(b.logSystem)
      /\ b.history = h /\ b.pins = a.pins
  BY <1>2, <1>4 DEF Sent
<1>6. Kept(F, b)
  BY <1>1, <1>2, <1>3, <1>5, MoreSame, KeptWith
<1>7. Prefix_(h, h)
  BY <1>3, PrefixSame
<1>8. Reads(Msgs, b.rb, h)
  BY <1>5, ReadyReads
<1>9. Told(S, F, b, h)
  BY <1>2, <1>4, <1>5, <1>6, <1>7, <1>8 DEF Told
<1>10. Awaited(S, F, b, h)
  BY <1>2, <1>5, <1>9 DEF Awaited
<1>11. k => Calling(h) = {}
  <2> HAVE k
  <2>1. h \in Seq(Quiet)
    BY <1>3, SeqMonotonic DEF Talking
  <2> QED
    BY <2>1, QuietCalls
<1>12. RoundAt(k, b, c, h)
  BY <1>5, <1>11 DEF RoundAt
<1> QED
  BY <1>2, <1>10, <1>12 DEF Waits

\* What the program does next keeps it so.
Goes(S, F, k, o) == IF o.call.form = "none" THEN Rests(S, F, o.agent) /\ o.sent = <<>> ELSE Waits(S, F, k, o.agent, o.call, o.sent)

LEMMA EndGoes ==
  ASSUME NEW S, NEW F, NEW k, NEW a, Rests(S, F, a)
  PROVE  Goes(S, F, k, EndTurn(a))
BY DEF Goes, EndTurn, NoCall

LEMMA AwaitGoes ==
  ASSUME NEW S, NEW F, NEW k, NEW a, NEW p, NEW c, Waits(S, F, k, LogModelRequest(a, p), c, p)
  PROVE  Goes(S, F, k, Await(a, p, c))
<1>1. c.form # "none"
  BY DEF Waits, PlainCall, PlainCalls
<1>2. Await(a, p, c).agent = LogModelRequest(a, p) /\ Await(a, p, c).call = c /\ Await(a, p, c).sent = p
  BY DEF Await
<1> QED
  BY <1>1, <1>2 DEF Goes

LEMMA SendTurnGoes ==
  ASSUME NEW S, NEW k, Talking(S, k), NEW F, NEW a, Rests(S, F, a), Len(a.history) >= 2, Last(a.history).text # "pinned",
         NEW q \in Nat, NEW structured \in BOOLEAN
  PROVE  Goes(S, F, k, SendTurn(a, q, structured))
<1>1. CASE OverBudget(a)
  <2>1. Holds(S, F, a, DropLastMessage(a))
    BY HoldsFront DEF Talking
  <2>2. Goes(S, F, k, EndTurn(DropLastMessage(a)))
    BY <2>1, RestsHold, EndGoes
  <2> QED
    BY <1>1, <2>2 DEF SendTurn
<1>2. CASE ~OverBudget(a)
  <2>1. PICK c : c = [NoCall EXCEPT !.form = FirstForm(structured), !.tools = structured, !.question = q, !.base = Len(a.history)]
    OBVIOUS
  <2>2. FirstForm(structured) \in {"plain", "loop"}
    BY DEF FirstForm
  <2>3. c = [form |-> FirstForm(structured), tools |-> structured, question |-> q, retried |-> FALSE, hadTools |-> FALSE,
             said |-> FALSE, base |-> Len(a.history), iter |-> 0, round |-> 0, try |-> 0]
    BY <2>1 DEF NoCall
  <2>4. PlainCall(c) /\ c.round = 0
    <3>1. Sound(S, F, a) /\ Talks(S)
      BY DEF Rests, Fine, Talking
    <3>2. Len(a.history) \in Nat
      BY <3>1, SoundIs
    <3> QED
      BY <2>2, <2>3, <3>2 DEF PlainCall, PlainCalls
  <2>5. Waits(S, F, k, LogModelRequest(a, a.history), c, a.history)
    BY <2>4, Asked
  <2>6. SendTurn(a, q, structured) = Await(a, a.history, c)
    BY <1>2, <2>1 DEF SendTurn
  <2> QED
    BY <2>5, <2>6, AwaitGoes
<1> QED
  BY <1>1, <1>2

\* A question.
LEMMA AskGoes ==
  ASSUME NEW S, NEW k, Talking(S, k), setup.window \in Nat, NEW F, NEW a, Rests(S, F, a), NEW q \in Nat,
         NEW recalled \in BOOLEAN, NEW structured \in BOOLEAN
  PROVE  Goes(S, F, k, SendTurn(BeginTurn(a, q, recalled), q, structured))
<1>1. PICK b : b = BeginTurn(a, q, recalled)
  OBVIOUS
<1>2. Holds(S, F, a, b) /\ Last(b.history) = Question(q) /\ Len(b.history) >= 2
  BY <1>1, BeginTurnIs DEF Talking
<1>3. Question(q).text # "pinned"
  BY DEF Question, Msg
<1>4. Rests(S, F, b)
  BY <1>2, RestsHold
<1> QED
  BY <1>1, <1>2, <1>3, <1>4, SendTurnGoes

\* A failed call takes its question away.
LEMMA DropGoes ==
  ASSUME NEW S, NEW k, Talking(S, k), NEW F, NEW a, NEW t, Told(S, F, a, t)
  PROVE  Goes(S, F, k, EndTurn(DropLastMessage(a)))
<1>1. PICK b : b = DropLastMessage(a)
  OBVIOUS
<1>2. Rests(S, F, b)
  BY <1>1, DropRead DEF Talking
<1> QED
  BY <1>1, <1>2, EndGoes

\* While a call is awaited, something is logged.
LEMMA ToldWith ==
  ASSUME NEW S, Talks(S), NEW F, NEW a, NEW t, Told(S, F, a, t), NEW r, Reads(Msgs, r, t), NEW b, b = [a EXCEPT !.rb = r]
  PROVE  Told(S, F, b, t) /\ b.rb = r /\ b.history = a.history
<1>1. /\ Sound(S, F, a) /\ Kept(F, a) /\ t[1] = SystemPrompt(a.logSystem)
      /\ Prefix_(a.history, t) /\ Len(a.history) >= 2 /\ Last(a.history).text # "pinned"
  BY DEF Told
<1>2. r \in Rebuilders(Msgs)
  BY DEF Reads, Between
<1>3. Sound(S, F, b) /\ b.history = a.history /\ b.rb = r /\ Keeps(a, b)
  BY <1>1, <1>2, LogWith
<1>4. b.logSystem = a.logSystem /\ b.pins = a.pins
  BY <1>3 DEF Keeps
<1>5. Kept(F, b)
  BY <1>1, <1>3, <1>4 DEF Kept
<1> QED
  BY <1>1, <1>3, <1>4, <1>5 DEF Told

LEMMA FailGoes ==
  ASSUME NEW S, NEW k, Talking(S, k), NEW F, NEW a, NEW c, NEW snt, Waits(S, F, k, a, c, snt), NEW b,
         b = Log(a, ResponseEvent(FALSE, Msg("assistant", "", 0)))
  PROVE  Goes(S, F, k, EndTurn(DropLastMessage(b)))
<1>1. Told(S, F, a, snt) /\ Ready(Msgs, a.rb, snt)
  BY DEF Waits, Awaited
<1>2. PICK e : e = ResponseEvent(FALSE, Msg("assistant", "", 0))
  OBVIOUS
<1>3. e \in StillEvents
  <2>1. "" \in Contents /\ 0 \in Nat
    BY DEF Contents
  <2>2. Msg("assistant", "", 0) \in Msgs
    <3>1. Talks(S) /\ "assistant" \in {"user", "assistant", "tool"}
      BY DEF Talking
    <3>2. PICK text \in Contents : text = ""
      BY <2>1
    <3>3. PICK m : m = Msg("assistant", text, 0)
      OBVIOUS
    <3>4. m \in Msgs
      BY <3>1, <3>3, TalkMessage
    <3> QED
      BY <3>2, <3>3, <3>4
  <2> QED
    BY <1>2, <2>2 DEF StillEvents
<1>4. PICK r : r = Apply(a.rb, e)
  OBVIOUS
<1>5. Reads(Msgs, r, snt)
  BY <1>1, <1>3, <1>4, ReadyReads, StillApplied
<1>6. b = [a EXCEPT !.rb = r]
  BY <1>2, <1>4, Zenon DEF Log
<1>7. Told(S, F, b, snt)
  BY <1>1, <1>5, <1>6, ToldWith DEF Talking
<1> QED
  BY <1>7, DropGoes

-----------------------------------------------------------------------------
(* A round of tools.                                                        *)

\* A conversation of which round i may have been compacted.
CompactedTo(k, t, i, p) ==
  /\ p \in Seq(Msgs) /\ Len(p) = Len(t) /\ Headed(p) /\ p[1] = t[1]
  /\ \A j \in 1 .. Len(t) : i = 0 \/ j < i => p[j] = t[j]
  /\ \A j \in 1 .. Len(t) : p[j].role = t[j].role /\ (p[j].text = "pinned" => t[j].text = "pinned")
  /\ \A j \in 1 .. Len(t) : j # i => p[j].calls = t[j].calls /\ p[j].n = t[j].n
  /\ k => Calling(p) = Calling(t) \ {i}

LEMMA CompactedIs ==
  ASSUME NEW k, k = setup.compaction, NEW t \in Seq(Msgs), Headed(t), NEW i \in 0 .. Len(t), i # 0 => t[i].role = "assistant",
         NEW p, p = Compacted(t, i)
  PROVE  /\ CompactedTo(k, t, i, p) /\ (CanCompact(t, i) <=> k /\ i # 0)
         /\ p = IF k /\ i # 0 THEN CompactToolRound(t, i) ELSE t
<1>1. Len(t) \in Nat
  OBVIOUS
<1>2. CanCompact(t, i) <=> k /\ i # 0
  BY <1>1 DEF CanCompact
<1>3. p = IF k /\ i # 0 THEN CompactToolRound(t, i) ELSE t
  BY <1>2 DEF Compacted
<1>4. CASE k /\ i # 0
  <2>1. i \in 1 .. Len(t) /\ t[i].role = "assistant" /\ p = CompactToolRound(t, i)
    BY <1>1, <1>3, <1>4
  <2>2. /\ p \in Seq(Msgs) /\ Len(p) = Len(t) /\ Headed(p) /\ p[1] = t[1] /\ i > 1
        /\ \A j \in 1 .. i - 1 : p[j] = t[j]
        /\ \A j \in 1 .. Len(t) : p[j].role = t[j].role /\ (p[j].text = "pinned" => t[j].text = "pinned")
        /\ \A j \in 1 .. Len(t) : j # i => p[j].calls = t[j].calls /\ p[j].n = t[j].n
        /\ Calling(p) = Calling(t) \ {i}
    BY <2>1, CompactHeaded
  <2>3. \A j \in 1 .. Len(t) : i = 0 \/ j < i => p[j] = t[j]
    BY <1>1, <1>4, <2>1, <2>2
  <2> QED
    BY <1>2, <1>3, <2>2, <2>3, Zenon DEF CompactedTo
<1>5. CASE ~(k /\ i # 0)
  <2>1. p = t
    BY <1>3, <1>5
  <2>2. k => Calling(p) = Calling(t) \ {i}
    <3>1. 0 \notin Calling(t)
      BY DEF Calling
    <3> QED
      BY <1>5, <2>1, <3>1
  <2> QED
    BY <1>2, <1>3, <2>1, <2>2 DEF CompactedTo
<1> QED
  BY <1>4, <1>5

\* What the log tells then.
LEMMA CompactionRead ==
  ASSUME NEW k, NEW r, NEW t, Reads(Msgs, r, t), NEW i, k /\ i # 0 => i \in Calling(t) /\ \A j \in Calling(t) : i <= j,
         NEW p, p = IF k /\ i # 0 THEN CompactToolRound(t, i) ELSE t,
         NEW q, q = IF k /\ i # 0 THEN Apply(r, RoundCompacted) ELSE r
  PROVE  Reads(Msgs, q, p)
<1>1. CASE k /\ i # 0
  <2>1. Ready(Msgs, Apply(r, RoundCompacted), CompactToolRound(t, i))
    BY <1>1, CompactedRead
  <2> QED
    BY <1>1, <2>1, ReadyReads
<1>2. CASE ~(k /\ i # 0)
  BY <1>2
<1> QED
  BY <1>1, <1>2

LEMMA TwiceLogged ==
  ASSUME NEW S, NEW a \in AgentsOf(S), NEW r, NEW q
  PROVE  [[a EXCEPT !.rb = r] EXCEPT !.rb = q] = [a EXCEPT !.rb = q] /\ [a EXCEPT !.rb = r].rb = r /\ [a EXCEPT !.rb = a.rb] = a
BY DEF AgentsOf

LEMMA LogCompactedIs ==
  ASSUME NEW k, k = setup.compaction, NEW S, NEW a \in AgentsOf(S), NEW r, NEW b, b = [a EXCEPT !.rb = r],
         NEW t, NEW i, CanCompact(t, i) <=> k /\ i # 0, NEW q, q = IF k /\ i # 0 THEN Apply(r, RoundCompacted) ELSE r
  PROVE  LogCompacted(b, t, i) = [a EXCEPT !.rb = q]
<1>1. b.rb = r
  BY TwiceLogged
<1>2. Log(b, RoundCompacted) = [b EXCEPT !.rb = Apply(r, RoundCompacted)]
  BY <1>1, Zenon DEF Log
<1>3. [b EXCEPT !.rb = Apply(r, RoundCompacted)] = [a EXCEPT !.rb = Apply(r, RoundCompacted)]
  BY TwiceLogged, ZenonT(60)
<1>4. CASE k /\ i # 0
  BY <1>2, <1>3, <1>4, Zenon DEF LogCompacted
<1>5. CASE ~(k /\ i # 0)
  BY <1>5, Zenon DEF LogCompacted
<1> QED
  BY <1>4, <1>5

\* What a round adds.
Adds(t, x, y, w) ==
  /\ w \in Seq(Msgs) /\ Headed(w) /\ Len(t) \in Nat /\ Len(w) = Len(t) + 2
  /\ w[Len(t) + 1] = x /\ w[Len(t) + 2] = y /\ Last(w) = y
  /\ \A j \in 1 .. Len(t) : w[j] = t[j]
  /\ Calling(w) = Calling(t) \cup {Len(t) + 1}

LEMMA RoundAdds ==
  ASSUME NEW t \in Seq(Msgs), Headed(t), NEW x \in Msgs, x.role = "assistant", x.calls = 1, NEW y \in Msgs, y.role = "tool",
         NEW w, w = Append(Append(t, x), y)
  PROVE  Adds(t, x, y, w)
<1>1. PICK u : u = Append(t, x)
  OBVIOUS
<1>2. u \in Seq(Msgs) /\ Headed(u) /\ Len(t) \in Nat /\ Len(u) = Len(t) + 1
  BY <1>1, HeadedAppend
<1>3. u[Len(t) + 1] = x /\ \A j \in 1 .. Len(t) : u[j] = t[j]
  BY <1>1, <1>2, AppendProperties
<1>4. w \in Seq(Msgs) /\ Headed(w) /\ Len(w) = Len(t) + 2 /\ Last(w) = y
  <2>1. w = Append(u, y) /\ y.role # "system"
    BY <1>1
  <2>2. w \in Seq(Msgs) /\ Headed(w) /\ Len(w) = Len(u) + 1 /\ Last(w) = y
    BY <1>2, <2>1, HeadedAppend
  <2> QED
    BY <1>2, <2>2
<1>5. w[Len(u) + 1] = y /\ \A j \in 1 .. Len(u) : w[j] = u[j]
  BY <1>1, <1>2, <1>4, AppendProperties
<1>6. w[Len(t) + 1] = x /\ w[Len(t) + 2] = y /\ \A j \in 1 .. Len(t) : w[j] = t[j]
  BY <1>2, <1>3, <1>4, <1>5
<1>8. w[Len(t) + 2] = y
  BY <1>2, <1>5
<1>7. ASSUME NEW j PROVE j \in Calling(w) <=> j \in Calling(t) \cup {Len(t) + 1}
  <2>1. CASE j \in 1 .. Len(t)
    BY <1>2, <1>4, <1>6, <1>8, <2>1 DEF Calling
  <2>2. CASE j = Len(t) + 1
    BY <1>2, <1>4, <1>6, <1>8, <2>2 DEF Calling
  <2>3. CASE j = Len(t) + 2
    BY <1>2, <1>4, <1>6, <1>8, <2>3 DEF Calling
  <2>4. CASE j \notin 1 .. Len(t) + 2
    BY <1>2, <1>4, <2>4 DEF Calling
  <2> QED
    BY <1>2, <2>1, <2>2, <2>3, <2>4
<1> QED
  BY <1>2, <1>4, <1>6, <1>7, <1>8 DEF Adds

\* The messages of a round.
LEMMA RoundMessages ==
  ASSUME NEW text \in Outputs
  PROVE  /\ Msg("assistant", "", 0) \in Said(Msgs) /\ Msg("assistant", "", 0).text # " reply"
         /\ ToolCalls(1) \in Msgs /\ ToolCalls(1).role = "assistant" /\ ToolCalls(1).calls = 1
         /\ ToolResult(0, text) \in Msgs /\ ToolResult(0, text).role = "tool" /\ ToolResult(0, text).n = 0 /\ ToolResult(0, text).text # "pinned"
<1>1. "" \in Contents /\ text \in Contents /\ text # "pinned"
  BY DEF Contents, Outputs
<1>2. Talks(Msgs)
  BY DEF Talks, Quiet
<1>10. "assistant" \in {"user", "assistant", "tool"} /\ "tool" \in {"user", "assistant", "tool"}
  OBVIOUS
<1>11. PICK none \in Contents : none = ""
  BY <1>1
<1>3. PICK x : x = Msg("assistant", none, 0)
  OBVIOUS
<1>12. x = Msg("assistant", "", 0)
  BY <1>3, <1>11
<1>4. x \in Msgs /\ x.role = "assistant" /\ x.text = none
  BY <1>2, <1>3, <1>10, TalkMessage
<1>5. x \in Said(Msgs) /\ x.text # " reply"
  BY <1>4, <1>11 DEF Said
<1>6. PICK y : y = ToolResult(0, text)
  OBVIOUS
<1>7. y \in Msgs /\ y.role = "tool" /\ y.n = 0 /\ y.text # "pinned"
  <2>1. y = Msg("tool", text, 0)
    BY <1>6 DEF ToolResult
  <2>2. PICK c \in Contents : c = text
    BY <1>1
  <2>3. y = Msg("tool", c, 0)
    BY <2>1, <2>2
  <2>4. y \in Msgs /\ y.role = "tool" /\ y.n = 0 /\ y.text = c
    BY <1>2, <1>10, <2>3, TalkMessage
  <2> QED
    BY <1>1, <2>2, <2>4
<1>8. PICK z : z = ToolCalls(1)
  OBVIOUS
<1>9. z \in Msgs /\ z.role = "assistant" /\ z.calls = 1
  <2>1. z = [role |-> "assistant", text |-> "", n |-> 0, calls |-> 1]
    BY <1>8 DEF ToolCalls
  <2>2. "assistant" \in Roles
    BY DEF Roles
  <2>3. z \in Message
    BY <1>1, <2>1, <2>2 DEF Message
  <2> QED
    BY <2>1, <2>3 DEF Msgs
<1> QED
  BY <1>5, <1>6, <1>7, <1>8, <1>9, <1>12

LEMMA LoggedIs ==
  ASSUME NEW S, NEW a \in AgentsOf(S), NEW r, NEW b, b = [a EXCEPT !.rb = r]
  PROVE  b.rb = r
BY DEF AgentsOf

\* One call run: what is logged.
LEMMA RoundLogged ==
  ASSUME NEW S, NEW a \in AgentsOf(S), NEW m, NEW res
  PROVE  ExecuteToolCalls(Log(a, ResponseEvent(TRUE, m)), <<res>>) = [a EXCEPT !.rb = RoundOf(a.rb, m, res)]
<1>1. PICK r : r = Apply(a.rb, ResponseEvent(TRUE, m))
  OBVIOUS
<1>2. PICK b : b = [a EXCEPT !.rb = r]
  OBVIOUS
<1>3. Log(a, ResponseEvent(TRUE, m)) = b
  BY <1>1, <1>2, Zenon DEF Log
<1>4. b.rb = r
  BY <1>2, LoggedIs, Zenon
<1>5. ApplyAll(r, <<ToolCallEvent, ToolResultEvent(res)>>) = RoundOf(a.rb, m, res)
  <2>1. PICK e : e = ToolCallEvent
    OBVIOUS
  <2>2. PICK f : f = ToolResultEvent(res)
    OBVIOUS
  <2>3. ApplyAll(r, <<e, f>>) = Apply(Apply(r, e), f)
    BY ApplyTwo
  <2> QED
    BY <1>1, <2>1, <2>2, <2>3, Zenon DEF RoundOf
<1>6. LogAll(b, <<ToolCallEvent, ToolResultEvent(res)>>) = [b EXCEPT !.rb = RoundOf(a.rb, m, res)]
  BY <1>4, <1>5, Zenon DEF LogAll
<1>7. [b EXCEPT !.rb = RoundOf(a.rb, m, res)] = [a EXCEPT !.rb = RoundOf(a.rb, m, res)]
  BY <1>2, TwiceLogged, Zenon
<1> QED
  BY <1>3, <1>6, <1>7, ExecuteOne, Zenon

\* Some more of what the log tells is sent.
LEMMA AskedMore ==
  ASSUME NEW S, Talks(S), NEW F, NEW a, NEW t, Told(S, F, a, t), NEW r, NEW p, Reads(Msgs, r, p), NEW b, b = [a EXCEPT !.rb = r],
         p[1] = t[1], Prefix_(a.history, p), Last(p).text # "pinned", NEW n, n = LogModelRequest(b, p)
  PROVE  Awaited(S, F, n, p) /\ n.history = a.history
<1>1. /\ Sound(S, F, a) /\ Kept(F, a) /\ Reads(Msgs, a.rb, t) /\ t[1] = SystemPrompt(a.logSystem)
      /\ Prefix_(a.history, t) /\ Len(a.history) >= 2 /\ Last(a.history).text # "pinned"
  BY DEF Told
<1>2. r \in Rebuilders(Msgs) /\ p \in Seq(Msgs) /\ Headed(p)
  BY DEF Reads, Between
<1>3. Sound(S, F, b) /\ b.history = a.history /\ b.rb = r /\ Keeps(a, b)
  BY <1>1, <1>2, LogWith
<1>4. b.logSystem = a.logSystem /\ b.pins = a.pins
  BY <1>3 DEF Keeps
<1>5. a.history \in Seq(Msgs) /\ Headed(a.history) /\ a.pins \in Seq(PinTargets)
  BY <1>1, SoundIs
<1>6. p[1] = b.history[1]
  <2>1. Len(a.history) \in Nat /\ 1 \in 1 .. Len(a.history)
    BY <1>1, <1>5
  <2>2. a.history[1] = p[1]
    BY <1>2, <1>5, <2>1, PrefixIs
  <2> QED
    BY <1>3, <2>2
<1>7. HeadAs(p, SystemPrompt(b.logSystem)) = p
  <2>1. p[1] = SystemPrompt(b.logSystem)
    BY <1>1, <1>4
  <2> QED
    BY <1>2, <2>1, HeadIs
<1>8. Sound(S, F, n) /\ Sent(b, n, p)
  <2>1. Reads(Msgs, b.rb, HeadAs(p, SystemPrompt(b.logSystem)))
    BY <1>3, <1>7
  <2> QED
    BY <1>2, <1>3, <1>6, <2>1, Requested
<1>9. /\ Ready(Msgs, n.rb, p) /\ n.rb.inTurn = TRUE /\ p[1] = SystemPrompt(n.logSystem)
      /\ n.history = a.history /\ n.pins = a.pins
  BY <1>3, <1>4, <1>8 DEF Sent
<1>10. Kept(F, n)
  BY <1>1, <1>9 DEF Kept
<1>11. Reads(Msgs, n.rb, p)
  BY <1>9, ReadyReads
<1>12. Told(S, F, n, p)
  BY <1>1, <1>8, <1>9, <1>10, <1>11 DEF Told
<1> QED
  BY <1>9, <1>12 DEF Awaited

\* The next call of the loop.
LEMMA NextCall ==
  ASSUME NEW c \in PlainCalls, c.form = "loop", NEW n \in Nat,
         NEW d, d = [c EXCEPT !.iter = @ + 1, !.round = n + 1, !.said = @ \/ FALSE]
  PROVE  PlainCall(d) /\ d.form = "loop" /\ d.round = n + 1 /\ d.round # 0
<1>1. c.said = FALSE /\ c.iter \in Nat
  BY DEF PlainCalls
<1>2. PICK v : v = (c.said \/ FALSE)
  OBVIOUS
<1>3. v = FALSE
  BY <1>1, <1>2
<1>4. d = [form |-> c.form, tools |-> c.tools, question |-> c.question, retried |-> c.retried, hadTools |-> c.hadTools,
           said |-> v, base |-> c.base, iter |-> c.iter + 1, round |-> n + 1, try |-> c.try]
  <2>1. PICK e : e = [c EXCEPT !.iter = @ + 1, !.round = n + 1]
    OBVIOUS
  <2>2. e = [form |-> c.form, tools |-> c.tools, question |-> c.question, retried |-> c.retried, hadTools |-> c.hadTools,
             said |-> c.said, base |-> c.base, iter |-> c.iter + 1, round |-> n + 1, try |-> c.try]
    BY <2>1 DEF PlainCalls
  <2>3. d = [e EXCEPT !.said = @ \/ FALSE]
    BY <2>1, Zenon
  <2>4. e.said = c.said
    BY <2>2
  <2>5. d = [e EXCEPT !.said = v]
    BY <1>2, <2>3, <2>4, Zenon
  <2> QED
    BY <2>2, <2>5
<1>5. d \in PlainCalls
  <2>1. /\ c.form \in {"plain", "loop"} /\ c.tools \in BOOLEAN /\ c.question \in Nat /\ c.retried \in BOOLEAN
        /\ c.hadTools \in BOOLEAN /\ c.base \in Nat /\ c.try \in Nat
    BY DEF PlainCalls
  <2>2. c.iter + 1 \in Nat /\ n + 1 \in Nat
    BY <1>1
  <2>3. v \in {FALSE}
    BY <1>3
  <2> QED
    BY <1>4, <2>1, <2>2, <2>3, Zenon DEF PlainCalls
<1> QED
  BY <1>4, <1>5 DEF PlainCall

LEMMA PrefixOf ==
  ASSUME NEW M, NEW h \in Seq(M), NEW t \in Seq(M), Len(h) <= Len(t), \A i \in 1 .. Len(h) : h[i] = t[i]
  PROVE  Prefix_(h, t)
<1>1. PICK u : u = SubSeq(t, 1, Len(h))
  OBVIOUS
<1>2. Len(h) \in Nat /\ Len(t) \in Nat
  OBVIOUS
<1>3. u \in Seq(M) /\ Len(u) = Len(h) /\ \A i \in 1 .. Len(h) : u[i] = t[i]
  BY <1>1, <1>2
<1>4. u = h
  BY <1>3, SeqEqual
<1> QED
  BY <1>1, <1>4 DEF Prefix_

\* What is known of an awaited call.
LEMMA WaitsIs ==
  ASSUME NEW S, NEW k, Talking(S, k), NEW F, NEW a, NEW c, NEW snt, Waits(S, F, k, a, c, snt)
  PROVE  /\ Told(S, F, a, snt) /\ Ready(Msgs, a.rb, snt) /\ a.rb.inTurn = TRUE /\ Last(snt).text # "pinned"
         /\ a \in AgentsOf(S) /\ a.history \in Seq(S) /\ a.history \in Seq(Msgs) /\ Headed(a.history)
         /\ snt \in Seq(Msgs) /\ Headed(snt) /\ c \in PlainCalls /\ RoundAt(k, a, c, snt)
         /\ Len(a.history) \in Nat /\ Len(snt) \in Nat /\ Len(a.history) >= 2 /\ Len(a.history) <= Len(snt)
<1>1. Told(S, F, a, snt) /\ Ready(Msgs, a.rb, snt) /\ a.rb.inTurn = TRUE /\ Last(snt).text # "pinned"
  BY DEF Waits, Awaited
<1>2. Sound(S, F, a) /\ Prefix_(a.history, snt) /\ Len(a.history) >= 2
  BY <1>1 DEF Told
<1>3. a \in AgentsOf(S) /\ a.history \in Seq(S) /\ a.history \in Seq(Msgs) /\ Headed(a.history)
  BY <1>2, SoundIs DEF Talking
<1>4. snt \in Seq(Msgs) /\ Headed(snt)
  BY <1>1 DEF Ready
<1>5. Len(a.history) \in Nat /\ Len(snt) \in Nat /\ Len(a.history) <= Len(snt)
  BY <1>2, <1>3, <1>4, PrefixIs
<1>6. c \in PlainCalls /\ RoundAt(k, a, c, snt)
  BY DEF Waits, PlainCall
<1> QED
  BY <1>1, <1>2, <1>3, <1>4, <1>5, <1>6, Zenon

RoundIn(k, h, i, snt) ==
  /\ i = 0 => snt = h
  /\ i # 0 => i \in Len(h) + 1 .. Len(snt) /\ snt[i].role = "assistant" /\ AnsweredAt(snt, i)
  /\ k => Calling(snt) = IF i = 0 THEN {} ELSE {i}

\* The round before is the oldest.
OldRound(k, w, i) ==
  /\ w \in Seq(Msgs) /\ Headed(w) /\ i \in 0 .. Len(w) /\ (i # 0 => w[i].role = "assistant")
  /\ k /\ i # 0 => i \in Calling(w) /\ \A j \in Calling(w) : i <= j

LEMMA RoundSent ==
  ASSUME NEW k, NEW h \in Seq(Msgs), NEW snt \in Seq(Msgs), Headed(snt), NEW i \in Nat, RoundIn(k, h, i, snt),
         NEW x \in Msgs, x.role = "assistant", x.calls = 1, NEW y \in Msgs, y.role = "tool",
         NEW w, Adds(snt, x, y, w)
  PROVE  OldRound(k, w, i)
<1>1. /\ w \in Seq(Msgs) /\ Headed(w) /\ Len(snt) \in Nat /\ Len(w) = Len(snt) + 2
      /\ \A j \in 1 .. Len(snt) : w[j] = snt[j]
      /\ Calling(w) = Calling(snt) \cup {Len(snt) + 1}
  BY DEF Adds
<1>2. Len(h) \in Nat
  OBVIOUS
<1>3. i # 0 => i \in 1 .. Len(snt) /\ snt[i].role = "assistant"
  BY <1>1, <1>2 DEF RoundIn
<1>4. i \in 0 .. Len(w) /\ (i # 0 => w[i].role = "assistant")
  BY <1>1, <1>3
<1>5. k /\ i # 0 => i \in Calling(w) /\ \A j \in Calling(w) : i <= j
  <2> HAVE k /\ i # 0
  <2>1. Calling(w) = {i} \cup {Len(snt) + 1}
    BY <1>1 DEF RoundIn
  <2> QED
    BY <1>1, <1>3, <2>1
<1> QED
  BY <1>1, <1>4, <1>5 DEF OldRound

\* It is compacted.
LEMMA OldCompacted ==
  ASSUME NEW k, k = setup.compaction, NEW w, NEW i, OldRound(k, w, i), NEW p, p = Compacted(w, i),
         NEW r, Reads(Msgs, r, w), NEW q, q = IF k /\ i # 0 THEN Apply(r, RoundCompacted) ELSE r
  PROVE  CompactedTo(k, w, i, p) /\ (CanCompact(w, i) <=> k /\ i # 0) /\ Reads(Msgs, q, p)
<1>1. /\ w \in Seq(Msgs) /\ Headed(w) /\ i \in 0 .. Len(w) /\ (i # 0 => w[i].role = "assistant")
      /\ k /\ i # 0 => i \in Calling(w) /\ \A j \in Calling(w) : i <= j
  BY DEF OldRound
<1>2. /\ CompactedTo(k, w, i, p) /\ (CanCompact(w, i) <=> k /\ i # 0)
      /\ p = IF k /\ i # 0 THEN CompactToolRound(w, i) ELSE w
  BY <1>1, CompactedIs
<1>3. Reads(Msgs, q, p)
  BY <1>1, <1>2, CompactionRead
<1> QED
  BY <1>2, <1>3

\* What is sent after a round: only the new round makes calls.
LEMMA RoundPrompt ==
  ASSUME NEW k, NEW h \in Seq(Msgs), Len(h) >= 2, NEW snt \in Seq(Msgs), Headed(snt), Prefix_(h, snt),
         NEW i \in Nat, RoundIn(k, h, i, snt),
         NEW x \in Msgs, x.role = "assistant", x.calls = 1, NEW y \in Msgs, y.role = "tool", y.n = 0, y.text # "pinned",
         NEW w, Adds(snt, x, y, w), NEW p, CompactedTo(k, w, i, p)
  PROVE  Prefix_(h, p) /\ p[1] = snt[1] /\ Last(p).text # "pinned" /\ RoundIn(k, h, Len(snt) + 1, p)
<1>1. /\ w \in Seq(Msgs) /\ Headed(w) /\ Len(snt) \in Nat /\ Len(w) = Len(snt) + 2
      /\ w[Len(snt) + 1] = x /\ w[Len(snt) + 2] = y
      /\ \A j \in 1 .. Len(snt) : w[j] = snt[j]
      /\ Calling(w) = Calling(snt) \cup {Len(snt) + 1}
  BY DEF Adds
<1>2. PICK n \in Nat : n = Len(snt)
  BY <1>1
<1>3. PICK l \in Nat : l = Len(h)
  OBVIOUS
<1>4. l <= n /\ l >= 2 /\ \A j \in 1 .. l : h[j] = snt[j]
  BY <1>2, <1>3, PrefixIs
<1>5. i # 0 => i \in l + 1 .. n
  BY <1>2, <1>3 DEF RoundIn
<1>6. /\ p \in Seq(Msgs) /\ Len(p) = n + 2 /\ Headed(p) /\ p[1] = w[1]
      /\ \A j \in 1 .. n + 2 : i = 0 \/ j < i => p[j] = w[j]
      /\ \A j \in 1 .. n + 2 : p[j].role = w[j].role /\ (p[j].text = "pinned" => w[j].text = "pinned")
      /\ \A j \in 1 .. n + 2 : j # i => p[j].calls = w[j].calls /\ p[j].n = w[j].n
      /\ k => Calling(p) = Calling(w) \ {i}
  BY <1>1, <1>2 DEF CompactedTo
<1>7. Prefix_(h, p)
  <2>1. ASSUME NEW j \in 1 .. l PROVE h[j] = p[j]
    <3>1. j \in 1 .. n /\ j \in 1 .. n + 2 /\ (i = 0 \/ j < i)
      BY <1>4, <1>5
    <3> QED
      BY <1>1, <1>2, <1>4, <1>6, <3>1
  <2>2. Len(h) <= Len(p)
    BY <1>3, <1>4, <1>6
  <2> QED
    BY <1>3, <1>6, <2>1, <2>2, PrefixOf
<1>8. p[1] = snt[1]
  <2>1. 1 \in 1 .. n
    BY <1>4
  <2> QED
    BY <1>1, <1>2, <1>6, <2>1
<1>9. Last(p).text # "pinned"
  <2>1. Last(p) = p[n + 2] /\ n + 2 \in 1 .. n + 2
    BY <1>6 DEF Last
  <2> QED
    BY <1>1, <1>2, <1>6, <2>1
<1>10. p[n + 1].role = "assistant"
  <2>1. n + 1 \in 1 .. n + 2
    OBVIOUS
  <2> QED
    BY <1>1, <1>2, <1>6, <2>1
<1>11. k => Calling(p) = {n + 1}
  <2> HAVE k
  <2>1. Calling(snt) = (IF i = 0 THEN {} ELSE {i}) /\ n + 1 # i
    BY <1>4, <1>5 DEF RoundIn
  <2> QED
    BY <1>1, <1>2, <1>6, <2>1
<1>12. n + 1 # 0 /\ n + 1 \in l + 1 .. Len(p)
  BY <1>4, <1>6
<1>14. AnsweredAt(p, n + 1)
  <2>1. n + 1 \in 1 .. n + 2 /\ n + 2 \in 1 .. n + 2 /\ n + 1 # i /\ n + 2 # i /\ n + 1 + 1 = n + 2
    BY <1>4, <1>5
  <2>2. p[n + 1].calls = 1 /\ p[n + 2].role = "tool" /\ p[n + 2].n = 0
    BY <1>1, <1>2, <1>6, <2>1
  <2> QED
    BY <1>6, <2>1, <2>2 DEF AnsweredAt
<1>13. RoundIn(k, h, n + 1, p)
  BY <1>3, <1>10, <1>11, <1>12, <1>14 DEF RoundIn
<1> QED
  BY <1>2, <1>7, <1>8, <1>9, <1>13

\* What the log tells of it.
Restored(a, b, p) == \E q : Reads(Msgs, q, p) /\ b = [a EXCEPT !.rb = q]

LEMMA RoundTold ==
  ASSUME NEW k, k = setup.compaction, NEW S, NEW a \in AgentsOf(S), NEW r, NEW ran, ran = [a EXCEPT !.rb = r],
         NEW w, NEW i, OldRound(k, w, i), Ready(Msgs, r, w), NEW p, p = Compacted(w, i)
  PROVE  CompactedTo(k, w, i, p) /\ Restored(a, LogCompacted(ran, w, i), p)
<1>1. Reads(Msgs, r, w)
  BY ReadyReads
<1>2. PICK q : q = IF k /\ i # 0 THEN Apply(r, RoundCompacted) ELSE r
  OBVIOUS
<1>3. CompactedTo(k, w, i, p) /\ (CanCompact(w, i) <=> k /\ i # 0) /\ Reads(Msgs, q, p)
  BY <1>1, <1>2, OldCompacted
<1>4. LogCompacted(ran, w, i) = [a EXCEPT !.rb = q]
  BY <1>2, <1>3, LogCompactedIs
<1> QED
  BY <1>3, <1>4 DEF Restored

\* What is sent next.
IsRound(x, y) ==
  /\ x \in Msgs /\ x.role = "assistant" /\ x.calls = 1
  /\ y \in Msgs /\ y.role = "tool" /\ y.n = 0 /\ y.text # "pinned"

LEMMA RoundAwaited ==
  ASSUME NEW S, NEW k, Talking(S, k), NEW F, NEW a, NEW snt, Told(S, F, a, snt), Headed(snt), snt \in Seq(Msgs), a.history \in Seq(Msgs),
         NEW i \in Nat, RoundIn(k, a.history, i, snt),
         NEW x, NEW y, IsRound(x, y), NEW w, Adds(snt, x, y, w), NEW p, CompactedTo(k, w, i, p), NEW q, Reads(Msgs, q, p), NEW b, b = [a EXCEPT !.rb = q],
         NEW d, PlainCall(d), d.form = "loop", d.round = Len(snt) + 1, d.round # 0
  PROVE  Goes(S, F, k, Await(b, p, d))
<1>1. PICK h : h = a.history
  OBVIOUS
<1>2. h \in Seq(Msgs) /\ Len(h) >= 2 /\ Prefix_(h, snt) /\ RoundIn(k, h, i, snt)
  BY <1>1 DEF Told
<1>3. Prefix_(h, p) /\ p[1] = snt[1] /\ Last(p).text # "pinned" /\ RoundIn(k, h, Len(snt) + 1, p)
  BY <1>2, RoundPrompt DEF IsRound
<1>4. PICK f : f = LogModelRequest(b, p)
  OBVIOUS
<1>5. Awaited(S, F, f, p) /\ f.history = h
  <2>1. Talks(S) /\ Prefix_(a.history, p)
    BY <1>1, <1>3 DEF Talking
  <2>2. p[1] = snt[1] /\ Last(p).text # "pinned" /\ f = LogModelRequest(b, p)
    BY <1>3, <1>4
  <2>3. Awaited(S, F, f, p) /\ f.history = a.history
    BY <2>1, <2>2, AskedMore
  <2> QED
    BY <1>1, <2>3
<1>6. RoundAt(k, f, d, p)
  <2>1. ~(d.form = "plain" \/ d.round = 0)
    OBVIOUS
  <2>2. RoundIn(k, f.history, d.round, p)
    BY <1>3, <1>5
  <2> QED
    BY <2>1, <2>2, Zenon DEF RoundAt, RoundIn
<1>7. Waits(S, F, k, f, d, p)
  BY <1>5, <1>6, Zenon DEF Waits
<1> QED
  BY <1>4, <1>7, AwaitGoes, Zenon

LEMMA RoundGoes ==
  ASSUME NEW S, NEW k, k = setup.compaction, Talking(S, k), NEW F, NEW a, NEW c, c.form = "loop", NEW snt,
         Waits(S, F, k, a, c, snt), NEW text \in Outputs,
         NEW w, w = Append(Append(snt, ToolCalls(1)), ToolResult(0, text)),
         NEW ran, ran = [a EXCEPT !.rb = RoundOf(a.rb, Msg("assistant", "", 0), ToolResult(0, text))],
         NEW d, d = [c EXCEPT !.iter = @ + 1, !.round = Len(snt) + 1, !.said = @ \/ FALSE]
  PROVE  Goes(S, F, k, Await(LogCompacted(ran, w, c.round), Compacted(w, c.round), d))
<1>1. /\ Told(S, F, a, snt) /\ Ready(Msgs, a.rb, snt) /\ a.rb.inTurn = TRUE
      /\ a \in AgentsOf(S) /\ a.history \in Seq(Msgs)
      /\ snt \in Seq(Msgs) /\ Headed(snt) /\ c \in PlainCalls /\ RoundAt(k, a, c, snt)
      /\ Len(a.history) \in Nat /\ Len(snt) \in Nat /\ Len(a.history) >= 2 /\ Len(a.history) <= Len(snt)
  BY WaitsIs, Zenon
<1>2. PICK m : m = Msg("assistant", "", 0)
  OBVIOUS
<1>3. PICK x : x = ToolCalls(1)
  OBVIOUS
<1>4. PICK y : y = ToolResult(0, text)
  OBVIOUS
<1>5. /\ m \in Said(Msgs) /\ m.text # " reply" /\ x \in Msgs /\ x.role = "assistant" /\ x.calls = 1
      /\ y \in Msgs /\ y.role = "tool" /\ y.n = 0 /\ y.text # "pinned"
  BY <1>2, <1>3, <1>4, RoundMessages, Zenon
<1>6. w = Append(Append(snt, x), y)
  BY <1>3, <1>4, Zenon
<1>7. Adds(snt, x, y, w)
  BY <1>1, <1>5, <1>6, RoundAdds, Zenon
<1>8. PICK i : i = c.round
  OBVIOUS
<1>9. i \in Nat
  BY <1>1, <1>8, Zenon DEF PlainCalls
<1>10. RoundIn(k, a.history, i, snt)
  BY <1>1, <1>8, Zenon DEF RoundAt, RoundIn
<1>11. PICK r : r = RoundOf(a.rb, m, y)
  OBVIOUS
<1>12. Ready(Msgs, r, w)
  <2>1. PICK M : M = Msgs
    OBVIOUS
  <2>2. y.role # "system" /\ M \subseteq Msgs /\ Ready(M, a.rb, snt) /\ m \in Said(M) /\ x \in M /\ y \in M /\ ToolCalls(1) \in M
    BY <1>1, <1>3, <1>5, <2>1
  <2>3. Ready(M, RoundOf(a.rb, m, y), Append(Append(snt, ToolCalls(1)), y))
    BY <1>1, <1>5, <2>2, RoundRead, Zenon
  <2> QED
    BY <1>3, <1>6, <1>11, <2>1, <2>3, Zenon
<1>13. OldRound(k, w, i)
  BY <1>1, <1>5, <1>7, <1>9, <1>10, RoundSent, Zenon
<1>14. ran = [a EXCEPT !.rb = r]
  BY <1>2, <1>4, <1>11, Zenon
<1>15. PICK p : p = Compacted(w, i)
  OBVIOUS
<1>16. CompactedTo(k, w, i, p) /\ Restored(a, LogCompacted(ran, w, i), p)
  <2>1. a \in AgentsOf(S)
    BY <1>1
  <2> QED
    BY <2>1, <1>12, <1>13, <1>14, <1>15, RoundTold, Zenon
<1>17. PICK q : Reads(Msgs, q, p) /\ LogCompacted(ran, w, i) = [a EXCEPT !.rb = q]
  BY <1>16 DEF Restored
<1>18. PlainCall(d) /\ d.form = "loop" /\ d.round = Len(snt) + 1 /\ d.round # 0
  BY <1>1, NextCall, ZenonT(60)
<1>19. PICK b : b = [a EXCEPT !.rb = q]
  OBVIOUS
<1>21. IsRound(x, y)
  BY <1>5, Zenon DEF IsRound
<1>20. Goes(S, F, k, Await(b, p, d))
  BY <1>1, <1>7, <1>9, <1>10, <1>16, <1>17, <1>18, <1>19, <1>21, RoundAwaited, ZenonT(60)
<1> QED
  BY <1>8, <1>15, <1>17, <1>19, <1>20, Zenon

-----------------------------------------------------------------------------
(* The reply.                                                               *)

LEMMA PrefixAppend ==
  ASSUME NEW M, NEW h \in Seq(M), NEW m \in M
  PROVE  Prefix_(h, Append(h, m))
<1>1. PICK t : t = Append(h, m)
  OBVIOUS
<1>2. t \in Seq(M) /\ Len(h) \in Nat /\ Len(t) = Len(h) + 1 /\ \A i \in 1 .. Len(h) : t[i] = h[i]
  BY <1>1, AppendProperties
<1>3. Prefix_(h, t)
  BY <1>2, PrefixOf
<1> QED
  BY <1>1, <1>3

\* The history becomes what was sent, and the log tells of the reply too.
Replied(S, F, a, t, p, m, q) ==
  /\ Told(S, F, a, t) /\ p \in Seq(S) /\ Headed(p) /\ p[1] = t[1] /\ Len(p) >= 2 /\ Last(p).text # "pinned"
  /\ Prefix_(a.history, p) /\ m \in S /\ m.role # "system" /\ Reads(Msgs, q, Append(p, m))

\* The model has replied; the log tells of it already.
After(S, F, b, m) == Told(S, F, b, Append(b.history, m))

LEMMA ToldReply ==
  ASSUME NEW S, Talks(S), NEW F, NEW a, NEW t, NEW p, NEW m, NEW q, Replied(S, F, a, t, p, m, q), NEW b, b = With(a, p, q)
  PROVE  After(S, F, b, m)
<1>0. /\ Told(S, F, a, t) /\ p \in Seq(S) /\ Headed(p) /\ p[1] = t[1] /\ Len(p) >= 2 /\ Last(p).text # "pinned"
      /\ Prefix_(a.history, p) /\ m \in S /\ m.role # "system" /\ Reads(Msgs, q, Append(p, m))
  BY DEF Replied
<1>1. Sound(S, F, a) /\ Kept(F, a) /\ t[1] = SystemPrompt(a.logSystem) /\ Prefix_(a.history, t) /\ Len(a.history) >= 2
  BY <1>0 DEF Told
<1>2. a.history \in Seq(Msgs) /\ a.pins \in Seq(PinTargets) /\ Len(a.history) \in Nat /\ t \in Seq(Msgs)
  BY <1>0, <1>1, SoundIs, PrefixIs DEF Told, Reads
<1>3. p \in Seq(Msgs) /\ m \in Msgs
  BY <1>0, SeqIn DEF Talks
<1>4. q \in Rebuilders(Msgs)
  BY <1>0 DEF Reads, Between
<1>5. p[1] = a.history[1]
  <2>1. \A i \in 1 .. Len(a.history) : a.history[i] = t[i]
    BY <1>1, <1>2, PrefixIs, Zenon
  <2>2. 1 \in 1 .. Len(a.history)
    BY <1>1, <1>2
  <2> QED
    BY <1>0, <2>1, <2>2
<1>6. Sound(S, F, b) /\ b.history = p /\ b.rb = q /\ Keeps(a, b)
  BY <1>0, <1>1, <1>4, <1>5, SoundWith
<1>7. Kept(F, b)
  <2>1. More(a.history, p)
    BY <1>0, <1>2, <1>3, MorePrefix
  <2>2. b.pins = a.pins /\ b.history \in Seq(Msgs) /\ More(a.history, b.history)
    BY <1>3, <1>6, <2>1 DEF Keeps
  <2> QED
    BY <1>1, <1>2, <2>2, KeptWith
<1>8. PICK u : u = Append(p, m)
  OBVIOUS
<1>9. u[1] = SystemPrompt(b.logSystem)
  <2>1. u[1] = p[1]
    BY <1>0, <1>3, <1>8, HeadedAppend
  <2> QED
    BY <1>0, <1>1, <1>6, <2>1 DEF Keeps
<1>10. Prefix_(p, u)
  BY <1>3, <1>8, PrefixAppend
<1> QED
  BY <1>0, <1>6, <1>7, <1>8, <1>9, <1>10, Zenon DEF Told, After

\* A message that calls nothing.
LEMMA CallingAppend ==
  ASSUME NEW t \in Seq(Msgs), NEW m \in Msgs, m.calls = 0
  PROVE  Calling(Append(t, m)) = Calling(t)
<1>1. PICK w : w = Append(t, m)
  OBVIOUS
<1>2. w \in Seq(Msgs) /\ Len(t) \in Nat /\ Len(w) = Len(t) + 1 /\ w[Len(t) + 1] = m /\ \A j \in 1 .. Len(t) : w[j] = t[j]
  BY <1>1, AppendProperties
<1>3. PICK n \in Nat : n = Len(t)
  BY <1>2
<1>4. ASSUME NEW j PROVE j \in Calling(w) <=> j \in Calling(t)
  <2>1. CASE j \in 1 .. n
    BY <1>2, <1>3, <2>1 DEF Calling
  <2>2. CASE j = n + 1
    <3>1. w[j] = m /\ ~(m.calls > 0) /\ j \notin 1 .. n
      BY <1>2, <1>3, <2>2
    <3> QED
      BY <1>3, <3>1 DEF Calling
  <2>3. CASE j \notin 1 .. n + 1
    BY <1>2, <1>3, <2>3 DEF Calling
  <2> QED
    BY <1>3, <2>1, <2>2, <2>3
<1> QED
  BY <1>1, <1>4

\* Compaction when the model has replied.
LEMMA ReplyCompacted ==
  ASSUME NEW k, k = setup.compaction, NEW t, NEW i, OldRound(k, t, i), NEW m \in Msgs, m.role # "tool", m.calls = 0, m.role # "system",
         NEW p, p = Compacted(t, i), NEW r, Reads(Msgs, r, Append(t, m)),
         NEW q, q = IF k /\ i # 0 THEN Apply(r, RoundCompacted) ELSE r
  PROVE  CompactedTo(k, t, i, p) /\ (CanCompact(t, i) <=> k /\ i # 0) /\ Reads(Msgs, q, Append(p, m))
<1>1. /\ t \in Seq(Msgs) /\ Headed(t) /\ i \in 0 .. Len(t) /\ (i # 0 => t[i].role = "assistant")
      /\ k /\ i # 0 => i \in Calling(t) /\ \A j \in Calling(t) : i <= j
  BY DEF OldRound
<1>2. /\ CompactedTo(k, t, i, p) /\ (CanCompact(t, i) <=> k /\ i # 0)
      /\ p = IF k /\ i # 0 THEN CompactToolRound(t, i) ELSE t
  BY <1>1, CompactedIs
<1>3. PICK u : u = Append(t, m)
  OBVIOUS
<1>4. Calling(u) = Calling(t)
  BY <1>1, <1>3, CallingAppend
<1>5. PICK v : v = IF k /\ i # 0 THEN CompactToolRound(u, i) ELSE u
  OBVIOUS
<1>6. Reads(Msgs, q, v)
  BY <1>1, <1>3, <1>4, <1>5, CompactionRead
<1>7. v = Append(p, m)
  <2>1. CASE k /\ i # 0
    <3>1. i \in 1 .. Len(t) /\ t[i].role = "assistant"
      BY <1>1, <2>1
    <3> QED
      BY <1>1, <1>2, <1>3, <1>5, <2>1, <3>1, CompactAppend
  <2>2. CASE ~(k /\ i # 0)
    BY <1>2, <1>3, <1>5, <2>2
  <2> QED
    BY <2>1, <2>2
<1> QED
  BY <1>2, <1>6, <1>7

\* What was sent begins with the history, and so does what is left of it when round i is compacted.
LEMMA KeptPrefix ==
  ASSUME NEW k, NEW h \in Seq(Msgs), NEW t \in Seq(Msgs), Prefix_(h, t), Len(h) >= 2, NEW i \in Nat, RoundIn(k, h, i, t),
         NEW p, CompactedTo(k, t, i, p), Last(t).text # "pinned"
  PROVE  Prefix_(h, p) /\ Len(p) >= 2 /\ p[1] = t[1] /\ Last(p).text # "pinned" /\ p \in Seq(Msgs) /\ Headed(p)
         /\ (k => Calling(p) = {})
<1>1. Len(h) \in Nat /\ Len(t) \in Nat /\ Len(h) <= Len(t) /\ \A j \in 1 .. Len(h) : h[j] = t[j]
  BY PrefixIs
<1>2. /\ p \in Seq(Msgs) /\ Len(p) = Len(t) /\ Headed(p) /\ p[1] = t[1]
      /\ \A j \in 1 .. Len(t) : i = 0 \/ j < i => p[j] = t[j]
      /\ \A j \in 1 .. Len(t) : p[j].role = t[j].role /\ (p[j].text = "pinned" => t[j].text = "pinned")
      /\ k => Calling(p) = Calling(t) \ {i}
  BY DEF CompactedTo
<1>3. PICK n \in Nat : n = Len(t)
  BY <1>1
<1>4. PICK l \in Nat : l = Len(h)
  BY <1>1
<1>5. i # 0 => i \in l + 1 .. n
  BY <1>3, <1>4 DEF RoundIn
<1>6. ASSUME NEW j \in 1 .. l PROVE h[j] = p[j]
  <2>1. j \in 1 .. n /\ (i = 0 \/ j < i)
    BY <1>1, <1>3, <1>4, <1>5
  <2> QED
    BY <1>1, <1>2, <1>3, <1>4, <2>1
<1>7. Prefix_(h, p)
  BY <1>1, <1>2, <1>4, <1>6, PrefixOf
<1>8. Last(p).text # "pinned"
  <2>1. Last(p) = p[n] /\ Last(t) = t[n] /\ n \in 1 .. n
    BY <1>1, <1>2, <1>3, <1>4 DEF Last
  <2> QED
    BY <1>2, <1>3, <2>1
<1>9. k => Calling(p) = {}
  BY <1>2 DEF RoundIn
<1> QED
  BY <1>1, <1>2, <1>7, <1>8, <1>9

\* Of the rounds before, the one compacted is the oldest.
LEMMA OldSent ==
  ASSUME NEW k, NEW h \in Seq(Msgs), NEW t \in Seq(Msgs), Headed(t), NEW i \in Nat, RoundIn(k, h, i, t)
  PROVE  OldRound(k, t, i)
<1>1. Len(h) \in Nat /\ Len(t) \in Nat
  OBVIOUS
<1>2. i \in 0 .. Len(t) /\ (i # 0 => t[i].role = "assistant")
  BY <1>1 DEF RoundIn
<1>3. k /\ i # 0 => i \in Calling(t) /\ \A j \in Calling(t) : i <= j
  BY DEF RoundIn
<1> QED
  BY <1>2, <1>3 DEF OldRound

\* After a plain call.
LEMMA TextPlain ==
  ASSUME NEW S, Talks(S), NEW F, NEW a, Told(S, F, a, a.history), NEW m \in S, m.role # "system",
         NEW r, Reads(Msgs, r, Append(a.history, m)), NEW b, b = [a EXCEPT !.rb = r]
  PROVE  After(S, F, b, m)
<1>1. PICK h : h = a.history
  OBVIOUS
<1>2. Sound(S, F, a) /\ Prefix_(a.history, h) /\ Len(h) >= 2 /\ Last(h).text # "pinned"
  BY <1>1 DEF Told
<1>3. a \in AgentsOf(S) /\ h \in Seq(S) /\ Headed(h)
  BY <1>1, <1>2, SoundIs
<1>4. b = With(a, h, r)
  BY <1>1, <1>3, WithSame
<1>5. h[1] = h[1] /\ Told(S, F, a, h) /\ Reads(Msgs, r, Append(h, m))
  BY <1>1
<1>6. Replied(S, F, a, h, h, m, r)
  BY <1>1, <1>2, <1>3, <1>5, Zenon DEF Replied
<1> QED
  BY <1>4, <1>6, ToldReply

\* After a tool loop: the history is what was sent, of which the last round is compacted too.
Looped(S, F, k, a, t, i, m, r) ==
  /\ Told(S, F, a, t) /\ Last(t).text # "pinned" /\ i \in Nat /\ RoundIn(k, a.history, i, t)
  /\ m \in S /\ m.role = "assistant" /\ m.calls = 0 /\ Reads(Msgs, r, Append(t, m))

LoopDone(d, t, i) == [LogCompacted(d, t, i) EXCEPT !.history = Compacted(t, i)]

LEMMA TextLoop ==
  ASSUME NEW S, NEW k, k = setup.compaction, Talking(S, k), NEW F, NEW a, NEW t, NEW i, NEW m, NEW r, Looped(S, F, k, a, t, i, m, r),
         NEW d, d = [a EXCEPT !.rb = r], NEW b, b = LoopDone(d, t, i)
  PROVE  After(S, F, b, m)
<1>0. /\ Told(S, F, a, t) /\ Last(t).text # "pinned" /\ i \in Nat /\ RoundIn(k, a.history, i, t)
      /\ m \in S /\ m.role = "assistant" /\ m.calls = 0 /\ Reads(Msgs, r, Append(t, m))
  BY DEF Looped
<1>1. Talks(S) /\ (k => S \subseteq Quiet) /\ (~k => Msgs \subseteq S)
  BY DEF Talking
<1>2. PICK h : h = a.history
  OBVIOUS
<1>3. Sound(S, F, a) /\ Prefix_(h, t) /\ Len(h) >= 2 /\ Reads(Msgs, a.rb, t)
  BY <1>0, <1>2 DEF Told
<1>4. a \in AgentsOf(S) /\ h \in Seq(Msgs)
  BY <1>1, <1>2, <1>3, SoundIs
<1>5. t \in Seq(Msgs) /\ Headed(t)
  BY <1>3 DEF Reads
<1>6. m \in Msgs
  BY <1>0, <1>1 DEF Talks
<1>7. OldRound(k, t, i)
  BY <1>0, <1>2, <1>4, <1>5, OldSent
<1>8. PICK p : p = Compacted(t, i)
  OBVIOUS
<1>9. PICK q : q = IF k /\ i # 0 THEN Apply(r, RoundCompacted) ELSE r
  OBVIOUS
<1>10. CompactedTo(k, t, i, p) /\ (CanCompact(t, i) <=> k /\ i # 0) /\ Reads(Msgs, q, Append(p, m))
  BY <1>0, <1>6, <1>7, <1>8, <1>9, ReplyCompacted
<1>11. Prefix_(h, p) /\ Len(p) >= 2 /\ p[1] = t[1] /\ Last(p).text # "pinned" /\ p \in Seq(Msgs) /\ Headed(p)
       /\ (k => Calling(p) = {})
  BY <1>0, <1>2, <1>3, <1>4, <1>5, <1>10, KeptPrefix
<1>12. p \in Seq(S)
  <2>1. CASE k
    <3>1. ASSUME NEW j \in 1 .. Len(p) PROVE p[j] \in Quiet
      BY <1>11, <2>1 DEF Calling, Quiet
    <3>2. Quiet \subseteq S
      BY <1>1 DEF Talks
    <3> QED
      BY <1>11, <3>1, <3>2, SeqIn
  <2>2. CASE ~k
    <3>1. \A j \in 1 .. Len(p) : p[j] \in S
      BY <1>1, <1>11, <2>2
    <3> QED
      BY <1>11, <3>1, SeqIn
  <2> QED
    BY <2>1, <2>2
<1>13. b = With(a, p, q)
  <2>1. LogCompacted(d, t, i) = [a EXCEPT !.rb = q]
    <3>1. CASE CanCompact(t, i)
      <4>1. LogCompacted(d, t, i) = [d EXCEPT !.rb = Apply(d.rb, RoundCompacted)]
        BY <3>1, Zenon DEF LogCompacted, Log
      <4>2. q = Apply(r, RoundCompacted)
        BY <1>9, <1>10, <3>1
      <4>3. [d EXCEPT !.rb = q] = [a EXCEPT !.rb = q] /\ d.rb = r
        BY <1>4, TwiceLogged, ZenonT(60)
      <4> QED
        BY <4>1, <4>2, <4>3, Zenon
    <3>2. CASE ~CanCompact(t, i)
      <4>1. LogCompacted(d, t, i) = d /\ q = r
        BY <1>9, <1>10, <3>2 DEF LogCompacted
      <4> QED
        BY <4>1, Zenon
    <3> QED
      BY <3>1, <3>2
  <2> QED
    BY <1>8, <2>1, Zenon DEF With, LoopDone
<1>14. Prefix_(a.history, p) /\ Headed(p) /\ p[1] = t[1] /\ Len(p) >= 2 /\ Last(p).text # "pinned" /\ m.role # "system"
  BY <1>0, <1>2, <1>11
<1>15. Replied(S, F, a, t, p, m, q)
  BY <1>0, <1>10, <1>12, <1>14, Zenon DEF Replied
<1> QED
  BY <1>1, <1>13, <1>15, ToldReply

LEMMA TextLooped ==
  ASSUME NEW S, NEW k, k = setup.compaction, Talking(S, k), NEW F, NEW a, NEW t, NEW i, NEW m, NEW r, Looped(S, F, k, a, t, i, m, r)
  PROVE  After(S, F, LoopDone([a EXCEPT !.rb = r], t, i), m)
<1>1. PICK d : d = [a EXCEPT !.rb = r]
  OBVIOUS
<1>2. PICK b : b = LoopDone(d, t, i)
  OBVIOUS
<1>3. After(S, F, b, m)
  BY <1>1, <1>2, TextLoop
<1> QED
  BY <1>1, <1>2, <1>3, Zenon

\* What is logged when the model replies.
LEMMA TextTold ==
  ASSUME NEW S, NEW k, k = setup.compaction, Talking(S, k), NEW F, NEW a, NEW c, NEW t, Waits(S, F, k, a, c, t),
         NEW m \in Said(Msgs), m \in S, m.text # " reply", m.calls = 0, NEW d, d = Log(a, ResponseEvent(TRUE, m)),
         NEW b, b = IF c.form = "loop" THEN LoopDone(d, t, c.round) ELSE d
  PROVE  After(S, F, b, m)
<1>1. /\ Told(S, F, a, t) /\ Ready(Msgs, a.rb, t) /\ Last(t).text # "pinned" /\ a.history \in Seq(Msgs)
      /\ c \in PlainCalls /\ RoundAt(k, a, c, t)
  BY WaitsIs
<1>2. m.role = "assistant" /\ Talks(S)
  BY DEF Said, Talking
<1>3. PICK r : r = Apply(a.rb, ResponseEvent(TRUE, m))
  OBVIOUS
<1>4. Reads(Msgs, r, Append(t, m))
  BY <1>1, <1>3, ResponseRead
<1>5. d = [a EXCEPT !.rb = r]
  BY <1>3, Zenon DEF Log
<1>6. CASE c.form = "loop"
  <2>1. PICK i : i = c.round
    OBVIOUS
  <2>2. i \in Nat
    BY <1>1, <2>1, Zenon DEF PlainCalls
  <2>3. RoundIn(k, a.history, i, t)
    BY <1>1, <2>1, Zenon DEF RoundAt, RoundIn
  <2>4. b = LoopDone([a EXCEPT !.rb = r], t, i)
    BY <1>5, <1>6, <2>1, Zenon
  <2>5. Told(S, F, a, t) /\ Last(t).text # "pinned" /\ Reads(Msgs, r, Append(t, m)) /\ m.role = "assistant"
    BY <1>1, <1>2, <1>4
  <2>6. Looped(S, F, k, a, t, i, m, r)
    BY <2>2, <2>3, <2>5, Zenon DEF Looped
  <2>7. After(S, F, LoopDone([a EXCEPT !.rb = r], t, i), m)
    BY <2>6, TextLooped
  <2> QED
    BY <2>4, <2>7, Zenon
<1>7. CASE c.form # "loop"
  <2>1. c.form = "plain"
    BY <1>1, <1>7 DEF PlainCalls
  <2>2. t = a.history
    BY <1>1, <2>1, Zenon DEF RoundAt
  <2>3. b = [a EXCEPT !.rb = r]
    BY <1>5, <1>7, Zenon
  <2>4. Told(S, F, a, a.history) /\ Reads(Msgs, r, Append(a.history, m)) /\ m.role # "system"
    BY <1>1, <1>2, <1>4, <2>2
  <2> QED
    BY <1>2, <2>3, <2>4, TextPlain
<1> QED
  BY <1>6, <1>7

-----------------------------------------------------------------------------
(* The reply joins the history.                                             *)

LEMMA ReplyJoins ==
  ASSUME NEW S, Talks(S), NEW F, NEW b, NEW m \in S, m.role # "system", After(S, F, b, m),
         NEW d, d = [b EXCEPT !.history = Append(@, m)]
  PROVE  Rests(S, F, d)
<1>1. PICK h : h = b.history
  OBVIOUS
<1>2. PICK t : t = Append(h, m)
  OBVIOUS
<1>3. /\ Sound(S, F, b) /\ Kept(F, b) /\ Reads(Msgs, b.rb, t) /\ t[1] = SystemPrompt(b.logSystem)
  BY <1>1, <1>2 DEF After, Told
<1>4. /\ b \in AgentsOf(S) /\ h \in Seq(S) /\ h \in Seq(Msgs) /\ Headed(h) /\ b.pins \in Seq(PinTargets)
  BY <1>1, <1>3, SoundIs
<1>5. m \in Msgs
  BY DEF Talks
<1>6. t \in Seq(S) /\ Headed(t) /\ t[1] = h[1]
  BY <1>2, <1>4, HeadedAppend
<1>7. b.rb \in Rebuilders(Msgs) /\ t \in Seq(Msgs)
  BY <1>3 DEF Reads, Between
<1>8. d = With(b, t, b.rb)
  <2>1. [b EXCEPT !.rb = b.rb] = b
    BY <1>4, TwiceLogged
  <2> QED
    BY <1>1, <1>2, <2>1, Zenon DEF With
<1>9. Sound(S, F, d) /\ d.history = t /\ d.rb = b.rb /\ Keeps(b, d)
  <2>1. t \in Seq(S) /\ Headed(t) /\ t[1] = b.history[1]
    BY <1>1, <1>6
  <2>2. /\ Sound(S, F, With(b, t, b.rb)) /\ With(b, t, b.rb).history = t /\ With(b, t, b.rb).rb = b.rb
        /\ Keeps(b, With(b, t, b.rb))
    BY <1>3, <1>7, <2>1, SoundWith, Zenon
  <2> QED
    BY <1>8, <2>2, Zenon
<1>10. Reads(Msgs, d.rb, HeadAs(t, SystemPrompt(d.logSystem)))
  <2>1. t[1] = SystemPrompt(d.logSystem)
    BY <1>3, <1>9 DEF Keeps
  <2>2. HeadAs(t, t[1]) = t
    BY <1>6, <1>7, HeadIs
  <2> QED
    BY <1>3, <1>9, <2>1, <2>2
<1>11. Kept(F, d)
  <2>1. More(h, t)
    BY <1>2, <1>4, <1>5, MoreAppend
  <2>2. d.pins = b.pins /\ d.history \in Seq(Msgs) /\ More(b.history, d.history)
    BY <1>1, <1>7, <1>9, <2>1 DEF Keeps
  <2> QED
    BY <1>1, <1>3, <1>4, <2>2, KeptWith
<1> QED
  BY <1>9, <1>10, <1>11 DEF Rests, Fine

-----------------------------------------------------------------------------
(* The rolling summary.                                                     *)

\* What the summary leaves.
RestOf(cut, s) == FoldLeft(LAMBDA kept, it : IF Summarised(it, cut) THEN kept ELSE Append(kept, it), <<>>, s)

LEMMA RestIsOnly ==
  ASSUME NEW B, NEW cut, NEW K, K = {it \in B : ~Summarised(it, cut)}
  PROVE  \A s \in Seq(B) : RestOf(cut, s) = Only(s, K)
<1> DEFINE A == Seq(B)
           st == Keeping(B, K)
           Leave(kept, it) == IF Summarised(it, cut) THEN kept ELSE Append(kept, it)
<1>1. <<>> \in A /\ \A a \in A, x \in B : KeptIf(a, x, K) \in A /\ Leave(a, x) = KeptIf(a, x, K)
  BY EmptySeq, AppendProperties DEF KeptIf
<1>2. st \in [A \X B -> A] /\ \A a \in A, x \in B : st[<<a, x>>] = Leave(a, x)
  BY <1>1 DEF Keeping
<1>3. ASSUME NEW p \in Seq(B)
      PROVE  RestOf(cut, p) = Only(p, K)
  <2> DEFINE Folds(g) == g = [s \in SUBSET (DOMAIN p) |->
                                IF s = {} THEN <<>> ELSE Leave(g[s \ {Max(s)}], p[Max(s)])]
             fold == CHOOSE g : Folds(g)
  <2>1. RestOf(cut, p) = fold[DOMAIN p]
    BY Zenon DEF RestOf, FoldLeft, MapThenFoldSet
  <2>2. DOMAIN p = 1 .. Len(p) /\ Len(p) \in Nat /\ \A i \in 1 .. Len(p) : p[i] \in B
    BY LenProperties
  <2> HIDE DEF A, st, Leave
  <2>3. Folds(fold)
    <3>1. PICK g : Steps(g, A, B, st, <<>>, p)
      BY <1>1, <1>2, FoldSteps
    <3>2. \A s \in SUBSET (DOMAIN p) : g[s] = IF s = {} THEN <<>> ELSE Leave(g[s \ {Max(s)}], p[Max(s)])
      BY <1>2, <3>1 DEF Steps
    <3>3. Folds(g)
      BY <3>1, <3>2 DEF Steps
    <3> HIDE DEF Folds
    <3> QED BY <3>3, Zenon
  <2>4. FoldsIn(fold, A, st, <<>>, p, Len(p))
    <3> HIDE DEF fold
    <3>1. \A s \in SUBSET (1 .. Len(p)) : fold[s] = IF s = {} THEN <<>> ELSE Leave(fold[s \ {Max(s)}], p[Max(s)])
      BY <2>2, <2>3
    <3>2. \A s \in SUBSET (1 .. Len(p)) : s # {} => Max(s) \in 1 .. Len(p)
      BY <2>2, GreatestIn
    <3> QED
      BY <1>2, <2>2, <3>1, <3>2 DEF FoldsIn
  <2> HIDE DEF fold, Folds
  <2>5. PICK f : ValuesOf(f, A, st, <<>>, p)
    BY <1>1, <1>2, Folding
  <2>6. PICK h : Folded(h, A, st, <<>>, p) /\ Only(p, K) = h[Len(p)]
    BY OnlyFolds DEF A, st
  <2>7. fold[DOMAIN p] = f[Len(p)]
    BY <2>2, <2>4, <2>5 DEF ValuesOf
  <2>8. f[Len(p)] = h[Len(p)]
    BY <2>2, <2>5, <2>6, FoldedOnce DEF ValuesOf
  <2> QED
    BY <2>1, <2>6, <2>7, <2>8
<1> QED
  BY <1>3

\* What a summary in front of what is left has of a kind that is never summarised.
LEMMA SummaryOnly ==
  ASSUME NEW B, NEW items \in Seq(B), NEW sum \in B, NEW K, NEW L, L \subseteq K, sum \notin L
  PROVE  <<sum>> \o Only(items, K) \in Seq(B) /\ Only(<<sum>> \o Only(items, K), L) = Only(items, L)
<1>1. PICK rest : rest = Only(items, K)
  OBVIOUS
<1>2. rest \in Seq(B) /\ Only(rest, L) \in Seq(B) /\ Only(<<sum>>, L) = <<>>
  <2>1. rest \in Seq(B)
    BY <1>1, OnlyGrows, Zenon
  <2>2. <<>> \in Seq(B) /\ Append(<<>>, sum) = <<sum>>
    OBVIOUS
  <2>3. Only(Append(<<>>, sum), L) = KeptIf(Only(<<>>, L), sum, L) /\ Only(<<>>, L) = <<>>
    BY <2>2, OnlyGrows, Zenon
  <2>4. Only(<<sum>>, L) = <<>>
    BY <2>2, <2>3, Zenon DEF KeptIf
  <2> QED
    BY <2>1, <2>4, OnlyGrows, Zenon
<1>3. <<sum>> \in Seq(B)
  OBVIOUS
<1>4. Only(<<sum>> \o rest, L) = Only(<<sum>>, L) \o Only(rest, L)
  <2>1. PICK one : one = <<sum>>
    OBVIOUS
  <2>2. one \in Seq(B)
    BY <1>3, <2>1
  <2>3. \A t \in Seq(B) : Only(one \o t, L) = Only(one, L) \o Only(t, L)
    BY <2>2, OnlyConcat
  <2> QED
    BY <1>2, <2>1, <2>3, Zenon
<1>5. Only(rest, L) = Only(items, K \cap L)
  <2>1. \A s \in Seq(B) : Only(Only(s, K), L) = Only(s, K \cap L)
    BY OnlyOnly
  <2>2. Only(Only(items, K), L) = Only(items, K \cap L)
    BY <2>1, Zenon
  <2> QED
    BY <1>1, <2>2, Zenon
<1>6. K \cap L = L
  OBVIOUS
<1>7. <<sum>> \o rest \in Seq(B)
  BY <1>2, <1>3
<1>8. <<>> \o Only(rest, L) = Only(rest, L)
  BY <1>2
<1> QED
  BY <1>1, <1>2, <1>4, <1>5, <1>6, <1>7, <1>8, Zenon

\* The summary takes the place of older turns: the system prompt and the pins stay.
SameParts(M, items, x, now) ==
  /\ Prompted(M, now, x)
  /\ \A m : m.text = "pinned" => Only(now, OfMessage(M, m)) = Only(items, OfMessage(M, m))

LEMMA SummaryParts ==
  ASSUME NEW M, M \subseteq Msgs, NEW items, NEW x, Fronted(M, items, x), NEW cut,
         NEW K, K = {it \in Classified(M) : ~Summarised(it, cut)},
         NEW sum \in Classified(M), sum.kind = "summary", sum.msg.text # "pinned",
         NEW now, now = <<sum>> \o Only(items, K)
  PROVE  SameParts(M, items, x, now)
<1>1. PICK B : B = Classified(M)
  OBVIOUS
<1>2. items \in Seq(B) /\ x \in B /\ x.msg.role = "system" /\ sum \in B
  BY <1>1 DEF Fronted
<1>3. ASSUME NEW L, L \subseteq K, sum \notin L
      PROVE  now \in Seq(B) /\ Only(now, L) = Only(items, L)
  BY <1>2, <1>3, SummaryOnly
<1>4. now \in Seq(B) /\ Only(now, OfAKind(M, "system")) = Only(items, OfAKind(M, "system"))
  <2>1. OfAKind(M, "system") \subseteq K /\ sum \notin OfAKind(M, "system")
    BY DEF OfAKind, Summarised
  <2> QED
    BY <1>3, <2>1
<1>5. OfKind(now, "system") = <<x>>
  <2>1. OfKind(items, "system") = <<x>>
    BY SystemOf
  <2>2. OfKind(now, "system") = Only(now, OfAKind(M, "system")) /\ OfKind(items, "system") = Only(items, OfAKind(M, "system"))
    BY <1>1, <1>2, <1>4, OfKindIn, Zenon
  <2> QED
    BY <1>4, <2>1, <2>2, Zenon
<1>6. ASSUME NEW m, m.text = "pinned"
      PROVE  Only(now, OfMessage(M, m)) = Only(items, OfMessage(M, m))
  <2>1. OfMessage(M, m) \subseteq K
    BY <1>6 DEF OfMessage, Summarised, Classified, KindIs
  <2>2. sum \notin OfMessage(M, m)
    BY <1>6 DEF OfMessage
  <2> QED
    BY <1>3, <2>1, <2>2
<1> QED
  BY <1>1, <1>2, <1>4, <1>5, <1>6 DEF Prompted, SameParts

\* The history then.
LEMMA SummaryMore ==
  ASSUME NEW S, S \subseteq Msgs, NEW items, NEW x, Fronted(S, items, x), NEW now, SameParts(S, items, x, now),
         NEW h, h = Messages(Assemble(now, 0))
  PROVE  h \in Seq(S) /\ Headed(h) /\ h[1] = x.msg /\ More(Messages(items), h)
<1>1. 0 \in Nat /\ Prompted(S, now, x)
  BY DEF SameParts
<1>2. Fronted(S, Assemble(now, 0), x)
  BY <1>1, AssembledFront
<1>3. h \in Seq(S) /\ Headed(h) /\ h[1] = x.msg
  BY <1>2, FrontedHeaded
<1>4. More(Messages(now), h)
  BY <1>1, AssembledMore
<1>5. items \in Seq(Classified(S)) /\ now \in Seq(Classified(S))
  BY <1>1 DEF Fronted, Prompted
<1>6. ASSUME NEW p \in PinTargets
      PROVE  Times(Messages(now), PinMessage(p)) = Times(Messages(items), PinMessage(p))
  <2>1. PICK m : m = PinMessage(p)
    OBVIOUS
  <2>2. m.text = "pinned"
    BY <2>1 DEF PinMessage, Msg
  <2>3. Only(now, OfMessage(S, m)) = Only(items, OfMessage(S, m))
    BY <2>2 DEF SameParts
  <2>4. Times(Messages(now), m) = Len(Only(now, OfMessage(S, m))) /\ Times(Messages(items), m) = Len(Only(items, OfMessage(S, m)))
    BY <1>5, TimesMessages, Zenon
  <2> QED
    BY <2>1, <2>3, <2>4, Zenon
<1>7. Messages(now) \in Seq(Msgs) /\ Messages(items) \in Seq(Msgs) /\ h \in Seq(Msgs)
  <2>1. Messages(items) \in Seq(S)
    BY FrontedHeaded
  <2>2. Messages(now) \in Seq(S)
    <3>1. now \in Seq(ItemsOf(S))
      <4>1. Classified(S) \subseteq ItemsOf(S)
        BY DEF Classified
      <4> QED
        BY <1>5, <4>1
    <3> QED
      BY <3>1, MessagesType
  <2>3. \A s \in Seq(S) : s \in Seq(Msgs)
    BY SeqIn
  <2> QED
    BY <1>3, <2>1, <2>2, <2>3
<1>8. More(Messages(items), Messages(now))
  <2>1. \A p \in PinTargets : Times(Messages(items), PinMessage(p)) \in Nat
    BY <1>7, TimesNat
  <2> QED
    BY <1>6, <2>1 DEF More
<1>9. More(Messages(items), h)
  BY <1>4, <1>7, <1>8, MoreMore
<1> QED
  BY <1>3, <1>9

\* The messages of a summary.
LEMMA SummaryItem ==
  ASSUME NEW S, Talks(S), NEW turn \in Nat, NEW sum, sum = Item(Msg("user", "summary", turn), "summary", 0)
  PROVE  sum \in Classified(S) /\ sum.kind = "summary" /\ sum.msg.text # "pinned"
<1>1. PICK m : m = Msg("user", "summary", turn)
  OBVIOUS
<1>2. m \in S /\ m.role = "user" /\ m.text = "summary"
  <2>1. "summary" \in Contents /\ "user" \in {"user", "assistant", "tool"}
    BY DEF Contents
  <2> QED
    BY <1>1, <2>1, TalkMessage
<1>3. sum = [msg |-> m, kind |-> "summary", group |-> 0]
  BY <1>1 DEF Item
<1>4. sum \in ItemsOf(S)
  <2>1. "summary" \in ItemKinds /\ 0 \in Nat
    BY DEF ItemKinds
  <2> QED
    BY <1>2, <1>3, <2>1 DEF ItemsOf
<1>5. KindIs(sum)
  BY <1>2, <1>3 DEF KindIs
<1> QED
  BY <1>2, <1>3, <1>4, <1>5 DEF Classified

LEMMA SummaryHistory ==
  ASSUME NEW S, Talks(S), NEW items \in Seq(Classified(Msgs)), NEW g, g = Messages(items), g \in Seq(S), Headed(g),
         NEW turn \in Nat, NEW cut,
         NEW h, h = Messages(Assemble(<<Item(Msg("user", "summary", turn), "summary", 0)>> \o RestOf(cut, items), 0))
  PROVE  h \in Seq(S) /\ Headed(h) /\ h[1] = g[1] /\ More(g, h)
<1>1. S \subseteq Msgs /\ items \in Seq(Classified(S))
  <2>1. S \subseteq Msgs
    BY DEF Talks
  <2> QED
    BY <2>1, ItemsOfTalk
<1>2. PICK x : x = items[1]
  OBVIOUS
<1>3. Fronted(S, items, x)
  BY <1>1, <1>2, HeadedFronted
<1>4. x.msg = g[1]
  BY <1>1, <1>3, FrontedHeaded
<1>5. PICK K : K = {it \in Classified(S) : ~Summarised(it, cut)}
  OBVIOUS
<1>6. PICK sum : sum = Item(Msg("user", "summary", turn), "summary", 0)
  OBVIOUS
<1>7. sum \in Classified(S) /\ sum.kind = "summary" /\ sum.msg.text # "pinned"
  BY <1>6, SummaryItem
<1>8. PICK now : now = <<sum>> \o Only(items, K)
  OBVIOUS
<1>9. SameParts(S, items, x, now)
  BY <1>1, <1>3, <1>5, <1>7, <1>8, SummaryParts
<1>10. RestOf(cut, items) = Only(items, K)
  BY <1>1, <1>5, RestIsOnly
<1>11. h = Messages(Assemble(now, 0))
  BY <1>6, <1>8, <1>10, Zenon
<1>12. h \in Seq(S) /\ Headed(h) /\ h[1] = x.msg /\ More(Messages(items), h)
  BY <1>1, <1>3, <1>9, <1>11, SummaryMore, Zenon
<1> QED
  BY <1>4, <1>12

LEMMA AdhocStill == AdhocCall \in Seq(StillEvents) /\ AdhocCall \o <<OtherEvent>> \in Seq(StillEvents)
<1>1. RequestEvent(FALSE, <<>>) \in StillEvents /\ OtherEvent \in StillEvents
  BY DEF StillEvents
<1>2. PICK m : m = Msg("assistant", "reply", 0)
  OBVIOUS
<1>3. m \in Msgs
  BY <1>2 DEF Msgs, Message, Msg, Roles, Contents
<1>4. ResponseEvent(FALSE, m) \in StillEvents
  BY <1>3 DEF StillEvents
<1>5. PICK e : e = RequestEvent(FALSE, <<>>)
  OBVIOUS
<1>6. PICK f : f = ResponseEvent(FALSE, m)
  OBVIOUS
<1>7. PICK o : o = OtherEvent
  OBVIOUS
<1>8. e \in StillEvents /\ f \in StillEvents /\ o \in StillEvents
  BY <1>1, <1>4, <1>5, <1>6, <1>7
<1>9. AdhocCall = <<e, f>>
  BY <1>2, <1>5, <1>6 DEF AdhocCall
<1>10. PICK E : E = StillEvents
  OBVIOUS
<1>11. <<e, f>> \in Seq(E) /\ <<e, f>> \o <<o>> \in Seq(E)
  <2>1. e \in E /\ f \in E /\ o \in E
    BY <1>8, <1>10
  <2> QED
    BY <2>1
<1> QED
  BY <1>7, <1>9, <1>10, <1>11

\* A conversation of the same head that keeps the pins.
LEMMA RestsWith ==
  ASSUME NEW S, Talks(S), NEW F, NEW a, Rests(S, F, a), NEW h \in Seq(S), Headed(h), h[1] = a.history[1], More(a.history, h),
         NEW b, b = SetHistory(a, h)
  PROVE  Rests(S, F, b)
<1>1. Fine(S, F, a) /\ Kept(F, a)
  BY DEF Rests
<1>2. Fine(S, F, b) /\ b.history = h /\ Keeps(a, b)
  BY <1>1, SetHistoryIs
<1>3. a.history \in Seq(Msgs) /\ a.pins \in Seq(PinTargets)
  BY <1>1, SoundIs DEF Fine
<1>4. h \in Seq(Msgs)
  BY SeqIn DEF Talks
<1>5. Kept(F, b)
  <2>1. b.pins = a.pins /\ b.history \in Seq(Msgs) /\ More(a.history, b.history)
    BY <1>2, <1>4 DEF Keeps
  <2> QED
    BY <1>1, <1>3, <2>1, KeptWith
<1> QED
  BY <1>2, <1>5 DEF Rests

LEMMA SummarizeRests ==
  ASSUME NEW S, Talks(S), NEW F, NEW a, Rests(S, F, a), LogReproduces(a), NEW b, b = SummarizeForNextTurn(a)
  PROVE  Rests(S, F, b)
<1>1. Fine(S, F, a)
  BY DEF Rests
<1>2. PICK items : items = RebuildItems(a.rb)
  OBVIOUS
<1>3. items \in Seq(Classified(Msgs))
  BY <1>1, <1>2, Reproduced
<1>4. PICK g : g = a.history
  OBVIOUS
<1>5. g = Messages(items)
  BY <1>2, <1>4 DEF LogReproduces
<1>6. g \in Seq(S) /\ Headed(g) /\ a.turn \in Nat
  BY <1>1, <1>4, SoundIs DEF Fine
<1>7. PICK turn : turn = a.turn
  OBVIOUS
<1>8. PICK cut : cut = OldTurns(items)
  OBVIOUS
<1>9. PICK h : h = Messages(Assemble(<<Item(Msg("user", "summary", turn), "summary", 0)>> \o RestOf(cut, items), 0))
  OBVIOUS
<1>10. h \in Seq(S) /\ Headed(h) /\ h[1] = g[1] /\ More(g, h)
  BY <1>3, <1>5, <1>6, <1>7, <1>9, SummaryHistory
<1>11. PICK d : d = LogAll(a, AdhocCall)
  OBVIOUS
<1>12. Holds(S, F, a, d) /\ d.history = a.history
  BY <1>11, AdhocStill, HoldsAllStill
<1>13. Rests(S, F, d)
  BY <1>12, RestsHold
<1>14. b = SetHistory(d, h)
  <2>1. SummarizeForNextTurn(a) =
          SetHistory(LogAll(a, AdhocCall),
                     Messages(Assemble(<<Item(Msg("user", "summary", a.turn), "summary", 0)>> \o
                                         RestOf(OldTurns(RebuildItems(a.rb)), RebuildItems(a.rb)), 0)))
    BY Zenon DEF SummarizeForNextTurn, RestOf
  <2> QED
    BY <1>2, <1>7, <1>8, <1>9, <1>11, <2>1, Zenon
<1> QED
  BY <1>4, <1>10, <1>12, <1>13, <1>14, RestsWith

LEMMA SummaryFailedRests ==
  ASSUME NEW S, Talks(S), NEW F, NEW a, Rests(S, F, a), NEW b, b = SummaryFailed(a)
  PROVE  Rests(S, F, b)
<1>1. PICK d : d = LogAll(a, AdhocCall \o <<OtherEvent>>)
  OBVIOUS
<1>2. Rests(S, F, d)
  BY <1>1, AdhocStill, HoldsAllStill, RestsHold
<1>3. a \in AgentsOf(S) /\ a.turn \in Nat /\ d \in AgentsOf(S)
  BY <1>2, SoundIs DEF Rests, Fine
<1>4. PICK n \in Nat : n = a.turn + SummaryBackoffTurns
  BY <1>3 DEF SummaryBackoffTurns
<1>5. b = [d EXCEPT !.retryAfter = n]
  BY <1>1, <1>4 DEF SummaryFailed
<1>6. b = Patched(d, d.pins, d.turn, n, d.pending) /\ d.turn \in Nat /\ d.pending \in BOOLEAN
  BY <1>3, <1>5, Patches
<1>7. Holds(S, F, d, b)
  BY <1>2, <1>4, <1>6, HoldsPatched
<1> QED
  BY <1>7, RestsHold

\* The turn ends with the reply, or with a summary after it.
LEMMA ConcludeGoes ==
  ASSUME NEW S, Talks(S), NEW F, NEW k, NEW b, NEW m \in S, m.role # "system", After(S, F, b, m),
         NEW o \in Conclude(b, m, FALSE)
  PROVE  Goes(S, F, k, o)
<1>1. PICK d : d = [b EXCEPT !.history = Append(@, m)]
  OBVIOUS
<1>2. Rests(S, F, d)
  BY <1>1, ReplyJoins
<1>3. o \in IF ~DueForSummary(d) THEN {EndTurn(d)} ELSE {EndTurn(SummarizeForNextTurn(d)), EndTurn(SummaryFailed(d))}
  BY <1>1, Zenon DEF Conclude
<1>4. CASE ~DueForSummary(d)
  BY <1>2, <1>3, <1>4, EndGoes
<1>5. CASE DueForSummary(d)
  <2>1. LogReproduces(d)
    BY <1>5 DEF DueForSummary
  <2>2. Rests(S, F, SummarizeForNextTurn(d)) /\ Rests(S, F, SummaryFailed(d))
    BY <1>2, <2>1, SummarizeRests, SummaryFailedRests
  <2> QED
    BY <1>3, <1>5, <2>2, EndGoes
<1> QED
  BY <1>4, <1>5

\* What is between two answers of the model.
WholeAsked(S, F, k, a, c) == Rests(S, F, a) /\ Len(a.history) >= 2 /\ Last(a.history).text # "pinned" /\ PlainCall(c) /\ c.round = 0

LEMMA WholeGoes ==
  ASSUME NEW S, NEW k, Talking(S, k), NEW F, NEW a, NEW c, WholeAsked(S, F, k, a, c)
  PROVE  Goes(S, F, k, Await(a, a.history, c))
<1>1. Rests(S, F, a) /\ Len(a.history) >= 2 /\ Last(a.history).text # "pinned" /\ PlainCall(c) /\ c.round = 0
  BY DEF WholeAsked
<1>2. Waits(S, F, k, LogModelRequest(a, a.history), c, a.history)
  BY <1>1, Asked
<1> QED
  BY <1>2, AwaitGoes

\* The call of a retry, and its message.
RetryOf(form, tools, question, had, base) ==
  [form |-> form, tools |-> tools, question |-> question, retried |-> TRUE, hadTools |-> had,
   said |-> FALSE, base |-> base, iter |-> 0, round |-> 0, try |-> 0]

LEMMA RetryIn ==
  ASSUME NEW form \in {"plain", "loop"}, NEW tools \in BOOLEAN, NEW question \in Nat, NEW had \in BOOLEAN, NEW base \in Nat,
         NEW d, d = RetryOf(form, tools, question, had, base)
  PROVE  PlainCall(d) /\ d.round = 0
BY DEF PlainCall, PlainCalls, RetryOf

LEMMA RetryCall ==
  ASSUME NEW c, PlainCall(c), NEW had \in BOOLEAN,
         NEW d, d = [NoCall EXCEPT !.form = FirstForm(c.tools), !.tools = c.tools, !.question = c.question, !.retried = TRUE,
                                   !.base = c.base, !.hadTools = had]
  PROVE  PlainCall(d) /\ d.round = 0
<1>1. PICK tools \in BOOLEAN : tools = c.tools
  BY DEF PlainCall, PlainCalls
<1>2. PICK question \in Nat : question = c.question
  BY DEF PlainCall, PlainCalls
<1>3. PICK base \in Nat : base = c.base
  BY DEF PlainCall, PlainCalls
<1>4. PICK form \in {"plain", "loop"} : form = FirstForm(c.tools)
  BY DEF FirstForm
<1>5. d = RetryOf(form, tools, question, had, base)
  BY <1>1, <1>2, <1>3, <1>4 DEF NoCall, RetryOf
<1>6. PICK e : e = RetryOf(form, tools, question, had, base)
  OBVIOUS
<1>7. PlainCall(e) /\ e.round = 0
  <2>1. form \in {"plain", "loop"} /\ tools \in BOOLEAN /\ question \in Nat /\ had \in BOOLEAN /\ base \in Nat
    BY <1>1, <1>2, <1>3, <1>4
  <2> QED
    BY <1>6, <2>1, RetryIn
<1> QED
  BY <1>5, <1>6, <1>7, Zenon

LEMMA RetryMessage ==
  ASSUME NEW S, Talks(S), NEW n \in Nat, NEW text \in Contents, text # "pinned", NEW q, q = Msg("user", text, n)
  PROVE  q \in S /\ q.role # "system" /\ q.text # "pinned"
<1>1. q \in S
  BY TalkMessage
<1>2. q.role # "system" /\ q.text # "pinned"
  BY DEF Msg
<1> QED
  BY <1>1, <1>2

LEMMA RetryGoes ==
  ASSUME NEW S, NEW k, Talking(S, k), NEW F, NEW b, NEW m, After(S, F, b, m), call \in PlainCalls
  PROVE  Goes(S, F, k, RetryWithFile(b))
<1>1. Talks(S)
  BY DEF Talking
<1>2. PICK t : Told(S, F, b, t)
  BY DEF After
<1>3. PICK d : d = DropLastMessage(b)
  OBVIOUS
<1>4. Rests(S, F, d) /\ d.history = Front(b.history)
  BY <1>1, <1>2, <1>3, DropRead
<1>5. PICK text : text = "question with file"
  OBVIOUS
<1>16. PICK q : q = Msg("user", text, call.question)
  OBVIOUS
<1>6. q \in S /\ q.role # "system" /\ q.text # "pinned"
  <2>1. call.question \in Nat
    BY DEF PlainCalls
  <2>2. text \in Contents /\ text # "pinned"
    BY <1>5, Zenon DEF Contents
  <2> QED
    BY <1>1, <1>16, <2>1, <2>2, RetryMessage
<1>7. PICK e : e = AddPrompt(d, "retry", q)
  OBVIOUS
<1>8. Holds(S, F, d, e) /\ e.history = Append(d.history, q)
  <2>1. PICK via : via = "retry"
    OBVIOUS
  <2>2. e = AddPrompt(d, via, q) /\ Rests(S, F, d) /\ q \in S /\ q.role # "system"
    BY <1>4, <1>6, <1>7, <2>1
  <2> QED
    BY <1>1, <2>2, HoldsAdd
<1>9. Len(e.history) >= 2 /\ Last(e.history) = q
  <2>1. Fine(S, F, d)
    BY <1>4 DEF Rests
  <2>2. d.history \in Seq(S) /\ Headed(d.history)
    BY <1>1, <2>1, SoundIs DEF Fine
  <2>3. PICK g \in Seq(S) : g = d.history
    BY <2>2
  <2>4. Headed(g) /\ e.history = Append(g, q)
    BY <1>8, <2>2, <2>3
  <2>5. Len(Append(g, q)) >= 2 /\ Last(Append(g, q)) = q
    BY <1>6, <2>4, HeadedAppend, Zenon
  <2> QED
    BY <2>4, <2>5, Zenon
<1>10. PICK had : had = (Len(b.history) > call.base)
  OBVIOUS
<1>11. had \in BOOLEAN
  <2>1. call.base \in Nat
    BY DEF PlainCalls
  <2>2. Len(b.history) \in Nat
    BY <1>1, <1>2, SoundIs DEF Told
  <2> QED
    BY <1>10, <2>1, <2>2
<1>12. PICK c : c = [NoCall EXCEPT !.form = FirstForm(call.tools), !.tools = call.tools, !.question = call.question,
                                   !.retried = TRUE, !.base = call.base, !.hadTools = had]
  OBVIOUS
<1>13. PlainCall(c) /\ c.round = 0
  BY <1>11, <1>12, RetryCall DEF PlainCall
<1>14. WholeAsked(S, F, k, e, c)
  <2>1. Rests(S, F, e)
    BY <1>8, RestsHold
  <2> QED
    BY <1>6, <1>9, <1>13, <2>1 DEF WholeAsked
<1>15. RetryWithFile(b) = Await(e, e.history, c)
  BY <1>3, <1>5, <1>16, <1>7, <1>10, <1>12, Zenon DEF RetryWithFile
<1> QED
  BY <1>14, <1>15, WholeGoes

\* The features without which the log may not tell the prompt, or the pins not stay.
OutOfStep == {"parallel", "prose", "exceeded", "shrink", "padded", "preamble", "selfedit"}
KeepsStep(F) == F \cap OutOfStep = {} /\ ~({"switch", "clear"} \subseteq F)

LEMMA NotIn ==
  ASSUME NEW F, KeepsStep(F)
  PROVE  /\ "parallel" \notin F /\ "prose" \notin F /\ "exceeded" \notin F /\ "shrink" \notin F /\ "padded" \notin F
         /\ "preamble" \notin F /\ "selfedit" \notin F /\ ("clear" \in F => "switch" \notin F)
BY DEF KeepsStep, OutOfStep

\* After a reply.
LEMMA AfterGoes ==
  ASSUME NEW S, NEW k, Talking(S, k), NEW F, F = setup.features, KeepsStep(F), NEW b, NEW m \in S, m.role # "system",
         After(S, F, b, m), call \in PlainCalls, NEW o \in AfterReply(b, m)
  PROVE  Goes(S, F, k, o)
<1>1. Talks(S)
  BY DEF Talking
<1>2. CASE CancelledLate
  <2>1. o = EndTurn(DropLastMessage(b))
    BY <1>2 DEF AfterReply
  <2>2. PICK t : Told(S, F, b, t)
    BY DEF After
  <2> QED
    BY <2>1, <2>2, DropGoes
<1>3. CASE ~CancelledLate
  <2>1. TryExecuteProseToolCalls(b, m) = {}
    BY NotIn DEF TryExecuteProseToolCalls
  <2>2. o \in Conclude(b, m, FALSE) \/ o = RetryWithFile(b)
    BY <1>3, <2>1 DEF AfterReply
  <2>3. CASE o \in Conclude(b, m, FALSE)
    BY <1>1, <2>3, ConcludeGoes
  <2>4. CASE o = RetryWithFile(b)
    BY <2>4, RetryGoes
  <2> QED
    BY <2>2, <2>3, <2>4
<1> QED
  BY <1>2, <1>3

-----------------------------------------------------------------------------
(* Each step.                                                               *)

Holding(S, F, k) == IF call.form = "none" THEN Rests(S, F, agent) /\ sent = <<>> ELSE Waits(S, F, k, agent, call, sent)

LEMMA Continues ==
  ASSUME NEW S, NEW F, NEW k, NEW outcomes, Continue(outcomes), \A o \in outcomes : Goes(S, F, k, o)
  PROVE  Holding(S, F, k)' /\ setup' = setup
<1>1. PICK o \in outcomes : agent' = o.agent /\ sent' = o.sent /\ call' = o.call /\ ctx' = o.ctx
  BY DEF Continue
<1>2. Goes(S, F, k, o)
  BY <1>1
<1>3. IF call'.form = "none" THEN Rests(S, F, agent') /\ sent' = <<>> ELSE Waits(S, F, k, agent', call', sent')
  BY <1>1, <1>2, Zenon DEF Goes
<1>4. setup' = setup
  BY DEF Continue
<1> QED
  BY <1>3, <1>4 DEF Holding

\* What the model may reply.
LEMMA ReplyIs ==
  ASSUME NEW F, F = setup.features, KeepsStep(F), NEW text \in ReplyTexts
  PROVE  text \in Contents /\ text # " reply" /\ text # "pinned"
<1>1. "padded" \notin setup.features
  BY NotIn
<1>2. text = "reply" \/ text = "cannot read"
  BY <1>1, Zenon DEF ReplyTexts
<1> QED
  BY <1>2, Zenon DEF Contents

LEMMA ReplyMessage ==
  ASSUME NEW S, Talks(S), NEW text \in Contents, text # "pinned", NEW n \in Nat, NEW m, m = Msg("assistant", text, n)
  PROVE  m \in S /\ m \in Said(Msgs) /\ m.calls = 0 /\ m.role # "system" /\ m.text = text
<1>1. m \in S /\ m \in Msgs
  BY TalkMessage
<1>2. m.role = "assistant" /\ m.text = text /\ m.calls = 0
  BY DEF Msg
<1> QED
  BY <1>1, <1>2 DEF Said

LEMMA TextGoes ==
  ASSUME NEW S, NEW k, k = setup.compaction, Talking(S, k), NEW F, F = setup.features, KeepsStep(F),
         Waits(S, F, k, agent, call, sent), NEW text \in ReplyTexts, NEW n \in Replies, NEW m, m = Msg("assistant", text, n),
         NEW o \in AfterReply(AfterText(Log(agent, ResponseEvent(TRUE, m))), WholeReply(m))
  PROVE  Goes(S, F, k, o)
<1>1. PICK d : d = Log(agent, ResponseEvent(TRUE, m))
  OBVIOUS
<1>2. PICK b : b = AfterText(d)
  OBVIOUS
<1>3. call \in PlainCalls
  BY DEF Waits, PlainCall
<1>4. call.form \in {"plain", "loop"} /\ call.said = FALSE /\ call.question \in Nat
  BY <1>3 DEF PlainCalls
<1>5. text \in Contents /\ text # " reply" /\ text # "pinned"
  BY ReplyIs, Zenon
<1>6. n \in Nat
  BY <1>4 DEF Replies
<1>7. m \in S /\ m \in Said(Msgs) /\ m.calls = 0 /\ m.role # "system" /\ m.text = text
  <2>1. Talks(S)
    BY DEF Talking
  <2>2. text \in Contents /\ text # "pinned"
    BY <1>5, Zenon
  <2> QED
    BY <1>6, <2>1, <2>2, ReplyMessage
<1>8. m.text # " reply"
  BY <1>5, <1>7, Zenon
<1>9. b = IF call.form = "loop" THEN LoopDone(d, sent, call.round) ELSE d
  BY <1>2, <1>4 DEF AfterText, LoopDone
<1>10. After(S, F, b, m)
  BY <1>1, <1>7, <1>8, <1>9, TextTold, Zenon
<1>11. WholeReply(m) = m
  BY <1>4, Zenon DEF WholeReply
<1>12. o \in AfterReply(b, m)
  BY <1>1, <1>2, <1>11, Zenon
<1> QED
  BY <1>3, <1>7, <1>10, <1>12, AfterGoes, Zenon

ReplyMessages == {Msg("assistant", text, n) : text \in ReplyTexts, n \in Replies}
AfterMessage(m) == AfterReply(AfterText(Log(agent, ResponseEvent(TRUE, m))), WholeReply(m))

LEMMA AnswerTextHolds ==
  ASSUME NEW S, NEW k, k = setup.compaction, Talking(S, k), NEW F, F = setup.features, KeepsStep(F), Holding(S, F, k), AnswerText
  PROVE  Holding(S, F, k)' /\ setup' = setup
<1>1. PICK outcomes : outcomes = UNION {AfterMessage(m) : m \in ReplyMessages}
  OBVIOUS
<1>2. Continue(outcomes) /\ call.form # "none"
  <2>1. Continue(UNION {AfterMessage(m) : m \in ReplyMessages}) /\ call.form # "none"
    BY DEF AnswerText, AfterMessage, ReplyMessages
  <2> QED
    BY <1>1, <2>1, Zenon
<1>3. Waits(S, F, k, agent, call, sent)
  BY <1>2 DEF Holding
<1>4. ASSUME NEW o \in outcomes PROVE Goes(S, F, k, o)
  <2>1. PICK m \in ReplyMessages : o \in AfterMessage(m)
    BY <1>1, <1>4, Zenon
  <2>2. PICK text \in ReplyTexts, n \in Replies : m = Msg("assistant", text, n)
    BY <2>1 DEF ReplyMessages
  <2>3. o \in AfterReply(AfterText(Log(agent, ResponseEvent(TRUE, m))), WholeReply(m))
    BY <2>1, Zenon DEF AfterMessage
  <2> QED
    BY <1>3, <2>2, <2>3, TextGoes, Zenon
<1> QED
  BY <1>2, <1>4, Continues

LEMMA OneResult ==
  ASSUME NEW text
  PROVE  Results(1, text) = <<ToolResult(0, text)>>
<1>1. PICK r : r = Results(1, text)
  OBVIOUS
<1>2. r = [i \in 1 .. 1 |-> ToolResult(i - 1, text)]
  BY <1>1, Zenon DEF Results
<1>3. 1 .. 1 = {1} /\ 1 - 1 = 0
  OBVIOUS
<1>4. r[1] = ToolResult(0, text) /\ DOMAIN r = {1}
  BY <1>2, <1>3
<1>5. PICK res : res = ToolResult(0, text)
  OBVIOUS
<1>6. r = [i \in 1 .. 1 |-> res]
  <2>1. \A i \in 1 .. 1 : ToolResult(i - 1, text) = res
    BY <1>3, <1>5
  <2> QED
    BY <1>2, <2>1
<1>7. r = <<res>>
  BY <1>6
<1> QED
  BY <1>1, <1>5, <1>7, Zenon

WorkOf(t, x, y) == t \o <<x>> \o <<y>>

LEMMA WorkIs ==
  ASSUME NEW M, NEW t \in Seq(M), NEW x \in M, NEW y \in M
  PROVE  WorkOf(t, x, y) = Append(Append(t, x), y)
<1>1. ASSUME NEW s \in Seq(M), NEW z \in M PROVE s \o <<z>> = Append(s, z) /\ Append(s, z) \in Seq(M)
  <2>4. <<>> \in Seq(M)
    OBVIOUS
  <2>1. PICK none \in Seq(M) : none = <<>>
    BY <2>4, Zenon
  <2>2. s \o Append(none, z) = Append(s \o none, z)
    BY ConcatAppend
  <2>3. Append(none, z) = <<z>> /\ s \o none = s /\ Append(s, z) \in Seq(M)
    BY <2>1
  <2> QED
    BY <2>2, <2>3, Zenon
<1>2. t \o <<x>> = Append(t, x) /\ Append(t, x) \in Seq(M)
  BY <1>1
<1>3. Append(t, x) \o <<y>> = Append(Append(t, x), y)
  BY <1>1, <1>2
<1> QED
  BY <1>2, <1>3, Zenon DEF WorkOf

LEMMA WorkSent ==
  ASSUME sent \in Seq(Msgs)
  PROVE  \A x, y : x \in Msgs /\ y \in Msgs => WorkOf(sent, x, y) = Append(Append(sent, x), y)
<1>1. PICK M : M = Msgs
  OBVIOUS
<1>2. PICK t : t = sent
  OBVIOUS
<1>3. t \in Seq(M)
  BY <1>1, <1>2
<1>4. ASSUME NEW x \in M, NEW y \in M PROVE WorkOf(t, x, y) = Append(Append(t, x), y)
  BY <1>3, WorkIs
<1> QED
  BY <1>1, <1>2, <1>4, Zenon

\* A round of one call, after which the model is asked again.
LEMMA RoundStep ==
  ASSUME NEW S, NEW k, k = setup.compaction, Talking(S, k), NEW F, Waits(S, F, k, agent, call, sent), call.form = "loop",
         call.iter + 1 # MaxIterations, NEW text \in Outputs,
         NEW answered, answered = Log(agent, ResponseEvent(TRUE, Msg("assistant", "", 0)))
  PROVE  Goes(S, F, k, AfterRound(ExecuteToolCalls(answered, Results(1, text)), Results(1, text), FALSE))
<1>1. agent \in AgentsOf(S) /\ sent \in Seq(Msgs)
  BY WaitsIs
<1>2. PICK y : y = ToolResult(0, text)
  OBVIOUS
<1>3. PICK x : x = ToolCalls(1)
  OBVIOUS
<1>4. x \in Msgs /\ y \in Msgs
  BY <1>2, <1>3, RoundMessages, Zenon
<1>5. Results(1, text) = <<y>>
  BY <1>2, OneResult, Zenon
<1>6. PICK ran : ran = [agent EXCEPT !.rb = RoundOf(agent.rb, Msg("assistant", "", 0), y)]
  OBVIOUS
<1>7. ExecuteToolCalls(answered, <<y>>) = ran
  BY <1>1, <1>6, RoundLogged, Zenon
<1>8. PICK w : w = Append(Append(sent, x), y)
  OBVIOUS
<1>9. WorkOf(sent, x, y) = w
  BY <1>1, <1>4, <1>8, WorkSent, Zenon
<1>10. Len(<<y>>) = 1
  OBVIOUS
<1>11. PICK d : d = [call EXCEPT !.iter = @ + 1, !.round = Len(sent) + 1, !.said = @ \/ FALSE]
  OBVIOUS
<1>12. AfterRound(ran, <<y>>, FALSE) = Await(LogCompacted(ran, w, call.round), Compacted(w, call.round), d)
  <2>1. AfterRound(ran, <<y>>, FALSE) =
          IF call.iter + 1 = MaxIterations THEN LoopExceeded(ran)
          ELSE Await(LogCompacted(ran, sent \o <<ToolCalls(Len(<<y>>))>> \o <<y>>, call.round),
                     Compacted(sent \o <<ToolCalls(Len(<<y>>))>> \o <<y>>, call.round), d)
    BY <1>11, Zenon DEF AfterRound
  <2>2. sent \o <<ToolCalls(Len(<<y>>))>> \o <<y>> = w
    BY <1>3, <1>9, <1>10, Zenon DEF WorkOf
  <2> QED
    BY <2>1, <2>2, Zenon
<1>13. w = Append(Append(sent, ToolCalls(1)), ToolResult(0, text))
  BY <1>2, <1>3, <1>8, Zenon
<1>14. ran = [agent EXCEPT !.rb = RoundOf(agent.rb, Msg("assistant", "", 0), ToolResult(0, text))]
  BY <1>2, <1>6, Zenon
<1>15. Goes(S, F, k, Await(LogCompacted(ran, w, call.round), Compacted(w, call.round), d))
  BY <1>11, <1>13, <1>14, RoundGoes, Zenon
<1> QED
  BY <1>5, <1>7, <1>12, <1>15, Zenon

LEMMA AnswerToolCallsHolds ==
  ASSUME NEW S, NEW k, k = setup.compaction, Talking(S, k), NEW F, F = setup.features, KeepsStep(F), Holding(S, F, k), MaxIterations \in Nat,
         AnswerToolCalls
  PROVE  Holding(S, F, k)' /\ setup' = setup
<1>1. call.form = "loop"
  BY DEF AnswerToolCalls
<1>2. Waits(S, F, k, agent, call, sent)
  BY <1>1 DEF Holding
<1>3. PICK answered : answered = Log(agent, ResponseEvent(TRUE, Msg("assistant", "", 0)))
  OBVIOUS
<1>4. PICK outcomes : outcomes = AfterRounds(answered)
  OBVIOUS
<1>5. call.iter + 1 < MaxIterations /\ "selfedit" \notin setup.features
  <2>1. call.iter + 1 < MaxIterations \/ "exceeded" \in setup.features
    BY Zenon DEF AnswerToolCalls
  <2> QED
    BY <2>1, NotIn
<1>6. Continue(outcomes)
  <2>1. Continue(AfterRounds(Log(agent, ResponseEvent(TRUE, Msg("assistant", "", 0)))))
    BY <1>5, Zenon DEF AnswerToolCalls
  <2> QED
    BY <1>3, <1>4, <2>1, Zenon
<1>7. call.iter + 1 # MaxIterations
  <2>1. call.iter \in Nat
    BY <1>2 DEF Waits, PlainCall, PlainCalls
  <2> QED
    BY <1>5, <2>1
<1>8. MayCall = {1} /\ MaySay = {FALSE}
  <2>1. "parallel" \notin setup.features /\ "preamble" \notin setup.features
    BY NotIn
  <2>2. MaySay = {FALSE}
    BY <2>1, Zenon DEF MaySay
  <2>3. MayCall = 1 .. 1
    BY <2>1, Zenon DEF MayCall
  <2> QED
    BY <2>2, <2>3
<1>9. ASSUME NEW o \in outcomes PROVE Goes(S, F, k, o)
  <2>1. PICK n \in MayCall, text \in Outputs, said \in MaySay :
          o = AfterRound(ExecuteToolCalls(answered, Results(n, text)), Results(n, text), said)
    BY <1>4, <1>9 DEF AfterRounds
  <2>2. n = 1 /\ said = FALSE
    BY <1>8, <2>1
  <2>3. Goes(S, F, k, AfterRound(ExecuteToolCalls(answered, Results(1, text)), Results(1, text), FALSE))
    BY <1>1, <1>2, <1>3, <1>7, <2>1, RoundStep, Zenon
  <2> QED
    BY <2>1, <2>2, <2>3, Zenon
<1> QED
  BY <1>6, <1>9, Continues

LEMMA CallFailsHolds ==
  ASSUME NEW S, NEW k, Talking(S, k), NEW F, F = setup.features, KeepsStep(F), Holding(S, F, k), CallFails
  PROVE  Holding(S, F, k)' /\ setup' = setup
<1>1. Waits(S, F, k, agent, call, sent)
  BY DEF Holding, CallFails
<1>2. PICK b : b = Log(agent, ResponseEvent(FALSE, Msg("assistant", "", 0)))
  OBVIOUS
<1>3. ~MayRetrySmaller
  BY NotIn DEF MayRetrySmaller
<1>4. RetrySmaller(b) = {}
  BY <1>3 DEF RetrySmaller
<1>5. PICK outcomes : outcomes = UNION {{EndTurn(DropLastMessage(a))} \cup RetrySmaller(a) : a \in {b}}
  OBVIOUS
<1>6. Continue(outcomes)
  BY <1>2, <1>5, Zenon DEF CallFails
<1>7. Goes(S, F, k, EndTurn(DropLastMessage(b)))
  BY <1>1, <1>2, FailGoes
<1>8. ASSUME NEW o \in outcomes PROVE Goes(S, F, k, o)
  <2>1. o = EndTurn(DropLastMessage(b))
    BY <1>4, <1>5, <1>8
  <2> QED
    BY <1>7, <2>1, Zenon
<1> QED
  BY <1>6, <1>8, Continues

LEMMA CancelHolds ==
  ASSUME NEW S, NEW k, NEW F, Holding(S, F, k), Cancel
  PROVE  Holding(S, F, k)' /\ setup' = setup
BY DEF Cancel, Holding

LEMMA AskHolds ==
  ASSUME NEW S, NEW k, Talking(S, k), NEW F, Holding(S, F, k), setup.window \in Nat, ToolModes \subseteq BOOLEAN, Ask
  PROVE  Holding(S, F, k)' /\ setup' = setup
<1>1. Rests(S, F, agent)
  BY DEF Holding, Ask
<1>2. agent.turn \in Nat /\ agent.pending \in BOOLEAN
  BY <1>1 DEF Rests, Fine, Sound, AgentsOf
<1>3. Questions \subseteq Nat
  BY <1>2 DEF Questions
<1>3a. MayRecall \subseteq BOOLEAN
  BY DEF MayRecall
<1>4. PICK outcomes : outcomes = FirstRequests
  OBVIOUS
<1>5. Continue(outcomes)
  BY <1>4, Zenon DEF Ask
<1>6. ASSUME NEW o \in outcomes PROVE Goes(S, F, k, o)
  <2>1. PICK q \in Questions, recalled \in MayRecall, structured \in ToolModes :
          o = SendTurn(BeginTurn(agent, q, recalled), q, structured)
    BY <1>4, <1>6 DEF FirstRequests
  <2>2. q \in Nat /\ recalled \in BOOLEAN /\ structured \in BOOLEAN
    BY <1>3, <1>3a, <2>1
  <2> QED
    BY <1>1, <2>1, <2>2, AskGoes, Zenon
<1> QED
  BY <1>5, <1>6, Continues

-----------------------------------------------------------------------------
(* Commands.                                                                *)

LEMMA ReadRests ==
  ASSUME NEW S, Talks(S), NEW F, NEW a, Rests(S, F, a), NEW b, b = AddPrompt(a, "read", Msg("user", "read", 0))
  PROVE  Rests(S, F, b)
<1>1. PICK m : m = Msg("user", "read", 0)
  OBVIOUS
<1>2. m \in S /\ m.role # "system"
  <2>1. "read" \in Contents
    BY Zenon DEF Contents
  <2> QED
    BY <1>1, <2>1, TalkMessage
<1>3. PICK via : via = "read"
  OBVIOUS
<1>4. b = AddPrompt(a, via, m)
  BY <1>1, <1>3, Zenon
<1>5. Holds(S, F, a, b)
  BY <1>2, <1>4, HoldsAdd
<1> QED
  BY <1>5, RestsHold

LEMMA AskRouteRests ==
  ASSUME NEW S, Talks(S), NEW F, NEW a, Rests(S, F, a), NEW m \in Msgs, NEW b, b = AskRoute(a, ResponseEvent(FALSE, m))
  PROVE  Rests(S, F, b)
<1>1. PICK c : c = [a EXCEPT !.turn = @ + 1]
  OBVIOUS
<1>2. a \in AgentsOf(S)
  BY DEF Rests, Fine, Sound
<1>3. c = Patched(a, a.pins, a.turn + 1, a.retryAfter, a.pending) /\ a.turn \in Nat /\ a.retryAfter \in Nat /\ a.pending \in BOOLEAN
  BY <1>1, <1>2, Patches
<1>4. Holds(S, F, a, c)
  <2>1. PICK n \in Nat : n = a.turn + 1
    BY <1>3
  <2>2. c = Patched(a, a.pins, n, a.retryAfter, a.pending)
    BY <1>3, <2>1, Zenon
  <2> QED
    BY <1>3, <2>2, HoldsPatched
<1>5. PICK es : es = <<OtherEvent, RequestEvent(FALSE, <<>>), ResponseEvent(FALSE, m)>>
  OBVIOUS
<1>6. es \in Seq(StillEvents)
  <2>1. PICK E : E = StillEvents
    OBVIOUS
  <2>2. PICK o : o = OtherEvent
    OBVIOUS
  <2>3. PICK e : e = RequestEvent(FALSE, <<>>)
    OBVIOUS
  <2>4. PICK f : f = ResponseEvent(FALSE, m)
    OBVIOUS
  <2>5. o \in E /\ e \in E /\ f \in E
    BY <2>1, <2>2, <2>3, <2>4 DEF StillEvents
  <2>6. <<o, e, f>> \in Seq(E)
    BY <2>5
  <2> QED
    BY <1>5, <2>1, <2>2, <2>3, <2>4, <2>6, Zenon
<1>7. b = LogAll(c, es)
  BY <1>1, <1>5, Zenon DEF AskRoute
<1>8. Rests(S, F, c)
  BY <1>4, RestsHold
<1>9. Holds(S, F, c, b)
  BY <1>6, <1>7, <1>8, HoldsAllStill
<1> QED
  BY <1>9, RestsHold

LEMMA RouteFailsRests ==
  ASSUME NEW S, Talks(S), NEW F, NEW a, Rests(S, F, a)
  PROVE  Rests(S, F, RouteFails(a))
<1>1. PICK m : m = Msg("assistant", "", 0)
  OBVIOUS
<1>2. m \in Msgs
  <2>1. "" \in Contents
    BY Zenon DEF Contents
  <2>2. PICK none \in Contents : none = ""
    BY <2>1
  <2>3. m = Msg("assistant", none, 0)
    BY <1>1, <2>2, Zenon
  <2> QED
    BY <2>3 DEF Msgs, Message, Msg, Roles
<1>3. RouteFails(a) = AskRoute(a, ResponseEvent(FALSE, m))
  BY <1>1, Zenon DEF RouteFails
<1> QED
  BY <1>2, <1>3, AskRouteRests

LEMMA FoldBackRests ==
  ASSUME NEW S, Talks(S), NEW F, NEW a, Rests(S, F, a)
  PROVE  Rests(S, F, FoldBackTurn(a))
<1>1. PICK n \in Nat : n = a.turn + 1
  BY DEF Rests, Fine, Sound, AgentsOf
<1>2. PICK reply : reply = Msg("assistant", "reply", n)
  OBVIOUS
<1>3. PICK line : line = Msg("user", "routed", n)
  OBVIOUS
<1>4. reply \in S /\ reply \in Msgs /\ reply.role # "system"
  <2>1. "reply" \in Contents
    BY Zenon DEF Contents
  <2> QED
    BY <1>2, <2>1, TalkMessage
<1>5. line \in S /\ line.role # "system"
  <2>1. "routed" \in Contents
    BY Zenon DEF Contents
  <2> QED
    BY <1>3, <2>1, TalkMessage
<1>6. PICK b : b = AskRoute(a, ResponseEvent(FALSE, reply))
  OBVIOUS
<1>7. Rests(S, F, b)
  BY <1>4, <1>6, AskRouteRests
<1>8. PICK via : via = "fold"
  OBVIOUS
<1>9. PICK c : c = AddPrompt(b, via, line)
  OBVIOUS
<1>10. Rests(S, F, c)
  BY <1>5, <1>7, <1>9, HoldsAdd, RestsHold
<1>11. PICK d : d = AddPrompt(c, via, reply)
  OBVIOUS
<1>12. Rests(S, F, d)
  BY <1>4, <1>10, <1>11, HoldsAdd, RestsHold
<1>13. FoldBackTurn(a) = d
  BY <1>1, <1>2, <1>3, <1>6, <1>8, <1>9, <1>11, Zenon DEF FoldBackTurn
<1> QED
  BY <1>12, <1>13

LEMMA SwitchRests ==
  ASSUME NEW S, NEW F, "switch" \in F, NEW a, Rests(S, F, a), NEW b, b = [a EXCEPT !.system = 3 - @]
  PROVE  Rests(S, F, b)
<1>1. a \in AgentsOf(S) /\ a.faithful /\ Headed(a.history) /\ Reads(Msgs, a.rb, HeadAs(a.history, SystemPrompt(a.logSystem))) /\ Kept(F, a)
  BY DEF Rests, Fine, Sound
<1>2. a.system \in {1, 2}
  BY <1>1 DEF AgentsOf
<1>3. PICK v \in {1, 2} : v = 3 - a.system
  BY <1>2
<1>4. b = [a EXCEPT !.system = v]
  BY <1>1, <1>3 DEF AgentsOf
<1>5. b \in AgentsOf(S)
  BY <1>1, <1>4 DEF AgentsOf
<1>6. b.history = a.history /\ b.rb = a.rb /\ b.logSystem = a.logSystem /\ b.faithful = a.faithful /\ b.pins = a.pins
  BY <1>1, <1>4 DEF AgentsOf
<1>7. Steady(F, b)
  BY DEF Steady
<1>8. Kept(F, b)
  BY <1>1, <1>6 DEF Kept
<1> QED
  BY <1>1, <1>5, <1>6, <1>7, <1>8 DEF Rests, Fine, Sound

\* The messages of two pins are two messages.
LEMMA PinsApart ==
  ASSUME NEW p \in PinTargets, NEW q \in PinTargets
  PROVE  PinMessage(p) = PinMessage(q) <=> p = q
<1>1. PinMessage(p).n = p /\ PinMessage(q).n = q
  BY DEF PinMessage, Msg
<1> QED
  BY <1>1

\* One message and one pin more.
LEMMA PinsAppend ==
  ASSUME NEW pins \in Seq(PinTargets), NEW p \in PinTargets, NEW h \in Seq(Msgs), PinsIn(pins, h),
         NEW m \in Msgs, m = PinMessage(p)
  PROVE  PinsIn(Append(pins, p), Append(h, m))
<1> SUFFICES ASSUME NEW q \in PinTargets PROVE Times(Append(h, m), PinMessage(q)) >= Times(Append(pins, p), q)
  BY DEF PinsIn
<1>1. PICK x : x = PinMessage(q)
  OBVIOUS
<1>2. Times(h, x) \in Nat /\ Times(pins, q) \in Nat
  BY TimesIs
<1>3. Times(Append(h, m), x) = Times(h, x) + IF m = x THEN 1 ELSE 0
  BY TimesAppend
<1>4. Times(Append(pins, p), q) = Times(pins, q) + IF p = q THEN 1 ELSE 0
  BY TimesAppend
<1>5. m = x <=> p = q
  BY <1>1, PinsApart
<1>6. Times(h, x) >= Times(pins, q)
  BY <1>1 DEF PinsIn
<1> QED
  BY <1>1, <1>2, <1>3, <1>4, <1>5, <1>6

LEMMA AddPinRests ==
  ASSUME NEW S, Talks(S), NEW F, "pin" \in F, NEW a, Rests(S, F, a), NEW p \in PinTargets, NEW b, b = AddPin(a, p)
  PROVE  Rests(S, F, b)
<1>1. Fine(S, F, a) /\ Kept(F, a)
  BY DEF Rests
<1>2. PICK c : c = Log(a, OtherEvent)
  OBVIOUS
<1>3. Fine(S, F, c) /\ c.history = a.history /\ c.pins = a.pins
  <2>1. OtherEvent \in StillEvents
    BY DEF StillEvents
  <2> QED
    BY <1>1, <1>2, <2>1, LogStill DEF Keeps
<1>4. c \in AgentsOf(S) /\ c.pins \in Seq(PinTargets) /\ c.history \in Seq(Msgs) /\ c.turn \in Nat
  BY <1>3, SoundIs DEF Fine
<1>5. PICK pins : pins = Append(c.pins, p)
  OBVIOUS
<1>6. pins \in Seq(PinTargets)
  BY <1>4, <1>5, AppendProperties
<1>7. PICK d : d = Patched(c, pins, c.turn, c.retryAfter, c.pending)
  OBVIOUS
<1>8. d = [c EXCEPT !.pins = pins] /\ c.retryAfter \in Nat /\ c.pending \in BOOLEAN
  BY <1>4, <1>7, Patches
<1>9. Fine(S, F, d) /\ d.history = c.history /\ d.pins = pins
  <2>1. PICK turn \in Nat, retry \in Nat, pending \in BOOLEAN : turn = c.turn /\ retry = c.retryAfter /\ pending = c.pending
    BY <1>4, <1>8
  <2>2. d = Patched(c, pins, turn, retry, pending)
    BY <1>7, <2>1, Zenon
  <2> QED
    BY <1>3, <1>6, <2>2, PatchedIs
<1>10. d = [Log(a, OtherEvent) EXCEPT !.pins = Append(@, p)]
  BY <1>2, <1>5, <1>8
<1>11. PICK m : m = PinMessage(p)
  OBVIOUS
<1>12. m \in S /\ m \in Msgs /\ m.role # "system"
  BY <1>11, PinIs
<1>13. PICK via : via = "pinned"
  OBVIOUS
<1>14. b = AddPrompt(d, via, m)
  BY <1>10, <1>11, <1>13, Zenon DEF AddPin
<1>15. Fine(S, F, b) /\ b.history = Append(d.history, m) /\ b.pins = d.pins
  BY <1>9, <1>12, <1>14, AddPromptTo DEF Keeps
<1>16. Kept(F, b)
  <2>1. ASSUME "switch" \notin F PROVE PinsIn(Append(c.pins, p), Append(c.history, m))
    <3>1. PinsIn(c.pins, c.history)
      BY <1>1, <1>3, <2>1 DEF Kept
    <3> QED
      BY <1>4, <1>11, <1>12, <3>1, PinsAppend
  <2> QED
    BY <1>5, <1>9, <1>15, <2>1 DEF Kept
<1> QED
  BY <1>15, <1>16 DEF Rests

-----------------------------------------------------------------------------
(* An element is taken out.                                                 *)

LEMMA Around ==
  ASSUME NEW B, NEW s \in Seq(B), NEW i \in 1 .. Len(s)
  PROVE  /\ SubSeq(s, 1, i - 1) \in Seq(B) /\ SubSeq(s, i + 1, Len(s)) \in Seq(B) /\ s[i] \in B
         /\ s = Append(SubSeq(s, 1, i - 1), s[i]) \o SubSeq(s, i + 1, Len(s))
<1>1. Len(s) \in Nat
  BY LenProperties
<1>2. SubSeq(s, 1, i - 1) \in Seq(B) /\ s[i] \in B /\ SubSeq(s, 1, i) = SubSeq(s, 1, i - 1) \o <<s[i]>>
  BY PrefixMore
<1>3. i + 1 \in 1 .. Len(s) + 1
  BY <1>1
<1>4. SubSeq(s, i + 1, Len(s)) \in Seq(B)
  BY <1>3, RestIs DEF Rest
<1>5. Append(SubSeq(s, 1, i - 1), s[i]) = SubSeq(s, 1, i)
  BY <1>2, AppendIsConcat
<1>6. s = SubSeq(s, 1, i) \o SubSeq(s, i + 1, Len(s))
  BY <1>1
<1> QED
  BY <1>2, <1>4, <1>5, <1>6

LEMMA TimesRemoved ==
  ASSUME NEW B, NEW s \in Seq(B), NEW i \in 1 .. Len(s), NEW x, NEW t, t = RemoveAt(s, i)
  PROVE  t \in Seq(B) /\ Times(s, x) = Times(t, x) + (IF s[i] = x THEN 1 ELSE 0) /\ Times(s, x) \in Nat /\ Times(t, x) \in Nat
<1>1. PICK f \in Seq(B) : f = SubSeq(s, 1, i - 1)
  BY Around
<1>2. PICK g \in Seq(B) : g = SubSeq(s, i + 1, Len(s))
  BY Around
<1>3. PICK y \in B : y = s[i]
  BY Around
<1>4. s = Append(f, y) \o g
  <2>1. s = Append(SubSeq(s, 1, i - 1), s[i]) \o SubSeq(s, i + 1, Len(s))
    BY Around
  <2> QED
    BY <1>1, <1>2, <1>3, <2>1, Zenon
<1>5. t = f \o g
  BY <1>1, <1>2 DEF RemoveAt
<1>6. Append(f, y) \in Seq(B)
  BY AppendProperties
<1>7. Times(f, x) \in Nat /\ Times(g, x) \in Nat
  BY TimesIs
<1>8. Times(Append(f, y), x) = Times(f, x) + IF y = x THEN 1 ELSE 0
  BY TimesAppend
<1>9. Times(s, x) = Times(Append(f, y), x) + Times(g, x)
  BY <1>4, <1>6, TimesConcat
<1>10. Times(t, x) = Times(f, x) + Times(g, x)
  BY <1>5, TimesConcat
<1>11. t \in Seq(B)
  BY <1>5, ConcatProperties
<1> QED
  BY <1>3, <1>7, <1>8, <1>9, <1>10, <1>11

LEMMA RemoveFirstIs ==
  ASSUME NEW B, NEW s \in Seq(B), NEW x
  PROVE  RemoveFirst(s, x) = s \/ \E i \in 1 .. Len(s) : s[i] = x /\ RemoveFirst(s, x) = RemoveAt(s, i)
<1>1. CASE ~ \E i \in 1 .. Len(s) : s[i] = x
  BY <1>1 DEF RemoveFirst
<1>2. CASE \E i \in 1 .. Len(s) : s[i] = x
  <2>1. PICK I : I = {i \in 1 .. Len(s) : s[i] = x}
    OBVIOUS
  <2>2. I # {} /\ I \subseteq Nat /\ \A i \in I : i \in 1 .. Len(s) /\ s[i] = x
    BY <1>2, <2>1
  <2>3. SelectInSeq(s, LAMBDA v : v = x) = Min(I)
    BY <2>1, <2>2 DEF SelectInSeq
  <2>4. Min(I) \in I
    BY <2>2, LeastIn
  <2>5. RemoveFirst(s, x) = RemoveAt(s, Min(I))
    BY <1>2, <2>3 DEF RemoveFirst
  <2> QED
    BY <2>2, <2>4, <2>5
<1> QED
  BY <1>1, <1>2

\* The conversation without the message of a pin has the messages of the other pins.
LEMMA PinsRemoved ==
  ASSUME NEW pins \in Seq(PinTargets), NEW i \in 1 .. Len(pins), NEW h \in Seq(Msgs), PinsIn(pins, h),
         NEW m, m = PinMessage(pins[i]), NEW g, g = RemoveFirst(h, m), NEW rest, rest = RemoveAt(pins, i)
  PROVE  PinsIn(rest, g)
<1> SUFFICES ASSUME NEW q \in PinTargets PROVE Times(g, PinMessage(q)) >= Times(rest, q)
  BY DEF PinsIn
<1>1. PICK p \in PinTargets : p = pins[i]
  BY Around
<1>2. PICK x : x = PinMessage(q)
  OBVIOUS
<1>3. m = x <=> p = q
  BY <1>1, <1>2, PinsApart
<1>4. Times(pins, q) = Times(rest, q) + (IF p = q THEN 1 ELSE 0) /\ Times(pins, q) \in Nat /\ Times(rest, q) \in Nat
  BY <1>1, TimesRemoved
<1>5. Times(h, x) >= Times(pins, q)
  BY <1>2 DEF PinsIn
<1>6. Times(h, x) \in Nat
  BY TimesNat
<1>7. CASE g = h
  BY <1>2, <1>4, <1>5, <1>6, <1>7
<1>8. CASE \E j \in 1 .. Len(h) : h[j] = m /\ g = RemoveAt(h, j)
  <2>1. PICK j \in 1 .. Len(h) : h[j] = m /\ g = RemoveAt(h, j)
    BY <1>8
  <2>2. Times(h, x) = Times(g, x) + (IF h[j] = x THEN 1 ELSE 0) /\ Times(g, x) \in Nat
    BY <2>1, TimesRemoved
  <2>3. h[j] = x <=> p = q
    BY <1>3, <2>1
  <2> QED
    BY <1>2, <1>4, <1>5, <1>6, <2>2, <2>3
<1> QED
  BY <1>7, <1>8, RemoveFirstIs

\* The system prompt stays first.
LEMMA HeadStays ==
  ASSUME NEW B, NEW h \in Seq(B), Headed(h), NEW m, m.role # "system", NEW g, g = RemoveFirst(h, m)
  PROVE  g \in Seq(B) /\ Headed(g) /\ g[1] = h[1]
<1>1. CASE g = h
  BY <1>1
<1>2. CASE \E j \in 1 .. Len(h) : h[j] = m /\ g = RemoveAt(h, j)
  <2>1. PICK j \in 1 .. Len(h) : h[j] = m /\ g = RemoveAt(h, j)
    BY <1>2
  <2>2. Len(h) \in Nat /\ j # 1 /\ j \in 2 .. Len(h)
    BY <2>1, LenProperties DEF Headed
  <2>3. g \in Seq(B)
    BY <2>1, TimesRemoved
  <2>4. Len(g) = Len(h) - 1 /\ \A k \in 1 .. Len(h) - 1 : g[k] = IF k < j THEN h[k] ELSE h[k + 1]
    BY <2>1, <2>2 DEF RemoveAt
  <2>5. g[1] = h[1] /\ Len(g) >= 1
    BY <2>2, <2>4
  <2>6. \A k \in 2 .. Len(g) : g[k].role # "system"
    <3> TAKE k \in 2 .. Len(g)
    <3>1. PICK l \in 2 .. Len(h) : g[k] = h[l]
      BY <2>2, <2>4
    <3> QED
      BY <3>1 DEF Headed
  <2>7. g # <<>>
    BY <2>5, EmptySeq
  <2> QED
    BY <2>3, <2>5, <2>6, <2>7 DEF Headed
<1> QED
  BY <1>1, <1>2, RemoveFirstIs

LEMMA OtherPins ==
  ASSUME NEW S, NEW F, NEW a, Fine(S, F, a), NEW pins \in Seq(PinTargets), NEW b, b = [a EXCEPT !.pins = pins]
  PROVE  Fine(S, F, b) /\ b.history = a.history /\ b.pins = pins
<1>1. a \in AgentsOf(S)
  BY DEF Fine, Sound
<1>2. PICK turn \in Nat, retry \in Nat, pending \in BOOLEAN : turn = a.turn /\ retry = a.retryAfter /\ pending = a.pending
  BY <1>1, Patches
<1>3. b = Patched(a, pins, turn, retry, pending)
  BY <1>1, <1>2, Patches
<1> QED
  BY <1>3, PatchedIs

LEMMA RemovePinRests ==
  ASSUME NEW S, Talks(S), NEW F, NEW a, Rests(S, F, a), NEW i \in DOMAIN a.pins, NEW b, b = RemovePin(a, i)
  PROVE  Rests(S, F, b)
<1>1. Fine(S, F, a) /\ Kept(F, a)
  BY DEF Rests
<1>2. PICK pins \in Seq(PinTargets) : pins = a.pins
  BY <1>1, SoundIs DEF Fine
<1>3. i \in 1 .. Len(pins)
  BY <1>2, LenProperties
<1>4. PICK m : m = PinMessage(pins[i])
  OBVIOUS
<1>5. m.role # "system"
  <2>1. pins[i] \in PinTargets
    BY <1>3, Around
  <2> QED
    BY <1>4, <2>1, PinIs
<1>6. PICK rest : rest = RemoveAt(pins, i)
  OBVIOUS
<1>7. rest \in Seq(PinTargets)
  BY <1>3, <1>6, TimesRemoved
<1>8. a \in AgentsOf(S) /\ a.history \in Seq(S) /\ a.history \in Seq(Msgs) /\ Headed(a.history)
  BY <1>1, SoundIs DEF Fine
<1>10. PICK c : c = [a EXCEPT !.pins = rest]
  OBVIOUS
<1>11. Fine(S, F, c) /\ c.history = a.history /\ c.pins = rest
  BY <1>1, <1>7, <1>10, OtherPins
<1>12. c = [a EXCEPT !.pins = RemoveAt(@, i)]
  BY <1>2, <1>6, <1>10
<1>13. PICK g : g = RemoveFirst(a.history, m)
  OBVIOUS
<1>14. g \in Seq(S) /\ Headed(g) /\ g[1] = c.history[1] /\ g \in Seq(Msgs)
  BY <1>5, <1>8, <1>11, <1>13, HeadStays
<1>15. PICK d : d = SetHistory(c, g)
  OBVIOUS
<1>16. Fine(S, F, d) /\ d.history = g /\ d.pins = rest
  BY <1>11, <1>14, <1>15, SetHistoryIs DEF Keeps
<1>17. b = Log(d, OtherEvent)
  BY <1>2, <1>4, <1>12, <1>13, <1>15, Zenon DEF RemovePin
<1>18. Fine(S, F, b) /\ b.history = d.history /\ b.pins = d.pins
  <2>1. OtherEvent \in StillEvents
    BY DEF StillEvents
  <2> QED
    BY <1>16, <1>17, <2>1, LogStill DEF Keeps
<1>19. "switch" \notin F => PinsIn(rest, g)
  <2>1. ASSUME "switch" \notin F PROVE PinsIn(pins, a.history)
    BY <1>1, <1>2, <2>1 DEF Kept
  <2> QED
    BY <1>3, <1>4, <1>6, <1>8, <1>13, <2>1, PinsRemoved
<1>20. "pin" \notin F => rest = <<>>
  BY <1>1, <1>2, <1>3 DEF Kept
<1> QED
  BY <1>16, <1>18, <1>19, <1>20 DEF Rests, Kept

\* The pins are put back one by one.
PinBack(b, p) == AddPrompt(b, "pinned", PinMessage(p))
PinsBack(a, pins) == FoldLeft(LAMBDA b, p : AddPrompt(b, "pinned", PinMessage(p)), a, pins)
PinningBack(A) == [x \in A \X PinTargets |-> PinBack(x[1], x[2])]

LEMMA PinsBackFold ==
  ASSUME NEW A, NEW a \in A, \A b \in A, p \in PinTargets : PinBack(b, p) \in A, NEW pins \in Seq(PinTargets)
  PROVE  \E f : Folded(f, A, PinningBack(A), a, pins) /\ PinsBack(a, pins) = f[Len(pins)]
<1> DEFINE B == PinTargets
           st == PinningBack(A)
           Folds(g) == g = [s \in SUBSET (DOMAIN pins) |-> IF s = {} THEN a ELSE PinBack(g[s \ {Max(s)}], pins[Max(s)])]
           fold == CHOOSE g : Folds(g)
<1>1. PinsBack(a, pins) = fold[DOMAIN pins]
  BY Zenon DEF PinsBack, PinBack, FoldLeft, MapThenFoldSet
<1>2. DOMAIN pins = 1 .. Len(pins) /\ Len(pins) \in Nat /\ \A i \in 1 .. Len(pins) : pins[i] \in B
  BY LenProperties
<1> HIDE DEF B
<1>3. st \in [A \X B -> A] /\ \A b \in A, p \in B : st[<<b, p>>] = PinBack(b, p)
  BY DEF PinningBack, B
<1> HIDE DEF st
<1>4. Folds(fold)
  <2>1. PICK g : Steps(g, A, B, st, a, pins)
    BY <1>3, FoldSteps DEF B
  <2>2. \A s \in SUBSET (DOMAIN pins) : g[s] = IF s = {} THEN a ELSE PinBack(g[s \ {Max(s)}], pins[Max(s)])
    BY <1>3, <2>1 DEF Steps
  <2>3. Folds(g)
    BY <2>1, <2>2 DEF Steps
  <2> HIDE DEF Folds
  <2> QED BY <2>3, Zenon
<1>5. FoldsIn(fold, A, st, a, pins, Len(pins))
  <2> HIDE DEF fold
  <2>1. \A s \in SUBSET (1 .. Len(pins)) : fold[s] = IF s = {} THEN a ELSE PinBack(fold[s \ {Max(s)}], pins[Max(s)])
    BY <1>2, <1>4
  <2>2. \A s \in SUBSET (1 .. Len(pins)) : s # {} => Max(s) \in 1 .. Len(pins)
    BY <1>2, GreatestIn
  <2> QED
    BY <1>2, <1>3, <2>1, <2>2 DEF FoldsIn
<1>6. PICK f : ValuesOf(f, A, st, a, pins)
  BY <1>3, Folding DEF B
<1> HIDE DEF fold, Folds
<1>7. Folded(f, A, st, a, pins) /\ fold[DOMAIN pins] = f[Len(pins)]
  BY <1>2, <1>5, <1>6 DEF ValuesOf
<1> QED
  BY <1>1, <1>7 DEF st

\* One pin more.
LEMMA PinsBackGrow ==
  ASSUME NEW A, NEW a \in A, \A b \in A, p \in PinTargets : PinBack(b, p) \in A
  PROVE  /\ PinsBack(a, <<>>) = a
         /\ \A s \in Seq(PinTargets) : PinsBack(a, s) \in A
         /\ \A s \in Seq(PinTargets), p \in PinTargets : PinsBack(a, Append(s, p)) = PinBack(PinsBack(a, s), p)
<1> DEFINE B == PinTargets
           st == PinningBack(A)
           F == [s \in Seq(B) |-> PinsBack(a, s)]
<1>1. \A s \in Seq(B), p \in B : Append(s, p) \in Seq(B) /\ <<>> \in Seq(B)
  BY EmptySeq, AppendProperties
<1>2. \A p \in Seq(B) : \E f : Folded(f, A, st, a, p) /\ PinsBack(a, p) = f[Len(p)]
  BY PinsBackFold
<1>3. \A s \in Seq(B) : F[s] = PinsBack(a, s)
  OBVIOUS
<1> HIDE DEF B
<1>4. st \in [A \X B -> A] /\ \A b \in A, p \in B : st[<<b, p>>] = PinBack(b, p)
  BY DEF PinningBack, B
<1> HIDE DEF st, F
<1>5. Grows(F, A, B, st, a)
  BY <1>2, <1>3, <1>4, FoldGrows
<1>6. <<>> \in Seq(B)
  BY EmptySeq
<1> QED
  BY <1>1, <1>3, <1>4, <1>5, <1>6, ZenonT(60) DEF Grows, B

\* And all of them are in the conversation.
LEMMA PinsBackRests ==
  ASSUME NEW S, Talks(S), NEW F, NEW a, Fine(S, F, a), NEW pins, pins = a.pins, "pin" \notin F => pins = <<>>,
         NEW b, b = PinsBack(a, pins)
  PROVE  Rests(S, F, b)
<1>1. PICK A : A = {c \in AgentsOf(S) : Fine(S, F, c) /\ c.pins = pins}
  OBVIOUS
<1>2. a \in A /\ pins \in Seq(PinTargets) /\ a.history \in Seq(Msgs)
  BY <1>1, SoundIs DEF Fine
<1>3. ASSUME NEW c \in A, NEW p \in PinTargets PROVE PinBack(c, p) \in A /\ PinBack(c, p).history = Append(c.history, PinMessage(p))
  <2>1. PICK m : m = PinMessage(p)
    OBVIOUS
  <2>2. m \in S /\ m.role # "system"
    BY <2>1, PinIs
  <2>3. PICK d : d = PinBack(c, p)
    OBVIOUS
  <2>4. PICK via : via = "pinned"
    OBVIOUS
  <2>5. d = AddPrompt(c, via, m)
    BY <2>1, <2>3, <2>4, Zenon DEF PinBack
  <2>6. Fine(S, F, d) /\ d.history = Append(c.history, m) /\ Keeps(c, d)
    BY <1>1, <2>2, <2>5, AddPromptTo
  <2>7. d \in AgentsOf(S) /\ d.pins = pins
    BY <1>1, <2>6 DEF Fine, Sound, Keeps
  <2> QED
    BY <1>1, <2>1, <2>3, <2>6, <2>7
<1>4. \A c \in A : c.history \in Seq(Msgs) /\ Fine(S, F, c) /\ c.pins = pins
  BY <1>1, SoundIs DEF Fine
<1>5. /\ PinsBack(a, <<>>) = a
      /\ \A s \in Seq(PinTargets) : PinsBack(a, s) \in A
      /\ \A s \in Seq(PinTargets), p \in PinTargets : PinsBack(a, Append(s, p)) = PinBack(PinsBack(a, s), p)
  BY <1>2, <1>3, PinsBackGrow
<1>6. PICK P : P = {s \in Seq(PinTargets) : PinsIn(s, PinsBack(a, s).history)}
  OBVIOUS
<1>7. <<>> \in P
  <2>1. PinsIn(<<>>, a.history)
    <3> SUFFICES ASSUME NEW p \in PinTargets PROVE Times(a.history, PinMessage(p)) >= Times(<<>>, p)
      BY DEF PinsIn
    <3>1. Times(a.history, PinMessage(p)) \in Nat
      BY <1>2, TimesNat
    <3>2. Times(<<>>, p) = 0
      BY TimesIs
    <3> QED
      BY <3>1, <3>2
  <2> QED
    BY <1>5, <1>6, <2>1, EmptySeq
<1>8. ASSUME NEW s \in Seq(PinTargets), NEW p \in PinTargets, s \in P PROVE Append(s, p) \in P
  <2>1. PICK c \in A : c = PinsBack(a, s)
    BY <1>5
  <2>2. PICK h \in Seq(Msgs) : h = c.history
    BY <1>4
  <2>3. PinsIn(s, h)
    BY <1>6, <1>8, <2>1, <2>2
  <2>4. PICK m \in Msgs : m = PinMessage(p)
    BY PinIs
  <2>5. PinsIn(Append(s, p), Append(h, m))
    BY <2>3, <2>4, PinsAppend
  <2>6. PinsBack(a, Append(s, p)).history = Append(h, m)
    BY <1>3, <1>5, <2>1, <2>2, <2>4, Zenon
  <2>7. Append(s, p) \in Seq(PinTargets)
    BY AppendProperties
  <2> QED
    BY <1>6, <2>5, <2>6, <2>7
<1>9. pins \in P
  BY <1>2, <1>7, <1>8, SeqInd
<1>10. b \in A /\ PinsIn(b.pins, b.history)
  BY <1>2, <1>4, <1>5, <1>6, <1>9
<1> QED
  BY <1>4, <1>10 DEF Rests, Kept

\* Memories are due again.
LEMMA RemembersAgain ==
  ASSUME NEW S, NEW F, NEW a, Fine(S, F, a), NEW b, b = [a EXCEPT !.pending = TRUE]
  PROVE  Fine(S, F, b) /\ b.pins = a.pins
<1>1. a \in AgentsOf(S) /\ a.faithful /\ Headed(a.history) /\ Steady(F, a) /\ Reads(Msgs, a.rb, HeadAs(a.history, SystemPrompt(a.logSystem)))
  BY DEF Fine, Sound
<1>2. b \in AgentsOf(S)
  BY <1>1 DEF AgentsOf
<1>3. /\ b.history = a.history /\ b.rb = a.rb /\ b.system = a.system /\ b.logSystem = a.logSystem /\ b.faithful = a.faithful
      /\ b.pins = a.pins
  BY <1>1 DEF AgentsOf
<1>4. Steady(F, b)
  BY <1>1, <1>3 DEF Steady
<1> QED
  BY <1>1, <1>2, <1>3, <1>4 DEF Fine, Sound

LEMMA ClearHistoryRests ==
  ASSUME NEW S, Talks(S), NEW F, "switch" \notin F, NEW a, Rests(S, F, a), NEW b, b = ClearHistory(a)
  PROVE  Rests(S, F, b)
<1>1. Fine(S, F, a) /\ Kept(F, a)
  BY DEF Rests
<1>2. PICK x : x = SystemPrompt(a.system)
  OBVIOUS
<1>3. x = a.history[1]
  BY <1>1, <1>2 DEF Fine, Sound, Steady
<1>4. a.system \in Nat
  BY <1>1, SoundIs DEF Fine
<1>5. x \in S /\ x.role = "system"
  BY <1>2, <1>4, PromptType
<1>6. PICK h : h = <<x>>
  OBVIOUS
<1>7. h \in Seq(S) /\ Headed(h) /\ h[1] = a.history[1]
  BY <1>3, <1>5, <1>6 DEF Headed
<1>8. PICK c : c = SetHistory(a, h)
  OBVIOUS
<1>9. Fine(S, F, c) /\ c.pins = a.pins
  BY <1>1, <1>7, <1>8, SetHistoryIs DEF Keeps
<1>10. PICK d : d = [c EXCEPT !.pending = TRUE]
  OBVIOUS
<1>11. Fine(S, F, d) /\ d.pins = c.pins
  BY <1>9, <1>10, RemembersAgain
<1>12. b = PinsBack(d, a.pins)
  BY <1>2, <1>6, <1>8, <1>10, Zenon DEF ClearHistory, PinsBack
<1>13. "pin" \notin F => a.pins = <<>>
  BY <1>1 DEF Kept
<1> QED
  BY <1>9, <1>11, <1>12, <1>13, PinsBackRests

LEMMA CommandHolds ==
  ASSUME NEW S, NEW F, NEW k, NEW c, NEW b, Holding(S, F, k), Command(c, b), Rests(S, F, b)
  PROVE  Holding(S, F, k)' /\ setup' = setup
BY DEF Command, Holding

LEMMA GiveCommandHolds ==
  ASSUME NEW S, NEW k, Talking(S, k), NEW F, F = setup.features, KeepsStep(F), Holding(S, F, k), GiveCommand
  PROVE  Holding(S, F, k)' /\ setup' = setup
<1>1. Talks(S)
  BY DEF Talking
<1>2. PICK a : a = agent
  OBVIOUS
<1>3. \A c, b : Command(c, b) => c \in F /\ Rests(S, F, a)
  BY <1>2 DEF Command, Holding
<1>4. CASE Command("clear", ClearHistory(agent))
  <2>1. PICK b : b = ClearHistory(a)
    OBVIOUS
  <2>2. Command("clear", b)
    BY <1>2, <1>4, <2>1, Zenon
  <2>3. "switch" \notin F
    BY <1>3, <2>2, NotIn
  <2>4. Rests(S, F, b)
    BY <1>1, <1>3, <2>1, <2>2, <2>3, ClearHistoryRests
  <2> QED
    BY <2>2, <2>4, CommandHolds
<1>5. CASE Command("read", AddPrompt(agent, "read", Msg("user", "read", 0)))
  <2>1. PICK b : b = AddPrompt(a, "read", Msg("user", "read", 0))
    OBVIOUS
  <2>2. Command("read", b)
    BY <1>2, <1>5, <2>1, Zenon
  <2>3. Rests(S, F, b)
    BY <1>1, <1>3, <2>1, <2>2, ReadRests
  <2> QED
    BY <2>2, <2>3, CommandHolds
<1>6. CASE Command("fold", FoldBackTurn(agent))
  <2>1. PICK b : b = FoldBackTurn(a)
    OBVIOUS
  <2>2. Command("fold", b)
    BY <1>2, <1>6, <2>1, Zenon
  <2>3. Rests(S, F, b)
    BY <1>1, <1>3, <2>1, <2>2, FoldBackRests
  <2> QED
    BY <2>2, <2>3, CommandHolds
<1>7. CASE Command("fold", RouteFails(agent))
  <2>1. PICK b : b = RouteFails(a)
    OBVIOUS
  <2>2. Command("fold", b)
    BY <1>2, <1>7, <2>1, Zenon
  <2>3. Rests(S, F, b)
    BY <1>1, <1>3, <2>1, <2>2, RouteFailsRests
  <2> QED
    BY <2>2, <2>3, CommandHolds
<1>8. CASE Command("switch", [agent EXCEPT !.system = 3 - @])
  <2>1. PICK b : b = [a EXCEPT !.system = 3 - @]
    OBVIOUS
  <2>2. Command("switch", b)
    BY <1>2, <1>8, <2>1, Zenon
  <2>3. Rests(S, F, b)
    BY <1>3, <2>1, <2>2, SwitchRests
  <2> QED
    BY <2>2, <2>3, CommandHolds
<1>9. CASE \E p \in PinTargets : Command("pin", AddPin(agent, p))
  <2>1. PICK p \in PinTargets : Command("pin", AddPin(agent, p))
    BY <1>9
  <2>2. PICK b : b = AddPin(a, p)
    OBVIOUS
  <2>3. Command("pin", b)
    BY <1>2, <2>1, <2>2, Zenon
  <2>4. Rests(S, F, b)
    BY <1>1, <1>3, <2>2, <2>3, AddPinRests
  <2> QED
    BY <2>3, <2>4, CommandHolds
<1>10. CASE \E i \in DOMAIN agent.pins : Command("unpin", RemovePin(agent, i))
  <2>1. PICK i \in DOMAIN a.pins : Command("unpin", RemovePin(a, i))
    BY <1>2, <1>10
  <2>2. PICK b : b = RemovePin(a, i)
    OBVIOUS
  <2>3. Command("unpin", b)
    BY <2>1, <2>2, Zenon
  <2>4. Rests(S, F, b)
    BY <1>1, <1>3, <2>2, <2>3, RemovePinRests
  <2> QED
    BY <2>3, <2>4, CommandHolds
<1> QED
  BY <1>4, <1>5, <1>6, <1>7, <1>8, <1>9, <1>10, Zenon DEF GiveCommand

-----------------------------------------------------------------------------
(* The session begins.                                                      *)

LEMMA NewAgentIs ==
  ASSUME NEW S, Talks(S), NEW F, setup.limit \in Nat
  PROVE  Rests(S, F, NewAgent)
<1>1. PICK x : x = SystemPrompt(1)
  OBVIOUS
<1>2. x \in S /\ x \in Msgs /\ x.role = "system" /\ x.text # "pinned"
  <2>1. x.text # "pinned"
    BY <1>1 DEF SystemPrompt, Msg
  <2> QED
    BY <1>1, <2>1, PromptType
<1>3. PICK it : it = Item(x, "system", 0)
  OBVIOUS
<1>4. it.msg = x /\ it.kind = "system" /\ it \in Classified(Msgs)
  BY <1>2, <1>3 DEF Item, Classified, KindIs, ItemsOf, ItemKinds
<1>5. PICK r : r = SetSystem(NewRebuilder, x)
  OBVIOUS
<1>6. PICK its : its = <<it>>
  OBVIOUS
<1>7. its \in Seq(Classified(Msgs)) /\ its # <<>> /\ Len(its) = 1 /\ its[1] = it
  BY <1>4, <1>6
<1>8. r = [NewRebuilder EXCEPT !.items = its]
  BY <1>3, <1>5, <1>6 DEF SetSystem, NewRebuilder
<1>9. r.items = its /\ r.held = <<>> /\ r \in Rebuilders(Msgs) /\ r.calls = 0
  BY <1>7, <1>8 DEF NewRebuilder, Rebuilders
<1>10. PICK h : h = <<x>>
  OBVIOUS
<1>11. h \in Seq(S) /\ h \in Seq(Msgs) /\ Headed(h) /\ h[1] = x /\ Len(h) = 1
  BY <1>2, <1>10 DEF Headed
<1>12. Messages(its) = h
  <2>1. its \in Seq(ItemsOf(Msgs))
    BY <1>7, SeqMonotonic DEF Classified
  <2>2. Messages(its) \in Seq(Msgs) /\ Len(Messages(its)) = 1 /\ Messages(its)[1] = x
    BY <1>4, <1>7, <2>1, MessagesType
  <2> QED
    BY <1>11, <2>2
<1>13. Ready(Msgs, r, h)
  BY <1>7, <1>9, <1>11, <1>12 DEF Ready, Between
<1>14. PICK a : a = NewAgent
  OBVIOUS
<1>15. a = [history |-> h, rb |-> r, system |-> 1, logSystem |-> 1, limit |-> setup.limit, pins |-> <<>>,
            turn |-> 0, retryAfter |-> 0, pending |-> TRUE, faithful |-> TRUE]
  BY <1>1, <1>5, <1>10, <1>14, Zenon DEF NewAgent
<1>16. a \in AgentsOf(S)
  BY <1>9, <1>11, <1>15 DEF AgentsOf
<1>17. a.history = h /\ a.rb = r /\ a.system = 1 /\ a.logSystem = 1 /\ a.faithful = TRUE /\ a.pins = <<>>
  BY <1>15
<1>18. HeadAs(h, SystemPrompt(1)) = h
  BY <1>1, <1>2, <1>11, HeadedAs
<1>19. Steady(F, a)
  BY <1>1, <1>11, <1>17 DEF Steady
<1>20. Reads(Msgs, a.rb, HeadAs(a.history, SystemPrompt(a.logSystem)))
  BY <1>13, <1>17, <1>18, ReadyReads
<1>21. PinsIn(a.pins, a.history)
  <2> SUFFICES ASSUME NEW p \in PinTargets PROVE Times(a.history, PinMessage(p)) >= Times(a.pins, p)
    BY DEF PinsIn
  <2>1. Times(h, PinMessage(p)) \in Nat
    BY <1>11, TimesNat
  <2>2. Times(<<>>, p) = 0
    BY TimesIs
  <2> QED
    BY <1>17, <2>1, <2>2
<1> QED
  BY <1>11, <1>14, <1>16, <1>17, <1>19, <1>20, <1>21 DEF Rests, Fine, Sound, Kept

-----------------------------------------------------------------------------
(* Every step, and the session.                                             *)

\* With tool results compacted no message of the history makes calls.
TalkOf(k) == IF k THEN Quiet ELSE Msgs

LEMMA TalkIs == \A k \in BOOLEAN : Talking(TalkOf(k), k)
<1>1. Quiet \subseteq Msgs
  BY DEF Quiet
<1> QED
  BY <1>1 DEF TalkOf, Talking, Talks

LEMMA SetupIs ==
  ASSUME setup \in Setups
  PROVE  setup.window \in Nat /\ setup.limit \in Nat /\ setup.compaction \in BOOLEAN
BY SetupsOK

LEMMA StepHolds ==
  ASSUME NEW k, k = setup.compaction, NEW S, Talking(S, k), NEW F, F = setup.features, setup \in Setups,
         KeepsStep(F), Holding(S, F, k), ChatNext
  PROVE  Holding(S, F, k)' /\ setup' = setup
<1>1. setup.window \in Nat /\ MaxIterations \in Nat /\ ToolModes \subseteq BOOLEAN
  BY SetupIs, SetupsOK
<1>2. CASE Ask
  BY <1>1, <1>2, AskHolds
<1>3. CASE AnswerToolCalls
  BY <1>1, <1>3, AnswerToolCallsHolds
<1>4. CASE AnswerText
  BY <1>4, AnswerTextHolds
<1>5. CASE CallFails
  BY <1>5, CallFailsHolds
<1>6. CASE Cancel
  BY <1>6, CancelHolds
<1>7. CASE GiveCommand
  BY <1>7, GiveCommandHolds
<1> QED
  BY <1>2, <1>3, <1>4, <1>5, <1>6, <1>7, Zenon DEF ChatNext, ModelAnswers

\* Whatever happens, the session stays the one that was started.
LEMMA SetupStays ==
  ASSUME ChatNext
  PROVE  setup' = setup
<1>1. \A outcomes : Continue(outcomes) => setup' = setup
  BY DEF Continue
<1>2. CASE Ask
  BY <1>1, <1>2, Zenon DEF Ask
<1>3. CASE AnswerToolCalls
  <2>1. \E outcomes : Continue(outcomes)
    BY <1>3, Zenon DEF AnswerToolCalls
  <2> QED
    BY <1>1, <2>1
<1>4. CASE AnswerText
  <2>1. Continue(UNION {AfterMessage(m) : m \in ReplyMessages})
    BY <1>4 DEF AnswerText, AfterMessage, ReplyMessages
  <2> QED
    BY <1>1, <2>1
<1>5. CASE CallFails
  <2>1. \E outcomes : Continue(outcomes)
    BY <1>5, Zenon DEF CallFails
  <2> QED
    BY <1>1, <2>1
<1>6. CASE Cancel
  BY <1>6 DEF Cancel
<1>7. CASE GiveCommand
  <2>1. \A c, b : Command(c, b) => setup' = setup
    BY DEF Command
  <2> QED
    BY <1>7, <2>1, Zenon DEF GiveCommand
<1> QED
  BY <1>2, <1>3, <1>4, <1>5, <1>6, <1>7, Zenon DEF ChatNext, ModelAnswers

\* Between two answers of the model the log tells the prompt sent, and between turns the history; and both have
\* the messages of the pins.
Conversing ==
  /\ setup \in Setups
  /\ KeepsStep(setup.features) => Holding(TalkOf(setup.compaction), setup.features, setup.compaction)

LEMMA ConversingFirst == ChatInit => Conversing
<1> SUFFICES ASSUME ChatInit PROVE Conversing
  OBVIOUS
<1>1. setup \in Setups /\ agent = NewAgent /\ call.form = "none" /\ sent = <<>>
  BY DEF ChatInit, NoCall
<1>2. setup.limit \in Nat /\ setup.compaction \in BOOLEAN
  BY <1>1, SetupIs
<1>3. PICK S : S = TalkOf(setup.compaction)
  OBVIOUS
<1>4. Talks(S)
  BY <1>2, <1>3, TalkIs DEF Talking
<1>5. Rests(S, setup.features, agent)
  BY <1>1, <1>2, <1>4, NewAgentIs
<1> QED
  BY <1>1, <1>3, <1>5 DEF Conversing, Holding

LEMMA ConversingOn == Conversing /\ [ChatNext]_chatVars => Conversing'
<1> SUFFICES ASSUME Conversing, [ChatNext]_chatVars PROVE Conversing'
  OBVIOUS
<1>1. CASE UNCHANGED chatVars
  BY <1>1 DEF chatVars, Conversing, Holding
<1>2. CASE ChatNext
  <2>1. setup' = setup
    BY <1>2, SetupStays
  <2>2. setup \in Setups
    BY DEF Conversing
  <2>3. ASSUME KeepsStep(setup.features)
        PROVE  Holding(TalkOf(setup.compaction), setup.features, setup.compaction)'
    <3>1. PICK k : k = setup.compaction
      OBVIOUS
    <3>2. PICK S : S = TalkOf(k)
      OBVIOUS
    <3>3. PICK F : F = setup.features
      OBVIOUS
    <3>4. Talking(S, k)
      BY <2>2, <3>1, <3>2, SetupIs, TalkIs
    <3>5. Holding(S, F, k)
      BY <2>3, <3>1, <3>2, <3>3 DEF Conversing
    <3>6. Holding(S, F, k)'
      BY <1>2, <2>2, <2>3, <3>1, <3>3, <3>4, <3>5, StepHolds
    <3> QED
      BY <2>1, <3>1, <3>2, <3>3, <3>6 DEF Holding
  <2> QED
    BY <2>1, <2>2, <2>3 DEF Conversing
<1> QED
  BY <1>1, <1>2

-----------------------------------------------------------------------------
(* What it means.                                                           *)

LEMMA HoldingIs ==
  ASSUME NEW S, NEW F, NEW k, Holding(S, F, k)
  PROVE  Sound(S, F, agent) /\ Kept(F, agent)
BY DEF Holding, Rests, Fine, Waits, Awaited, Told

LEMMA HoldingRebuilt ==
  ASSUME Conversing, KeepsStep(setup.features)
  PROVE  RequestsRebuilt
BY HoldingIs DEF Conversing, RequestsRebuilt, Sound

LEMMA TailsAlike ==
  ASSUME NEW h \in Seq(Msgs), Headed(h), NEW x \in Msgs, x.role = "system"
  PROVE  Tail(HeadAs(h, x)) = Tail(h)
<1>1. PICK g : g = HeadAs(h, x)
  OBVIOUS
<1>2. g \in Seq(Msgs) /\ Len(g) = Len(h) /\ Same(h, g) /\ g # <<>> /\ h # <<>>
  BY <1>1, HeadedAs DEF Headed
<1>3. Tail(g) \in Seq(Msgs) /\ Tail(h) \in Seq(Msgs) /\ Len(Tail(g)) = Len(g) - 1 /\ Len(Tail(h)) = Len(h) - 1
      /\ \A i \in 1 .. Len(h) - 1 : Tail(g)[i] = g[i + 1] /\ Tail(h)[i] = h[i + 1]
  BY <1>2
<1>4. \A i \in 1 .. Len(h) - 1 : g[i + 1] = h[i + 1]
  BY <1>2 DEF Same
<1> QED
  BY <1>1, <1>2, <1>3, <1>4

LEMMA HoldingKept ==
  ASSUME Conversing, KeepsStep(setup.features)
  PROVE  LogKeepsHistory
<1> SUFFICES ASSUME call.form = "none" PROVE Tail(Messages(RebuildItems(agent.rb))) = Tail(agent.history)
  BY DEF LogKeepsHistory
<1>1. PICK S : S = TalkOf(setup.compaction)
  OBVIOUS
<1>2. PICK F : F = setup.features
  OBVIOUS
<1>3. Talks(S)
  BY <1>1, SetupIs, TalkIs DEF Conversing, Talking
<1>4. Fine(S, F, agent)
  BY <1>1, <1>2 DEF Conversing, Holding, Rests
<1>5. agent.history \in Seq(Msgs) /\ Headed(agent.history) /\ agent.logSystem \in Nat
  BY <1>3, <1>4, SoundIs DEF Fine
<1>6. PICK x : x = SystemPrompt(agent.logSystem)
  OBVIOUS
<1>7. x \in Msgs /\ x.role = "system"
  BY <1>3, <1>5, <1>6, PromptType
<1>8. Messages(RebuildItems(agent.rb)) = HeadAs(agent.history, x)
  BY <1>4, <1>6 DEF Fine, Reads, RebuildItems
<1> QED
  BY <1>5, <1>7, <1>8, TailsAlike

LEMMA HoldingCalls ==
  ASSUME Conversing, KeepsStep(setup.features), setup.compaction
  PROVE  CallsHaveResults
<1> SUFFICES ASSUME NEW i \in DOMAIN sent, NEW j \in 1 .. sent[i].calls
             PROVE  i + j \in DOMAIN sent /\ sent[i + j].role = "tool" /\ sent[i + j].n = j - 1
  BY DEF CallsHaveResults
<1>1. PICK S, F, k : S = TalkOf(setup.compaction) /\ F = setup.features /\ k = setup.compaction
  OBVIOUS
<1>2. Talking(S, k) /\ Holding(S, F, k)
  BY <1>1, SetupIs, TalkIs DEF Conversing
<1>3. Waits(S, F, k, agent, call, sent)
  <2>1. sent # <<>>
    OBVIOUS
  <2> QED
    BY <1>2, <2>1 DEF Holding
<1>4. sent \in Seq(Msgs) /\ RoundAt(k, agent, call, sent) /\ i \in 1 .. Len(sent) /\ sent[i] \in Msgs
  <2>1. sent \in Seq(Msgs) /\ RoundAt(k, agent, call, sent)
    BY <1>2, <1>3, WaitsIs
  <2> QED
    BY <2>1
<1>5. i \in Calling(sent)
  BY <1>4 DEF Calling, Msgs, Message
<1>6. i = call.round /\ AnsweredAt(sent, i)
  BY <1>1, <1>4, <1>5 DEF RoundAt
<1>7. j = 1
  BY <1>6 DEF AnsweredAt
<1> QED
  BY <1>4, <1>6, <1>7 DEF AnsweredAt

\* A pin is in the prompt as often as it is pinned.
LEMMA PinnedIn ==
  ASSUME NEW pins \in Seq(PinTargets), NEW h \in Seq(Msgs), NEW t \in Seq(Msgs), PinsIn(pins, h), More(h, t), NEW i \in 1 .. Len(pins)
  PROVE  Contains(t, PinMessage(pins[i]))
<1>1. PICK p \in PinTargets : p = pins[i]
  BY Around
<1>2. PICK rest : rest = RemoveAt(pins, i)
  OBVIOUS
<1>3. Times(pins, p) = Times(rest, p) + (IF p = p THEN 1 ELSE 0) /\ Times(pins, p) \in Nat /\ Times(rest, p) \in Nat
  BY <1>1, <1>2, TimesRemoved
<1>4. Times(h, PinMessage(p)) >= Times(pins, p) /\ Times(t, PinMessage(p)) >= Times(h, PinMessage(p))
  BY DEF PinsIn, More
<1>5. PICK x : x = PinMessage(p)
  OBVIOUS
<1>6. Times(h, x) \in Nat /\ Times(t, x) \in Nat
  BY TimesNat
<1>7. Times(t, x) # 0
  BY <1>3, <1>4, <1>5, <1>6
<1>8. PICK j \in 1 .. Len(t) : t[j] = x
  BY <1>7, TimesOf
<1> QED
  BY <1>1, <1>5, <1>8 DEF Contains

LEMMA HoldingPins ==
  ASSUME Conversing, KeepsStep(setup.features), "switch" \in setup.features => "pin" \notin setup.features
  PROVE  PinsInEveryPrompt
<1> SUFFICES ASSUME call.form # "none", NEW i \in DOMAIN agent.pins PROVE Contains(sent, PinMessage(agent.pins[i]))
  BY DEF PinsInEveryPrompt
<1>1. PICK S : S = TalkOf(setup.compaction)
  OBVIOUS
<1>2. PICK F : F = setup.features
  OBVIOUS
<1>3. Talks(S)
  BY <1>1, SetupIs, TalkIs DEF Conversing, Talking
<1>4. Told(S, F, agent, sent)
  BY <1>1, <1>2 DEF Conversing, Holding, Waits, Awaited
<1>5. agent.history \in Seq(Msgs) /\ agent.pins \in Seq(PinTargets) /\ sent \in Seq(Msgs)
  BY <1>3, <1>4, SoundIs DEF Told, Reads
<1>6. i \in 1 .. Len(agent.pins)
  BY <1>5, LenProperties
<1>7. Kept(F, agent) /\ Prefix_(agent.history, sent)
  BY <1>4 DEF Told
<1>8. "switch" \notin F
  BY <1>2, <1>5, <1>6, <1>7 DEF Kept
<1>9. PinsIn(agent.pins, agent.history)
  BY <1>7, <1>8 DEF Kept
<1>10. More(agent.history, sent)
  BY <1>5, <1>7, MorePrefix
<1>11. PICK pins \in Seq(PinTargets), h \in Seq(Msgs), t \in Seq(Msgs) : pins = agent.pins /\ h = agent.history /\ t = sent
  BY <1>5
<1>12. Contains(t, PinMessage(pins[i]))
  BY <1>6, <1>9, <1>10, <1>11, PinnedIn
<1> QED
  BY <1>11, <1>12

-----------------------------------------------------------------------------

LEMMA ChatInvariance == ChatSpec => []Conversing
<1>1. ChatInit => Conversing
  BY ConversingFirst
<1>2. Conversing /\ [ChatNext]_chatVars => Conversing'
  BY ConversingOn
<1> QED
  BY <1>1, <1>2, PTL DEF ChatSpec

\* Every prompt sent in a turn is the list that replaying the log up to the request gives, whatever the author
\* asks and commands and the model answers, whatever the limits (the claim of promptrebuild.go's comment): in a
\* session with one tool call in a round, and without the features of OutOfStep and a cleared history after a
\* change of model.
THEOREM RequestsAreRebuilt == ChatSpec => [](KeepsStep(setup.features) => RequestsRebuilt)
<1>1. Conversing => (KeepsStep(setup.features) => RequestsRebuilt)
  BY HoldingRebuilt
<1> QED
  BY <1>1, ChatInvariance, PTL

\* With tool results compacted, as they are by default (tool_result_compaction), no prompt of such a session has a
\* tool call without its result right after it: neither a loop, nor trimming, nor a late Ctrl-C comes between them.
THEOREM CallsKeepResults ==
  ChatSpec => [](KeepsStep(setup.features) /\ setup.compaction => CallsHaveResults)
<1>1. Conversing => (KeepsStep(setup.features) /\ setup.compaction => CallsHaveResults)
  BY HoldingCalls
<1> QED
  BY <1>1, ChatInvariance, PTL

\* In such a session replaying the log gives the history between turns, but for the version of its system prompt:
\* the assembler and the rolling summary (assemble.go, assemble_summary.go) always have the history they work on.
THEOREM HistoryIsKept == ChatSpec => [](KeepsStep(setup.features) => LogKeepsHistory)
<1>1. Conversing => (KeepsStep(setup.features) => LogKeepsHistory)
  BY HoldingKept
<1> QED
  BY <1>1, ChatInvariance, PTL

\* What the author pinned (cmdPin) is in every prompt until it is unpinned, through trimming, assembling, summaries,
\* retries and a cleared history: in such a session that does not both pin and change the model.
THEOREM PinsStayInPrompts ==
  ChatSpec => [](KeepsStep(setup.features) /\ ~({"switch", "pin"} \subseteq setup.features) => PinsInEveryPrompt)
<1>1. Conversing => (KeepsStep(setup.features) /\ ~({"switch", "pin"} \subseteq setup.features) => PinsInEveryPrompt)
  BY HoldingPins
<1> QED
  BY <1>1, ChatInvariance, PTL

=============================================================================
