----------------------------- MODULE SeqLemmas -----------------------------
(* Facts about sequences used as queues: taking the head, joining at the end. *)
EXTENDS Naturals, Sequences, TLAPS

(* The elements of a queue after its head was taken ... *)
LEMMA TailElems ==
    ASSUME NEW S, NEW q \in Seq(S), q # <<>>
    PROVE  /\ Head(q) \in S /\ 1 \in DOMAIN q /\ Head(q) = q[1]
           /\ \A i \in DOMAIN Tail(q) : i + 1 \in DOMAIN q /\ Tail(q)[i] = q[i + 1] /\ i + 1 # 1
  OBVIOUS

(* ... are still distinct, if they were. *)
LEMMA TailDistinct ==
    ASSUME NEW S, NEW q \in Seq(S), q # <<>>,
           \A i, j \in DOMAIN q : q[i] = q[j] => i = j
    PROVE  \A i, j \in DOMAIN Tail(q) : Tail(q)[i] = Tail(q)[j] => i = j
<1> TAKE i, j \in DOMAIN Tail(q)
<1>1. i \in Nat /\ j \in Nat
  OBVIOUS
<1>2. /\ i + 1 \in DOMAIN q /\ Tail(q)[i] = q[i + 1]
      /\ j + 1 \in DOMAIN q /\ Tail(q)[j] = q[j + 1]
  BY TailElems
<1> QED BY <1>1, <1>2

(* The elements of a queue after something joined it. *)
LEMMA AppendElems ==
    ASSUME NEW S, NEW q \in Seq(S), NEW x \in S
    PROVE  \A i \in DOMAIN Append(q, x) :
              \/ i \in DOMAIN q /\ Append(q, x)[i] = q[i]
              \/ i = Len(q) + 1 /\ i \notin DOMAIN q /\ Append(q, x)[i] = x
  OBVIOUS

(* x is in the queue q, and q holds nothing twice. *)
InSeq(x, q)  == \E i \in DOMAIN q : q[i] = x
Distinct(q)  == \A i, j \in DOMAIN q : q[i] = q[j] => i = j

(* Taking the head of a queue without repeats removes just that. *)
LEMMA TailIn ==
    ASSUME NEW S, NEW q \in Seq(S), q # <<>>, Distinct(q)
    PROVE  /\ Head(q) \in S /\ InSeq(Head(q), q)
           /\ Tail(q) \in Seq(S) /\ Distinct(Tail(q))
           /\ \A x : InSeq(x, Tail(q)) <=> InSeq(x, q) /\ x # Head(q)
<1>1. Head(q) \in S /\ 1 \in DOMAIN q /\ Head(q) = q[1] /\ Tail(q) \in Seq(S)
  BY TailElems
<1>2. Distinct(Tail(q))
  BY TailDistinct DEF Distinct
<1>3. ASSUME NEW x, InSeq(x, Tail(q)) PROVE InSeq(x, q) /\ x # Head(q)
  BY <1>1, <1>3, TailElems DEF InSeq, Distinct
<1>4. ASSUME NEW x, InSeq(x, q), x # Head(q) PROVE InSeq(x, Tail(q))
  <2>1. PICK i \in DOMAIN q : q[i] = x
    BY <1>4 DEF InSeq
  <2>2. i \in Nat /\ i # 1 /\ i >= 1 /\ i <= Len(q)
    BY <1>1, <1>4, <2>1
  <2>3. i - 1 \in DOMAIN Tail(q) /\ Tail(q)[i - 1] = q[i]
    BY <2>2
  <2> QED BY <2>1, <2>3 DEF InSeq
<1> QED BY <1>1, <1>2, <1>3, <1>4 DEF InSeq

(* Joining a queue one is not in adds just that. *)
LEMMA AppendIn ==
    ASSUME NEW S, NEW q \in Seq(S), NEW x \in S, Distinct(q), ~InSeq(x, q)
    PROVE  /\ Append(q, x) \in Seq(S) /\ Distinct(Append(q, x))
           /\ \A y : InSeq(y, Append(q, x)) <=> InSeq(y, q) \/ y = x
<1>1. Append(q, x) \in Seq(S)
  OBVIOUS
<1>2. Distinct(Append(q, x))
  BY AppendElems DEF Distinct, InSeq
<1>3. \A y : InSeq(y, Append(q, x)) => InSeq(y, q) \/ y = x
  BY AppendElems DEF InSeq
<1>4. \A i \in DOMAIN q : i \in DOMAIN Append(q, x) /\ Append(q, x)[i] = q[i]
  OBVIOUS
<1>5. Len(q) + 1 \in DOMAIN Append(q, x) /\ Append(q, x)[Len(q) + 1] = x
  OBVIOUS
<1> QED BY <1>1, <1>2, <1>3, <1>4, <1>5 DEF InSeq
=============================================================================
