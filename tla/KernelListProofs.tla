--------------------------- MODULE KernelListProofs ---------------------------
(* What the list operations do, for every list.                            *)
EXTENDS KernelList, TLAPS, SequenceTheorems

(* list_del of the entry at place k of a list without double links: the    *)
(* entries after it move up one place and nothing else changes.            *)
LEMMA ListDel ==
    ASSUME NEW S, NEW q \in Seq(S), LinkedOnce(q), NEW k \in 1..Len(q)
    PROVE  /\ list_del(q[k], q) \in Seq(S)
           /\ Len(list_del(q[k], q)) = Len(q) - 1
           /\ \A j \in 1..(Len(q) - 1) :
                list_del(q[k], q)[j] = IF j < k THEN q[j] ELSE q[j + 1]
           /\ LinkedOnce(list_del(q[k], q))
           /\ Entries(list_del(q[k], q)) = Entries(q) \ {q[k]}
<1> DEFINE d == [j \in 1..(Len(q) - 1) |-> IF j < k THEN q[j] ELSE q[j + 1]]
<1>1. (CHOOSE i \in 1..Len(q) : q[i] = q[k]) = k
  BY DEF LinkedOnce
<1>2. list_del(q[k], q) = d
  BY <1>1 DEF list_del
<1>3. Len(q) \in Nat /\ Len(q) - 1 \in Nat
  OBVIOUS
<1>4. \A j \in 1..(Len(q) - 1) : d[j] \in S
  BY <1>3
<1>5. d \in Seq(S) /\ Len(d) = Len(q) - 1
  <2>1. d \in [1..(Len(q) - 1) -> S]
    BY <1>4
  <2>2. d \in Seq(S)
    BY <1>3, <2>1, SeqDef
  <2> QED BY <1>3, <2>1, <2>2
<1>6. LinkedOnce(d)
  <2> SUFFICES ASSUME NEW i \in 1..(Len(q) - 1), NEW j \in 1..(Len(q) - 1),
                      d[i] = d[j]
               PROVE  i = j
    BY <1>5 DEF LinkedOnce
  <2> DEFINE at(x) == IF x < k THEN x ELSE x + 1
  <2>1. at(i) \in 1..Len(q) /\ at(j) \in 1..Len(q)
    BY <1>3
  <2>2. d[i] = q[at(i)] /\ d[j] = q[at(j)]
    OBVIOUS
  <2>3. at(i) = at(j)
    BY <2>1, <2>2 DEF LinkedOnce
  <2> QED BY <2>3
<1>7. Entries(d) = Entries(q) \ {q[k]}
  <2>1. ASSUME NEW j \in 1..(Len(q) - 1) PROVE d[j] \in Entries(q) \ {q[k]}
    <3>1. CASE j < k
      BY <3>1, <1>3 DEF Entries, LinkedOnce
    <3>2. CASE ~(j < k)
      <4>1. j + 1 \in 1..Len(q) /\ j + 1 # k
        BY <3>2, <1>3
      <4>2. d[j] = q[j + 1]
        BY <3>2
      <4> QED BY <4>1, <4>2 DEF Entries, LinkedOnce
    <3> QED BY <3>1, <3>2
  <2>2. ASSUME NEW i \in 1..Len(q), i # k PROVE q[i] \in Entries(d)
    <3>1. CASE i < k
      <4>1. i \in 1..(Len(q) - 1) /\ d[i] = q[i]
        BY <3>1, <1>3
      <4> QED BY <4>1, <1>5 DEF Entries
    <3>2. CASE ~(i < k)
      <4>1. i - 1 \in 1..(Len(q) - 1) /\ ~(i - 1 < k) /\ (i - 1) + 1 = i
        BY <3>2, <2>2, <1>3
      <4>2. d[i - 1] = q[i]
        BY <4>1
      <4> QED BY <4>1, <4>2, <1>5 DEF Entries
    <3> QED BY <3>1, <3>2
  <2>3. \A e \in Entries(d) : e \in Entries(q) \ {q[k]}
    BY <2>1, <1>5 DEF Entries
  <2>4. \A e \in Entries(q) \ {q[k]} : e \in Entries(d)
    BY <2>2 DEF Entries
  <2> QED BY <2>3, <2>4
<1> QED BY <1>2, <1>5, <1>6, <1>7

(* list_add_tail of an entry that is not linked.                           *)
LEMMA ListAddTail ==
    ASSUME NEW S, NEW q \in Seq(S), NEW b \in S
    PROVE  /\ list_add_tail(b, q) \in Seq(S)
           /\ Len(list_add_tail(b, q)) = Len(q) + 1
           /\ \A j \in 1..Len(q) : list_add_tail(b, q)[j] = q[j]
           /\ list_add_tail(b, q)[Len(q) + 1] = b
           /\ Entries(list_add_tail(b, q)) = Entries(q) \cup {b}
           /\ LinkedOnce(q) /\ b \notin Entries(q)
                => LinkedOnce(list_add_tail(b, q))
<1>1. /\ Append(q, b) \in Seq(S)
      /\ Len(Append(q, b)) = Len(q) + 1
      /\ \A j \in 1..Len(q) : Append(q, b)[j] = q[j]
      /\ Append(q, b)[Len(q) + 1] = b
      /\ Len(q) \in Nat
  OBVIOUS
<1>2. Entries(Append(q, b)) = Entries(q) \cup {b}
  <2>1. \A j \in 1..(Len(q) + 1) : j \in 1..Len(q) \/ j = Len(q) + 1
    BY <1>1
  <2>2. \A j \in 1..Len(q) : j \in 1..(Len(q) + 1)
    BY <1>1
  <2>3. Len(q) + 1 \in 1..(Len(q) + 1)
    BY <1>1
  <2> QED BY <1>1, <2>1, <2>2, <2>3 DEF Entries
<1>3. ASSUME LinkedOnce(q), b \notin Entries(q)
      PROVE  LinkedOnce(Append(q, b))
  <2> SUFFICES ASSUME NEW i \in 1..(Len(q) + 1), NEW j \in 1..(Len(q) + 1),
                      Append(q, b)[i] = Append(q, b)[j]
               PROVE  i = j
    BY <1>1 DEF LinkedOnce
  <2>1. \A x \in 1..Len(q) : q[x] # b
    BY <1>3 DEF Entries
  <2> QED BY <1>1, <1>3, <2>1 DEF LinkedOnce
<1> QED BY <1>1, <1>2, <1>3 DEF list_add_tail

(* Taking the first entry off a list without double links.                 *)
LEMMA ListTail ==
    ASSUME NEW S, NEW q \in Seq(S), LinkedOnce(q), q # <<>>
    PROVE  /\ Tail(q) \in Seq(S)
           /\ Len(Tail(q)) = Len(q) - 1
           /\ Head(q) = q[1] /\ Head(q) \in S
           /\ \A j \in 1..(Len(q) - 1) : Tail(q)[j] = q[j + 1]
           /\ LinkedOnce(Tail(q))
           /\ Head(q) \in Entries(q)
           /\ Entries(Tail(q)) = Entries(q) \ {Head(q)}
<1>1. Len(q) \in Nat \ {0}
  BY EmptySeq
<1>2. /\ Tail(q) \in Seq(S)
      /\ Len(Tail(q)) = Len(q) - 1
      /\ Head(q) = q[1] /\ Head(q) \in S
      /\ \A j \in 1..(Len(q) - 1) : Tail(q)[j] = q[j + 1]
  BY <1>1
<1>3. 1 \in 1..Len(q)
  BY <1>1
<1>4. ASSUME NEW k \in 1..Len(q)
      PROVE  /\ list_del(q[k], q) \in Seq(S)
             /\ Len(list_del(q[k], q)) = Len(q) - 1
             /\ \A j \in 1..(Len(q) - 1) :
                  list_del(q[k], q)[j] = IF j < k THEN q[j] ELSE q[j + 1]
             /\ LinkedOnce(list_del(q[k], q))
             /\ Entries(list_del(q[k], q)) = Entries(q) \ {q[k]}
  BY ListDel
<1>5. Tail(q) = list_del(q[1], q)
  <2>1. /\ list_del(q[1], q) \in Seq(S)
        /\ Len(list_del(q[1], q)) = Len(q) - 1
        /\ \A j \in 1..(Len(q) - 1) : list_del(q[1], q)[j] = q[j + 1]
    BY <1>3, <1>4
  <2>2. \A j \in 1..Len(Tail(q)) : Tail(q)[j] = list_del(q[1], q)[j]
    BY <1>2, <2>1
  <2> QED BY <1>2, <2>1, <2>2, SeqEqual
<1>6. LinkedOnce(Tail(q)) /\ Entries(Tail(q)) = Entries(q) \ {q[1]}
  BY <1>3, <1>4, <1>5
<1>7. q[1] \in Entries(q)
  BY <1>3 DEF Entries
<1> QED BY <1>2, <1>6, <1>7
===============================================================================
